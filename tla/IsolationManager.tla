--------------------------- MODULE IsolationManager ---------------------------
(***************************************************************************)
(* The commit path of the MVCC storage: snapshots are opened at the        *)
(* watermark, a commit takes a sequence number from the durability client, *)
(* is validated against every concurrent predecessor of the Timeline (or,  *)
(* once their window has been freed, of the log), is written to the        *)
(* keyspaces and finally moves the watermark.                              *)
(*                                                                         *)
(* Each element of Txn is one snapshot, run by a thread of its own.  Every *)
(* atomic access that another thread can observe is a step of its own.     *)
(* The wait for the fsync of the record is left out: it only delays a      *)
(* thread that nobody waits for under a lock.                              *)
(***************************************************************************)
EXTENDS Integers, FiniteSets, CommitRecords

CONSTANTS
    Txn,         \* snapshots
    Ops,         \* the operation buffers that clients may commit
    First,       \* the next sequence number when the manager was created
    MaxSeq,      \* bound: the last sequence number the model hands out
    WindowSize,  \* TIMELINE_WINDOW_SIZE
    Durable,     \* TRUE: WALClient, FALSE: NoopDurabilityClient
    OpenAtSeqs,  \* the sequence numbers that open_snapshot_*_at is called with
    Faults       \* TRUE: log and keyspace accesses may return an error

Slot == First..MaxSeq
NoRecord == [none |-> TRUE]
Record == [open : Nat, ops : Buffer]

ASSUME ConstantsAssumption ==
    /\ First \in Nat \ {0}
    /\ MaxSeq \in Nat /\ First <= MaxSeq
    /\ WindowSize \in Nat \ {0}
    /\ Durable \in BOOLEAN
    /\ Faults \in BOOLEAN
    /\ Ops \subseteq Buffer
    /\ OpenAtSeqs \subseteq Nat

\* Readers are counted: the snapshots of one run are finitely many
ASSUME FiniteSnapshots == IsFiniteSet(Txn)

VARIABLES
    \* shared state
    nextSeq,    \* the durability client's counter
    log,        \* commit records by sequence number, in the log and the timeline
    statuses,   \* StatusRecords in the log, by the commit they are about
    kv,         \* versions of each key in the keyspaces
    status,     \* SlotMarker of every slot of the timeline
    front, back,\* indices of the first window held, and of the one after the last
    readers,    \* reader count of every window
    watermark,
    highest,    \* highest_validated_sequence_number
    \* state of each snapshot's thread
    pc, target, open, ops, reinsert, seq, first, at, known, cand,
    \* history
    acked,      \* highest sequence number of a commit that has returned Ok
    floor       \* acked, when the snapshot began to open

logVars == <<nextSeq, log, statuses>>
windowVars == <<front, back, readers>>
markVars == <<watermark, highest>>
openVars == <<target, open, floor>>
commitVars == <<ops, reinsert, seq>>
validateVars == <<first, at, known>>
vars == <<nextSeq, log, statuses, kv, status, front, back, readers, watermark,
          highest, pc, target, open, ops, reinsert, seq, first, at, known, cand,
          acked, floor>>

Goto(t, label) == pc' = [pc EXCEPT ![t] = label]

-----------------------------------------------------------------------------
(* Windows. Window i holds the slots Start(i) .. Start(i + 1) - 1.           *)

Start(i) == First + i * WindowSize
WindowOf(s) == (s - First) \div WindowSize
WindowIndex == 0..(MaxSeq - First + 1)

\* resolve_window finds an index
Held(s) == Start(front) <= s /\ s < Start(back)

\* Mutant: readers are ignored
FreeableInUse(i, w) == i < back /\ w >= Start(i + 1)

Freeable(i, w) == i < back /\ w >= Start(i + 1) /\ readers[i] = 0

\* may_free_windows: pop from the front while the window there is freeable; the
\* watermark w is read first, and may have moved since
FreeWindows ==
    \E w \in (First - 1)..watermark, i \in front..back :
        /\ \A j \in front..(i - 1) : Freeable(j, w)
        /\ ~Freeable(i, w)
        /\ front' = i

Visible(k, s) == VisibleIn(kv, k, s)
InitialReinsert(o, s) == StalePuts(o, kv, s)

-----------------------------------------------------------------------------
(* Opening and closing snapshots.                                            *)

\* Mutant: the snapshot does not wait for the commits already validated
BeginOpenAnywhere(t) ==
    /\ pc[t] = "idle"
    /\ floor' = [floor EXCEPT ![t] = acked]
    /\ Goto(t, "opening")
    /\ UNCHANGED <<logVars, kv, status, windowVars, markVars, target, open, commitVars,
                   validateVars, cand, acked>>

\* open_snapshot_write, open_snapshot_read and open_snapshot_schema
BeginOpen(t) ==
    /\ pc[t] = "idle"
    /\ target' = [target EXCEPT ![t] = highest]
    /\ floor' = [floor EXCEPT ![t] = acked]
    /\ Goto(t, "opening")
    /\ UNCHANGED <<logVars, kv, status, windowVars, markVars, open, commitVars,
                   validateVars, cand, acked>>

BeginOpenAt(t) ==
    /\ pc[t] = "idle"
    /\ \E s \in OpenAtSeqs : target' = [target EXCEPT ![t] = s]
    /\ Goto(t, "openingAt")
    /\ UNCHANGED <<logVars, kv, status, windowVars, markVars, open, floor, commitVars,
                   validateVars, cand, acked>>

\* Mutant: the snapshot is opened at the validated commits without waiting
OpenSnapshotUnsettled(t) ==
    /\ pc[t] \in {"opening", "openingAt"}
    /\ open' = [open EXCEPT ![t] = target[t]]
    /\ Goto(t, "reading") \/ Goto(t, "registering")
    /\ UNCHANGED <<logVars, kv, status, windowVars, markVars, target, floor, commitVars,
                   validateVars, cand, acked>>

\* wait_for_watermark returns; a ReadSnapshot is not registered with the timeline
OpenSnapshot(t) ==
    /\ pc[t] \in {"opening", "openingAt"}
    /\ watermark >= target[t]
    /\ open' = [open EXCEPT ![t] = IF pc[t] = "opening" THEN watermark ELSE target[t]]
    /\ \/ Goto(t, "reading")
       \/ Goto(t, "registering")
    /\ UNCHANGED <<logVars, kv, status, windowVars, markVars, target, floor, commitVars,
                   validateVars, cand, acked>>

\* opened_for_read: nothing is counted when the window is not held
RecordReader(t) ==
    /\ pc[t] = "registering"
    /\ readers' = IF Held(open[t])
                  THEN [readers EXCEPT ![WindowOf(open[t])] = @ + 1] ELSE readers
    /\ Goto(t, "open")
    /\ UNCHANGED <<logVars, kv, status, front, back, markVars, openVars, commitVars,
                   validateVars, cand, acked>>

CloseRead(t) ==
    /\ pc[t] = "reading"
    /\ Goto(t, "closed")
    /\ UNCHANGED <<logVars, kv, status, windowVars, markVars, openVars, commitVars,
                   validateVars, cand, acked>>

\* An empty commit, one whose finalisation fails and one whose puts cannot be
\* read (set_initial_put_status) drop the snapshot without close_resources
DropUnclosed(t) ==
    /\ pc[t] = "open"
    /\ Goto(t, "dropped")
    /\ UNCHANGED <<logVars, kv, status, windowVars, markVars, openVars, commitVars,
                   validateVars, cand, acked>>

\* remove_reader; "closing" frees windows when the count drops to zero
RemoveReader(t, freeing, next) ==
    IF Held(open[t])
    THEN /\ readers' = [readers EXCEPT ![WindowOf(open[t])] = @ - 1]
         /\ Goto(t, IF readers'[WindowOf(open[t])] = 0 THEN freeing ELSE next)
    ELSE /\ Goto(t, next)
         /\ UNCHANGED readers

Close(t) ==
    /\ pc[t] = "open"
    /\ RemoveReader(t, "closing", "closed")
    /\ UNCHANGED <<logVars, kv, status, front, back, markVars, openVars, commitVars,
                   validateVars, cand, acked>>

FreeAfterClose(t) ==
    /\ pc[t] = "closing"
    /\ FreeWindows
    /\ Goto(t, "closed")
    /\ UNCHANGED <<logVars, kv, status, back, readers, markVars, openVars, commitVars,
                   validateVars, cand, acked>>

-----------------------------------------------------------------------------
(* snapshot_commit, up to the decision.                                      *)

\* set_initial_put_status
BeginCommit(t) ==
    /\ pc[t] = "open"
    /\ \E o \in Ops :
         /\ ops' = [ops EXCEPT ![t] = o]
         /\ reinsert' = [reinsert EXCEPT ![t] = InitialReinsert(o, open[t])]
    /\ Goto(t, "sequencing")
    /\ UNCHANGED <<logVars, kv, status, windowVars, markVars, openVars, seq,
                   validateVars, cand, acked>>

\* Mutant: a sequence number is lost
SequencedWriteSkipping(t) ==
    /\ pc[t] = "sequencing"
    /\ nextSeq < MaxSeq
    /\ nextSeq' = nextSeq + 2
    /\ seq' = [seq EXCEPT ![t] = nextSeq + 1]
    /\ log' = [log EXCEPT ![nextSeq + 1] = [open |-> open[t], ops |-> ops[t]]]
    /\ Goto(t, "sequenced")
    /\ UNCHANGED <<statuses, kv, status, windowVars, markVars, openVars, ops, reinsert,
                   validateVars, cand, acked>>

SequencedWrite(t) ==
    /\ pc[t] = "sequencing"
    /\ nextSeq <= MaxSeq
    /\ nextSeq' = nextSeq + 1
    /\ seq' = [seq EXCEPT ![t] = nextSeq]
    /\ log' = [log EXCEPT ![nextSeq] = [open |-> open[t], ops |-> ops[t]]]
    /\ Goto(t, "sequenced")
    /\ UNCHANGED <<statuses, kv, status, windowVars, markVars, openVars, ops, reinsert,
                   validateVars, cand, acked>>

\* get_or_create_window and insert_pending
InsertPending(t) ==
    /\ pc[t] = "sequenced"
    /\ back' = IF seq[t] < Start(back) THEN back ELSE WindowOf(seq[t]) + 1
    /\ status' = [status EXCEPT ![seq[t]] = "Pending"]
    /\ Goto(t, "collecting")
    /\ UNCHANGED <<logVars, kv, front, readers, markVars, openVars, commitVars,
                   validateVars, cand, acked>>

\* collect_concurrent_windows, and whether the log has to be consulted
CollectWindows(t) ==
    /\ pc[t] = "collecting"
    /\ first' = [first EXCEPT ![t] = IF Held(open[t] + 1) THEN Start(WindowOf(open[t] + 1))
                                                          ELSE Start(front)]
    /\ at' = [at EXCEPT ![t] = open[t] + 1]
    /\ Goto(t, IF open[t] + 1 < first'[t] THEN "readingStatuses" ELSE "validating")
    /\ UNCHANGED <<logVars, kv, status, windowVars, markVars, openVars, commitVars,
                   known, cand, acked>>

\* iterate_commit_status_from_disk; the NoopDurabilityClient iterates over nothing
ReadStatuses(t) ==
    /\ pc[t] = "readingStatuses"
    /\ IF Durable
       THEN /\ known' = [known EXCEPT ![t] = statuses]
            /\ Goto(t, "onDisk")
            /\ UNCHANGED at
       ELSE /\ at' = [at EXCEPT ![t] = first[t]]
            /\ Goto(t, "validating")
            /\ UNCHANGED known
    /\ UNCHANGED <<logVars, kv, status, windowVars, markVars, openVars, commitVars,
                   first, cand, acked>>

\* The next record compared by validate_concurrent_from_disk; a record without a
\* status is unreachable!(), a panic of the committing thread.  The model has no
\* records before First.
ValidateOnDisk(t) ==
    LET s == at[t]
        Compare == s >= First /\ log[s] # NoRecord /\ known[t][s] = "Committed"
    IN
    /\ pc[t] = "onDisk"
    /\ CASE s >= First /\ log[s] # NoRecord /\ known[t][s] = "None" ->
                /\ Goto(t, "panicked")
                /\ UNCHANGED <<at, reinsert>>
         [] Compare /\ Conflicts(ops[t], log[s].ops) ->
                /\ Goto(t, "conflicting")
                /\ UNCHANGED <<at, reinsert>>
         [] OTHER ->
                /\ reinsert' = [reinsert EXCEPT ![t] =
                                  IF Compare THEN Reinserts(ops[t], log[s].ops, @) ELSE @]
                /\ at' = [at EXCEPT ![t] = s + 1]
                /\ Goto(t, IF s + 1 < first[t] THEN "onDisk" ELSE "validating")
    /\ UNCHANGED <<logVars, kv, status, windowVars, markVars, openVars, ops, seq,
                   first, known, cand, acked>>

\* Mutant: a pending predecessor is taken for one that will abort
ResolvedPending(t, s) == status[s] # "Empty"

\* resolve_concurrent: spins on an empty slot, and on a pending one that matters
Resolved(t, s) ==
    \/ status[s] \in {"Validated", "Applied", "Aborted"}
    \/ status[s] = "Pending" /\ Independent(ops[t], log[s].ops)

ValidateInWindows(t) ==
    LET s == at[t]
        Committed == status[s] \in {"Validated", "Applied"}
    IN
    /\ pc[t] = "validating"
    /\ s < seq[t]
    /\ Resolved(t, s)
    /\ IF Committed /\ Conflicts(ops[t], log[s].ops)
       THEN /\ Goto(t, "conflicting")
            /\ UNCHANGED <<at, reinsert>>
       ELSE /\ reinsert' = [reinsert EXCEPT ![t] =
                              IF Committed THEN Reinserts(ops[t], log[s].ops, @) ELSE @]
            /\ at' = [at EXCEPT ![t] = s + 1]
            /\ UNCHANGED pc
    /\ UNCHANGED <<logVars, kv, status, windowVars, markVars, openVars, ops, seq,
                   first, known, cand, acked>>

SetValidated(t) ==
    /\ pc[t] = "validating"
    /\ at[t] = seq[t]
    /\ status' = [status EXCEPT ![seq[t]] = "Validated"]
    /\ Goto(t, "validated")
    /\ UNCHANGED <<logVars, kv, windowVars, markVars, openVars, commitVars,
                   validateVars, cand, acked>>

RaiseHighest(t) ==
    /\ pc[t] = "validated"
    /\ highest' = IF highest < seq[t] THEN seq[t] ELSE highest
    /\ Goto(t, "unregistering")
    /\ UNCHANGED <<logVars, kv, status, windowVars, watermark, openVars, commitVars,
                   validateVars, cand, acked>>

\* Mutant: the watermark is not moved over the aborted slot
SetAbortedOnly(t) ==
    /\ pc[t] = "conflicting"
    /\ status' = [status EXCEPT ![seq[t]] = "Aborted"]
    /\ Goto(t, "unregistering")
    /\ UNCHANGED <<logVars, kv, windowVars, markVars, openVars, commitVars,
                   validateVars, cand, acked>>

SetAborted(t) ==
    /\ pc[t] = "conflicting"
    /\ status' = [status EXCEPT ![seq[t]] = "Aborted"]
    /\ cand' = [cand EXCEPT ![t] = seq[t]]
    /\ Goto(t, "advancing")
    /\ UNCHANGED <<logVars, kv, windowVars, markVars, openVars, commitVars,
                   validateVars, acked>>

\* Mutant: an aborted commit is written as well
AfterUnregisterWrite(t) == "writing"

\* where a decided commit continues once the reader is removed
AfterUnregister(t) == IF status[seq[t]] = "Aborted" THEN "persisting" ELSE "writing"

Unregister(t) ==
    /\ pc[t] = "unregistering"
    /\ RemoveReader(t, "freeing", AfterUnregister(t))
    /\ UNCHANGED <<logVars, kv, status, front, back, markVars, openVars, commitVars,
                   validateVars, cand, acked>>

FreeAfterUnregister(t) ==
    /\ pc[t] = "freeing"
    /\ FreeWindows
    /\ Goto(t, AfterUnregister(t))
    /\ UNCHANGED <<logVars, kv, status, back, readers, markVars, openVars, commitVars,
                   validateVars, cand, acked>>

-----------------------------------------------------------------------------
(* snapshot_commit, after the decision.                                      *)

WriteKeyspaces(t) ==
    /\ pc[t] = "writing"
    /\ kv' = [k \in Key |-> kv[k] \cup NewVersions(k, seq[t], ops[t], reinsert[t])]
    /\ Goto(t, "applying")
    /\ UNCHANGED <<logVars, status, windowVars, markVars, openVars, commitVars,
                   validateVars, cand, acked>>

\* Mutant: the watermark is not moved
SetAppliedOnly(t) ==
    /\ pc[t] = "applying"
    /\ status' = [status EXCEPT ![seq[t]] = "Applied"]
    /\ Goto(t, "persisting")
    /\ UNCHANGED <<logVars, kv, windowVars, markVars, openVars, commitVars,
                   validateVars, cand, acked>>

SetApplied(t) ==
    /\ pc[t] = "applying"
    /\ status' = [status EXCEPT ![seq[t]] = "Applied"]
    /\ cand' = [cand EXCEPT ![t] = seq[t]]
    /\ Goto(t, "advancing")
    /\ UNCHANGED <<logVars, kv, windowVars, markVars, openVars, commitVars,
                   validateVars, acked>>

\* where a decided commit continues once may_increment_watermark is over
AfterAdvance(t) == IF status[seq[t]] = "Aborted" THEN "unregistering" ELSE "persisting"

Settled(s) == status[s] \in {"Aborted", "Applied"}

\* Mutant: the watermark moves over commits whose writes are under way
CanAdvanceToValidated(s) ==
    /\ s \in Slot /\ Held(s) /\ watermark = s - 1
    /\ status[s] \in {"Aborted", "Validated", "Applied"}

\* may_increment_watermark may move to s: the slot is settled and the
\* compare_exchange succeeds
CanAdvanceTo(s) == s \in Slot /\ Held(s) /\ Settled(s) /\ watermark = s - 1

IncrementWatermark(t) ==
    /\ pc[t] = "advancing"
    /\ CanAdvanceTo(cand[t])
    /\ watermark' = cand[t]
    /\ cand' = [cand EXCEPT ![t] = cand[t] + 1]
    /\ UNCHANGED <<logVars, kv, status, windowVars, highest, pc, openVars, commitVars,
                   validateVars, acked>>

\* The loop ends; windows are freed when it left the window of its start
EndIncrement(t) ==
    /\ pc[t] = "advancing"
    /\ ~CanAdvanceTo(cand[t])
    /\ Goto(t, IF /\ Held(seq[t] - 1)
                  /\ cand[t] - 1 >= Start(WindowOf(seq[t] - 1) + 1)
               THEN "advanced" ELSE AfterAdvance(t))
    /\ UNCHANGED <<logVars, kv, status, windowVars, markVars, openVars, commitVars,
                   validateVars, cand, acked>>

FreeAfterAdvance(t) ==
    /\ pc[t] = "advanced"
    /\ FreeWindows
    /\ Goto(t, AfterAdvance(t))
    /\ UNCHANGED <<logVars, kv, status, back, readers, markVars, openVars, commitVars,
                   validateVars, cand, acked>>

PersistStatus(t) ==
    LET ok == status[seq[t]] = "Applied" IN
    /\ pc[t] = "persisting"
    /\ statuses' = [statuses EXCEPT ![seq[t]] = IF ok THEN "Committed" ELSE "Rejected"]
    /\ acked' = IF ok /\ acked < seq[t] THEN seq[t] ELSE acked
    /\ Goto(t, "returned")
    /\ UNCHANGED <<nextSeq, log, kv, status, windowVars, markVars, openVars, commitVars,
                   validateVars, cand>>

\* An Err from the log: the commit returns at once, its slot as it is
FailLog(t) ==
    /\ Faults
    /\ pc[t] \in {"readingStatuses", "onDisk", "persisting"}
    /\ Goto(t, "failed")
    /\ UNCHANGED <<logVars, kv, status, windowVars, markVars, openVars, commitVars,
                   validateVars, cand, acked>>

\* An Err from the keyspaces, which are written one after the other
FailKeyspaces(t) ==
    /\ Faults
    /\ pc[t] = "writing"
    /\ \E K \in SUBSET Key :
         kv' = [k \in Key |-> IF k \in K
                              THEN kv[k] \cup NewVersions(k, seq[t], ops[t], reinsert[t])
                              ELSE kv[k]]
    /\ Goto(t, "failed")
    /\ UNCHANGED <<logVars, status, windowVars, markVars, openVars, commitVars,
                   validateVars, cand, acked>>

\* The sequence number is taken but its record does not reach the log
FailSequencedWrite(t) ==
    /\ Faults
    /\ pc[t] = "sequencing"
    /\ nextSeq <= MaxSeq
    /\ nextSeq' = nextSeq + 1
    /\ Goto(t, "failed")
    /\ UNCHANGED <<log, statuses, kv, status, windowVars, markVars, openVars, commitVars,
                   validateVars, cand, acked>>

-----------------------------------------------------------------------------
Init ==
    /\ nextSeq = First
    /\ log = [s \in Slot |-> NoRecord]
    /\ statuses = [s \in Slot |-> "None"]
    /\ kv \in [Key -> {{}} \cup {{[seq |-> First - 1, op |-> "Insert", val |-> v]} :
                                  v \in IF First = 1 THEN {} ELSE Val}]
    /\ status = [s \in Slot |-> "Empty"]
    /\ front = 0 /\ back = 1
    /\ readers = [i \in WindowIndex |-> 0]
    /\ watermark = First - 1 /\ highest = First - 1
    /\ pc = [t \in Txn |-> "idle"]
    /\ target = [t \in Txn |-> 0]
    /\ open = [t \in Txn |-> 0]
    /\ ops = [t \in Txn |-> [writes |-> [k \in Key |-> NoWrite],
                             locks |-> [k \in Key |-> "None"]]]
    /\ reinsert = [t \in Txn |-> {}]
    /\ seq = [t \in Txn |-> 0]
    /\ first = [t \in Txn |-> 0]
    /\ at = [t \in Txn |-> 0]
    /\ known = [t \in Txn |-> [s \in Slot |-> "None"]]
    /\ cand = [t \in Txn |-> 0]
    /\ acked = 0
    /\ floor = [t \in Txn |-> 0]

\* What the client decides
Client(t) ==
    \/ BeginOpen(t) \/ BeginOpenAt(t) \/ CloseRead(t) \/ DropUnclosed(t) \/ Close(t)
    \/ BeginCommit(t)

\* What the thread does on its own
Step(t) ==
    \/ OpenSnapshot(t) \/ RecordReader(t) \/ FreeAfterClose(t)
    \/ SequencedWrite(t) \/ InsertPending(t) \/ CollectWindows(t) \/ ReadStatuses(t)
    \/ ValidateOnDisk(t) \/ ValidateInWindows(t) \/ SetValidated(t) \/ RaiseHighest(t)
    \/ SetAborted(t) \/ Unregister(t) \/ FreeAfterUnregister(t)
    \/ WriteKeyspaces(t) \/ SetApplied(t) \/ IncrementWatermark(t) \/ EndIncrement(t)
    \/ FreeAfterAdvance(t) \/ PersistStatus(t)

Failure(t) == FailSequencedWrite(t) \/ FailLog(t) \/ FailKeyspaces(t)

Over(t) == pc[t] \in {"closed", "dropped", "returned", "failed", "panicked"}
Finished == (\A t \in Txn : Over(t)) /\ UNCHANGED vars

Next ==
    \/ \E t \in Txn : Client(t) \/ Step(t) \/ Failure(t)
    \/ Finished

Spec == Init /\ [][Next]_vars

\* Threads are scheduled by the operating system: none is starved
LiveSpec == Spec /\ \A t \in Txn : WF_vars(Step(t))

-----------------------------------------------------------------------------
PCs == {"idle", "opening", "openingAt", "reading", "registering", "open", "closing",
        "closed", "dropped", "sequencing", "sequenced", "collecting", "readingStatuses",
        "onDisk", "panicked", "conflicting", "validating", "validated", "unregistering",
        "freeing", "writing", "applying", "advancing", "advanced", "persisting",
        "returned", "failed"}

\* The types of the timeline, of the log and of every thread's locals.
TypeOK ==
    /\ nextSeq \in First..(MaxSeq + 1)
    /\ log \in [Slot -> Record \cup {NoRecord}]
    /\ statuses \in [Slot -> {"None", "Committed", "Rejected"}]
    /\ kv \in [Key -> SUBSET Version]
    /\ status \in [Slot -> {"Empty", "Pending", "Validated", "Applied", "Aborted"}]
    /\ front \in Nat /\ back \in Nat
    /\ readers \in [WindowIndex -> Int]
    /\ watermark \in (First - 1)..MaxSeq /\ highest \in (First - 1)..MaxSeq
    /\ pc \in [Txn -> PCs]
    /\ target \in [Txn -> Nat] /\ open \in [Txn -> Nat]
    /\ ops \in [Txn -> Buffer] /\ reinsert \in [Txn -> SUBSET Key]
    /\ seq \in [Txn -> Slot \cup {0}]
    /\ first \in [Txn -> Nat] /\ at \in [Txn -> Nat]
    /\ known \in [Txn -> [Slot -> {"None", "Committed", "Rejected"}]]
    /\ cand \in [Txn -> Nat]
    /\ acked \in Nat /\ floor \in [Txn -> Nat]

\* No commit at or below the watermark is undecided or unwritten: a snapshot
\* opened at the watermark never misses one that is applied later
\* (may_increment_watermark steps over Aborted and Applied slots only).
WatermarkSettled == \A s \in Slot : s <= watermark => Settled(s)

\* No advance of the watermark is lost: when the slot after the watermark is
\* settled, some thread is inside may_increment_watermark and about to take it.
\* Otherwise snapshots would wait in wait_for_watermark for a step nobody takes.
NoStrandedSlot ==
    watermark + 1 \in Slot /\ Settled(watermark + 1) =>
        \E t \in Txn : pc[t] = "advancing" /\ cand[t] = watermark + 1

\* may_free_windows never frees the window of a commit that is still running, so
\* applied() finds its window and the deque is never empty.
RunningCommitsHeld ==
    /\ front < back
    /\ \A s \in Slot : s > watermark /\ status[s] # "Empty" => Held(s)

\* A snapshot that opened_for_read has counted, and that remove_reader has not
\* yet discounted.  Dropped, failed and panicked commits are never discounted.
Counted(t) ==
    \/ pc[t] \in {"open", "dropped", "sequencing", "sequenced", "collecting",
                  "readingStatuses", "onDisk", "panicked", "validating", "conflicting",
                  "validated", "unregistering"}
    \/ pc[t] \in {"advancing", "advanced"} /\ status[seq[t]] = "Aborted"
    \/ pc[t] = "failed" /\ (seq[t] = 0 \/ status[seq[t]] = "Pending")

CountedIn(i) == {t \in Txn : Counted(t) /\ open[t] >= First /\ WindowOf(open[t]) = i}

\* The reader count of a held window is the number of snapshots open in it: it
\* is never decremented twice, and a window is never freed under a counted reader.
ReadersExact ==
    /\ \A i \in front..(back - 1) : readers[i] = Cardinality(CountedIn(i))
    /\ \A i \in 0..(front - 1) : readers[i] = 0

Decided(s) == status[s] \in {"Validated", "Applied"}

\* Two committed transactions of which the later did not see the earlier never
\* hold conflicting operations: no key locked Unmodifiable by one is deleted by
\* the other, and no Exclusive lock is held by both.
ConflictFree ==
    \A i, j \in Slot :
        i < j /\ Decided(i) /\ Decided(j) /\ log[j].open < i
            => ~Conflicts(log[j].ops, log[i].ops)

\* A committed Put leaves its key present, whatever concurrent commits deleted
\* or inserted: the reinsert flag is right by the time the batch is built.
PutLeavesKey ==
    \A s \in Slot : s <= watermark /\ status[s] = "Applied" =>
        \A k \in Puts(log[s].ops) : Visible(k, s).op = "Insert"

\* Only decided commits have versions in the keyspaces, and an applied commit
\* has all its inserts and deletes there.
KeyspacesFollowDecisions ==
    /\ \A k \in Key : \A v \in kv[k] : v.seq >= First => Decided(v.seq)
    /\ \A s \in Slot : status[s] = "Applied" =>
          \A k \in Key : log[s].ops.writes[k].op \in {"Insert", "Delete"} =>
              \E v \in kv[k] : v.seq = s /\ v.op = log[s].ops.writes[k].op

\* External consistency: a snapshot sees every commit that had returned before
\* the snapshot began to open.
ExternallyConsistent ==
    \A t \in Txn : pc[t] \notin {"idle", "opening", "openingAt"} => open[t] >= floor[t]

Live(t) == pc[t] \notin {"idle", "opening", "openingAt"} /\ ~Over(t)

\* What a snapshot reads does not change while it is open.
SnapshotStable ==
    [][\A t \in Txn : Live(t) =>
          \A k \in Key : Visible(k, open[t])' = Visible(k, open[t])]_vars

\* The slot of a commit whose validation panicked stays pending
Blocked(s) == \E u \in Txn : pc[u] = "panicked" /\ seq[u] <= s

\* Every commit that took a sequence number returns to its client: chains of
\* validations that wait for each other end.  The exception is a validation that panics,
\* on an evicted predecessor without a status record, and the commits behind it: they may
\* wait for its slot for ever.
CommitReturnsUnlessPanicked ==
    \A t \in Txn : pc[t] = "sequenced" ~> pc[t] = "returned" \/ Blocked(seq[t])

\* wait_for_watermark ends, with the same exception: the watermark does not pass the slot
\* of a validation that panicked.
OpenReturnsUnlessPanicked ==
    \A t \in Txn : pc[t] = "opening" ~> pc[t] # "opening" \/ Blocked(target[t])
=============================================================================
