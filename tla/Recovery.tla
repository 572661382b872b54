------------------------------ MODULE Recovery ------------------------------
(***************************************************************************)
(* Commits, checkpoints, crashes and recovery.  The commit path is that of *)
(* CommitProtocol; here its records reach the log and are synced, the      *)
(* checkpointer copies the keyspaces while commits run, and after a crash  *)
(* the storage is restored from the latest checkpoint and the log.         *)
(*                                                                         *)
(* The log is one sequence of records of which a crash leaves a beginning  *)
(* (WriteAheadLog has the files).  Each key has a keyspace of its own.     *)
(***************************************************************************)
EXTENDS CommitProtocol, Sequences

CONSTANTS
    MaxCrashes,     \* bound: how often the server goes down
    MaxCrashedAgain,\* bound: the commits in the log when it goes down again
    MaxCheckpointed \* bound: the watermark up to which checkpoints begin while commits run

VARIABLES
    wal,         \* the records <<kind, sequence number>> in the order of the log
    synced,      \* how many of them are on disk
    checkpoints, \* the directories, oldest first: STORAGE_METADATA and the keyspaces copied so far
    prev,        \* prev_checkpoint
    mark,        \* the watermark read for the checkpoint under way, if any
    mode,        \* "up", "down", "replaying", "loading" (recovered, not yet open) or "failed"
    at,          \* the next commit to be replayed
    replayed,    \* the reinsert flags with which a commit is replayed
    bare,        \* slots that replay has filled without a commit record
    crashes,
    promised     \* history: the outcomes that clients have been told or could see

logFileVars == <<wal, synced>>
checkpointVars == <<checkpoints, prev, mark>>
replayVars == <<at, replayed, bare>>
vars == <<protocolVars, wal, synced, checkpoints, prev, mark, mode, at, replayed, bare,
          crashes, promised>>

NoMark == -1

ASSUME RecoveryAssumption ==
    /\ First \in Nat \ {0} /\ MaxSeq \in Nat /\ First <= MaxSeq
    /\ Ops \subseteq Buffer

\* The record of the commit in slot s is on disk
Synced(s) == \E n \in 1..synced : wal[n] = <<"commit", s>>

-----------------------------------------------------------------------------
(* snapshot_commit, with the log.                                            *)

OpenAtWatermark(t) ==
    /\ mode = "up"
    /\ Open(t, watermark)
    /\ UNCHANGED <<logFileVars, checkpointVars, mode, replayVars, crashes, promised>>

WriteRecord(t) ==
    /\ mode = "up"
    /\ \E o \in Ops : Sequence(t, o)
    /\ wal' = Append(wal, <<"commit", nextSeq>>)
    /\ UNCHANGED <<synced, checkpointVars, mode, replayVars, crashes, promised>>

\* validate_commit; an aborted commit may move the watermark before it is synced
Decide(t) ==
    /\ mode = "up"
    /\ Validate(t) \/ Abort(t)
    /\ UNCHANGED <<logFileVars, checkpointVars, mode, replayVars, crashes, promised>>

\* Mutant: the keyspaces are written before the log is synced
WriteKeyspacesUnsynced(t) ==
    /\ mode = "up"
    /\ WriteVersions(t)
    /\ UNCHANGED <<logFileVars, checkpointVars, mode, replayVars, crashes, promised>>

WriteKeyspaces(t) ==
    /\ mode = "up"
    /\ Synced(seq[t])
    /\ WriteVersions(t)
    /\ UNCHANGED <<logFileVars, checkpointVars, mode, replayVars, crashes, promised>>

\* From here on other snapshots may see the commit
Applied(t) ==
    /\ mode = "up"
    /\ Apply(t)
    /\ promised' = [promised EXCEPT ![seq[t]] = "Committed"]
    /\ UNCHANGED <<logFileVars, checkpointVars, mode, replayVars, crashes>>

MoveWatermark ==
    /\ mode = "up"
    /\ Advance
    /\ UNCHANGED <<logFileVars, checkpointVars, mode, replayVars, crashes, promised>>

\* persist_commit_status, which is not waited for
PersistStatus(t) ==
    /\ mode = "up"
    /\ Synced(seq[t])
    /\ Return(t)
    /\ wal' = Append(wal, <<"status", seq[t]>>)
    /\ promised' = [promised EXCEPT ![seq[t]] = statuses'[seq[t]]]
    /\ UNCHANGED <<synced, checkpointVars, mode, replayVars, crashes>>

\* The fsync thread
Sync ==
    /\ mode = "up"
    /\ synced < Len(wal)
    /\ synced' = Len(wal)
    /\ UNCHANGED <<protocolVars, wal, checkpointVars, mode, replayVars, crashes, promised>>

-----------------------------------------------------------------------------
(* The checkpointer: every so often, and once after each recovery.           *)

\* A directory with the given mark and keyspaces, which are empty
NewCheckpoint(m, keys) == [mark |-> m, copied |-> keys, data |-> [k \in Key |-> {}]]

\* find_latest_checkpoint: the newest directory, complete or not
Latest == IF checkpoints = <<>> THEN NewCheckpoint(First - 1, Key)
                                ELSE checkpoints[Len(checkpoints)]

Copying == mark # NoMark /\ Latest.mark = NoMark

\* Checkpoint::new, and the watermark given to add_storage
BeginCheckpoint ==
    /\ mode = "loading" \/ (mode = "up" /\ prev < watermark /\ watermark <= MaxCheckpointed)
    /\ mark = NoMark
    /\ checkpoints' = Append(checkpoints, NewCheckpoint(NoMark, {}))
    /\ mark' = watermark
    /\ UNCHANGED <<protocolVars, logFileVars, prev, mode, replayVars, crashes, promised>>

\* Keyspaces::checkpoint, one keyspace after the other.  Writes go to the keyspaces
\* one by one as well, hence a copy may have any part of a commit that is under way.
CopyKeyspace(k) ==
    /\ mode \in {"up", "loading"}
    /\ Copying
    /\ k \notin Latest.copied
    /\ checkpoints' = [checkpoints EXCEPT ![Len(checkpoints)] =
                         [mark |-> NoMark, copied |-> Latest.copied \cup {k},
                          data |-> [Latest.data EXCEPT ![k] = kv[k]]]]
    /\ UNCHANGED <<protocolVars, logFileVars, prev, mark, mode, replayVars, crashes, promised>>

WriteMetadata ==
    /\ mode \in {"up", "loading"}
    /\ Copying
    /\ Latest.copied = Key
    /\ checkpoints' = [checkpoints EXCEPT ![Len(checkpoints)] =
                         [mark |-> mark, copied |-> Key, data |-> Latest.data]]
    /\ UNCHANGED <<protocolVars, logFileVars, prev, mark, mode, replayVars, crashes, promised>>

\* Checkpoint::finish removes the other directories; the checkpoint of Database::load
\* is not noted in prev_checkpoint
FinishCheckpoint ==
    /\ mark # NoMark /\ Latest.mark = mark
    /\ checkpoints' = <<Latest>>
    /\ prev' = IF mode = "up" THEN mark ELSE prev
    /\ mode' = "up" /\ mark' = NoMark
    /\ UNCHANGED <<protocolVars, logFileVars, replayVars, crashes, promised>>

-----------------------------------------------------------------------------
(* Crash and load.                                                           *)

Has(recs, kind, s) == \E n \in DOMAIN recs : recs[n] = <<kind, s>>
Commits(recs) == {s \in Slot : Has(recs, "commit", s)}

\* The log keeps what was synced and perhaps more; a status without its commit
\* cannot be left.  WAL::load goes on after the last commit.
Crash ==
    /\ mode \notin {"down", "failed"} /\ crashes < MaxCrashes
    /\ crashes > 0 => nextSeq - First <= MaxCrashedAgain
    /\ \E n \in synced..Len(wal) :
         /\ wal' = SubSeq(wal, 1, n)
         /\ \E last \in {First - 1} \cup Commits(wal') :
              (\A s \in Commits(wal') : s <= last) /\ nextSeq' = last + 1
         /\ log' = [s \in Slot |-> IF s \in Commits(wal') THEN log[s] ELSE NoRecord]
         /\ statuses' = [s \in Slot |-> IF Has(wal', "status", s)
                                        THEN statuses[s] ELSE "None"]
    /\ crashes' = crashes + 1
    /\ mode' = "down" /\ mark' = NoMark
    /\ phase' = [t \in Txn |-> IF phase[t] \in {"idle", "returned"} THEN phase[t] ELSE "gone"]
    /\ open' = [t \in Txn |-> 0] /\ seq' = [t \in Txn |-> 0] /\ reinsert' = [t \in Txn |-> {}]
    /\ UNCHANGED <<kv, status, watermark, synced, checkpoints, prev, replayVars, promised>>

Fail ==
    /\ mode' = "failed"
    /\ UNCHANGED <<protocolVars, logFileVars, checkpointVars, replayVars, crashes, promised>>

\* recover_storage cannot read the directory, or panics
Unusable == Latest.mark = NoMark \/ Latest.mark >= nextSeq

RecoveryStart == Latest.mark + 1

Restore ==
    /\ mode = "down"
    /\ ~Unusable
    /\ mode' = "replaying"
    /\ kv' = Latest.data
    /\ watermark' = Latest.mark /\ prev' = Latest.mark
    /\ at' = RecoveryStart
    /\ status' = [s \in Slot |-> IF s <= Latest.mark THEN status[s] ELSE "Empty"]
    /\ replayed' = [s \in Slot |-> {}] /\ bare' = {}
    /\ UNCHANGED <<nextSeq, log, statuses, phase, open, seq, reinsert, logFileVars, checkpoints,
                   mark, crashes, promised>>

FailRestore == mode = "down" /\ Unusable /\ Fail

-----------------------------------------------------------------------------
(* apply_recovered: one commit after the other, in an isolation manager of   *)
(* its own whose watermark starts at the checkpoint's.                       *)

Replaying(outcome) == mode = "replaying" /\ at < nextSeq /\ statuses[at] = outcome

\* load_validated: the flags are those that were logged, before the validation
LoadValidated ==
    /\ Replaying("Committed")
    /\ status' = [status EXCEPT ![at] = "Validated"]
    /\ replayed' = [replayed EXCEPT ![at] = log[at].flags]
    /\ at' = at + 1
    /\ UNCHANGED <<nextSeq, log, statuses, kv, watermark, phase, open, seq, reinsert,
                   logFileVars, checkpointVars, mode, bare, crashes, promised>>

\* load_aborted: get_status unwraps a record that is not there when the watermark
\* could move
LoadAborted ==
    /\ Replaying("Rejected")
    /\ IF watermark = at - 1
       THEN Fail
       ELSE /\ status' = [status EXCEPT ![at] = "Aborted"]
            /\ bare' = bare \cup {at}
            /\ at' = at + 1
            /\ UNCHANGED <<nextSeq, log, statuses, kv, watermark, phase, open, seq, reinsert,
                           logFileVars, checkpointVars, mode, replayed, crashes, promised>>

\* A predecessor of the pending commit is in the log only, or in a slot
OnDisk(i) == i < prev + 1
Panics(i) == IF OnDisk(i) THEN statuses[i] = "None" ELSE i \in bare
KnownCommitted == {i \in Slot : IF OnDisk(i) THEN statuses[i] = "Committed"
                                             ELSE status[i] = "Validated"}

\* The predecessors at which the validation ends: the first one counts
Stops == {i \in Concurrent(at) : Panics(i) \/ (i \in KnownCommitted /\ Clashes(at, i))}
IsFirst(i) == \A j \in Stops : i <= j

Conclude(outcome) ==
    /\ statuses' = [statuses EXCEPT ![at] = outcome]
    /\ wal' = Append(wal, <<"status", at>>)
    /\ at' = at + 1

\* Mutant: the commit is taken for applied, its writes are not collected
ReplayValidUnwritten ==
    /\ Replaying("None")
    /\ Stops = {}
    /\ status' = [status EXCEPT ![at] = "Applied"]
    /\ Conclude("Committed")
    /\ UNCHANGED <<nextSeq, log, kv, watermark, phase, open, seq, reinsert, synced,
                   checkpointVars, mode, replayed, bare, crashes, promised>>

ReplayValid ==
    /\ Replaying("None")
    /\ Stops = {}
    /\ status' = [status EXCEPT ![at] = "Validated"]
    /\ replayed' = [replayed EXCEPT ![at] = FinalFlags(at, KnownCommitted)]
    /\ Conclude("Committed")
    /\ UNCHANGED <<nextSeq, log, kv, watermark, phase, open, seq, reinsert, synced,
                   checkpointVars, mode, bare, crashes, promised>>

\* may_increment_watermark moves over the slot, which has its record
ReplayConflict ==
    /\ Replaying("None")
    /\ \E i \in Stops : ~Panics(i) /\ IsFirst(i)
    /\ status' = [status EXCEPT ![at] = "Aborted"]
    /\ watermark' = IF watermark = at - 1 THEN at ELSE watermark
    /\ Conclude("Rejected")
    /\ UNCHANGED <<nextSeq, log, kv, phase, open, seq, reinsert, synced, checkpointVars, mode,
                   replayed, bare, crashes, promised>>

ReplayPanic == Replaying("None") /\ (\E i \in Stops : Panics(i) /\ IsFirst(i)) /\ Fail

\* Mutant: the recovery's isolation manager goes on, with its watermark
RecoveredWatermarkKept == watermark

\* next_sequence_number - 1
RecoveredWatermark == nextSeq - 1

\* The batches are written, a new isolation manager starts after them, and
\* Database::load takes a checkpoint unless the log has nothing new
EndReplay ==
    /\ mode = "replaying" /\ at >= nextSeq
    /\ kv' = [k \in Key |-> kv[k] \cup
                 UNION {NewVersions(k, s, log[s].ops, replayed[s]) :
                          s \in {i \in Slot : status[i] = "Validated"}}]
    /\ status' = [s \in Slot |-> IF status[s] = "Validated" THEN "Applied" ELSE status[s]]
    /\ watermark' = RecoveredWatermark
    /\ mode' = IF prev < nextSeq - 1 THEN "loading" ELSE "up"
    /\ replayed' = [s \in Slot |-> {}] /\ bare' = {}
    /\ UNCHANGED <<nextSeq, log, statuses, phase, open, seq, reinsert, logFileVars,
                   checkpointVars, at, crashes, promised>>
-----------------------------------------------------------------------------
\* An existing database starts from a checkpoint
RecoveryInit ==
    /\ Init
    /\ wal = <<>> /\ synced = 0
    /\ checkpoints = IF First = 1 THEN <<>> ELSE <<[mark |-> First - 1, copied |-> Key, data |-> kv]>>
    /\ prev = First - 1 /\ mark = NoMark
    /\ mode = "up" /\ crashes = 0
    /\ at = First /\ replayed = [s \in Slot |-> {}] /\ bare = {}
    /\ promised = [s \in Slot |-> "None"]

Commit(t) ==
    \/ OpenAtWatermark(t) \/ WriteRecord(t) \/ Decide(t) \/ WriteKeyspaces(t) \/ Applied(t)
    \/ PersistStatus(t)

Checkpointer ==
    \/ BeginCheckpoint \/ (\E k \in Key : CopyKeyspace(k)) \/ WriteMetadata \/ FinishCheckpoint

Load ==
    \/ Restore \/ FailRestore \/ LoadValidated \/ LoadAborted \/ ReplayValid
    \/ ReplayConflict \/ ReplayPanic \/ EndReplay

RecoveryNext ==
    (\E t \in Txn : Commit(t)) \/ MoveWatermark \/ Sync \/ Checkpointer \/ Crash \/ Load

RecoverySpec == RecoveryInit /\ [][RecoveryNext]_vars

-----------------------------------------------------------------------------
Outcome == {"None", "Committed", "Rejected"}
Marks == (First - 1)..MaxSeq
Record == [open : Nat, ops : Buffer, flags : SUBSET Key]
Directory == [mark : {NoMark} \cup Marks, copied : SUBSET Key, data : [Key -> SUBSET Version]]

\* The types of the log, of the checkpoints and of the state of the recovery.
TypeOK ==
    /\ nextSeq \in First..(MaxSeq + 1)
    /\ log \in [Slot -> Record \cup {NoRecord}]
    /\ statuses \in [Slot -> Outcome] /\ promised \in [Slot -> Outcome]
    /\ kv \in [Key -> SUBSET Version]
    /\ status \in [Slot -> {"Empty", "Pending", "Validated", "Applied", "Aborted"}]
    /\ watermark \in Marks
    /\ phase \in [Txn -> {"idle", "open", "sequenced", "validated", "written", "applied",
                          "aborted", "returned", "gone"}]
    /\ open \in [Txn -> Nat] /\ seq \in [Txn -> Slot \cup {0}]
    /\ reinsert \in [Txn -> SUBSET Key]
    /\ wal \in Seq({"commit", "status"} \X Slot) /\ synced \in 0..Len(wal)
    /\ checkpoints \in Seq(Directory)
    /\ prev \in Marks /\ mark \in {NoMark} \cup Marks
    /\ mode \in {"up", "down", "replaying", "loading", "failed"}
    /\ at \in First..(MaxSeq + 1) /\ replayed \in [Slot -> SUBSET Key] /\ bare \subseteq Slot
    /\ crashes \in Nat

Serving == mode \in {"up", "loading"}

\* The inserts and deletes of commit s are all in the keyspaces, and none is
Whole(data, s) ==
    \A k \in Key : log[s].ops.writes[k].op \in {"Insert", "Delete"} =>
        \E v \in data[k] : v.seq = s /\ v.op = log[s].ops.writes[k].op
Absent(data, s) == \A k \in Key : \A v \in data[k] : v.seq # s

\* What a client was told, or a snapshot could see, is still so after any number
\* of crashes, during commits, checkpoints or recoveries: the record of a
\* committed transaction and its writes are there, none of a rejected one's are,
\* and no status record says otherwise (snapshot_commit, apply_recovered).
PromisesKept ==
    Serving => \A s \in Slot :
        /\ promised[s] = "Committed" => /\ log[s] # NoRecord /\ Whole(kv, s)
                                        /\ statuses[s] # "Rejected"
        /\ promised[s] = "Rejected" => Absent(kv, s) /\ statuses[s] # "Committed"

\* "The watermark represents a sequence number that is guaranteed to be in all
\* the keyspaces": add_storage reads it before the keyspaces are copied.
CheckpointCovers ==
    \A i \in DOMAIN checkpoints : \A s \in Slot :
        s <= checkpoints[i].mark /\ log[s] # NoRecord /\ status[s] = "Applied"
            => Whole(checkpoints[i].data, s)

\* Every commit up to the watermark is in the keyspaces as a whole or not at all,
\* although checkpoints are copied keyspace by keyspace while commits are written:
\* replay decides on a commit as validate_commit did.
WholeCommits ==
    /\ CheckpointCovers
    /\ Serving => \A s \in Slot : s <= watermark =>
          IF status[s] = "Applied" THEN Whole(kv, s) ELSE Absent(kv, s)

\* Every slot above the watermark belongs to a commit of this run of the server,
\* which settles it before it returns: recovery leaves none behind that would hold
\* up the watermark for ever (MVCCStorage::load).
NoOrphanSlot ==
    mode = "up" => \A s \in Slot : watermark < s /\ s < nextSeq =>
        \E t \in Txn : /\ seq[t] = s
                       /\ phase[t] = "returned" => status[s] \in {"Applied", "Aborted"}

\* A committed Put leaves its key present, also after it was replayed.
PutSurvives ==
    Serving => \A s \in Slot : s <= watermark /\ status[s] = "Applied" =>
        \A k \in Puts(log[s].ops) : VisibleIn(kv, k, s).op = "Insert"
=============================================================================
