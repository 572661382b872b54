---------------------------- MODULE CommitProtocol ----------------------------
(***************************************************************************)
(* What the isolation manager promises: snapshot isolation with commits    *)
(* numbered by the log, decided in one step against the commits that the   *)
(* snapshot has not seen, written, and covered by the watermark in order.  *)
(* IsolationManager implements it; Recovery builds on it.                  *)
(***************************************************************************)
EXTENDS Integers, CommitRecords

CONSTANTS
    Txn,         \* snapshots
    Ops,         \* the operation buffers that clients may commit
    First,       \* the first sequence number
    MaxSeq       \* bound: the last sequence number

Slot == First..MaxSeq
NoRecord == [none |-> TRUE]

VARIABLES
    nextSeq,     \* the log's counter
    log,         \* commit records by sequence number, with the reinsert flags they were written with
    statuses,    \* StatusRecords in the log
    kv,          \* versions of each key
    status,      \* SlotMarker by sequence number
    watermark,
    phase,       \* how far each snapshot is
    open, seq,   \* the sequence number it reads at, and the one it commits with
    reinsert     \* the Puts it writes, once validated

protocolVars == <<nextSeq, log, statuses, kv, status, watermark, phase, open, seq, reinsert>>

Enter(t, label) == phase' = [phase EXCEPT ![t] = label]

Open(t, s) ==
    /\ phase[t] = "idle"
    /\ s <= watermark
    /\ open' = [open EXCEPT ![t] = s]
    /\ Enter(t, "open")
    /\ UNCHANGED <<nextSeq, log, statuses, kv, status, watermark, seq, reinsert>>

\* The record is in the log and in its slot; the flags are those of the snapshot
Sequence(t, o) ==
    /\ phase[t] = "open"
    /\ nextSeq <= MaxSeq
    /\ nextSeq' = nextSeq + 1
    /\ seq' = [seq EXCEPT ![t] = nextSeq]
    /\ log' = [log EXCEPT ![nextSeq] = [open |-> open[t], ops |-> o,
                                        flags |-> StalePuts(o, kv, open[t])]]
    /\ status' = [status EXCEPT ![nextSeq] = "Pending"]
    /\ Enter(t, "sequenced")
    /\ UNCHANGED <<statuses, kv, watermark, open, reinsert>>

-----------------------------------------------------------------------------
(* The decision on the record in slot s.                                     *)

Concurrent(s) == {i \in Slot : log[s].open < i /\ i < s}
Committed == {i \in Slot : status[i] \in {"Validated", "Applied"}}
Clashes(s, i) == Conflicts(log[s].ops, log[i].ops)

\* a predecessor that is still pending need not be waited for if it is independent
Passable(s, i) ==
    \/ status[i] \in {"Validated", "Applied", "Aborted"}
    \/ status[i] = "Pending" /\ Independent(log[s].ops, log[i].ops)

Valid(s) == \A i \in Concurrent(s) : Passable(s, i) /\ ~(i \in Committed /\ Clashes(s, i))

Invalid(s) ==
    \E i \in Concurrent(s) \cap Committed :
        Clashes(s, i) /\ \A j \in Concurrent(s) : j < i => Passable(s, j)

\* the last of the committed predecessors C that wrote the key decides on a Put
FinalFlags(s, C) ==
    LET Writers(k) == {i \in Concurrent(s) \cap C : log[i].ops.writes[k].op # "None"}
    IN {k \in Puts(log[s].ops) :
            IF Writers(k) = {} THEN k \in log[s].flags
            ELSE \E i \in Writers(k) : /\ log[i].ops.writes[k].op = "Delete"
                                       /\ \A j \in Writers(k) : j <= i}

Validate(t) ==
    /\ phase[t] = "sequenced"
    /\ Valid(seq[t])
    /\ status' = [status EXCEPT ![seq[t]] = "Validated"]
    /\ reinsert' = [reinsert EXCEPT ![t] = FinalFlags(seq[t], Committed)]
    /\ Enter(t, "validated")
    /\ UNCHANGED <<nextSeq, log, statuses, kv, watermark, open, seq>>

Abort(t) ==
    /\ phase[t] = "sequenced"
    /\ Invalid(seq[t])
    /\ status' = [status EXCEPT ![seq[t]] = "Aborted"]
    /\ Enter(t, "aborted")
    /\ UNCHANGED <<nextSeq, log, statuses, kv, watermark, open, seq, reinsert>>

-----------------------------------------------------------------------------
WriteVersions(t) ==
    /\ phase[t] = "validated"
    /\ kv' = [k \in Key |-> kv[k] \cup NewVersions(k, seq[t], log[seq[t]].ops, reinsert[t])]
    /\ Enter(t, "written")
    /\ UNCHANGED <<nextSeq, log, statuses, status, watermark, open, seq, reinsert>>

Apply(t) ==
    /\ phase[t] = "written"
    /\ status' = [status EXCEPT ![seq[t]] = "Applied"]
    /\ Enter(t, "applied")
    /\ UNCHANGED <<nextSeq, log, statuses, kv, watermark, open, seq, reinsert>>

\* Some thread moves the watermark over the next slot
Advance ==
    /\ watermark < MaxSeq
    /\ status[watermark + 1] \in {"Aborted", "Applied"}
    /\ watermark' = watermark + 1
    /\ UNCHANGED <<nextSeq, log, statuses, kv, status, phase, open, seq, reinsert>>

\* The commit returns to its client
Return(t) ==
    /\ phase[t] \in {"applied", "aborted"}
    /\ statuses' = [statuses EXCEPT ![seq[t]] =
                      IF phase[t] = "applied" THEN "Committed" ELSE "Rejected"]
    /\ Enter(t, "returned")
    /\ UNCHANGED <<nextSeq, log, kv, status, watermark, open, seq, reinsert>>

-----------------------------------------------------------------------------
Init ==
    /\ nextSeq = First
    /\ log = [s \in Slot |-> NoRecord]
    /\ statuses = [s \in Slot |-> "None"]
    /\ kv \in [Key -> {{}} \cup {{[seq |-> First - 1, op |-> "Insert", val |-> v]} :
                                  v \in IF First = 1 THEN {} ELSE Val}]
    /\ status = [s \in Slot |-> "Empty"]
    /\ watermark = First - 1
    /\ phase = [t \in Txn |-> "idle"]
    /\ open = [t \in Txn |-> 0]
    /\ seq = [t \in Txn |-> 0]
    /\ reinsert = [t \in Txn |-> {}]

Next ==
    \/ \E t \in Txn :
        \/ \E s \in 0..watermark : Open(t, s)
        \/ \E o \in Ops : Sequence(t, o)
        \/ Validate(t) \/ Abort(t) \/ WriteVersions(t) \/ Apply(t) \/ Return(t)
    \/ Advance

Spec == Init /\ [][Next]_protocolVars
=============================================================================
