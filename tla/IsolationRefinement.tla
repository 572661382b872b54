------------------------- MODULE IsolationRefinement -------------------------
(***************************************************************************)
(* The isolation manager, with its windows, reader counts, spinning walks  *)
(* over predecessors and reads of the log, implements the commit protocol. *)
(***************************************************************************)
EXTENDS IsolationManager

\* The record as the protocol has it, with the flags of its snapshot
AbstractRecord(s) ==
    IF log[s] = NoRecord THEN NoRecord
    ELSE [open |-> log[s].open, ops |-> log[s].ops,
          flags |-> StalePuts(log[s].ops, kv, log[s].open)]

\* The status a slot stands for: a commit is pending as soon as it has its number
AbstractStatus(s) == IF log[s] # NoRecord /\ status[s] = "Empty" THEN "Pending" ELSE status[s]

\* How far a thread at a label is, number being its sequence number and marker
\* its slot: what a commit does next is told by its slot once it is decided
PhaseAt(label, number, marker) ==
    IF label \in {"idle", "opening", "openingAt"} THEN "idle"
    ELSE IF label = "returned" THEN "returned"
    ELSE IF number = 0 THEN "open"
    ELSE CASE marker \in {"Empty", "Pending"} -> "sequenced"
           [] marker = "Aborted" -> "aborted"
           [] marker = "Applied" -> "applied"
           [] OTHER -> IF label = "applying" THEN "written" ELSE "validated"

AbstractPhase(t) == PhaseAt(pc[t], seq[t], status[seq[t]])

\* The flags are the protocol's once the commit is validated
AbstractFlags(t) ==
    IF seq[t] # 0 /\ status[seq[t]] \in {"Validated", "Applied"} THEN reinsert[t] ELSE {}

Protocol == INSTANCE CommitProtocol WITH
    log <- [s \in Slot |-> AbstractRecord(s)],
    status <- [s \in Slot |-> AbstractStatus(s)],
    phase <- [t \in Txn |-> AbstractPhase(t)],
    reinsert <- [t \in Txn |-> AbstractFlags(t)]

\* Whatever the threads do in between, a commit is decided as if in one step
\* against all the commits its snapshot has not seen, its Puts are written as the
\* last of those left the key, and nothing but applied or aborted commits gets
\* below the watermark (validate_commit, may_increment_watermark).
ImplementsProtocol == Protocol!Spec
=============================================================================
