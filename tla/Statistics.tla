----------------------------- MODULE Statistics -----------------------------
(***************************************************************************)
(* The instance counts, computed from the commit records of the log.  The  *)
(* log is a sequence of commits; a commit's operations on the counted keys *)
(* are sets of keys, and its status tells how far it is: written           *)
(* ("pending"), through the isolation manager ("applied", "aborted"), and  *)
(* with its status record in the log ("validated", "rejected").            *)
(*                                                                         *)
(* Every key is the only instance of its type, so that the counts by type  *)
(* are counts by key.                                                      *)
(***************************************************************************)
EXTENDS Integers, Sequences, FiniteSets, FiniteSetsExt

CONSTANTS
    Key,           \* the counted keys
    ContextSize,   \* COMMIT_CONTEXT_SIZE: earlier commits read for context
    DurableEvery   \* STATISTICS_DURABLE_WRITE_SEQ_NUMBERS

Ops == [inserts : SUBSET Key, puts : SUBSET Key, deletes : SUBSET Key, reinsert : SUBSET Key]
NoOps == [inserts |-> {}, puts |-> {}, deletes |-> {}, reinsert |-> {}]
Written(ops) == ops.inserts \cup ops.puts \cup ops.deletes

Committed(log, s) == {i \in 1..s : log[i].status \in {"applied", "validated"}}

\* MVCCStorage::get at the number s
Present(log, k, s) ==
    LET writers == {i \in Committed(log, s) : k \in Written(log[i].ops)}
    IN writers # {} /\ k \notin log[Max(writers)].ops.deletes

\* the last number that every commit up to has been through the isolation manager
Watermark(log) ==
    Max({0} \cup {s \in DOMAIN log : \A i \in 1..s : log[i].status # "pending"})

NewStatistics(s) == [seq |-> s, counts |-> [k \in Key |-> 0], durable |-> s]

-----------------------------------------------------------------------------
\* Mutant: concurrent commits are not looked at
WriteToDeltaByFlag(log, k, i, commits) ==
    LET op == log[i].ops
    IN IF k \in op.inserts THEN 1
       ELSE IF k \in op.deletes THEN -1
       ELSE IF k \in op.reinsert THEN 1 ELSE 0

\* what the write of k by the commit i adds to the count, judged from the loaded commits
WriteToDelta(log, k, i, commits) ==
    LET op == log[i].ops
        concurrent == {j \in commits : log[i].open < j /\ j < i /\ k \in Written(log[j].ops)}
    IN IF k \in op.inserts THEN 1
       ELSE IF k \in op.deletes
       THEN IF \E j \in concurrent : k \in log[j].ops.deletes THEN 0 ELSE -1
       ELSE IF concurrent # {}
       THEN IF k \in log[Max(concurrent)].ops.deletes THEN 1 ELSE 0
       ELSE IF log[i].open + 1 < Min(commits)
       THEN IF Present(log, k, i - 1) THEN 0 ELSE 1
       ELSE IF k \in op.reinsert THEN 1 ELSE 0

\* the count of k from st's number on: the commits after it are added in order
Running(st, log, k, commits) ==
    LET count[i \in st.seq..Len(log)] ==
            IF i = st.seq THEN st.counts[k]
            ELSE count[i - 1] + IF i \in commits /\ k \in Written(log[i].ops)
                                THEN WriteToDelta(log, k, i, commits) ELSE 0
    IN count

\* a count below zero on the way is a panic
UpdateWrites(st, log, commits) ==
    LET new == {i \in commits : i > st.seq}
    IN [seq |-> Max(new \cup {st.seq}),
        counts |-> [k \in Key |-> Running(st, log, k, commits)[Len(log)]],
        durable |-> st.durable,
        records |-> st.records,
        panic |-> st.panic \/ \E k \in Key, i \in new : Running(st, log, k, commits)[i] < 0]

\* the statistics go into the log with the durable number they had until then
DurablyWrite(st) ==
    LET written == [seq |-> st.seq, counts |-> st.counts, durable |-> st.durable]
    IN [seq |-> st.seq, counts |-> st.counts, durable |-> st.seq,
        records |-> Append(st.records, written), panic |-> st.panic]

\* one commit of the loop in may_synchronise
SyncStep(acc, log, i) ==
    IF log[i].status = "rejected" THEN acc
    ELSE IF log[i].type = "data" THEN [st |-> acc.st, data |-> acc.data \cup {i}]
    ELSE LET st == acc.st
             before == IF st.durable + 1 < i
                       THEN DurablyWrite(UpdateWrites(st, log, acc.data)) ELSE st
         IN [st |-> IF st.seq < i THEN UpdateWrites(before, log, {i}) ELSE st, data |-> {}]

\* the loop over the commits from start to end
SyncLoop(st, log, start, end) ==
    LET loop[i \in (start - 1)..end] ==
            IF i < start THEN [st |-> st, data |-> {}] ELSE SyncStep(loop[i - 1], log, i)
    IN loop[end]

\* a commit without its status record stops the loop
Complete(status) == status \in {"validated", "rejected"}

\* may_synchronise: the statistics afterwards, with the records they left in the log
\* and whether a count went below zero
MaySynchronise(old, log) ==
    LET start == Max({1, old.seq - ContextSize})
        end == Max({start - 1} \cup {i \in start..Len(log) :
                       \A j \in start..i : Complete(log[j].status)})
        copy == [seq |-> old.seq, counts |-> old.counts, durable |-> old.durable,
                 records |-> <<>>, panic |-> FALSE]
        last == SyncLoop(copy, log, start, end)
        st == UpdateWrites(last.st, log, last.data)
    IN IF old.seq = Watermark(log) THEN copy
       ELSE IF st.seq - st.durable > DurableEvery THEN DurablyWrite(st) ELSE st

\* the statistics proper, without what a synchronisation left behind
Counts(st) == [seq |-> st.seq, counts |-> st.counts, durable |-> st.durable]

ASSUME StatisticsAssumption == ContextSize \in Nat /\ DurableEvery \in Nat
=============================================================================
