--------------------------- MODULE DatabaseSchema ---------------------------
(***************************************************************************)
(* What a database keeps beside its storage and must keep in step with it: *)
(* the statistics, the type and function caches, and the cache of query    *)
(* plans.  Transactions copy them when they open; the schema commit        *)
(* replaces them under the schema lock; a background thread brings the     *)
(* statistics up to date.                                                  *)
(*                                                                         *)
(* Admission (TransactionExclusivity) and isolation (IsolationManager) are *)
(* abstract: a schema transaction excludes write transactions, and a       *)
(* commit of data is accepted or refused.  A cache is the number of the    *)
(* schema commit it was built from, and so is a plan.                      *)
(***************************************************************************)
EXTENDS Statistics

CONSTANTS
    Txn,           \* clients with read or write transactions, one after the other
    ObjectKey,     \* keys that are inserted once; the others are put
    MaxWrites,     \* bound: counted keys that a commit writes
    MaxCommits,    \* bound: commits
    MaxSchemas,    \* bound: schema commits, one that writes instances counting for two
    MaxLost,       \* bound: commits that fail after they are in the log, between restarts
    MaxCrashes     \* bound: crashes

NoPlan == -1

VARIABLES
    log,           \* the commits
    record,        \* the last statistics record in the log
    flushed,       \* the highest number of a statistics record in the log
    statistics,    \* Schema.thing_statistics
    cache,         \* Schema.type_cache and Schema.function_cache
    failed,        \* schema commits whose caches could not be built
    lost,          \* commits that returned an error before their status record was written
    plan,          \* the cached plan of the one query
    straddled,     \* a schema commit overtook a read transaction
    txn,           \* the transactions
    schema,        \* the schema transaction
    updater,       \* the statistics thread
    crashes

vars == <<log, record, flushed, statistics, cache, failed, lost, plan, straddled, txn, schema,
          updater, crashes>>
stores == <<record, flushed, statistics, cache, failed, plan, straddled>>

Closed(kind) == [phase |-> "closed", kind |-> kind, open |-> 0, cache |-> 0]
NoSchema == [phase |-> "closed", open |-> 0, statistics |-> NewStatistics(0)]
Waiting == [phase |-> "waiting", statistics |-> NewStatistics(0)]

\* the schema lock is held for writing while a schema transaction commits
SchemaLocked == schema.phase \in {"locked", "submitted", "committed", "poisoned"}

\* bound: transactions that write are opened while one can still commit
Room == Len(log) < MaxCommits

\* bound: there is room for a schema commit with the operations o
SchemaRoom(o) ==
    LET before == {i \in DOMAIN log : log[i].type = "schema"}
        writing == {i \in before : log[i].ops # NoOps}
    IN Cardinality(before) + Cardinality(writing) + (IF o = NoOps THEN 1 ELSE 2) <= MaxSchemas

\* the number of the schema commit that a read at s sees
SchemaIn(commits, s) == Max({0} \cup {i \in Committed(commits, s) : commits[i].type = "schema"})
SchemaAt(s) == SchemaIn(log, s)

-----------------------------------------------------------------------------
(* Read and write transactions.                                              *)

OpenTxn(t) ==
    /\ txn[t].phase = "closed"
    /\ txn[t].kind = "write" => schema.phase = "closed" /\ Room
    /\ ~SchemaLocked
    /\ txn' = [txn EXCEPT ![t] = [phase |-> "open", kind |-> @.kind, open |-> Watermark(log),
                                  cache |-> cache]]
    /\ UNCHANGED <<log, stores, schema, updater, lost, crashes>>

\* prepare_read_pipeline, without a plan in the cache ...
CompilePlan(t) ==
    /\ txn[t].phase = "open" /\ txn[t].kind = "read" /\ plan = NoPlan
    /\ txn' = [txn EXCEPT ![t].phase = "compiling"]
    /\ UNCHANGED <<log, stores, schema, updater, lost, crashes>>

\* ... one is made with the transaction's type cache and put there
InsertPlan(t) ==
    /\ txn[t].phase = "compiling"
    /\ plan' = txn[t].cache
    /\ txn' = [txn EXCEPT ![t].phase = "open"]
    /\ UNCHANGED <<log, record, flushed, statistics, cache, failed, straddled, schema, updater,
                   lost, crashes>>

\* closed, or the commit failed before it was in the log
CloseTxn(t) ==
    /\ txn[t].phase = "open"
    /\ txn' = [txn EXCEPT ![t] = Closed(@.kind)]
    /\ UNCHANGED <<log, stores, schema, updater, lost, crashes>>

\* the operations a transaction that reads at s can have buffered; a Put is written
\* again if its key was not there (set_initial_put_status)
Buffers(s) ==
    {o \in [inserts : SUBSET ObjectKey, puts : SUBSET (Key \ ObjectKey), deletes : SUBSET Key,
            reinsert : SUBSET (Key \ ObjectKey)] :
        /\ o.puts \cap o.deletes = {}
        /\ \A i \in DOMAIN log : o.inserts \cap log[i].ops.inserts = {}
        /\ \A k \in o.deletes : Present(log, k, s)
        /\ o.reinsert = {k \in o.puts : ~Present(log, k, s)}
        /\ Cardinality(Written(o)) \in 1..MaxWrites}

Submit(type, s, o) ==
    /\ Room
    /\ log' = Append(log, [type |-> type, open |-> s, ops |-> o, status |-> "pending",
                           flushed |-> IF type = "schema" THEN flushed ELSE 0,
                           lost |-> IF type = "schema" THEN lost ELSE {}])

CommitTxn(t) ==
    /\ txn[t].phase = "open" /\ txn[t].kind = "write"
    /\ \E o \in Buffers(txn[t].open) : Submit("data", txn[t].open, o)
    /\ txn' = [txn EXCEPT ![t] = [phase |-> "committing", kind |-> @.kind, open |-> Len(log) + 1,
                                  cache |-> @.cache]]
    /\ UNCHANGED <<stores, schema, updater, lost, crashes>>

\* the log in which the commit i has another status
WithStatus(commits, i, status) ==
    [commits EXCEPT ![i] = [type |-> @.type, open |-> @.open, ops |-> @.ops, status |-> status,
                            flushed |-> @.flushed, lost |-> @.lost]]

\* the isolation manager's decision, which waits for a commit before it that was left
\* undecided, and for an accepted commit the keyspaces
Decide(i, outcomes) ==
    /\ log[i].status = "pending"
    /\ \A j \in lost : j < i => log[j].status # "pending"
    /\ \E status \in outcomes : log' = WithStatus(log, i, status)

PersistStatus(i) ==
    /\ log[i].status \in {"applied", "aborted"}
    /\ log' = WithStatus(log, i, IF log[i].status = "applied" THEN "validated" ELSE "rejected")

DecideTxn(t) ==
    /\ txn[t].phase = "committing"
    /\ Decide(txn[t].open, {"applied", "aborted"})
    /\ UNCHANGED <<stores, txn, schema, updater, lost, crashes>>

FinishTxn(t) ==
    /\ txn[t].phase = "committing"
    /\ PersistStatus(txn[t].open)
    /\ txn' = [txn EXCEPT ![t] = Closed(@.kind)]
    /\ UNCHANGED <<stores, schema, updater, lost, crashes>>

\* the commit i returns an error: it could not be validated, or its status not be written
Lose(i) ==
    /\ ~Complete(log[i].status) /\ Cardinality(lost) < MaxLost
    /\ lost' = lost \cup {i}

\* An error of the keyspaces leaves a validated number that later opens wait for: nobody
\* opens any more, as when the transaction stays in "committing".
FailTxn(t) ==
    /\ txn[t].phase = "committing"
    /\ Lose(txn[t].open)
    /\ txn' = [txn EXCEPT ![t] = Closed(@.kind)]
    /\ UNCHANGED <<log, stores, schema, updater, crashes>>

-----------------------------------------------------------------------------
(* The schema transaction.                                                   *)

OpenSchema ==
    /\ schema.phase = "closed" /\ Room /\ SchemaRoom(NoOps)
    /\ \A t \in Txn : txn[t].phase # "closed" => txn[t].kind = "read"
    /\ schema' = [phase |-> "open", open |-> Watermark(log), statistics |-> NewStatistics(0)]
    /\ UNCHANGED <<log, stores, txn, updater, lost, crashes>>

\* closed, refused by the validations, or an error before the commit is in the log
AbandonSchema ==
    /\ schema.phase \in {"open", "locked"}
    /\ schema' = NoSchema
    /\ UNCHANGED <<log, stores, txn, updater, lost, crashes>>

\* statistics records that a synchronisation appends to the log
WriteRecords(records) ==
    /\ record' = IF records = <<>> THEN record ELSE records[Len(records)]
    /\ flushed' = Max({flushed} \cup {records[i].seq : i \in DOMAIN records})

\* Mutant: the statistics are not written before the schema changes
LockSchemaUnflushed ==
    /\ schema.phase = "open"
    /\ LET st == MaySynchronise(statistics, log)
       IN /\ schema' = [phase |-> IF st.panic THEN "poisoned" ELSE "locked",
                        open |-> schema.open, statistics |-> Counts(st)]
          /\ WriteRecords(st.records)
    /\ UNCHANGED <<log, statistics, cache, failed, plan, straddled, txn, updater, lost, crashes>>

\* try_commit up to the statistics record; a panic leaves the schema lock poisoned
LockSchema ==
    /\ schema.phase = "open"
    /\ LET st == DurablyWrite(MaySynchronise(statistics, log))
       IN /\ schema' = [phase |-> IF st.panic THEN "poisoned" ELSE "locked",
                        open |-> schema.open, statistics |-> Counts(st)]
          /\ WriteRecords(IF st.panic THEN <<>> ELSE st.records)
    /\ UNCHANGED <<log, statistics, cache, failed, plan, straddled, txn, updater, lost, crashes>>

\* a change of types, and the instances that the transaction wrote or removed with them
SubmitSchema ==
    /\ schema.phase = "locked"
    /\ \E o \in {NoOps} \cup Buffers(schema.open) :
           SchemaRoom(o) /\ Submit("schema", schema.open, o)
    /\ schema' = [phase |-> "submitted", open |-> Len(log) + 1, statistics |-> schema.statistics]
    /\ UNCHANGED <<stores, txn, updater, lost, crashes>>

DecideSchema ==
    /\ schema.phase = "submitted"
    /\ Decide(schema.open, {"applied"})
    /\ UNCHANGED <<stores, txn, schema, updater, lost, crashes>>

FinishSchema ==
    /\ schema.phase = "submitted"
    /\ PersistStatus(schema.open)
    /\ schema' = [schema EXCEPT !.phase = "committed"]
    /\ UNCHANGED <<stores, txn, updater, lost, crashes>>

\* Mutant: plans made for the old schema stay in the cache
ReplaceKeepingPlans(c) ==
    /\ LET st == MaySynchronise(schema.statistics, log)
       IN statistics' = Counts(st) /\ WriteRecords(st.records)
    /\ cache' = c
    /\ straddled' = (straddled \/ (c # cache /\ \E t \in Txn : txn[t].phase # "closed"))
    /\ schema' = NoSchema
    /\ UNCHANGED plan

\* the end of try_commit
Replace(c) ==
    /\ LET st == MaySynchronise(schema.statistics, log)
       IN statistics' = Counts(st) /\ WriteRecords(st.records)
    /\ cache' = c
    /\ straddled' = (straddled \/ (c # cache /\ \E t \in Txn : txn[t].phase # "closed"))
    /\ schema' = NoSchema
    /\ plan' = NoPlan

\* without changes there is no commit, and the caches stay
ReplaceUnchanged ==
    /\ schema.phase = "locked"
    /\ Replace(cache)
    /\ UNCHANGED <<log, failed, txn, updater, lost, crashes>>

ReplaceCaches ==
    /\ schema.phase = "committed"
    /\ Replace(schema.open)
    /\ UNCHANGED <<log, failed, txn, updater, lost, crashes>>

\* an error after the commit is in the log, or a cache that cannot be built: the old
\* caches stay
FailSchema ==
    /\ \/ schema.phase = "submitted" /\ Lose(schema.open)
       \/ schema.phase = "committed" /\ UNCHANGED lost
    /\ failed' = failed \cup {schema.open}
    /\ schema' = NoSchema
    /\ UNCHANGED <<log, record, flushed, statistics, cache, plan, straddled, txn, updater, crashes>>

-----------------------------------------------------------------------------
(* The statistics thread, every STATISTICS_UPDATE_INTERVAL.                  *)

UpdaterCheck ==
    /\ updater.phase = "waiting" /\ ~SchemaLocked
    /\ Watermark(log) > statistics.seq
    /\ updater' = [updater EXCEPT !.phase = "checked"]
    /\ UNCHANGED <<log, stores, txn, schema, lost, crashes>>

UpdaterClone ==
    /\ updater.phase = "checked" /\ ~SchemaLocked
    /\ updater' = [phase |-> "cloned", statistics |-> statistics]
    /\ UNCHANGED <<log, stores, txn, schema, lost, crashes>>

\* a plan is evicted if its types' counts have changed much
UpdaterSync ==
    /\ updater.phase = "cloned"
    /\ LET st == MaySynchronise(updater.statistics, log)
       IN /\ updater' = [phase |-> IF st.panic THEN "dead" ELSE "synced", statistics |-> Counts(st)]
          /\ WriteRecords(IF st.panic THEN <<>> ELSE st.records)
    /\ plan' \in {plan, NoPlan}
    /\ UNCHANGED <<log, statistics, cache, failed, straddled, txn, schema, lost, crashes>>

UpdaterStore ==
    /\ updater.phase = "synced" /\ ~SchemaLocked
    /\ statistics' = updater.statistics
    /\ updater' = Waiting
    /\ UNCHANGED <<log, record, flushed, cache, failed, plan, straddled, txn, schema, lost, crashes>>

-----------------------------------------------------------------------------
(* A crash, and Database::load after it.                                     *)

\* recovery gives every commit a status
Recovered(undecided) ==
    [i \in DOMAIN log |->
        [log[i] EXCEPT !.status =
            IF i \in DOMAIN undecided THEN undecided[i]
            ELSE IF @ \in {"applied", "validated"} THEN "validated" ELSE "rejected"]]

\* Mutant: the caches are built as of the number of the last statistics record
LoadedCache(st, recovered) == SchemaIn(recovered, st.durable)

\* the caches are built from a snapshot of everything that was recovered
LoadCache(st, recovered) == SchemaIn(recovered, Len(recovered))

\* bounded to crashes after which there is room for another commit
Crash ==
    /\ crashes < MaxCrashes /\ Room
    /\ crashes' = crashes + 1
    /\ \E undecided \in [{i \in DOMAIN log : log[i].status = "pending"} -> {"validated", "rejected"}] :
           LET recovered == Recovered(undecided)
               st == MaySynchronise(record, recovered)
           IN /\ log' = recovered
              /\ WriteRecords(IF st.panic THEN <<>> ELSE st.records)
              /\ statistics' = Counts(st)
              /\ schema' = [phase |-> IF st.panic THEN "poisoned" ELSE "closed", open |-> 0,
                            statistics |-> NewStatistics(0)]
              /\ cache' = LoadCache(st, recovered)
    /\ failed' = {} /\ lost' = {} /\ straddled' = FALSE /\ plan' = NoPlan
    /\ txn' = [t \in Txn |-> Closed(txn[t].kind)]
    /\ updater' = Waiting

-----------------------------------------------------------------------------
Init ==
    /\ log = <<>>
    /\ record = NewStatistics(0) /\ flushed = 0
    /\ statistics = NewStatistics(0)
    /\ cache = 0 /\ failed = {} /\ lost = {}
    /\ plan = NoPlan /\ straddled = FALSE
    /\ txn \in [Txn -> {Closed("read"), Closed("write")}]
    /\ schema = NoSchema
    /\ updater = Waiting
    /\ crashes = 0

Transaction(t) ==
    \/ OpenTxn(t) \/ CompilePlan(t) \/ InsertPlan(t) \/ CloseTxn(t)
    \/ CommitTxn(t) \/ DecideTxn(t) \/ FinishTxn(t) \/ FailTxn(t)

SchemaTransaction ==
    \/ OpenSchema \/ AbandonSchema \/ LockSchema \/ SubmitSchema \/ DecideSchema \/ FinishSchema
    \/ ReplaceUnchanged \/ ReplaceCaches \/ FailSchema

Updater == UpdaterCheck \/ UpdaterClone \/ UpdaterSync \/ UpdaterStore

Next ==
    \/ \E t \in Txn : Transaction(t)
    \/ SchemaTransaction
    \/ Updater
    \/ Crash

Spec == Init /\ [][Next]_vars

-----------------------------------------------------------------------------
(* Properties.                                                               *)

\* may_synchronise's debug_assert: nobody's statistics are ahead of the storage.
WithinWatermark ==
    LET watermark == Watermark(log)
    IN \A st \in {statistics, schema.statistics, updater.statistics, record} : st.seq <= watermark

\* The key k was deleted by two commits of which the later had not seen the earlier.
RacedDelete(k) ==
    \E i, j \in Committed(log, Len(log)) :
        i < j /\ log[j].open < i /\ k \in log[i].ops.deletes \cap log[j].ops.deletes

AccurateFor(k) == statistics.counts[k] = IF Present(log, k, statistics.seq) THEN 1 ELSE 0

\* The statistics are within the watermark and count what a snapshot at their number
\* reads, whatever the order of
\* commits, status records, schema commits, updates and restarts, unless two concurrent
\* transactions deleted the key: may_synchronise and write_to_delta.
AccurateUnlessRaced == WithinWatermark /\ \A k \in Key : AccurateFor(k) \/ RacedDelete(k)

\* A transaction's type and function caches are those of the schema its snapshot reads,
\* unless the commit of that schema failed to build them: both are taken under the schema
\* lock, which the schema commit holds until it has replaced them.
CachesMatchSnapshot ==
    \A t \in Txn : txn[t].phase \in {"open", "compiling"} =>
        LET seen == SchemaAt(txn[t].open) IN txn[t].cache = seen \/ seen \in failed

\* A cached plan was made for the schema that new transactions see, unless a read
\* transaction was open while a schema commit replaced it: force_reset clears the rest.
PlansCurrentUnlessStraddled == straddled \/ plan \in {NoPlan, cache}

\* "guaranteeing a version of statistics is in WAL before schema can change": one that has
\* counted every commit before the schema commit, up to the first whose status record was
\* never written because of an error.
FlushedUnlessLost ==
    \A i \in DOMAIN log : log[i].type = "schema" =>
        \A j \in Committed(log, i - 1) : j <= log[i].flushed \/ \E l \in log[i].lost : l <= j

\* The keys of objects are counted keys.
ASSUME ObjectKeyAssumption == ObjectKey \subseteq Key
=============================================================================
