------------------------ MODULE TransactionExclusivity ------------------------
(***************************************************************************)
(* Admission of write and schema transactions to a Database: any number of *)
(* write transactions, or one schema transaction.  Requests that cannot be *)
(* admitted wait in notify_queue for the transaction that leaves, or until *)
(* their timeout; the entry of a request that timed out stays in the queue *)
(* until it is reached.                                                    *)
(*                                                                         *)
(* Each element of Txn is one call of TransactionWrite::open or            *)
(* TransactionSchema::open together with the transaction it yields.        *)
(***************************************************************************)
EXTENDS Naturals, Sequences, FiniteSets

CONSTANTS
    Txn,    \* the requests
    NoTxn   \* stands for no request

ASSUME TxnAssumption == IsFiniteSet(Txn) /\ NoTxn \notin Txn

Kind == {"Write", "Schema"}

VARIABLES
    hasSchema,  \* has_schema_transaction
    running,    \* running_write_transactions
    queue,      \* notify_queue: the requests, the oldest one first
    mutex,      \* the thread inside fulfill_reservation_requests, or NoTxn
    kind,       \* what each request asks for
    pc          \* where each request's thread is

vars == <<hasSchema, running, queue, mutex, kind, pc>>

Goto(t, label) == pc' = [pc EXCEPT ![t] = label]

-----------------------------------------------------------------------------
\* Mutants: a check of the reservation forgotten
BlockedByNoWrites(k) == hasSchema \/ queue # <<>>
BlockedByNoQueue(k) == hasSchema \/ (k = "Schema" /\ running > 0)

\* The state that makes a request of kind k wait
Blocked(k) ==
    \/ hasSchema
    \/ k = "Schema" /\ running > 0
    \/ queue # <<>>

\* reserve_write_transaction and reserve_schema_transaction
Reserve(t) ==
    /\ pc[t] = "idle"
    /\ mutex = NoTxn
    /\ IF Blocked(kind[t])
       THEN /\ queue' = Append(queue, t)
            /\ Goto(t, "waiting")
            /\ UNCHANGED <<hasSchema, running>>
       ELSE /\ hasSchema' = (kind[t] = "Schema")
            /\ running' = IF kind[t] = "Write" THEN running + 1 ELSE running
            /\ Goto(t, "holding")
            /\ UNCHANGED queue
    /\ UNCHANGED <<mutex, kind>>

\* try_acquire_schema_write_transaction_lock found the mutex taken at every
\* attempt and gives up (the short critical sections of other requests are
\* single steps here, so that the mutex looks free between them)
LockTimeout(t) ==
    /\ pc[t] = "idle"
    /\ Goto(t, "refused")
    /\ UNCHANGED <<hasSchema, running, queue, mutex, kind>>

\* recv_timeout gives up and drops the receiver
WaitTimeout(t) ==
    /\ pc[t] = "waiting"
    /\ Goto(t, "timedOut")
    /\ UNCHANGED <<hasSchema, running, queue, mutex, kind>>

\* Mutant: the last write transaction does not look at the queue
ReleaseWriteOnly(t) ==
    /\ pc[t] = "holding" /\ kind[t] = "Write"
    /\ mutex = NoTxn
    /\ running' = running - 1
    /\ Goto(t, "released")
    /\ UNCHANGED <<hasSchema, queue, mutex, kind>>

ReleaseWrite(t) ==
    /\ pc[t] = "holding" /\ kind[t] = "Write"
    /\ mutex = NoTxn
    /\ running' = running - 1
    /\ IF running' = 0
       THEN mutex' = t /\ Goto(t, "fulfilling")
       ELSE UNCHANGED mutex /\ Goto(t, "released")
    /\ UNCHANGED <<hasSchema, queue, kind>>

\* Mutant: the queue is not looked at
ReleaseSchemaOnly(t) ==
    /\ pc[t] = "holding" /\ kind[t] = "Schema"
    /\ mutex = NoTxn
    /\ hasSchema' = FALSE
    /\ Goto(t, "released")
    /\ UNCHANGED <<running, queue, mutex, kind>>

ReleaseSchema(t) ==
    /\ pc[t] = "holding" /\ kind[t] = "Schema"
    /\ mutex = NoTxn
    /\ hasSchema' = FALSE
    /\ mutex' = t
    /\ Goto(t, "fulfilling")
    /\ UNCHANGED <<running, queue, kind>>

\* One iteration of the loop of fulfill_reservation_requests: the queue is empty
EndFulfill(t) ==
    /\ pc[t] = "fulfilling"
    /\ queue = <<>>
    /\ mutex' = NoTxn
    /\ Goto(t, "released")
    /\ UNCHANGED <<hasSchema, running, queue, kind>>

\* A schema request waits for the write transactions just notified: it is left
\* in the queue
LeaveSchema(t) ==
    /\ pc[t] = "fulfilling"
    /\ queue # <<>>
    /\ kind[Head(queue)] = "Schema" /\ running > 0
    /\ mutex' = NoTxn
    /\ Goto(t, "released")
    /\ UNCHANGED <<hasSchema, running, queue, kind>>

\* Mutant: the result of the notifier is ignored
SkipButCount(t) ==
    /\ pc[t] = "fulfilling"
    /\ queue # <<>>
    /\ kind[Head(queue)] = "Write"
    /\ pc[Head(queue)] # "waiting"
    /\ queue' = Tail(queue)
    /\ running' = running + 1
    /\ UNCHANGED <<hasSchema, mutex, kind, pc>>
\* The front request has timed out: its notifier fails and it is dropped
SkipTimedOut(t) ==
    /\ pc[t] = "fulfilling"
    /\ queue # <<>>
    /\ kind[Head(queue)] = "Schema" => running = 0
    /\ pc[Head(queue)] # "waiting"
    /\ queue' = Tail(queue)
    /\ UNCHANGED <<hasSchema, running, mutex, kind, pc>>

\* A schema request is notified: exactly one, and the loop ends
GrantSchema(t) ==
    /\ pc[t] = "fulfilling"
    /\ queue # <<>>
    /\ kind[Head(queue)] = "Schema" /\ running = 0
    /\ pc[Head(queue)] = "waiting"
    /\ queue' = Tail(queue)
    /\ hasSchema' = TRUE
    /\ mutex' = NoTxn
    /\ pc' = [pc EXCEPT ![Head(queue)] = "holding", ![t] = "released"]
    /\ UNCHANGED <<running, kind>>

\* A write request is notified, and the loop goes on
GrantWrite(t) ==
    /\ pc[t] = "fulfilling"
    /\ queue # <<>>
    /\ kind[Head(queue)] = "Write"
    /\ pc[Head(queue)] = "waiting"
    /\ queue' = Tail(queue)
    /\ running' = running + 1
    /\ Goto(Head(queue), "holding")
    /\ UNCHANGED <<hasSchema, mutex, kind>>

-----------------------------------------------------------------------------
Init ==
    /\ hasSchema = FALSE
    /\ running = 0
    /\ queue = <<>>
    /\ mutex = NoTxn
    /\ kind \in [Txn -> Kind]
    /\ pc = [t \in Txn |-> "idle"]

Release(t) == ReleaseWrite(t) \/ ReleaseSchema(t)
Fulfill(t) ==
    \/ EndFulfill(t) \/ LeaveSchema(t) \/ SkipTimedOut(t)
    \/ GrantSchema(t) \/ GrantWrite(t)

Finished ==
    /\ \A t \in Txn : pc[t] \in {"released", "timedOut", "refused"}
    /\ UNCHANGED vars

Next ==
    \/ \E t \in Txn :
         \/ Reserve(t) \/ LockTimeout(t) \/ WaitTimeout(t) \/ Release(t) \/ Fulfill(t)
    \/ Finished

Spec == Init /\ [][Next]_vars

\* The mutex holder runs on, and a transaction ends: by its client or, at the
\* latest, by its transaction timeout
LiveSpec == Spec /\ \A t \in Txn : WF_vars(Release(t)) /\ WF_vars(Fulfill(t))

-----------------------------------------------------------------------------
Holding(k) == {t \in Txn : pc[t] = "holding" /\ kind[t] = k}

\* The types of the reservation state.
TypeOK ==
    /\ hasSchema \in BOOLEAN
    /\ running \in Nat
    /\ queue \in Seq(Txn)
    /\ mutex \in Txn \cup {NoTxn}
    /\ kind \in [Txn -> Kind]
    /\ pc \in [Txn -> {"idle", "waiting", "holding", "fulfilling", "released",
                       "timedOut", "refused"}]

\* A schema transaction excludes every other schema and write transaction.
SchemaExcludesOthers ==
    \A t, u \in Txn : t \in Holding("Schema") /\ pc[u] = "holding" => u = t

\* The counters agree with the transactions that hold a reservation: no release
\* is lost or done twice, although grants are counted by the releasing thread.
CountersExact ==
    /\ running = Cardinality(Holding("Write"))
    /\ hasSchema <=> Holding("Schema") # {}

\* A request is left in the queue only while a transaction is there whose
\* release will look at the queue: otherwise it would wait for its timeout
\* although the database is idle.
NoStrandedRequest ==
    mutex = NoTxn /\ queue # <<>> => hasSchema \/ running > 0

\* A waiting request is in the queue, where a release finds it.
WaitingQueued ==
    \A t \in Txn : pc[t] = "waiting" => \E i \in 1..Len(queue) : queue[i] = t

\* Requests are granted in the order they were queued: whoever is granted had
\* no live request before it.
NoOvertaking ==
    [][\A t \in Txn : pc[t] # "holding" /\ pc'[t] = "holding" =>
         \A u \in Txn \ {t} : pc[u] = "waiting" =>
            \E i, j \in 1..Len(queue) : i < j /\ queue[i] = t /\ queue[j] = u]_vars

\* Every queued request is granted in the end, if it does not time out first.
RequestServed == \A t \in Txn : pc[t] = "waiting" ~> pc[t] # "waiting"
=============================================================================
