--------------------- MODULE TransactionExclusivityProofs ---------------------
(***************************************************************************)
(* Proofs about TransactionExclusivity for any finite set of requests.     *)
(***************************************************************************)
EXTENDS TransactionExclusivity, FiniteSetTheorems, TLAPS

\* The thread inside fulfill_reservation_requests is the one that holds the mutex.
MutexHolder == \A t \in Txn : pc[t] = "fulfilling" <=> mutex = t

\* The loop of fulfill_reservation_requests runs only when no schema transaction
\* does: what makes its grants exclusive.
FulfillUnreserved == mutex # NoTxn => ~hasSchema

\* A schema transaction never runs beside a counted write transaction.
CountersExclude == hasSchema => running = 0

\* At most one request holds a schema reservation.
OneSchema == \A t, u \in Holding("Schema") : t = u

\* The inductive invariant: what is promised, and the state of the loop of
\* fulfill_reservation_requests that the promises rest on.
Inv ==
    /\ TypeOK
    /\ MutexHolder
    /\ FulfillUnreserved
    /\ CountersExact
    /\ CountersExclude
    /\ OneSchema
    /\ NoStrandedRequest
    /\ WaitingQueued

\* Sets of requests are finite.
LEMMA HoldingFinite == \A k : IsFiniteSet(Holding(k))
  BY Zenon, TxnAssumption, FS_Subset DEF Holding

\* A write reservation that is given raises the number of holders by one.
LEMMA HolderAdded ==
  ASSUME NEW t \in Txn, NEW S, NEW T, IsFiniteSet(S), t \notin S, T = S \cup {t}
  PROVE  Cardinality(T) = Cardinality(S) + 1
  BY Zenon, FS_AddElement

\* A write reservation that is given back lowers the number of holders by one,
\* and there was one.
LEMMA HolderRemoved ==
  ASSUME NEW t \in Txn, NEW S, NEW T, IsFiniteSet(S), t \in S, T = S \ {t}
  PROVE  Cardinality(T) = Cardinality(S) - 1 /\ Cardinality(S) > 0
<1>1. Cardinality(T) = Cardinality(S) - 1
  BY Zenon, FS_RemoveElement
<1>2. Cardinality(S) \in Nat
  BY Zenon, FS_CardinalityType
<1>3. Cardinality(S) # 0
  BY Zenon, FS_EmptySet
<1> QED BY <1>1, <1>2, <1>3

\* The initial state satisfies the invariant.
LEMMA InitInv == Init => Inv
<1> SUFFICES ASSUME Init PROVE Inv
    BY Zenon
<1>1. TypeOK
  <2>1. hasSchema \in BOOLEAN
    BY Zenon DEF Init
  <2>2. queue \in Seq(Txn)
    BY DEF Init
  <2>3. running \in Nat /\ mutex \in Txn \cup {NoTxn}
    BY Zenon DEF Init
  <2>4. kind \in [Txn -> Kind]
    BY Zenon DEF Init
  <2>5. pc \in [Txn -> {"idle", "waiting", "holding", "fulfilling", "released",
                        "timedOut", "refused"}]
    BY Zenon DEF Init
  <2> QED BY Zenon, <2>1, <2>2, <2>3, <2>4, <2>5 DEF TypeOK
<1>2. Holding("Write") = {} /\ Holding("Schema") = {}
  BY Zenon DEF Init, Holding
<1>3. CountersExact
  BY Zenon, <1>2, FS_EmptySet DEF Init, CountersExact
<1>4. MutexHolder
  BY Zenon, TxnAssumption DEF Init, MutexHolder
<1>5. FulfillUnreserved /\ CountersExclude /\ OneSchema /\ NoStrandedRequest /\ WaitingQueued
  BY Zenon, <1>2 DEF Init, FulfillUnreserved, CountersExclude, OneSchema, NoStrandedRequest,
              WaitingQueued
<1> QED BY Zenon, <1>1, <1>3, <1>4, <1>5 DEF Inv

\* A request that neither gains nor loses a reservation leaves the holders alone.
LEMMA SameHolders ==
  ASSUME TypeOK, NEW t \in Txn, NEW label, label # "holding", pc[t] # "holding",
         Goto(t, label), UNCHANGED kind
  PROVE  \A k : Holding(k)' = Holding(k)
  BY Zenon DEF TypeOK, Goto, Holding

\* The request t is granted a reservation.
LEMMA GrantedHolders ==
  ASSUME TypeOK, NEW t \in Txn, NEW k, kind[t] = k, pc[t] # "holding",
         Goto(t, "holding"), UNCHANGED kind
  PROVE  /\ Holding(k)' = Holding(k) \cup {t}
         /\ t \notin Holding(k)
         /\ \A j : j # k => Holding(j)' = Holding(j)
  BY Zenon DEF TypeOK, Goto, Holding

\* The request t gives its reservation back.
LEMMA ReleasedHolders ==
  ASSUME TypeOK, NEW t \in Txn, NEW k, kind[t] = k, pc[t] = "holding",
         NEW label, label # "holding", Goto(t, label), UNCHANGED kind
  PROVE  /\ Holding(k)' = Holding(k) \ {t}
         /\ t \in Holding(k)
         /\ \A j : j # k => Holding(j)' = Holding(j)
  BY Zenon DEF TypeOK, Goto, Holding

Queued(t, q) == \E i \in 1..Len(q) : q[i] = t

\* What stays queued when a request is appended, or the front one taken.
LEMMA QueueAppend ==
  ASSUME NEW q \in Seq(Txn), NEW t \in Txn
  PROVE  /\ Append(q, t) \in Seq(Txn) /\ Append(q, t) # <<>>
         /\ Queued(t, Append(q, t))
         /\ \A u : Queued(u, q) => Queued(u, Append(q, t))
<1>1. Append(q, t) \in Seq(Txn) /\ Len(Append(q, t)) = Len(q) + 1
  OBVIOUS
<1>2. Append(q, t)[Len(q) + 1] = t
  OBVIOUS
<1>3. \A i \in 1..Len(q) : Append(q, t)[i] = q[i]
  OBVIOUS
<1>4. Len(q) \in Nat
  OBVIOUS
<1> QED BY <1>1, <1>2, <1>3, <1>4 DEF Queued

\* Popping the front of notify_queue leaves a sequence of the later entries.
LEMMA QueueTail ==
  ASSUME NEW q \in Seq(Txn), q # <<>>
  PROVE  /\ Head(q) \in Txn /\ Tail(q) \in Seq(Txn)
         /\ \A u : Queued(u, q) /\ u # Head(q) => Queued(u, Tail(q))
<1>1. Len(q) \in Nat /\ Len(q) > 0 /\ Head(q) = q[1] /\ q[1] \in Txn
  OBVIOUS
<1>2. Tail(q) \in Seq(Txn) /\ Len(Tail(q)) = Len(q) - 1
  BY <1>1
<1>3. \A i \in 1..Len(Tail(q)) : Tail(q)[i] = q[i + 1]
  BY <1>1
<1>4. ASSUME NEW u, NEW i \in 1..Len(q), q[i] = u, u # Head(q)
      PROVE  i - 1 \in 1..Len(Tail(q)) /\ Tail(q)[i - 1] = u
  BY <1>1, <1>2, <1>3, <1>4
<1> QED BY ZenonT(40), <1>1, <1>2, <1>4 DEF Queued

-----------------------------------------------------------------------------
(* Every step preserves the invariant.                                       *)

\* reserve_write_transaction and reserve_schema_transaction keep the invariant.
LEMMA ReserveInv ==
  ASSUME Inv, NEW t \in Txn, Reserve(t)
  PROVE  Inv'
<1> USE DEF Goto
<1>0. TypeOK /\ pc[t] = "idle" /\ mutex = NoTxn /\ mutex' = mutex /\ kind' = kind
      /\ kind[t] \in Kind
  BY Zenon DEF Inv, Reserve, TypeOK
<1>1. CASE Blocked(kind[t])
  <2>1. queue' = Append(queue, t) /\ Goto(t, "waiting") /\ hasSchema' = hasSchema
        /\ running' = running
    BY Zenon, <1>1 DEF Reserve
  <2>2. \A k : Holding(k)' = Holding(k)
    BY Zenon, <1>0, <2>1, SameHolders
  <2>3. TypeOK'
    <3>1. queue' \in Seq(Txn)
      BY Zenon, <1>0, <2>1, QueueAppend DEF TypeOK
    <3>2. hasSchema' \in BOOLEAN
      BY Zenon, <1>0, <2>1 DEF TypeOK
    <3> QED BY Zenon, <1>0, <2>1, <3>1, <3>2 DEF TypeOK
  <2>4. MutexHolder'
    BY Zenon, <1>0, <2>1 DEF Inv, MutexHolder, TypeOK
  <2>5. FulfillUnreserved' /\ CountersExclude'
    BY Zenon, <1>0, <2>1 DEF Inv, FulfillUnreserved, CountersExclude
  <2>6. CountersExact' /\ OneSchema'
    BY Zenon, <2>1, <2>2 DEF Inv, CountersExact, OneSchema
  <2>7. NoStrandedRequest'
    BY Zenon, <1>0, <1>1, <2>1 DEF Inv, NoStrandedRequest, Blocked
  <2>8. WaitingQueued'
    BY <1>0, <2>1, QueueAppend DEF Inv, WaitingQueued, Queued, TypeOK
  <2> QED BY Zenon, <2>3, <2>4, <2>5, <2>6, <2>7, <2>8 DEF Inv
<1>2. CASE ~Blocked(kind[t])
  <2>1. queue' = queue /\ Goto(t, "holding") /\ hasSchema' = (kind[t] = "Schema")
        /\ running' = IF kind[t] = "Write" THEN running + 1 ELSE running
    BY Zenon, <1>2 DEF Reserve
  <2>2. ~hasSchema /\ queue = <<>> /\ (kind[t] = "Schema" => running = 0)
    BY <1>0, <1>2 DEF Blocked, TypeOK
  <2>3. TypeOK'
    <3>1. hasSchema' \in BOOLEAN
      BY Zenon, <2>1
    <3> QED BY <1>0, <2>1, <3>1 DEF TypeOK
  <2>4. MutexHolder'
    BY Zenon, <1>0, <2>1 DEF Inv, MutexHolder, TypeOK
  <2>5. FulfillUnreserved' /\ CountersExclude'
    BY Zenon, <1>0, <2>1, <2>2 DEF FulfillUnreserved, CountersExclude
  <2>7. Holding("Schema") = {}
    BY Zenon, <2>2 DEF Inv, CountersExact
  <2>8. CASE kind[t] = "Write"
    <3>1. Holding("Write")' = Holding("Write") \cup {t} /\ t \notin Holding("Write")
          /\ Holding("Schema")' = Holding("Schema")
      BY Zenon, <1>0, <2>1, <2>8, GrantedHolders
    <3>2. Cardinality(Holding("Write")') = Cardinality(Holding("Write")) + 1
      BY Zenon, <3>1, HoldingFinite, HolderAdded
    <3>3. running' = running + 1 /\ ~hasSchema'
      BY Zenon, <2>1, <2>8
    <3>4. CountersExact' /\ OneSchema'
      BY Zenon, <2>7, <3>1, <3>2, <3>3 DEF Inv, CountersExact, OneSchema
    <3>5. NoStrandedRequest' /\ WaitingQueued'
      BY Zenon, <1>0, <2>1, <2>2 DEF Inv, NoStrandedRequest, WaitingQueued, TypeOK
    <3> QED BY Zenon, <2>3, <2>4, <2>5, <3>4, <3>5 DEF Inv
  <2>9. CASE kind[t] = "Schema"
    <3>1. Holding("Schema")' = Holding("Schema") \cup {t}
          /\ Holding("Write")' = Holding("Write")
      BY Zenon, <1>0, <2>1, <2>9, GrantedHolders
    <3>2. hasSchema'
      BY Zenon, <2>1, <2>9
    <3>3. running' = running
      BY Zenon, <2>1, <2>9
    <3>4. CountersExact' /\ OneSchema'
      BY Zenon, <2>7, <3>1, <3>2, <3>3 DEF Inv, CountersExact, OneSchema
    <3>5. NoStrandedRequest' /\ WaitingQueued'
      BY Zenon, <1>0, <2>1, <2>2 DEF Inv, NoStrandedRequest, WaitingQueued, TypeOK
    <3> QED BY Zenon, <2>3, <2>4, <2>5, <3>4, <3>5 DEF Inv
  <2> QED BY Zenon, <1>0, <2>8, <2>9 DEF Kind
<1> QED BY Zenon, <1>1, <1>2

\* Both timeouts of a request keep the invariant: its entry stays in the queue.
LEMMA TimeoutInv ==
  ASSUME Inv, NEW t \in Txn, LockTimeout(t) \/ WaitTimeout(t)
  PROVE  Inv'
<1> USE DEF Goto
<1> PICK label \in {"refused", "timedOut"} : Goto(t, label)
  BY Zenon DEF LockTimeout, WaitTimeout
<1>1. UNCHANGED <<hasSchema, running, queue, mutex, kind>> /\ pc[t] \in {"idle", "waiting"}
  BY Zenon DEF LockTimeout, WaitTimeout
<1>2. TypeOK
  BY Zenon DEF Inv
<1>3. \A k : Holding(k)' = Holding(k)
  BY Zenon, <1>1, <1>2, SameHolders
<1>4. TypeOK'
  BY Zenon, <1>1, <1>2 DEF TypeOK
<1>5. MutexHolder' /\ WaitingQueued'
  BY Zenon, <1>1, <1>2 DEF Inv, MutexHolder, WaitingQueued, TypeOK
<1> QED BY Zenon, <1>1, <1>3, <1>4, <1>5 DEF Inv, CountersExact, OneSchema, FulfillUnreserved,
                                   CountersExclude, NoStrandedRequest

\* release_write_transaction keeps the invariant.
LEMMA ReleaseWriteInv ==
  ASSUME Inv, NEW t \in Txn, ReleaseWrite(t)
  PROVE  Inv'
<1> USE DEF Goto
<1>0. TypeOK /\ pc[t] = "holding" /\ kind[t] = "Write" /\ mutex = NoTxn
      /\ running' = running - 1 /\ UNCHANGED <<hasSchema, queue, kind>>
  BY Zenon DEF Inv, ReleaseWrite
<1> PICK label \in {"fulfilling", "released"} :
        /\ Goto(t, label)
        /\ label = "fulfilling" => running' = 0 /\ mutex' = t
        /\ label = "released" => running' # 0 /\ mutex' = mutex
  BY Zenon DEF ReleaseWrite
<1>1. Holding("Write")' = Holding("Write") \ {t} /\ t \in Holding("Write")
      /\ Holding("Schema")' = Holding("Schema")
  BY Zenon, <1>0, ReleasedHolders
<1>2. Cardinality(Holding("Write")') = Cardinality(Holding("Write")) - 1
      /\ Cardinality(Holding("Write")) > 0
  BY Zenon, <1>1, HoldingFinite, HolderRemoved
<1>3. running > 0 /\ ~hasSchema
  BY <1>2 DEF Inv, CountersExact, CountersExclude
<1>4. TypeOK'
  BY <1>0, <1>3 DEF TypeOK
<1>5. MutexHolder' /\ WaitingQueued'
  BY Zenon, <1>0, TxnAssumption DEF Inv, MutexHolder, WaitingQueued, TypeOK
<1>6. FulfillUnreserved' /\ CountersExclude'
  BY Zenon, <1>0, <1>3 DEF FulfillUnreserved, CountersExclude
<1>7. CountersExact' /\ OneSchema'
  BY Zenon, <1>0, <1>1, <1>2 DEF Inv, CountersExact, OneSchema
<1>8. NoStrandedRequest'
  BY <1>0, <1>3, TxnAssumption DEF NoStrandedRequest, TypeOK
<1> QED BY Zenon, <1>4, <1>5, <1>6, <1>7, <1>8 DEF Inv

\* release_schema_transaction keeps the invariant.
LEMMA ReleaseSchemaInv ==
  ASSUME Inv, NEW t \in Txn, ReleaseSchema(t)
  PROVE  Inv'
<1> USE DEF Goto
<1>0. TypeOK /\ pc[t] = "holding" /\ kind[t] = "Schema" /\ mutex = NoTxn /\ mutex' = t
      /\ Goto(t, "fulfilling") /\ UNCHANGED <<running, queue, kind>>
  BY Zenon DEF Inv, ReleaseSchema
<1>1. ~hasSchema' /\ hasSchema' \in BOOLEAN
  BY Zenon DEF ReleaseSchema
<1>2. Holding("Schema")' = Holding("Schema") \ {t} /\ t \in Holding("Schema")
      /\ Holding("Write")' = Holding("Write")
  BY Zenon, <1>0, ReleasedHolders
<1>3. Holding("Schema")' = {}
  BY Zenon, <1>2 DEF Inv, OneSchema
<1>4. TypeOK'
  BY Zenon, <1>0, <1>1 DEF TypeOK
<1>5. MutexHolder' /\ WaitingQueued'
  BY Zenon, <1>0, TxnAssumption DEF Inv, MutexHolder, WaitingQueued, TypeOK
<1>6. FulfillUnreserved' /\ CountersExclude'
  BY Zenon, <1>1 DEF FulfillUnreserved, CountersExclude
<1>7. CountersExact' /\ OneSchema'
  BY Zenon, <1>0, <1>1, <1>2, <1>3 DEF Inv, CountersExact, OneSchema
<1>8. NoStrandedRequest'
  BY Zenon, <1>0, TxnAssumption DEF NoStrandedRequest
<1> QED BY Zenon, <1>4, <1>5, <1>6, <1>7, <1>8 DEF Inv

\* Leaving the loop of fulfill_reservation_requests keeps the invariant.
LEMMA EndFulfillInv ==
  ASSUME Inv, NEW t \in Txn, EndFulfill(t) \/ LeaveSchema(t)
  PROVE  Inv'
<1> USE DEF Goto
<1>0. TypeOK /\ pc[t] = "fulfilling" /\ mutex' = NoTxn /\ Goto(t, "released")
      /\ UNCHANGED <<hasSchema, running, queue, kind>>
      /\ (queue = <<>> \/ running > 0)
  BY Zenon DEF Inv, EndFulfill, LeaveSchema
<1>1. \A k : Holding(k)' = Holding(k)
  BY Zenon, <1>0, SameHolders
<1>2. TypeOK'
  BY Zenon, <1>0 DEF TypeOK
<1>3. MutexHolder' /\ WaitingQueued'
  BY Zenon, <1>0, TxnAssumption DEF Inv, MutexHolder, WaitingQueued, TypeOK
<1>4. NoStrandedRequest'
  BY Zenon, <1>0 DEF NoStrandedRequest
<1> QED BY Zenon, <1>0, <1>1, <1>2, <1>3, <1>4
        DEF Inv, CountersExact, OneSchema, FulfillUnreserved, CountersExclude

\* Dropping the entry of a request that timed out keeps the invariant.
LEMMA SkipTimedOutInv ==
  ASSUME Inv, NEW t \in Txn, SkipTimedOut(t)
  PROVE  Inv'
<1>0. TypeOK /\ mutex = t /\ queue # <<>> /\ pc[Head(queue)] # "waiting"
      /\ queue' = Tail(queue) /\ UNCHANGED <<hasSchema, running, mutex, kind, pc>>
  BY Zenon DEF Inv, SkipTimedOut, MutexHolder
<1>1. \A k : Holding(k)' = Holding(k)
  BY Zenon, <1>0 DEF Holding
<1>2. TypeOK'
  BY Zenon, <1>0, QueueTail DEF TypeOK
<1>3. WaitingQueued'
  BY ZenonT(40), <1>0, QueueTail DEF Inv, WaitingQueued, Queued, TypeOK
<1>4. NoStrandedRequest'
  BY Zenon, <1>0, TxnAssumption DEF NoStrandedRequest
<1> QED BY Zenon, <1>0, <1>1, <1>2, <1>3, <1>4
        DEF Inv, MutexHolder, CountersExact, OneSchema, FulfillUnreserved, CountersExclude

\* The front request, about to be granted, is not the granting thread.
LEMMA FrontRequest ==
  ASSUME Inv, NEW t \in Txn, pc[t] = "fulfilling", queue # <<>>,
         pc[Head(queue)] = "waiting"
  PROVE  /\ Head(queue) \in Txn /\ Head(queue) # t
         /\ Tail(queue) \in Seq(Txn)
         /\ mutex = t /\ ~hasSchema /\ Holding("Schema") = {}
<1>1. Head(queue) \in Txn /\ Tail(queue) \in Seq(Txn)
  BY Zenon, QueueTail DEF Inv, TypeOK
<1>2. mutex = t
  BY Zenon DEF Inv, MutexHolder
<1>3. ~hasSchema
  BY Zenon, <1>2, TxnAssumption DEF Inv, FulfillUnreserved
<1> QED BY Zenon, <1>1, <1>2, <1>3 DEF Inv, CountersExact

\* Notifying a schema request keeps the invariant.
LEMMA GrantSchemaInv ==
  ASSUME Inv, NEW t \in Txn, GrantSchema(t)
  PROVE  Inv'
<1> DEFINE h == Head(queue)
<1>0. TypeOK /\ pc[t] = "fulfilling" /\ queue # <<>> /\ kind[h] = "Schema" /\ running = 0
      /\ pc[h] = "waiting" /\ queue' = Tail(queue) /\ mutex' = NoTxn
      /\ UNCHANGED <<running, kind>>
  BY Zenon DEF Inv, GrantSchema
<1>1. hasSchema' /\ hasSchema' \in BOOLEAN
  BY Zenon DEF GrantSchema
<1>2. h \in Txn /\ h # t /\ Tail(queue) \in Seq(Txn) /\ mutex = t /\ Holding("Schema") = {}
  BY Zenon, <1>0, FrontRequest
<1>3. pc' = [pc EXCEPT ![h] = "holding", ![t] = "released"]
  BY Zenon DEF GrantSchema
<1>4. Holding("Schema")' = {h} /\ Holding("Write")' = Holding("Write")
  BY Zenon, <1>0, <1>2, <1>3 DEF Holding, TypeOK
<1>5. TypeOK'
  <2>1. pc' \in [Txn -> {"idle", "waiting", "holding", "fulfilling", "released",
                         "timedOut", "refused"}]
    BY Zenon, <1>0, <1>3 DEF TypeOK
  <2> QED BY Zenon, <1>0, <1>1, <1>2, <2>1 DEF TypeOK
<1>6. MutexHolder'
  BY Zenon, <1>0, <1>2, <1>3, TxnAssumption DEF Inv, MutexHolder, TypeOK
<1>7. WaitingQueued'
  <2>1. ASSUME NEW u \in Txn, pc'[u] = "waiting"
        PROVE  Queued(u, Tail(queue))
    <3>1. u # h /\ pc[u] = "waiting"
      BY Zenon, <1>0, <1>2, <1>3, <2>1 DEF TypeOK
    <3> QED BY Zenon, <1>0, <3>1, QueueTail DEF Inv, WaitingQueued, Queued, TypeOK
  <2> QED BY Zenon, <1>0, <2>1 DEF WaitingQueued, Queued
<1>8. CountersExact' /\ OneSchema'
  BY Zenon, <1>0, <1>1, <1>4 DEF Inv, CountersExact, OneSchema
<1>9. FulfillUnreserved' /\ CountersExclude' /\ NoStrandedRequest'
  BY Zenon, <1>0, <1>1 DEF FulfillUnreserved, CountersExclude, NoStrandedRequest
<1> QED BY Zenon, <1>5, <1>6, <1>7, <1>8, <1>9 DEF Inv

\* Notifying a write request keeps the invariant.
LEMMA GrantWriteInv ==
  ASSUME Inv, NEW t \in Txn, GrantWrite(t)
  PROVE  Inv'
<1> USE DEF Goto
<1> DEFINE h == Head(queue)
<1>0. TypeOK /\ pc[t] = "fulfilling" /\ queue # <<>> /\ kind[h] = "Write"
      /\ pc[h] = "waiting" /\ queue' = Tail(queue) /\ running' = running + 1
      /\ Goto(h, "holding") /\ UNCHANGED <<hasSchema, mutex, kind>>
  BY Zenon DEF Inv, GrantWrite
<1>1. h \in Txn /\ h # t /\ Tail(queue) \in Seq(Txn) /\ mutex = t
  BY Zenon, <1>0, FrontRequest
<1>2. ~hasSchema
  BY Zenon, <1>0, FrontRequest
<1>3. Holding("Write")' = Holding("Write") \cup {h} /\ h \notin Holding("Write")
      /\ Holding("Schema")' = Holding("Schema")
  BY Zenon, <1>0, <1>1, GrantedHolders
<1>4. Cardinality(Holding("Write")') = Cardinality(Holding("Write")) + 1
  BY Zenon, <1>1, <1>3, HoldingFinite, HolderAdded
<1>5. TypeOK'
  BY <1>0, <1>1 DEF TypeOK
<1>6. MutexHolder'
  BY Zenon, <1>0, <1>1 DEF Inv, MutexHolder, TypeOK
<1>7. WaitingQueued'
  <2>1. ASSUME NEW u \in Txn, pc'[u] = "waiting"
        PROVE  Queued(u, Tail(queue))
    <3>1. u # h /\ pc[u] = "waiting"
      BY Zenon, <1>0, <1>1, <2>1 DEF TypeOK
    <3> QED BY ZenonT(40), <1>0, <3>1, QueueTail DEF Inv, WaitingQueued, Queued, TypeOK
  <2> QED BY Zenon, <1>0, <2>1 DEF WaitingQueued, Queued
<1>8. CountersExact' /\ OneSchema'
  BY Zenon, <1>0, <1>3, <1>4 DEF Inv, CountersExact, OneSchema
<1>9. FulfillUnreserved' /\ CountersExclude' /\ NoStrandedRequest'
  BY Zenon, <1>0, <1>1, <1>2, TxnAssumption DEF FulfillUnreserved, CountersExclude, NoStrandedRequest
<1> QED BY Zenon, <1>5, <1>6, <1>7, <1>8, <1>9 DEF Inv

\* Every step preserves the invariant.
LEMMA NextInv == Inv /\ [Next]_vars => Inv'
<1> SUFFICES ASSUME Inv, [Next]_vars PROVE Inv'
    BY Zenon
<1>1. ASSUME NEW t \in Txn, Fulfill(t) PROVE Inv'
  BY Zenon, <1>1, EndFulfillInv, SkipTimedOutInv, GrantSchemaInv, GrantWriteInv DEF Fulfill
<1>2. ASSUME NEW t \in Txn, Release(t) PROVE Inv'
  BY Zenon, <1>2, ReleaseWriteInv, ReleaseSchemaInv DEF Release
<1>3. ASSUME UNCHANGED vars PROVE Inv'
  BY <1>3 DEF vars, Inv, TypeOK, MutexHolder, FulfillUnreserved, CountersExact, Holding,
              CountersExclude, OneSchema, NoStrandedRequest, WaitingQueued
<1> QED BY Zenon, <1>1, <1>2, <1>3, ReserveInv, TimeoutInv DEF Next, Finished

\* The invariant implies that a schema transaction is alone: a write transaction
\* beside it would be counted in running, which is zero.
LEMMA InvExcludes == Inv => SchemaExcludesOthers
<1> SUFFICES ASSUME Inv, NEW t \in Holding("Schema"), NEW u \in Txn, pc[u] = "holding"
             PROVE  u = t
    BY Zenon DEF SchemaExcludesOthers, Holding
<1>1. hasSchema /\ running = 0
  BY Zenon DEF Inv, CountersExact, CountersExclude
<1>2. Holding("Write") = {}
  BY Zenon, <1>1, HoldingFinite, FS_EmptySet DEF Inv, CountersExact
<1>3. u \in Holding("Schema")
  BY Zenon, <1>2 DEF Holding, Inv, TypeOK, Kind
<1> QED BY Zenon, <1>3 DEF Inv, OneSchema

\* Granted requests have no live request before them.
LEMMA GrantInOrder ==
  ASSUME Inv, [Next]_vars,
         NEW t \in Txn, pc[t] # "holding", pc'[t] = "holding",
         NEW u \in Txn \ {t}, pc[u] = "waiting"
  PROVE  \E i, j \in 1..Len(queue) : i < j /\ queue[i] = t /\ queue[j] = u
<1> USE DEF Goto
<1>0. TypeOK
  BY Zenon DEF Inv
<1>1. PICK j \in 1..Len(queue) : queue[j] = u
  BY Zenon DEF Inv, WaitingQueued
<1>2. queue # <<>> /\ Len(queue) \in Nat
  BY <1>0, <1>1 DEF TypeOK
<1>3. t = Head(queue)
  <2>1. ASSUME NEW r \in Txn, Reserve(r) PROVE FALSE
    <3>1. Blocked(kind[r])
      BY Zenon, <1>2 DEF Blocked
    <3> QED BY Zenon, <1>0, <2>1, <3>1 DEF Reserve, TypeOK
  <2>2. ASSUME NEW r \in Txn, LockTimeout(r) \/ WaitTimeout(r) \/ Release(r)
        PROVE  FALSE
    BY Zenon, <1>0, <2>2 DEF LockTimeout, WaitTimeout, Release, ReleaseWrite, ReleaseSchema, TypeOK
  <2>3. ASSUME NEW r \in Txn, Fulfill(r) PROVE t = Head(queue)
    <3>1. CASE GrantSchema(r) \/ GrantWrite(r)
      BY Zenon, <1>0, <3>1 DEF GrantSchema, GrantWrite, TypeOK
    <3>2. CASE EndFulfill(r) \/ LeaveSchema(r) \/ SkipTimedOut(r)
      BY Zenon, <1>0, <3>2 DEF EndFulfill, LeaveSchema, SkipTimedOut, TypeOK
    <3> QED BY Zenon, <2>3, <3>1, <3>2 DEF Fulfill
  <2>4. ASSUME UNCHANGED vars PROVE FALSE
    BY Zenon, <2>4 DEF vars
  <2> QED BY Zenon, <2>1, <2>2, <2>3, <2>4 DEF Next, Finished
<1>4. t = queue[1] /\ 1 \in 1..Len(queue)
  BY <1>0, <1>2, <1>3 DEF TypeOK
<1>5. 1 < j
  BY <1>1, <1>2, <1>4
<1> QED BY Zenon, <1>1, <1>4, <1>5

-----------------------------------------------------------------------------
\* The reservation state of a Database stays within its types, for any finite
\* set of requests.
THEOREM TypeCorrect == Spec => []TypeOK
<1>1. Inv => TypeOK
  BY Zenon DEF Inv
<1> QED BY <1>1, InitInv, NextInv, PTL DEF Spec

\* reserve_schema_transaction and fulfill_reservation_requests let a schema
\* transaction in only when it is alone, and nobody in beside it.
THEOREM Exclusion == Spec => []SchemaExcludesOthers
  BY InitInv, NextInv, InvExcludes, PTL DEF Spec

\* has_schema_transaction and running_write_transactions are exact.
THEOREM Counters == Spec => []CountersExact
<1>1. Inv => CountersExact
  BY Zenon DEF Inv
<1> QED BY <1>1, InitInv, NextInv, PTL DEF Spec

\* A queued request never waits for a release that will not come.
THEOREM NoneStranded == Spec => [](NoStrandedRequest /\ WaitingQueued)
<1>1. Inv => NoStrandedRequest /\ WaitingQueued
  BY Zenon DEF Inv
<1> QED BY <1>1, InitInv, NextInv, PTL DEF Spec

\* Reservations are granted in the order of notify_queue.
THEOREM InOrder == Spec => NoOvertaking
<1>1. Inv /\ [Next]_vars =>
        [\A t \in Txn : pc[t] # "holding" /\ pc'[t] = "holding" =>
           \A u \in Txn \ {t} : pc[u] = "waiting" =>
              \E i, j \in 1..Len(queue) : i < j /\ queue[i] = t /\ queue[j] = u]_vars
  BY Zenon, GrantInOrder
<1> QED BY <1>1, InitInv, NextInv, PTL DEF Spec, NoOvertaking
=============================================================================
