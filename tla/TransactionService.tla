--------------------------- MODULE TransactionService ---------------------------
(***************************************************************************)
(* One client transaction as the server runs it, behind the gRPC endpoint  *)
(* (grpc/transaction_service.rs) or the HTTP endpoint                      *)
(* (http/transaction_service.rs).  The service task owns the transaction   *)
(* and takes requests one at a time.  A write query moves the transaction  *)
(* to a blocking worker and back; meanwhile the other queries queue up.  A *)
(* gRPC read query gets a worker of its own, which shares the snapshot and *)
(* streams its answers through a bounded channel to a transmitter.  Before *)
(* the snapshot is used exclusively (write or schema query, commit,        *)
(* rollback, close) the service interrupts the workers and waits for them. *)
(*                                                                         *)
(* A handler is the sequence of steps in "todo", one step between awaits;  *)
(* the service is in its select loop when todo is empty.  Requests carry   *)
(* their number as identity, answers carry nothing.                        *)
(***************************************************************************)
EXTENDS Integers, Sequences, FiniteSets, TLC, SequencesExt

CONSTANTS
    Endpoints,      \* the endpoints the run starts, a subset of {"grpc", "http"}
    Prefetch,       \* QueryOptions::prefetch_size, the capacity of an answer channel
    MaxRequests,    \* bound: requests of the client
    Messages        \* messages of the answer to each, with its header and its end

ASSUME ServiceAssumption ==
    /\ Endpoints \subseteq {"grpc", "http"}
    /\ Prefetch \in Nat \ {0}
    /\ MaxRequests \in Nat
    /\ Messages \in [1..MaxRequests -> Nat \ {0, 1}]

VARIABLES
    endpoint,   \* which of the two services this is
    kind,       \* the transaction's type
    client,     \* "there", or "gone": nobody receives the responses any more
    state,      \* "new", "listening", "returned" or "panicked": the service task
    txn,        \* where the Transaction is: "none", "held", "taken" by a write
                \* worker, or ended as "committed", "refused" or "closed"
    load,       \* this transaction's share of the diagnostics load count
    queue,      \* query_queue
    running,    \* running_write_query, NoWrite for None
    readers,    \* the workers, each with its channel and its transmitter; "mine"
                \* while it is in query_responders
    todo,       \* the rest of the handler, empty in select!
    asked,      \* number of requests so far
    committing, \* the latest request is a commit
    writes,     \* write and schema queries asked for since the last rollback
    done,       \* the ones executed in the transaction's snapshot
    discarded,  \* a dry run threw executed queries away
    excused     \* something justifies that the transaction ends without a commit

handler == <<queue, running, readers, todo>>
past == <<asked, committing, writes, done, discarded>>
vars == <<endpoint, kind, client, state, txn, load, handler, past, excused>>

NoWrite == [id |-> 0, state |-> "none", unseen |-> 0]
Ids == 1..MaxRequests
IsWrite(q) == q.what = "write"
IsRead(q) == ~IsWrite(q)
Reply == client = "there"

-----------------------------------------------------------------------------
(* The handlers as sequences of steps.                                      *)

Step(op) == <<op, 0>>

\* interrupt_and_close_responders
CloseResponders == <<Step("interrupt"), Step("drain")>>

DoClose == CloseResponders
           \o <<Step("try_cancel_reads"), Step("try_finish"),
                Step("try_cancel_writes"), Step("close")>>

\* Break or Err, back in listen: close and return
Stop == DoClose \o <<Step("return")>>

RunWrite(id) == CloseResponders \o << <<"execute", id>> >>

FinishQueued == <<Step("finish"), Step("run_queued")>>

\* a handler that forgets the queued writes
CommitStepsOfRunning ==
    <<Step("finish")>> \o CloseResponders
    \o <<Step("cancel_reads"), Step("finish"), Step("commit")>>

CommitSteps ==
    <<Step("finish")>> \o CloseResponders
    \o <<Step("cancel_reads")>> \o FinishQueued \o <<Step("commit")>>

RollbackSteps ==
    CloseResponders
    \o <<Step("cancel_reads"), Step("finish"), Step("cancel_writes"), Step("rollback")>>

SchemaSteps(id) ==
    CloseResponders
    \o <<Step(IF endpoint = "grpc" THEN "try_cancel_reads" ELSE "cancel_reads")>>
    \o FinishQueued \o << <<"schema", id>> >>

-----------------------------------------------------------------------------
(* Answers: a worker that has "left" messages to send, the channel with     *)
(* "chan" messages, and the transmitter, which passes on Prefetch messages, *)
(* then those that come within the network latency, then waits for the     *)
(* client to ask for more.  "more" counts the rounds already asked for.     *)

NewReader(id) ==
    [mine |-> TRUE, left |-> Messages[id], blocked |-> FALSE, unseen |-> 0, chan |-> 0,
     tx |-> "count", n |-> 0, more |-> 0, saw |-> done]

Working(r) == r.left > 0
Responders == {id \in DOMAIN readers : readers[id].mine}

\* no further round: the worker may wait on a full channel
QueueNothing(r) == r

\* check_finished_else_queue_continue
QueueContinue(r) ==
    CASE r.tx = "ended" -> r
      [] r.tx = "idle" -> [r EXCEPT !.tx = "count", !.n = 0]
      [] OTHER -> [r EXCEPT !.more = @ + 1]

\* the transmitter task ends and drops the receiver
Ended(r) == [r EXCEPT !.tx = "ended", !.chan = 0, !.n = 0, !.more = 0]

CanSend(r) == r.chan < Prefetch \/ r.tx = "ended"

Sent(r) == [r EXCEPT !.left = @ - 1, !.blocked = FALSE, !.unseen = IF r.left > 2 THEN @ ELSE 0,
                     !.chan = IF r.tx = "ended" THEN 0 ELSE @ + 1]


\* neither the header nor the closing message
AtRow(id) == readers[id].left \in 2..(Messages[id] - 1)

frame == <<endpoint, kind, client, state, txn, load, queue, running, todo, past, excused>>

\* submit_response: the next message, a row only when no interrupt was seen before it
WorkerSend(id) ==
    LET r == readers[id] IN
    /\ Working(r) /\ CanSend(r)
    /\ AtRow(id) => r.blocked \/ r.unseen = 0
    /\ readers' = [readers EXCEPT ![id] = Sent(r)]
    /\ UNCHANGED frame

\* the row is ready, the channel is full
WorkerBlocks(id) ==
    LET r == readers[id] IN
    /\ AtRow(id) /\ ~CanSend(r) /\ ~r.blocked /\ r.unseen = 0
    /\ readers' = [readers EXCEPT ![id].blocked = TRUE]
    /\ UNCHANGED frame

\* an interrupt, a timeout or an error: only the closing message is left to send
WorkerStops(id) ==
    LET r == readers[id] IN
    /\ r.left > 1 /\ ~r.blocked
    /\ readers' = [readers EXCEPT ![id].left = 1, ![id].unseen = 0]
    /\ UNCHANGED frame

\* respond_stream_while_or_finish: one message; the stream ends with the closing
\* one, or when the client is gone
Receive(id) ==
    LET r == readers[id]
        final == r.left = 0 /\ r.chan = 1
        taken == [r EXCEPT !.chan = @ - 1, !.n = IF r.tx = "count" THEN @ + 1 ELSE 0]
    IN
    /\ r.tx = "latency" \/ (r.tx = "count" /\ r.n < Prefetch)
    /\ r.chan > 0
    /\ \/ final /\ readers' = [readers EXCEPT ![id] = Ended(r)]
       \/ ~final /\ readers' = [readers EXCEPT ![id] = taken]
       \/ ~Reply /\ readers' = [readers EXCEPT ![id] = Ended(r)]
    /\ UNCHANGED frame

\* Prefetch messages are passed on: signal the client, go on for the latency
Counted(id) ==
    LET r == readers[id] IN
    /\ r.tx = "count" /\ r.n = Prefetch
    /\ readers' = [readers EXCEPT ![id] = IF Reply THEN [r EXCEPT !.tx = "latency", !.n = 0]
                                                   ELSE Ended(r)]
    /\ UNCHANGED frame

\* the latency is over: the next round, if one is asked for
RoundOver(id) ==
    LET r == readers[id] IN
    /\ r.tx = "latency"
    /\ \/ readers' = [readers EXCEPT ![id] = IF r.more > 0 THEN [r EXCEPT !.tx = "count", !.more = @ - 1]
                                                           ELSE [r EXCEPT !.tx = "idle"]]
       \/ ~Reply /\ readers' = [readers EXCEPT ![id] = Ended(r)]
    /\ UNCHANGED frame

-----------------------------------------------------------------------------
(* The write worker: executes, fails, or stops at an interrupt.  The        *)
(* interrupt channel keeps one signal: two unseen ones make the check panic.*)

WriteEnds(outcome) ==
    /\ running.state = "running"
    /\ running' = [running EXCEPT !.state = outcome]
    /\ UNCHANGED <<endpoint, kind, client, state, txn, load, queue, readers, todo,
                   asked, committing, writes, discarded>>

WriteSucceeds == WriteEnds("ok") /\ done' = Append(done, running.id) /\ UNCHANGED excused
WriteFails == WriteEnds("err") /\ excused' = TRUE /\ UNCHANGED done
WriteInterrupted == running.unseen = 1 /\ WriteEnds("err") /\ UNCHANGED <<excused, done>>
WriteLags == running.unseen > 1 /\ WriteEnds("panic") /\ UNCHANGED <<excused, done>>

-----------------------------------------------------------------------------
(* The steps of the handlers.                                               *)

At(op) == state = "listening" /\ todo # <<>> /\ Head(todo)[1] = op
Arg == Head(todo)[2]
Continue(ok) == todo' = IF ok THEN Tail(todo) ELSE Stop

Interrupt ==
    /\ At("interrupt")
    /\ running' = IF running.state = "running" THEN [running EXCEPT !.unseen = @ + 1] ELSE running
    /\ readers' = [id \in DOMAIN readers |->
                     IF readers[id].left > 1 THEN [readers[id] EXCEPT !.unseen = @ + 1] ELSE readers[id]]
    /\ Continue(TRUE)
    /\ UNCHANGED <<endpoint, kind, client, state, txn, load, queue, past, excused>>

\* one responder after the other: let it pass on some answers, then wait for it
Drain ==
    /\ At("drain")
    /\ \/ Responders = {} /\ Continue(TRUE) /\ UNCHANGED readers
       \/ \E id \in Responders :
             /\ readers' = [readers EXCEPT ![id] = QueueContinue(@)]
             /\ todo' = << <<"join", id>> >> \o todo
    /\ UNCHANGED <<endpoint, kind, client, state, txn, load, queue, running, past, excused>>

\* a wait for the transmitter that does not wait for the worker
JoinedTransmitter(r) == r.tx \in {"idle", "ended"}

\* the worker has finished, then the transmitter
Joined(r) == ~Working(r) /\ r.tx \in {"idle", "ended"}

Join ==
    /\ At("join") /\ Joined(readers[Arg])
    /\ readers' = [id \in {x \in DOMAIN readers : x # Arg \/ Working(readers[x])} |->
                     [readers[id] EXCEPT !.mine = @ /\ id # Arg]]
    /\ Continue(TRUE)
    /\ UNCHANGED <<endpoint, kind, client, state, txn, load, queue, running, past, excused>>

\* the queued queries that satisfy Cancel get an error response, if that fails
\* the rest of the queue is dropped
CancelQueued(op, tryOp, Keep(_)) ==
    LET lost == ~Reply /\ SelectSeq(queue, Keep) # queue IN
    /\ At(op) \/ At(tryOp)
    /\ queue' = IF lost THEN <<>> ELSE SelectSeq(queue, Keep)
    /\ Continue(lost => At(tryOp))
    /\ UNCHANGED <<endpoint, kind, client, state, txn, load, running, readers, past, excused>>

CancelReads == CancelQueued("cancel_reads", "try_cancel_reads", IsWrite)
CancelWrites == CancelQueued("cancel_writes", "try_cancel_writes", IsRead)

\* finish_running_write_query_no_transmit: over HTTP it breaks even on success
FinishRunning ==
    /\ At("finish") \/ At("try_finish")
    /\ running.state # "running"
    /\ running' = NoWrite
    /\ txn' = IF running.state \in {"ok", "err"} THEN "held" ELSE txn
    /\ IF running.state = "panic"
         THEN state' = "panicked" /\ UNCHANGED todo
         ELSE /\ Continue(\/ running = NoWrite
                          \/ At("try_finish")
                          \/ running.state = "ok" /\ endpoint = "grpc" /\ Reply)
              /\ UNCHANGED state
    /\ UNCHANGED <<endpoint, kind, client, load, queue, readers, past, excused>>

\* finish_queued_write_queries, once no write runs
RunQueued ==
    /\ At("run_queued")
    /\ LET ids == [i \in DOMAIN SelectSeq(queue, IsWrite) |-> SelectSeq(queue, IsWrite)[i].id]
       IN todo' = FlattenSeq([i \in DOMAIN ids |-> RunWrite(ids[i]) \o <<Step("finish")>>]) \o Tail(todo)
    /\ queue' = SelectSeq(queue, IsRead)
    /\ UNCHANGED <<endpoint, kind, client, state, txn, load, running, readers, past, excused>>

\* spawn_blocking_execute_write_query moves the transaction to the worker
Execute ==
    /\ At("execute")
    /\ IF kind = "read"
         THEN Continue(endpoint = "grpc" \/ Reply) /\ UNCHANGED <<txn, running>>
         ELSE /\ running' = [id |-> Arg, state |-> "running", unseen |-> 0]
              /\ txn' = "taken"
              /\ Continue(TRUE)
    /\ UNCHANGED <<endpoint, kind, client, state, load, queue, readers, past, excused>>

\* handle_query_schema after the clean-up: a schema query that fails aborts
SchemaQuery ==
    /\ At("schema")
    /\ \/ /\ kind # "schema" /\ Continue(Reply) /\ UNCHANGED <<done, excused>>
       \/ /\ kind = "schema" /\ Continue(Reply)
          /\ done' = Append(done, Arg) /\ UNCHANGED excused
       \/ /\ kind = "schema" /\ Continue(FALSE)
          /\ excused' = TRUE /\ UNCHANGED done
    /\ UNCHANGED <<endpoint, kind, client, state, txn, load, queue, running, readers,
                   asked, committing, writes, discarded>>

\* a commit that leaves the transaction in the load count
CommitCounted ==
    /\ At("commit") /\ kind # "read"
    /\ todo' = Stop /\ txn' \in {"committed", "refused"}
    /\ UNCHANGED <<endpoint, kind, client, state, load, queue, running, readers, past, excused>>

\* handle_commit after the clean-up; the service closes in any case
Commit ==
    /\ At("commit")
    /\ todo' = Stop
    /\ \/ /\ kind = "read" /\ excused' = TRUE
          /\ UNCHANGED <<txn, load>>
       \/ /\ kind # "read" /\ txn' \in {"committed", "refused"}
          /\ load' = load - 1 /\ UNCHANGED excused
    /\ UNCHANGED <<endpoint, kind, client, state, queue, running, readers, past>>

Rollback ==
    /\ At("rollback")
    /\ IF kind = "read"
         THEN /\ Continue(FALSE) /\ excused' = TRUE
              /\ UNCHANGED <<writes, done, discarded>>
         ELSE /\ Continue(Reply) /\ writes' = <<>> /\ done' = <<>> /\ discarded' = FALSE
              /\ UNCHANGED excused
    /\ UNCHANGED <<endpoint, kind, client, state, txn, load, queue, running, readers, asked, committing>>

Close ==
    /\ At("close")
    /\ IF txn = "held" THEN txn' = "closed" /\ load' = load - 1
                       ELSE UNCHANGED <<txn, load>>
    /\ Continue(TRUE)
    /\ UNCHANGED <<endpoint, kind, client, state, queue, running, readers, past, excused>>

Return ==
    /\ At("return")
    /\ state' = "returned" /\ todo' = <<>>
    /\ UNCHANGED <<endpoint, kind, client, txn, load, queue, running, readers, past, excused>>

-----------------------------------------------------------------------------
(* Queries that need no exclusive snapshot.  gRPC answers a read query from *)
(* its own worker; HTTP waits for the whole answer, and stops when it fails.*)

Answer(id, rest) ==
    \/ /\ endpoint = "grpc"
       /\ readers' = readers @@ (id :> NewReader(id))
       /\ todo' = rest /\ UNCHANGED excused
    \/ /\ endpoint = "http"
       /\ todo' = (IF Reply THEN rest ELSE Stop) /\ UNCHANGED <<readers, excused>>
    \/ /\ endpoint = "http"
       /\ todo' = Stop /\ excused' = TRUE /\ UNCHANGED readers

\* query_manager.analyse: no trace in the transaction
Analysed(rest) ==
    /\ UNCHANGED readers
    /\ \/ todo' = (IF endpoint = "grpc" \/ Reply THEN rest ELSE Stop) /\ UNCHANGED excused
       \/ endpoint = "http" /\ todo' = Stop /\ excused' = TRUE

\* reads first, whatever is queued before them
AcceptReadsFirst ==
    /\ At("accept")
    /\ LET reads == {i \in DOMAIN queue : queue[i].what = "read"} IN
       IF reads # {}
         THEN LET i == CHOOSE i \in reads : \A j \in reads : i <= j IN
              queue' = RemoveAt(queue, i) /\ Answer(queue[i].id, todo)
         ELSE /\ queue = <<>> /\ Continue(TRUE) /\ UNCHANGED <<queue, readers, excused>>
    /\ UNCHANGED <<endpoint, kind, client, state, txn, load, running, past>>

\* may_accept_from_queue: up to and including the first write
Accept ==
    /\ At("accept")
    /\ \/ /\ queue = <<>> /\ Continue(TRUE) /\ UNCHANGED <<queue, readers, excused>>
       \/ /\ queue # <<>> /\ queue' = Tail(queue)
          /\ LET q == Head(queue) IN
             CASE q.what = "analyse" -> Analysed(todo)
               [] q.what = "read" -> Answer(q.id, todo)
               [] q.what = "write" -> /\ todo' = RunWrite(q.id) \o Tail(todo)
                                      /\ UNCHANGED <<readers, excused>>
    /\ UNCHANGED <<endpoint, kind, client, state, txn, load, running, past>>

HandlerStep ==
    \/ Interrupt \/ Drain \/ Join \/ CancelReads \/ CancelWrites
    \/ FinishRunning \/ RunQueued \/ Execute \/ SchemaQuery
    \/ Commit \/ Rollback \/ Close \/ Return \/ Accept

-----------------------------------------------------------------------------
(* listen: what wakes the service up in its select loop.                    *)

Listening == state = "listening" /\ todo = <<>>

\* the write worker returns the transaction; its answer is transmitted
WriteResult ==
    /\ Listening
    /\ running' = NoWrite /\ txn' = "held"
    /\ \/ running.state = "ok" /\ Answer(running.id, <<Step("accept")>>)
       \/ running.state = "err" /\ todo' = Stop /\ UNCHANGED <<readers, excused>>
    /\ UNCHANGED <<endpoint, kind, client, state, load, queue, past>>

\* the timeout of the transaction, or the shutdown of the server
Timeout ==
    /\ Listening \/ state = "new"
    /\ state' = "listening"
    /\ todo' = Stop /\ excused' = TRUE
    /\ UNCHANGED <<endpoint, kind, client, txn, load, queue, running, readers, past>>

\* the request stream ends
StreamEnds ==
    /\ Listening /\ ~Reply
    /\ todo' = Stop
    /\ UNCHANGED <<endpoint, kind, client, state, txn, load, queue, running, readers, past, excused>>

ClientLeaves ==
    /\ Reply /\ state \in {"new", "listening"}
    /\ client' = "gone" /\ excused' = TRUE
    /\ UNCHANGED <<endpoint, kind, state, txn, load, handler, past>>

Open ==
    /\ state = "new"
    /\ \/ /\ state' = "listening" /\ txn' = "held" /\ load' = load + 1
          /\ kind' \in {"read", "write", "schema"}
          /\ todo' = (IF Reply THEN <<>> ELSE Stop)
       \/ /\ state' = "listening" /\ todo' = Stop /\ UNCHANGED <<kind, txn, load>>
    /\ UNCHANGED <<endpoint, client, queue, running, readers, past, excused>>

Ask(what) ==
    /\ Listening /\ Reply /\ asked < MaxRequests
    /\ asked' = asked + 1 /\ committing' = (what = "commit")
    /\ UNCHANGED <<endpoint, kind, client, state, running>>

Busy == queue # <<>> \/ running # NoWrite
Enqueue(what) ==
    /\ queue' = Append(queue, [id |-> asked + 1, what |-> what])
    /\ UNCHANGED <<readers, todo, excused>>

HandleRead ==
    /\ Ask("read")
    /\ \/ Busy /\ Enqueue("read")
       \/ ~Busy /\ Answer(asked + 1, <<>>) /\ UNCHANGED queue
    /\ UNCHANGED <<txn, load, writes, done, discarded>>

HandleWrite ==
    /\ Ask("write")
    /\ \/ Busy /\ Enqueue("write")
       \/ ~Busy /\ todo' = RunWrite(asked + 1) /\ UNCHANGED <<queue, readers, excused>>
    /\ writes' = IF kind = "read" THEN writes ELSE Append(writes, asked + 1)
    /\ UNCHANGED <<txn, load, done, discarded>>

HandleSchema ==
    /\ Ask("schema")
    /\ todo' = SchemaSteps(asked + 1)
    /\ writes' = IF kind = "schema" THEN Append(writes, asked + 1) ELSE writes
    /\ UNCHANGED <<queue, readers, txn, load, done, discarded, excused>>

HandleAnalyse ==
    /\ Ask("analyse")
    /\ \/ Busy /\ Enqueue("analyse")
       \/ ~Busy /\ Analysed(<<>>) /\ UNCHANGED queue
    /\ UNCHANGED <<txn, load, writes, done, discarded>>

\* run_analyse_schema_query: the query is executed, then the transaction rolled back
HandleAnalyseSchema ==
    /\ endpoint = "http"
    /\ Ask("analyse")
    /\ IF kind = "schema" /\ txn = "held"
         THEN done' = <<>> /\ discarded' = (discarded \/ done # <<>>)
         ELSE UNCHANGED <<done, discarded>>
    /\ UNCHANGED <<queue, readers, todo, txn, load, writes, excused>>

\* the panic if the join takes more than a minute is left out: a stream has ended because
\* its worker has sent the closing message, and has only to return
HandleStreamContinue ==
    /\ endpoint = "grpc"
    /\ Ask("continue")
    /\ \E id \in Responders :
          /\ readers' = [readers EXCEPT ![id] = QueueContinue(@)]
          /\ todo' = IF readers[id].tx = "ended" THEN << <<"join", id>> >> ELSE <<>>
    /\ UNCHANGED <<queue, txn, load, writes, done, discarded, excused>>

HandleCommit ==
    /\ Ask("commit")
    /\ todo' = CommitSteps
    /\ UNCHANGED <<queue, readers, txn, load, writes, done, discarded, excused>>

HandleRollback ==
    /\ Ask("rollback")
    /\ todo' = RollbackSteps
    /\ UNCHANGED <<queue, readers, txn, load, writes, done, discarded, excused>>

\* handle_close closes, and listen closes once more
HandleClose ==
    /\ Ask("close")
    /\ todo' = DoClose \o Stop
    /\ excused' = TRUE
    /\ UNCHANGED <<queue, readers, txn, load, writes, done, discarded>>

Request ==
    \/ HandleRead \/ HandleWrite \/ HandleSchema \/ HandleAnalyse \/ HandleAnalyseSchema
    \/ HandleStreamContinue \/ HandleCommit \/ HandleRollback \/ HandleClose

WriteWorker == WriteSucceeds \/ WriteFails \/ WriteInterrupted \/ WriteLags
ReadWorker(id) == id \in DOMAIN readers /\ (WorkerSend(id) \/ WorkerBlocks(id) \/ WorkerStops(id))
Transmitter(id) == id \in DOMAIN readers /\ (Receive(id) \/ Counted(id) \/ RoundOver(id))

Init ==
    /\ endpoint \in Endpoints
    /\ kind = "read" /\ client = "there" /\ state = "new" /\ txn = "none" /\ load = 0
    /\ queue = <<>> /\ running = NoWrite /\ readers = <<>> /\ todo = <<>>
    /\ asked = 0 /\ committing = FALSE /\ writes = <<>> /\ done = <<>>
    /\ discarded = FALSE /\ excused = FALSE

Next ==
    \/ Open \/ Request \/ HandlerStep
    \/ WriteResult \/ Timeout \/ StreamEnds \/ ClientLeaves
    \/ WriteWorker
    \/ \E id \in Ids : ReadWorker(id) \/ Transmitter(id)

Spec == Init /\ [][Next]_vars

(* Every task is scheduled, a query comes to an end or sees an interrupt,   *)
(* and the timeout of an idle transaction is met.                           *)
Fairness ==
    /\ WF_vars(HandlerStep)
    /\ WF_vars(WriteResult)
    /\ WF_vars(WriteWorker)
    /\ WF_vars(Timeout)
    /\ \A id \in Ids : WF_vars(ReadWorker(id)) /\ WF_vars(Transmitter(id))

LiveSpec == Spec /\ Fairness

-----------------------------------------------------------------------------
(* Properties.                                                              *)

\* Nothing makes the workers and handlers panic while the client is there.
\* SnapshotDropGuard: a write worker, a schema query, a commit, a rollback and a close
\* find that no read worker shares the snapshot any more (into_inner and drop panic
\* otherwise), and the last four that no write worker has it.  ExecutionInterrupt::check:
\* the write worker has at most one interrupt to read.
WorkersExpected ==
    /\ running # NoWrite \/ At("execute") \/ At("schema") \/ At("commit") \/ At("rollback") \/ At("close")
          => \A id \in DOMAIN readers : ~Working(readers[id])
    /\ At("schema") \/ At("commit") \/ At("rollback") \/ At("close") => txn # "taken"
    /\ running.unseen > 1 => ~Reply

\* What is committed is every write and schema query asked for since the last rollback, in
\* the order asked, unless a dry run discarded some; and over gRPC a commit request is only
\* given up for a reason: a query failed, the client left, it is a read transaction.
CommitHonoured ==
    /\ txn = "committed" /\ ~discarded => done = writes
    /\ endpoint = "grpc" /\ committing /\ txn = "closed" => excused

\* What an analysis of a schema query leaves of the transaction: what is
\* committed is every write and schema query, also after a dry run.
CommitKeepsWrites == txn = "committed" => done = writes

\* A query reads from the snapshot in which exactly the writes asked for before it are
\* executed: it overtakes no queued write and is overtaken by none.  And it does not wait
\* for nothing: in its select loop the service has queued queries only while a write
\* runs, whose result lets them in.
QueueServed ==
    /\ \A id \in DOMAIN readers :
          ~discarded => readers[id].saw = SelectSeq(writes, LAMBDA w : w <= id)
    /\ Listening /\ running = NoWrite => queue = <<>>

\* The load count holds the transaction exactly while it is open, though a close request
\* closes it twice, and nothing is left of it when the service task returns.
ReleasedOnce ==
    /\ load = IF txn \in {"held", "taken"} THEN 1 ELSE 0
    /\ state = "returned" => txn \notin {"held", "taken"} /\ DOMAIN readers = {} /\ running = NoWrite

\* The service task ends, whatever the workers, channels and transmitters were
\* doing when it came to wait for them, if the client's prefetch size is two or more: with
\* a size of one, which handle_query accepts, worker, transmitter and handler can wait for
\* each other (Prefetch = 1).
Ends == <>(state \in {"returned", "panicked"})
=============================================================================
