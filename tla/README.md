# A TLA+ verification of TypeDB's storage and transaction core

TypeDB keeps its data in an MVCC storage over ordered keyspaces (RocksDB, or memory in the
wasm build), made durable by a write-ahead log. Transactions read from snapshots, buffer
their writes, and commit through an isolation manager that validates them against concurrent
commits. This project models that core in TLA+, checks it with TLC on small instances and
proves its main properties with TLAPS for all instances.

## 1. Inventory

| Part | State | Operations that change it | Source |
|---|---|---|---|
| Isolation manager, `Timeline` | slots per sequence number in windows, reader counts, watermark, highest validated number | `opened_for_read`, `closed_for_read`, `validate_commit`, `applied`, `load_validated`, `load_aborted`, `reset` | `storage/isolation_manager.rs` |
| Storage and snapshots | keyspaces, operation buffers | `open_snapshot_*`, `snapshot_commit`, `close_resources`, `reset`, `import_snapshot` | `storage/storage.rs`, `storage/snapshot/` |
| Write-ahead log | files, next sequence number, waiters of the fsync thread | `sequenced_write`, `unsequenced_write`, `request_sync`, `load`, `reset` | `durability/wal.rs` |
| Checkpoint, recovery | checkpoint directories, replayed commits | `add_storage`, `finish`, `recover_storage`, `apply_recovered` | `storage/recovery/` |
| Transaction admission | schema flag, write count, `notify_queue` | reserve, release, fulfil | `database/database.rs` |
| Schema and statistics | schema and caches, statistics with their sequence number | schema commit, statistics synchronisation | `database/transaction.rs`, `concept/thing/statistics.rs` |
| Database manager | map of databases, imports under way | create, delete, import, reset | `database/database_manager.rs` |
| Query processing | local to one query | compile, execute | `query`, `compiler`, `ir`, `executor` |
| Server and bindings | sessions, users | requests | `server`, `user`, `embedded`, `typedb-*` |

How they interact: a client's transaction is *admitted* by the database, opens a *snapshot*
at the watermark, buffers writes, and commits. The commit record goes to the *log*, which
gives the sequence number; the *isolation manager* compares it with every commit since the
snapshot's sequence number; the writes go to the *keyspaces*; the slot becomes *Applied* and
the *watermark* moves over every settled slot; a *status record* follows. Background threads
fsync the log, take checkpoints and synchronise statistics. After a crash the last checkpoint
is restored and the log is replayed.

What is hard there: commits run in parallel and finish out of order; the watermark is moved
by whoever can; windows of the timeline are freed while validations need them; validations
spin on each other; Puts become inserts or nothing depending on concurrent commits; every
step can fail; admission hands reservations over between threads with timeouts. The hazards
are listed, each at its line, in `PROJECT.json`.

What correctness means: snapshot isolation (stable reads, no conflicting concurrent commits),
external consistency, a watermark that is never ahead of the data and never stuck, counts
that match, exclusion of schema transactions, and the return of every call.

## 2. What there is and what could follow

| Part | Model | Checked | Proved |
|---|---|---|---|
| Commit path | `IsolationManager`, `CommitProtocol` | safety, liveness, refinement | safety, refinement |
| Admission | `TransactionExclusivity` | safety, liveness | safety |
| Log | `WriteAheadLog` | safety, liveness | - |
| Recovery | `Recovery` | safety | safety |
| Instances | `ThingManager` | safety | safety |
| Schema commit, statistics, caches | `DatabaseSchema`, `Statistics` | safety | safety |
| Transaction services | `TransactionService` | safety, liveness | - |
| Database manager | `DatabaseManager` | safety | safety |

Open: the read path as pure algorithms (MVCC range iterator and the merge of buffered writes,
against a reference definition), the reset and import of a storage, and proofs for the parts
without one (section 6 says why).

## 3. Modules

| Module | What |
|---|---|
| `CommitRecords` | what a commit contains, how it depends on another, which versions it writes |
| `CommitProtocol` | what the isolation manager promises, one step per decision |
| `IsolationManager` | opening, committing and closing snapshots, thread by thread |
| `IsolationRefinement` | the mapping from `IsolationManager` to `CommitProtocol` |
| `IsolationManagerProofs` | theorems and proofs about `IsolationManager`, layer by layer |
| `IsolationRefinementProofs` | the proof that `IsolationManager` implements `CommitProtocol`, and the layer about reader counts |
| `TransactionExclusivity`, `TransactionExclusivityProofs` | admission of write and schema transactions; theorems and proofs |
| `WriteAheadLog` | files, rotation, sync, iteration, crash and load of the log |
| `Recovery`, `RecoveryProofs` | `CommitProtocol` with a log, checkpoints, crashes and replay; theorems and proofs |
| `ThingManager`, `ThingManagerProofs` | instances, edges and the relation index in concurrent transactions; theorems and proofs |
| `Statistics` | what the statistics count and how they are synchronised |
| `DatabaseSchema`, `DatabaseSchemaProofs` | transactions, schema commit, caches, plans, statistics thread, restart; theorems and proofs, those about `Statistics` included |
| `TransactionService` | the service of one transaction, over gRPC or HTTP |
| `DatabaseManager`, `DatabaseManagerProofs` | databases, directories and the lock of the manager; theorems and proofs |
| `MC...` | instances for TLC |

### IsolationManager

Each element of `Txn` is one snapshot with the thread that runs it; `pc` says where it is.
Every access to shared state that another thread can observe is a step.

| Variable | Code |
|---|---|
| `nextSeq`, `log`, `statuses` | the durability client: its counter, `CommitRecord`s, `StatusRecord`s |
| `kv` | the keyspaces: for each key its versions (`MVCCKey`: sequence number and operation) |
| `status` | `SlotMarker` of each slot |
| `front`, `back`, `readers` | the windows held, and their reader counts |
| `watermark`, `highest` | `watermark`, `highest_validated_sequence_number` |
| `open`, `ops`, `reinsert`, `seq` | the snapshot's sequence number, its buffer, the Puts to be written, the commit's number |
| `first`, `at`, `known` | the walk of a validation: where the windows begin, the predecessor at hand, the statuses read from the log |
| `cand` | the slot that `may_increment_watermark` tries next |
| `acked`, `floor` | history: the highest acknowledged commit, now and when the snapshot began to open |

A commit is the chain `BeginCommit` (initial status of the Puts), `SequencedWrite`,
`InsertPending`, `CollectWindows`, `ReadStatuses` and `ValidateOnDisk` (only when windows
have been freed), `ValidateInWindows`, then `SetValidated`, `RaiseHighest`, `Unregister`,
`WriteKeyspaces`, `SetApplied`, `IncrementWatermark`..., `PersistStatus`; or `SetAborted`,
`IncrementWatermark`..., `Unregister`, `PersistStatus`. `FreeAfter*` are the calls of
`may_free_windows`, under the lock of the windows but with a watermark that may be old.
`Fail*` are the error returns: no clean-up follows them in the code, and none in the model.

Abstractions: a key's bytes, a value's bytes and the keyspace are model values; one write and
one lock per key and commit; a commit's record is immutable in the log while its reinsert
flags live with the thread; the wait for the fsync is left out, for it only delays a thread.
`known_to_exist` of a Put is never set: `put_existing`, which sets it, has no caller.

### TransactionExclusivity

Each element of `Txn` is one call of `TransactionWrite::open` or `TransactionSchema::open`
with the transaction it yields. `hasSchema`, `running` and `queue` are the three parts of the
mutex-protected triple; `mutex` is held across the steps of `fulfill_reservation_requests`,
because timeouts of the waiting requests fall between them. A send over the rendezvous
channel either reaches a request that still waits (`Grant*`) or fails (`SkipTimedOut`).

### CommitProtocol and IsolationRefinement

`CommitProtocol` has no windows, no reader counts and no walks: a commit gets its number and
its pending slot in one step, and is decided in one step, when every concurrent predecessor is
decided or independent. It may abort as soon as one committed predecessor conflicts and all
before that one can be passed, which is where the code's walk ends. `IsolationRefinement` maps
the detailed state to it: a number without a slot counts as pending, a thread between two
stores counts as being where its slot says.

### WriteAheadLog

`disk` has the files by the number in their name, each with its records and the number of
those that are synced; `entries` is `Files::files`; lengths count records. A rotation names the
new file after the record's number, which is the number of an older record when the record is
unsequenced, so that it may come back to the same file. `signal`, `waiters`, `fpc` and `old`
are the fsync thread and its two lists: a writer reads `current_signal` and locks the list in
two steps, between which the thread may swap. `Crash` keeps of each file the synced records,
some of the others, and perhaps a torn one, and may lose a file that was never synced; `Load`
trims the last file and reads the next number from it. `SequencedWriteFails` and
`UnsequencedWriteFails` are the error returns of `write_record`: the number is spent, a new file
may be there or not, and a record whose flush failed stays in the buffered writer and goes out with
the next one (`buffer`). `left`, `skipped` and `severed` are histories: records left unsynced by a
rotation, numbers spent by failed writes, and whether a crash has cut a file before the last one or
emptied the last. Left out: a record larger than the buffer, which an error may cut in the middle
of a file.

### Recovery

The commit path is that of `CommitProtocol`. The log is one sequence of records of which a
crash leaves the synced part and perhaps more: the fsync of the log before the keyspaces are
written is modelled, the status record is not waited for (`COMMIT_WAIT_FOR_FSYNC` is true).
`Sync` is taken to reach every record (section 5).
`checkpoints` are the directories, oldest first, each with the keyspaces copied so far and,
once STORAGE_METADATA is written, its `mark`; `CopyKeyspace` copies one keyspace, in any order,
because commits write the keyspaces one by one too. `Restore`, `LoadValidated`, `LoadAborted`,
`ReplayValid`, `ReplayConflict`, `ReplayPanic` and `EndReplay` are `recover_storage` and
`apply_recovered`; `prev` is the checkpoint's watermark, where the windows of the recovery's
isolation manager begin; `promised` is a history of what clients were told or could see.
Left out: errors of the file system, the removal of old directories one by one, the freeing
of windows during replay (it takes 100 leading aborted commits), `debug_assert`s (a release
build).

### ThingManager

For a fixed schema: every entity and relation may own and play, subject to one cardinality each
for `owns` and `plays` and one for the roles of each relation (`RelatesCard`), which also says
whether the relation is indexed. A graph is the set of stored keys: objects, attributes, has and
links edges (a record with its two ends) and entries of the relation index (a pair of links).
`graphs` holds the graph after every commit, so that a transaction may have opened at any of them;
`buffer` is the operation buffer with its inserts, puts, deletes and the two kinds of locks. The
operations are those of `Object`, `Relation` and `Attribute`; `Finalise`, `CleanupEmptied`,
`CleanupCreated` and `Commit` are `finalise` and the commit, split where a loop over the snapshot
begins anew. `shorn` remembers the relations that a transaction's clean-up took a player from,
after their cardinalities were validated. The isolation manager appears through its result,
`Conflicts`. Relation types are taken not to be `@independent`. Left out: ordered (list)
capabilities, the third loops of `cleanup_relations` and `cleanup_attributes` and
`update_relation_indices_on_cardinality_changes`, which a schema transaction alone reaches.

### DatabaseSchema and Statistics

`log` has the commits with their status records; a status is pending, applied (decided and
written, without its record) or final. `Statistics` says what `may_synchronise` makes of the log:
it stops at the first commit without a status, and `write_to_delta` looks at concurrent
predecessors to tell whether a Put or a Delete changed anything. There is one count per key; the
breakdown by type and the count-change threshold of the durable write are left out, the threshold
by commits is there. A count that would go below zero is the panic of `checked_add_signed`.
`DatabaseSchema` has the schema lock (`SchemaLocked`), the transactions that take caches and
snapshot under it, the schema transaction step by step, plans in the query cache, the statistics
thread in four steps, and a crash followed by `Database::load`. A schema transaction may write
instances as well as types. `FailTxn` and `FailSchema` are commits that return an error after
their record is in the log: they stay without a status record (`lost`), and if they were not
decided, later commits wait for them. Left out: the clearing of counts when a type is deleted, which
belongs to the breakdown by type, and the loss of an unsynced tail of the log in a crash, which is
in `WriteAheadLog` and `Recovery`.

### TransactionService

One transaction, its service task and its workers. A handler is a sequence of steps (`todo`), one
for every await; between them workers, transmitters and the client move. `readers` are the read
queries: how many messages the worker still has, how full the bounded channel is, and what the
transmitter is doing. `running` is the write query. `writes` (asked for), `done` (executed) and
`saw` (executed when a read started) are histories. The gRPC and HTTP services differ in their
handlers, not in the queue, and `endpoint` chooses one. Left out: authentication, the content
of answers, prefetch sizes other than the one of the instance, and the panic of
`handle_stream_continue` when a worker that has sent its last message takes 60 seconds to return.

### DatabaseManager

`disk` has the directories of public and imported databases with their contents (`none`, `bare`
without a log, `logged`, `whole`), `databases` the map, `holder` the thread that has the write
lock, `poisoned` its poisoning by a failed assertion. Creating and deleting take several steps
with the lock held, each of which may be the last one before a crash or an I/O error; an import is
finalised in three (`Finalise`, `Move`, `Open`). `Panic` is a panic while a database is closed,
whose threads do not answer or still share it: it poisons the lock. `kept`, `gone`, `torn` and
`raced` are histories of what was reported and what was cut short. A reset always fails with
`StorageInUse`, since the threads of the database share its storage, and goes on to delete and
create. The removal of the log is one step.

## 4. Runs

| Run | Shows |
|---|---|
| `isolation` | three snapshots that delete, require and claim one key, in one-slot windows, with errors of log and keyspaces and snapshots opened at old numbers: watermark, reader counts, isolation, keyspaces, external consistency |
| `isolation_protocol` | Puts, deletes and locks of one key: the commit path implements `CommitProtocol`; a Put leaves its key present; open snapshots read the same versions throughout |
| `isolation_live` | every commit and every open returns, unless a validation before it has panicked |
| `exclusivity` | four requests: exclusion, counts, no stranded request, queue order; a waiting request is granted or times out |
| `log` | files of two records, a failing write and a power failure: confirmed records survive unless a rotation came between; numbers go on and records are found, across rotations, unless an older file was cut or the newest emptied; every waiting writer is woken |
| `recovery` | commits over two keyspaces, checkpoints and crashes at any point, also during recovery: commits are whole or absent, promises are kept, no slot is left undecided |
| `recovery_put` | **violated**: a reinserted Put is lost in replay |
| `things` | two concurrent transactions over a small graph: no dangling edge; cardinalities but for relations shorn by a clean-up; uniqueness, relation index and unowned attributes unless raced |
| `schema` | statistics, caches and plans against schema commits, commits that fail, the statistics thread and a restart |
| `service` | both services: no unexpected panic, complete commits, queries in order, one release, and the end of the task |
| `service_analyse` | **violated**: a dry run over HTTP discards earlier pending changes |
| `databases` | three clients over two names with errors, panics and crashes: reported outcomes last, handles are live, reservations are released |

**Bounds.** Three snapshots and three sequence numbers: a validation with two concurrent
predecessors, one of which may be evicted while the other is running, and a watermark that two
threads hand over. `WindowSize = 1` makes every commit cross a window boundary, so that eviction
happens within three commits (the code has 100 slots per window). In `isolation_live` this makes
validations panic (section 5), and `CommitReturnsUnlessPanicked` fails there without its
exception; an open that waits behind a panicked validation takes a fourth snapshot, so that the
exception of `OpenReturnsUnlessPanicked` is not exercised. One key is enough there, since
conflicts are per key and the steps do not depend on the number of keys; one value, because a Put
compares only equal values of its own key. `First = 2` gives the key a version before the first
commit; `isolation_protocol` and `isolation_live` start from an empty database. Four requests let
both kinds queue behind each other while a third runs and a fourth has timed out. In the log,
`FileSize = 2` with three writers makes two rotations, by commits and by statuses; the crash may
cut or lose any of the files, and one write (`MaxFailures`) fails. In `Recovery` a replayed commit
meets a decided and an undecided predecessor, a checkpoint splits a commit, and a second crash
falls into the recovery. In `things` transactions run one after the other but open at any earlier
graph (`OneAtATime`): they share nothing before they commit. Owners have one or two attributes;
one relation has at most one player per role and is indexed, the other has one or two, so that a
clean-up can leave too few. In `schema` one key is inserted and one put, since `write_to_delta`
treats them differently; there are two schema commits, or one that writes instances too
(`MaxSchemas` counts the latter twice), and one commit that returns an error (`MaxLost`); crashes
come while there is room for another commit. In `service` three requests follow the opening, the
first of which may be a query with more messages than the channel holds. Snapshots, writers and
clients are interchangeable, hence the symmetry in safety runs; runs with liveness use none.

**Deadlock** is checked where threads must not stop. It is switched off after injected errors
(a slot that is never settled stops the watermark and later opens; `isolation_protocol` has the
same threads without errors and checks it), in `isolation_live`, whose properties say more, and
where a system may come to rest: a database that cannot be loaded, a service that has returned, a
server that does not start, transactions and commits that are used up.

**Fairness.** `LiveSpec` of `IsolationManager` is weak fairness of each thread's own steps:
operating-system threads are scheduled, and the spinning loops yield. Client decisions are not
fair. In `TransactionExclusivity` releases are fair too: a transaction ends by its client or by
its transaction timeout. In `WriteAheadLog` the fsync thread, which loops at an interval, and
the writers are fair. In `TransactionService` tasks and workers are scheduled, queries come to an
end, and an idle transaction times out.

## 5. Where the code and what is said of it disagree

The two violated properties are what a comment or a document of the repository says; the findings
in `PROJECT.json` quote it. The same models show other disagreements, which have no run of their
own.

Commit path, log and recovery:

- `isolation_manager.rs:190` says `unreachable!("Evicted records cannot be pending")`. `applied()`
  moves the watermark and frees windows before the status record is written: a commit validated
  in between meets a record without a status and panics. Its slot stays pending, and the validations
  and opens behind it wait for ever (`CommitReturnsUnlessPanicked`, `OpenReturnsUnlessPanicked`).
- `storage.rs:310` says "Ensure WAL is persisted before inserting to the KV store".
  `wal.rs:304` syncs the last file only: a record written before a rotation in the same interval
  is confirmed although its file was not synced. `ConfirmedUnlessRotated` exempts it.
- `isolation_manager.rs:383` says that a commit begins by "writing the commit record into the Slot",
  and line 602 unwraps it. Replay marks the slot of a rejected commit without a record (line 107),
  and the load panics when it comes to look at it.
- `isolation_manager.rs:380`: windows are kept "while a 'reader' (ie open snapshot) is open on a
  window or an older window". `record_reader` counts nothing for the initial watermark, nor when
  the window was freed between reading the watermark and registering. Validation then reads the
  log, so isolation does not depend on it.
- `durability_client.rs:243`: with the no-op client (`Durable = FALSE`) there is no log to read,
  and `ConflictFree` is violated: two concurrent holders of an exclusive lock commit.
- `database.rs:135`: a schema request that timed out stays in the queue, and new write requests
  wait behind it for running write transactions.
- `wal.rs:85`: a crash right after a rotation leaves an empty last file, and the log is loaded
  with 1 as its next number. A crash that cuts a file which a rotation had left unsynced leaves
  a hole in the middle of the log, or a torn record that an iterator stops at.
  `NumberedUnlessSevered` and `FoundUnlessSevered` exempt both.
- `wal.rs:141`: a sequenced write that fails has taken its number, which no record gets; the record
  itself may appear in the log with the next write.
- `checkpoint.rs:203`: a crash while a checkpoint is written leaves an incomplete directory, which
  is the newest; the load fails although an older one is complete (`FailRestore`).
- `checkpoint.rs:156`: an aborted commit moves the watermark before its record is synced; a
  checkpoint taken then is "ahead of the durability service" after a power failure, with a log
  that is not corrupted (`FailRestore`).
- `isolation_manager.rs:190`, in replay: a commit below the checkpoint whose status record was
  lost is met as pending (`ReplayPanic`).
- `isolation_manager.rs:77`: `opened_for_read` asserts a number at or below the watermark, which
  stays at the checkpoint's during replay.

Instances:

- `typeql-skill/scenarios/08-constraints.md:56`: "@unique enforces uniqueness". The lock of a
  unique value (`thing_manager.rs:1869`) contains the owner, so that two transactions that give
  the value to two owners do not conflict. `UniqueUnlessRaced` exempts it.
- `docs/teaching-approaches/04-pera-modeling.md:20`: a relation needs players. Two transactions
  that each remove one of two players leave an empty one; each cleans up in its own snapshot.
- `relation.rs:145`: what the comment on `add_player` promises of the relation index fails when
  concurrent transactions change the players of one relation (`IndexUnlessRaced` exempts it).
- `TYPEQL_MENTAL_MODEL.md:225`: cardinalities hold at commit. They are validated before the
  clean-up passes (`thing_manager.rs:1795`), which delete relations without players; a relation in
  which those played may be left with too few. `CardinalityUnlessCleaned` exempts it. The
  other bounds are safe from it: a deleted relation has no players, and what it owned counts for
  nobody else.

Schema and statistics:

- `database.rs:547` takes a lock "to prevent Schema txns from opening during statistics update";
  nobody takes its write side. The updater may store statistics over newer ones.
- `statistics.rs:63`: statistics are "accurate as of a particular sequence number". Two concurrent
  transactions that delete the same key are both counted; the count may go below zero, which is a
  panic of the updater or of the load. `AccurateUnlessRaced` exempts it.
- `transaction.rs:336`: "guaranteeing a version of statistics is in WAL before schema can change".
  A commit whose status record could not be written (`storage.rs:325`) stops every later
  synchronisation at its number; the schema may change, and the statistics before it do not count
  what came after. `FlushedUnlessLost` exempts it.
- `transaction.rs:349`: when a cache cannot be built, the commit is in the log, the caller is told
  of an error, and the old caches stay until a restart.
- A read transaction that is open across a schema commit inserts plans of the old schema
  (`query_cache.rs:56`). `PlansCurrentUnlessStraddled` exempts it.

Services:

- `http/transaction_service.rs:378`: "finish any running write query". Over HTTP that function
  ends in an error in every case (lines 544 to 546), and a commit during a running write closes the
  transaction; `CommitHonoured` is about gRPC. Over gRPC the finished write is answered with
  `QueryInterrupted` although it is committed.
- `grpc/transaction_service.rs:713`: the comment on draining the transmitter first holds for
  a prefetch size of at least two; with one, worker, transmitter and handler wait for each other.
- A rollback or a schema query interrupts a running write, whose error closes the transaction.
- `blocking_read_query_worker`'s `debug_assert` fails when a read and a write are let in together.
- A client that leaves in the middle of a rollback leads to a second interrupt before the first
  is read, and `ExecutionInterrupt::check` panics (`executor/lib.rs:100`).

Database manager:

- The `AlreadyExists` branch of `finalise_imported_database` is never taken (`OneDirectory`).
- `database_manager.rs:309`: the assertion fails after an I/O error that left a directory without
  an entry, and poisons the lock for all databases.
- A directory without a log, left by a creation or a deletion that was cut short, keeps the server
  from starting. An import whose creation failed leaves its name "being imported" until a restart.
- `reset_else_recreate_database` releases the lock before it deletes and creates: a database opened
  in between stays, with the schema reservation that the failed reset left behind.

`PromisesKept` and `WholeCommits` speak of a database that has been loaded: they hold
whenever none of these stops the load. `Recovery` also takes a sync to reach all records
written before it, which fails across a rotation.

## 6. Proofs

The theorems hold for any snapshots, requests, threads and names, any keys, values and
operations, any window size, any length of the log and any number of errors and crashes. The
assumptions are those on the constants: `ConstantsAssumption` and `FiniteSnapshots`
(`IsolationManager`; the second one only where snapshots are counted), `TxnAssumption`,
`RecoveryAssumption`, `ManagerAssumption`, `StartAssumption`, `KeyAssumption`,
`CardinalityAssumption`, `StatisticsAssumption` and `ObjectKeyAssumption`. They fix types,
say that the operations are buffers, and, for `ThingManager`, that the graphs to start from are
consistent. TLC evaluates them in every run.

None of the properties is inductive as it stands; what follows is the strengthening each needs.

### The commit path

The invariant of `IsolationManager` is built in layers, each using those before it. Layer 6
is in `IsolationRefinementProofs`, the others are in `IsolationManagerProofs`.

1. `Inv1`: types; a sequence number has one owner, whose thread alone changes its slot; the
   slot follows the thread's `pc`. Gives **TypeCorrect**.
2. `Inv2`: windows lie behind the watermark when they are freed; every slot at or below the
   watermark is settled; a settled slot right above it has a thread about to take it. Gives
   **Watermark** (`WatermarkSettled`, with `RunningCommitsHeld`: no window of a running commit is
   freed) and **NoneStranded** (`NoStrandedSlot`).
3. `Inv3`: status records are true; every predecessor that a validation has left behind is
   *cleared*: it does not conflict, or has aborted. Clearing is stable because decided slots do
   not change; predecessors to be read from the log are below the watermark, hence decided.
   Gives **Isolation** (`ConflictFree`, when the log is durable).
4. `Inv4`: a commit is acknowledged after it raised `highest`; an open waits for `highest`.
   Gives **SeesAcknowledged** (`ExternallyConsistent`).
5. `Inv5`: versions belong to decided commits; an applied commit is written completely. Gives
   **Keyspaces** (`KeyspacesFollowDecisions`) and, since a step writes versions above the
   watermark only, **RepeatableReads** (`SnapshotStable`).
6. `Inv6`: the count of a window that is held is the number of snapshots registered in it, and the
   windows reach beyond the watermark, so that registering finds a window or none was counted.
   Gives **ReadersCounted** (`ReadersExact`), for finitely many snapshots.
7. `Inv7`: the reinsert flags of a commit are those of `set_initial_put_status` as changed by the
   predecessors passed so far, and these are the ones that matter: a predecessor passed while it
   was pending does not touch the Puts.
8. `Inv8`: the versions with a commit's number are those of its batch.
9. `Inv9`: before the first commit keys are only inserted; hence, by 7 and 8, the newest version of
   a put key at the commit's number is an insert, whether the commit wrote it or left it. Gives
   **PutsLeaveKeys** (`PutLeavesKey`, when the log is durable).

`Durable` appears as a hypothesis where the property fails without a log to read (section 5).

**Refinement** (`IsolationRefinementProofs`): with a durable log and without faults,
`IsolationManager` implements `CommitProtocol` under the mapping of `IsolationRefinement`, that is
`Spec => ImplementsProtocol`. `OpenSnapshot`, `SequencedWrite`, `SetValidated`, `SetAborted`,
`WriteKeyspaces`, `SetApplied`, `IncrementWatermark` and `PersistStatus` are steps of the
protocol; all others leave it where it is. The two steps that decide are the ones that need the
layers: what the walk has cleared (3) and the flags it has computed (7) are what the protocol
demands of a commit that is validated in one step; what the walk stopped at is what it demands of
an abort. Faults are excluded because the protocol has no commit that fails half-way.

### Admission

`TransactionExclusivityProofs` uses one invariant: the mutex holder is the one thread in the
loop, the counters equal the holders, they exclude each other, and waiting requests are queued.
It gives **TypeCorrect**, **Exclusion**, **Counters**, **NoneStranded** and **InOrder**.

### Recovery

A commit's fate depends on the log alone. `Verdict(V)` says that `V` is the set of valid commits
of the log: a commit is in `V` if and only if no concurrent predecessor in `V` conflicts with it.
The invariant `IInv` says that there is such a `V` with which everything agrees that knows of a
decision: slots, status records, clients (`Agrees`), the versions in the keyspaces and in
checkpoints (`Founded`: they are of commits in `V`), and the checkpoints' marks (`CoversKey`: the
writes of the commits in `V` up to the mark are there). A crash leaves a beginning of the log and
the part of `V` in it is the verdict of what is left, which is why replay, which validates again
with the slots or the log as its predecessors, decides as the commits did. Two points need care.
A checkpoint may have versions of commits that a crash takes out of the log; `Founded` allows them
below the mark, and then the mark is not below the next number, so that `recover_storage` refuses
the directory. A checkpoint under way has read its mark before it copies, hence the commits up to
the mark are settled and written before any keyspace is copied (`UnderWay`). Gives
**RecoveryTypes**, **Promises** (`PromisesKept`), **CommitsWhole** (`WholeCommits`) and
**SlotsOwned** (`NoOrphanSlot`). The bounds `MaxCrashes`, `MaxCrashedAgain` and `MaxCheckpointed`
are arbitrary there. TLC has checked `IInv` too, with Puts and one crash, with two keyspaces and
one crash, and with two crashes.

### Instances

`ThingManagerProofs`: a buffer is *anchored* in its snapshot: the ends of an edge it puts are seen
by the transaction and are inserted or locked by it, and with an object it deletes every edge the
snapshot has at it. Every operation and the two clean-up passes keep this (one lemma for each
change of a buffer). At commit, what was committed since cannot have deleted what is locked nor
attached an edge to what is deleted, or it would conflict. Gives **GraphIntegrity**
(`NoDanglingEdges`).

For the other properties every step is first reduced to what it adds to a buffer's view or takes
from it (`Changes`), and a commit to the view it was finalised with (`Commits`).

- **UniqueValues** (`UniqueUnlessRaced`): no transaction sees a unique value with two owners one of
  which it has put itself (`UniqueSeen`). Of two owners that are both committed, either the later
  commit saw the earlier, or they raced.
- **AttributesOwned** (`OwnedUnlessRaced`): `cleanup_attributes` leaves no unowned attribute among
  those the transaction wrote or detached, so that one that is unowned after the commit differs
  from what the transaction saw, which takes a commit it has not seen (`CommittedAsSeen`).
- **IndexRegenerated** (`IndexUnlessRaced`): where a snapshot's index of a relation is
  right, so is the transaction's view of it, and an entry is put only with one of its links
  (`Accompanied`); in all graphs so far the index is
  right or raced (`IndexFine`), and the relations an entry mentions have existed (`KnownIndex`), so
  that a new relation begins without entries.
- **CardinalitiesKept** (`CardinalityUnlessCleaned`): all graphs so far are within the bounds, and
  so is the view of a transaction that has validated, but for relations that were shorn
  (`CardInv`). A commit that changes a count holds the exclusive lock of its object, hence two
  concurrent ones conflict, and the count is the one that was validated.

### Schema, statistics and caches

`DatabaseSchemaProofs` has three parts.

- The algorithm, on any log that transactions can have left (`WellFormed`: deletes were seen by
  the snapshot, a Put is reinserted when its snapshot did not see the key, an object is inserted
  once). The delta of one write is the difference between what is read before and after its commit
  (`DeltaExact`); hence the running counts of `update_writes` are exact at each commit it passes
  (`RunningExact`), and the loop of `may_synchronise` hands it every commit it needs, the context
  of earlier ones included, and leaves only true records (`SyncedTo`, `LoopTracked`,
  `SynchroniseTracked`). A key deleted by two concurrent commits is the exception. The inductions
  over the log and over the steps of the loop are made with a least counterexample
  (`LeastNumber`).
- The log: a step leaves a log that is `Later`, in which commits are appended and statuses settle.
  What statistics counted stays right, for they do not reach beyond the watermark.
- The invariant `Inv`: types and `WellFormed(log)`; a commit without a status record belongs to
  one transaction or was lost, and no write transaction is beside a schema transaction
  (`OwnerInv`); the shared statistics, the two private copies and the last record count the log
  and stay within the watermark (`StatisticsInv`); what precedes a schema commit is complete or
  lost, what precedes the first lost one was flushed, and an accepted schema commit has no pending
  one before it (`FlushInv`, from what a synchronisation leaves: it reaches the first incomplete
  commit); caches, plans and readers agree, unless a build failed or a reader was overtaken
  (`CacheInv`).

Gives **CountsAreWhatIsRead** (`AccurateUnlessRaced`), **CachesAreTheSnapshots**
(`CachesMatchSnapshot`), **PlansAreCurrent** (`PlansCurrentUnlessStraddled`) and
**StatisticsBeforeSchema** (`FlushedUnlessLost`).

### Databases

`DatabaseManagerProofs`: the thread that holds the lock is the one that changes the disk, and the
directory it works on is in the state its step expects (`LockInv`, `WorkInv`); an import has its
directory to itself (`AloneInv`); a listed database is whole, and a directory that is not listed
is being worked on or was left by an error or a crash (`DiskInv`). Gives **Databases**
(`OutcomesLast`, with `OneDirectory`, `PanicsOnlyAfterError`, `StartsUnlessTorn`) and **Handles**
(`HandlesLive`). **Reservations** (`ReleasedUnlessRaced`) follows from the steps: a thread in
"deleting" leaves it by `Delete` only, or with a poisoned lock, or in a crash.

### Only model-checked

- Liveness: `CommitReturnsUnlessPanicked`, `OpenReturnsUnlessPanicked`, `RequestServed`,
  `WaiterWoken` and `Ends`. Fairness is beyond the prover.
- The log: `NumberedUnlessSevered` and `FoundUnlessSevered` are about the concatenation and the
  search of sequences of records, which takes induction over sequences;
  `ConfirmedUnlessRotated` is left with them.
- `TransactionService`: one transaction, bounded queues; its instance is the interesting case, and
  its safety properties depend on the positions in a handler's sequence of steps.

## 7. Not modelled

Query compilation and execution, encodings and the type system are sequential computations on
one snapshot and make up most of the repository's lines; they are better tested than
model-checked, and this project leaves them out. The reset and the import of a storage, range
iterators, generators of identifiers, the server around the services, user management,
diagnostics and language bindings are left out too. RocksDB is external: its batches are atomic
per keyspace. `PROJECT.json` lists every part with the reason.
