---------------------------- MODULE WriteAheadLog ----------------------------
(***************************************************************************)
(* The write-ahead log: records are appended to files that are rotated at  *)
(* a maximal length, a thread syncs the last file at intervals and wakes   *)
(* the writers that wait for it, and after a crash the log is loaded from  *)
(* what is left of the files.                                              *)
(*                                                                         *)
(* Each element of Writer is one commit: it writes its sequenced record,   *)
(* asks for a sync, waits for it and writes an unsequenced status record.  *)
(* Lengths are counted in records.                                         *)
(***************************************************************************)
EXTENDS Integers, FiniteSets, Sequences, SequencesExt, TLC

CONSTANTS
    Writer,      \* the commits, numbered in the order in which they come to write
    FileSize,    \* MAX_WAL_FILE_SIZE
    MaxCrashes,  \* bound: how often the machine fails
    MaxFailures  \* bound: how often a write returns an error

ASSUME LogAssumption ==
    Writer \subseteq Nat /\ FileSize \in Nat \ {0} /\ MaxCrashes \in Nat /\ MaxFailures \in Nat

VARIABLES
    disk,        \* the files by the number in their name: records, and how many are synced
    entries,     \* Files::files: the number in the name, and the length known
    buffer,      \* Files::writer: records whose flush failed, kept for the next one
    next,        \* next_sequence_number
    wpc,         \* where each writer is
    slot,        \* the list of waiters that a writer has chosen
    signal,      \* current_signal
    waiters,     \* signalling: the two lists of waiters
    fpc, old,    \* the fsync thread, and the list it has taken over
    mode,        \* "up", "down" after a crash, "failed" when the log cannot be loaded
    crashes, failures,
    confirmed,   \* history: writers whose wait for the sync is over
    left,        \* history: writers whose record was not synced when a rotation left its file
    skipped,     \* history: numbers that a failed write has taken
    severed      \* history: a crash has cut a file before the last one, or emptied the last

fileVars == <<disk, entries, buffer, next, left>>
syncVars == <<signal, waiters, fpc, old>>
runVars == <<mode, crashes, failures, skipped, severed>>
vars == <<disk, entries, buffer, next, wpc, slot, signal, waiters, fpc, old, mode, crashes,
          failures, confirmed, left, skipped, severed>>

Goto(w, label) == wpc' = [wpc EXCEPT ![w] = label]

-----------------------------------------------------------------------------
(* Reading.                                                                  *)

\* What is left of a record whose write was cut short
Torn == [seq |-> 0, kind |-> "torn"]

\* The readers of a file stop at the length known for it
Read(i) == SubSeq(disk[entries[i].start].recs, 1, entries[i].len)
ReadFrom(i) == FlattenSeq([j \in 1..(Len(entries) - i + 1) |-> Read(i + j - 1)])

\* RecordIterator::new, which file: the last of those that start before s
FirstFile(s) == Max({1} \cup {i \in DOMAIN entries : \A j \in 1..i : entries[j].start < s})

\* Mutant: the record at s is passed over as well
SkippedOneMore(recs, start, s) ==
    Min({n \in 0..Len(recs) : n = Len(recs) \/ (IF n = 0 THEN start ELSE recs[n].seq) >= s})

\* RecordIterator::new, how many records of that file are skipped
Skipped(recs, start, s) ==
    Min({n \in 0..Len(recs) : \/ (IF n = 0 THEN start ELSE recs[n].seq) >= s
                              \/ n = Len(recs)
                              \/ recs[n + 1].seq = s})

\* Everything that a RecordIterator from s yields
IterateFrom(s) ==
    IF entries = <<>> THEN <<>>
    ELSE LET i == FirstFile(s)
             n == Skipped(Read(i), entries[i].start, s)
         IN SubSeq(ReadFrom(i), n + 1, Len(ReadFrom(i)))

\* The iterator returns an error: it skips or reads up to the end of each file
Unreadable(s) == entries # <<>> /\ Torn \in ToSet(ReadFrom(FirstFile(s)))

\* find_last_type: the last such record of the newest file that has one
FindLast(kind) ==
    LET Of(i) == SelectSeq(Read(i), LAMBDA r : r.kind = kind)
        found == {i \in DOMAIN entries : Of(i) # <<>>}
    IN IF found = {} THEN <<>> ELSE <<Last(Of(Max(found)))>>

-----------------------------------------------------------------------------
(* Writing.                                                                  *)

Rotates == entries # <<>> => Last(entries).len >= FileSize

\* The commits whose record lies unsynced in the last file
Unsynced ==
    IF entries = <<>> THEN {}
    ELSE LET file == disk[Last(entries).start]
         IN {file.recs[n].by : n \in {k \in DOMAIN file.recs :
                                        k > file.synced /\ file.recs[k].kind = "commit"}}

\* What the writer's buffer holds goes out first, to the file that it was meant for:
\* with the next flush, or when a rotation drops the writer
Flushed == IF buffer = <<>> THEN disk
           ELSE [disk EXCEPT ![Last(entries).start].recs = @ \o buffer]

\* open_new_file_at for a record with number s, if the last file is full; a rotation
\* may come back to the file with the same name
Target(s) == IF Rotates THEN s ELSE Last(entries).start
Opened(files, s) == files @@ (Target(s) :> [recs |-> <<>>, synced |-> 0])
Enter(files, s) ==
    LET entry == [start |-> Target(s), len |-> Len(files[Target(s)].recs)]
    IN IF Rotates THEN Append(entries, entry) ELSE [entries EXCEPT ![Len(entries)] = entry]
LeaveBehind == left' = IF Rotates THEN left \cup Unsynced ELSE left

\* Files::write_record
WriteRecord(rec) ==
    /\ disk' = [Opened(Flushed, rec.seq) EXCEPT ![Target(rec.seq)].recs = Append(@, rec)]
    /\ entries' = Enter(disk', rec.seq)
    /\ buffer' = <<>>
    /\ LeaveBehind

\* Files::write_record returns an error: the new file cannot be opened, or the record
\* is not written; a record whose flush fails stays in the buffer.  The length known
\* is not updated.
FailedRecord(rec) ==
    \/ /\ Rotates
       /\ UNCHANGED <<disk, entries, buffer, left>>
    \/ /\ disk' \in {Opened(files, rec.seq) : files \in {disk} \cup IF Rotates THEN {Flushed} ELSE {}}
       /\ entries' = IF Rotates THEN Enter(disk', rec.seq) ELSE entries
       /\ \E kept \in {<<>>, <<rec>>} :
            buffer' = IF Rotates THEN kept ELSE buffer \o kept
       /\ LeaveBehind

Fail(w) ==
    /\ failures < MaxFailures
    /\ failures' = failures + 1
    /\ Goto(w, "failed")
    /\ UNCHANGED <<slot, syncVars, mode, crashes, confirmed, severed>>

Arrives(w) == mode = "up" /\ wpc[w] = "idle" /\ \A v \in Writer : wpc[v] = "idle" => w <= v

\* sequenced_write: the number is taken before the record is written
SequencedWrite(w) ==
    /\ Arrives(w)
    /\ WriteRecord([seq |-> next, kind |-> "commit", by |-> w])
    /\ next' = next + 1
    /\ Goto(w, "written")
    /\ UNCHANGED <<slot, syncVars, runVars, confirmed>>

SequencedWriteFails(w) ==
    /\ Arrives(w)
    /\ FailedRecord([seq |-> next, kind |-> "commit", by |-> w])
    /\ next' = next + 1
    /\ skipped' = skipped \cup {next}
    /\ Fail(w)

UnsequencedWrite(w) ==
    /\ mode = "up" /\ wpc[w] = "synced"
    /\ WriteRecord([seq |-> next - 1, kind |-> "status", by |-> w])
    /\ Goto(w, "done")
    /\ UNCHANGED <<next, slot, syncVars, runVars, confirmed>>

UnsequencedWriteFails(w) ==
    /\ mode = "up" /\ wpc[w] = "synced"
    /\ FailedRecord([seq |-> next - 1, kind |-> "status", by |-> w])
    /\ UNCHANGED <<next, skipped>>
    /\ Fail(w)

\* reset takes the log exclusively: no writer is under way
Reset ==
    /\ mode = "up"
    /\ \A w \in Writer : wpc[w] \in {"idle", "done", "failed", "gone"}
    /\ disk' = <<>> /\ entries' = <<>> /\ buffer' = <<>> /\ next' = 1
    /\ confirmed' = {} /\ left' = {} /\ skipped' = {} /\ severed' = FALSE
    /\ UNCHANGED <<wpc, slot, syncVars, mode, crashes, failures>>

-----------------------------------------------------------------------------
(* Waiting for a sync.                                                       *)

\* schedule_next_sync_may_subscribe reads current_signal, then locks that list
ChooseList(w) ==
    /\ wpc[w] = "written"
    /\ slot' = [slot EXCEPT ![w] = signal]
    /\ Goto(w, "choosing")
    /\ UNCHANGED <<fileVars, syncVars, runVars, confirmed>>

Subscribe(w) ==
    /\ wpc[w] = "choosing"
    /\ ~(fpc \in {"locked", "synced"} /\ old = slot[w])
    /\ waiters' = [waiters EXCEPT ![slot[w]] = @ \cup {w}]
    /\ Goto(w, "waiting")
    /\ UNCHANGED <<fileVars, slot, signal, fpc, old, runVars, confirmed>>

\* Mutant: the thread takes over the list that new writers go to
SwapKept ==
    /\ mode = "up" /\ fpc = "asleep"
    /\ old' = 1 - signal
    /\ fpc' = "swapped"
    /\ UNCHANGED <<fileVars, wpc, slot, signal, waiters, runVars, confirmed>>

Swap ==
    /\ mode = "up" /\ fpc = "asleep"
    /\ old' = signal
    /\ signal' = 1 - signal
    /\ fpc' = "swapped"
    /\ UNCHANGED <<fileVars, wpc, slot, waiters, runVars, confirmed>>

\* Mutant: the waiters are woken before the file is synced
LockListUnsynced ==
    /\ fpc = "swapped"
    /\ fpc' = IF waiters[old] = {} THEN "asleep" ELSE "synced"
    /\ UNCHANGED <<fileVars, wpc, slot, signal, waiters, old, runVars, confirmed>>

LockList ==
    /\ fpc = "swapped"
    /\ fpc' = IF waiters[old] = {} THEN "asleep" ELSE "locked"
    /\ UNCHANGED <<fileVars, wpc, slot, signal, waiters, old, runVars, confirmed>>

\* Files::sync_all syncs the last file
SyncAll ==
    LET f == Last(entries).start IN
    /\ fpc = "locked"
    /\ disk' = [disk EXCEPT ![f].synced = Len(disk[f].recs)]
    /\ fpc' = "synced"
    /\ UNCHANGED <<entries, buffer, next, left, wpc, slot, signal, waiters, old, runVars,
                   confirmed>>

WakeAll ==
    /\ fpc = "synced"
    /\ wpc' = [w \in Writer |-> IF w \in waiters[old] THEN "synced" ELSE wpc[w]]
    /\ confirmed' = confirmed \cup waiters[old]
    /\ waiters' = [waiters EXCEPT ![old] = {}]
    /\ fpc' = "asleep"
    /\ UNCHANGED <<fileVars, slot, signal, old, runVars>>

-----------------------------------------------------------------------------
(* Crash and load.                                                           *)

\* A file before the last one has lost records, or the last one holds none
Severs(files) ==
    LET last == Max(DOMAIN files) IN
    /\ files # <<>>
    /\ \/ \E f \in DOMAIN disk : f < last /\ (f \in DOMAIN files => files[f].recs # disk[f].recs)
       \/ Cardinality(DOMAIN files) > 1 /\ files[last].recs \in {<<>>, <<Torn>>}

\* External.  When the machine fails a file keeps its synced records and a prefix
\* of the others, with perhaps a part of the next one, and a file that was never
\* synced may be gone.  A process that is killed leaves no less, and one that ends
\* flushes the buffer.
Crash ==
    /\ mode = "up" /\ crashes < MaxCrashes
    /\ \E kept \in SUBSET DOMAIN disk :
       \E cut \in [kept -> 0..Max({0} \cup {Len(Flushed[f].recs) : f \in kept})] :
       \E torn \in SUBSET {f \in kept : cut[f] < Len(Flushed[f].recs)} :
         /\ \A f \in DOMAIN disk \ kept : disk[f].synced = 0
         /\ \A f \in kept : disk[f].synced <= cut[f] /\ cut[f] <= Len(Flushed[f].recs)
         /\ disk' = [f \in kept |-> [disk[f] EXCEPT
                        !.recs = SubSeq(Flushed[f].recs, 1, cut[f])
                                   \o IF f \in torn THEN <<Torn>> ELSE <<>>]]
    /\ severed' = (severed \/ Severs(disk'))
    /\ mode' = "down"
    /\ crashes' = crashes + 1
    /\ entries' = <<>> /\ buffer' = <<>> /\ next' = 1
    /\ wpc' = [w \in Writer |->
                  IF wpc[w] \in {"idle", "done", "failed"} THEN wpc[w] ELSE "gone"]
    /\ slot' = [w \in Writer |-> 0]
    /\ signal' = 0 /\ waiters' = [i \in {0, 1} |-> {}] /\ fpc' = "asleep" /\ old' = 0
    /\ UNCHANGED <<confirmed, left, skipped, failures>>

\* trim_corrupted_tail of the last file
Trimmed(file) == [file EXCEPT !.recs = SelectSeq(@, LAMBDA r : r # Torn)]

\* Mutant: the number of the last record is given out again
NextAfterSame(recs) == IF recs = <<>> THEN 1 ELSE Last(recs).seq

NextAfter(recs) == IF recs = <<>> THEN 1 ELSE Last(recs).seq + 1

\* Files::open
OpenFiles(names, files) ==
    [i \in DOMAIN names |-> [start |-> names[i], len |-> Len(files[names[i]].recs)]]

\* WAL::load: Files::open, and the next number from the records that an iterator from
\* the name of the last file yields.  What a crash has left of a record in the file
\* before it ends the load if the iterator has to skip it or finds nothing behind it, and
\* would end the next one.
Load ==
    /\ mode \in {"down", "failed"}
    /\ \E start \in {Max({0} \cup DOMAIN disk)} :
         /\ disk' = [f \in DOMAIN disk |-> IF f = start THEN Trimmed(disk[f]) ELSE disk[f]]
         /\ entries' = OpenFiles(SetToSortSeq(DOMAIN disk, <), disk')
         /\ \/ Unreadable(start)' /\ mode' = "failed" /\ UNCHANGED next
            \/ /\ mode = "down"
               /\ Unreadable(start)' => Last(ReadFrom(FirstFile(start)))' # Torn
               /\ mode' = "up" /\ next' = NextAfter(IterateFrom(start)')
    /\ UNCHANGED <<buffer, wpc, slot, syncVars, crashes, failures, confirmed, left, skipped,
                   severed>>

-----------------------------------------------------------------------------
Init ==
    /\ disk = <<>> /\ entries = <<>> /\ buffer = <<>> /\ next = 1
    /\ wpc = [w \in Writer |-> "idle"]
    /\ slot = [w \in Writer |-> 0]
    /\ signal = 0 /\ waiters = [i \in {0, 1} |-> {}] /\ fpc = "asleep" /\ old = 0
    /\ mode = "up" /\ crashes = 0 /\ failures = 0
    /\ confirmed = {} /\ left = {} /\ skipped = {} /\ severed = FALSE

Write(w) ==
    \/ SequencedWrite(w) \/ ChooseList(w) \/ Subscribe(w) \/ UnsequencedWrite(w)
    \/ SequencedWriteFails(w) \/ UnsequencedWriteFails(w)
Fsync == Swap \/ LockList \/ SyncAll \/ WakeAll

Next == (\E w \in Writer : Write(w)) \/ Fsync \/ Reset \/ Crash \/ Load

Spec == Init /\ [][Next]_vars

\* The fsync thread runs until the log is dropped, and writers are scheduled
LiveSpec == Spec /\ WF_vars(Fsync) /\ \A w \in Writer : WF_vars(Write(w))

-----------------------------------------------------------------------------
\* All records of the files, in the order of the file names
All ==
    LET names == SetToSortSeq(DOMAIN disk, <)
    IN FlattenSeq([i \in DOMAIN names |-> disk[names[i]].recs])

\* A commit whose wait for the sync is over has its record on the disk, and no
\* crash takes it away: the fsync thread syncs after it has taken over the list
\* and before it wakes the writers in it.  The exception is a record that was not
\* synced when a rotation left its file: Files::sync_all reaches the last file only.
ConfirmedUnlessRotated ==
    \A w \in confirmed \ left : \E f \in DOMAIN disk : \E n \in 1..disk[f].synced :
        disk[f].recs[n].kind = "commit" /\ disk[f].recs[n].by = w

\* The numbers of the commits in the log ascend, the next one is above them all, and
\* none is missing below it but those of a write that failed after it had taken its
\* number.  The exception is the log after a crash that has cut a file which a rotation
\* had left unsynced, or has left the newest file empty: WAL::load takes the number
\* from the newest file and starts again at 1 if it has no record.
NumberedUnlessSevered ==
    mode = "up" /\ ~severed =>
        LET commits == SelectSeq(All, LAMBDA r : r.kind = "commit")
            numbers == {commits[i].seq : i \in DOMAIN commits}
        IN /\ \A i, j \in DOMAIN commits : i < j => commits[i].seq < commits[j].seq
           /\ numbers \subseteq 1..(next - 1)
           /\ 1..(next - 1) \subseteq numbers \cup skipped

\* An iterator from the number of a commit yields that commit and every record
\* written after it; the file that a rotation came back to is read twice.
IterationComplete ==
    mode = "up" /\ ~severed =>
        LET log == All
            once == \A i, j \in DOMAIN entries : entries[i].start = entries[j].start => i = j
        IN \A n \in {k \in DOMAIN log : log[k].kind = "commit"} :
              LET found == IterateFrom(log[n].seq)
                  rest == SubSeq(log, n, Len(log))
              IN IF once THEN found = rest ELSE ToSet(found) = ToSet(rest)

\* find_last_type yields the record of that type that was written last: the
\* statistics at load are the latest ones.
FindsLast ==
    mode = "up" /\ ~severed =>
        LET ofKind == SelectSeq(All, LAMBDA r : r.kind = "status")
        IN FindLast("status") = IF ofKind = <<>> THEN <<>> ELSE <<Last(ofKind)>>

\* What was written is found again, forwards from any commit and from the end, across
\* rotations, failed writes and loads.  The exception is the same: past a crash that has
\* cut an older file or emptied the newest, an iterator may end with an error, or find
\* two records with one number.
FoundUnlessSevered == IterationComplete /\ FindsLast

\* A writer that waits for a sync is woken, whichever list it got into.
WaiterWoken == \A w \in Writer : wpc[w] = "waiting" ~> wpc[w] # "waiting"
=============================================================================
