----------------------- MODULE IsolationManagerProofs -----------------------
(***************************************************************************)
(* Proofs about IsolationManager, for any operations, any window size, any *)
(* length of the log and any number of snapshots (finitely many where they *)
(* are counted).                                                           *)
(*                                                                         *)
(* The invariant is built in layers; each one uses those before it.  The   *)
(* first two are about the slots, the windows and the watermark, the next  *)
(* three about the snapshots: concurrent commits do not conflict, what a   *)
(* snapshot sees is fixed and holds what was acknowledged, and a committed *)
(* Put leaves its key.  IsolationRefinementProofs uses them all.           *)
(***************************************************************************)
EXTENDS IsolationManager, TLAPS

(* Layer 1: every sequence number belongs to one commit, whose thread alone  *)
(* changes the slot, in the order of the protocol.                           *)

\* The thread has no sequence number yet, or never gets one
Unsequenced == {"idle", "opening", "openingAt", "reading", "registering", "open",
                "closing", "closed", "dropped", "sequencing"}
\* The thread is deciding its commit
Deciding == {"collecting", "readingStatuses", "onDisk", "validating", "conflicting"}
\* The thread is between sequenced_write and the end of its commit
Committing == {"sequenced"} \cup Deciding \cup
              {"validated", "unregistering", "freeing", "writing", "applying",
               "advancing", "advanced", "persisting"}

\* Sequence numbers in use have been handed out, each to one snapshot.
SeqOwned ==
    /\ \A t \in Txn : seq[t] < nextSeq
    /\ \A t, u \in Txn : t # u /\ seq[t] = seq[u] => seq[t] = 0
    /\ \A t \in Txn : pc[t] \in Unsequenced => seq[t] = 0
    /\ \A t \in Txn : pc[t] \in Committing => seq[t] # 0

\* The record of a running commit is in the log, as the snapshot wrote it.
RecordOwned ==
    \A t \in Txn : pc[t] \in Committing =>
        log[seq[t]] = [open |-> open[t], ops |-> ops[t]]

\* A slot that is not empty has a record.
RecordKept == \A s \in Slot : status[s] # "Empty" => s < nextSeq /\ log[s] # NoRecord

\* The slot of a commit follows its thread.
SlotFollows ==
    \A t \in Txn :
        /\ pc[t] = "sequenced" => status[seq[t]] = "Empty"
        /\ pc[t] \in Deciding => status[seq[t]] = "Pending"
        /\ pc[t] \in {"validated", "writing", "applying"} => status[seq[t]] = "Validated"
        /\ pc[t] \in {"unregistering", "freeing"} => status[seq[t]] \in {"Validated", "Aborted"}
        /\ pc[t] \in {"advancing", "advanced", "persisting"} =>
              status[seq[t]] \in {"Applied", "Aborted"}

\* Only puts carry a reinsert flag.
FlagsOfPuts == \A t \in Txn : reinsert[t] \subseteq Puts(ops[t])

Inv1 == TypeOK /\ SeqOwned /\ RecordOwned /\ RecordKept /\ SlotFollows /\ FlagsOfPuts

USE ConstantsAssumption

\* The order of sequence numbers.
LEMMA NatOrder ==
  /\ \A x, y, z \in Nat : x <= y /\ y <= z => x <= z
  /\ \A x, y \in Nat : x < y + 1 <=> x < y \/ x = y
  /\ \A x, y \in Nat : x < y => x <= y
  /\ \A x, y, z \in Nat : x < y /\ y <= z => x <= z
  /\ \A x \in Nat : x <= x /\ x + 1 \in Nat /\ x < x + 1
  /\ \A x, y \in Nat : x >= y <=> y <= x
  OBVIOUS

\* An Insert and a Put carry a value.
LEMMA WriteValue ==
  ASSUME NEW w \in Write, w.op \in {"Insert", "Put"}
  PROVE  w.val \in Val
  BY DEF Write, NoWrite

\* What a commit writes are versions.
LEMMA NewVersionsType ==
  ASSUME NEW k \in Key, NEW s \in Nat, NEW o \in Buffer, NEW flags, flags \subseteq Puts(o)
  PROVE  NewVersions(k, s, o, flags) \subseteq Version
<1>1. o.writes[k] \in Write
  BY Zenon DEF Buffer
<1>2. CASE o.writes[k].op = "Insert" \/ k \in flags
  <2>1. o.writes[k].val \in Val
    BY Zenon, <1>1, <1>2, WriteValue DEF Puts
  <2> QED BY <1>2, <2>1 DEF NewVersions, Version
<1>3. CASE ~(o.writes[k].op = "Insert" \/ k \in flags)
  BY <1>3 DEF NewVersions, Version
<1> QED BY Zenon, <1>2, <1>3

\* Reader counts stay numbers, whichever window they are counted in.
LEMMA ReadersType ==
  ASSUME NEW r \in [WindowIndex -> Int], NEW i
  PROVE  /\ [r EXCEPT ![i] = @ + 1] \in [WindowIndex -> Int]
         /\ [r EXCEPT ![i] = @ - 1] \in [WindowIndex -> Int]
<1>1. CASE i \in WindowIndex
  <2>1. r[i] + 1 \in Int /\ r[i] - 1 \in Int
    BY <1>1
  <2> QED BY Zenon, <2>1
<1>2. CASE i \notin WindowIndex
  BY Zenon, <1>2
<1> QED BY Zenon, <1>1, <1>2

\* Windows follow each other without gaps.
LEMMA StartType ==
  ASSUME NEW i \in Nat
  PROVE  Start(i) \in Nat /\ Start(i) >= First /\ Start(i + 1) = Start(i) + WindowSize
<1>1. i * WindowSize \in Nat
  OBVIOUS
<1>2. (i + 1) * WindowSize = i * WindowSize + WindowSize
  OBVIOUS
<1> QED BY <1>1, <1>2 DEF Start

\* Windows begin in the order of their indices.
LEMMA StartMonotone ==
  ASSUME NEW i \in Nat, NEW j \in Nat, i <= j
  PROVE  Start(i) <= Start(j)
<1>1. j - i \in Nat /\ (j - i) * WindowSize \in Nat
  OBVIOUS
<1>2. j * WindowSize = i * WindowSize + (j - i) * WindowSize
  OBVIOUS
<1> QED BY <1>1, <1>2 DEF Start

\* The window of a slot: the slot lies within its bounds.
LEMMA WindowOfType ==
  ASSUME NEW s \in Nat, s >= First
  PROVE  /\ WindowOf(s) \in Nat
         /\ Start(WindowOf(s)) <= s /\ s < Start(WindowOf(s) + 1)
<1> DEFINE d == s - First
<1>1. d \in Nat /\ WindowSize \in Nat /\ WindowSize > 0
  OBVIOUS
<1>2. d \div WindowSize \in Nat
  BY <1>1
<1>3. (d \div WindowSize) * WindowSize <= d /\ d < (d \div WindowSize) * WindowSize + WindowSize
  BY <1>1
<1> QED BY <1>2, <1>3 DEF WindowOf, Start

\* Sequence numbers are numbers.
LEMMA SeqType ==
  ASSUME TypeOK
  PROVE  /\ nextSeq \in Nat /\ nextSeq > 0 /\ watermark \in Nat /\ highest \in Nat
         /\ \A t \in Txn : seq[t] \in Nat
         /\ \A s \in Slot : s \in Nat /\ s >= First /\ s <= MaxSeq
  BY DEF TypeOK, Slot

\* The next number is that of an empty slot.
LEMMA NextSlot ==
  ASSUME Inv1, nextSeq <= MaxSeq
  PROVE  nextSeq \in Slot /\ status[nextSeq] = "Empty"
<1>1. nextSeq \in First..(MaxSeq + 1)
  BY Zenon DEF Inv1, TypeOK
<1>2. nextSeq \in Slot /\ ~(nextSeq < nextSeq)
  BY <1>1 DEF Slot
<1> QED BY Zenon, <1>2 DEF Inv1, RecordKept

\* A new manager (IsolationManager::new) satisfies the first invariant.
LEMMA InitInv1 == Init => Inv1
<1> SUFFICES ASSUME Init PROVE Inv1
    BY Zenon
<1>1. TypeOK
  <2>1. kv \in [Key -> SUBSET Version]
    <3>1. ASSUME NEW v \in Val
          PROVE  {[seq |-> First - 1, op |-> "Insert", val |-> v]} \in SUBSET Version
      BY DEF Version
    <3>2. {} \in SUBSET Version
      BY Zenon
    <3>3. ASSUME NEW k \in Key PROVE kv[k] \in SUBSET Version
      <4>1. kv[k] \in {{}} \cup {{[seq |-> First - 1, op |-> "Insert", val |-> v]} :
                                  v \in IF First = 1 THEN {} ELSE Val}
        BY Zenon DEF Init
      <4>2. kv[k] = {} \/ \E v \in Val : kv[k] = {[seq |-> First - 1, op |-> "Insert", val |-> v]}
        BY Zenon, <4>1
      <4> QED BY Zenon, <3>1, <3>2, <4>2
    <3>4. kv = [k \in Key |-> kv[k]]
      BY Zenon DEF Init
    <3> QED BY Zenon, <3>3, <3>4
  <2>2. ops \in [Txn -> Buffer] /\ log \in [Slot -> Record \cup {NoRecord}]
    BY Zenon DEF Init, Buffer, Write, Lock
  <2>3. status \in [Slot -> {"Empty", "Pending", "Validated", "Applied", "Aborted"}]
        /\ statuses \in [Slot -> {"None", "Committed", "Rejected"}]
        /\ known \in [Txn -> [Slot -> {"None", "Committed", "Rejected"}]]
    BY Zenon DEF Init
  <2>4. nextSeq \in First..(MaxSeq + 1) /\ front \in Nat /\ back \in Nat
        /\ watermark \in (First - 1)..MaxSeq /\ highest \in (First - 1)..MaxSeq
        /\ readers \in [WindowIndex -> Int] /\ acked \in Nat
    BY DEF Init
  <2>5. pc \in [Txn -> PCs] /\ target \in [Txn -> Nat] /\ open \in [Txn -> Nat]
        /\ reinsert \in [Txn -> SUBSET Key] /\ seq \in [Txn -> Slot \cup {0}]
        /\ first \in [Txn -> Nat] /\ at \in [Txn -> Nat] /\ cand \in [Txn -> Nat]
        /\ floor \in [Txn -> Nat]
    BY Zenon DEF Init, PCs
  <2> QED BY Zenon, <2>1, <2>2, <2>3, <2>4, <2>5 DEF TypeOK
<1>2. SeqOwned /\ RecordOwned /\ RecordKept /\ SlotFollows /\ FlagsOfPuts
  BY DEF Init, SeqOwned, RecordOwned, RecordKept, SlotFollows, FlagsOfPuts, Committing,
         Deciding, Unsequenced
<1> QED BY Zenon, <1>1, <1>2 DEF Inv1

\* Opening and closing a snapshot
LEMMA OpenInv1 ==
  ASSUME Inv1, NEW t \in Txn,
         \/ BeginOpen(t) \/ BeginOpenAt(t) \/ OpenSnapshot(t) \/ RecordReader(t)
         \/ CloseRead(t) \/ DropUnclosed(t) \/ Close(t) \/ FreeAfterClose(t)
  PROVE  Inv1'
<1> USE DEF logVars, windowVars, markVars, commitVars, validateVars, openVars, Goto
<1>1. TypeOK'
  <2>1. CASE BeginOpen(t)
    BY <2>1 DEF Inv1, TypeOK, PCs, BeginOpen
  <2>2. CASE BeginOpenAt(t)
    BY Zenon, <2>2 DEF Inv1, TypeOK, PCs, BeginOpenAt
  <2>3. CASE OpenSnapshot(t)
    <3>1. watermark \in Nat
      BY DEF Inv1, TypeOK
    <3>2. open' \in [Txn -> Nat]
      BY Zenon, <2>3, <3>1 DEF Inv1, TypeOK, OpenSnapshot
    <3> QED BY Zenon, <2>3, <3>2 DEF Inv1, TypeOK, PCs, OpenSnapshot
  <2>4. CASE RecordReader(t)
    <3>1. readers' \in [WindowIndex -> Int]
      BY Zenon, <2>4, ReadersType DEF Inv1, TypeOK, RecordReader
    <3> QED BY Zenon, <2>4, <3>1 DEF Inv1, TypeOK, PCs, RecordReader
  <2>5. CASE CloseRead(t) \/ DropUnclosed(t)
    BY ZenonT(40), <2>5 DEF Inv1, TypeOK, PCs, CloseRead, DropUnclosed
  <2>6. CASE Close(t)
    <3>1. readers' \in [WindowIndex -> Int]
      BY <2>6, ReadersType DEF Inv1, TypeOK, Close, RemoveReader
    <3> QED BY ZenonT(40), <2>6, <3>1 DEF Inv1, TypeOK, PCs, Close, RemoveReader
  <2>7. CASE FreeAfterClose(t)
    BY <2>7 DEF Inv1, TypeOK, PCs, FreeAfterClose, FreeWindows
  <2> QED BY Zenon, <2>1, <2>2, <2>3, <2>4, <2>5, <2>6, <2>7
<1>2. PICK label \in Unsequenced : pc[t] \in Unsequenced /\ pc' = [pc EXCEPT ![t] = label]
  BY Zenon DEF BeginOpen, BeginOpenAt, OpenSnapshot, RecordReader, CloseRead, DropUnclosed, Close,
         RemoveReader, FreeAfterClose, Unsequenced
<1>3. /\ UNCHANGED <<nextSeq, log, status, ops, reinsert, seq>>
      /\ \A u \in Txn \ {t} : open'[u] = open[u]
  BY Zenon DEF Inv1, TypeOK, BeginOpen, BeginOpenAt, OpenSnapshot, RecordReader, CloseRead,
         DropUnclosed, Close, FreeAfterClose
<1>4. SeqOwned' /\ RecordOwned' /\ RecordKept' /\ SlotFollows' /\ FlagsOfPuts'
  BY <1>2, <1>3 DEF Inv1, TypeOK, SeqOwned, RecordOwned, RecordKept, SlotFollows,
         FlagsOfPuts, Committing, Deciding, Unsequenced, Puts
<1> QED BY Zenon, <1>1, <1>4 DEF Inv1

\* set_initial_put_status, and the sequence number
LEMMA SequenceInv1 ==
  ASSUME Inv1, NEW t \in Txn,
         BeginCommit(t) \/ SequencedWrite(t) \/ FailSequencedWrite(t)
  PROVE  Inv1'
<1> USE DEF logVars, windowVars, markVars, commitVars, validateVars, openVars, Goto
<1>1. CASE BeginCommit(t)
  <2>1. PICK o \in Ops : /\ ops' = [ops EXCEPT ![t] = o]
                         /\ reinsert' = [reinsert EXCEPT ![t] = InitialReinsert(o, open[t])]
    BY Zenon, <1>1 DEF BeginCommit
  <2>2. o \in Buffer /\ InitialReinsert(o, open[t]) \subseteq Puts(o) /\ Puts(o) \subseteq Key
    BY Zenon DEF InitialReinsert, StalePuts, Puts
  <2>3. ops' \in [Txn -> Buffer] /\ reinsert' \in [Txn -> SUBSET Key]
    BY Zenon, <2>1, <2>2 DEF Inv1, TypeOK
  <2>4. TypeOK'
    BY Zenon, <1>1, <2>3 DEF BeginCommit, Inv1, TypeOK, PCs
  <2>5. FlagsOfPuts'
    BY Zenon, <2>1, <2>2 DEF Inv1, TypeOK, FlagsOfPuts
  <2>6. SeqOwned' /\ RecordOwned' /\ RecordKept' /\ SlotFollows'
    BY <1>1, <2>1 DEF BeginCommit, Inv1, TypeOK, SeqOwned, RecordOwned, RecordKept, SlotFollows,
           Committing, Deciding, Unsequenced
  <2> QED BY Zenon, <2>4, <2>5, <2>6 DEF Inv1
<1>2. CASE SequencedWrite(t)
  <2>1. nextSeq \in Slot /\ nextSeq # 0 /\ nextSeq' = nextSeq + 1 /\ seq' = [seq EXCEPT ![t] = nextSeq]
    BY <1>2 DEF SequencedWrite, Inv1, TypeOK, Slot
  <2>2. log' = [log EXCEPT ![nextSeq] = [open |-> open[t], ops |-> ops[t]]]
    BY Zenon, <1>2 DEF SequencedWrite
  <2>3. [open |-> open[t], ops |-> ops[t]] \in Record
        /\ [open |-> open[t], ops |-> ops[t]] # NoRecord
    BY Zenon DEF Record, NoRecord, Inv1, TypeOK
  <2>4. TypeOK'
    <3>1. log' \in [Slot -> Record \cup {NoRecord}]
      BY Zenon, <2>2, <2>3 DEF Inv1, TypeOK
    <3>2. nextSeq' \in First..(MaxSeq + 1) /\ seq' \in [Txn -> Slot \cup {0}]
      BY <1>2, <2>1 DEF SequencedWrite, Inv1, TypeOK
    <3> QED BY Zenon, <1>2, <3>1, <3>2 DEF SequencedWrite, Inv1, TypeOK, PCs
  <2>5. status[nextSeq] = "Empty"
    BY <2>1, SeqType DEF Inv1, RecordKept, TypeOK
  <2>6. SeqOwned'
    BY <1>2, <2>1, SeqType DEF SequencedWrite, Inv1, TypeOK, SeqOwned, Committing, Deciding, Unsequenced
  <2>7. RecordOwned'
    BY SMTT(40), <1>2, <2>1, <2>2 DEF SequencedWrite, Inv1, TypeOK, SeqOwned, RecordOwned, Slot,
                            Committing, Deciding
  <2>8. RecordKept' /\ SlotFollows' /\ FlagsOfPuts'
    BY <1>2, <2>1, <2>2, <2>3, <2>5
       DEF SequencedWrite, Inv1, TypeOK, SeqOwned, RecordKept, SlotFollows, FlagsOfPuts, Deciding, Puts, Slot
  <2> QED BY Zenon, <2>4, <2>6, <2>7, <2>8 DEF Inv1
<1>3. CASE FailSequencedWrite(t)
  <2>1. TypeOK'
    BY <1>3 DEF FailSequencedWrite, Inv1, TypeOK, PCs
  <2>2. SeqOwned' /\ RecordKept'
    BY SMTT(40), <1>3, SeqType DEF FailSequencedWrite, Inv1, TypeOK, SeqOwned, RecordKept, Committing,
                         Deciding, Unsequenced
  <2>3. RecordOwned' /\ SlotFollows' /\ FlagsOfPuts'
    BY <1>3 DEF FailSequencedWrite, Inv1, TypeOK, RecordOwned, SlotFollows,
           FlagsOfPuts, Puts, Committing, Deciding
  <2> QED BY Zenon, <2>1, <2>2, <2>3 DEF Inv1
<1> QED BY Zenon, <1>1, <1>2, <1>3

\* The thread of t moves its slot on, and its program counter with it
LEMMA SlotInv1 ==
  ASSUME Inv1, NEW t \in Txn,
         \/ InsertPending(t) \/ SetValidated(t) \/ SetAborted(t) \/ SetApplied(t)
  PROVE  Inv1'
<1> USE DEF logVars, windowVars, markVars, commitVars, validateVars, openVars, Goto
<1>1. pc[t] \in Committing /\ seq[t] \in Slot
  BY Zenon DEF InsertPending, SetValidated, SetAborted, SetApplied, Committing, Deciding, Inv1,
         TypeOK, SeqOwned
<1>2. TypeOK'
  <2>1. CASE InsertPending(t)
    <3>1. back' \in Nat
      <4>1. WindowOf(seq[t]) \in Nat
        BY Zenon, <1>1, SeqType, WindowOfType DEF Inv1
      <4> QED BY <2>1, <4>1 DEF InsertPending, Inv1, TypeOK
    <3> QED BY Zenon, <1>1, <2>1, <3>1 DEF InsertPending, Inv1, TypeOK, PCs
  <2>2. CASE SetValidated(t)
    BY Zenon, <1>1, <2>2 DEF SetValidated, Inv1, TypeOK, PCs
  <2>3. CASE SetAborted(t) \/ SetApplied(t)
    <3>1. seq[t] \in Nat
      BY <1>1 DEF Slot
    <3> QED BY ZenonT(40), <1>1, <2>3, <3>1 DEF SetAborted, SetApplied, Inv1, TypeOK, PCs
  <2> QED BY Zenon, <2>1, <2>2, <2>3
<1>3. UNCHANGED <<nextSeq, log, open, ops, reinsert, seq>>
  BY Zenon DEF InsertPending, SetValidated, SetAborted, SetApplied
<1>4. /\ \A s \in Slot \ {seq[t]} : status'[s] = status[s]
      /\ \A u \in Txn \ {t} : pc'[u] = pc[u]
      /\ \A u \in Txn \ {t} : pc[u] \in Committing => seq[u] \in Slot \ {seq[t]}
  BY <1>1 DEF InsertPending, SetValidated, SetAborted, SetApplied, Inv1, TypeOK, SeqOwned
<1>5. \/ pc'[t] = "collecting" /\ status'[seq[t]] = "Pending"
      \/ pc'[t] = "validated" /\ status'[seq[t]] = "Validated"
      \/ pc'[t] = "advancing" /\ status'[seq[t]] \in {"Applied", "Aborted"}
  BY ZenonT(40), <1>1 DEF InsertPending, SetValidated, SetAborted, SetApplied, Inv1, TypeOK
<1>6. SlotFollows'
  BY SMTT(40), <1>3, <1>4, <1>5 DEF Inv1, SlotFollows, Committing, Deciding
<1>7. SeqOwned' /\ RecordOwned'
  BY <1>1, <1>3, <1>4, <1>5 DEF Inv1, SeqOwned, RecordOwned, Committing, Deciding, Unsequenced
<1>8. RecordKept'
  <2>1. seq[t] < nextSeq /\ log[seq[t]] # NoRecord
    <3>1. log[seq[t]] = [open |-> open[t], ops |-> ops[t]]
      BY Zenon, <1>1 DEF Inv1, RecordOwned
    <3>2. [open |-> open[t], ops |-> ops[t]] # NoRecord
      BY Zenon DEF NoRecord
    <3> QED BY Zenon, <3>1, <3>2 DEF Inv1, SeqOwned
  <2> QED BY Zenon, <1>3, <1>4, <2>1 DEF Inv1, RecordKept
<1>9. FlagsOfPuts'
  BY Zenon, <1>3 DEF Inv1, FlagsOfPuts, Puts
<1> QED BY Zenon, <1>2, <1>6, <1>7, <1>8, <1>9 DEF Inv1

\* The thread of t moves on without touching the log or its slot.
LEMMA MoveInv1 ==
  ASSUME Inv1, TypeOK', FlagsOfPuts', NEW t \in Txn, NEW label,
         pc[t] \in Committing, label \notin Unsequenced, pc' = [pc EXCEPT ![t] = label],
         UNCHANGED <<nextSeq, log, status, open, ops, seq>>,
         label # "sequenced",
         label \in Deciding => status[seq[t]] = "Pending",
         label \in {"validated", "writing", "applying"} => status[seq[t]] = "Validated",
         label \in {"unregistering", "freeing"} => status[seq[t]] \in {"Validated", "Aborted"},
         label \in {"advancing", "advanced", "persisting"} =>
              status[seq[t]] \in {"Applied", "Aborted"}
  PROVE  Inv1'
<1>1. SeqOwned' /\ RecordOwned' /\ RecordKept'
  BY DEF Inv1, TypeOK, SeqOwned, RecordOwned, RecordKept
<1>2. SlotFollows'
  BY ZenonT(40) DEF Inv1, TypeOK, SlotFollows
<1> QED BY ZenonT(40), <1>1, <1>2 DEF Inv1

\* The decision of a commit
LEMMA DecideInv1 ==
  ASSUME Inv1, NEW t \in Txn,
         CollectWindows(t) \/ ReadStatuses(t) \/ ValidateOnDisk(t) \/ ValidateInWindows(t)
  PROVE  Inv1'
<1> USE DEF logVars, windowVars, markVars, commitVars, validateVars, openVars, Goto
<1>1. pc[t] \in Deciding /\ status[seq[t]] = "Pending"
      /\ UNCHANGED <<nextSeq, log, status, open, ops, seq>>
  BY Zenon DEF CollectWindows, ReadStatuses, ValidateOnDisk, ValidateInWindows, Deciding, Inv1,
         SlotFollows
<1>2. \E label \in Deciding \cup {"panicked"} : pc' = [pc EXCEPT ![t] = label]
  BY DEF CollectWindows, ReadStatuses, ValidateOnDisk, ValidateInWindows, Deciding, Inv1, TypeOK
<1>3. \A o, p : Reinserts(o, p, reinsert[t]) \subseteq reinsert[t] \cup Puts(o)
  BY Zenon DEF Reinserts, DependentPuts
<1>4. \/ reinsert' = reinsert
      \/ \E p : reinsert' = [reinsert EXCEPT ![t] = Reinserts(ops[t], p, reinsert[t])]
  BY DEF CollectWindows, ReadStatuses, ValidateOnDisk, ValidateInWindows, Inv1, TypeOK
<1>5. FlagsOfPuts' /\ reinsert' \in [Txn -> SUBSET Key]
  <2>1. CASE reinsert' = reinsert
    BY Zenon, <1>1, <2>1 DEF Inv1, TypeOK, FlagsOfPuts, Puts
  <2>2. ASSUME NEW p, reinsert' = [reinsert EXCEPT ![t] = Reinserts(ops[t], p, reinsert[t])]
        PROVE  FlagsOfPuts' /\ reinsert' \in [Txn -> SUBSET Key]
    <3>1. Puts(ops[t]) \subseteq Key /\ reinsert[t] \subseteq Puts(ops[t])
      BY Zenon DEF Puts, Inv1, FlagsOfPuts
    <3>2. Reinserts(ops[t], p, reinsert[t]) \subseteq Puts(ops[t])
      BY Zenon, <1>3, <3>1
    <3>3. reinsert' \in [Txn -> SUBSET Key]
      BY Zenon, <2>2, <3>1, <3>2 DEF Inv1, TypeOK
    <3>4. \A u \in Txn : reinsert'[u] \subseteq Puts(ops[u])
      BY Zenon, <2>2, <3>2 DEF Inv1, TypeOK, FlagsOfPuts
    <3>5. \A u \in Txn : Puts(ops[u])' = Puts(ops[u])
      BY Zenon, <1>1 DEF Puts
    <3> QED BY Zenon, <3>3, <3>4, <3>5 DEF FlagsOfPuts
  <2> QED BY Zenon, <1>4, <2>1, <2>2
<1>6. TypeOK'
  <2>1. pc' \in [Txn -> PCs]
    BY Zenon, <1>2 DEF Inv1, TypeOK, Deciding, PCs
  <2>2. at[t] \in Nat /\ open[t] + 1 \in Nat /\ first[t] \in Nat /\ Start(front) \in Nat
    BY StartType DEF Inv1, TypeOK
  <2>3. CASE CollectWindows(t)
    <3>1. Held(open[t] + 1) => Start(WindowOf(open[t] + 1)) \in Nat
      <4> SUFFICES ASSUME Held(open[t] + 1) PROVE Start(WindowOf(open[t] + 1)) \in Nat
        BY Zenon
      <4>1. open[t] + 1 >= First
        BY <2>2, StartType DEF Held, Inv1, TypeOK
      <4> QED BY Zenon, <2>2, <4>1, WindowOfType, StartType
    <3> QED BY Zenon, <1>5, <2>1, <2>2, <2>3, <3>1 DEF CollectWindows, Inv1, TypeOK
  <2>4. CASE ReadStatuses(t)
    BY <1>5, <2>1, <2>2, <2>4 DEF ReadStatuses, Inv1, TypeOK
  <2>5. CASE ValidateOnDisk(t) \/ ValidateInWindows(t)
    <3>1. at' \in [Txn -> Nat]
      BY <2>2, <2>5 DEF ValidateOnDisk, ValidateInWindows, Inv1, TypeOK
    <3> QED BY Zenon, <1>5, <2>1, <2>5, <3>1 DEF ValidateOnDisk, ValidateInWindows, Inv1, TypeOK
  <2> QED BY Zenon, <2>3, <2>4, <2>5
<1> QED BY Zenon, <1>1, <1>2, <1>5, <1>6, MoveInv1 DEF Committing, Deciding, Unsequenced

\* What follows the decision
LEMMA FinishInv1 ==
  ASSUME Inv1, NEW t \in Txn,
         \/ RaiseHighest(t) \/ Unregister(t) \/ FreeAfterUnregister(t)
         \/ WriteKeyspaces(t) \/ IncrementWatermark(t) \/ EndIncrement(t)
         \/ FreeAfterAdvance(t) \/ PersistStatus(t) \/ FailLog(t) \/ FailKeyspaces(t)
  PROVE  Inv1'
<1> USE DEF logVars, windowVars, markVars, commitVars, validateVars, openVars, Goto
<1>1. pc[t] \in Committing /\ UNCHANGED <<nextSeq, log, status, open, ops, seq, reinsert>>
  BY Zenon DEF RaiseHighest, Unregister, FreeAfterUnregister, WriteKeyspaces, IncrementWatermark,
         EndIncrement, FreeAfterAdvance, PersistStatus, FailLog, FailKeyspaces, Committing,
         Deciding
<1>2. FlagsOfPuts'
  BY Zenon, <1>1 DEF Inv1, FlagsOfPuts, Puts
<1>3. seq[t] \in Slot
  BY Zenon, <1>1 DEF Inv1, TypeOK, SeqOwned
<1>4. CASE RaiseHighest(t)
  <2>1. TypeOK'
    BY <1>3, <1>4, SeqType DEF RaiseHighest, Inv1, TypeOK, PCs
  <2> QED BY Zenon, <1>1, <1>2, <1>4, <2>1, MoveInv1
          DEF RaiseHighest, Inv1, SlotFollows, Deciding, Unsequenced
<1>5. CASE Unregister(t) \/ FreeAfterUnregister(t)
  <2>1. readers' \in [WindowIndex -> Int] /\ front' \in Nat
    BY <1>5, ReadersType DEF Unregister, RemoveReader, FreeAfterUnregister, FreeWindows, Inv1, TypeOK
  <2>2. PICK label \in {"freeing", AfterUnregister(t)} : pc' = [pc EXCEPT ![t] = label]
    BY Zenon, <1>5 DEF Unregister, RemoveReader, FreeAfterUnregister
  <2>3. status[seq[t]] \in {"Validated", "Aborted"}
    BY Zenon, <1>5 DEF Unregister, FreeAfterUnregister, Inv1, SlotFollows
  <2>4. TypeOK'
    <3>1. pc' \in [Txn -> PCs]
      BY Zenon, <2>2 DEF Inv1, TypeOK, PCs, AfterUnregister
    <3> QED BY Zenon, <1>5, <2>1, <3>1 DEF Unregister, FreeAfterUnregister, Inv1, TypeOK
  <2> QED BY ZenonT(40), <1>1, <1>2, <2>2, <2>3, <2>4, MoveInv1 DEF AfterUnregister, Deciding, Unsequenced
<1>6. CASE WriteKeyspaces(t) \/ FailKeyspaces(t)
  <2>1. PICK K \in SUBSET Key :
          kv' = [k \in Key |-> IF k \in K
                               THEN kv[k] \cup NewVersions(k, seq[t], ops[t], reinsert[t])
                               ELSE kv[k]]
    <3>1. CASE WriteKeyspaces(t)
      BY Zenon, <3>1 DEF WriteKeyspaces
    <3>2. CASE FailKeyspaces(t)
      BY Zenon, <3>2 DEF FailKeyspaces
    <3> QED BY Zenon, <1>6, <3>1, <3>2
  <2>2. \A k \in Key : NewVersions(k, seq[t], ops[t], reinsert[t]) \subseteq Version
    BY Zenon, NewVersionsType, SeqType DEF Inv1, TypeOK, FlagsOfPuts
  <2>3. kv' \in [Key -> SUBSET Version]
    BY Zenon, <2>1, <2>2 DEF Inv1, TypeOK
  <2>4. PICK label \in {"applying", "failed"} : pc' = [pc EXCEPT ![t] = label]
    BY Zenon, <1>6 DEF WriteKeyspaces, FailKeyspaces
  <2>5. TypeOK'
    <3>1. pc' \in [Txn -> PCs]
      BY Zenon, <2>4 DEF Inv1, TypeOK, PCs
    <3> QED BY Zenon, <1>6, <2>3, <3>1 DEF WriteKeyspaces, FailKeyspaces, Inv1, TypeOK
  <2>6. status[seq[t]] = "Validated"
    BY Zenon, <1>6 DEF WriteKeyspaces, FailKeyspaces, Inv1, SlotFollows
  <2> QED BY Zenon, <1>1, <1>2, <2>4, <2>5, <2>6, MoveInv1 DEF Deciding, Unsequenced
<1>7. CASE IncrementWatermark(t) \/ EndIncrement(t) \/ FreeAfterAdvance(t)
  <2>1. PICK label \in {"advancing", "advanced", AfterAdvance(t)} : pc' = [pc EXCEPT ![t] = label]
    BY <1>7 DEF IncrementWatermark, EndIncrement, FreeAfterAdvance, Inv1, TypeOK
  <2>2. status[seq[t]] \in {"Applied", "Aborted"}
    BY ZenonT(40), <1>7 DEF IncrementWatermark, EndIncrement, FreeAfterAdvance, Inv1, SlotFollows
  <2>3. front' \in Nat
    BY <1>7 DEF IncrementWatermark, EndIncrement, FreeAfterAdvance, FreeWindows, Inv1, TypeOK
  <2>4. watermark' \in (First - 1)..MaxSeq /\ cand' \in [Txn -> Nat]
    <3>1. CASE IncrementWatermark(t)
      <4>1. cand[t] \in Slot
        BY Zenon, <3>1 DEF IncrementWatermark, CanAdvanceTo
      <4>2. cand[t] + 1 \in Nat
        BY <4>1 DEF Slot
      <4> QED BY <3>1, <4>1, <4>2 DEF IncrementWatermark, Slot, Inv1, TypeOK
    <3>2. CASE EndIncrement(t) \/ FreeAfterAdvance(t)
      BY Zenon, <3>2 DEF EndIncrement, FreeAfterAdvance, Inv1, TypeOK
    <3> QED BY Zenon, <1>7, <3>1, <3>2
  <2>5. TypeOK'
    <3>1. pc' \in [Txn -> PCs]
      BY Zenon, <2>1 DEF Inv1, TypeOK, PCs, AfterAdvance
    <3> QED BY Zenon, <1>7, <2>3, <2>4, <3>1
            DEF IncrementWatermark, EndIncrement, FreeAfterAdvance, Inv1, TypeOK
  <2> QED BY Zenon, <1>1, <1>2, <2>1, <2>2, <2>5, MoveInv1 DEF AfterAdvance, Deciding, Unsequenced
<1>8. CASE PersistStatus(t) \/ FailLog(t)
  <2>1. PICK label \in {"returned", "failed"} : pc' = [pc EXCEPT ![t] = label]
    BY Zenon, <1>8 DEF PersistStatus, FailLog
  <2>2. statuses' \in [Slot -> {"None", "Committed", "Rejected"}] /\ acked' \in Nat
    BY ZenonT(40), <1>3, <1>8, SeqType DEF PersistStatus, FailLog, Inv1, TypeOK
  <2>3. TypeOK'
    <3>1. pc' \in [Txn -> PCs]
      BY ZenonT(40), <2>1 DEF Inv1, TypeOK, PCs
    <3> QED BY Zenon, <1>8, <2>2, <3>1 DEF PersistStatus, FailLog, Inv1, TypeOK
  <2> QED BY Zenon, <1>1, <1>2, <2>1, <2>3, MoveInv1 DEF Deciding, Unsequenced
<1> QED BY Zenon, <1>4, <1>5, <1>6, <1>7, <1>8

\* A stuttering step keeps the first invariant.
LEMMA UnchangedInv1 == Inv1 /\ UNCHANGED vars => Inv1'
  BY DEF vars, Inv1, TypeOK, SeqOwned, RecordOwned, RecordKept, SlotFollows, FlagsOfPuts, Puts

\* Every step preserves the first layer.
LEMMA NextInv1 == Inv1 /\ [Next]_vars => Inv1'
<1> SUFFICES ASSUME Inv1, [Next]_vars PROVE Inv1'
    BY Zenon
<1>1. ASSUME NEW t \in Txn, Client(t) PROVE Inv1'
  BY Zenon, <1>1, OpenInv1, SequenceInv1 DEF Client
<1>2. ASSUME NEW t \in Txn, Step(t) PROVE Inv1'
  BY Zenon, <1>2, OpenInv1, SequenceInv1, SlotInv1, DecideInv1, FinishInv1 DEF Step
<1>3. ASSUME NEW t \in Txn, Failure(t) PROVE Inv1'
  BY Zenon, <1>3, SequenceInv1, FinishInv1 DEF Failure
<1> QED BY Zenon, <1>1, <1>2, <1>3, UnchangedInv1 DEF Next, Finished

\* The durability client, the timeline and every thread's locals keep their types.
THEOREM TypeCorrect == Spec => []TypeOK
<1>1. Inv1 => TypeOK
  BY Zenon DEF Inv1
<1> QED BY <1>1, InitInv1, NextInv1, PTL DEF Spec

-----------------------------------------------------------------------------
(* What a step may do to the slots.                                          *)

\* A step that leaves the slots alone
SlotsKept(t) ==
    \/ BeginOpen(t) \/ BeginOpenAt(t) \/ OpenSnapshot(t) \/ RecordReader(t)
    \/ CloseRead(t) \/ DropUnclosed(t) \/ Close(t) \/ FreeAfterClose(t)
    \/ BeginCommit(t) \/ SequencedWrite(t) \/ FailSequencedWrite(t)
    \/ CollectWindows(t) \/ ReadStatuses(t) \/ ValidateOnDisk(t) \/ ValidateInWindows(t)
    \/ RaiseHighest(t) \/ Unregister(t) \/ FreeAfterUnregister(t)
    \/ WriteKeyspaces(t) \/ IncrementWatermark(t) \/ EndIncrement(t)
    \/ FreeAfterAdvance(t) \/ PersistStatus(t) \/ FailLog(t) \/ FailKeyspaces(t)

\* A slot goes from Empty to Pending, and from there to Aborted, or to Validated
\* and Applied; records are written once, before their slot is filled.
LEMMA SlotStep ==
  ASSUME Inv1, [Next]_vars
  PROVE  /\ \A s \in Slot :
              \/ status'[s] = status[s]
              \/ status[s] = "Empty" /\ status'[s] = "Pending"
              \/ status[s] = "Pending" /\ status'[s] \in {"Validated", "Aborted"}
              \/ status[s] = "Validated" /\ status'[s] = "Applied"
         /\ \A s \in Slot : log'[s] = log[s] \/ status[s] = "Empty"
<1> USE DEF logVars, commitVars, Goto
<1>1. ASSUME NEW t \in Txn, SlotsKept(t) PROVE status' = status
  BY Zenon, <1>1 DEF SlotsKept, BeginOpen, BeginOpenAt, OpenSnapshot, RecordReader, CloseRead,
       DropUnclosed, Close, FreeAfterClose, BeginCommit, SequencedWrite, FailSequencedWrite,
       CollectWindows, ReadStatuses, ValidateOnDisk, ValidateInWindows, RaiseHighest, Unregister,
       FreeAfterUnregister, WriteKeyspaces, IncrementWatermark, EndIncrement, FreeAfterAdvance,
       PersistStatus, FailLog, FailKeyspaces
<1>2. ASSUME NEW t \in Txn, SlotsKept(t), ~SequencedWrite(t) PROVE log' = log
  BY Zenon, <1>2 DEF SlotsKept, BeginOpen, BeginOpenAt, OpenSnapshot, RecordReader, CloseRead,
       DropUnclosed, Close, FreeAfterClose, BeginCommit, FailSequencedWrite,
       CollectWindows, ReadStatuses, ValidateOnDisk, ValidateInWindows, RaiseHighest, Unregister,
       FreeAfterUnregister, WriteKeyspaces, IncrementWatermark, EndIncrement, FreeAfterAdvance,
       PersistStatus, FailLog, FailKeyspaces
<1>3. ASSUME NEW t \in Txn, SequencedWrite(t)
      PROVE  \A s \in Slot : log'[s] = log[s] \/ status[s] = "Empty"
  <2>1. \A s \in Slot : s # nextSeq => log'[s] = log[s]
    BY Zenon, <1>3 DEF SequencedWrite, Inv1, TypeOK
  <2>2. nextSeq \in Slot => status[nextSeq] = "Empty"
    BY SeqType DEF Inv1, RecordKept
  <2> QED BY Zenon, <2>1, <2>2
<1>4. ASSUME NEW t \in Txn,
             InsertPending(t) \/ SetValidated(t) \/ SetAborted(t) \/ SetApplied(t)
      PROVE  /\ log' = log
             /\ \A s \in Slot \ {seq[t]} : status'[s] = status[s]
             /\ \/ status[seq[t]] = "Empty" /\ status'[seq[t]] = "Pending"
                \/ status[seq[t]] = "Pending" /\ status'[seq[t]] \in {"Validated", "Aborted"}
                \/ status[seq[t]] = "Validated" /\ status'[seq[t]] = "Applied"
  <2>1. seq[t] \in Slot
    BY Zenon, <1>4 DEF InsertPending, SetValidated, SetAborted, SetApplied, Committing, Deciding,
                Inv1, TypeOK, SeqOwned
  <2> QED BY ZenonT(40), <1>4, <2>1 DEF InsertPending, SetValidated, SetAborted, SetApplied, Deciding,
                            Inv1, TypeOK, SlotFollows
<1>5. ASSUME UNCHANGED vars PROVE status' = status /\ log' = log
  BY Zenon, <1>5 DEF vars
<1>6. \/ \E t \in Txn : SlotsKept(t)
      \/ \E t \in Txn : InsertPending(t) \/ SetValidated(t) \/ SetAborted(t) \/ SetApplied(t)
      \/ UNCHANGED vars
  BY Zenon DEF Next, Finished, Client, Step, Failure, SlotsKept
<1> QED BY Zenon, <1>1, <1>2, <1>3, <1>4, <1>5, <1>6

-----------------------------------------------------------------------------
(* Layer 2: the windows and the watermark.                                   *)

\* Windows are freed behind the watermark only, so that one is always left.
WindowsKept ==
    /\ front < back
    /\ front = 0 \/ Start(front) <= watermark
    /\ watermark < Start(back)

Inv2 == WindowsKept /\ WatermarkSettled /\ RunningCommitsHeld /\ NoStrandedSlot

\* A new manager satisfies the second invariant.
LEMMA InitInv2 == Init => Inv2
<1> SUFFICES ASSUME Init PROVE Inv2
    BY Zenon
<1>1. Start(1) = First + WindowSize
  BY StartType DEF Start
<1>2. WindowsKept
  BY <1>1 DEF Init, WindowsKept
<1>3. WatermarkSettled /\ RunningCommitsHeld /\ NoStrandedSlot
  BY <1>2 DEF Init, WindowsKept, WatermarkSettled, RunningCommitsHeld, NoStrandedSlot, Slot, Settled
<1> QED BY Zenon, <1>2, <1>3 DEF Inv2

\* A step of a thread that is not in may_increment_watermark and leaves the
\* windows, the slots and the watermark alone.
LEMMA QuietInv2 ==
  ASSUME Inv2, NEW t \in Txn, pc[t] # "advancing", \A u \in Txn \ {t} : pc'[u] = pc[u],
         UNCHANGED <<status, front, back, watermark, cand>>
  PROVE  Inv2'
<1>1. WindowsKept' /\ WatermarkSettled' /\ RunningCommitsHeld'
  BY Zenon DEF Inv2, WindowsKept, WatermarkSettled, RunningCommitsHeld, Settled, Held, Start
<1>2. NoStrandedSlot'
  BY Zenon DEF Inv2, NoStrandedSlot, Settled
<1> QED BY Zenon, <1>1, <1>2 DEF Inv2

\* may_free_windows
LEMMA FreeInv2 ==
  ASSUME TypeOK, Inv2, NEW t \in Txn, pc[t] # "advancing", \A u \in Txn \ {t} : pc'[u] = pc[u],
         FreeWindows, UNCHANGED <<status, back, watermark, cand>>
  PROVE  Inv2'
<1>1. PICK w \in (First - 1)..watermark, i \in front..back :
        (\A j \in front..(i - 1) : Freeable(j, w)) /\ front' = i
  BY Zenon DEF FreeWindows
<1>2. i \in Nat /\ front \in Nat /\ back \in Nat /\ watermark \in Nat /\ w \in Nat /\ w <= watermark
  BY SeqType DEF TypeOK
<1>3. i > front => i - 1 \in Nat /\ Freeable(i - 1, w) /\ Start(i) \in Nat
  BY <1>1, <1>2, StartType
<1>4. i = 0 \/ Start(i) <= watermark
  BY <1>2, <1>3 DEF Inv2, WindowsKept, Freeable
<1>5. i < back
  <2>1. i # back
    <3> SUFFICES ASSUME i = back PROVE FALSE
      BY Zenon
    <3>1. Start(back) \in Nat /\ back # 0
      BY <1>2, StartType DEF Inv2, WindowsKept
    <3> QED BY <1>2, <1>4, <3>1 DEF Inv2, WindowsKept
  <2> QED BY <1>1, <1>2, <2>1
<1>6. WindowsKept'
  BY Zenon, <1>1, <1>4, <1>5 DEF Inv2, WindowsKept, Start
<1>7. RunningCommitsHeld'
  <2> SUFFICES ASSUME NEW s \in Slot, s > watermark, status[s] # "Empty"
               PROVE  Start(i) <= s /\ s < Start(back)
    BY Zenon, <1>1, <1>5 DEF RunningCommitsHeld, Held, Start
  <2>1. Held(s)
    BY Zenon DEF Inv2, RunningCommitsHeld
  <2>2. Start(i) <= s
    BY <1>2, <1>4, SeqType, StartType DEF Start
  <2> QED BY Zenon, <2>1, <2>2 DEF Held
<1>8. WatermarkSettled' /\ NoStrandedSlot'
  BY Zenon DEF Inv2, WatermarkSettled, NoStrandedSlot, Settled
<1> QED BY Zenon, <1>6, <1>7, <1>8 DEF Inv2

\* get_or_create_window and insert_pending
LEMMA InsertInv2 ==
  ASSUME Inv1, Inv2, NEW t \in Txn, InsertPending(t)
  PROVE  Inv2'
<1> USE DEF logVars, markVars, Goto
<1>0. TypeOK /\ seq[t] \in Slot /\ status[seq[t]] = "Empty"
  BY Zenon DEF InsertPending, Inv1, SlotFollows, SeqOwned, Committing, TypeOK
<1>1. seq[t] \in Nat /\ seq[t] >= First /\ back \in Nat /\ front \in Nat /\ watermark \in Nat
  BY Zenon, <1>0, SeqType DEF TypeOK
<1>2. seq[t] > watermark
  BY <1>0, <1>1 DEF Inv2, WatermarkSettled, Settled
<1>3. UNCHANGED <<front, watermark, cand>> /\ \A u \in Txn \ {t} : pc'[u] = pc[u]
  BY Zenon, <1>0 DEF InsertPending, TypeOK
<1>4. back' \in Nat /\ back <= back' /\ seq[t] < Start(back')
  <2>1. CASE seq[t] < Start(back)
    BY <1>1, <2>1 DEF InsertPending
  <2>2. CASE ~(seq[t] < Start(back))
    <3>1. back' = WindowOf(seq[t]) + 1
      BY Zenon, <2>2 DEF InsertPending
    <3>2. WindowOf(seq[t]) \in Nat /\ seq[t] < Start(WindowOf(seq[t]) + 1)
      BY Zenon, <1>1, WindowOfType
    <3>3. back' \in Nat /\ seq[t] < Start(back')
      BY <3>1, <3>2
    <3>4. ~(back' <= back)
      <4> SUFFICES ASSUME back' <= back PROVE FALSE
        BY Zenon
      <4>1. Start(back') <= Start(back) /\ Start(back') \in Nat /\ Start(back) \in Nat
        BY Zenon, <1>1, <3>3, StartMonotone, StartType
      <4> QED BY <1>1, <2>2, <3>3, <4>1
    <3> QED BY <1>1, <3>3, <3>4
  <2> QED BY Zenon, <2>1, <2>2
<1>5. Start(back) <= Start(back') /\ Start(back) \in Nat /\ Start(back') \in Nat
      /\ Start(front) \in Nat
  BY Zenon, <1>1, <1>4, StartMonotone, StartType
<1>6. WindowsKept'
  <2>1. front < back' /\ watermark < Start(back')
    BY <1>1, <1>4, <1>5 DEF Inv2, WindowsKept
  <2>2. front = 0 \/ Start(front) <= watermark
    BY Zenon DEF Inv2, WindowsKept
  <2> QED BY Zenon, <1>3, <2>1, <2>2 DEF WindowsKept, Start
<1>7. Start(front) <= seq[t]
  BY <1>1, <1>2, <1>5 DEF Inv2, WindowsKept, Start
<1>8. RunningCommitsHeld'
  <2>1. ASSUME NEW s \in Slot, s > watermark, status'[s] # "Empty"
        PROVE  Start(front) <= s /\ s < Start(back')
    <3>1. CASE s = seq[t]
      BY Zenon, <1>4, <1>7, <3>1
    <3>2. CASE s # seq[t]
      <4>1. Held(s)
        BY Zenon, <1>0, <2>1, <3>2 DEF InsertPending, TypeOK, Inv2, RunningCommitsHeld
      <4> QED BY <1>0, <1>5, <4>1, SeqType DEF Held
    <3> QED BY Zenon, <3>1, <3>2
  <2>2. front' < back'
    BY Zenon, <1>6 DEF WindowsKept
  <2> QED BY Zenon, <1>3, <2>1, <2>2 DEF RunningCommitsHeld, Held, Start
<1>9. WatermarkSettled'
  BY <1>0, <1>1, <1>2, <1>3 DEF InsertPending, TypeOK, Inv2, WatermarkSettled, Settled
<1>10. NoStrandedSlot'
  BY Zenon, <1>0, <1>3 DEF InsertPending, TypeOK, Inv2, NoStrandedSlot, Settled
<1> QED BY Zenon, <1>6, <1>8, <1>9, <1>10 DEF Inv2

\* set_validated, set_aborted and set_applied
LEMMA SetInv2 ==
  ASSUME Inv1, Inv2, NEW t \in Txn, SetValidated(t) \/ SetAborted(t) \/ SetApplied(t)
  PROVE  Inv2'
<1> USE DEF logVars, windowVars, markVars, Goto
<1>0. TypeOK /\ seq[t] \in Slot /\ status[seq[t]] \in {"Pending", "Validated"}
  BY Zenon DEF SetValidated, SetAborted, SetApplied, Inv1, SlotFollows, SeqOwned, Committing, Deciding,
         TypeOK
<1>1. UNCHANGED <<front, back, watermark>> /\ pc[t] # "advancing"
      /\ \A u \in Txn \ {t} : pc'[u] = pc[u] /\ cand'[u] = cand[u]
  BY ZenonT(40), <1>0 DEF SetValidated, SetAborted, SetApplied, TypeOK
<1>2. \A s \in Slot \ {seq[t]} : status'[s] = status[s]
  BY Zenon, <1>0 DEF SetValidated, SetAborted, SetApplied, TypeOK
<1>3. \/ status'[seq[t]] = "Validated"
      \/ status'[seq[t]] \in {"Aborted", "Applied"} /\ pc'[t] = "advancing" /\ cand'[t] = seq[t]
  BY <1>0 DEF SetValidated, SetAborted, SetApplied, TypeOK
<1>4. ~(seq[t] <= watermark)
  BY Zenon, <1>0 DEF Inv2, WatermarkSettled, Settled
<1>5. WindowsKept' /\ RunningCommitsHeld'
  BY Zenon, <1>0, <1>1, <1>2 DEF Inv2, WindowsKept, RunningCommitsHeld, Held, Start
<1>6. WatermarkSettled'
  BY Zenon, <1>1, <1>2, <1>4 DEF Inv2, WatermarkSettled, Settled
<1>7. NoStrandedSlot'
  <2> SUFFICES ASSUME watermark + 1 \in Slot, status'[watermark + 1] \in {"Aborted", "Applied"}
               PROVE  \E u \in Txn : pc'[u] = "advancing" /\ cand'[u] = watermark + 1
    BY Zenon, <1>1 DEF NoStrandedSlot, Settled
  <2>1. CASE seq[t] = watermark + 1
    BY Zenon, <1>3, <2>1
  <2>2. CASE seq[t] # watermark + 1
    BY Zenon, <1>1, <1>2, <2>2 DEF Inv2, NoStrandedSlot, Settled
  <2> QED BY Zenon, <2>1, <2>2
<1> QED BY Zenon, <1>5, <1>6, <1>7 DEF Inv2

\* may_increment_watermark
LEMMA AdvanceInv2 ==
  ASSUME Inv1, Inv2, NEW t \in Txn, IncrementWatermark(t) \/ EndIncrement(t)
  PROVE  Inv2'
<1> USE DEF logVars, windowVars, markVars, Goto
<1>0. TypeOK /\ UNCHANGED <<status, front, back>> /\ pc[t] = "advancing"
      /\ watermark \in Nat /\ front \in Nat /\ back \in Nat
  BY Zenon, SeqType DEF IncrementWatermark, EndIncrement, Inv1, TypeOK
<1>1. CASE IncrementWatermark(t)
  <2>1. cand[t] \in Slot /\ Held(cand[t]) /\ Settled(cand[t]) /\ watermark = cand[t] - 1
        /\ watermark' = cand[t] /\ pc' = pc /\ cand'[t] = cand[t] + 1
    BY ZenonT(40), <1>0, <1>1 DEF IncrementWatermark, CanAdvanceTo, TypeOK
  <2>2. cand[t] \in Nat /\ watermark' = watermark + 1
    BY <1>0, <2>1, SeqType
  <2>3. WindowsKept'
    <3>1. Start(front) \in Nat
      BY Zenon, <1>0, StartType
    <3> QED BY Zenon, <1>0, <2>1, <2>2, <3>1 DEF Inv2, WindowsKept, Held, Start
  <2>4. WatermarkSettled'
    BY SMTT(40), <1>0, <2>1, <2>2, SeqType DEF Inv2, WatermarkSettled, Settled
  <2>5. RunningCommitsHeld'
    BY <1>0, <2>2, SeqType DEF Inv2, RunningCommitsHeld, Held, Start
  <2>6. NoStrandedSlot'
    BY Zenon, <1>0, <2>1, <2>2 DEF NoStrandedSlot
  <2> QED BY Zenon, <2>3, <2>4, <2>5, <2>6 DEF Inv2
<1>2. CASE EndIncrement(t)
  <2>1. UNCHANGED <<watermark, cand>> /\ ~CanAdvanceTo(cand[t])
        /\ \A u \in Txn \ {t} : pc'[u] = pc[u]
    BY Zenon, <1>0, <1>2 DEF EndIncrement, TypeOK
  <2>2. WindowsKept' /\ WatermarkSettled' /\ RunningCommitsHeld'
    BY Zenon, <1>0, <2>1 DEF Inv2, WindowsKept, WatermarkSettled, RunningCommitsHeld, Settled, Held, Start
  <2>3. NoStrandedSlot'
    <3> SUFFICES ASSUME watermark + 1 \in Slot, Settled(watermark + 1)
                 PROVE  \E u \in Txn \ {t} : pc[u] = "advancing" /\ cand[u] = watermark + 1
      BY Zenon, <1>0, <2>1 DEF NoStrandedSlot, Settled
    <3>1. Held(watermark + 1)
      BY SMTT(40), <1>0 DEF Inv2, RunningCommitsHeld, Settled
    <3>2. cand[t] # watermark + 1
      BY <1>0, <2>1, <3>1 DEF CanAdvanceTo
    <3> QED BY Zenon, <3>2 DEF Inv2, NoStrandedSlot
  <2> QED BY Zenon, <2>2, <2>3 DEF Inv2
<1> QED BY Zenon, <1>1, <1>2

\* A step that leaves the slots, the windows and the watermark alone
TimelineKept(t) ==
    \/ BeginOpen(t) \/ BeginOpenAt(t) \/ OpenSnapshot(t) \/ RecordReader(t)
    \/ CloseRead(t) \/ DropUnclosed(t) \/ Close(t)
    \/ BeginCommit(t) \/ SequencedWrite(t) \/ FailSequencedWrite(t)
    \/ CollectWindows(t) \/ ReadStatuses(t) \/ ValidateOnDisk(t) \/ ValidateInWindows(t)
    \/ RaiseHighest(t) \/ Unregister(t) \/ WriteKeyspaces(t) \/ PersistStatus(t)
    \/ FailLog(t) \/ FailKeyspaces(t)

\* Every step preserves the second layer.
LEMMA NextInv2 == Inv1 /\ Inv2 /\ [Next]_vars => Inv2'
<1> SUFFICES ASSUME Inv1, Inv2, [Next]_vars PROVE Inv2'
    BY Zenon
<1> USE DEF logVars, windowVars, markVars, Goto
<1>1. ASSUME NEW t \in Txn, TimelineKept(t) PROVE Inv2'
  <2>1. UNCHANGED <<status, front, back, watermark, cand>> /\ pc[t] # "advancing"
    BY Zenon, <1>1 DEF TimelineKept, BeginOpen, BeginOpenAt, OpenSnapshot, RecordReader, CloseRead,
       DropUnclosed, Close, BeginCommit, SequencedWrite, FailSequencedWrite,
       CollectWindows, ReadStatuses, ValidateOnDisk, ValidateInWindows, RaiseHighest, Unregister,
       WriteKeyspaces, PersistStatus, FailLog, FailKeyspaces
  <2>2. pc' = pc \/ \E label : pc' = [pc EXCEPT ![t] = label]
    BY Zenon, <1>1 DEF TimelineKept, BeginOpen, BeginOpenAt, OpenSnapshot, RecordReader, CloseRead,
       DropUnclosed, Close, BeginCommit, SequencedWrite, FailSequencedWrite,
       CollectWindows, ReadStatuses, ValidateOnDisk, ValidateInWindows, RaiseHighest, Unregister,
       WriteKeyspaces, PersistStatus, FailLog, FailKeyspaces, RemoveReader
  <2>3. \A u \in Txn \ {t} : pc'[u] = pc[u]
    BY Zenon, <2>2 DEF Inv1, TypeOK
  <2> QED BY Zenon, <2>1, <2>3, QuietInv2
<1>2. ASSUME NEW t \in Txn, FreeAfterClose(t) \/ FreeAfterUnregister(t) \/ FreeAfterAdvance(t)
      PROVE  Inv2'
  <2>1. UNCHANGED <<status, back, watermark, cand>> /\ pc[t] # "advancing" /\ FreeWindows
        /\ \A u \in Txn \ {t} : pc'[u] = pc[u]
    BY Zenon, <1>2 DEF FreeAfterClose, FreeAfterUnregister, FreeAfterAdvance, Inv1, TypeOK
  <2> QED BY Zenon, <2>1, FreeInv2 DEF Inv1
<1>3. ASSUME UNCHANGED vars PROVE Inv2'
  BY Zenon, <1>3 DEF vars, Inv2, WindowsKept, WatermarkSettled, RunningCommitsHeld, NoStrandedSlot,
              Settled, Held, Start
<1>4. \/ \E t \in Txn : TimelineKept(t)
      \/ \E t \in Txn : FreeAfterClose(t) \/ FreeAfterUnregister(t) \/ FreeAfterAdvance(t)
      \/ \E t \in Txn : InsertPending(t) \/ SetValidated(t) \/ SetAborted(t) \/ SetApplied(t)
      \/ \E t \in Txn : IncrementWatermark(t) \/ EndIncrement(t)
      \/ UNCHANGED vars
  BY Zenon DEF Next, Finished, Client, Step, Failure, TimelineKept
<1> QED BY Zenon, <1>1, <1>2, <1>3, <1>4, InsertInv2, SetInv2, AdvanceInv2

\* Whatever the interleaving of commits, every commit at or below the watermark
\* is settled, and no window of a running commit is freed.
THEOREM Watermark == Spec => [](WatermarkSettled /\ RunningCommitsHeld)
<1>1. Inv2 => WatermarkSettled /\ RunningCommitsHeld
  BY Zenon DEF Inv2
<1> QED BY <1>1, InitInv1, InitInv2, NextInv1, NextInv2, PTL DEF Spec

\* No advance of the watermark is lost between two threads in
\* may_increment_watermark: a settled slot right above the watermark has a thread
\* that is about to look at it.
THEOREM NoneStranded == Spec => []NoStrandedSlot
<1>1. Inv2 => NoStrandedSlot
  BY Zenon DEF Inv2
<1> QED BY <1>1, InitInv1, InitInv2, NextInv1, NextInv2, PTL DEF Spec

-----------------------------------------------------------------------------
(* What a step may do to the threads and to the watermark.                   *)

\* The step leaves the locals of u alone.
LocalsKept(u) ==
    /\ pc'[u] = pc[u] /\ target'[u] = target[u] /\ open'[u] = open[u] /\ floor'[u] = floor[u]
    /\ ops'[u] = ops[u] /\ reinsert'[u] = reinsert[u] /\ seq'[u] = seq[u]
    /\ first'[u] = first[u] /\ at'[u] = at[u] /\ known'[u] = known[u]

\* A step of one thread leaves the locals of the others alone.
LEMMA OthersKept ==
  ASSUME Inv1, NEW t \in Txn, Client(t) \/ Step(t) \/ Failure(t), NEW u \in Txn, u # t
  PROVE  LocalsKept(u)
<1> USE DEF openVars, commitVars, validateVars, Goto, Inv1, TypeOK, LocalsKept
<1>0. ASSUME Failure(t)
      PROVE  LocalsKept(u)
  BY ZenonT(40), <1>0 DEF Failure, FailSequencedWrite, FailLog, FailKeyspaces
<1>1. ASSUME Client(t)
      PROVE  LocalsKept(u)
  BY <1>1 DEF Client, BeginOpen, BeginOpenAt, CloseRead, DropUnclosed, Close, RemoveReader, BeginCommit
<1>2. ASSUME OpenSnapshot(t) \/ RecordReader(t) \/ FreeAfterClose(t) \/ SequencedWrite(t)
             \/ InsertPending(t) \/ CollectWindows(t) \/ ReadStatuses(t)
      PROVE  LocalsKept(u)
  BY ZenonT(40), <1>2 DEF OpenSnapshot, RecordReader, FreeAfterClose, SequencedWrite, InsertPending,
              CollectWindows, ReadStatuses
<1>3. ASSUME ValidateOnDisk(t) \/ ValidateInWindows(t)
      PROVE  LocalsKept(u)
  BY <1>3 DEF ValidateOnDisk, ValidateInWindows
<1>4. ASSUME SetValidated(t) \/ RaiseHighest(t) \/ SetAborted(t) \/ Unregister(t)
             \/ FreeAfterUnregister(t) \/ WriteKeyspaces(t) \/ SetApplied(t)
             \/ IncrementWatermark(t) \/ EndIncrement(t) \/ FreeAfterAdvance(t) \/ PersistStatus(t)
      PROVE  LocalsKept(u)
  BY ZenonT(20), <1>4 DEF SetValidated, RaiseHighest, SetAborted, Unregister, RemoveReader, FreeAfterUnregister,
              WriteKeyspaces, SetApplied, IncrementWatermark, EndIncrement, FreeAfterAdvance,
              PersistStatus
<1> QED BY ZenonT(40), <1>0, <1>1, <1>2, <1>3, <1>4 DEF Step

\* A step of one thread leaves the slots of the others alone.
LEMMA OthersSlots ==
  ASSUME Inv1, NEW t \in Txn, Client(t) \/ Step(t) \/ Failure(t), NEW u \in Txn, u # t
  PROVE  seq[u] # 0 => status'[seq[u]] = status[seq[u]]
<1> SUFFICES ASSUME seq[u] # 0 PROVE status'[seq[u]] = status[seq[u]]
  BY Zenon
<1>1. seq[u] \in Slot /\ seq[t] # seq[u]
  BY Zenon DEF Inv1, TypeOK, SeqOwned
<1>2. status' = status \/ \E x : status' = [status EXCEPT ![seq[t]] = x]
  BY Zenon DEF Client, Failure, Step, BeginOpen, BeginOpenAt, CloseRead, DropUnclosed, Close,
       BeginCommit, FailSequencedWrite, FailLog, FailKeyspaces, OpenSnapshot, RecordReader,
       FreeAfterClose, SequencedWrite, InsertPending, CollectWindows, ReadStatuses,
       ValidateOnDisk, ValidateInWindows, SetValidated, RaiseHighest, SetAborted, Unregister,
       FreeAfterUnregister, WriteKeyspaces, SetApplied, IncrementWatermark, EndIncrement,
       FreeAfterAdvance, PersistStatus
<1>3. status \in [Slot -> {"Empty", "Pending", "Validated", "Applied", "Aborted"}]
  BY Zenon DEF Inv1, TypeOK
<1> QED BY Zenon, <1>1, <1>2, <1>3

\* The marks only rise.
LEMMA MarksRise ==
  ASSUME Inv1, [Next]_vars
  PROVE  watermark <= watermark' /\ highest <= highest'
<1> USE DEF markVars
<1>1. watermark \in Nat /\ highest \in Nat /\ \A t \in Txn : seq[t] \in Nat
  BY Zenon, SeqType DEF Inv1
<1>2. ASSUME NEW t \in Txn, TimelineKept(t), ~RaiseHighest(t) PROVE UNCHANGED <<watermark, highest>>
  BY Zenon, <1>2 DEF TimelineKept, BeginOpen, BeginOpenAt, OpenSnapshot, RecordReader, CloseRead,
       DropUnclosed, Close, BeginCommit, SequencedWrite, FailSequencedWrite,
       CollectWindows, ReadStatuses, ValidateOnDisk, ValidateInWindows, Unregister,
       WriteKeyspaces, PersistStatus, FailLog, FailKeyspaces
<1>3. ASSUME NEW t \in Txn, RaiseHighest(t) PROVE watermark' = watermark /\ highest <= highest'
  BY <1>1, <1>3 DEF RaiseHighest
<1>4. ASSUME NEW t \in Txn,
             \/ FreeAfterClose(t) \/ FreeAfterUnregister(t) \/ FreeAfterAdvance(t) \/ InsertPending(t)
             \/ SetValidated(t) \/ SetAborted(t) \/ SetApplied(t) \/ EndIncrement(t)
      PROVE  UNCHANGED <<watermark, highest>>
  BY Zenon, <1>4 DEF FreeAfterClose, FreeAfterUnregister, FreeAfterAdvance, InsertPending, SetValidated,
              SetAborted, SetApplied, EndIncrement
<1>5. ASSUME NEW t \in Txn, IncrementWatermark(t) PROVE watermark <= watermark' /\ highest' = highest
  <2>1. cand[t] \in Nat
    BY Zenon DEF Inv1, TypeOK
  <2> QED BY <1>1, <1>5, <2>1 DEF IncrementWatermark, CanAdvanceTo
<1>6. ASSUME UNCHANGED vars PROVE UNCHANGED <<watermark, highest>>
  BY Zenon, <1>6 DEF vars
<1>7. \/ \E t \in Txn : TimelineKept(t)
      \/ \E t \in Txn : \/ FreeAfterClose(t) \/ FreeAfterUnregister(t) \/ FreeAfterAdvance(t)
                        \/ InsertPending(t) \/ SetValidated(t) \/ SetAborted(t) \/ SetApplied(t)
                        \/ EndIncrement(t)
      \/ \E t \in Txn : IncrementWatermark(t)
      \/ UNCHANGED vars
  BY Zenon DEF Next, Finished, Client, Step, Failure, TimelineKept
<1> QED BY <1>1, <1>2, <1>3, <1>4, <1>5, <1>6, <1>7

\* The marks and the positions of a thread are numbers.
LEMMA Numbers ==
  ASSUME Inv1
  PROVE  /\ watermark \in Nat /\ highest \in Nat /\ acked \in Nat
         /\ \A t \in Txn : /\ open[t] \in Nat /\ seq[t] \in Nat /\ first[t] \in Nat /\ at[t] \in Nat
                          /\ target[t] \in Nat /\ floor[t] \in Nat
<1>1. watermark \in Nat /\ highest \in Nat /\ \A t \in Txn : seq[t] \in Nat
  BY Zenon, SeqType DEF Inv1
<1>2. /\ acked \in Nat
      /\ \A t \in Txn : /\ open[t] \in Nat /\ first[t] \in Nat /\ at[t] \in Nat
                       /\ target[t] \in Nat /\ floor[t] \in Nat
  BY Zenon DEF Inv1, TypeOK
<1> QED BY Zenon, <1>1, <1>2

\* So is the sequence number of a version.
LEMMA VersionSeq ==
  ASSUME Inv1, NEW k \in Key, NEW v \in kv[k]
  PROVE  v.seq \in Nat
<1>1. v \in Version
  BY Zenon DEF Inv1, TypeOK
<1> QED BY <1>1 DEF Version

\* The marks stay numbers.
LEMMA MarksNat ==
  ASSUME Inv1, Inv1', [Next]_vars
  PROVE  /\ watermark \in Nat /\ watermark' \in Nat /\ watermark <= watermark'
         /\ highest \in Nat /\ highest' \in Nat /\ highest <= highest'
<1>1. \A x \in (First - 1)..MaxSeq : x \in Nat
  OBVIOUS
<1>2. watermark' \in (First - 1)..MaxSeq /\ highest' \in (First - 1)..MaxSeq
  BY Zenon DEF Inv1, TypeOK
<1> QED BY Zenon, <1>1, <1>2, MarksRise, Numbers

-----------------------------------------------------------------------------
(* The snapshots.                                                            *)

(* Layer 3: a commit is validated against all of its concurrent predecessors, *)
(* from the log or from the windows, whatever was freed in the meantime.     *)

Walking == {"readingStatuses", "onDisk", "validating"}

\* What a record of outcomes says of a slot is true.
Truthful(outcome) ==
    \A s \in Slot : /\ outcome[s] = "Committed" => status[s] = "Applied"
                    /\ outcome[s] = "Rejected" => status[s] = "Aborted"

\* Predecessor i cannot conflict any more with a commit of o.
Cleared(o, i) == status[i] = "Aborted" \/ (status[i] # "Empty" /\ ~Conflicts(o, log[i].ops))

\* The predecessors that a validation has left behind are cleared.  Those to be
\* read from the log are below the watermark.
Walk(t) ==
    /\ pc[t] \in {"readingStatuses", "onDisk"} =>
          /\ at[t] < first[t] /\ first[t] >= First
          /\ first[t] = First \/ first[t] <= watermark
    /\ pc[t] = "validating" => at[t] >= First
    /\ Durable /\ pc[t] \in Walking =>
          \A i \in Slot : open[t] < i /\ i < at[t] => Cleared(ops[t], i)

\* Every predecessor that a decided commit did not see is cleared.
ValidatedAgainst ==
    \A j \in Slot : Decided(j) =>
        \A i \in Slot : log[j].open < i /\ i < j => Cleared(log[j].ops, i)

Inv3 ==
    /\ Truthful(statuses)
    /\ \A t \in Txn : Truthful(known[t])
    /\ \A t \in Txn : Walk(t)
    /\ Durable => ValidatedAgainst

\* The third layer holds at the start.
LEMMA InitInv3 == Init => Inv3
  BY DEF Init, Inv3, Truthful, Walk, Walking, ValidatedAgainst, Decided

\* Other threads do not disturb a validation.
LEMMA WalkKept ==
  ASSUME Inv1, Inv1', [Next]_vars, NEW u \in Txn, Walk(u),
         pc'[u] = pc[u], open'[u] = open[u], ops'[u] = ops[u], first'[u] = first[u], at'[u] = at[u]
  PROVE  Walk(u)'
<1>1. watermark \in Nat /\ watermark' \in Nat /\ watermark <= watermark' /\ first[u] \in Nat
  BY Zenon, MarksNat, Numbers
<1>2. \A i \in Slot : Cleared(ops[u], i) =>
        status'[i] = "Aborted" \/ (status'[i] # "Empty" /\ ~Conflicts(ops[u], log'[i].ops))
  BY Zenon, SlotStep DEF Cleared
<1>3. pc[u] \in {"readingStatuses", "onDisk"} => first[u] = First \/ first[u] <= watermark'
  BY Zenon, <1>1, NatOrder DEF Walk
<1> QED BY Zenon, <1>2, <1>3 DEF Walk, Cleared

\* collect_concurrent_windows: the log is needed for freed windows only.
LEMMA CollectWalk ==
  ASSUME Inv1, Inv2, NEW t \in Txn, CollectWindows(t)
  PROVE  Walk(t)'
<1> DEFINE f == first'[t]
<1>1. open[t] \in Nat /\ front \in Nat /\ at'[t] = open[t] + 1 /\ watermark \in Nat
      /\ UNCHANGED <<open, ops, watermark>>
      /\ pc'[t] = (IF open[t] + 1 < f THEN "readingStatuses" ELSE "validating")
      /\ f = (IF Held(open[t] + 1) THEN Start(WindowOf(open[t] + 1)) ELSE Start(front))
  BY Zenon, SeqType DEF CollectWindows, Goto, openVars, commitVars, markVars, Inv1, TypeOK
<1>2. Start(front) \in Nat /\ Start(front) >= First /\ (front = 0 => Start(front) = First)
  <2>1. Start(0) = First
    BY DEF Start
  <2> QED BY Zenon, <1>1, <2>1, StartType
<1>3. Held(open[t] + 1) => f \in Nat /\ f >= First /\ f <= open[t] + 1
  <2> SUFFICES ASSUME Held(open[t] + 1) PROVE f \in Nat /\ f >= First /\ f <= open[t] + 1
    BY Zenon
  <2>1. open[t] + 1 >= First /\ open[t] + 1 \in Nat
    BY <1>1, <1>2 DEF Held
  <2>2. WindowOf(open[t] + 1) \in Nat /\ Start(WindowOf(open[t] + 1)) <= open[t] + 1
    BY Zenon, <2>1, WindowOfType
  <2> QED BY Zenon, <1>1, <2>2, StartType
<1>4. f \in Nat /\ f >= First
  BY Zenon, <1>1, <1>2, <1>3
<1>5. open[t] + 1 < f => f = First \/ f <= watermark
  BY <1>1, <1>2, <1>3, <1>4 DEF Inv2, WindowsKept
<1>6. \A i \in Slot : ~(open[t] < i /\ i < open[t] + 1)
  BY <1>1 DEF Slot
<1>7. (pc[t] \in {"readingStatuses", "onDisk"} =>
          /\ at[t] < first[t] /\ first[t] >= First
          /\ first[t] = First \/ first[t] <= watermark)'
  BY Zenon, <1>1, <1>4, <1>5
<1>8. (pc[t] = "validating" => at[t] >= First)'
  BY <1>1, <1>4
<1>9. (\A i \in Slot : open[t] < i /\ i < at[t] => Cleared(ops[t], i))'
  BY Zenon, <1>1, <1>6
<1> QED BY Zenon, <1>7, <1>8, <1>9 DEF Walk

\* iterate_commit_status_from_disk
LEMMA ReadWalk ==
  ASSUME Inv1, NEW t \in Txn, Walk(t), ReadStatuses(t)
  PROVE  Walk(t)'
<1>1. UNCHANGED <<open, ops, watermark, first, status, log>>
  BY Zenon DEF ReadStatuses, openVars, commitVars, markVars, logVars
<1>2. CASE Durable
  <2>1. pc[t] = "readingStatuses" /\ pc'[t] = "onDisk" /\ at'[t] = at[t]
    BY Zenon, <1>2 DEF ReadStatuses, Goto, Inv1, TypeOK
  <2> QED BY Zenon, <1>1, <2>1 DEF Walk, Walking, Cleared
<1>3. CASE ~Durable
  <2>1. pc[t] = "readingStatuses" /\ pc'[t] = "validating" /\ at'[t] = first[t]
    BY ZenonT(40), <1>3 DEF ReadStatuses, Goto, Inv1, TypeOK
  <2> QED BY Zenon, <1>1, <1>3, <2>1 DEF Walk
<1> QED BY Zenon, <1>2, <1>3

\* The predecessor at hand is cleared, and the validation moves on.
LEMMA WalkOn ==
  ASSUME Inv1, NEW t \in Txn, Walk(t), pc[t] \in Walking,
         Durable => (at[t] \in Slot /\ open[t] < at[t] => Cleared(ops[t], at[t])),
         at'[t] = at[t] + 1, UNCHANGED <<open, ops, status, log, first, watermark>>,
         \/ pc'[t] = "onDisk" /\ pc[t] = "onDisk" /\ at[t] + 1 < first[t]
         \/ pc'[t] = "validating" /\ at[t] + 1 >= First
  PROVE  Walk(t)'
<1>1. at[t] \in Nat /\ at[t] + 1 \in Nat /\ open[t] \in Nat /\ \A i \in Slot : i \in Nat
  BY Zenon, SeqType, Numbers, NatOrder DEF Inv1
<1>2. Durable => \A i \in Slot : open[t] < i /\ i < at[t] + 1 => Cleared(ops[t], i)
  BY Zenon, <1>1, NatOrder DEF Walk
<1> QED BY Zenon, <1>1, <1>2 DEF Walk, Cleared

\* validate_concurrent_from_disk: a record below the watermark is settled, and its
\* status record, if it has been read, is true.
LEMMA OnDiskWalk ==
  ASSUME Inv1, Inv2, NEW t \in Txn, Walk(t), Truthful(known[t]), ValidateOnDisk(t)
  PROVE  Walk(t)'
<1> DEFINE s == at[t]
           Compare == s >= First /\ log[s] # NoRecord /\ known[t][s] = "Committed"
<1>1. pc[t] = "onDisk" /\ UNCHANGED <<open, ops, watermark, first, status, log>>
  BY Zenon DEF ValidateOnDisk, openVars, commitVars, markVars, logVars
<1>2. s \in Nat /\ first[t] \in Nat /\ watermark \in Nat /\ s < first[t] /\ first[t] >= First
  BY Zenon, <1>1, SeqType DEF Walk, Inv1, TypeOK
<1>3. CASE pc'[t] \in {"panicked", "conflicting"}
  BY Zenon, <1>3 DEF Walk, Walking
<1>4. CASE /\ ~(s >= First /\ log[s] # NoRecord /\ known[t][s] = "None")
           /\ ~(Compare /\ Conflicts(ops[t], log[s].ops))
           /\ at' = [at EXCEPT ![t] = s + 1]
           /\ Goto(t, IF s + 1 < first[t] THEN "onDisk" ELSE "validating")
  <2>1. at'[t] = s + 1 /\ pc'[t] = (IF s + 1 < first[t] THEN "onDisk" ELSE "validating")
    BY Zenon, <1>4 DEF Goto, Inv1, TypeOK
  <2>2. s \in Slot => Cleared(ops[t], s)
    <3> SUFFICES ASSUME s \in Slot PROVE Cleared(ops[t], s)
      BY Zenon
    <3>1. s >= First /\ s <= watermark
      <4>1. s >= First /\ (first[t] = First \/ first[t] <= watermark)
        BY Zenon, <1>1, SeqType DEF Walk, Inv1
      <4> QED BY <1>2, <4>1
    <3>2. status[s] \in {"Aborted", "Applied"} /\ log[s] # NoRecord
      BY Zenon, <3>1 DEF Inv2, WatermarkSettled, Settled, Inv1, RecordKept
    <3>3. known[t][s] \in {"Committed", "Rejected"}
      BY <1>4, <3>1, <3>2 DEF Inv1, TypeOK
    <3> QED BY Zenon, <1>4, <3>1, <3>2, <3>3 DEF Truthful, Cleared
  <2>3. s + 1 \in Nat /\ (~(s + 1 < first[t]) => s + 1 >= First)
    BY <1>2
  <2> QED BY Zenon, <1>1, <2>1, <2>2, <2>3, WalkOn DEF Walking
<1>5. pc'[t] \in {"panicked", "conflicting"}
      \/ (/\ ~(s >= First /\ log[s] # NoRecord /\ known[t][s] = "None")
           /\ ~(Compare /\ Conflicts(ops[t], log[s].ops))
           /\ at' = [at EXCEPT ![t] = s + 1]
           /\ Goto(t, IF s + 1 < first[t] THEN "onDisk" ELSE "validating"))
  BY Zenon DEF ValidateOnDisk, Goto, Inv1, TypeOK
<1> QED BY Zenon, <1>3, <1>4, <1>5

\* validate_concurrent_from_windows
LEMMA InWindowsWalk ==
  ASSUME Inv1, NEW t \in Txn, Walk(t), ValidateInWindows(t)
  PROVE  Walk(t)'
<1> DEFINE s == at[t]
<1>1. pc[t] = "validating" /\ UNCHANGED <<open, ops, watermark, first, status, log>>
      /\ s < seq[t] /\ Resolved(t, s) /\ s \in Nat /\ s >= First
  BY Zenon DEF ValidateInWindows, openVars, commitVars, markVars, logVars, Walk, Inv1, TypeOK
<1>2. s \in Slot
  <2>1. \A x \in Nat, y \in Slot \cup {0} : x < y /\ x >= First => x \in Slot
    BY DEF Slot
  <2> QED BY Zenon, <1>1, <2>1 DEF Inv1, TypeOK
<1>3. CASE pc'[t] = "conflicting"
  BY Zenon, <1>3 DEF Walk, Walking
<1>4. CASE /\ ~(status[s] \in {"Validated", "Applied"} /\ Conflicts(ops[t], log[s].ops))
           /\ at' = [at EXCEPT ![t] = s + 1] /\ pc' = pc
  <2>1. Cleared(ops[t], s)
    BY Zenon, <1>1, <1>2, <1>4 DEF Resolved, Independent, Cleared
  <2>2. at'[t] = s + 1 /\ pc'[t] = "validating" /\ s + 1 >= First
    <3>1. at'[t] = s + 1 /\ pc'[t] = "validating"
      BY Zenon, <1>1, <1>4 DEF Inv1, TypeOK
    <3>2. \A n \in Nat : n >= First => n + 1 >= First
      OBVIOUS
    <3> QED BY Zenon, <1>1, <3>1, <3>2
  <2> QED BY Zenon, <1>1, <2>1, <2>2, WalkOn DEF Walking
<1> QED BY Zenon, <1>3, <1>4 DEF ValidateInWindows, Goto, Inv1, TypeOK

\* A step of t that does not start, or go on with, its validation
LEMMA OtherWalk ==
  ASSUME Inv1, NEW t \in Txn, Client(t) \/ Step(t) \/ Failure(t), ~CollectWindows(t),
         ~ReadStatuses(t), ~ValidateOnDisk(t), ~ValidateInWindows(t)
  PROVE  Walk(t)'
<1> USE DEF Goto
<1>0. pc \in [Txn -> PCs]
  BY Zenon DEF Inv1, TypeOK
<1>1. ASSUME Client(t) \/ Failure(t) PROVE pc'[t] \notin Walking
  BY Zenon, <1>0, <1>1 DEF Client, Failure, BeginOpen, BeginOpenAt, CloseRead, DropUnclosed, Close, RemoveReader,
              BeginCommit, FailSequencedWrite, FailLog, FailKeyspaces, Walking
<1>2. ASSUME OpenSnapshot(t) \/ RecordReader(t) \/ FreeAfterClose(t) \/ SequencedWrite(t)
             \/ InsertPending(t)
      PROVE  pc'[t] \notin Walking
  BY Zenon, <1>0, <1>2 DEF OpenSnapshot, RecordReader, FreeAfterClose, SequencedWrite, InsertPending, Walking
<1>3. ASSUME SetValidated(t) \/ RaiseHighest(t) \/ SetAborted(t) \/ Unregister(t)
             \/ FreeAfterUnregister(t) \/ WriteKeyspaces(t) \/ SetApplied(t)
             \/ IncrementWatermark(t) \/ EndIncrement(t) \/ FreeAfterAdvance(t) \/ PersistStatus(t)
      PROVE  pc'[t] \notin Walking
  BY Zenon, <1>0, <1>3 DEF SetValidated, RaiseHighest, SetAborted, Unregister, RemoveReader, FreeAfterUnregister,
              WriteKeyspaces, SetApplied, IncrementWatermark, EndIncrement, FreeAfterAdvance,
              PersistStatus, AfterUnregister, AfterAdvance, Walking
<1>4. pc'[t] \notin Walking
  BY Zenon, <1>1, <1>2, <1>3 DEF Step
<1> QED BY Zenon, <1>4 DEF Walk, Walking

\* The status records, in the log and as read by a validation, are true.
LEMMA TruthKept ==
  ASSUME Inv1, Inv3, NEW t \in Txn, Client(t) \/ Step(t) \/ Failure(t), [Next]_vars
  PROVE  /\ Truthful(statuses)'
         /\ \A u \in Txn : Truthful(known[u])'
<1>1. \A s \in Slot : status[s] \in {"Applied", "Aborted"} => status'[s] = status[s]
  BY Zenon, SlotStep
<1>2. statuses' = statuses \/ PersistStatus(t)
  BY Zenon DEF Client, Failure, Step, BeginOpen, BeginOpenAt, CloseRead, DropUnclosed, Close,
         BeginCommit, FailSequencedWrite, FailLog, FailKeyspaces, OpenSnapshot, RecordReader,
         FreeAfterClose, SequencedWrite, InsertPending, CollectWindows, ReadStatuses,
         ValidateOnDisk, ValidateInWindows, SetValidated, RaiseHighest, SetAborted, Unregister,
         FreeAfterUnregister, WriteKeyspaces, SetApplied, IncrementWatermark, EndIncrement,
         FreeAfterAdvance, logVars
<1>3. known' = known \/ ReadStatuses(t)
  BY Zenon DEF Client, Failure, Step, BeginOpen, BeginOpenAt, CloseRead, DropUnclosed, Close,
         BeginCommit, FailSequencedWrite, FailLog, FailKeyspaces, OpenSnapshot, RecordReader,
         FreeAfterClose, SequencedWrite, InsertPending, CollectWindows, PersistStatus,
         ValidateOnDisk, ValidateInWindows, SetValidated, RaiseHighest, SetAborted, Unregister,
         FreeAfterUnregister, WriteKeyspaces, SetApplied, IncrementWatermark, EndIncrement,
         FreeAfterAdvance, validateVars
<1>4. Truthful(statuses)'
  <2>1. CASE statuses' = statuses
    BY Zenon, <1>1, <2>1 DEF Inv3, Truthful
  <2>2. CASE PersistStatus(t)
    <3>1. seq[t] \in Slot /\ status' = status /\ status[seq[t]] \in {"Applied", "Aborted"}
      BY Zenon, <2>2 DEF PersistStatus, Inv1, TypeOK, SeqOwned, SlotFollows, Committing
    <3>2. statuses' = [statuses EXCEPT ![seq[t]] =
                         IF status[seq[t]] = "Applied" THEN "Committed" ELSE "Rejected"]
      BY Zenon, <2>2 DEF PersistStatus
    <3> QED BY Zenon, <3>1, <3>2 DEF Inv1, TypeOK, Inv3, Truthful
  <2> QED BY Zenon, <1>2, <2>1, <2>2
<1>5. ASSUME NEW u \in Txn PROVE Truthful(known[u])'
  <2>1. known'[u] \in {known[u], statuses}
    BY Zenon, <1>3 DEF ReadStatuses, Inv1, TypeOK
  <2> QED BY Zenon, <1>1, <2>1 DEF Inv3, Truthful
<1> QED BY Zenon, <1>4, <1>5

\* set_validated: the validation has come to the commit itself.
LEMMA ValidatedKept ==
  ASSUME Inv1, Inv3, Durable, [Next]_vars
  PROVE  ValidatedAgainst'
<1> SUFFICES ASSUME NEW j \in Slot, status'[j] \in {"Validated", "Applied"}, NEW i \in Slot,
                    log'[j].open < i, i < j
             PROVE  status'[i] = "Aborted"
                    \/ (status'[i] # "Empty" /\ ~Conflicts(log'[j].ops, log'[i].ops))
  BY Zenon DEF ValidatedAgainst, Decided, Cleared
<1>1. CASE Decided(j)
  <2>1. log'[j] = log[j]
    BY Zenon, <1>1, SlotStep DEF Decided
  <2>2. Cleared(log[j].ops, i)
    BY Zenon, <1>1, <2>1 DEF Inv3, ValidatedAgainst
  <2> QED BY Zenon, <2>1, <2>2, SlotStep DEF Cleared
<1>2. CASE ~Decided(j)
  <2>1. status[j] = "Pending" /\ status'[j] = "Validated"
    BY Zenon, <1>2, SlotStep DEF Decided
  <2>2. PICK t \in Txn : SetValidated(t) /\ seq[t] = j
    <3>1. ASSUME NEW t \in Txn, SlotsKept(t) PROVE status' = status
      BY Zenon, <3>1 DEF SlotsKept, BeginOpen, BeginOpenAt, OpenSnapshot, RecordReader, CloseRead,
         DropUnclosed, Close, FreeAfterClose, BeginCommit, SequencedWrite, FailSequencedWrite,
         CollectWindows, ReadStatuses, ValidateOnDisk, ValidateInWindows, RaiseHighest, Unregister,
         FreeAfterUnregister, WriteKeyspaces, IncrementWatermark, EndIncrement, FreeAfterAdvance,
         PersistStatus, FailLog, FailKeyspaces
    <3>2. \E t \in Txn : InsertPending(t) \/ SetValidated(t) \/ SetAborted(t) \/ SetApplied(t)
      BY Zenon, <2>1, <3>1 DEF Next, Finished, Client, Step, Failure, SlotsKept, vars
    <3>3. status \in [Slot -> {"Empty", "Pending", "Validated", "Applied", "Aborted"}]
      BY Zenon DEF Inv1, TypeOK
    <3> QED BY Zenon, <2>1, <3>2, <3>3 DEF InsertPending, SetValidated, SetAborted, SetApplied
  <2>3. pc[t] = "validating" /\ at[t] = j /\ log' = log /\ log[j] = [open |-> open[t], ops |-> ops[t]]
    BY Zenon, <2>2 DEF SetValidated, logVars, Inv1, RecordOwned, Committing, Deciding
  <2>4. Cleared(ops[t], i)
    BY <2>3 DEF Inv3, Walk, Walking
  <2> QED BY <2>3, <2>4, SlotStep DEF Cleared
<1> QED BY Zenon, <1>1, <1>2

\* Every step preserves the third layer.
LEMMA NextInv3 == Inv1 /\ Inv2 /\ Inv3 /\ Inv1' /\ [Next]_vars => Inv3'
<1> SUFFICES ASSUME Inv1, Inv2, Inv3, Inv1', [Next]_vars PROVE Inv3'
    BY Zenon
<1>1. CASE UNCHANGED vars
  <2>1. Truthful(statuses)' /\ \A t \in Txn : Truthful(known[t])'
    BY Zenon, <1>1 DEF vars, Inv3, Truthful
  <2>2. ASSUME NEW u \in Txn PROVE Walk(u)'
    BY Zenon, <1>1, WalkKept DEF vars, Inv3
  <2> QED BY Zenon, <2>1, <2>2, ValidatedKept DEF Inv3
<1>2. ASSUME NEW t \in Txn, Client(t) \/ Step(t) \/ Failure(t) PROVE Inv3'
  <2>1. ASSUME NEW u \in Txn, u # t PROVE Walk(u)'
    BY Zenon, <1>2, <2>1, OthersKept, WalkKept DEF Inv3, LocalsKept
  <2>2. Walk(t)'
    BY Zenon, <1>2, CollectWalk, ReadWalk, OnDiskWalk, InWindowsWalk, OtherWalk DEF Inv3
  <2>3. \A u \in Txn : Walk(u)'
    BY Zenon, <2>1, <2>2
  <2> QED BY Zenon, <1>2, <2>3, TruthKept, ValidatedKept DEF Inv3
<1> QED BY Zenon, <1>1, <1>2 DEF Next, Finished

\* Isolation: with a durable log no two concurrent commits conflict, although the
\* windows of a commit's predecessors may be freed before it is validated.
THEOREM Isolation == Spec => [](Durable => ConflictFree)
<1>1. Inv3 => (Durable => ConflictFree)
  <2> SUFFICES ASSUME Inv3, Durable, NEW i \in Slot, NEW j \in Slot, i < j, Decided(i),
                      Decided(j), log[j].open < i
               PROVE  ~Conflicts(log[j].ops, log[i].ops)
    BY Zenon DEF ConflictFree
  <2> QED BY Zenon DEF Inv3, ValidatedAgainst, Cleared, Decided
<1> QED BY <1>1, InitInv1, InitInv2, InitInv3, NextInv1, NextInv2, NextInv3, PTL DEF Spec

-----------------------------------------------------------------------------
(* Layer 4: what a snapshot sees.                                            *)

\* A snapshot is opened at or below the watermark, and above what had been
\* acknowledged when it began to open.
Opens(t) ==
    /\ pc[t] \in {"idle", "openingAt"} => floor[t] = 0
    /\ pc[t] = "opening" => floor[t] <= target[t]
    /\ pc[t] \notin {"idle", "opening", "openingAt"} =>
          floor[t] <= open[t] /\ open[t] <= watermark

\* The thread has passed the raise of highest_validated_sequence_number, or aborts
Raising == {"unregistering", "freeing", "writing", "applying", "advancing", "advanced", "persisting"}

Raised(t) == pc[t] \in Raising /\ status[seq[t]] # "Aborted" => seq[t] <= highest

Inv4 == acked <= highest /\ \A t \in Txn : Opens(t) /\ Raised(t)

\* The fourth layer holds at the start.
LEMMA InitInv4 == Init => Inv4
  BY DEF Init, Inv4, Opens, Raised, Raising

\* Steps of other threads do not disturb what a snapshot sees.
LEMMA OpensKept ==
  ASSUME Inv1, Inv1', [Next]_vars, NEW u \in Txn, Opens(u), Raised(u), LocalsKept(u)
  PROVE  Opens(u)' /\ Raised(u)'
<1>1. /\ watermark \in Nat /\ watermark' \in Nat /\ watermark <= watermark'
      /\ highest \in Nat /\ highest' \in Nat /\ highest <= highest'
      /\ open[u] \in Nat /\ seq[u] \in Nat
  BY Zenon, MarksNat, Numbers
<1>2. Opens(u)'
  BY Zenon, <1>1, NatOrder DEF Opens, LocalsKept
<1>3. Raised(u)'
  <2> SUFFICES ASSUME pc[u] \in Raising, status'[seq[u]] # "Aborted" PROVE seq[u] <= highest'
    BY Zenon DEF Raised, LocalsKept
  <2>1. seq[u] \in Slot
    BY Zenon DEF Inv1, TypeOK, SeqOwned, Committing, Raising
  <2>2. status[seq[u]] # "Aborted"
    BY Zenon, <2>1, SlotStep
  <2> QED BY Zenon, <1>1, <2>2, NatOrder DEF Raised
<1> QED BY Zenon, <1>2, <1>3

\* wait_for_watermark: the steps of the thread that opens the snapshot
LEMMA OpensStep ==
  ASSUME Inv1, Inv1', Inv4, [Next]_vars, NEW t \in Txn, Client(t) \/ Step(t) \/ Failure(t)
  PROVE  Opens(t)'
<1> USE DEF Goto, openVars, markVars
<1>1. /\ watermark \in Nat /\ watermark' \in Nat /\ watermark <= watermark'
      /\ highest \in Nat /\ open[t] \in Nat /\ target[t] \in Nat /\ floor[t] \in Nat
  BY Zenon, MarksNat, Numbers
<1>2. CASE BeginOpen(t)
  <2>1. pc'[t] = "opening" /\ floor'[t] = acked /\ target'[t] = highest
    BY ZenonT(40), <1>2 DEF BeginOpen, Inv1, TypeOK
  <2> QED BY Zenon, <2>1 DEF Opens, Inv4
<1>3. CASE BeginOpenAt(t)
  <2>1. pc[t] = "idle" /\ pc'[t] = "openingAt" /\ floor'[t] = floor[t]
    BY ZenonT(40), <1>3 DEF BeginOpenAt, Inv1, TypeOK
  <2> QED BY Zenon, <2>1 DEF Opens, Inv4
<1>4. CASE OpenSnapshot(t)
  <2>1. /\ pc'[t] \in {"reading", "registering"} /\ pc[t] \in {"opening", "openingAt"}
        /\ floor'[t] = floor[t] /\ watermark' = watermark /\ watermark >= target[t]
        /\ open'[t] = (IF pc[t] = "opening" THEN watermark ELSE target[t])
    BY Zenon, <1>4 DEF OpenSnapshot, Inv1, TypeOK
  <2>2. (pc[t] = "openingAt" => floor[t] = 0) /\ (pc[t] = "opening" => floor[t] <= target[t])
    BY Zenon DEF Opens, Inv4
  <2>3. floor[t] <= open'[t] /\ open'[t] <= watermark
    BY <1>1, <2>1, <2>2
  <2> QED BY Zenon, <2>1, <2>3 DEF Opens
<1>5. CASE ~BeginOpen(t) /\ ~BeginOpenAt(t) /\ ~OpenSnapshot(t)
  <2>1. /\ pc[t] \notin {"idle", "opening", "openingAt"} /\ pc'[t] \notin {"idle", "opening", "openingAt"}
        /\ UNCHANGED <<open, floor>>
    <3>0. pc \in [Txn -> PCs]
      BY Zenon DEF Inv1, TypeOK
    <3>1. ASSUME CloseRead(t) \/ DropUnclosed(t) \/ Close(t) \/ BeginCommit(t) \/ Failure(t)
          PROVE  /\ pc[t] \notin {"idle", "opening", "openingAt"}
                 /\ pc'[t] \notin {"idle", "opening", "openingAt"} /\ UNCHANGED <<open, floor>>
      BY ZenonT(40), <3>0, <3>1 DEF CloseRead, DropUnclosed, Close, RemoveReader, BeginCommit, Failure,
                  FailSequencedWrite, FailLog, FailKeyspaces
    <3>2. ASSUME RecordReader(t) \/ FreeAfterClose(t) \/ SequencedWrite(t) \/ InsertPending(t)
                 \/ CollectWindows(t) \/ ReadStatuses(t) \/ ValidateOnDisk(t) \/ ValidateInWindows(t)
          PROVE  /\ pc[t] \notin {"idle", "opening", "openingAt"}
                 /\ pc'[t] \notin {"idle", "opening", "openingAt"} /\ UNCHANGED <<open, floor>>
      BY ZenonT(40), <3>0, <3>2 DEF RecordReader, FreeAfterClose, SequencedWrite, InsertPending, CollectWindows,
                  ReadStatuses, ValidateOnDisk, ValidateInWindows
    <3>3. ASSUME SetValidated(t) \/ RaiseHighest(t) \/ SetAborted(t) \/ Unregister(t)
                 \/ FreeAfterUnregister(t) \/ WriteKeyspaces(t) \/ SetApplied(t)
                 \/ IncrementWatermark(t) \/ EndIncrement(t) \/ FreeAfterAdvance(t) \/ PersistStatus(t)
          PROVE  /\ pc[t] \notin {"idle", "opening", "openingAt"}
                 /\ pc'[t] \notin {"idle", "opening", "openingAt"} /\ UNCHANGED <<open, floor>>
      BY Zenon, <3>0, <3>3 DEF SetValidated, RaiseHighest, SetAborted, Unregister, RemoveReader,
                  FreeAfterUnregister, WriteKeyspaces, SetApplied, IncrementWatermark, EndIncrement,
                  FreeAfterAdvance, PersistStatus, AfterUnregister, AfterAdvance
    <3> QED BY Zenon, <1>5, <3>1, <3>2, <3>3 DEF Client, Step
  <2> QED BY Zenon, <1>1, <2>1, NatOrder DEF Opens, Inv4
<1> QED BY ZenonT(40), <1>2, <1>3, <1>4, <1>5

\* A commit is acknowledged after it has raised highest_validated_sequence_number.
LEMMA RaisedStep ==
  ASSUME Inv1, Inv1', Inv4, [Next]_vars, NEW t \in Txn, Client(t) \/ Step(t) \/ Failure(t)
  PROVE  Raised(t)' /\ acked' <= highest'
<1> USE DEF Goto
<1>1. highest \in Nat /\ highest' \in Nat /\ highest <= highest' /\ acked \in Nat
      /\ seq[t] \in Nat /\ acked <= highest /\ Raised(t)
  BY Zenon, MarksNat, Numbers DEF Inv4
<1>0. pc \in [Txn -> PCs]
  BY Zenon DEF Inv1, TypeOK
<1>2. ASSUME Client(t) \/ Failure(t) PROVE pc'[t] \notin Raising /\ acked' = acked
  <2>1. ASSUME Failure(t) PROVE pc'[t] \notin Raising /\ acked' = acked
    BY ZenonT(40), <1>0, <2>1 DEF Failure, FailSequencedWrite, FailLog, FailKeyspaces, Raising
  <2>2. ASSUME BeginOpen(t) \/ BeginOpenAt(t) \/ BeginCommit(t) PROVE pc'[t] \notin Raising /\ acked' = acked
    BY ZenonT(40), <1>0, <2>2 DEF BeginOpen, BeginOpenAt, BeginCommit, Raising
  <2>3. ASSUME CloseRead(t) \/ DropUnclosed(t) \/ Close(t) PROVE pc'[t] \notin Raising /\ acked' = acked
    BY ZenonT(40), <1>0, <2>3 DEF CloseRead, DropUnclosed, Close, RemoveReader, Raising
  <2> QED BY Zenon, <1>2, <2>1, <2>2, <2>3 DEF Client
<1>3. ASSUME \/ OpenSnapshot(t) \/ RecordReader(t) \/ FreeAfterClose(t) \/ SequencedWrite(t)
             \/ InsertPending(t) \/ CollectWindows(t) \/ ReadStatuses(t) \/ ValidateOnDisk(t)
             \/ ValidateInWindows(t) \/ SetValidated(t)
      PROVE  pc'[t] \notin Raising /\ acked' = acked
  BY Zenon, <1>0, <1>3 DEF OpenSnapshot, RecordReader, FreeAfterClose, SequencedWrite, InsertPending,
              CollectWindows, ReadStatuses, ValidateOnDisk, ValidateInWindows, SetValidated,
              Raising
<1>4. ASSUME RaiseHighest(t) PROVE Raised(t)' /\ acked' = acked
  <2>1. seq' = seq /\ seq[t] <= highest' /\ acked' = acked
    BY <1>1, <1>4 DEF RaiseHighest, commitVars
  <2> QED BY Zenon, <2>1 DEF Raised
<1>5. ASSUME SetAborted(t) PROVE Raised(t)' /\ acked' = acked
  <2>1. seq[t] \in Slot
    BY Zenon, <1>5 DEF SetAborted, Inv1, TypeOK, SeqOwned, Committing, Deciding
  <2>2. seq' = seq /\ status'[seq[t]] = "Aborted" /\ acked' = acked
    BY Zenon, <1>5, <2>1 DEF SetAborted, commitVars, Inv1, TypeOK
  <2> QED BY Zenon, <2>2 DEF Raised
<1>6. ASSUME \/ Unregister(t) \/ FreeAfterUnregister(t) \/ WriteKeyspaces(t) \/ SetApplied(t)
             \/ IncrementWatermark(t) \/ EndIncrement(t) \/ FreeAfterAdvance(t)
      PROVE  Raised(t)' /\ acked' = acked
  <2>1. pc[t] \in Raising /\ seq' = seq /\ acked' = acked
    BY Zenon, <1>6 DEF Unregister, FreeAfterUnregister, WriteKeyspaces, SetApplied, IncrementWatermark,
                EndIncrement, FreeAfterAdvance, commitVars, Raising
  <2>2. seq[t] \in Slot
    BY Zenon, <2>1 DEF Inv1, TypeOK, SeqOwned, Committing, Raising
  <2>3. status'[seq[t]] # "Aborted" => status[seq[t]] # "Aborted"
    BY Zenon, <2>2, SlotStep
  <2> QED BY Zenon, <1>1, <2>1, <2>3, NatOrder DEF Raised
<1>7. ASSUME PersistStatus(t) PROVE pc'[t] \notin Raising /\ (acked' = acked \/ acked' <= highest)
  <2>1. pc[t] \in Raising /\ pc'[t] = "returned"
    BY ZenonT(40), <1>7 DEF PersistStatus, Raising, Inv1, TypeOK
  <2>2. acked' = acked \/ (acked' = seq[t] /\ status[seq[t]] # "Aborted")
    BY Zenon, <1>7 DEF PersistStatus
  <2> QED BY ZenonT(40), <1>1, <2>1, <2>2 DEF Raised, Raising
<1>8. acked' \in Nat
  BY Zenon DEF Inv1, TypeOK
<1>9. Raised(t)'
  BY Zenon, <1>2, <1>3, <1>4, <1>5, <1>6, <1>7 DEF Step, Raised
<1>10. acked' = acked \/ acked' <= highest
  BY Zenon, <1>2, <1>3, <1>4, <1>5, <1>6, <1>7 DEF Step
<1>11. acked' <= highest'
  <2>1. \A x, y, z \in Nat : x <= y /\ y <= z => x <= z
    BY Zenon, NatOrder
  <2>2. acked' <= highest
    BY Zenon, <1>1, <1>10
  <2> QED BY Zenon, <1>1, <1>8, <2>1, <2>2
<1> QED BY Zenon, <1>9, <1>11

\* Every step preserves the fourth layer.
LEMMA NextInv4 == Inv1 /\ Inv4 /\ Inv1' /\ [Next]_vars => Inv4'
<1> SUFFICES ASSUME Inv1, Inv4, Inv1', [Next]_vars PROVE Inv4'
    BY Zenon
<1>1. CASE UNCHANGED vars
  BY Zenon, <1>1 DEF vars, Inv4, Opens, Raised
<1>2. ASSUME NEW t \in Txn, Client(t) \/ Step(t) \/ Failure(t) PROVE Inv4'
  <2>1. ASSUME NEW u \in Txn, u # t PROVE Opens(u)' /\ Raised(u)'
    BY Zenon, <1>2, <2>1, OthersKept, OpensKept DEF Inv4
  <2>2. Opens(t)' /\ Raised(t)' /\ acked' <= highest'
    BY Zenon, <1>2, OpensStep, RaisedStep
  <2> QED BY Zenon, <2>1, <2>2 DEF Inv4
<1> QED BY Zenon, <1>1, <1>2 DEF Next, Finished

\* External consistency: a snapshot opened after a commit has returned Ok sees
\* it, because open_snapshot_* waits for highest_validated_sequence_number.
THEOREM SeesAcknowledged == Spec => []ExternallyConsistent
<1>1. Inv1 /\ Inv4 => ExternallyConsistent
  BY Zenon DEF Inv1, TypeOK, Inv4, Opens, ExternallyConsistent
<1> QED BY <1>1, InitInv1, InitInv4, NextInv1, NextInv4, PTL DEF Spec

-----------------------------------------------------------------------------
(* Layer 5: the keyspaces.                                                   *)

\* The versions in the keyspaces are those of decided commits.
VersionsDecided == \A k \in Key : \A v \in kv[k] : v.seq < First \/ (v.seq \in Slot /\ Decided(v.seq))

\* The inserts and deletes of the commit at s are in the keyspaces.
Written(s) ==
    \A k \in Key : log[s].ops.writes[k].op \in {"Insert", "Delete"} =>
        \E v \in kv[k] : v.seq = s /\ v.op = log[s].ops.writes[k].op

Inv5 ==
    /\ VersionsDecided
    /\ \A s \in Slot : status[s] = "Applied" => Written(s)
    /\ \A t \in Txn : pc[t] = "applying" => Written(seq[t])

\* The fifth layer holds at the start.
LEMMA InitInv5 == Init => Inv5
<1> SUFFICES ASSUME Init PROVE Inv5
    BY Zenon
<1>1. ASSUME NEW k \in Key, NEW v \in kv[k] PROVE v.seq < First
  <2>1. kv[k] \in {{}} \cup {{[seq |-> First - 1, op |-> "Insert", val |-> w]} :
                              w \in IF First = 1 THEN {} ELSE Val}
    BY Zenon DEF Init
  <2>2. PICK w \in Val : v = [seq |-> First - 1, op |-> "Insert", val |-> w]
    BY Zenon, <2>1
  <2>3. v.seq = First - 1
    BY Zenon, <2>2
  <2> QED BY <2>3
<1> QED BY Zenon, <1>1 DEF Init, Inv5, VersionsDecided

\* A version of a commit carries its sequence number.
LEMMA NewVersionsSeq ==
  ASSUME NEW k, NEW s, NEW o, NEW flags, NEW v \in NewVersions(k, s, o, flags)
  PROVE  v.seq = s
<1>1. CASE o.writes[k].op = "Insert" \/ k \in flags
  BY <1>1 DEF NewVersions
<1>2. CASE ~(o.writes[k].op = "Insert" \/ k \in flags) /\ o.writes[k].op = "Delete"
  BY <1>2 DEF NewVersions
<1>3. CASE ~(o.writes[k].op = "Insert" \/ k \in flags) /\ o.writes[k].op # "Delete"
  BY Zenon, <1>3 DEF NewVersions
<1> QED BY Zenon, <1>1, <1>2, <1>3

\* A commit writes its inserts and deletes.
LEMMA NewVersionsOp ==
  ASSUME NEW k, NEW s, NEW o, NEW flags, flags \subseteq Puts(o), o.writes[k].op \in {"Insert", "Delete"}
  PROVE  \E v \in NewVersions(k, s, o, flags) : v.seq = s /\ v.op = o.writes[k].op
<1>1. CASE o.writes[k].op = "Insert"
  BY Zenon, <1>1 DEF NewVersions
<1>2. CASE o.writes[k].op = "Delete"
  <2>1. k \notin flags
    BY Zenon, <1>2 DEF Puts
  <2> QED BY Zenon, <1>2, <2>1 DEF NewVersions
<1> QED BY Zenon, <1>1, <1>2

\* The keyspaces change in WriteKeyspaces and FailKeyspaces only: versions of a
\* validated commit are added, all of them above the watermark.
LEMMA VersionsStep ==
  ASSUME Inv1, Inv2, [Next]_vars, NEW k \in Key
  PROVE  /\ kv[k] \subseteq kv'[k]
         /\ \A v \in kv'[k] : v \in kv[k] \/ (v.seq \in Slot /\ v.seq > watermark /\ Decided(v.seq)')
<1>1. ASSUME NEW t \in Txn, Client(t) \/ Step(t) \/ Failure(t), ~WriteKeyspaces(t), ~FailKeyspaces(t)
      PROVE  kv' = kv
  BY Zenon, <1>1 DEF Client, Failure, Step, BeginOpen, BeginOpenAt, CloseRead, DropUnclosed, Close,
         BeginCommit, FailSequencedWrite, FailLog, OpenSnapshot, RecordReader,
         FreeAfterClose, SequencedWrite, InsertPending, CollectWindows, ReadStatuses,
         ValidateOnDisk, ValidateInWindows, SetValidated, RaiseHighest, SetAborted, Unregister,
         FreeAfterUnregister, SetApplied, IncrementWatermark, EndIncrement, FreeAfterAdvance,
         PersistStatus
<1>2. ASSUME NEW t \in Txn, WriteKeyspaces(t) \/ FailKeyspaces(t)
      PROVE  /\ kv[k] \subseteq kv'[k]
             /\ \A v \in kv'[k] : v \in kv[k] \/ (v.seq \in Slot /\ v.seq > watermark /\ Decided(v.seq)')
  <2>1. seq[t] \in Slot /\ status[seq[t]] = "Validated" /\ status' = status
    BY Zenon, <1>2 DEF WriteKeyspaces, FailKeyspaces, Inv1, TypeOK, SeqOwned, SlotFollows, Committing
  <2>2. seq[t] > watermark
    BY <2>1, SeqType DEF Inv1, Inv2, WatermarkSettled, Settled
  <2>3. kv'[k] = kv[k] \/ kv'[k] = kv[k] \cup NewVersions(k, seq[t], ops[t], reinsert[t])
    BY Zenon, <1>2 DEF WriteKeyspaces, FailKeyspaces
  <2>4. \A v \in NewVersions(k, seq[t], ops[t], reinsert[t]) : v.seq = seq[t]
    BY Zenon, NewVersionsSeq
  <2> QED BY Zenon, <2>1, <2>2, <2>3, <2>4 DEF Decided
<1>3. ASSUME UNCHANGED vars PROVE kv' = kv
  BY Zenon, <1>3 DEF vars
<1> QED BY Zenon, <1>1, <1>2, <1>3 DEF Next, Finished

\* What is written stays written.
LEMMA WrittenKept ==
  ASSUME Inv1, Inv2, [Next]_vars, NEW s \in Slot, status[s] # "Empty", Written(s)
  PROVE  Written(s)'
<1>1. log'[s] = log[s]
  BY Zenon, SlotStep
<1>2. \A k \in Key : kv[k] \subseteq kv'[k]
  BY Zenon, VersionsStep
<1> QED BY Zenon, <1>1, <1>2 DEF Written

\* Every step preserves the fifth layer.
LEMMA NextInv5 == Inv1 /\ Inv2 /\ Inv5 /\ [Next]_vars => Inv5'
<1> SUFFICES ASSUME Inv1, Inv2, Inv5, [Next]_vars PROVE Inv5'
    BY Zenon
<1>1. VersionsDecided'
  <2> SUFFICES ASSUME NEW k \in Key, NEW v \in kv'[k]
               PROVE  v.seq < First \/ (v.seq \in Slot /\ Decided(v.seq)')
    BY Zenon DEF VersionsDecided, Decided
  <2>1. CASE v \in kv[k]
    BY Zenon, <2>1, SlotStep DEF Inv5, VersionsDecided, Decided
  <2>2. CASE v \notin kv[k]
    BY Zenon, <2>2, VersionsStep
  <2> QED BY Zenon, <2>1, <2>2
<1>2. ASSUME NEW s \in Slot, status'[s] = "Applied" PROVE Written(s)'
  <2>1. CASE status[s] = "Applied"
    BY Zenon, <2>1, WrittenKept DEF Inv5
  <2>2. CASE status[s] # "Applied"
    <3>1. status[s] = "Validated"
      BY Zenon, <1>2, <2>2, SlotStep
    <3>2. ASSUME NEW t \in Txn, SlotsKept(t) PROVE status' = status
      BY Zenon, <3>2 DEF SlotsKept, BeginOpen, BeginOpenAt, OpenSnapshot, RecordReader, CloseRead,
         DropUnclosed, Close, FreeAfterClose, BeginCommit, SequencedWrite, FailSequencedWrite,
         CollectWindows, ReadStatuses, ValidateOnDisk, ValidateInWindows, RaiseHighest, Unregister,
         FreeAfterUnregister, WriteKeyspaces, IncrementWatermark, EndIncrement, FreeAfterAdvance,
         PersistStatus, FailLog, FailKeyspaces
    <3>3. PICK t \in Txn : InsertPending(t) \/ SetValidated(t) \/ SetAborted(t) \/ SetApplied(t)
      BY Zenon, <1>2, <2>2, <3>2 DEF Next, Finished, Client, Step, Failure, SlotsKept, vars
    <3>4. SetApplied(t) /\ seq[t] = s
      BY Zenon, <1>2, <2>2, <3>3 DEF InsertPending, SetValidated, SetAborted, SetApplied, Inv1, TypeOK
    <3>5. Written(s)
      BY Zenon, <3>4 DEF SetApplied, Inv5
    <3> QED BY Zenon, <3>1, <3>5, WrittenKept
  <2> QED BY Zenon, <2>1, <2>2
<1>3. ASSUME NEW u \in Txn, pc'[u] = "applying" PROVE Written(seq[u])'
  <2>1. CASE pc[u] = "applying" /\ seq'[u] = seq[u]
    <3>1. seq[u] \in Slot /\ status[seq[u]] # "Empty" /\ Written(seq[u])
      BY Zenon, <2>1 DEF Inv1, TypeOK, SeqOwned, SlotFollows, Committing, Inv5
    <3>2. log'[seq[u]] = log[seq[u]] /\ \A k \in Key : kv[k] \subseteq kv'[k]
      BY Zenon, <3>1, SlotStep, VersionsStep
    <3> QED BY <2>1, <3>1, <3>2 DEF Written
  <2>2. CASE WriteKeyspaces(u)
    <3>1. log' = log /\ seq' = seq /\ log[seq[u]] = [open |-> open[u], ops |-> ops[u]]
          /\ reinsert[u] \subseteq Puts(ops[u])
      BY Zenon, <2>2 DEF WriteKeyspaces, logVars, commitVars, Inv1, RecordOwned, Committing, FlagsOfPuts
    <3>2. \A k \in Key : NewVersions(k, seq[u], ops[u], reinsert[u]) \subseteq kv'[k]
      BY Zenon, <2>2 DEF WriteKeyspaces
    <3>3. \A k \in Key : ops[u].writes[k].op \in {"Insert", "Delete"} =>
            \E v \in kv'[k] : v.seq = seq[u] /\ v.op = ops[u].writes[k].op
      BY <3>1, <3>2, NewVersionsOp
    <3> QED BY <3>1, <3>3 DEF Written
  <2>3. (pc[u] = "applying" /\ seq'[u] = seq[u]) \/ WriteKeyspaces(u)
    <3>1. CASE UNCHANGED vars
      BY Zenon, <1>3, <3>1 DEF vars
    <3>2. ASSUME NEW t \in Txn, Client(t) \/ Step(t) \/ Failure(t), t # u
          PROVE  pc[u] = "applying" /\ seq'[u] = seq[u]
      BY Zenon, <1>3, <3>2, OthersKept DEF LocalsKept
    <3>3. ASSUME Client(u) \/ Failure(u) PROVE pc'[u] # "applying"
      BY Zenon, <3>3 DEF Client, Failure, BeginOpen, BeginOpenAt, CloseRead, DropUnclosed, Close,
           RemoveReader, BeginCommit, FailSequencedWrite, FailLog, FailKeyspaces, Goto, Inv1, TypeOK
    <3>4. ASSUME Step(u), ~WriteKeyspaces(u) PROVE pc'[u] # "applying"
      <4>1. ASSUME OpenSnapshot(u) \/ RecordReader(u) \/ FreeAfterClose(u) \/ SequencedWrite(u)
                   \/ InsertPending(u) \/ CollectWindows(u) \/ ReadStatuses(u)
            PROVE  pc'[u] # "applying"
        BY ZenonT(20), <4>1 DEF OpenSnapshot, RecordReader, FreeAfterClose, SequencedWrite, InsertPending,
                    CollectWindows, ReadStatuses, Goto, Inv1, TypeOK
      <4>2. ASSUME ValidateOnDisk(u) \/ ValidateInWindows(u) PROVE pc'[u] # "applying"
        BY Zenon, <4>2 DEF ValidateOnDisk, ValidateInWindows, Goto, Inv1, TypeOK
      <4>3. ASSUME SetValidated(u) \/ RaiseHighest(u) \/ SetAborted(u) \/ Unregister(u)
                   \/ FreeAfterUnregister(u) \/ SetApplied(u) \/ IncrementWatermark(u)
                   \/ EndIncrement(u) \/ FreeAfterAdvance(u) \/ PersistStatus(u)
            PROVE  pc'[u] # "applying"
        BY ZenonT(20), <4>3 DEF SetValidated, RaiseHighest, SetAborted, Unregister, RemoveReader,
                    FreeAfterUnregister, SetApplied, IncrementWatermark, EndIncrement,
                    FreeAfterAdvance, PersistStatus, AfterUnregister, AfterAdvance, Goto, Inv1, TypeOK
      <4> QED BY Zenon, <3>4, <4>1, <4>2, <4>3 DEF Step
    <3> QED BY Zenon, <1>3, <3>1, <3>2, <3>3, <3>4 DEF Next, Finished
  <2> QED BY ZenonT(40), <2>1, <2>2, <2>3
<1> QED BY Zenon, <1>1, <1>2, <1>3 DEF Inv5

\* The keyspaces hold versions of decided commits only, and all inserts and
\* deletes of a commit by the time it counts as applied.
THEOREM Keyspaces == Spec => []KeyspacesFollowDecisions
<1>1. Inv1 /\ Inv5 => KeyspacesFollowDecisions
  <2> SUFFICES ASSUME Inv1, Inv5 PROVE KeyspacesFollowDecisions
    BY Zenon
  <2>1. ASSUME NEW k \in Key, NEW v \in kv[k], v.seq >= First PROVE Decided(v.seq)
    <3>1. v \in Version /\ (v.seq < First \/ Decided(v.seq))
      BY Zenon DEF Inv1, TypeOK, Inv5, VersionsDecided
    <3>2. \A w \in Version : w.seq >= First => ~(w.seq < First)
      BY DEF Version
    <3> QED BY Zenon, <2>1, <3>1, <3>2
  <2> QED BY Zenon, <2>1 DEF Inv5, Written, KeyspacesFollowDecisions
<1> QED BY <1>1, InitInv1, InitInv2, InitInv5, NextInv1, NextInv2, NextInv5, PTL DEF Spec

\* An open snapshot keeps its sequence number.
LEMMA OpenKept ==
  ASSUME Inv1, [Next]_vars, NEW u \in Txn, pc[u] \notin {"idle", "opening", "openingAt"}
  PROVE  open'[u] = open[u]
<1>1. ASSUME NEW t \in Txn, Client(t) \/ Step(t) \/ Failure(t), t # u PROVE open'[u] = open[u]
  BY Zenon, <1>1, OthersKept DEF LocalsKept
<1>2. ASSUME Client(u) \/ Step(u) \/ Failure(u) PROVE open' = open
  BY Zenon, <1>2 DEF Client, Failure, Step, BeginOpen, BeginOpenAt, CloseRead, DropUnclosed, Close,
         BeginCommit, FailSequencedWrite, FailLog, FailKeyspaces, OpenSnapshot, RecordReader,
         FreeAfterClose, SequencedWrite, InsertPending, CollectWindows, ReadStatuses,
         ValidateOnDisk, ValidateInWindows, SetValidated, RaiseHighest, SetAborted, Unregister,
         FreeAfterUnregister, WriteKeyspaces, SetApplied, IncrementWatermark, EndIncrement,
         FreeAfterAdvance, PersistStatus, openVars
<1> QED BY Zenon, <1>1, <1>2 DEF Next, Finished, vars

\* What was visible at or below the watermark stays visible.
LEMMA VisibleKept ==
  ASSUME Inv1, Inv2, [Next]_vars, NEW k \in Key, NEW s \in Nat, s <= watermark
  PROVE  UpTo(kv[k], s)' = UpTo(kv[k], s) /\ Visible(k, s)' = Visible(k, s)
<1>1. watermark \in Nat
  BY Zenon, SeqType DEF Inv1
<1>2. \A v \in kv'[k] : v \in kv[k] \/ ~(v.seq <= s)
  <2> SUFFICES ASSUME NEW v \in kv'[k], v \notin kv[k] PROVE ~(v.seq <= s)
    BY Zenon
  <2>1. v.seq \in Slot /\ v.seq > watermark
    BY Zenon, VersionsStep
  <2>2. v.seq \in Nat
    BY <2>1 DEF Slot
  <2> QED BY <1>1, <2>1, <2>2
<1>3. kv[k] \subseteq kv'[k]
  BY Zenon, VersionsStep
<1>4. UpTo(kv[k], s)' = UpTo(kv[k], s)
  BY Zenon, <1>2, <1>3 DEF UpTo
<1> QED BY <1>4 DEF Visible, VisibleIn, Newest

\* Repeatable reads: commits write above the watermark, and a snapshot reads at
\* or below it, so what it reads never changes while it is open.
THEOREM RepeatableReads == Spec => SnapshotStable
<1>1. Inv1 /\ Inv2 /\ Inv4 /\ [Next]_vars =>
        [\A t \in Txn : Live(t) =>
           \A k \in Key : Visible(k, open[t])' = Visible(k, open[t])]_vars
  <2> SUFFICES ASSUME Inv1, Inv2, Inv4, [Next]_vars, NEW t \in Txn, Live(t), NEW k \in Key
               PROVE  Visible(k, open[t])' = Visible(k, open[t])
    BY Zenon
  <2>1. open'[t] = open[t] /\ open[t] <= watermark /\ open[t] \in Nat /\ watermark \in Nat
    BY Zenon, OpenKept, SeqType DEF Live, Inv4, Opens, Inv1, TypeOK
  <2>2. PICK s : s = open[t]
    BY Zenon
  <2>3. Visible(k, s)' = Visible(k, s)
    BY Zenon, <2>1, <2>2, VisibleKept
  <2> QED BY Zenon, <2>1, <2>2, <2>3 DEF Visible
<1> QED BY <1>1, InitInv1, InitInv2, InitInv4, NextInv1, NextInv2, NextInv4, PTL
        DEF Spec, SnapshotStable

-----------------------------------------------------------------------------
(* Layer 7: the reinsert flags.                                              *)

\* The commit at i is decided and writes k.
Wrote(k, i) == Decided(i) /\ log[i].ops.writes[k].op # "None"

\* i is the last commit between a and b that wrote k.
LastWrote(k, a, b, i) ==
    a < i /\ i < b /\ Wrote(k, i) /\ \A j \in Slot : i < j /\ j < b => ~Wrote(k, j)

NoneWrote(k, a, b) == \A i \in Slot : a < i /\ i < b => ~Wrote(k, i)

\* The flags of the Puts of o are right after the commits between a and b: the last
\* commit that wrote the key decides, or what the snapshot saw if there is none.
FlagsAfter(o, flags, a, b) ==
    \A k \in Puts(o) :
        \/ NoneWrote(k, a, b) /\ (k \in flags <=> k \in StalePuts(o, kv, a))
        \/ \E i \in Slot : LastWrote(k, a, b, i)
                           /\ (k \in flags <=> log[i].ops.writes[k].op = "Delete")

\* A commit of o need not wait any more for those between a and b.
Passed(o, a, b) ==
    \A i \in Slot : a < i /\ i < b =>
        /\ status[i] # "Empty"
        /\ status[i] = "Pending" => Independent(o, log[i].ops)

\* The record at a conflicts with the commit of t, which has passed those before it.
Refuted(t) ==
    /\ open[t] < at[t] /\ at[t] < seq[t] /\ at[t] \in Slot
    /\ Decided(at[t]) /\ Conflicts(ops[t], log[at[t]].ops)
    /\ Passed(ops[t], open[t], at[t])

Flagged(t, b) ==
    FlagsAfter(ops[t], reinsert[t], open[t], b) /\ Passed(ops[t], open[t], b)

Flags(t) ==
    /\ pc[t] = "sequencing" => ops[t] \in Ops
    /\ pc[t] \in {"sequencing", "sequenced", "collecting"} =>
          reinsert[t] = StalePuts(ops[t], kv, open[t])
    /\ pc[t] \in Walking => open[t] < at[t] /\ Flagged(t, at[t])
    /\ pc[t] = "conflicting" => Refuted(t)
    /\ seq[t] # 0 => log[seq[t]] = [open |-> open[t], ops |-> ops[t]]
    /\ seq[t] # 0 /\ Decided(seq[t]) => Flagged(t, seq[t])

\* Snapshots commit what they saw, at or below the watermark.
RecordsSeen == \A s \in Slot : log[s] # NoRecord => log[s].open \in Nat /\ log[s].open <= watermark

Inv7 == RecordsSeen /\ \A t \in Txn : Flags(t)

\* No flag is set before the first commit.
LEMMA InitInv7 == Init => Inv7
  BY DEF Init, Inv7, RecordsSeen, Flags, Walking

\* So set_initial_put_status keeps its result.
LEMMA StaleKept ==
  ASSUME Inv1, Inv2, [Next]_vars, NEW o, NEW s \in Nat, s <= watermark
  PROVE  StalePuts(o, kv, s)' = StalePuts(o, kv, s)
<1>1. \A k \in Puts(o) : VisibleIn(kv, k, s)' = VisibleIn(kv, k, s)
  BY Zenon, VisibleKept DEF Visible, Puts
<1> QED BY Zenon, <1>1 DEF StalePuts

\* Commits that were passed while pending do not matter when they are decided.
LEMMA PassedKept ==
  ASSUME Inv1, [Next]_vars, NEW o, NEW a \in Nat, NEW b \in Nat, Passed(o, a, b)
  PROVE  /\ Passed(o, a, b)'
         /\ \A i \in Slot : a < i /\ i < b => log'[i] = log[i]
         /\ \A i \in Slot, k \in Puts(o) : a < i /\ i < b => (Wrote(k, i)' <=> Wrote(k, i))
<1>1. ASSUME NEW i \in Slot, a < i, i < b
      PROVE  /\ status[i] # "Empty" /\ log'[i] = log[i]
             /\ status[i] = "Pending" => Independent(o, log[i].ops)
             /\ status'[i] = status[i] \/ status[i] = "Pending" \/ (Decided(i) /\ Decided(i)')
             /\ status'[i] # "Empty"
             /\ status'[i] = "Pending" => status[i] = "Pending"
  BY Zenon, <1>1, SlotStep DEF Passed, Decided
<1>2. Passed(o, a, b)'
  BY Zenon, <1>1 DEF Passed
<1>3. ASSUME NEW i \in Slot, NEW k \in Puts(o), a < i, i < b
      PROVE  Wrote(k, i)' <=> Wrote(k, i)
  <2>1. status[i] = "Pending" => log[i].ops.writes[k].op = "None"
    BY Zenon, <1>1, <1>3 DEF Independent, DependentPuts
  <2> QED BY Zenon, <1>1, <1>3, <2>1 DEF Wrote, Decided
<1> QED BY Zenon, <1>1, <1>2, <1>3

\* The flags computed so far stay right while other commits go on.
LEMMA FlagsKept ==
  ASSUME Inv1, Inv2, [Next]_vars, NEW o, NEW flags, NEW a \in Nat, NEW b \in Nat,
         a <= watermark, Passed(o, a, b), FlagsAfter(o, flags, a, b)
  PROVE  Passed(o, a, b)' /\ FlagsAfter(o, flags, a, b)'
<1>1. /\ Passed(o, a, b)'
      /\ \A i \in Slot : a < i /\ i < b => log'[i] = log[i]
      /\ \A i \in Slot, k \in Puts(o) : a < i /\ i < b => (Wrote(k, i)' <=> Wrote(k, i))
  BY Zenon, PassedKept
<1>2. StalePuts(o, kv, a)' = StalePuts(o, kv, a)
  BY Zenon, StaleKept
<1>3. ASSUME NEW k \in Puts(o), NoneWrote(k, a, b) PROVE NoneWrote(k, a, b)'
  BY Zenon, <1>1, <1>3 DEF NoneWrote
<1>4. ASSUME NEW k \in Puts(o), NEW i \in Slot, LastWrote(k, a, b, i)
      PROVE  LastWrote(k, a, b, i)' /\ log'[i] = log[i]
  <2>1. a < i /\ i < b /\ log'[i] = log[i] /\ i \in Nat
    BY Zenon, <1>1, <1>4, SeqType DEF LastWrote, Inv1
  <2>2. \A j \in Slot : i < j /\ j < b => a < j
    BY <2>1, SeqType DEF Inv1
  <2> QED BY Zenon, <1>1, <1>4, <2>1, <2>2 DEF LastWrote
<1> QED BY Zenon, <1>1, <1>2, <1>3, <1>4 DEF FlagsAfter

\* Records are written once.
LEMMA LogKept ==
  ASSUME Inv1, [Next]_vars, NEW s \in Slot, s < nextSeq
  PROVE  log'[s] = log[s]
<1>1. ASSUME NEW t \in Txn, SequencedWrite(t) PROVE log'[s] = log[s]
  <2>1. s # nextSeq
    BY SeqType DEF Inv1
  <2> QED BY Zenon, <1>1, <2>1 DEF SequencedWrite, Inv1, TypeOK
<1>2. ASSUME NEW t \in Txn, Client(t) \/ Step(t) \/ Failure(t), ~SequencedWrite(t) PROVE log' = log
  BY Zenon, <1>2 DEF Client, Failure, Step, BeginOpen, BeginOpenAt, CloseRead, DropUnclosed, Close,
         BeginCommit, FailSequencedWrite, FailLog, FailKeyspaces, OpenSnapshot, RecordReader,
         FreeAfterClose, InsertPending, CollectWindows, ReadStatuses,
         ValidateOnDisk, ValidateInWindows, SetValidated, RaiseHighest, SetAborted, Unregister,
         FreeAfterUnregister, WriteKeyspaces, SetApplied, IncrementWatermark, EndIncrement,
         FreeAfterAdvance, PersistStatus, logVars
<1> QED BY Zenon, <1>1, <1>2 DEF Next, Finished, vars

\* A snapshot that has a sequence number has read at or below the watermark.
LEMMA OpenBelow ==
  ASSUME Inv1, Inv4, NEW t \in Txn, pc[t] \notin {"idle", "opening", "openingAt"}
  PROVE  open[t] \in Nat /\ open[t] <= watermark
  BY Zenon DEF Inv1, TypeOK, Inv4, Opens

LEMMA SequencedOpen ==
  ASSUME Inv1, Inv4, NEW t \in Txn, seq[t] # 0
  PROVE  /\ pc[t] \notin Unsequenced /\ open[t] \in Nat /\ open[t] <= watermark
         /\ seq[t] \in Slot /\ seq[t] \in Nat /\ seq[t] < nextSeq
<1>1. pc[t] \notin Unsequenced /\ seq[t] \in Slot /\ seq[t] < nextSeq
  BY Zenon DEF Inv1, TypeOK, SeqOwned
<1>2. pc[t] \notin {"idle", "opening", "openingAt"}
  BY Zenon, <1>1 DEF Unsequenced
<1> QED BY Zenon, <1>1, <1>2, OpenBelow, SeqType DEF Inv1

\* The record of a commit and the flags it was decided with stay.
LEMMA DecidedFlagsKept ==
  ASSUME Inv1, Inv2, Inv4, [Next]_vars, NEW t \in Txn, Flags(t), seq[t] # 0,
         ops'[t] = ops[t], reinsert'[t] = reinsert[t], open'[t] = open[t], seq'[t] = seq[t]
  PROVE  /\ log'[seq[t]] = [open |-> open[t], ops |-> ops[t]]
         /\ Decided(seq[t]) => Flagged(t, seq[t])'
<1>1. /\ open[t] \in Nat /\ open[t] <= watermark /\ seq[t] \in Slot /\ seq[t] \in Nat
      /\ seq[t] < nextSeq
  BY Zenon, SequencedOpen
<1>2. log'[seq[t]] = log[seq[t]]
  BY Zenon, <1>1, LogKept
<1>3. ASSUME Decided(seq[t])
      PROVE  Passed(ops[t], open[t], seq[t])' /\ FlagsAfter(ops[t], reinsert[t], open[t], seq[t])'
  <2>1. PICK o, f, a, b : o = ops[t] /\ f = reinsert[t] /\ a = open[t] /\ b = seq[t]
    BY Zenon
  <2>2. Passed(o, a, b) /\ FlagsAfter(o, f, a, b)
    BY Zenon, <1>3, <2>1 DEF Flags, Flagged
  <2>3. Passed(o, a, b)' /\ FlagsAfter(o, f, a, b)'
    BY Zenon, <1>1, <2>1, <2>2, FlagsKept
  <2> QED BY Zenon, <2>1, <2>3
<1> QED BY Zenon, <1>2, <1>3 DEF Flags, Flagged

\* Steps of other threads leave the flags of a commit right.
LEMMA OthersFlags ==
  ASSUME Inv1, Inv2, Inv4, [Next]_vars, NEW u \in Txn, Flags(u), LocalsKept(u),
         seq[u] # 0 => status'[seq[u]] = status[seq[u]]
  PROVE  Flags(u)'
<1> USE DEF LocalsKept
<1>1. pc[u] \in {"sequencing", "sequenced", "collecting"} =>
        StalePuts(ops[u], kv, open[u])' = StalePuts(ops[u], kv, open[u])
  <2> SUFFICES ASSUME pc[u] \in {"sequencing", "sequenced", "collecting"}
               PROVE  StalePuts(ops[u], kv, open[u])' = StalePuts(ops[u], kv, open[u])
    BY Zenon
  <2>1. PICK o, a : o = ops[u] /\ a = open[u]
    BY Zenon
  <2>2. a \in Nat /\ a <= watermark
    BY Zenon, <2>1, OpenBelow
  <2>3. StalePuts(o, kv, a)' = StalePuts(o, kv, a)
    BY Zenon, <2>2, StaleKept
  <2> QED BY Zenon, <2>1, <2>3
<1>2. ASSUME pc[u] \in Walking PROVE Flagged(u, at[u])'
  <2>1. PICK o, f, a, b : o = ops[u] /\ f = reinsert[u] /\ a = open[u] /\ b = at[u]
    BY Zenon
  <2>2. a \in Nat /\ a <= watermark /\ b \in Nat
    BY Zenon, <1>2, <2>1, OpenBelow DEF Walking, Inv1, TypeOK
  <2>3. Passed(o, a, b) /\ FlagsAfter(o, f, a, b)
    BY Zenon, <1>2, <2>1 DEF Flags, Flagged
  <2>4. Passed(o, a, b)' /\ FlagsAfter(o, f, a, b)'
    BY Zenon, <2>2, <2>3, FlagsKept
  <2> QED BY Zenon, <2>1, <2>4 DEF Flagged
<1>3. ASSUME pc[u] = "conflicting" PROVE Refuted(u)'
  <2>1. PICK o, a, b : o = ops[u] /\ a = open[u] /\ b = at[u]
    BY Zenon
  <2>2. a \in Nat /\ b \in Nat /\ b \in Slot /\ Decided(b)
    BY Zenon, <1>3, <2>1 DEF Inv1, TypeOK, Flags, Refuted
  <2>3. Passed(o, a, b)'
    BY Zenon, <1>3, <2>1, <2>2, PassedKept DEF Flags, Refuted
  <2>4. Decided(b)' /\ log'[b] = log[b]
    BY Zenon, <2>2, SlotStep DEF Decided
  <2> QED BY Zenon, <1>3, <2>1, <2>3, <2>4 DEF Flags, Refuted
<1>4. seq[u] # 0 => /\ log'[seq[u]] = [open |-> open[u], ops |-> ops[u]]
                    /\ Decided(seq[u])' => Flagged(u, seq[u])'
  BY Zenon, DecidedFlagsKept DEF Decided
<1> QED BY Zenon, <1>1, <1>2, <1>3, <1>4 DEF Flags

\* One more predecessor is compared.
LEMMA FlagsOn ==
  ASSUME NEW o, NEW flags, NEW a \in Nat, NEW b \in Nat, a < b,
         FlagsAfter(o, flags, a, b), Passed(o, a, b),
         b \in Slot => /\ status[b] # "Empty"
                       /\ status[b] = "Pending" => Independent(o, log[b].ops),
         \A s \in Slot : s \in Nat, log \in [Slot -> Record \cup {NoRecord}],
         b \in Slot => log[b] # NoRecord
  PROVE  /\ Passed(o, a, b + 1)
         /\ b \in Slot /\ Decided(b) => FlagsAfter(o, Reinserts(o, log[b].ops, flags), a, b + 1)
         /\ ~(b \in Slot /\ Decided(b)) => FlagsAfter(o, flags, a, b + 1)
<1>1. \A i \in Slot : (a < i /\ i < b + 1) <=> ((a < i /\ i < b) \/ i = b)
  OBVIOUS
<1>2. Passed(o, a, b + 1)
  BY Zenon, <1>1 DEF Passed
<1>3. \A i \in Slot : \A j \in Slot : (i < j /\ j < b + 1) => ((i < j /\ j < b) \/ j = b)
  OBVIOUS
<1>4. \A i \in Slot : i < b => i < b + 1
  OBVIOUS
<1>5. ASSUME NEW k \in Puts(o), ~(b \in Slot /\ Wrote(k, b))
      PROVE  /\ NoneWrote(k, a, b) => NoneWrote(k, a, b + 1)
             /\ \A i \in Slot : LastWrote(k, a, b, i) => LastWrote(k, a, b + 1, i)
  BY Zenon, <1>1, <1>3, <1>4, <1>5 DEF NoneWrote, LastWrote
<1>6. ASSUME ~(b \in Slot /\ Decided(b)) PROVE FlagsAfter(o, flags, a, b + 1)
  BY Zenon, <1>5, <1>6 DEF FlagsAfter, Wrote
<1>7. ASSUME b \in Slot, Decided(b) PROVE FlagsAfter(o, Reinserts(o, log[b].ops, flags), a, b + 1)
  <2> SUFFICES ASSUME NEW k \in Puts(o)
               PROVE  \/ /\ NoneWrote(k, a, b + 1)
                         /\ k \in Reinserts(o, log[b].ops, flags) <=> k \in StalePuts(o, kv, a)
                      \/ \E i \in Slot : /\ LastWrote(k, a, b + 1, i)
                                         /\ k \in Reinserts(o, log[b].ops, flags)
                                              <=> log[i].ops.writes[k].op = "Delete"
    BY Zenon DEF FlagsAfter
  <2>1. CASE Wrote(k, b)
    <3>1. LastWrote(k, a, b + 1, b)
      <4>1. ~\E j \in Slot : b < j /\ j < b + 1
        OBVIOUS
      <4> QED BY <2>1, <4>1 DEF LastWrote
    <3>2. k \in Reinserts(o, log[b].ops, flags) <=> log[b].ops.writes[k].op = "Delete"
      <4>1. log[b].ops \in Buffer /\ k \in Key
        BY Zenon, <1>7 DEF Record, Puts
      <4>2. log[b].ops.writes[k].op \in {"Insert", "Put", "Delete"}
        BY <2>1, <4>1 DEF Buffer, Write, NoWrite, Wrote
      <4> QED BY Zenon, <2>1, <4>2 DEF Wrote, Reinserts, DependentPuts
    <3> QED BY Zenon, <1>7, <3>1, <3>2
  <2>2. CASE ~Wrote(k, b)
    <3>1. k \in Reinserts(o, log[b].ops, flags) <=> k \in flags
      BY Zenon, <1>7, <2>2 DEF Wrote, Reinserts, DependentPuts
    <3> QED BY Zenon, <1>5, <2>2, <3>1 DEF FlagsAfter
  <2> QED BY Zenon, <2>1, <2>2
<1> QED BY Zenon, <1>2, <1>6, <1>7

\* snapshot_commit up to the collection of the windows: the flags are those of
\* set_initial_put_status.
LEMMA InitialFlags ==
  ASSUME Inv1, Inv2, Inv4, [Next]_vars, NEW t \in Txn, Flags(t),
         \/ BeginCommit(t) \/ SequencedWrite(t) \/ InsertPending(t) \/ CollectWindows(t)
  PROVE  Flags(t)'
<1> USE DEF Goto, openVars, commitVars, logVars
<1>0. /\ pc \in [Txn -> PCs] /\ seq \in [Txn -> Slot \cup {0}] /\ ops \in [Txn -> Buffer]
      /\ reinsert \in [Txn -> SUBSET Key] /\ at \in [Txn -> Nat] /\ log \in [Slot -> Record \cup {NoRecord}]
      /\ status \in [Slot -> {"Empty", "Pending", "Validated", "Applied", "Aborted"}]
  BY Zenon DEF Inv1, TypeOK
<1>1. CASE BeginCommit(t)
  <2>0. PICK o \in Ops : /\ ops' = [ops EXCEPT ![t] = o]
                         /\ reinsert' = [reinsert EXCEPT ![t] = InitialReinsert(o, open[t])]
    BY Zenon, <1>1 DEF BeginCommit
  <2>1. ops'[t] = o /\ reinsert'[t] = StalePuts(o, kv, open[t])
    BY Zenon, <1>0, <2>0 DEF InitialReinsert
  <2>2. pc[t] = "open" /\ pc'[t] = "sequencing" /\ UNCHANGED <<kv, open, seq>>
    BY Zenon, <1>0, <1>1 DEF BeginCommit
  <2>3. seq[t] = 0
    BY Zenon, <2>2 DEF Inv1, SeqOwned, Unsequenced
  <2>4. StalePuts(ops[t], kv, open[t])' = StalePuts(o, kv, open[t])
    BY Zenon, <2>1, <2>2
  <2> QED BY Zenon, <2>1, <2>2, <2>3, <2>4 DEF Flags, Walking
<1>2. CASE SequencedWrite(t)
  <2>1. /\ pc[t] = "sequencing" /\ pc'[t] = "sequenced" /\ UNCHANGED <<kv, open, ops, reinsert, status>>
        /\ nextSeq <= MaxSeq /\ seq'[t] = nextSeq
    BY Zenon, <1>0, <1>2 DEF SequencedWrite
  <2>2. nextSeq \in Slot
    BY Zenon, <2>1, NextSlot
  <2>3. log'[nextSeq] = [open |-> open[t], ops |-> ops[t]]
    BY Zenon, <1>0, <1>2, <2>2 DEF SequencedWrite
  <2>4. status[nextSeq] = "Empty"
    BY <2>2, SeqType DEF Inv1, RecordKept
  <2>5. ~Decided(seq[t])'
    BY Zenon, <2>1, <2>4 DEF Decided
  <2>6. reinsert[t] = StalePuts(ops[t], kv, open[t])
    BY Zenon, <2>1 DEF Flags
  <2>7. StalePuts(ops[t], kv, open[t])' = StalePuts(ops[t], kv, open[t])
    BY Zenon, <2>1
  <2> QED BY Zenon, <2>1, <2>3, <2>5, <2>6, <2>7 DEF Flags, Walking
<1>3. CASE InsertPending(t)
  <2>1. /\ pc[t] = "sequenced" /\ pc'[t] = "collecting"
        /\ UNCHANGED <<kv, open, ops, reinsert, seq, log>>
        /\ status' = [status EXCEPT ![seq[t]] = "Pending"]
    BY Zenon, <1>0, <1>3 DEF InsertPending
  <2>2. seq[t] \in Slot
    BY Zenon, <1>0, <2>1 DEF Inv1, SeqOwned, Committing
  <2>3. ~Decided(seq[t])'
    BY Zenon, <1>0, <2>1, <2>2 DEF Decided
  <2>4. StalePuts(ops[t], kv, open[t])' = StalePuts(ops[t], kv, open[t])
    BY Zenon, <2>1
  <2> QED BY Zenon, <2>1, <2>3, <2>4 DEF Flags, Walking
<1>4. CASE CollectWindows(t)
  <2>1. /\ pc[t] = "collecting" /\ pc'[t] \in {"readingStatuses", "validating"}
        /\ UNCHANGED <<kv, open, ops, reinsert, seq, log, status>> /\ at'[t] = open[t] + 1
    BY Zenon, <1>0, <1>4 DEF CollectWindows
  <2>2. status[seq[t]] = "Pending"
    BY Zenon, <2>1 DEF Inv1, SlotFollows, Deciding
  <2>3. ~Decided(seq[t])'
    BY Zenon, <2>1, <2>2 DEF Decided
  <2>4. open[t] < at'[t] /\ \A i \in Slot : ~(open[t] < i /\ i < at'[t])
    <3>1. \A n \in Nat : n < n + 1 /\ \A i \in Nat : ~(n < i /\ i < n + 1)
      OBVIOUS
    <3> QED BY Zenon, <2>1, <3>1, Numbers, SeqType DEF Inv1
  <2>5. reinsert[t] = StalePuts(ops[t], kv, open[t])
    BY Zenon, <2>1 DEF Flags
  <2>6. StalePuts(ops[t], kv, open[t])' = StalePuts(ops[t], kv, open[t])
    BY Zenon, <2>1
  <2>7. Flagged(t, at[t])'
    BY Zenon, <2>1, <2>4, <2>5, <2>6 DEF Flagged, FlagsAfter, Passed, NoneWrote
  <2> QED BY Zenon, <2>1, <2>3, <2>4, <2>7 DEF Flags, Walking
<1> QED BY Zenon, <1>1, <1>2, <1>3, <1>4

\* The validation of t goes over the predecessor at hand.
LEMMA WalkFlags ==
  ASSUME Inv1, Inv2, Inv4, [Next]_vars, NEW t \in Txn, Flags(t), pc[t] \in Walking, pc'[t] \in Walking,
         at'[t] = at[t] + 1, UNCHANGED <<open, ops, seq, kv, log, status>>,
         at[t] \in Slot =>
            status[at[t]] # "Empty" /\ (status[at[t]] = "Pending" => Independent(ops[t], log[at[t]].ops)),
         reinsert'[t] = IF at[t] \in Slot /\ Decided(at[t])
                        THEN Reinserts(ops[t], log[at[t]].ops, reinsert[t]) ELSE reinsert[t]
  PROVE  Flags(t)'
<1>1. open[t] \in Nat /\ at[t] \in Nat /\ open[t] < at[t] /\ open[t] < at[t] + 1
  <2>1. open[t] < at[t]
    BY Zenon DEF Flags
  <2> QED BY Zenon, <2>1, Numbers, NatOrder
<1>2. FlagsAfter(ops[t], reinsert[t], open[t], at[t]) /\ Passed(ops[t], open[t], at[t])
  BY Zenon DEF Flags, Flagged
<1>3. (\A s \in Slot : s \in Nat) /\ log \in [Slot -> Record \cup {NoRecord}]
      /\ (at[t] \in Slot => log[at[t]] # NoRecord)
  BY Zenon, SeqType DEF Inv1, TypeOK, RecordKept
<1>4. /\ Passed(ops[t], open[t], at[t] + 1)
      /\ FlagsAfter(ops[t], reinsert'[t], open[t], at[t] + 1)
  <2>1. PICK o, f, a, b : o = ops[t] /\ f = reinsert[t] /\ a = open[t] /\ b = at[t]
    BY Zenon
  <2>2. /\ a \in Nat /\ b \in Nat /\ a < b /\ FlagsAfter(o, f, a, b) /\ Passed(o, a, b)
        /\ b \in Slot => status[b] # "Empty" /\ log[b] # NoRecord
        /\ b \in Slot /\ status[b] = "Pending" => Independent(o, log[b].ops)
    BY Zenon, <1>1, <1>2, <1>3, <2>1
  <2>3. /\ Passed(o, a, b + 1)
        /\ b \in Slot /\ Decided(b) => FlagsAfter(o, Reinserts(o, log[b].ops, f), a, b + 1)
        /\ ~(b \in Slot /\ Decided(b)) => FlagsAfter(o, f, a, b + 1)
    BY Zenon, <1>3, <2>2, FlagsOn
  <2> QED BY Zenon, <2>1, <2>3
<1>5. Flagged(t, at[t])'
  <2>1. PICK o, f, a, b : o = ops[t] /\ f = reinsert'[t] /\ a = open[t] /\ b = at[t] + 1
    BY Zenon
  <2>2. a \in Nat /\ a <= watermark /\ b \in Nat
    BY Zenon, <1>1, <2>1, OpenBelow, NatOrder DEF Walking
  <2>3. Passed(o, a, b) /\ FlagsAfter(o, f, a, b)
    BY Zenon, <1>4, <2>1
  <2>4. Passed(o, a, b)' /\ FlagsAfter(o, f, a, b)'
    BY Zenon, <2>2, <2>3, FlagsKept
  <2> QED BY Zenon, <2>1, <2>4 DEF Flagged
<1>6. seq[t] # 0 /\ status[seq[t]] = "Pending" /\ ~Decided(seq[t])'
  BY Zenon DEF Inv1, SeqOwned, SlotFollows, Walking, Deciding, Committing, Decided
<1> QED BY ZenonT(40), <1>1, <1>5, <1>6 DEF Flags, Walking

\* A validation that has found a conflict
LEMMA ConflictFlags ==
  ASSUME Inv1, Inv2, Inv4, [Next]_vars, NEW t \in Txn, Flags(t), pc[t] \in Walking,
         pc'[t] = "conflicting", UNCHANGED <<open, ops, seq, at, log, status>>,
         at[t] \in Slot, at[t] < seq[t], Decided(at[t]), Conflicts(ops[t], log[at[t]].ops)
  PROVE  Flags(t)'
<1>1. open[t] < at[t] /\ Passed(ops[t], open[t], at[t]) /\ open[t] \in Nat /\ at[t] \in Nat
  BY Zenon DEF Flags, Flagged, Inv1, TypeOK
<1>2. Passed(ops[t], open[t], at[t])'
  <2>1. PICK o, a, b : o = ops[t] /\ a = open[t] /\ b = at[t]
    BY Zenon
  <2>2. Passed(o, a, b)'
    BY Zenon, <1>1, <2>1, PassedKept
  <2> QED BY Zenon, <2>1, <2>2
<1>3. Refuted(t)'
  BY Zenon, <1>1, <1>2 DEF Refuted, Decided
<1>4. seq[t] # 0 /\ status[seq[t]] = "Pending" /\ ~Decided(seq[t])'
  BY Zenon DEF Inv1, SeqOwned, SlotFollows, Walking, Deciding, Committing, Decided
<1> QED BY Zenon, <1>3, <1>4 DEF Flags, Walking

\* validate_concurrent_from_disk: the records there are settled, and the outcomes
\* read for them are right.
LEMMA OnDiskFlags ==
  ASSUME Inv1, Inv2, Inv4, [Next]_vars, NEW t \in Txn, Flags(t), Walk(t), Truthful(known[t]),
         ValidateOnDisk(t)
  PROVE  Flags(t)'
<1> DEFINE s == at[t]
           Compare == s >= First /\ log[s] # NoRecord /\ known[t][s] = "Committed"
<1>0. pc \in [Txn -> PCs] /\ at \in [Txn -> Nat] /\ reinsert \in [Txn -> SUBSET Key]
  BY Zenon DEF Inv1, TypeOK
<1>1. pc[t] = "onDisk" /\ UNCHANGED <<open, ops, seq, kv, log, status>>
  BY Zenon DEF ValidateOnDisk, openVars, logVars
<1>2. s \in Nat /\ first[t] \in Nat /\ watermark \in Nat /\ s < first[t] /\ first[t] >= First
      /\ watermark <= MaxSeq /\ (first[t] = First \/ first[t] <= watermark)
  BY <1>1 DEF Walk, Inv1, TypeOK
<1>3. s >= First => s \in Slot /\ s <= watermark
  BY <1>2 DEF Slot
<1>4. s \in Slot => s >= First
  BY Zenon, SeqType DEF Inv1
<1>5. s \in Slot => status[s] \in {"Aborted", "Applied"} /\ log[s] # NoRecord
  BY Zenon, <1>3, <1>4 DEF Inv2, WatermarkSettled, Settled, Inv1, RecordKept
<1>6. ASSUME known[t][s] # "None" \/ ~(s >= First)
      PROVE  Compare <=> s \in Slot /\ Decided(s)
  <2>1. s \in Slot => known[t][s] \in {"Committed", "Rejected"}
    BY SMTT(40), <1>4, <1>6 DEF Inv1, TypeOK
  <2> QED BY Zenon, <1>3, <1>4, <1>5, <2>1 DEF Truthful, Decided
<1>7. seq[t] # 0 /\ status[seq[t]] = "Pending" /\ seq[t] \in Slot
  BY Zenon, <1>1 DEF Inv1, TypeOK, SeqOwned, SlotFollows, Deciding, Committing
<1>8. s >= First => s < seq[t]
  <2>1. ~(seq[t] <= watermark)
    BY Zenon, <1>7 DEF Inv2, WatermarkSettled, Settled
  <2> QED BY SMTT(40), <1>2, <1>3, <1>7, <2>1, SeqType DEF Inv1
<1>9. CASE s >= First /\ log[s] # NoRecord /\ known[t][s] = "None"
  <2>1. pc'[t] = "panicked"
    BY Zenon, <1>0, <1>9 DEF ValidateOnDisk, Goto
  <2> QED BY Zenon, <1>1, <1>7, <2>1 DEF Flags, Walking, Decided
<1>10. CASE ~(s >= First /\ log[s] # NoRecord /\ known[t][s] = "None")
            /\ Compare /\ Conflicts(ops[t], log[s].ops)
  <2>1. pc'[t] = "conflicting" /\ at' = at
    BY Zenon, <1>0, <1>10 DEF ValidateOnDisk, Goto
  <2>2. s \in Slot /\ Decided(s) /\ s < seq[t]
    BY Zenon, <1>6, <1>8, <1>10
  <2> QED BY Zenon, <1>1, <1>10, <2>1, <2>2, ConflictFlags DEF Walking
<1>11. CASE ~(s >= First /\ log[s] # NoRecord /\ known[t][s] = "None")
            /\ ~(Compare /\ Conflicts(ops[t], log[s].ops))
  <2>1. /\ reinsert' = [reinsert EXCEPT ![t] =
                          IF Compare THEN Reinserts(ops[t], log[s].ops, reinsert[t]) ELSE reinsert[t]]
        /\ at' = [at EXCEPT ![t] = s + 1]
        /\ pc' = [pc EXCEPT ![t] = IF s + 1 < first[t] THEN "onDisk" ELSE "validating"]
    BY Zenon, <1>11 DEF ValidateOnDisk, Goto
  <2>2. pc'[t] \in {"onDisk", "validating"} /\ at'[t] = s + 1
    BY Zenon, <1>0, <2>1
  <2>3. Compare <=> s \in Slot /\ Decided(s)
    BY Zenon, <1>3, <1>5, <1>6, <1>11
  <2>4. reinsert'[t] = IF s \in Slot /\ Decided(s) THEN Reinserts(ops[t], log[s].ops, reinsert[t])
                                                   ELSE reinsert[t]
    BY Zenon, <1>0, <2>1, <2>3
  <2>5. s \in Slot => status[s] # "Empty" /\ status[s] # "Pending"
    BY Zenon, <1>5
  <2> HIDE DEF s, Compare
  <2> QED BY ZenonT(40), <1>1, <2>2, <2>4, <2>5, WalkFlags DEF Walking, s
<1> QED BY Zenon, <1>9, <1>10, <1>11

\* validate_concurrent_from_windows
LEMMA InWindowsFlags ==
  ASSUME Inv1, Inv2, Inv4, [Next]_vars, NEW t \in Txn, Flags(t), Walk(t), ValidateInWindows(t)
  PROVE  Flags(t)'
<1> DEFINE s == at[t]
<1>0. pc \in [Txn -> PCs] /\ at \in [Txn -> Nat] /\ reinsert \in [Txn -> SUBSET Key]
  BY Zenon DEF Inv1, TypeOK
<1>1. pc[t] = "validating" /\ UNCHANGED <<open, ops, seq, kv, log, status>>
      /\ s < seq[t] /\ Resolved(t, s) /\ s \in Nat /\ s >= First
  BY Zenon DEF ValidateInWindows, openVars, logVars, Walk, Inv1, TypeOK
<1>2. s \in Slot
  <2>1. \A x \in Nat, y \in Slot \cup {0} : x < y /\ x >= First => x \in Slot
    BY DEF Slot
  <2> QED BY Zenon, <1>1, <2>1 DEF Inv1, TypeOK
<1>3. CASE Decided(s) /\ Conflicts(ops[t], log[s].ops)
  <2>1. pc'[t] = "conflicting" /\ at' = at
    BY Zenon, <1>0, <1>3 DEF ValidateInWindows, Goto, Decided
  <2> QED BY Zenon, <1>1, <1>2, <1>3, <2>1, ConflictFlags DEF Walking
<1>4. CASE ~(Decided(s) /\ Conflicts(ops[t], log[s].ops))
  <2>1. /\ reinsert' = [reinsert EXCEPT ![t] =
                          IF Decided(s) THEN Reinserts(ops[t], log[s].ops, reinsert[t]) ELSE reinsert[t]]
        /\ at' = [at EXCEPT ![t] = s + 1] /\ pc' = pc
    BY Zenon, <1>4 DEF ValidateInWindows, Decided
  <2>2. at'[t] = s + 1 /\ pc'[t] = "validating"
        /\ reinsert'[t] = IF s \in Slot /\ Decided(s) THEN Reinserts(ops[t], log[s].ops, reinsert[t])
                                                      ELSE reinsert[t]
    BY Zenon, <1>0, <1>1, <1>2, <2>1
  <2>3. status[s] # "Empty" /\ (status[s] = "Pending" => Independent(ops[t], log[s].ops))
    BY Zenon, <1>1 DEF Resolved
  <2> QED BY Zenon, <1>1, <2>2, <2>3, WalkFlags DEF Walking
<1> QED BY Zenon, <1>3, <1>4

\* iterate_commit_status_from_disk
LEMMA ReadFlags ==
  ASSUME Inv1, Inv2, Inv4, [Next]_vars, Durable, NEW t \in Txn, Flags(t), ReadStatuses(t)
  PROVE  Flags(t)'
<1>1. /\ pc[t] = "readingStatuses" /\ pc'[t] = "onDisk"
      /\ UNCHANGED <<open, ops, reinsert, seq, at, log, status>>
  BY Zenon DEF ReadStatuses, Goto, openVars, commitVars, logVars, Inv1, TypeOK
<1>2. open[t] < at[t] /\ open[t] \in Nat /\ at[t] \in Nat /\ open[t] <= watermark
  BY Zenon, <1>1, OpenBelow DEF Flags, Walking, Inv1, TypeOK
<1>3. Flagged(t, at[t])'
  <2>1. PICK o, f, a, b : o = ops[t] /\ f = reinsert[t] /\ a = open[t] /\ b = at[t]
    BY Zenon
  <2>2. Passed(o, a, b) /\ FlagsAfter(o, f, a, b)
    BY Zenon, <1>1, <2>1 DEF Flags, Flagged, Walking
  <2>3. Passed(o, a, b)' /\ FlagsAfter(o, f, a, b)'
    BY Zenon, <1>2, <2>1, <2>2, FlagsKept
  <2> QED BY Zenon, <1>1, <2>1, <2>3 DEF Flagged
<1>4. seq[t] # 0 /\ status[seq[t]] = "Pending" /\ ~Decided(seq[t])'
  BY Zenon, <1>1 DEF Inv1, SeqOwned, SlotFollows, Deciding, Committing, Decided
<1> QED BY Zenon, <1>1, <1>2, <1>3, <1>4 DEF Flags, Walking

\* set_validated: the validation has come to the commit itself.
LEMMA ValidatedFlags ==
  ASSUME Inv1, Inv2, Inv4, [Next]_vars, NEW t \in Txn, Flags(t), SetValidated(t)
  PROVE  Flags(t)'
<1>1. /\ pc[t] = "validating" /\ at[t] = seq[t] /\ pc'[t] = "validated"
      /\ UNCHANGED <<open, ops, reinsert, seq, log>>
  BY Zenon DEF SetValidated, Goto, openVars, commitVars, logVars, Inv1, TypeOK
<1>2. open[t] \in Nat /\ at[t] \in Nat /\ open[t] <= watermark /\ seq[t] # 0
  BY ZenonT(40), <1>1, OpenBelow DEF Inv1, TypeOK, SeqOwned, Committing, Deciding
<1>3. Flagged(t, seq[t])'
  <2>1. PICK o, f, a, b : o = ops[t] /\ f = reinsert[t] /\ a = open[t] /\ b = at[t]
    BY Zenon
  <2>2. Passed(o, a, b) /\ FlagsAfter(o, f, a, b)
    BY Zenon, <1>1, <2>1 DEF Flags, Flagged, Walking
  <2>3. Passed(o, a, b)' /\ FlagsAfter(o, f, a, b)'
    BY Zenon, <1>2, <2>1, <2>2, FlagsKept
  <2> QED BY Zenon, <1>1, <2>1, <2>3 DEF Flagged
<1> QED BY Zenon, <1>1, <1>3 DEF Flags, Walking

\* The steps before a commit, and those after its decision
LEMMA OtherFlags ==
  ASSUME Inv1, Inv2, Inv4, [Next]_vars, NEW t \in Txn, Flags(t), Client(t) \/ Step(t) \/ Failure(t),
         ~BeginCommit(t), ~SequencedWrite(t), ~InsertPending(t), ~CollectWindows(t),
         ~ReadStatuses(t), ~ValidateOnDisk(t), ~ValidateInWindows(t), ~SetValidated(t)
  PROVE  Flags(t)'
<1> USE DEF Goto, openVars, commitVars
<1> DEFINE quiet == {"sequencing", "sequenced", "collecting", "conflicting"} \cup Walking
<1>0. pc \in [Txn -> PCs]
  BY Zenon DEF Inv1, TypeOK
<1>1. pc'[t] \notin quiet /\ UNCHANGED <<ops, reinsert, seq>> /\ (open' = open \/ pc[t] \in Unsequenced)
      /\ (pc[t] \in Deciding => pc[t] = "conflicting" \/ UNCHANGED status)
  <2>1. CASE Client(t) \/ Failure(t)
    <3>1. CASE Failure(t)
      BY ZenonT(40), <1>0, <3>1 DEF Failure, FailSequencedWrite, FailLog, FailKeyspaces, Walking
    <3>2. CASE BeginOpen(t) \/ BeginOpenAt(t)
      BY ZenonT(40), <1>0, <3>2 DEF BeginOpen, BeginOpenAt, Walking
    <3>3. CASE CloseRead(t) \/ DropUnclosed(t) \/ Close(t)
      BY ZenonT(40), <1>0, <3>3 DEF CloseRead, DropUnclosed, Close, RemoveReader, Walking
    <3> QED BY Zenon, <2>1, <3>1, <3>2, <3>3 DEF Client
  <2>2. CASE OpenSnapshot(t) \/ RecordReader(t) \/ FreeAfterClose(t)
    BY ZenonT(40), <1>0, <2>2 DEF OpenSnapshot, RecordReader, FreeAfterClose, Walking, Unsequenced, Deciding
  <2>3. CASE RaiseHighest(t) \/ Unregister(t) \/ FreeAfterUnregister(t) \/ WriteKeyspaces(t)
             \/ SetApplied(t) \/ SetAborted(t)
    BY ZenonT(40), <1>0, <2>3 DEF RaiseHighest, SetAborted, Unregister, RemoveReader, FreeAfterUnregister,
              WriteKeyspaces, SetApplied, AfterUnregister, Walking, Deciding
  <2>4. CASE IncrementWatermark(t) \/ EndIncrement(t) \/ FreeAfterAdvance(t) \/ PersistStatus(t)
    BY Zenon, <1>0, <2>4 DEF IncrementWatermark, EndIncrement, FreeAfterAdvance, PersistStatus, AfterAdvance,
              Walking, Deciding
  <2> QED BY ZenonT(40), <2>1, <2>2, <2>3, <2>4 DEF Client, Step
<1>2. ASSUME seq[t] # 0
      PROVE  /\ log'[seq[t]] = [open |-> open[t], ops |-> ops[t]] /\ open' = open
             /\ Decided(seq[t])' => Flagged(t, seq[t])'
  <2>1. open' = open /\ seq[t] \in Slot
    BY Zenon, <1>1, <1>2, SequencedOpen
  <2>2. Decided(seq[t])' => Decided(seq[t])
    <3>1. status' = status \/ SetAborted(t) \/ SetApplied(t)
      BY Zenon DEF Client, Failure, Step, BeginOpen, BeginOpenAt, CloseRead, DropUnclosed, Close,
         FailSequencedWrite, FailLog, FailKeyspaces, OpenSnapshot, RecordReader,
         FreeAfterClose, RaiseHighest, Unregister, FreeAfterUnregister, WriteKeyspaces,
         IncrementWatermark, EndIncrement, FreeAfterAdvance, PersistStatus
    <3>2. SetAborted(t) => status'[seq[t]] = "Aborted"
      BY Zenon, <2>1 DEF SetAborted, Inv1, TypeOK
    <3>3. SetApplied(t) => status[seq[t]] = "Validated"
      BY Zenon DEF SetApplied, Inv1, SlotFollows
    <3> QED BY Zenon, <1>1, <3>1, <3>2, <3>3 DEF Decided
  <2> QED BY Zenon, <1>1, <1>2, <2>1, <2>2, DecidedFlagsKept
<1> QED BY Zenon, <1>1, <1>2 DEF Flags, Walking

\* Every step preserves the seventh layer.
LEMMA NextInv7 == Durable /\ Inv1 /\ Inv2 /\ Inv3 /\ Inv4 /\ Inv7 /\ [Next]_vars => Inv7'
<1> SUFFICES ASSUME Durable, Inv1, Inv2, Inv3, Inv4, Inv7, [Next]_vars PROVE Inv7'
    BY Zenon
<1>1. RecordsSeen'
  <2> SUFFICES ASSUME NEW s \in Slot, log'[s] # NoRecord
               PROVE  log'[s].open \in Nat /\ log'[s].open <= watermark'
    BY Zenon DEF RecordsSeen
  <2>1. watermark \in Nat /\ watermark' \in Nat /\ watermark <= watermark'
    <3>1. Inv1'
      BY Zenon, NextInv1
    <3> QED BY <3>1, MarksRise DEF Inv1, TypeOK
  <2>2. CASE log'[s] = log[s]
    BY <2>1, <2>2 DEF Inv7, RecordsSeen
  <2>3. CASE log'[s] # log[s]
    <3>1. PICK t \in Txn : SequencedWrite(t)
      <4>1. ASSUME NEW t \in Txn, Client(t) \/ Step(t) \/ Failure(t), ~SequencedWrite(t) PROVE log' = log
        BY ZenonT(40), <4>1 DEF Client, Failure, Step, BeginOpen, BeginOpenAt, CloseRead, DropUnclosed, Close,
           BeginCommit, FailSequencedWrite, FailLog, FailKeyspaces, OpenSnapshot, RecordReader,
           FreeAfterClose, InsertPending, CollectWindows, ReadStatuses,
           ValidateOnDisk, ValidateInWindows, SetValidated, RaiseHighest, SetAborted, Unregister,
           FreeAfterUnregister, WriteKeyspaces, SetApplied, IncrementWatermark, EndIncrement,
           FreeAfterAdvance, PersistStatus, logVars
      <4> QED BY Zenon, <2>3, <4>1 DEF Next, Finished, vars
    <3>2. log'[s] = [open |-> open[t], ops |-> ops[t]]
      BY Zenon, <2>3, <3>1 DEF SequencedWrite, Inv1, TypeOK
    <3>3. open[t] \in Nat /\ open[t] <= watermark
      BY Zenon, <3>1, OpenBelow DEF SequencedWrite
    <3> QED BY <2>1, <3>2, <3>3
  <2> QED BY Zenon, <2>2, <2>3
<1>2. ASSUME NEW t \in Txn, Client(t) \/ Step(t) \/ Failure(t), NEW u \in Txn PROVE Flags(u)'
  <2>1. CASE u # t
    BY Zenon, <1>2, <2>1, OthersKept, OthersSlots, OthersFlags DEF Inv7
  <2>2. CASE u = t
    <3>1. Flags(t) /\ Walk(t) /\ Truthful(known[t])
      BY Zenon DEF Inv7, Inv3
    <3> QED BY Zenon, <1>2, <2>2, <3>1, InitialFlags, ReadFlags, OnDiskFlags, InWindowsFlags,
               ValidatedFlags, OtherFlags
  <2> QED BY Zenon, <2>1, <2>2
<1>3. ASSUME UNCHANGED vars, NEW u \in Txn PROVE Flags(u)'
  <2>1. LocalsKept(u) /\ status' = status
    BY Zenon, <1>3 DEF vars, LocalsKept
  <2> QED BY Zenon, <2>1, OthersFlags DEF Inv7
<1>4. \A u \in Txn : Flags(u)'
  BY Zenon, <1>2, <1>3 DEF Next, Finished
<1> QED BY Zenon, <1>1, <1>4 DEF Inv7

-----------------------------------------------------------------------------
(* Layer 8: the versions that a commit has written.                          *)

\* The versions with the number of a commit are those of its batch, and all of
\* them are there once the batch is written.
VersionsOf(t) ==
    seq[t] # 0 =>
        \A k \in Key :
            /\ \A v \in kv[k] : v.seq = seq[t] => v \in NewVersions(k, seq[t], ops[t], reinsert[t])
            /\ pc[t] = "applying" \/ status[seq[t]] = "Applied" =>
                  NewVersions(k, seq[t], ops[t], reinsert[t]) \subseteq kv[k]

\* Slots are filled by commits.
SlotsOwned == \A s \in Slot : status[s] # "Empty" => \E t \in Txn : seq[t] = s

Inv8 == SlotsOwned /\ \A t \in Txn : VersionsOf(t)

\* Nothing is committed at the start.
LEMMA InitInv8 == Init => Inv8
  BY ZenonT(40) DEF Init, Inv8, SlotsOwned, VersionsOf

\* A number once taken is kept.
LEMMA SeqKept ==
  ASSUME Inv1, NEW t \in Txn, Client(t) \/ Step(t) \/ Failure(t), NEW u \in Txn, seq[u] # 0
  PROVE  seq'[u] = seq[u]
<1>1. CASE u # t
  BY Zenon, <1>1, OthersKept DEF LocalsKept
<1>2. CASE SequencedWrite(t)
  <2>1. seq[t] = 0
    BY Zenon, <1>2 DEF SequencedWrite, Inv1, SeqOwned, Unsequenced
  <2> QED BY Zenon, <1>1, <2>1
<1>3. CASE ~SequencedWrite(t)
  BY Zenon, <1>3 DEF Client, Failure, Step, BeginOpen, BeginOpenAt, CloseRead, DropUnclosed, Close,
         BeginCommit, FailSequencedWrite, FailLog, FailKeyspaces, OpenSnapshot, RecordReader,
         FreeAfterClose, InsertPending, CollectWindows, ReadStatuses,
         ValidateOnDisk, ValidateInWindows, SetValidated, RaiseHighest, SetAborted, Unregister,
         FreeAfterUnregister, WriteKeyspaces, SetApplied, IncrementWatermark, EndIncrement,
         FreeAfterAdvance, PersistStatus, commitVars
<1> QED BY Zenon, <1>1, <1>2, <1>3

\* Only WriteKeyspaces and FailKeyspaces add versions, and only of their commit.
LEMMA VersionsAdded ==
  ASSUME Inv1, NEW t \in Txn, Client(t) \/ Step(t) \/ Failure(t), NEW k \in Key, NEW v \in kv'[k],
         v \notin kv[k]
  PROVE  /\ WriteKeyspaces(t) \/ FailKeyspaces(t)
         /\ v.seq = seq[t] /\ v \in NewVersions(k, seq[t], ops[t], reinsert[t])
<1>1. WriteKeyspaces(t) \/ FailKeyspaces(t) \/ kv' = kv
  BY Zenon DEF Client, Failure, Step, BeginOpen, BeginOpenAt, CloseRead, DropUnclosed, Close,
         BeginCommit, FailSequencedWrite, FailLog, OpenSnapshot, RecordReader,
         FreeAfterClose, SequencedWrite, InsertPending, CollectWindows, ReadStatuses,
         ValidateOnDisk, ValidateInWindows, SetValidated, RaiseHighest, SetAborted, Unregister,
         FreeAfterUnregister, SetApplied, IncrementWatermark, EndIncrement, FreeAfterAdvance,
         PersistStatus
<1>2. WriteKeyspaces(t) \/ FailKeyspaces(t)
  BY Zenon, <1>1
<1>3. kv'[k] = kv[k] \/ kv'[k] = kv[k] \cup NewVersions(k, seq[t], ops[t], reinsert[t])
  BY Zenon, <1>2 DEF WriteKeyspaces, FailKeyspaces
<1> QED BY Zenon, <1>2, <1>3, NewVersionsSeq

\* A commit that is not decided has no versions.
LEMMA UndecidedUnwritten ==
  ASSUME Inv1, Inv5, NEW s \in Slot, ~Decided(s), NEW k \in Key, NEW v \in kv[k]
  PROVE  v.seq # s
<1>1. s >= First /\ s \in Nat
  BY Zenon, SeqType DEF Inv1
<1> QED BY <1>1 DEF Inv5, VersionsDecided

\* A commit is about to be marked applied only after it has written its batch.
LEMMA EntersApplying ==
  ASSUME Inv1, NEW t \in Txn, Client(t) \/ Step(t) \/ Failure(t), ~WriteKeyspaces(t), pc'[t] = "applying"
  PROVE  pc[t] = "applying"
<1> DEFINE Elsewhere == pc' = pc \/ \E label : label # "applying" /\ Goto(t, label)
<1>0. ASSUME NEW freeing, NEW next, freeing # "applying", next # "applying", RemoveReader(t, freeing, next)
      PROVE  Elsewhere
  BY Zenon, <1>0 DEF RemoveReader
<1>1. Client(t) \/ Failure(t) => Elsewhere
  <2>1. Client(t) => Elsewhere
    BY Zenon, <1>0 DEF Client, BeginOpen, BeginOpenAt, CloseRead, DropUnclosed, Close, BeginCommit
  <2>2. Failure(t) => Elsewhere
    BY Zenon DEF Failure, FailSequencedWrite, FailLog, FailKeyspaces
  <2> QED BY Zenon, <2>1, <2>2
<1>2. OpenSnapshot(t) \/ RecordReader(t) \/ FreeAfterClose(t) \/ SequencedWrite(t) => Elsewhere
  BY Zenon DEF OpenSnapshot, RecordReader, FreeAfterClose, SequencedWrite
<1>3. InsertPending(t) \/ CollectWindows(t) \/ ReadStatuses(t) => Elsewhere
  BY Zenon DEF InsertPending, CollectWindows, ReadStatuses
<1>4. ValidateOnDisk(t) \/ ValidateInWindows(t) \/ SetValidated(t) \/ RaiseHighest(t) \/ SetAborted(t)
      => Elsewhere
  BY Zenon DEF ValidateOnDisk, ValidateInWindows, SetValidated, RaiseHighest, SetAborted
<1>5. Unregister(t) \/ FreeAfterUnregister(t) \/ SetApplied(t) \/ IncrementWatermark(t)
      \/ EndIncrement(t) \/ FreeAfterAdvance(t) \/ PersistStatus(t) => Elsewhere
  <2>1. AfterUnregister(t) # "applying" /\ AfterAdvance(t) # "applying"
    BY Zenon DEF AfterUnregister, AfterAdvance
  <2> QED BY Zenon, <1>0, <2>1 DEF Unregister, FreeAfterUnregister, SetApplied, IncrementWatermark,
               EndIncrement, FreeAfterAdvance, PersistStatus
<1>6. Elsewhere
  BY Zenon, <1>1, <1>2, <1>3, <1>4, <1>5 DEF Step
<1>7. pc \in [Txn -> PCs]
  BY Zenon DEF Inv1, TypeOK
<1> QED BY Zenon, <1>6, <1>7 DEF Goto

LEMMA EntersApplied ==
  ASSUME Inv1, NEW t \in Txn, Client(t) \/ Step(t) \/ Failure(t), seq[t] # 0, status'[seq[t]] = "Applied"
  PROVE  status[seq[t]] = "Applied" \/ pc[t] = "applying"
<1>1. seq[t] \in Slot /\ status \in [Slot -> {"Empty", "Pending", "Validated", "Applied", "Aborted"}]
  BY Zenon DEF Inv1, TypeOK
<1>2. status' = status \/ InsertPending(t) \/ SetValidated(t) \/ SetAborted(t) \/ SetApplied(t)
  BY Zenon DEF Client, Failure, Step, BeginOpen, BeginOpenAt, CloseRead, DropUnclosed, Close,
         BeginCommit, FailSequencedWrite, FailLog, FailKeyspaces, OpenSnapshot, RecordReader,
         FreeAfterClose, SequencedWrite, CollectWindows, ReadStatuses,
         ValidateOnDisk, ValidateInWindows, RaiseHighest, Unregister,
         FreeAfterUnregister, WriteKeyspaces, IncrementWatermark, EndIncrement,
         FreeAfterAdvance, PersistStatus
<1> QED BY Zenon, <1>1, <1>2 DEF InsertPending, SetValidated, SetAborted, SetApplied

\* Steps of other threads leave the versions of a commit alone.
LEMMA OthersVersions ==
  ASSUME Inv1, Inv2, [Next]_vars, NEW t \in Txn, Client(t) \/ Step(t) \/ Failure(t),
         NEW u \in Txn, u # t, VersionsOf(u)
  PROVE  VersionsOf(u)'
<1>1. LocalsKept(u) /\ (seq[u] # 0 => status'[seq[u]] = status[seq[u]])
  BY Zenon, OthersKept, OthersSlots
<1> SUFFICES ASSUME seq[u] # 0, NEW k \in Key
             PROVE  /\ \A v \in kv'[k] : v.seq = seq[u] => v \in NewVersions(k, seq[u], ops[u], reinsert[u])
                    /\ pc[u] = "applying" \/ status[seq[u]] = "Applied" =>
                          NewVersions(k, seq[u], ops[u], reinsert[u]) \subseteq kv'[k]
  BY Zenon, <1>1 DEF LocalsKept, VersionsOf
<1>2. seq[t] # seq[u]
  BY Zenon DEF Inv1, SeqOwned
<1>3. kv[k] \subseteq kv'[k]
  BY Zenon, VersionsStep
<1>4. \A v \in kv'[k] : v.seq = seq[u] => v \in kv[k]
  BY Zenon, <1>2, VersionsAdded
<1> QED BY Zenon, <1>3, <1>4 DEF VersionsOf

\* The thread of the commit writes its batch once it is decided.
LEMMA OwnVersions ==
  ASSUME Inv1, Inv2, Inv5, [Next]_vars, NEW t \in Txn, Client(t) \/ Step(t) \/ Failure(t), VersionsOf(t)
  PROVE  VersionsOf(t)'
<1> USE DEF commitVars, Goto
<1>1. CASE SequencedWrite(t)
  <2>1. seq'[t] = nextSeq /\ nextSeq \in Slot /\ UNCHANGED <<kv, status>> /\ pc'[t] = "sequenced"
    <3>1. nextSeq <= MaxSeq
      BY Zenon, <1>1 DEF SequencedWrite
    <3>2. nextSeq \in Slot
      BY Zenon, <3>1, NextSlot
    <3> QED BY Zenon, <1>1, <3>2 DEF SequencedWrite, Inv1, TypeOK
  <2>2. status[nextSeq] = "Empty"
    BY Zenon, <1>1, NextSlot DEF SequencedWrite
  <2>3. \A k \in Key : \A v \in kv[k] : v.seq # nextSeq
    BY Zenon, <2>1, <2>2, UndecidedUnwritten DEF Decided
  <2> QED BY Zenon, <2>1, <2>2, <2>3 DEF VersionsOf
<1>2. CASE seq[t] = 0 /\ ~SequencedWrite(t)
  <2>1. seq' = seq
    BY ZenonT(40), <1>2 DEF Client, Failure, Step, BeginOpen, BeginOpenAt, CloseRead, DropUnclosed, Close,
         BeginCommit, FailSequencedWrite, FailLog, FailKeyspaces, OpenSnapshot, RecordReader,
         FreeAfterClose, InsertPending, CollectWindows, ReadStatuses,
         ValidateOnDisk, ValidateInWindows, SetValidated, RaiseHighest, SetAborted, Unregister,
         FreeAfterUnregister, WriteKeyspaces, SetApplied, IncrementWatermark, EndIncrement,
         FreeAfterAdvance, PersistStatus
  <2> QED BY ZenonT(40), <1>2, <2>1 DEF VersionsOf
<1>3. CASE ValidateOnDisk(t) \/ ValidateInWindows(t)
  <2>1. pc[t] \in {"onDisk", "validating"} /\ UNCHANGED <<kv, status, seq>>
    BY Zenon, <1>3 DEF ValidateOnDisk, ValidateInWindows
  <2>2. pc'[t] # "applying"
    BY Zenon, <1>3, <2>1 DEF ValidateOnDisk, ValidateInWindows, Inv1, TypeOK
  <2>3. seq[t] \in Slot /\ status[seq[t]] = "Pending"
    BY Zenon, <2>1 DEF Inv1, TypeOK, SeqOwned, SlotFollows, Deciding, Committing
  <2>4. \A k \in Key : \A v \in kv[k] : v.seq # seq[t]
    BY Zenon, <2>3, UndecidedUnwritten DEF Decided
  <2> QED BY Zenon, <2>1, <2>2, <2>3, <2>4 DEF VersionsOf
<1>4. CASE seq[t] # 0 /\ ~ValidateOnDisk(t) /\ ~ValidateInWindows(t)
  <2>1. ~BeginCommit(t) /\ ~SequencedWrite(t)
    BY Zenon, <1>4 DEF BeginCommit, SequencedWrite, Inv1, SeqOwned, Unsequenced
  <2>2. UNCHANGED <<ops, reinsert, seq>>
    BY ZenonT(40), <1>4, <2>1 DEF Client, Failure, Step, BeginOpen, BeginOpenAt, CloseRead, DropUnclosed, Close,
         FailSequencedWrite, FailLog, FailKeyspaces, OpenSnapshot, RecordReader,
         FreeAfterClose, InsertPending, CollectWindows, ReadStatuses,
         SetValidated, RaiseHighest, SetAborted, Unregister,
         FreeAfterUnregister, WriteKeyspaces, SetApplied, IncrementWatermark, EndIncrement,
         FreeAfterAdvance, PersistStatus
  <2>3. ASSUME NEW k \in Key, NEW v \in kv'[k], v.seq = seq[t]
        PROVE  v \in NewVersions(k, seq[t], ops[t], reinsert[t])
    BY Zenon, <1>4, <2>3, VersionsAdded DEF VersionsOf
  <2>4. ASSUME pc'[t] = "applying" \/ status'[seq[t]] = "Applied", NEW k \in Key
        PROVE  NewVersions(k, seq[t], ops[t], reinsert[t]) \subseteq kv'[k]
    <3>1. CASE WriteKeyspaces(t)
      BY Zenon, <3>1 DEF WriteKeyspaces
    <3>2. CASE ~WriteKeyspaces(t)
      <4>1. pc'[t] = "applying" => pc[t] = "applying"
        BY Zenon, <3>2, EntersApplying
      <4>2. status'[seq[t]] = "Applied" => status[seq[t]] = "Applied" \/ pc[t] = "applying"
        BY Zenon, <1>4, EntersApplied
      <4>3. kv[k] \subseteq kv'[k]
        BY Zenon, VersionsStep
      <4> QED BY Zenon, <1>4, <2>4, <4>1, <4>2, <4>3 DEF VersionsOf
    <3> QED BY Zenon, <3>1, <3>2
  <2> QED BY Zenon, <2>2, <2>3, <2>4 DEF VersionsOf
<1> QED BY Zenon, <1>1, <1>2, <1>3, <1>4

\* Every step preserves the eighth layer.
LEMMA NextInv8 == Inv1 /\ Inv2 /\ Inv5 /\ Inv8 /\ [Next]_vars => Inv8'
<1> SUFFICES ASSUME Inv1, Inv2, Inv5, Inv8, [Next]_vars PROVE Inv8'
    BY Zenon
<1>1. CASE UNCHANGED vars
  BY Zenon, <1>1 DEF vars, Inv8, SlotsOwned, VersionsOf
<1>2. ASSUME NEW t \in Txn, Client(t) \/ Step(t) \/ Failure(t) PROVE Inv8'
  <2>1. \A u \in Txn : VersionsOf(u)'
    BY Zenon, <1>2, OthersVersions, OwnVersions DEF Inv8
  <2>2. SlotsOwned'
    <3> SUFFICES ASSUME NEW s \in Slot, status'[s] # "Empty" PROVE \E u \in Txn : seq'[u] = s
      BY Zenon DEF SlotsOwned
    <3>1. \A u \in Txn : seq[u] = s => seq'[u] = s
      <4>1. s # 0
        BY SeqType DEF Inv1
      <4> QED BY Zenon, <1>2, <4>1, SeqKept
    <3>2. CASE status[s] # "Empty"
      BY Zenon, <3>1, <3>2 DEF Inv8, SlotsOwned
    <3>3. CASE status[s] = "Empty"
      <4>1. \E x : status' = [status EXCEPT ![seq[t]] = x]
        <5>1. status' # status
          BY Zenon, <3>3
        <5> QED BY ZenonT(40), <1>2, <5>1 DEF Client, Failure, Step, BeginOpen, BeginOpenAt, CloseRead, DropUnclosed, Close,
         BeginCommit, FailSequencedWrite, FailLog, FailKeyspaces, OpenSnapshot, RecordReader,
         FreeAfterClose, SequencedWrite, InsertPending, CollectWindows, ReadStatuses,
         ValidateOnDisk, ValidateInWindows, SetValidated, RaiseHighest, SetAborted, Unregister,
         FreeAfterUnregister, WriteKeyspaces, SetApplied, IncrementWatermark, EndIncrement,
         FreeAfterAdvance, PersistStatus
      <4>2. seq[t] = s
        BY Zenon, <3>3, <4>1 DEF Inv1, TypeOK
      <4> QED BY ZenonT(40), <3>1, <4>2
    <3> QED BY Zenon, <3>2, <3>3
  <2> QED BY Zenon, <2>1, <2>2 DEF Inv8
<1> QED BY Zenon, <1>1, <1>2 DEF Next, Finished

-----------------------------------------------------------------------------
(* A committed Put leaves its key.                                           *)

\* Before its first commit, the database holds the keys it was loaded with.
Loaded == \A k \in Key : \A v \in kv[k] : v.seq >= First \/ (v.seq = First - 1 /\ v.op = "Insert")

Inv9 == Loaded /\ PutLeavesKey

\* What the newest of some versions is, if one is newer than the rest.
LEMMA NewestOp ==
  ASSUME NEW V, NEW v \in V, \A w \in V : w.seq <= v.seq, \A w \in V : v.seq <= w.seq => w.op = v.op
  PROVE  Newest(V).op = v.op
<1>1. V # {} /\ \E x \in V : \A w \in V : w.seq <= x.seq
  BY Zenon
<1>2. Newest(V) \in V /\ \A w \in V : w.seq <= Newest(V).seq
  BY ZenonT(40), <1>1 DEF Newest
<1> QED BY Zenon, <1>2

\* The versions of a decided commit tell what it wrote.
LEMMA VersionOfCommit ==
  ASSUME Inv1, Inv5, Inv7, Inv8, NEW k \in Key, NEW v \in kv[k], v.seq >= First
  PROVE  /\ v.seq \in Slot /\ Wrote(k, v.seq)
         /\ log[v.seq].ops.writes[k].op \in {"Insert", "Put"} => v.op = "Insert"
<1>1. v.seq \in Nat
  BY Zenon, VersionSeq
<1>2. v.seq \in Slot /\ Decided(v.seq)
  <2>1. \A x \in Nat : x >= First => ~(x < First)
    OBVIOUS
  <2> QED BY Zenon, <1>1, <2>1 DEF Inv5, VersionsDecided
<1>3. PICK t \in Txn : seq[t] = v.seq
  BY Zenon, <1>2 DEF Inv8, SlotsOwned, Decided
<1>4. seq[t] # 0
  BY <1>1, <1>3
<1>5. v \in NewVersions(k, seq[t], ops[t], reinsert[t]) /\ reinsert[t] \subseteq Puts(ops[t])
  BY Zenon, <1>3, <1>4 DEF Inv8, VersionsOf, Inv1, FlagsOfPuts
<1>6. log[v.seq] = [open |-> open[t], ops |-> ops[t]]
  BY Zenon, <1>3, <1>4 DEF Inv7, Flags
<1>7. log[v.seq].ops = ops[t]
  BY <1>6
<1>8. k \in reinsert[t] => ops[t].writes[k].op = "Put"
  BY Zenon, <1>5 DEF Puts
<1>9. ops[t].writes[k].op # "None" /\ (ops[t].writes[k].op \in {"Insert", "Put"} => v.op = "Insert")
  <2>1. CASE ops[t].writes[k].op = "Insert" \/ k \in reinsert[t]
    BY SMTT(40), <1>5, <1>8, <2>1 DEF NewVersions
  <2>2. CASE ~(ops[t].writes[k].op = "Insert" \/ k \in reinsert[t])
    <3>1. ops[t].writes[k].op = "Delete"
      BY Zenon, <1>5, <2>2 DEF NewVersions
    <3> QED BY Zenon, <3>1
  <2> QED BY Zenon, <2>1, <2>2
<1>10. log[v.seq].ops.writes[k].op = ops[t].writes[k].op
  BY Zenon, <1>7
<1> QED BY Zenon, <1>2, <1>9, <1>10 DEF Wrote

\* Nothing changes between two sequence numbers if no commit in between has versions.
LEMMA SameVisible ==
  ASSUME Inv1, Inv5, Inv7, Inv8, NEW k \in Key, NEW a \in Nat, NEW s \in Nat, a <= s, First - 1 <= a,
         \A v \in kv[k] : Wrote(k, v.seq) /\ v.seq \in Slot => ~(a < v.seq /\ v.seq <= s)
  PROVE  UpTo(kv[k], a) = UpTo(kv[k], s) /\ Visible(k, a) = Visible(k, s)
<1>1. ASSUME NEW v \in kv[k] PROVE v.seq <= a <=> v.seq <= s
  <2>1. v.seq \in Nat
    BY Zenon, VersionSeq
  <2>2. CASE v.seq >= First
    <3>1. v.seq \in Slot /\ Wrote(k, v.seq)
      BY Zenon, <2>2, VersionOfCommit
    <3>2. ~(a < v.seq /\ v.seq <= s)
      BY Zenon, <3>1
    <3> QED BY <2>1, <3>2
  <2>3. CASE v.seq < First
    BY <2>1, <2>3
  <2>4. \A x \in Nat : x >= First \/ x < First
    OBVIOUS
  <2> QED BY Zenon, <2>1, <2>2, <2>3, <2>4
<1>2. UpTo(kv[k], a) = UpTo(kv[k], s)
  BY Zenon, <1>1 DEF UpTo
<1> QED BY Zenon, <1>2 DEF Visible, VisibleIn

\* An applied commit that inserted the key has left it.
LEMMA InsertVisible ==
  ASSUME Inv1, Inv5, Inv7, Inv8, NEW k \in Key, NEW i \in Slot, NEW v \in kv[k],
         v.seq = i, v.op = "Insert", log[i].ops.writes[k].op \in {"Insert", "Put"}
  PROVE  Visible(k, i).op = "Insert"
<1>0. i \in Nat /\ i >= First
  BY Zenon, SeqType DEF Inv1
<1>1. v \in UpTo(kv[k], i)
  BY <1>0 DEF UpTo
<1>2. \A w \in UpTo(kv[k], i) : w \in kv[k] /\ w.seq <= v.seq
  BY Zenon DEF UpTo
<1>3. ASSUME NEW w \in UpTo(kv[k], i), v.seq <= w.seq PROVE w.op = v.op
  <2>1. w.seq = i
    <3>1. w \in kv[k] /\ w.seq <= i /\ i <= w.seq
      BY ZenonT(40), <1>2, <1>3
    <3>2. w.seq \in Nat
      BY Zenon, <3>1, VersionSeq
    <3> QED BY <1>0, <3>1, <3>2
  <2>2. w.seq >= First
    BY Zenon, <1>0, <2>1
  <2> QED BY Zenon, <1>2, <2>1, <2>2, VersionOfCommit
<1>4. Newest(UpTo(kv[k], i)).op = v.op
  BY Zenon, <1>1, <1>2, <1>3, NewestOp
<1> QED BY Zenon, <1>4 DEF Visible, VisibleIn

\* The Put at the next slot the watermark moves over leaves its key.
LEMMA PutApplied ==
  ASSUME Inv1, Inv2, Inv5, Inv7, Inv8, Inv9, NEW s \in Slot, s = watermark + 1, status[s] = "Applied",
         NEW k \in Puts(log[s].ops)
  PROVE  Visible(k, s).op = "Insert"
<1>1. PICK t \in Txn : seq[t] = s
  BY Zenon DEF Inv8, SlotsOwned
<1>2. s \in Nat /\ s >= First /\ seq[t] # 0 /\ watermark \in Nat /\ k \in Key /\ Decided(s)
  BY <1>1, SeqType DEF Inv1, Puts, Decided
<1>3. log[s] = [open |-> open[t], ops |-> ops[t]] /\ FlagsAfter(ops[t], reinsert[t], open[t], s)
  BY ZenonT(40), <1>1, <1>2 DEF Inv7, Flags, Flagged
<1>4. log[s].ops = ops[t] /\ log[s].open = open[t] /\ k \in Puts(ops[t]) /\ ops[t].writes[k].op = "Put"
      /\ open[t] \in Nat
  BY <1>3 DEF Puts, Inv1, TypeOK
<1>5. /\ \A v \in kv[k] : v.seq = s => v \in NewVersions(k, s, ops[t], reinsert[t])
      /\ NewVersions(k, s, ops[t], reinsert[t]) \subseteq kv[k]
  BY Zenon, <1>1, <1>2 DEF Inv8, VersionsOf
<1>6. CASE k \in reinsert[t]
  <2> DEFINE v == [seq |-> s, op |-> "Insert", val |-> ops[t].writes[k].val]
  <2>0. NewVersions(k, s, ops[t], reinsert[t]) = {v}
    BY Zenon, <1>4, <1>6 DEF NewVersions
  <2>1. v \in kv[k]
    BY Zenon, <1>5, <2>0
  <2>2. v.seq = s /\ v.op = "Insert"
    BY Zenon
  <2>3. log[s].ops.writes[k].op \in {"Insert", "Put"}
    BY Zenon, <1>4
  <2> HIDE DEF v
  <2> QED BY ZenonT(40), <1>2, <2>1, <2>2, <2>3, InsertVisible
<1>7. CASE k \notin reinsert[t]
  <2>1. NewVersions(k, s, ops[t], reinsert[t]) = {}
    BY Zenon, <1>4, <1>7 DEF NewVersions
  <2>2. \A v \in kv[k] : v.seq # s
    BY Zenon, <1>5, <2>1
  <2>3. CASE NoneWrote(k, open[t], s) /\ k \notin StalePuts(ops[t], kv, open[t])
    <3>1. Visible(k, open[t]).op = "Insert"
      BY Zenon, <1>4, <2>3 DEF StalePuts, Visible
    <3>2. open[t] <= s
      <4>1. log[s] # NoRecord
        BY Zenon, <1>2 DEF Inv1, RecordKept, Decided
      <4>2. log[s].open <= watermark
        BY Zenon, <4>1 DEF Inv7, RecordsSeen
      <4> QED BY <1>2, <1>4, <4>2
    <3>3. \A v \in kv[k] : Wrote(k, v.seq) /\ v.seq \in Slot => ~(open[t] < v.seq /\ v.seq <= s)
      <4> SUFFICES ASSUME NEW v \in kv[k], Wrote(k, v.seq), v.seq \in Slot, open[t] < v.seq, v.seq <= s
                   PROVE  FALSE
        BY Zenon
      <4>1. v.seq \in Nat /\ v.seq # s
        BY ZenonT(40), <2>2, SeqType DEF Inv1
      <4>2. v.seq < s
        BY SMTT(40), <1>2, <4>1
      <4> QED BY Zenon, <2>3, <4>2 DEF NoneWrote
    <3>4. CASE First - 1 <= open[t]
      BY ZenonT(40), <1>2, <1>4, <3>1, <3>2, <3>3, <3>4, SameVisible
    <3>5. CASE ~(First - 1 <= open[t])
      <4>1. UpTo(kv[k], open[t]) = {}
        <5> SUFFICES ASSUME NEW v \in kv[k], v.seq <= open[t] PROVE FALSE
          BY Zenon DEF UpTo
        <5>1. v.seq >= First \/ v.seq = First - 1
          BY ZenonT(40), <1>2 DEF Inv9, Loaded
        <5>2. v.seq \in Nat
          BY Zenon, <1>2, VersionSeq
        <5> QED BY SMTT(40), <1>4, <3>5, <5>1, <5>2
      <4>2. Visible(k, open[t]).op = "Delete"
        BY Zenon, <4>1 DEF Visible, VisibleIn, Newest, NoVersion
      <4> QED BY ZenonT(40), <3>1, <4>2
    <3> QED BY Zenon, <3>4, <3>5
  <2>4. CASE \E i \in Slot : LastWrote(k, open[t], s, i) /\ log[i].ops.writes[k].op # "Delete"
    <3>1. PICK i \in Slot : LastWrote(k, open[t], s, i) /\ log[i].ops.writes[k].op # "Delete"
      BY Zenon, <2>4
    <3>2. i < s /\ Decided(i) /\ i \in Nat /\ First - 1 <= i /\ i <= s /\ i <= watermark
      <4>1. i < s /\ Decided(i)
        BY Zenon, <3>1 DEF LastWrote, Wrote
      <4> QED BY SMTT(40), <1>2, <4>1, SeqType DEF Inv1
    <3>3. status[i] = "Applied"
      BY ZenonT(40), <3>2 DEF Inv2, WatermarkSettled, Settled, Decided
    <3>4. log[i].ops.writes[k].op \in {"Insert", "Put"}
      <4>1. log[i] # NoRecord
        BY Zenon, <3>3 DEF Inv1, RecordKept
      <4>2. log[i].ops \in Buffer
        BY ZenonT(40), <4>1 DEF Inv1, TypeOK, Record
      <4>3. log[i].ops.writes[k].op \in {"None", "Delete", "Insert", "Put"}
        BY <1>2, <4>2 DEF Buffer, Write, NoWrite
      <4> QED BY Zenon, <3>1, <4>3 DEF LastWrote, Wrote
    <3>5. \A v \in kv[k] : Wrote(k, v.seq) /\ v.seq \in Slot => ~(i < v.seq /\ v.seq <= s)
      <4> SUFFICES ASSUME NEW v \in kv[k], Wrote(k, v.seq), v.seq \in Slot, i < v.seq, v.seq <= s
                   PROVE  FALSE
        BY Zenon
      <4>1. v.seq \in Nat /\ v.seq # s
        BY ZenonT(40), <2>2, SeqType DEF Inv1
      <4>2. v.seq < s
        BY SMTT(40), <1>2, <4>1
      <4> QED BY Zenon, <3>1, <4>2 DEF LastWrote
    <3>6. Visible(k, i) = Visible(k, s)
      BY Zenon, <1>2, <3>2, <3>5, SameVisible
    <3>7. CASE log[i].ops.writes[k].op = "Put"
      BY ZenonT(40), <1>2, <3>2, <3>3, <3>6, <3>7 DEF Inv9, PutLeavesKey, Puts
    <3>8. CASE log[i].ops.writes[k].op = "Insert"
      <4>1. log[i].ops.writes[k].op \in {"Insert", "Delete"} /\ Written(i)
        BY Zenon, <3>3, <3>8 DEF Inv5
      <4>2. PICK v \in kv[k] : v.seq = i /\ v.op = log[i].ops.writes[k].op
        BY Zenon, <1>2, <4>1 DEF Written
      <4>3. v.op = "Insert"
        BY Zenon, <3>8, <4>2
      <4> QED BY ZenonT(40), <1>2, <3>4, <3>6, <4>2, <4>3, InsertVisible
    <3> QED BY Zenon, <3>4, <3>7, <3>8
  <2> QED BY Zenon, <1>3, <1>4, <1>7, <2>3, <2>4 DEF FlagsAfter
<1> QED BY Zenon, <1>6, <1>7

\* The database is loaded before it is used.
LEMMA InitInv9 == Init => Inv9
<1> SUFFICES ASSUME Init PROVE Inv9
    BY Zenon
<1>1. ASSUME NEW k \in Key, NEW v \in kv[k] PROVE v.seq = First - 1 /\ v.op = "Insert"
  <2>1. kv[k] \in {{}} \cup {{[seq |-> First - 1, op |-> "Insert", val |-> w]} :
                              w \in IF First = 1 THEN {} ELSE Val}
    BY Zenon DEF Init
  <2>2. PICK w \in Val : v = [seq |-> First - 1, op |-> "Insert", val |-> w]
    BY ZenonT(40), <2>1
  <2> QED BY ZenonT(40), <2>2
<1>2. \A s \in Slot : status[s] # "Applied"
  BY Zenon DEF Init
<1> QED BY Zenon, <1>1, <1>2 DEF Inv9, Loaded, PutLeavesKey

\* Every step preserves the ninth layer: the only one at stake moves the watermark.
LEMMA NextInv9 == Inv1 /\ Inv2 /\ Inv5 /\ Inv7 /\ Inv8 /\ Inv9 /\ [Next]_vars => Inv9'
<1> SUFFICES ASSUME Inv1, Inv2, Inv5, Inv7, Inv8, Inv9, [Next]_vars PROVE Inv9'
    BY Zenon
<1>1. Loaded'
  <2> SUFFICES ASSUME NEW k \in Key, NEW v \in kv'[k] PROVE v.seq >= First \/ (v.seq = First - 1 /\ v.op = "Insert")
    BY Zenon DEF Loaded
  <2>1. v \in kv[k] \/ v.seq \in Slot
    BY Zenon, VersionsStep
  <2>2. v.seq \in Slot => v.seq >= First
    BY Zenon, SeqType DEF Inv1
  <2> QED BY Zenon, <2>1, <2>2 DEF Inv9, Loaded
<1>2. PutLeavesKey'
  <2> SUFFICES ASSUME NEW s \in Slot, s <= watermark', status'[s] = "Applied", NEW k \in Puts(log'[s].ops)
               PROVE  Visible(k, s)'.op = "Insert"
    BY Zenon DEF PutLeavesKey, Puts
  <2>1. s \in Nat /\ watermark \in Nat /\ k \in Key
    BY Zenon, SeqType DEF Inv1, Puts
  <2>2. CASE s <= watermark
    <3>1. status[s] # "Empty"
      BY Zenon, <2>2 DEF Inv2, WatermarkSettled, Settled
    <3>2. log'[s] = log[s]
      BY Zenon, <3>1, LogKept DEF Inv1, RecordKept
    <3>3. status[s] = "Applied"
      BY Zenon, <2>2, <3>1, SlotStep DEF Inv2, WatermarkSettled, Settled
    <3>4. Visible(k, s).op = "Insert"
      BY Zenon, <2>2, <3>2, <3>3 DEF Inv9, PutLeavesKey
    <3> QED BY Zenon, <2>1, <2>2, <3>4, VisibleKept
  <2>3. CASE ~(s <= watermark)
    <3>1. watermark' # watermark
      BY ZenonT(40), <2>3
    <3>2. PICK t \in Txn : IncrementWatermark(t)
      BY ZenonT(40), <3>1 DEF vars, markVars, Next, Finished, Client, Failure, Step, BeginOpen, BeginOpenAt, CloseRead, DropUnclosed, Close,
         BeginCommit, FailSequencedWrite, FailLog, FailKeyspaces, OpenSnapshot, RecordReader,
         FreeAfterClose, SequencedWrite, InsertPending, CollectWindows, ReadStatuses,
         ValidateOnDisk, ValidateInWindows, SetValidated, RaiseHighest, SetAborted, Unregister,
         FreeAfterUnregister, WriteKeyspaces, SetApplied, EndIncrement,
         FreeAfterAdvance, PersistStatus
    <3>3. watermark' = cand[t] /\ watermark = cand[t] - 1 /\ cand[t] \in Nat
          /\ UNCHANGED <<log, kv, status>>
      BY Zenon, <3>2 DEF IncrementWatermark, CanAdvanceTo, logVars, Inv1, TypeOK
    <3>4. s = watermark + 1
      BY <2>1, <2>3, <3>3
    <3>5. Visible(k, s).op = "Insert"
      BY Zenon, <3>3, <3>4, PutApplied
    <3> QED BY Zenon, <3>3, <3>5 DEF Visible
  <2> QED BY Zenon, <2>2, <2>3
<1> QED BY Zenon, <1>1, <1>2 DEF Inv9

\* A committed Put leaves its key: with a durable log the reinsert flags are right by
\* the time the batch is built, whatever concurrent commits inserted or deleted.
THEOREM PutsLeaveKeys == Spec => [](Durable => PutLeavesKey)
<1> DEFINE IInv == /\ Inv1 /\ Inv2 /\ Inv3 /\ Inv4 /\ Inv5 /\ Inv8
                   /\ Durable => Inv7 /\ Inv9
<1>1. Init => IInv
  BY ZenonT(40), InitInv1, InitInv2, InitInv3, InitInv4, InitInv5, InitInv7, InitInv8, InitInv9
<1>2. IInv /\ [Next]_vars => IInv'
  <2> SUFFICES ASSUME IInv, [Next]_vars PROVE IInv'
    BY Zenon
  <2>1. Inv1'
    BY Zenon, NextInv1
  <2> QED BY ZenonT(40), <2>1, NextInv2, NextInv3, NextInv4, NextInv5, NextInv7, NextInv8, NextInv9
<1>3. IInv => (Durable => PutLeavesKey)
  BY Zenon DEF Inv9
<1> QED BY <1>1, <1>2, <1>3, PTL DEF Spec
=============================================================================
