--------------------- MODULE IsolationRefinementProofs ----------------------
(***************************************************************************)
(* Proofs that use the whole invariant of IsolationManager: that it        *)
(* implements CommitProtocol, every step of the manager being a step of    *)
(* the protocol or leaving it where it is, and that it counts the readers  *)
(* of its windows exactly.                                                 *)
(***************************************************************************)
EXTENDS IsolationManagerProofs, IsolationRefinement, TLAPS

USE ConstantsAssumption

Opening == {"idle", "opening", "openingAt"}

\* What PhaseAt says, case by case.
LEMMA PhaseCases ==
  ASSUME NEW label, NEW number, NEW marker
  PROVE  /\ label \in Opening => PhaseAt(label, number, marker) = "idle"
         /\ label = "returned" => PhaseAt(label, number, marker) = "returned"
         /\ label \notin Opening /\ label # "returned" =>
              /\ number = 0 => PhaseAt(label, number, marker) = "open"
              /\ number # 0 =>
                   /\ marker \in {"Empty", "Pending"} => PhaseAt(label, number, marker) = "sequenced"
                   /\ marker = "Aborted" => PhaseAt(label, number, marker) = "aborted"
                   /\ marker = "Applied" => PhaseAt(label, number, marker) = "applied"
                   /\ marker = "Validated" => PhaseAt(label, number, marker) =
                         IF label = "applying" THEN "written" ELSE "validated"
<1>1. /\ label \in Opening => PhaseAt(label, number, marker) = "idle"
      /\ label = "returned" => PhaseAt(label, number, marker) = "returned"
  BY Zenon DEF PhaseAt, Opening
<1>2. ASSUME label \notin Opening, label # "returned"
      PROVE  /\ number = 0 => PhaseAt(label, number, marker) = "open"
             /\ number # 0 =>
                   /\ marker \in {"Empty", "Pending"} => PhaseAt(label, number, marker) = "sequenced"
                   /\ marker = "Aborted" => PhaseAt(label, number, marker) = "aborted"
                   /\ marker = "Applied" => PhaseAt(label, number, marker) = "applied"
                   /\ marker = "Validated" => PhaseAt(label, number, marker) =
                         IF label = "applying" THEN "written" ELSE "validated"
  BY Zenon, <1>2 DEF PhaseAt, Opening
<1> QED BY Zenon, <1>1, <1>2

\* The steps of one thread leave the phase and the flags of the others alone.
LEMMA OthersAbstract ==
  ASSUME Inv1, NEW t \in Txn, Client(t) \/ Step(t) \/ Failure(t), NEW u \in Txn, u # t
  PROVE  AbstractPhase(u)' = AbstractPhase(u) /\ AbstractFlags(u)' = AbstractFlags(u)
<1>1. LocalsKept(u) /\ (seq[u] # 0 => status'[seq[u]] = status[seq[u]])
  BY Zenon, OthersKept, OthersSlots
<1>2. CASE seq[u] # 0
  BY Zenon, <1>1, <1>2 DEF LocalsKept, AbstractPhase, AbstractFlags
<1>3. CASE seq[u] = 0
  <2>1. AbstractFlags(u)' = {} /\ AbstractFlags(u) = {}
    BY Zenon, <1>1, <1>3 DEF LocalsKept, AbstractFlags
  <2>2. \A m, n : PhaseAt(pc[u], 0, m) = PhaseAt(pc[u], 0, n)
    <3> SUFFICES ASSUME NEW m, NEW n PROVE PhaseAt(pc[u], 0, m) = PhaseAt(pc[u], 0, n)
      BY Zenon
    <3> QED BY Zenon DEF PhaseAt
  <2>3. AbstractPhase(u)' = AbstractPhase(u)
    BY Zenon, <1>1, <1>3, <2>2 DEF LocalsKept, AbstractPhase
  <2> QED BY Zenon, <2>1, <2>3
<1> QED BY Zenon, <1>2, <1>3

\* Records keep their flags, since snapshots keep what they see.
LEMMA RecordsAbstract ==
  ASSUME Inv1, Inv2, Inv7, [Next]_vars, NEW s \in Slot, log'[s] = log[s]
  PROVE  AbstractRecord(s)' = AbstractRecord(s)
<1>1. CASE log[s] = NoRecord
  BY Zenon, <1>1 DEF AbstractRecord
<1>2. CASE log[s] # NoRecord
  <2>1. log[s].open \in Nat /\ log[s].open <= watermark
    BY Zenon, <1>2 DEF Inv7, RecordsSeen
  <2>2. PICK o, a : o = log[s].ops /\ a = log[s].open
    BY Zenon
  <2>3. StalePuts(o, kv, a)' = StalePuts(o, kv, a)
    BY Zenon, <2>1, <2>2, StaleKept
  <2> QED BY Zenon, <1>2, <2>2, <2>3 DEF AbstractRecord
<1> QED BY Zenon, <1>1, <1>2

\* The variables of the protocol, as functions.
Records == [s \in Slot |-> AbstractRecord(s)]
Markers == [s \in Slot |-> AbstractStatus(s)]
Phases == [t \in Txn |-> AbstractPhase(t)]
Reinserted == [t \in Txn |-> AbstractFlags(t)]

\* A step of a thread changes its own phase and flags.
LEMMA Frame ==
  ASSUME Inv1, NEW t \in Txn, Client(t) \/ Step(t) \/ Failure(t)
  PROVE  /\ Phases' = [Phases EXCEPT ![t] = AbstractPhase(t)']
         /\ Reinserted' = [Reinserted EXCEPT ![t] = AbstractFlags(t)']
         /\ AbstractPhase(t)' = AbstractPhase(t) => Phases' = Phases
         /\ AbstractFlags(t)' = AbstractFlags(t) => Reinserted' = Reinserted
<1>1. \A u \in Txn : u # t => AbstractPhase(u)' = AbstractPhase(u) /\ AbstractFlags(u)' = AbstractFlags(u)
  BY Zenon, OthersAbstract
<1> QED BY Zenon, <1>1 DEF Phases, Reinserted

\* All records are kept but the one that is written.
LEMMA RecordsFrame ==
  ASSUME Inv1, Inv2, Inv7, [Next]_vars, log' = log
  PROVE  Records' = Records
<1>1. \A s \in Slot : AbstractRecord(s)' = AbstractRecord(s)
  BY Zenon, RecordsAbstract
<1> QED BY Zenon, <1>1 DEF Records

\* A slot that is set changes one marker.
LEMMA MarkersFrame ==
  ASSUME Inv1, log' = log, NEW s \in Slot, status[s] # "Empty", NEW m, m # "Empty",
         status' = [status EXCEPT ![s] = m]
  PROVE  Markers' = [Markers EXCEPT ![s] = m]
<1>1. status \in [Slot -> {"Empty", "Pending", "Validated", "Applied", "Aborted"}]
  BY Zenon DEF Inv1, TypeOK
<1>2. \A i \in Slot : i # s => AbstractStatus(i)' = AbstractStatus(i)
  BY Zenon, <1>1 DEF AbstractStatus
<1>3. AbstractStatus(s)' = m
  BY Zenon, <1>1 DEF AbstractStatus
<1> QED BY Zenon, <1>2, <1>3 DEF Markers

LEMMA ProtocolStutters ==
  ASSUME Inv1, Inv2, Inv7, [Next]_vars, NEW t \in Txn, Client(t) \/ Step(t) \/ Failure(t),
         UNCHANGED <<nextSeq, log, statuses, kv, watermark, open, seq>>,
         \A s \in Slot : AbstractStatus(s)' = AbstractStatus(s),
         AbstractPhase(t)' = AbstractPhase(t), AbstractFlags(t)' = AbstractFlags(t)
  PROVE  UNCHANGED Protocol!protocolVars
<1>1. Phases' = Phases /\ Reinserted' = Reinserted /\ Records' = Records
  BY Zenon, Frame, RecordsFrame
<1>2. Markers' = Markers
  BY Zenon DEF Markers
<1> QED BY Zenon, <1>1, <1>2 DEF Protocol!protocolVars, Phases, Reinserted, Records, Markers

-----------------------------------------------------------------------------
(* Steps that the protocol does not see.                                     *)

Quiet == PCs \ (Opening \cup {"returned", "applying"})

\* The step keeps what the protocol knows of t.
QuietStep(t) ==
    /\ UNCHANGED <<nextSeq, log, statuses, kv, status, watermark, open, seq>>
    /\ pc[t] \in Quiet /\ pc'[t] \in Quiet
    /\ reinsert' = reinsert \/ seq[t] = 0 \/ status[seq[t]] = "Pending"

LEMMA QuietStutters ==
  ASSUME Inv1, Inv2, Inv7, [Next]_vars, NEW t \in Txn, Client(t) \/ Step(t) \/ Failure(t), QuietStep(t)
  PROVE  UNCHANGED Protocol!protocolVars
<1>1. ASSUME NEW l \in Quiet, NEW m \in Quiet, NEW n, NEW x PROVE PhaseAt(l, n, x) = PhaseAt(m, n, x)
  <2>1. /\ l \notin {"idle", "opening", "openingAt"} /\ l # "returned" /\ l # "applying"
        /\ m \notin {"idle", "opening", "openingAt"} /\ m # "returned" /\ m # "applying"
    BY Zenon DEF Quiet, Opening
  <2> QED BY Zenon, <2>1 DEF PhaseAt
<1>2. AbstractPhase(t)' = AbstractPhase(t)
  <2>1. PICK l, m, n, x : l = pc[t] /\ m = pc'[t] /\ n = seq[t] /\ x = status[seq[t]]
    BY Zenon
  <2>2. l \in Quiet /\ m \in Quiet
    BY Zenon, <2>1 DEF QuietStep
  <2>3. PhaseAt(l, n, x) = PhaseAt(m, n, x)
    BY ZenonT(40), <1>1, <2>2
  <2> QED BY Zenon, <2>1, <2>3 DEF QuietStep, AbstractPhase
<1>3. AbstractFlags(t)' = AbstractFlags(t)
  BY Zenon DEF QuietStep, AbstractFlags
<1>4. \A s \in Slot : AbstractStatus(s)' = AbstractStatus(s)
  BY Zenon DEF QuietStep, AbstractStatus
<1> QED BY Zenon, <1>2, <1>3, <1>4, ProtocolStutters DEF QuietStep

\* The steps of a snapshot before it commits, and of a commit between those that count.
LEMMA QuietSteps ==
  ASSUME Inv1, NEW t \in Txn,
         \/ RecordReader(t) \/ CloseRead(t) \/ DropUnclosed(t) \/ Close(t) \/ FreeAfterClose(t)
         \/ BeginCommit(t) \/ CollectWindows(t) \/ ReadStatuses(t) \/ ValidateOnDisk(t)
         \/ ValidateInWindows(t) \/ RaiseHighest(t) \/ Unregister(t) \/ FreeAfterUnregister(t)
         \/ EndIncrement(t) \/ FreeAfterAdvance(t)
  PROVE  QuietStep(t)
<1> USE DEF Goto, Quiet, PCs, Opening
<1>0. pc \in [Txn -> PCs]
  BY Zenon DEF Inv1, TypeOK
<1>1. CASE RecordReader(t) \/ CloseRead(t) \/ DropUnclosed(t) \/ Close(t) \/ FreeAfterClose(t) \/ BeginCommit(t)
  <2>1. UNCHANGED <<nextSeq, log, statuses, kv, status, watermark, open, seq>>
    BY ZenonT(40), <1>1 DEF RecordReader, CloseRead, DropUnclosed, Close, FreeAfterClose, BeginCommit, logVars,
            markVars, openVars, commitVars
  <2>2. pc[t] \in {"registering", "reading", "open", "closing"}
        /\ pc'[t] \in {"open", "closed", "dropped", "closing", "sequencing"}
    BY ZenonT(40), <1>0, <1>1 DEF RecordReader, CloseRead, DropUnclosed, Close, RemoveReader, FreeAfterClose, BeginCommit
  <2>3. seq[t] = 0
    BY ZenonT(40), <2>2 DEF Inv1, SeqOwned, Unsequenced
  <2> QED BY ZenonT(40), <2>1, <2>2, <2>3 DEF QuietStep
<1>2. CASE CollectWindows(t) \/ ReadStatuses(t) \/ ValidateOnDisk(t) \/ ValidateInWindows(t)
  <2>1. UNCHANGED <<nextSeq, log, statuses, kv, status, watermark, open, seq>>
    BY ZenonT(40), <1>2 DEF CollectWindows, ReadStatuses, ValidateOnDisk, ValidateInWindows, logVars,
            markVars, openVars, commitVars
  <2>2. pc[t] \in {"collecting", "readingStatuses", "onDisk", "validating"}
        /\ pc'[t] \in {"readingStatuses", "onDisk", "validating", "conflicting", "panicked"}
    BY ZenonT(40), <1>0, <1>2 DEF CollectWindows, ReadStatuses, ValidateOnDisk, ValidateInWindows
  <2>3. status[seq[t]] = "Pending"
    BY ZenonT(40), <2>2 DEF Inv1, SlotFollows, Deciding
  <2> QED BY Zenon, <2>1, <2>2, <2>3 DEF QuietStep
<1>3. CASE RaiseHighest(t) \/ Unregister(t) \/ FreeAfterUnregister(t) \/ EndIncrement(t) \/ FreeAfterAdvance(t)
  <2>1. UNCHANGED <<nextSeq, log, statuses, kv, status, watermark, open, seq, reinsert>>
    BY ZenonT(40), <1>3 DEF RaiseHighest, Unregister, FreeAfterUnregister, EndIncrement, FreeAfterAdvance, logVars,
            markVars, openVars, commitVars
  <2>2. pc[t] \in {"validated", "unregistering", "freeing", "advancing", "advanced"}
        /\ pc'[t] \in {"unregistering", "freeing", "writing", "persisting", "advanced"}
    BY Zenon, <1>0, <1>3 DEF RaiseHighest, Unregister, RemoveReader, FreeAfterUnregister, EndIncrement, FreeAfterAdvance,
            AfterUnregister, AfterAdvance
  <2> QED BY Zenon, <2>1, <2>2 DEF QuietStep
<1> QED BY Zenon, <1>1, <1>2, <1>3

\* A snapshot that begins to open is idle until it is opened.
LEMMA OpeningStutters ==
  ASSUME Inv1, Inv2, Inv7, [Next]_vars, NEW t \in Txn, BeginOpen(t) \/ BeginOpenAt(t)
  PROVE  UNCHANGED Protocol!protocolVars
<1>1. UNCHANGED <<nextSeq, log, statuses, kv, status, watermark, open, seq, reinsert>>
  BY Zenon DEF BeginOpen, BeginOpenAt, logVars, markVars, commitVars
<1>2. pc[t] \in Opening /\ pc'[t] \in Opening
  BY Zenon DEF BeginOpen, BeginOpenAt, Goto, Opening, Inv1, TypeOK
<1>3. AbstractPhase(t)' = "idle" /\ AbstractPhase(t) = "idle"
  BY ZenonT(40), <1>2, PhaseCases DEF AbstractPhase
<1>4. AbstractFlags(t)' = AbstractFlags(t) /\ \A s \in Slot : AbstractStatus(s)' = AbstractStatus(s)
  BY Zenon, <1>1 DEF AbstractFlags, AbstractStatus
<1>5. Client(t)
  BY Zenon DEF Client
<1> QED BY ZenonT(40), <1>1, <1>3, <1>4, <1>5, ProtocolStutters

\* A commit is pending before insert_pending as after it.
LEMMA PendingStutters ==
  ASSUME Inv1, Inv2, Inv7, [Next]_vars, NEW t \in Txn, InsertPending(t)
  PROVE  UNCHANGED Protocol!protocolVars
<1>1. /\ UNCHANGED <<nextSeq, log, statuses, kv, watermark, open, seq, reinsert>>
      /\ pc[t] = "sequenced" /\ pc'[t] = "collecting" /\ status' = [status EXCEPT ![seq[t]] = "Pending"]
  BY Zenon DEF InsertPending, logVars, markVars, openVars, commitVars, Goto, Inv1, TypeOK
<1>2. seq[t] \in Slot /\ seq[t] # 0 /\ status[seq[t]] = "Empty"
  BY ZenonT(40), <1>1 DEF Inv1, TypeOK, SeqOwned, SlotFollows, Committing
<1>3. status \in [Slot -> {"Empty", "Pending", "Validated", "Applied", "Aborted"}]
  BY ZenonT(40) DEF Inv1, TypeOK
<1>4. log[seq[t]] # NoRecord
  <2>1. log[seq[t]] = [open |-> open[t], ops |-> ops[t]]
    BY Zenon, <1>1 DEF Inv1, RecordOwned, Committing
  <2> QED BY <2>1 DEF NoRecord
<1>5. status'[seq[t]] = "Pending"
  BY Zenon, <1>1, <1>2, <1>3
<1>6. AbstractPhase(t)' = "sequenced" /\ AbstractPhase(t) = "sequenced"
  <2>1. \A n : n # 0 => PhaseAt("sequenced", n, "Empty") = "sequenced" /\ PhaseAt("collecting", n, "Pending") = "sequenced"
    BY Zenon DEF PhaseAt
  <2> QED BY Zenon, <1>1, <1>2, <1>5, <2>1 DEF AbstractPhase
<1>7. AbstractFlags(t)' = {} /\ AbstractFlags(t) = {}
  BY Zenon, <1>1, <1>2, <1>5 DEF AbstractFlags
<1>8. ASSUME NEW s \in Slot PROVE AbstractStatus(s)' = AbstractStatus(s)
  BY ZenonT(40), <1>1, <1>2, <1>3, <1>4, <1>5 DEF AbstractStatus
<1>9. Step(t)
  BY Zenon DEF Step
<1> QED BY Zenon, <1>1, <1>6, <1>7, <1>8, <1>9, ProtocolStutters

-----------------------------------------------------------------------------
(* Steps of the protocol.                                                    *)

\* The protocol and the manager mean the same by what a commit contains.
LEMMA SameRecords ==
  /\ \A o, store, s : Protocol!StalePuts(o, store, s) = StalePuts(o, store, s)
  /\ \A o : Protocol!Puts(o) = Puts(o)
  /\ \A o, p : Protocol!Conflicts(o, p) <=> Conflicts(o, p)
  /\ \A o, p : Protocol!Independent(o, p) <=> Independent(o, p)
  /\ \A k, s, o, flags : Protocol!NewVersions(k, s, o, flags) = NewVersions(k, s, o, flags)
  /\ Protocol!Slot = Slot /\ Protocol!NoRecord = NoRecord
<1>1. \A o : Protocol!Puts(o) = Puts(o)
  BY Zenon DEF Puts, Protocol!Puts
<1>2. \A store, k, s : Protocol!VisibleIn(store, k, s) = VisibleIn(store, k, s)
  BY Zenon DEF VisibleIn, Protocol!VisibleIn, UpTo, Protocol!UpTo, Newest, Protocol!Newest, NoVersion,
         Protocol!NoVersion
<1>3. \A o, store, s : Protocol!StalePuts(o, store, s) = StalePuts(o, store, s)
  BY Zenon, <1>1, <1>2 DEF StalePuts, Protocol!StalePuts
<1>4. \A o, p : Protocol!Conflicts(o, p) <=> Conflicts(o, p)
  BY Zenon DEF Conflicts, Protocol!Conflicts
<1>5. \A o, p : Protocol!Independent(o, p) <=> Independent(o, p)
  BY Zenon, <1>1, <1>4 DEF Independent, Protocol!Independent, DependentPuts, Protocol!DependentPuts
<1>6. \A k, s, o, flags : Protocol!NewVersions(k, s, o, flags) = NewVersions(k, s, o, flags)
  BY Zenon DEF NewVersions, Protocol!NewVersions
<1> QED BY ZenonT(40), <1>1, <1>3, <1>4, <1>5, <1>6 DEF Slot, Protocol!Slot, NoRecord, Protocol!NoRecord

\* wait_for_watermark returns: the snapshot is open.
LEMMA OpenSteps ==
  ASSUME Inv1, Inv2, Inv7, [Next]_vars, NEW t \in Txn, OpenSnapshot(t)
  PROVE  Protocol!Next
<1>1. /\ UNCHANGED <<nextSeq, log, statuses, kv, status, watermark, seq, reinsert>>
      /\ pc[t] \in Opening /\ pc'[t] \in {"reading", "registering"}
      /\ open' = [open EXCEPT ![t] = open'[t]] /\ open'[t] \in {watermark, target[t]}
      /\ target[t] <= watermark
  <2>1. pc \in [Txn -> PCs] /\ open \in [Txn -> Nat] /\ watermark \in Nat /\ target[t] \in Nat
    BY Zenon, SeqType DEF Inv1, TypeOK
  <2> QED BY Zenon, <2>1 DEF OpenSnapshot, logVars, markVars, commitVars, Goto, Opening
<1>2. seq[t] = 0
  BY Zenon, <1>1 DEF Inv1, SeqOwned, Unsequenced, Opening
<1>3. AbstractPhase(t) = "idle" /\ AbstractPhase(t)' = "open"
  <2>1. \A x : PhaseAt("reading", 0, x) = "open" /\ PhaseAt("registering", 0, x) = "open"
    BY Zenon DEF PhaseAt
  <2>2. AbstractPhase(t) = "idle"
    BY Zenon, <1>1 DEF AbstractPhase, PhaseAt, Opening
  <2> QED BY Zenon, <1>1, <1>2, <2>1, <2>2 DEF AbstractPhase
<1>4. AbstractFlags(t)' = AbstractFlags(t)
  BY Zenon, <1>1, <1>2 DEF AbstractFlags
<1>5. Step(t)
  BY Zenon DEF Step
<1>6. Phases' = [Phases EXCEPT ![t] = "open"] /\ Phases[t] = "idle" /\ Reinserted' = Reinserted /\ Records' = Records
  BY ZenonT(40), <1>1, <1>3, <1>4, <1>5, Frame, RecordsFrame DEF Phases
<1>7. Markers' = Markers
  BY ZenonT(40), <1>1 DEF Markers, AbstractStatus
<1>8. open'[t] \in 0..watermark /\ open'[t] <= watermark
  BY SMTT(40), <1>1, SeqType DEF Inv1, TypeOK
<1>9. Protocol!Open(t, open'[t])
  BY Zenon, <1>1, <1>6, <1>7, <1>8
     DEF Protocol!Open, Protocol!Enter, Phases, Reinserted, Records, Markers
<1> QED BY ZenonT(40), <1>8, <1>9 DEF Protocol!Next

\* sequenced_write gives the commit its number.
LEMMA SequenceSteps ==
  ASSUME Inv1, Inv2, Inv7, [Next]_vars, NEW t \in Txn, SequencedWrite(t)
  PROVE  Protocol!Next
<1>1. /\ UNCHANGED <<statuses, kv, status, watermark, open, reinsert>>
      /\ pc[t] = "sequencing" /\ pc'[t] = "sequenced"
      /\ nextSeq <= MaxSeq /\ nextSeq' = nextSeq + 1
      /\ seq' = [seq EXCEPT ![t] = nextSeq]
      /\ log' = [log EXCEPT ![nextSeq] = [open |-> open[t], ops |-> ops[t]]]
  BY Zenon DEF SequencedWrite, markVars, openVars, Goto, Inv1, TypeOK
<1>2. nextSeq \in Slot /\ nextSeq # 0 /\ status[nextSeq] = "Empty"
  <2>1. nextSeq \in Slot /\ nextSeq # 0 /\ ~(nextSeq < nextSeq)
    BY SMTT(40), <1>1, SeqType DEF Inv1, TypeOK, Slot
  <2> QED BY ZenonT(40), <2>1 DEF Inv1, RecordKept
<1>3. seq'[t] = nextSeq /\ seq[t] = 0 /\ log'[nextSeq] = [open |-> open[t], ops |-> ops[t]]
  BY ZenonT(40), <1>1, <1>2 DEF Inv1, TypeOK, SeqOwned, Unsequenced
<1>4. log'[nextSeq] # NoRecord /\ log'[nextSeq].open = open[t] /\ log'[nextSeq].ops = ops[t]
  BY <1>3 DEF NoRecord
<1>5. \A s \in Slot : s # nextSeq => log'[s] = log[s]
  BY Zenon, <1>1 DEF Inv1, TypeOK
<1>0. PICK n : n = nextSeq
  BY Zenon
<1>6. Records' = [Records EXCEPT ![n] = [open |-> open[t], ops |-> ops[t],
                                         flags |-> StalePuts(ops[t], kv, open[t])]]
  <2>1. \A s \in Slot : s # n => AbstractRecord(s)' = AbstractRecord(s)
    BY ZenonT(40), <1>0, <1>5, RecordsAbstract
  <2>2. AbstractRecord(n)' = [open |-> open[t], ops |-> ops[t],
                              flags |-> StalePuts(ops[t], kv, open[t])]
    BY ZenonT(40), <1>0, <1>1, <1>4, <1>2 DEF AbstractRecord
  <2> QED BY ZenonT(40), <1>0, <1>2, <2>1, <2>2 DEF Records
<1>7. Markers' = [Markers EXCEPT ![n] = "Pending"]
  <2>1. \A s \in Slot : s # n => AbstractStatus(s)' = AbstractStatus(s)
    BY Zenon, <1>0, <1>1, <1>5 DEF AbstractStatus
  <2>2. AbstractStatus(n)' = "Pending"
    BY ZenonT(40), <1>0, <1>1, <1>2, <1>4 DEF AbstractStatus
  <2> QED BY Zenon, <1>0, <1>2, <2>1, <2>2 DEF Markers
<1>8. AbstractPhase(t) = "open" /\ AbstractPhase(t)' = "sequenced"
  <2>1. \A x : PhaseAt("sequencing", 0, x) = "open"
    BY Zenon DEF PhaseAt
  <2>2. \A q : q # 0 => PhaseAt("sequenced", q, "Empty") = "sequenced"
    BY Zenon DEF PhaseAt
  <2> QED BY ZenonT(40), <1>1, <1>2, <1>3, <2>1, <2>2 DEF AbstractPhase
<1>9. AbstractFlags(t)' = AbstractFlags(t)
  <2>1. AbstractFlags(t) = {}
    BY Zenon, <1>3 DEF AbstractFlags
  <2>2. AbstractFlags(t)' = {}
    BY Zenon, <1>1, <1>2, <1>3 DEF AbstractFlags
  <2> QED BY Zenon, <2>1, <2>2
<1>10. Step(t)
  BY Zenon DEF Step
<1>11. Phases' = [Phases EXCEPT ![t] = "sequenced"] /\ Phases[t] = "open" /\ Reinserted' = Reinserted
  BY ZenonT(40), <1>8, <1>9, <1>10, Frame DEF Phases
<1>12. ops[t] \in Ops
  BY Zenon, <1>1 DEF Inv7, Flags
<1>13. Protocol!Sequence(t, ops[t])
  BY ZenonT(40), <1>0, <1>1, <1>6, <1>7, <1>11, SameRecords
     DEF Protocol!Sequence, Protocol!Enter, Phases, Reinserted, Records, Markers
<1> QED BY Zenon, <1>12, <1>13 DEF Protocol!Next

\* What the protocol sees of a commit that has its number and its record.
LEMMA Sequenced ==
  ASSUME Inv1, NEW t \in Txn, pc[t] \in Committing
  PROVE  /\ seq[t] \in Slot /\ seq[t] # 0
         /\ log[seq[t]] = [open |-> open[t], ops |-> ops[t]] /\ log[seq[t]] # NoRecord
         /\ Records[seq[t]].open = open[t] /\ Records[seq[t]].ops = ops[t]
         /\ Records[seq[t]].flags = StalePuts(ops[t], kv, open[t])
<1>1. seq[t] \in Slot /\ seq[t] # 0 /\ log[seq[t]] = [open |-> open[t], ops |-> ops[t]]
  BY ZenonT(40) DEF Inv1, TypeOK, SeqOwned, RecordOwned
<1>2. log[seq[t]] # NoRecord
  BY <1>1 DEF NoRecord
<1>3. log[seq[t]].open = open[t] /\ log[seq[t]].ops = ops[t]
  BY <1>1
<1>4. Records[seq[t]] = [open |-> open[t], ops |-> ops[t], flags |-> StalePuts(ops[t], kv, open[t])]
  BY Zenon, <1>1, <1>2, <1>3 DEF Records, AbstractRecord
<1> QED BY SMTT(40), <1>1, <1>2, <1>4

\* The commits between a and b as the protocol sees them, once the commit of o has passed them.
LEMMA Predecessors ==
  ASSUME Inv1, NEW o, NEW a, NEW b, Passed(o, a, b), NEW i \in Slot, a < i, i < b
  PROVE  /\ Markers[i] = status[i] /\ Records[i].ops = log[i].ops
         /\ Markers[i] \in {"Validated", "Applied", "Aborted"} \/ (Markers[i] = "Pending" /\ Independent(o, log[i].ops))
         /\ Markers[i] \in {"Validated", "Applied"} <=> Decided(i)
<1>1. status[i] # "Empty" /\ (status[i] = "Pending" => Independent(o, log[i].ops))
  BY Zenon DEF Passed
<1>2. log[i] # NoRecord /\ status[i] \in {"Empty", "Pending", "Validated", "Applied", "Aborted"}
  BY Zenon, <1>1 DEF Inv1, TypeOK, RecordKept
<1>3. Markers[i] = status[i]
  BY Zenon, <1>1 DEF Markers, AbstractStatus
<1>4. Records[i] = [open |-> log[i].open, ops |-> log[i].ops, flags |-> StalePuts(log[i].ops, kv, log[i].open)]
  BY ZenonT(40), <1>2 DEF Records, AbstractRecord
<1>5. Records[i].ops = log[i].ops
  BY <1>4
<1> QED BY ZenonT(40), <1>1, <1>2, <1>3, <1>5 DEF Decided

\* The flags that the walk over the predecessors computes are those of the protocol.
LEMMA FlagsFinal ==
  ASSUME Inv1, NEW t \in Txn, pc[t] \in Committing,
         FlagsAfter(ops[t], reinsert[t], open[t], seq[t]), Passed(ops[t], open[t], seq[t])
  PROVE  Protocol!FinalFlags(seq[t], Protocol!Committed) = reinsert[t]
<1> DEFINE s == seq[t]
           W(k) == {i \in Protocol!Concurrent(s) \cap Protocol!Committed : Records[i].ops.writes[k].op # "None"}
           LastDeleted(k) == \E i \in W(k) : /\ Records[i].ops.writes[k].op = "Delete"
                                             /\ \A j \in W(k) : j <= i
<1>1. /\ s \in Slot /\ Records[s].open = open[t] /\ Records[s].ops = ops[t]
      /\ Records[s].flags = StalePuts(ops[t], kv, open[t])
  BY Zenon, Sequenced
<1>2. Protocol!FinalFlags(s, Protocol!Committed) =
        {k \in Puts(ops[t]) : IF W(k) = {} THEN k \in StalePuts(ops[t], kv, open[t])
                              ELSE LastDeleted(k)}
  BY Zenon, <1>1, SameRecords DEF Protocol!FinalFlags, Records
<1>3. Protocol!Concurrent(s) = {i \in Slot : open[t] < i /\ i < s}
  BY Zenon, <1>1, SameRecords DEF Protocol!Concurrent, Records
<1>4. ASSUME NEW i \in Slot, open[t] < i, i < s
      PROVE  Records[i].ops = log[i].ops /\ (i \in Protocol!Committed <=> Decided(i))
  <2>1. i \in Protocol!Committed <=> Markers[i] \in {"Validated", "Applied"}
    BY Zenon, SameRecords DEF Protocol!Committed, Markers
  <2>2. Records[i].ops = log[i].ops /\ (Markers[i] \in {"Validated", "Applied"} <=> Decided(i))
    BY ZenonT(40), <1>4, Predecessors
  <2> QED BY Zenon, <2>1, <2>2
<1>5. ASSUME NEW k PROVE W(k) = {i \in Slot : open[t] < i /\ i < s /\ Wrote(k, i)}
  BY Zenon, <1>3, <1>4 DEF Wrote
<1> HIDE DEF W
<1>6. ASSUME NEW k \in Puts(ops[t])
      PROVE  k \in reinsert[t] <=>
               IF W(k) = {} THEN k \in StalePuts(ops[t], kv, open[t])
               ELSE LastDeleted(k)
  <2>1. CASE NoneWrote(k, open[t], s) /\ (k \in reinsert[t] <=> k \in StalePuts(ops[t], kv, open[t]))
    <3>1. W(k) = {}
      BY Zenon, <1>5, <2>1 DEF NoneWrote
    <3> QED BY Zenon, <2>1, <3>1
  <2>2. ASSUME NEW i \in Slot, LastWrote(k, open[t], s, i),
               k \in reinsert[t] <=> log[i].ops.writes[k].op = "Delete"
        PROVE  k \in reinsert[t] <=>
                 IF W(k) = {} THEN k \in StalePuts(ops[t], kv, open[t])
                 ELSE LastDeleted(k)
    <3>1. i \in W(k) /\ open[t] < i /\ i < s
      BY Zenon, <1>5, <2>2 DEF LastWrote
    <3>2. \A j \in W(k) : j \in Slot /\ ~(i < j)
      BY ZenonT(40), <1>5, <2>2 DEF LastWrote
    <3>3. \A j \in W(k) : j \in Nat /\ i >= j
      BY SMTT(40), <3>2, SeqType DEF Inv1
    <3>4. \A j \in W(k) : i <= j => j = i
      BY <3>1, <3>3
    <3>5. Records[i].ops = log[i].ops
      BY ZenonT(40), <1>4, <3>1
    <3>6. \A j \in W(k) : j <= i
      BY Zenon, <3>1, <3>3
    <3>7. LastDeleted(k) <=> Records[i].ops.writes[k].op = "Delete"
      BY Zenon, <3>1, <3>4, <3>6
    <3> HIDE DEF LastDeleted
    <3> QED BY ZenonT(40), <2>2, <3>1, <3>5, <3>7
  <2> QED BY Zenon, <2>1, <2>2 DEF FlagsAfter
<1>7. reinsert[t] \subseteq Puts(ops[t])
  BY Zenon DEF Inv1, FlagsOfPuts
<1> QED BY Zenon, <1>2, <1>6, <1>7

\* set_validated decides as the protocol does.
LEMMA ValidateSteps ==
  ASSUME Durable, Inv1, Inv2, Inv3, Inv7, [Next]_vars, NEW t \in Txn, SetValidated(t)
  PROVE  Protocol!Next
<1>1. /\ UNCHANGED <<nextSeq, log, statuses, kv, watermark, open, seq, reinsert>>
      /\ pc[t] = "validating" /\ pc'[t] = "validated" /\ at[t] = seq[t]
      /\ status' = [status EXCEPT ![seq[t]] = "Validated"]
  BY Zenon DEF SetValidated, logVars, markVars, openVars, commitVars, Goto, Inv1, TypeOK
<1>2. pc[t] \in Committing /\ pc[t] \in Walking /\ seq[t] \in Slot /\ seq[t] # 0 /\ status[seq[t]] = "Pending"
  BY ZenonT(40), <1>1 DEF Inv1, TypeOK, SeqOwned, SlotFollows, Committing, Deciding, Walking
<1>3. FlagsAfter(ops[t], reinsert[t], open[t], seq[t]) /\ Passed(ops[t], open[t], seq[t])
  BY Zenon, <1>1, <1>2 DEF Inv7, Flags, Flagged
<1>4. Protocol!FinalFlags(seq[t], Protocol!Committed) = reinsert[t]
  BY Zenon, <1>2, <1>3, FlagsFinal
<1>5. Protocol!Valid(seq[t])
  <2>1. Records[seq[t]].open = open[t] /\ Records[seq[t]].ops = ops[t]
    BY Zenon, <1>2, Sequenced
  <2> SUFFICES ASSUME NEW i \in Slot, open[t] < i, i < seq[t]
               PROVE  /\ Protocol!Passable(seq[t], i)
                      /\ ~(i \in Protocol!Committed /\ Protocol!Clashes(seq[t], i))
    BY Zenon, <2>1, <1>2, SameRecords DEF Protocol!Valid, Protocol!Concurrent, Records
  <2>2. /\ Markers[i] = status[i] /\ Records[i].ops = log[i].ops
        /\ \/ Markers[i] \in {"Validated", "Applied", "Aborted"}
           \/ Markers[i] = "Pending" /\ Independent(ops[t], log[i].ops)
        /\ Markers[i] \in {"Validated", "Applied"} <=> Decided(i)
    BY Zenon, <1>3, Predecessors
  <2>3. Protocol!Passable(seq[t], i)
    BY Zenon, <2>1, <2>2, SameRecords DEF Protocol!Passable, Markers, Records
  <2>4. Decided(i) => ~Conflicts(ops[t], log[i].ops)
    <3>1. Cleared(ops[t], i)
      BY Zenon, <1>1, <1>2 DEF Inv3, Walk
    <3> QED BY Zenon, <3>1 DEF Cleared, Decided
  <2>5. i \in Protocol!Committed => Decided(i)
    BY Zenon, <2>2, SameRecords DEF Protocol!Committed, Markers
  <2>6. Protocol!Clashes(seq[t], i) <=> Conflicts(ops[t], log[i].ops)
    BY ZenonT(40), <2>1, <2>2, SameRecords DEF Protocol!Clashes, Records
  <2> QED BY Zenon, <2>3, <2>4, <2>5, <2>6
<1>6. status'[seq[t]] = "Validated"
  BY ZenonT(40), <1>1, <1>2 DEF Inv1, TypeOK
<1>7. AbstractPhase(t) = "sequenced" /\ AbstractPhase(t)' = "validated"
  <2>1. \A n : n # 0 => PhaseAt("validating", n, "Pending") = "sequenced" /\ PhaseAt("validated", n, "Validated") = "validated"
    BY Zenon DEF PhaseAt
  <2> QED BY ZenonT(40), <1>1, <1>2, <1>6, <2>1 DEF AbstractPhase
<1>8. AbstractFlags(t)' = reinsert[t]
  BY Zenon, <1>1, <1>2, <1>6 DEF AbstractFlags
<1>9. Step(t)
  BY Zenon DEF Step
<1>10. /\ Phases' = [Phases EXCEPT ![t] = "validated"] /\ Phases[t] = "sequenced"
       /\ Reinserted' = [Reinserted EXCEPT ![t] = reinsert[t]]
  BY ZenonT(40), <1>7, <1>8, <1>9, Frame DEF Phases
<1>11. Records' = Records
  BY Zenon, <1>1, RecordsFrame
<1>12. Markers' = [Markers EXCEPT ![seq[t]] = "Validated"]
  <2>1. PICK n \in Slot : n = seq[t]
    BY Zenon, <1>2
  <2> QED BY ZenonT(40), <1>1, <1>2, <2>1, MarkersFrame
<1>13. Protocol!Validate(t)
  BY ZenonT(40), <1>1, <1>4, <1>5, <1>10, <1>11, <1>12
     DEF Protocol!Validate, Protocol!Enter, Phases, Reinserted, Records, Markers
<1> QED BY Zenon, <1>13 DEF Protocol!Next

\* set_aborted has met a conflict that the protocol sees too.
LEMMA AbortSteps ==
  ASSUME Inv1, Inv2, Inv7, [Next]_vars, NEW t \in Txn, SetAborted(t)
  PROVE  Protocol!Next
<1>1. /\ UNCHANGED <<nextSeq, log, statuses, kv, watermark, open, seq, reinsert>>
      /\ pc[t] = "conflicting" /\ pc'[t] = "advancing"
      /\ status' = [status EXCEPT ![seq[t]] = "Aborted"]
  BY Zenon DEF SetAborted, logVars, markVars, openVars, commitVars, Goto, Inv1, TypeOK
<1>2. pc[t] \in Committing /\ seq[t] \in Slot /\ seq[t] # 0 /\ status[seq[t]] = "Pending"
  BY ZenonT(40), <1>1 DEF Inv1, TypeOK, SeqOwned, SlotFollows, Committing, Deciding
<1>3. Refuted(t)
  BY Zenon, <1>1 DEF Inv7, Flags
<1>4. Protocol!Invalid(seq[t])
  <2>1. Records[seq[t]].open = open[t] /\ Records[seq[t]].ops = ops[t]
    BY Zenon, <1>2, Sequenced
  <2>2. PICK i \in Slot : i = at[t]
    BY Zenon, <1>3 DEF Refuted
  <2>3. open[t] < i /\ i < seq[t] /\ Decided(i) /\ Conflicts(ops[t], log[i].ops) /\ Passed(ops[t], open[t], i)
    BY Zenon, <1>3, <2>2 DEF Refuted
  <2>4. i \in Protocol!Concurrent(seq[t])
    BY ZenonT(40), <1>2, <2>1, <2>3, SameRecords DEF Protocol!Concurrent, Records
  <2>5. status[i] # "Empty" /\ log[i] # NoRecord
    BY Zenon, <2>3 DEF Decided, Inv1, RecordKept
  <2>6. i \in Protocol!Committed
    BY Zenon, <2>3, <2>5, SameRecords DEF Protocol!Committed, AbstractStatus, Decided
  <2>7. Protocol!Clashes(seq[t], i)
    <3>1. Records[i] = [open |-> log[i].open, ops |-> log[i].ops, flags |-> StalePuts(log[i].ops, kv, log[i].open)]
      BY ZenonT(40), <2>5 DEF Records, AbstractRecord
    <3>2. Records[i].ops = log[i].ops
      BY <3>1
    <3> QED BY Zenon, <2>1, <2>3, <3>2, SameRecords DEF Protocol!Clashes, Records
  <2>8. ASSUME NEW j \in Protocol!Concurrent(seq[t]), j < i PROVE Protocol!Passable(seq[t], j)
    <3>1. j \in Slot /\ open[t] < j
      BY Zenon, <1>2, <2>1, SameRecords DEF Protocol!Concurrent, Records
    <3>2. /\ Records[j].ops = log[j].ops
          /\ \/ Markers[j] \in {"Validated", "Applied", "Aborted"}
             \/ Markers[j] = "Pending" /\ Independent(ops[t], log[j].ops)
      BY ZenonT(40), <2>3, <2>8, <3>1, Predecessors
    <3> QED BY Zenon, <2>1, <3>2, SameRecords DEF Protocol!Passable, Markers, Records
  <2> QED BY ZenonT(40), <2>4, <2>6, <2>7, <2>8 DEF Protocol!Invalid
<1>6. status'[seq[t]] = "Aborted"
  BY Zenon, <1>1, <1>2 DEF Inv1, TypeOK
<1>7. AbstractPhase(t) = "sequenced" /\ AbstractPhase(t)' = "aborted"
  <2>1. \A n : n # 0 => PhaseAt("conflicting", n, "Pending") = "sequenced" /\ PhaseAt("advancing", n, "Aborted") = "aborted"
    BY Zenon DEF PhaseAt
  <2> QED BY Zenon, <1>1, <1>2, <1>6, <2>1 DEF AbstractPhase
<1>8. AbstractFlags(t)' = AbstractFlags(t)
  BY Zenon, <1>1, <1>2, <1>6 DEF AbstractFlags
<1>9. Step(t)
  BY Zenon DEF Step
<1>10. Phases' = [Phases EXCEPT ![t] = "aborted"] /\ Phases[t] = "sequenced" /\ Reinserted' = Reinserted
  BY Zenon, <1>7, <1>8, <1>9, Frame DEF Phases
<1>11. Records' = Records
  BY Zenon, <1>1, RecordsFrame
<1>12. Markers' = [Markers EXCEPT ![seq[t]] = "Aborted"]
  <2>1. PICK n \in Slot : n = seq[t]
    BY Zenon, <1>2
  <2> QED BY ZenonT(40), <1>1, <1>2, <2>1, MarkersFrame
<1>13. Protocol!Abort(t)
  BY ZenonT(40), <1>1, <1>4, <1>10, <1>11, <1>12
     DEF Protocol!Abort, Protocol!Enter, Phases, Reinserted, Records, Markers
<1> QED BY Zenon, <1>13 DEF Protocol!Next

\* The batch is that of the protocol.
LEMMA WriteSteps ==
  ASSUME Inv1, Inv2, Inv7, [Next]_vars, NEW t \in Txn, WriteKeyspaces(t)
  PROVE  Protocol!Next
<1>1. /\ UNCHANGED <<nextSeq, log, statuses, status, watermark, open, seq, reinsert>>
      /\ pc[t] = "writing" /\ pc'[t] = "applying"
      /\ kv' = [k \in Key |-> kv[k] \cup NewVersions(k, seq[t], ops[t], reinsert[t])]
  BY Zenon DEF WriteKeyspaces, logVars, markVars, openVars, commitVars, Goto, Inv1, TypeOK
<1>2. pc[t] \in Committing /\ seq[t] \in Slot /\ seq[t] # 0 /\ status[seq[t]] = "Validated"
  BY ZenonT(40), <1>1 DEF Inv1, TypeOK, SeqOwned, SlotFollows, Committing
<1>3. AbstractPhase(t) = "validated" /\ AbstractPhase(t)' = "written"
  <2>1. \A n : n # 0 => PhaseAt("writing", n, "Validated") = "validated" /\ PhaseAt("applying", n, "Validated") = "written"
    BY Zenon DEF PhaseAt
  <2> QED BY Zenon, <1>1, <1>2, <2>1 DEF AbstractPhase
<1>4. AbstractFlags(t)' = reinsert[t] /\ AbstractFlags(t) = reinsert[t]
  BY Zenon, <1>1, <1>2 DEF AbstractFlags
<1>5. Step(t)
  BY Zenon DEF Step
<1>6. /\ Phases' = [Phases EXCEPT ![t] = "written"] /\ Phases[t] = "validated"
      /\ Reinserted' = Reinserted /\ Reinserted[t] = reinsert[t]
  BY ZenonT(40), <1>3, <1>4, <1>5, Frame DEF Phases, Reinserted
<1>7. Records' = Records /\ Records[seq[t]].ops = ops[t]
  BY ZenonT(40), <1>1, <1>2, RecordsFrame, Sequenced
<1>8. Markers' = Markers
  BY Zenon, <1>1 DEF Markers, AbstractStatus
<1>9. Protocol!WriteVersions(t)
  BY ZenonT(40), <1>1, <1>6, <1>7, <1>8, SameRecords
     DEF Protocol!WriteVersions, Protocol!Enter, Phases, Reinserted, Records, Markers
<1> QED BY Zenon, <1>9 DEF Protocol!Next

\* The commit is applied.
LEMMA ApplySteps ==
  ASSUME Inv1, Inv2, Inv7, [Next]_vars, NEW t \in Txn, SetApplied(t)
  PROVE  Protocol!Next
<1>1. /\ UNCHANGED <<nextSeq, log, statuses, kv, watermark, open, seq, reinsert>>
      /\ pc[t] = "applying" /\ pc'[t] = "advancing"
      /\ status' = [status EXCEPT ![seq[t]] = "Applied"]
  BY ZenonT(40) DEF SetApplied, logVars, markVars, openVars, commitVars, Goto, Inv1, TypeOK
<1>2. pc[t] \in Committing /\ seq[t] \in Slot /\ seq[t] # 0 /\ status[seq[t]] = "Validated"
  BY ZenonT(40), <1>1 DEF Inv1, TypeOK, SeqOwned, SlotFollows, Committing
<1>3. status'[seq[t]] = "Applied"
  BY ZenonT(40), <1>1, <1>2 DEF Inv1, TypeOK
<1>4. AbstractPhase(t) = "written" /\ AbstractPhase(t)' = "applied"
  <2>1. \A n : n # 0 => PhaseAt("applying", n, "Validated") = "written" /\ PhaseAt("advancing", n, "Applied") = "applied"
    BY Zenon DEF PhaseAt
  <2> QED BY ZenonT(40), <1>1, <1>2, <1>3, <2>1 DEF AbstractPhase
<1>5. AbstractFlags(t)' = AbstractFlags(t)
  BY Zenon, <1>1, <1>2, <1>3 DEF AbstractFlags
<1>6. Step(t)
  BY Zenon DEF Step
<1>7. Phases' = [Phases EXCEPT ![t] = "applied"] /\ Phases[t] = "written" /\ Reinserted' = Reinserted
  BY ZenonT(40), <1>4, <1>5, <1>6, Frame DEF Phases
<1>8. Records' = Records
  BY Zenon, <1>1, RecordsFrame
<1>9. Markers' = [Markers EXCEPT ![seq[t]] = "Applied"]
  <2>1. PICK n \in Slot : n = seq[t]
    BY Zenon, <1>2
  <2> QED BY ZenonT(40), <1>1, <1>2, <2>1, MarkersFrame
<1>10. Protocol!Apply(t)
  BY ZenonT(40), <1>1, <1>7, <1>8, <1>9
     DEF Protocol!Apply, Protocol!Enter, Phases, Reinserted, Records, Markers
<1> QED BY Zenon, <1>10 DEF Protocol!Next

\* may_increment_watermark moves the watermark by one.
LEMMA AdvanceSteps ==
  ASSUME Inv1, Inv2, Inv7, [Next]_vars, NEW t \in Txn, IncrementWatermark(t)
  PROVE  Protocol!Next
<1>1. /\ UNCHANGED <<nextSeq, log, statuses, kv, status, open, seq, reinsert, pc>>
      /\ watermark' = cand[t] /\ cand[t] \in Slot /\ Settled(cand[t]) /\ watermark = cand[t] - 1
  BY ZenonT(40) DEF IncrementWatermark, CanAdvanceTo, logVars, openVars, commitVars
<1>2. watermark < MaxSeq /\ watermark' = watermark + 1 /\ cand[t] = watermark + 1 /\ watermark + 1 \in Slot
  BY SMTT(40), <1>1, SeqType DEF Inv1
<1>3. Markers[watermark + 1] \in {"Aborted", "Applied"}
  BY Zenon, <1>1, <1>2 DEF Markers, AbstractStatus, Settled
<1>4. Phases' = Phases /\ Reinserted' = Reinserted /\ Markers' = Markers
  BY Zenon, <1>1 DEF Phases, AbstractPhase, Reinserted, AbstractFlags, Markers, AbstractStatus
<1>5. Records' = Records
  BY Zenon, <1>1, RecordsFrame
<1>6. Protocol!Advance
  BY ZenonT(40), <1>1, <1>2, <1>3, <1>4, <1>5
     DEF Protocol!Advance, Phases, Reinserted, Records, Markers
<1> QED BY Zenon, <1>6 DEF Protocol!Next

\* persist_commit_status tells the outcome, and the commit returns.
LEMMA ReturnSteps ==
  ASSUME Inv1, Inv2, Inv7, [Next]_vars, NEW t \in Txn, PersistStatus(t)
  PROVE  Protocol!Next
<1>1. /\ UNCHANGED <<nextSeq, log, kv, status, watermark, open, seq, reinsert>>
      /\ pc[t] = "persisting" /\ pc'[t] = "returned"
      /\ statuses' = [statuses EXCEPT ![seq[t]] = IF status[seq[t]] = "Applied" THEN "Committed" ELSE "Rejected"]
  BY ZenonT(40) DEF PersistStatus, markVars, openVars, commitVars, Goto, Inv1, TypeOK
<1>2. seq[t] # 0 /\ status[seq[t]] \in {"Applied", "Aborted"}
  BY Zenon, <1>1 DEF Inv1, SeqOwned, SlotFollows, Committing
<1>3. /\ AbstractPhase(t) = IF status[seq[t]] = "Applied" THEN "applied" ELSE "aborted"
      /\ AbstractPhase(t)' = "returned"
  <2>1. \A n : n # 0 => PhaseAt("persisting", n, "Applied") = "applied" /\ PhaseAt("persisting", n, "Aborted") = "aborted"
    BY Zenon DEF PhaseAt
  <2>2. \A n, x : PhaseAt("returned", n, x) = "returned"
    BY Zenon DEF PhaseAt
  <2> QED BY ZenonT(40), <1>1, <1>2, <2>1, <2>2 DEF AbstractPhase
<1>4. AbstractFlags(t)' = AbstractFlags(t)
  BY Zenon, <1>1 DEF AbstractFlags
<1>5. Step(t)
  BY Zenon DEF Step
<1>6. /\ Phases' = [Phases EXCEPT ![t] = "returned"] /\ Reinserted' = Reinserted
      /\ Phases[t] \in {"applied", "aborted"} /\ (Phases[t] = "applied" <=> status[seq[t]] = "Applied")
  BY ZenonT(40), <1>3, <1>4, <1>5, Frame DEF Phases
<1>7. Records' = Records
  BY Zenon, <1>1, RecordsFrame
<1>8. Markers' = Markers
  BY Zenon, <1>1 DEF Markers, AbstractStatus
<1>9. statuses' = [statuses EXCEPT ![seq[t]] = IF Phases[t] = "applied" THEN "Committed" ELSE "Rejected"]
  BY Zenon, <1>1, <1>6
<1>10. Protocol!Return(t)
  BY ZenonT(40), <1>1, <1>6, <1>7, <1>8, <1>9
     DEF Protocol!Return, Protocol!Enter, Phases, Reinserted, Records, Markers
<1> QED BY ZenonT(40), <1>10 DEF Protocol!Next

-----------------------------------------------------------------------------
\* A new manager is the protocol at its start.
LEMMA InitProtocol == Init => Protocol!Init
<1> SUFFICES ASSUME Init PROVE Protocol!Init
    BY Zenon
<1>1. Records = [s \in Slot |-> NoRecord] /\ Markers = [s \in Slot |-> "Empty"]
  BY Zenon DEF Init, Records, AbstractRecord, Markers, AbstractStatus
<1>2. Phases = [t \in Txn |-> "idle"]
  <2>1. \A t \in Txn : AbstractPhase(t) = "idle"
    BY Zenon DEF Init, AbstractPhase, PhaseAt
  <2> QED BY Zenon, <2>1 DEF Phases
<1>3. Reinserted = [t \in Txn |-> {}]
  <2>1. \A t \in Txn : AbstractFlags(t) = {}
    BY Zenon DEF Init, AbstractFlags
  <2> QED BY Zenon, <2>1 DEF Reinserted
<1> QED BY ZenonT(40), <1>1, <1>2, <1>3, SameRecords
        DEF Init, Protocol!Init, Phases, Reinserted, Records, Markers

\* Every step of the manager is one of the protocol, or none.
LEMMA NextProtocol ==
  Durable /\ ~Faults /\ Inv1 /\ Inv2 /\ Inv3 /\ Inv7 /\ [Next]_vars => [Protocol!Next]_(Protocol!protocolVars)
<1> SUFFICES ASSUME Durable, ~Faults, Inv1, Inv2, Inv3, Inv7, [Next]_vars
             PROVE  Protocol!Next \/ UNCHANGED Protocol!protocolVars
    BY Zenon
<1>1. CASE UNCHANGED vars
  BY Zenon, <1>1 DEF vars, Protocol!protocolVars, AbstractRecord, AbstractStatus, AbstractPhase, AbstractFlags
<1>2. ASSUME NEW t \in Txn, Client(t) \/ Step(t) \/ Failure(t)
      PROVE  Protocol!Next \/ UNCHANGED Protocol!protocolVars
  <2>1. ~Failure(t)
    BY Zenon DEF Failure, FailSequencedWrite, FailLog, FailKeyspaces
  <2>2. CASE \/ RecordReader(t) \/ CloseRead(t) \/ DropUnclosed(t) \/ Close(t) \/ FreeAfterClose(t)
             \/ BeginCommit(t) \/ CollectWindows(t) \/ ReadStatuses(t) \/ ValidateOnDisk(t)
             \/ ValidateInWindows(t) \/ RaiseHighest(t) \/ Unregister(t) \/ FreeAfterUnregister(t)
             \/ EndIncrement(t) \/ FreeAfterAdvance(t)
    <3>1. QuietStep(t)
      BY Zenon, <2>2, QuietSteps
    <3> QED BY ZenonT(40), <1>2, <3>1, QuietStutters
  <2>3. CASE BeginOpen(t) \/ BeginOpenAt(t) \/ InsertPending(t)
    BY Zenon, <2>3, OpeningStutters, PendingStutters
  <2>4. CASE \/ OpenSnapshot(t) \/ SequencedWrite(t) \/ SetValidated(t) \/ SetAborted(t)
             \/ WriteKeyspaces(t) \/ SetApplied(t) \/ IncrementWatermark(t) \/ PersistStatus(t)
    BY ZenonT(40), <2>4, OpenSteps, SequenceSteps, ValidateSteps, AbortSteps, WriteSteps, ApplySteps,
       AdvanceSteps, ReturnSteps
  <2> QED BY ZenonT(40), <1>2, <2>1, <2>2, <2>3, <2>4 DEF Client, Step
<1> QED BY Zenon, <1>1, <1>2 DEF Next, Finished

\* The isolation manager implements the commit protocol: as long as the log and the
\* keyspaces work, its threads decide every commit as if in one step, write what
\* the protocol writes, and move the watermark as the protocol does.
THEOREM Refinement ==
  ASSUME Durable, ~Faults
  PROVE  Spec => ImplementsProtocol
<1> DEFINE IInv == Inv1 /\ Inv2 /\ Inv3 /\ Inv4 /\ Inv7
<1>1. Init => IInv
  BY ZenonT(40), InitInv1, InitInv2, InitInv3, InitInv4, InitInv7
<1>2. IInv /\ [Next]_vars => IInv'
  <2> SUFFICES ASSUME IInv, [Next]_vars PROVE IInv'
    BY Zenon
  <2>1. Inv1'
    BY Zenon, NextInv1
  <2> QED BY ZenonT(40), <2>1, NextInv2, NextInv3, NextInv4, NextInv7
<1>3. IInv /\ [Next]_vars => [Protocol!Next]_(Protocol!protocolVars)
  BY Zenon, NextProtocol
<1> QED BY <1>1, <1>2, <1>3, InitProtocol, PTL DEF Spec, ImplementsProtocol, Protocol!Spec

-----------------------------------------------------------------------------
(* Layer 6: the readers of the windows.                                      *)

\* The count of every window not freed yet is exact, and the watermark, up to
\* which snapshots are opened, has not left the windows.
Inv6 ==
    /\ \A i \in WindowIndex : readers[i] = IF i < front THEN 0 ELSE Cardinality(CountedIn(i))
    /\ back <= MaxSeq - First + 1
    /\ watermark < Start(back)

\* Adding a snapshot to a set of snapshots, or removing one, counts one.  (Shown at
\* the end, from the theorems about finite sets.)
CountsOne ==
    /\ Cardinality({}) = 0
    /\ \A S \in SUBSET Txn : \A t \in Txn :
          /\ t \notin S => Cardinality(S \cup {t}) = Cardinality(S) + 1
          /\ t \in S => Cardinality(S \ {t}) = Cardinality(S) - 1

\* A slot is held if its window is.
LEMMA WindowHeld ==
  ASSUME NEW s \in Nat, s >= First, s <= MaxSeq, NEW f \in Nat, NEW b \in Nat
  PROVE  /\ WindowOf(s) \in WindowIndex /\ WindowOf(s) <= MaxSeq - First
         /\ Start(f) <= s <=> f <= WindowOf(s)
         /\ s < Start(b) <=> WindowOf(s) < b
<1> DEFINE w == WindowOf(s)
<1>1. w \in Nat /\ Start(w) <= s /\ s < Start(w + 1)
  BY Zenon, WindowOfType
<1>2. w <= s - First
  <2>1. w * WindowSize = w + w * (WindowSize - 1) /\ w * (WindowSize - 1) \in Nat
    BY <1>1
  <2> QED BY <1>1, <2>1 DEF Start
<1>3. ASSUME NEW i \in Nat PROVE Start(i) <= s <=> i <= w
  <2>0. i \in Nat /\ w + 1 \in Nat /\ Start(i) \in Nat /\ Start(w) \in Nat /\ Start(w + 1) \in Nat
    BY <1>1, <1>3, StartType
  <2>1. i <= w => Start(i) <= Start(w)
    BY <1>1, <1>3, StartMonotone
  <2>2. w + 1 <= i => Start(w + 1) <= Start(i)
    BY <1>1, <1>3, <2>0, StartMonotone
  <2> QED BY <1>1, <2>0, <2>1, <2>2
<1>4. Start(b) \in Nat
  BY Zenon, StartType
<1>5. s < Start(b) <=> ~(Start(b) <= s)
  BY <1>4
<1> HIDE DEF w
<1> QED BY <1>1, <1>2, <1>3, <1>5 DEF WindowIndex, w

\* Windows are counted from zero, and nobody reads before the log in a window.
LEMMA InitInv6 == CountsOne /\ Init => Inv6
<1> SUFFICES ASSUME CountsOne, Init PROVE Inv6
    BY Zenon
<1>1. \A i : CountedIn(i) = {}
  BY Zenon DEF Init, CountedIn, Counted
<1>2. Start(1) = First + WindowSize
  BY DEF Start
<1>3. \A i \in WindowIndex : readers[i] = 0
  BY Zenon DEF Init
<1>4. Cardinality({}) = 0
  BY Zenon DEF CountsOne
<1>5. front = 0 /\ back = 1 /\ watermark = First - 1
  BY Zenon DEF Init
<1>6. \A i \in WindowIndex : readers[i] = IF i < front THEN 0 ELSE Cardinality(CountedIn(i))
  BY Zenon, <1>1, <1>3, <1>4
<1> QED BY <1>2, <1>5, <1>6 DEF Inv6

\* A step of one thread leaves the slots of the others, and their being counted, alone.
LEMMA OthersCounted ==
  ASSUME Inv1, NEW t \in Txn, Client(t) \/ Step(t) \/ Failure(t), NEW u \in Txn, u # t
  PROVE  /\ seq[u] # 0 => status'[seq[u]] = status[seq[u]]
         /\ Counted(u)' <=> Counted(u)
         /\ open'[u] = open[u]
<1>1. LocalsKept(u)
  BY Zenon, OthersKept
<1>2. seq[u] # 0 => status'[seq[u]] = status[seq[u]]
  BY Zenon, OthersSlots
<1>3. pc[u] \in {"advancing", "advanced"} => seq[u] # 0
  BY Zenon DEF Inv1, SeqOwned, Committing
<1> QED BY Zenon, <1>1, <1>2, <1>3 DEF LocalsKept, Counted

\* The steps that count no reader and discount none
LEMMA OwnCounted ==
  ASSUME Inv1, NEW t \in Txn, Client(t) \/ Step(t) \/ Failure(t),
         ~RecordReader(t), ~Close(t), ~Unregister(t)
  PROVE  /\ Counted(t)' <=> Counted(t)
         /\ Counted(t) => open'[t] = open[t]
<1> USE DEF Goto, openVars, commitVars
<1>0. pc \in [Txn -> PCs] /\ seq \in [Txn -> Slot \cup {0}]
      /\ status \in [Slot -> {"Empty", "Pending", "Validated", "Applied", "Aborted"}]
  BY Zenon DEF Inv1, TypeOK
<1>1. CASE BeginOpen(t) \/ BeginOpenAt(t) \/ OpenSnapshot(t) \/ CloseRead(t) \/ FreeAfterClose(t)
  BY <1>0, <1>1 DEF BeginOpen, BeginOpenAt, OpenSnapshot, CloseRead, FreeAfterClose, Counted
<1>2. CASE WriteKeyspaces(t) \/ FreeAfterUnregister(t) \/ PersistStatus(t)
  <2>1. /\ pc[t] \in {"writing", "freeing", "persisting"} /\ UNCHANGED <<open, seq, status>>
        /\ pc'[t] \in {"applying", "writing", "persisting", "returned"}
    BY <1>0, <1>2 DEF WriteKeyspaces, FreeAfterUnregister, PersistStatus, AfterUnregister
  <2> QED BY Zenon, <2>1 DEF Counted
<1>3. CASE SetApplied(t)
  <2>1. seq[t] \in Slot
    BY Zenon, <1>0, <1>3 DEF SetApplied, Inv1, SeqOwned, Committing
  <2>2. /\ pc[t] = "applying" /\ UNCHANGED <<open, seq>> /\ pc'[t] = "advancing"
        /\ status'[seq[t]] = "Applied"
    BY <1>0, <1>3, <2>1 DEF SetApplied
  <2> QED BY Zenon, <2>2 DEF Counted
<1>4. CASE \/ DropUnclosed(t) \/ BeginCommit(t) \/ SequencedWrite(t) \/ InsertPending(t)
           \/ CollectWindows(t) \/ ReadStatuses(t) \/ ValidateOnDisk(t) \/ ValidateInWindows(t)
           \/ SetValidated(t) \/ RaiseHighest(t)
  <2> DEFINE before == {"open", "sequencing", "sequenced", "collecting", "readingStatuses",
                        "onDisk", "validating", "validated"}
             after == {"dropped", "sequencing", "sequenced", "collecting", "readingStatuses",
                       "onDisk", "panicked", "conflicting", "validating", "validated", "unregistering"}
  <2>1. CASE DropUnclosed(t) \/ BeginCommit(t) \/ SequencedWrite(t) \/ InsertPending(t)
             \/ SetValidated(t) \/ RaiseHighest(t)
    <3>1. pc[t] \in before /\ pc'[t] \in after /\ open' = open
      BY ZenonT(40), <1>0, <2>1 DEF DropUnclosed, BeginCommit, SequencedWrite, InsertPending, SetValidated, RaiseHighest
    <3> QED BY Zenon, <3>1 DEF Counted
  <2>2. CASE CollectWindows(t) \/ ReadStatuses(t) \/ ValidateOnDisk(t) \/ ValidateInWindows(t)
    <3>1. pc[t] \in before /\ pc'[t] \in after /\ open' = open
      BY <1>0, <2>2 DEF CollectWindows, ReadStatuses, ValidateOnDisk, ValidateInWindows
    <3> QED BY Zenon, <3>1 DEF Counted
  <2> QED BY Zenon, <1>4, <2>1, <2>2
<1>5. CASE SetAborted(t)
  <2>1. seq[t] \in Slot
    BY Zenon, <1>0, <1>5 DEF SetAborted, Inv1, SeqOwned, Committing, Deciding
  <2>2. /\ pc[t] = "conflicting" /\ UNCHANGED <<open, seq>> /\ pc'[t] = "advancing"
        /\ status'[seq[t]] = "Aborted"
    BY <1>0, <1>5, <2>1 DEF SetAborted
  <2> QED BY Zenon, <2>2 DEF Counted
<1>6. CASE IncrementWatermark(t)
  BY Zenon, <1>6 DEF IncrementWatermark, Counted
<1>7. CASE EndIncrement(t) \/ FreeAfterAdvance(t)
  <2>1. /\ pc[t] \in {"advancing", "advanced"} /\ UNCHANGED <<open, seq, status>>
        /\ pc'[t] \in {"advanced", IF status[seq[t]] = "Aborted" THEN "unregistering" ELSE "persisting"}
    BY <1>0, <1>7 DEF EndIncrement, FreeAfterAdvance, AfterAdvance
  <2> QED BY Zenon, <2>1 DEF Counted
<1>8. CASE Failure(t)
  <2>1. /\ pc[t] \in {"sequencing", "readingStatuses", "onDisk", "persisting", "writing"}
        /\ pc'[t] = "failed" /\ UNCHANGED <<open, seq, status>>
    BY <1>0, <1>8 DEF Failure, FailSequencedWrite, FailLog, FailKeyspaces
  <2>2. /\ pc[t] = "sequencing" => seq[t] = 0
        /\ pc[t] \in {"readingStatuses", "onDisk"} => status[seq[t]] = "Pending"
        /\ pc[t] \in {"persisting", "writing"} => seq[t] # 0 /\ status[seq[t]] # "Pending"
    BY Zenon DEF Inv1, SeqOwned, SlotFollows, Unsequenced, Committing, Deciding
  <2> QED BY Zenon, <2>1, <2>2 DEF Counted
<1> QED BY ZenonT(40), <1>1, <1>2, <1>3, <1>4, <1>5, <1>6, <1>7, <1>8 DEF Client, Step

\* The windows grow with the commits, and the watermark stays in them.
LEMMA WindowsGrow ==
  ASSUME Inv1, Inv6, NEW t \in Txn, Client(t) \/ Step(t) \/ Failure(t)
  PROVE  back' \in Nat /\ back' <= MaxSeq - First + 1 /\ watermark' < Start(back')
<1>1. back \in Nat /\ watermark \in Nat /\ Start(back) \in Nat
  BY StartType, SeqType DEF Inv1, TypeOK
<1>2. CASE InsertPending(t)
  <2>1. seq[t] \in Slot
    BY Zenon, <1>2 DEF InsertPending, Inv1, TypeOK, SeqOwned, Committing
  <2>2. seq[t] \in Nat /\ seq[t] >= First /\ seq[t] <= MaxSeq
    BY Zenon, <2>1, SeqType DEF Inv1
  <2>3. watermark' = watermark /\ (back' = back \/ (back' = WindowOf(seq[t]) + 1 /\ Start(back) <= seq[t]))
    BY <1>1, <1>2, <2>2 DEF InsertPending, markVars
  <2>4. WindowOf(seq[t]) \in Nat /\ WindowOf(seq[t]) <= MaxSeq - First
        /\ (Start(back) <= seq[t] <=> back <= WindowOf(seq[t]))
    BY ZenonT(40), <1>1, <2>2, WindowHeld, WindowOfType
  <2>5. CASE back' = WindowOf(seq[t]) + 1 /\ Start(back) <= seq[t]
    <3>1. back' \in Nat /\ back <= back'
      BY <1>1, <2>4, <2>5
    <3>2. Start(back') \in Nat /\ Start(back) <= Start(back')
      BY <1>1, <3>1, StartType, StartMonotone
    <3>3. watermark' < Start(back)
      BY Zenon, <2>3 DEF Inv6
    <3>4. \A x, y, z \in Nat : x < y /\ y <= z => x < z
      OBVIOUS
    <3>5. watermark' < Start(back')
      BY Zenon, <1>1, <2>3, <3>2, <3>3, <3>4
    <3>6. back' <= MaxSeq - First + 1
      BY <2>4, <2>5
    <3> QED BY Zenon, <3>1, <3>5, <3>6
  <2> QED BY Zenon, <1>1, <2>3, <2>5 DEF Inv6
<1>3. CASE IncrementWatermark(t)
  BY Zenon, <1>1, <1>3 DEF IncrementWatermark, CanAdvanceTo, Held, windowVars, Inv6
<1>4. CASE ~InsertPending(t) /\ ~IncrementWatermark(t)
  <2>1. back' = back /\ watermark' = watermark
    BY ZenonT(40), <1>4 DEF Client, Failure, Step, BeginOpen, BeginOpenAt, CloseRead, DropUnclosed, Close,
         BeginCommit, FailSequencedWrite, FailLog, FailKeyspaces, OpenSnapshot, RecordReader,
         FreeAfterClose, SequencedWrite, CollectWindows, ReadStatuses,
         ValidateOnDisk, ValidateInWindows, SetValidated, RaiseHighest, SetAborted, Unregister,
         FreeAfterUnregister, WriteKeyspaces, SetApplied, EndIncrement,
         FreeAfterAdvance, PersistStatus, windowVars, markVars
  <2> QED BY Zenon, <1>1, <2>1 DEF Inv6
<1> QED BY Zenon, <1>2, <1>3, <1>4

\* may_free_windows frees windows without readers only.
LEMMA FreedUnread ==
  ASSUME Inv1, Inv6, FreeWindows, NEW i \in WindowIndex, i < front'
  PROVE  readers[i] = 0
<1>1. PICK w \in (First - 1)..watermark, f \in front..back :
          (\A j \in front..(f - 1) : Freeable(j, w)) /\ front' = f
  BY Zenon DEF FreeWindows
<1>2. front \in Nat /\ back \in Nat
  BY Zenon DEF Inv1, TypeOK
<1>3. CASE i < front
  BY Zenon, <1>3 DEF Inv6
<1>4. CASE i >= front
  <2>1. i \in front..(f - 1)
    BY <1>1, <1>2, <1>4 DEF WindowIndex
  <2> QED BY Zenon, <1>1, <2>1 DEF Freeable
<1>5. i < front \/ i >= front
  BY <1>2 DEF WindowIndex
<1> QED BY Zenon, <1>3, <1>4, <1>5

\* Where a snapshot is counted: in the window it is open in, if that is held.
LEMMA OpenWindow ==
  ASSUME Inv1, Inv4, Inv6, NEW t \in Txn, pc[t] \notin {"idle", "opening", "openingAt"}
  PROVE  /\ Held(open[t]) => /\ open[t] >= First /\ WindowOf(open[t]) \in WindowIndex
                             /\ ~(WindowOf(open[t]) < front)
         /\ ~Held(open[t]) /\ open[t] >= First => WindowOf(open[t]) < front
<1>1. /\ open[t] \in Nat /\ front \in Nat /\ back \in Nat /\ watermark \in Nat
      /\ watermark <= MaxSeq /\ open[t] <= watermark /\ watermark < Start(back)
  BY SeqType DEF Inv1, TypeOK, Inv4, Opens, Inv6
<1>2. Start(front) \in Nat /\ Start(front) >= First /\ Start(back) \in Nat
  BY Zenon, <1>1, StartType
<1>3. Held(open[t]) => open[t] >= First
  BY <1>1, <1>2 DEF Held
<1>4. open[t] >= First =>
        /\ WindowOf(open[t]) \in WindowIndex /\ WindowOf(open[t]) \in Nat
        /\ Start(front) <= open[t] <=> front <= WindowOf(open[t])
  BY <1>1, WindowHeld, WindowOfType
<1>5. Held(open[t]) <=> Start(front) <= open[t]
  BY <1>1, <1>2 DEF Held
<1>6. \A x, y \in Nat : x <= y <=> ~(y < x)
  OBVIOUS
<1> QED BY Zenon, <1>1, <1>3, <1>4, <1>5, <1>6

\* opened_for_read counts the snapshot in the window it is open in.
LEMMA RecordReaderInv6 ==
  ASSUME CountsOne, Inv1, Inv4, Inv6, NEW t \in Txn, RecordReader(t)
  PROVE  Inv6'
<1>1. pc[t] = "registering" /\ pc'[t] = "open" /\ UNCHANGED <<front, back, watermark, open>>
  BY Zenon DEF RecordReader, Goto, openVars, markVars, Inv1, TypeOK
<1>2. ~Counted(t) /\ Counted(t)'
  BY Zenon, <1>1 DEF Counted
<1>3. \A u \in Txn : u # t => (Counted(u)' <=> Counted(u))
  BY Zenon, OthersCounted DEF Step
<1>4. ASSUME NEW i
      PROVE  /\ CountedIn(i) \in SUBSET Txn /\ t \notin CountedIn(i)
             /\ open[t] >= First /\ WindowOf(open[t]) = i => CountedIn(i)' = CountedIn(i) \cup {t}
             /\ ~(open[t] >= First /\ WindowOf(open[t]) = i) => CountedIn(i)' = CountedIn(i)
  BY Zenon, <1>1, <1>2, <1>3 DEF CountedIn
<1>5. readers \in [WindowIndex -> Int] /\ front \in Nat
  BY Zenon DEF Inv1, TypeOK
<1>6. ASSUME NEW i \in WindowIndex
      PROVE  readers'[i] = IF i < front THEN 0 ELSE Cardinality(CountedIn(i))'
  <2>1. readers[i] = IF i < front THEN 0 ELSE Cardinality(CountedIn(i))
    BY Zenon DEF Inv6
  <2>2. CASE Held(open[t]) /\ WindowOf(open[t]) = i
    <3>1. readers'[i] = readers[i] + 1 /\ ~(i < front) /\ open[t] >= First
      BY ZenonT(40), <1>1, <1>5, <2>2, OpenWindow DEF RecordReader
    <3>2. Cardinality(CountedIn(i) \cup {t}) = Cardinality(CountedIn(i)) + 1
      BY Zenon, <1>4 DEF CountsOne
    <3> QED BY Zenon, <1>4, <2>1, <2>2, <3>1, <3>2
  <2>3. CASE ~(Held(open[t]) /\ WindowOf(open[t]) = i)
    <3>1. readers'[i] = readers[i]
      BY Zenon, <1>5, <2>3 DEF RecordReader
    <3>2. i < front \/ ~(open[t] >= First /\ WindowOf(open[t]) = i)
      BY Zenon, <1>1, <2>3, OpenWindow
    <3> QED BY Zenon, <1>4, <2>1, <3>1, <3>2
  <2> QED BY Zenon, <2>2, <2>3
<1> QED BY Zenon, <1>1, <1>6 DEF Inv6, Start

\* closed_for_read discounts it there, once.
LEMMA RemoveReaderInv6 ==
  ASSUME CountsOne, Inv1, Inv4, Inv6, NEW t \in Txn, Close(t) \/ Unregister(t)
  PROVE  Inv6'
<1>0. pc \in [Txn -> PCs]
  BY Zenon DEF Inv1, TypeOK
<1>1. /\ pc[t] \in {"open", "unregistering"} /\ UNCHANGED <<front, back, watermark, open, status, seq>>
      /\ pc'[t] \in {"closing", "closed", "freeing", "persisting", "writing"}
  BY Zenon, <1>0 DEF Close, Unregister, RemoveReader, AfterUnregister, Goto, openVars, markVars, commitVars
<1>2. Counted(t) /\ ~Counted(t)'
  BY Zenon, <1>1 DEF Counted
<1>3. \A u \in Txn : u # t => (Counted(u)' <=> Counted(u))
  BY Zenon, OthersCounted DEF Step, Client
<1>4. ASSUME NEW i
      PROVE  /\ CountedIn(i) \in SUBSET Txn
             /\ open[t] >= First /\ WindowOf(open[t]) = i =>
                   t \in CountedIn(i) /\ CountedIn(i)' = CountedIn(i) \ {t}
             /\ ~(open[t] >= First /\ WindowOf(open[t]) = i) => CountedIn(i)' = CountedIn(i)
  BY Zenon, <1>1, <1>2, <1>3 DEF CountedIn
<1>5. readers \in [WindowIndex -> Int] /\ front \in Nat
  BY Zenon DEF Inv1, TypeOK
<1>6. readers' = IF Held(open[t]) THEN [readers EXCEPT ![WindowOf(open[t])] = @ - 1] ELSE readers
  BY Zenon DEF Close, Unregister, RemoveReader
<1>7. ASSUME NEW i \in WindowIndex
      PROVE  readers'[i] = IF i < front THEN 0 ELSE Cardinality(CountedIn(i))'
  <2>1. readers[i] = IF i < front THEN 0 ELSE Cardinality(CountedIn(i))
    BY Zenon DEF Inv6
  <2>2. CASE Held(open[t]) /\ WindowOf(open[t]) = i
    <3>1. readers'[i] = readers[i] - 1 /\ ~(i < front) /\ open[t] >= First
      BY ZenonT(40), <1>1, <1>5, <1>6, <2>2, OpenWindow
    <3>2. Cardinality(CountedIn(i) \ {t}) = Cardinality(CountedIn(i)) - 1
      BY Zenon, <1>4, <2>2, <3>1 DEF CountsOne
    <3> QED BY Zenon, <1>4, <2>1, <2>2, <3>1, <3>2
  <2>3. CASE ~(Held(open[t]) /\ WindowOf(open[t]) = i)
    <3>1. readers'[i] = readers[i]
      BY Zenon, <1>5, <1>6, <2>3
    <3>2. i < front \/ ~(open[t] >= First /\ WindowOf(open[t]) = i)
      BY Zenon, <1>1, <2>3, OpenWindow
    <3> QED BY Zenon, <1>4, <2>1, <3>1, <3>2
  <2> QED BY Zenon, <2>2, <2>3
<1> QED BY Zenon, <1>1, <1>7 DEF Inv6, Start

\* Every step preserves the sixth layer.
LEMMA NextInv6 == CountsOne /\ Inv1 /\ Inv4 /\ Inv6 /\ [Next]_vars => Inv6'
<1> SUFFICES ASSUME CountsOne, Inv1, Inv4, Inv6, [Next]_vars PROVE Inv6'
    BY Zenon
<1>1. CASE UNCHANGED vars
  BY ZenonT(40), <1>1 DEF vars, Inv6, CountedIn, Counted, Start
<1>2. ASSUME NEW t \in Txn, Client(t) \/ Step(t) \/ Failure(t) PROVE Inv6'
  <2>1. CASE RecordReader(t) \/ Close(t) \/ Unregister(t)
    BY Zenon, <2>1, RecordReaderInv6, RemoveReaderInv6
  <2>2. CASE ~RecordReader(t) /\ ~Close(t) /\ ~Unregister(t)
    <3>1. \A u \in Txn : (Counted(u)' <=> Counted(u)) /\ (Counted(u) => open'[u] = open[u])
      BY Zenon, <1>2, <2>2, OwnCounted, OthersCounted
    <3>2. \A i : CountedIn(i)' = CountedIn(i)
      BY Zenon, <3>1 DEF CountedIn
    <3>3. readers' = readers /\ (front' = front \/ FreeWindows)
      BY ZenonT(40), <1>2, <2>2 DEF Client, Failure, Step, BeginOpen, BeginOpenAt, CloseRead, DropUnclosed,
         BeginCommit, FailSequencedWrite, FailLog, FailKeyspaces, OpenSnapshot,
         FreeAfterClose, SequencedWrite, InsertPending, CollectWindows, ReadStatuses,
         ValidateOnDisk, ValidateInWindows, SetValidated, RaiseHighest, SetAborted,
         FreeAfterUnregister, WriteKeyspaces, SetApplied, IncrementWatermark, EndIncrement,
         FreeAfterAdvance, PersistStatus, windowVars
    <3>4. front \in Nat /\ front' \in Nat /\ front <= front'
      <4>1. front' = front \/ front' \in front..back
        BY Zenon, <3>3 DEF FreeWindows
      <4> QED BY <4>1 DEF Inv1, TypeOK
    <3>5. ASSUME NEW i \in WindowIndex
          PROVE  readers'[i] = IF i < front' THEN 0 ELSE Cardinality(CountedIn(i))'
      <4>1. readers[i] = IF i < front THEN 0 ELSE Cardinality(CountedIn(i))
        BY Zenon DEF Inv6
      <4>2. i < front => i < front'
        BY <3>4 DEF WindowIndex
      <4>3. i < front' => readers[i] = 0
        BY Zenon, <3>3, <4>1, FreedUnread
      <4> QED BY Zenon, <3>2, <3>3, <4>1, <4>2, <4>3
    <3> QED BY Zenon, <1>2, <3>5, WindowsGrow DEF Inv6, Start
  <2> QED BY Zenon, <2>1, <2>2
<1> QED BY Zenon, <1>1, <1>2 DEF Next, Finished

\* An exact count of every window shows what is said of the counts.
LEMMA CountsShown ==
  ASSUME Inv1, Inv2, Inv6
  PROVE  ReadersExact
<1>1. front \in Nat /\ back \in Nat /\ back <= MaxSeq - First + 1
  BY Zenon DEF Inv1, TypeOK, Inv6
<1>2. \A i \in front..(back - 1) : i \in WindowIndex /\ ~(i < front)
  BY <1>1 DEF WindowIndex
<1>3. \A i \in front..(back - 1) : readers[i] = Cardinality(CountedIn(i))
  BY Zenon, <1>2 DEF Inv6
<1>4. front <= back
  BY <1>1 DEF Inv2, RunningCommitsHeld
<1>5. \A i \in 0..(front - 1) : i \in WindowIndex /\ i < front
  BY <1>1, <1>4 DEF WindowIndex
<1> QED BY Zenon, <1>3, <1>5 DEF ReadersExact, Inv6

INSTANCE FiniteSetTheorems

\* The snapshots are finitely many, so the sets of them are counted.
LEMMA CountOne == CountsOne
<1>1. \A S \in SUBSET Txn : IsFiniteSet(S)
  BY FiniteSnapshots, FS_Subset
<1>2. ASSUME NEW S \in SUBSET Txn, NEW t \in Txn, t \notin S
      PROVE  Cardinality(S \cup {t}) = Cardinality(S) + 1
  BY <1>1, <1>2, FS_AddElement
<1>3. ASSUME NEW S \in SUBSET Txn, NEW t \in Txn, t \in S
      PROVE  Cardinality(S \ {t}) = Cardinality(S) - 1
  BY <1>1, <1>3, FS_RemoveElement
<1>4. Cardinality({}) = 0
  BY Zenon, FS_EmptySet
<1> QED BY Zenon, <1>2, <1>3, <1>4 DEF CountsOne

\* Reader counts are exact: opened_for_read and closed_for_read balance on every
\* path of a snapshot, and may_free_windows frees no window under a reader.
THEOREM ReadersCounted == Spec => []ReadersExact
<1>1. CountsOne
  BY Zenon, CountOne
<1>2. Init => Inv1 /\ Inv2 /\ Inv4 /\ Inv6
  BY Zenon, <1>1, InitInv1, InitInv2, InitInv4, InitInv6
<1>3. Inv1 /\ Inv2 /\ Inv4 /\ Inv6 /\ [Next]_vars => Inv1' /\ Inv2' /\ Inv4' /\ Inv6'
  BY ZenonT(40), <1>1, NextInv1, NextInv2, NextInv4, NextInv6
<1>4. Inv1 /\ Inv2 /\ Inv6 => ReadersExact
  BY Zenon, CountsShown
<1> QED BY <1>2, <1>3, <1>4, PTL DEF Spec
=============================================================================
