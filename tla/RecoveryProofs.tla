--------------------------- MODULE RecoveryProofs ---------------------------
(***************************************************************************)
(* Proofs about Recovery, for any number of crashes at any point.          *)
(*                                                                         *)
(* A commit is decided by the log alone: the commits up to a number that   *)
(* are valid form one set V, and whatever is known of a decision, in the   *)
(* slots, in status records, in the keyspaces, in a checkpoint or at a     *)
(* client, agrees with V.  The prefix that a crash leaves has its part of  *)
(* V, hence replay decides as the commits did.                             *)
(***************************************************************************)
EXTENDS Recovery, TLAPS

USE RecoveryAssumption

-----------------------------------------------------------------------------
(* The log.                                                                  *)

Index == 1..Len(wal)

\* The log has the commits up to the next number, in order, and a status record
\* only after its commit.
LogInv ==
    /\ \A s \in Slot : s < nextSeq <=> log[s] # NoRecord
    /\ \A s \in Slot : s < nextSeq <=> \E n \in Index : wal[n] = <<"commit", s>>
    /\ \A m, n \in Index : \A r, s \in Slot :
          wal[m] = <<"commit", r>> /\ wal[n] = <<"commit", s>> /\ r < s => m < n
    /\ \A n \in Index : \A s \in Slot :
          wal[n] = <<"status", s>> => \E m \in 1..n : wal[m] = <<"commit", s>>
    /\ \A s \in Slot : s < nextSeq => log[s].flags \subseteq Puts(log[s].ops)

-----------------------------------------------------------------------------
(* The decisions.                                                            *)

\* V are the valid commits of the log: no concurrent valid one conflicts.
Verdict(V) ==
    /\ \A s \in V : s \in Slot /\ s < nextSeq
    /\ \A s \in Slot : s < nextSeq =>
          (s \in V <=> \A i \in Concurrent(s) : i \in V => ~Clashes(s, i))

\* What status records, clients and slots know of a decision is so.
Agrees(V) ==
    \A s \in Slot :
        /\ statuses[s] # "None" => s < nextSeq
        /\ statuses[s] = "Committed" => s \in V
        /\ statuses[s] = "Rejected" => s \notin V
        /\ promised[s] # "None" => Synced(s)
        /\ promised[s] = "Committed" => s \in V
        /\ promised[s] = "Rejected" => s \notin V
        /\ s < nextSeq /\ status[s] \in {"Validated", "Applied"} => s \in V
        /\ s < nextSeq /\ status[s] = "Aborted" => s \notin V

\* The versions in data belong to valid commits that a crash does not lose, or that
\* are covered by a checkpoint at m, which cannot be used once they are lost.
Founded(V, data, m) ==
    \A k \in Key : \A v \in data[k] : v.seq \in Slot =>
        \/ v.seq \in V /\ Synced(v.seq)
        \/ v.seq <= m /\ (v.seq < nextSeq => v.seq \in V)

\* The writes to k of the valid commits up to m are in data.
CoversKey(V, data, m, k) ==
    \A s \in V : s <= m /\ log[s].ops.writes[k].op \in {"Insert", "Delete"} =>
        \E v \in data[k] : v.seq = s /\ v.op = log[s].ops.writes[k].op

Settled(s) == status[s] \in {"Applied", "Aborted"}

-----------------------------------------------------------------------------
(* A server that is up, or loading.                                          *)

\* What the slots say while commits run.
SlotsInv ==
    /\ watermark < nextSeq
    /\ mode = "loading" => watermark = nextSeq - 1
    /\ \A s \in Slot :
          /\ status[s] # "Empty" <=> s < nextSeq
          /\ s <= watermark => Settled(s)
          /\ status[s] = "Applied" => Whole(kv, s)
          /\ promised[s] = "Committed" => status[s] = "Applied"

\* How far a commit is.
PhaseInv(t) ==
    /\ mode # "up" => seq[t] = 0 /\ phase[t] \in {"idle", "returned", "gone"}
    /\ phase[t] \in {"idle", "open", "gone"} => seq[t] = 0
    /\ phase[t] \in {"sequenced", "validated", "written", "applied", "aborted"} => seq[t] # 0
    /\ seq[t] # 0 =>
          /\ seq[t] \in Slot /\ seq[t] < nextSeq
          /\ phase[t] = "sequenced" => status[seq[t]] = "Pending"
          /\ phase[t] = "validated" => /\ status[seq[t]] = "Validated"
                                       /\ reinsert[t] \subseteq Puts(log[seq[t]].ops)
          /\ phase[t] = "written" => /\ status[seq[t]] = "Validated"
                                     /\ Synced(seq[t]) /\ Whole(kv, seq[t])
          /\ phase[t] = "applied" => status[seq[t]] = "Applied"
          /\ phase[t] = "aborted" => status[seq[t]] = "Aborted"
          /\ phase[t] = "returned" => Settled(seq[t])
          /\ \A u \in Txn : seq[u] = seq[t] => u = t

\* Every slot above the watermark has its commit.
Owned == mode = "up" => \A s \in Slot : watermark < s /\ s < nextSeq => \E t \in Txn : seq[t] = s

-----------------------------------------------------------------------------
(* Checkpoints and replay.                                                   *)

Complete(c) == c.mark # NoMark

CheckpointsInv(V) ==
    /\ \A i \in DOMAIN checkpoints :
          /\ Complete(checkpoints[i]) =>
                /\ \A k \in Key : CoversKey(V, checkpoints[i].data, checkpoints[i].mark, k)
                /\ checkpoints[i].mark <= Latest.mark \/ ~Complete(Latest)
          /\ mode \in {"up", "loading", "replaying"} => checkpoints[i].mark <= watermark
    /\ \A s \in Slot : s <= Latest.mark /\ s < nextSeq => Settled(s)
    /\ Complete(Latest) => Founded(V, Latest.data, Latest.mark)

\* The checkpoint under way.
UnderWay(V) ==
    mark # NoMark =>
          /\ Serving
          /\ checkpoints # <<>> /\ Latest.mark \in {NoMark, mark}
          /\ mark <= watermark
          /\ \A i \in DOMAIN checkpoints : checkpoints[i].mark <= mark
          /\ Founded(V, Latest.data, mark)
          /\ \A k \in Latest.copied : CoversKey(V, Latest.data, mark, k)

ReplayInv ==
    mode = "replaying" =>
        /\ kv = Latest.data /\ prev = Latest.mark /\ Complete(Latest)
        /\ at \in (prev + 1)..nextSeq /\ watermark < at
        /\ \A s \in Slot :
              /\ prev < s /\ s < at => status[s] \in {"Validated", "Aborted"}
              /\ at <= s => status[s] = "Empty"
              /\ status[s] = "Validated" => replayed[s] \subseteq Puts(log[s].ops)

\* The versions in the keyspaces.
KeyspacesInv(V) ==
    Serving => Founded(V, kv, IF mark = NoMark THEN watermark ELSE mark)

Inv(V) ==
    /\ TypeOK /\ LogInv /\ Verdict(V) /\ Agrees(V)
    /\ Serving => SlotsInv
    /\ \A t \in Txn : PhaseInv(t)
    /\ Owned
    /\ CheckpointsInv(V) /\ UnderWay(V)
    /\ ReplayInv /\ KeyspacesInv(V)

IInv == \E V \in SUBSET Slot : Inv(V)

-----------------------------------------------------------------------------
(* What a step leaves alone.                                                 *)

\* Records that are on disk stay there, whatever a crash leaves of the others.
Safe == \A s \in Slot : Synced(s) => Synced(s)'

LEMMA SafeSame ==
  ASSUME TypeOK, UNCHANGED wal, synced' \in synced..Len(wal)
  PROVE  Safe
<1>1. synced \in Nat /\ synced' \in Nat /\ synced <= synced'
  BY DEF TypeOK
<1> QED BY <1>1 DEF Safe, Synced

LEMMA SafeAppend ==
  ASSUME TypeOK, NEW r \in {"commit", "status"} \X Slot, wal' = Append(wal, r), UNCHANGED synced
  PROVE  Safe
<1>1. wal \in Seq({"commit", "status"} \X Slot) /\ synced \in 0..Len(wal)
  BY Zenon DEF TypeOK
<1>2. \A n \in 1..synced : wal'[n] = wal[n]
  BY <1>1
<1> QED BY Zenon, <1>2 DEF Safe, Synced

LEMMA SafeCrash ==
  ASSUME TypeOK, NEW n \in synced..Len(wal), wal' = SubSeq(wal, 1, n), UNCHANGED synced
  PROVE  Safe
<1>1. wal \in Seq({"commit", "status"} \X Slot) /\ synced \in 0..Len(wal)
  BY Zenon DEF TypeOK
<1>2. \A m \in 1..synced : wal'[m] = wal[m]
  BY <1>1
<1> QED BY Zenon, <1>2 DEF Safe, Synced

\* The numbers are integers.
LEMMA Numbers ==
  ASSUME TypeOK
  PROVE  /\ nextSeq \in Int /\ First <= nextSeq /\ nextSeq <= MaxSeq + 1
         /\ watermark \in Int /\ First - 1 <= watermark /\ watermark <= MaxSeq
         /\ \A s \in Slot : s \in Int /\ First <= s /\ s <= MaxSeq
         /\ mark \in Int /\ prev \in Int /\ at \in Int
<1>1. /\ nextSeq \in First..(MaxSeq + 1) /\ watermark \in Marks
      /\ prev \in Marks /\ mark \in {NoMark} \cup Marks /\ at \in First..(MaxSeq + 1)
  BY Zenon DEF TypeOK
<1> QED BY <1>1 DEF Slot, Marks, NoMark

\* The newest directory is one.
LEMMA LatestType ==
  ASSUME TypeOK
  PROVE  /\ Latest \in Directory
         /\ checkpoints # <<>> => Len(checkpoints) \in DOMAIN checkpoints
                                  /\ Latest = checkpoints[Len(checkpoints)]
         /\ checkpoints = <<>> => Latest = NewCheckpoint(First - 1, Key)
<1>1. checkpoints \in Seq(Directory)
  BY Zenon DEF TypeOK
<1>2. NewCheckpoint(First - 1, Key) \in Directory
  BY DEF NewCheckpoint, Directory, Marks
<1>3. checkpoints # <<>> => Len(checkpoints) \in DOMAIN checkpoints
  BY <1>1
<1>4. checkpoints # <<>> => checkpoints[Len(checkpoints)] \in Directory
  BY <1>1, <1>3
<1> QED BY Zenon, <1>2, <1>3, <1>4 DEF Latest

LEMMA DirectoryType ==
  ASSUME TypeOK, NEW i \in DOMAIN checkpoints
  PROVE  /\ checkpoints[i] \in Directory
         /\ checkpoints[i].mark \in {NoMark} \cup Marks /\ checkpoints[i].mark \in Int
<1>1. checkpoints \in Seq(Directory)
  BY Zenon DEF TypeOK
<1>2. checkpoints[i] \in Directory
  BY <1>1
<1>3. checkpoints[i].mark \in {NoMark} \cup Marks
  BY Zenon, <1>2 DEF Directory
<1> QED BY <1>2, <1>3 DEF Marks, NoMark

LEMMA LogSame ==
  ASSUME LogInv, UNCHANGED <<wal, nextSeq, log>>
  PROVE  LogInv'
  BY ZenonT(40) DEF LogInv, Index

LEMMA VerdictSame ==
  ASSUME NEW V, Verdict(V), UNCHANGED <<nextSeq, log>>
  PROVE  Verdict(V)'
  BY Zenon DEF Verdict, Concurrent, Clashes

LEMMA AgreesSame ==
  ASSUME NEW V, Agrees(V), Safe, UNCHANGED <<nextSeq, statuses, promised, status>>
  PROVE  Agrees(V)'
  BY Zenon DEF Agrees, Safe

LEMMA FoundedKept ==
  ASSUME NEW V, NEW data, NEW m, Founded(V, data, m), Safe, UNCHANGED nextSeq
  PROVE  Founded(V, data, m)'
  BY Zenon DEF Founded, Safe

LEMMA FoundedHigher ==
  ASSUME NEW V, NEW data, NEW m \in Int, NEW n \in Int, Founded(V, data, m), m <= n
  PROVE  Founded(V, data, n)
  BY DEF Founded, Slot

LEMMA CoversSame ==
  ASSUME NEW V, NEW data, NEW m, NEW k, CoversKey(V, data, m, k), UNCHANGED log
  PROVE  CoversKey(V, data, m, k)'
  BY Zenon DEF CoversKey

\* A valid commit that is covered is there as a whole.
LEMMA CoveredWhole ==
  ASSUME NEW V, NEW data, NEW m, NEW s \in V, s <= m, \A k \in Key : CoversKey(V, data, m, k)
  PROVE  Whole(data, s)
  BY Zenon DEF CoversKey, Whole

Running == mode \in {"up", "loading", "replaying"}

LEMMA CheckpointsSame ==
  ASSUME NEW V, TypeOK, TypeOK', CheckpointsInv(V), Safe, UNCHANGED <<checkpoints, nextSeq, log>>,
         Running' => Running /\ watermark <= watermark',
         \A s \in Slot : s <= Latest.mark /\ s < nextSeq /\ Settled(s) => Settled(s)'
  PROVE  CheckpointsInv(V)'
<1>1. Latest' = Latest
  BY Zenon DEF Latest
<1>2. ASSUME NEW i \in DOMAIN checkpoints, Complete(checkpoints[i])
      PROVE  /\ \A k \in Key : CoversKey(V, checkpoints[i].data, checkpoints[i].mark, k)'
             /\ checkpoints[i].mark <= Latest.mark \/ ~Complete(Latest)
  <2>1. PICK d, m : d = checkpoints[i].data /\ m = checkpoints[i].mark
    BY Zenon
  <2>2. \A k \in Key : CoversKey(V, d, m, k)
    BY Zenon, <1>2, <2>1 DEF CheckpointsInv
  <2>3. \A k \in Key : CoversKey(V, d, m, k)'
    BY Zenon, <2>2, CoversSame
  <2> QED BY Zenon, <1>2, <2>1, <2>3 DEF CheckpointsInv, CoversKey
<1>3. ASSUME NEW i \in DOMAIN checkpoints, Running' PROVE checkpoints[i].mark <= watermark'
  <2>1. checkpoints[i].mark <= watermark /\ watermark <= watermark'
    BY Zenon, <1>3 DEF CheckpointsInv, Running
  <2>2. checkpoints[i].mark \in Int
    BY Zenon, DirectoryType
  <2>3. watermark \in Int /\ watermark' \in Int
    <3>1. watermark \in Marks /\ watermark' \in Marks
      BY Zenon DEF TypeOK
    <3> QED BY <3>1 DEF Marks
  <2> QED BY <2>1, <2>2, <2>3
<1>4. \A s \in Slot : s <= Latest.mark /\ s < nextSeq => Settled(s)'
  BY Zenon DEF CheckpointsInv
<1>5. Complete(Latest) => Founded(V, Latest.data, Latest.mark)'
  <2>1. PICK d, m : d = Latest.data /\ m = Latest.mark
    BY Zenon
  <2>2. Complete(Latest) => Founded(V, d, m)'
    BY Zenon, <2>1, FoundedKept DEF CheckpointsInv
  <2> QED BY Zenon, <1>1, <2>1, <2>2 DEF Founded
<1> QED BY Zenon, <1>1, <1>2, <1>3, <1>4, <1>5 DEF CheckpointsInv, Complete, Running

LEMMA UnderWaySame ==
  ASSUME NEW V, TypeOK, TypeOK', UnderWay(V), Safe, UNCHANGED <<checkpoints, mark, nextSeq, log>>,
         mark # NoMark => Serving' /\ watermark <= watermark'
  PROVE  UnderWay(V)'
<1> SUFFICES ASSUME mark # NoMark PROVE UnderWay(V)'
  BY Zenon DEF UnderWay
<1>1. Latest' = Latest
  BY Zenon DEF Latest
<1>2. PICK d, m : d = Latest.data /\ m = mark
  BY Zenon
<1>3. Founded(V, d, m)' /\ \A k \in Latest.copied : CoversKey(V, d, m, k)'
  BY Zenon, <1>2, FoundedKept, CoversSame DEF UnderWay
<1>4. mark <= watermark'
  <2>1. mark \in Int /\ watermark \in Int
    BY Zenon, Numbers
  <2>2. watermark' \in Marks /\ mark <= watermark /\ watermark <= watermark'
    BY Zenon DEF TypeOK, UnderWay
  <2> QED BY <2>1, <2>2 DEF Marks
<1>5. Latest'.data = d /\ Latest'.copied = Latest.copied /\ mark' = m
  BY Zenon, <1>1, <1>2
<1>6. Founded(V, Latest.data, mark)' /\ \A k \in Latest'.copied : CoversKey(V, Latest.data, mark, k)'
  <2>1. Founded(V, Latest.data, mark)'
    BY Zenon, <1>3, <1>5 DEF Founded
  <2>2. ASSUME NEW k \in Latest.copied PROVE CoversKey(V, Latest.data, mark, k)'
    BY ZenonT(40), <1>3, <1>5 DEF CoversKey
  <2> QED BY Zenon, <1>5, <2>1, <2>2
<1> QED BY Zenon, <1>1, <1>4, <1>6 DEF UnderWay

LEMMA KeyspacesSame ==
  ASSUME NEW V, TypeOK, TypeOK', KeyspacesInv(V), Safe, UNCHANGED <<kv, mark, nextSeq>>,
         Serving' => Serving /\ watermark <= watermark'
  PROVE  KeyspacesInv(V)'
<1> SUFFICES ASSUME Serving, watermark <= watermark' PROVE KeyspacesInv(V)'
  BY Zenon DEF KeyspacesInv
<1> DEFINE Bound == IF mark = NoMark THEN watermark ELSE mark
<1>1. PICK d, m, n : d = kv /\ m = Bound /\ n = Bound'
  BY Zenon
<1>2. m \in Int /\ n \in Int /\ m <= n
  <2>1. mark \in Int /\ watermark \in Int
    BY Zenon, Numbers
  <2>2. watermark' \in Marks
    BY Zenon DEF TypeOK
  <2> QED BY <1>1, <2>1, <2>2 DEF Marks
<1>3. Founded(V, d, n)'
  BY Zenon, <1>1, <1>2, FoundedKept, FoundedHigher DEF KeyspacesInv
<1> QED BY Zenon, <1>1, <1>3 DEF KeyspacesInv, Founded

\* The keyspaces lose nothing.
Grows == \A k \in Key : kv[k] \subseteq kv'[k]

LEMMA WholeKept ==
  ASSUME NEW s, Whole(kv, s), Grows, log'[s] = log[s]
  PROVE  Whole(kv, s)'
  BY Zenon DEF Whole, Grows

LEMMA PhaseKept ==
  ASSUME NEW u \in Txn, PhaseInv(u), Safe, Grows,
         UNCHANGED <<mode, phase[u], seq[u], reinsert[u]>>,
         seq[u] # 0 => /\ UNCHANGED <<status[seq[u]], log[seq[u]]>> /\ seq[u] < nextSeq'
                       /\ \A w \in Txn : seq'[w] = seq[u] => w = u
  PROVE  PhaseInv(u)'
<1>1. CASE seq[u] = 0
  BY Zenon, <1>1 DEF PhaseInv
<1>2. CASE seq[u] # 0
  <2>1. PICK s : s = seq[u] /\ s = seq'[u]
    BY Zenon
  <2>2. s \in Slot /\ status'[s] = status[s] /\ log'[s] = log[s] /\ s < nextSeq'
    BY Zenon, <1>2, <2>1 DEF PhaseInv
  <2>3. phase[u] = "written" => Synced(s)' /\ Whole(kv, s)'
    BY Zenon, <1>2, <2>1, <2>2, WholeKept DEF PhaseInv, Safe
  <2>4. phase[u] = "returned" => Settled(s)'
    BY Zenon, <1>2, <2>1, <2>2 DEF PhaseInv, Settled
  <2>5. phase'[u] = "written" => Synced(seq[u])' /\ Whole(kv, seq[u])'
    BY Zenon, <2>1, <2>3 DEF Synced, Whole
  <2>6. phase'[u] = "returned" => Settled(seq[u])'
    BY Zenon, <2>1, <2>4 DEF Settled
  <2>7. phase'[u] = "validated" => reinsert'[u] \subseteq Puts(log'[seq'[u]].ops)
    BY Zenon, <1>2, <2>1, <2>2 DEF PhaseInv
  <2> QED BY Zenon, <1>2, <2>1, <2>2, <2>5, <2>6, <2>7 DEF PhaseInv
<1> QED BY Zenon, <1>1, <1>2

-----------------------------------------------------------------------------
(* The steps of commits.                                                     *)

\* What a step of a running server, after which no number is new, leaves alone.
LEMMA UpFrame ==
  ASSUME NEW V, Inv(V), TypeOK', Safe, mode = "up", UNCHANGED <<nextSeq, log, mode, checkpoints, mark>>,
         watermark <= watermark', \A s \in Slot : Settled(s) => Settled(s)'
  PROVE  Verdict(V)' /\ CheckpointsInv(V)' /\ UnderWay(V)' /\ ReplayInv'
<1>1. Verdict(V)'
  BY Zenon, VerdictSame DEF Inv
<1>2. CheckpointsInv(V)'
  BY Zenon, CheckpointsSame DEF Inv, Running
<1>3. UnderWay(V)'
  BY Zenon, UnderWaySame DEF Inv, Serving
<1>4. ReplayInv'
  BY Zenon DEF ReplayInv
<1> QED BY Zenon, <1>1, <1>2, <1>3, <1>4

LEMMA SlotsSame ==
  ASSUME SlotsInv, UNCHANGED <<nextSeq, log, mode, status, kv, promised, watermark>>
  PROVE  SlotsInv'
<1>1. ASSUME NEW s \in Slot PROVE (Whole(kv, s) => Whole(kv, s)') /\ (Settled(s) => Settled(s)')
  BY Zenon DEF Whole, Settled
<1> QED BY Zenon, <1>1 DEF SlotsInv

\* open_snapshot: the snapshot reads at the watermark.
LEMMA OpenStep ==
  ASSUME NEW V, Inv(V), NEW t \in Txn, OpenAtWatermark(t)
  PROVE  Inv(V)'
<1> USE DEF logFileVars, checkpointVars, replayVars
<1>0. TypeOK /\ mode = "up" /\ phase[t] = "idle" /\ seq[t] = 0
      /\ UNCHANGED <<wal, synced, nextSeq, log, statuses, kv, status, watermark, seq, reinsert,
                     checkpoints, prev, mark, mode, at, replayed, bare, crashes, promised>>
      /\ phase' = [phase EXCEPT ![t] = "open"] /\ open' = [open EXCEPT ![t] = watermark]
  BY Zenon DEF Inv, OpenAtWatermark, Open, Enter, PhaseInv
<1>1. TypeOK'
  <2>1. open' \in [Txn -> Nat]
    <3>1. watermark \in Nat
      BY <1>0 DEF TypeOK, Marks
    <3> QED BY Zenon, <1>0, <3>1 DEF TypeOK
  <2>2. phase' \in [Txn -> {"idle", "open", "sequenced", "validated", "written", "applied",
                            "aborted", "returned", "gone"}]
    BY Zenon, <1>0 DEF TypeOK
  <2> QED BY Zenon, <1>0, <2>1, <2>2 DEF TypeOK
<1>2. Safe /\ Grows /\ watermark <= watermark' /\ \A s \in Slot : Settled(s) => Settled(s)'
  <2>1. synced' \in synced..Len(wal) /\ watermark <= watermark'
    BY <1>0, Numbers DEF TypeOK
  <2> QED BY Zenon, <1>0, <2>1, SafeSame DEF Grows, Settled
<1>3. \A u \in Txn : PhaseInv(u)'
  <2>1. PhaseInv(t)'
    BY Zenon, <1>0 DEF PhaseInv, TypeOK
  <2>2. ASSUME NEW u \in Txn, u # t PROVE PhaseInv(u)'
    <3>1. PhaseInv(u) /\ phase'[u] = phase[u]
      BY Zenon, <1>0, <2>2 DEF Inv, TypeOK
    <3> QED BY Zenon, <1>0, <1>2, <3>1, PhaseKept DEF PhaseInv
  <2> QED BY Zenon, <2>1, <2>2
<1>4. LogInv' /\ Agrees(V)' /\ KeyspacesInv(V)'
  BY Zenon, <1>0, <1>1, <1>2, LogSame, AgreesSame, KeyspacesSame DEF Inv, Serving
<1>5. SlotsInv' /\ Owned'
  BY Zenon, <1>0, SlotsSame DEF Inv, Serving, Owned
<1> QED BY Zenon, <1>0, <1>1, <1>2, <1>3, <1>4, <1>5, UpFrame DEF Inv

\* validate_commit finds a commit valid, or in conflict, as the log says it is.
LEMMA ValidVerdict ==
  ASSUME NEW V, Inv(V), NEW s \in Slot, s < nextSeq
  PROVE  (Valid(s) => s \in V) /\ (Invalid(s) => s \notin V)
<1>1. ASSUME NEW i \in Concurrent(s) PROVE i \in Slot /\ i < nextSeq
  <2>1. i \in Slot /\ i < s
    BY Zenon DEF Concurrent
  <2>2. i \in Int /\ s \in Int /\ nextSeq \in Int
    BY Zenon, <2>1, Numbers DEF Inv
  <2> QED BY <2>1, <2>2
<1>2. s \in V <=> \A i \in Concurrent(s) : i \in V => ~Clashes(s, i)
  BY Zenon DEF Inv, Verdict
<1>3. ASSUME Valid(s), NEW i \in Concurrent(s), i \in V PROVE ~Clashes(s, i)
  <2>1. Passable(s, i) /\ ~(i \in Committed /\ Clashes(s, i))
    BY Zenon, <1>3 DEF Valid
  <2>2. status[i] # "Aborted"
    BY Zenon, <1>1, <1>3 DEF Inv, Agrees
  <2> QED BY Zenon, <1>1, <2>1, <2>2 DEF Passable, Committed, Independent, Clashes
<1>4. ASSUME Invalid(s) PROVE s \notin V
  <2>1. PICK i \in Concurrent(s) \cap Committed : Clashes(s, i)
    BY Zenon, <1>4 DEF Invalid
  <2>2. i \in V
    BY Zenon, <1>1, <2>1 DEF Inv, Agrees, Committed
  <2> QED BY Zenon, <1>2, <2>1, <2>2
<1> QED BY Zenon, <1>2, <1>3, <1>4

LEMMA DecideStep ==
  ASSUME NEW V, Inv(V), NEW t \in Txn, Decide(t)
  PROVE  Inv(V)'
<1> USE DEF logFileVars, checkpointVars, replayVars
<1>0. TypeOK /\ mode = "up" /\ phase[t] = "sequenced"
      /\ UNCHANGED <<wal, synced, nextSeq, log, statuses, kv, watermark, open, seq,
                     checkpoints, prev, mark, mode, at, replayed, bare, crashes, promised>>
  BY Zenon DEF Inv, Decide, Validate, Abort
<1>1. PICK s : s = seq[t]
  BY Zenon
<1>2. s \in Slot /\ s < nextSeq /\ status[s] = "Pending" /\ s # 0 /\ \A u \in Txn : seq[u] = s => u = t
  BY Zenon, <1>0, <1>1 DEF Inv, PhaseInv
<1>3. PICK x : /\ status' = [status EXCEPT ![s] = x]
               /\ \/ x = "Validated" /\ s \in V /\ reinsert' = [reinsert EXCEPT ![t] = FinalFlags(s, Committed)]
                     /\ phase' = [phase EXCEPT ![t] = "validated"]
                  \/ x = "Aborted" /\ s \notin V /\ UNCHANGED reinsert
                     /\ phase' = [phase EXCEPT ![t] = "aborted"]
  <2>1. CASE Validate(t)
    BY Zenon, <1>1, <1>2, <2>1, ValidVerdict DEF Validate, Enter
  <2>2. CASE Abort(t)
    BY Zenon, <1>1, <1>2, <2>2, ValidVerdict DEF Abort, Enter
  <2> QED BY Zenon, <2>1, <2>2 DEF Decide
<1>4. FinalFlags(s, Committed) \subseteq Puts(log[s].ops) /\ FinalFlags(s, Committed) \subseteq Key
  BY Zenon DEF FinalFlags, Puts
<1>5. TypeOK'
  <2>1. status' \in [Slot -> {"Empty", "Pending", "Validated", "Applied", "Aborted"}]
    BY Zenon, <1>0, <1>3 DEF TypeOK
  <2>2. phase' \in [Txn -> {"idle", "open", "sequenced", "validated", "written", "applied",
                            "aborted", "returned", "gone"}]
    BY Zenon, <1>0, <1>3 DEF TypeOK
  <2>3. reinsert' \in [Txn -> SUBSET Key]
    BY Zenon, <1>0, <1>3, <1>4 DEF TypeOK
  <2> QED BY Zenon, <1>0, <2>1, <2>2, <2>3 DEF TypeOK
<1>6. status'[s] = x /\ \A r \in Slot : r # s => status'[r] = status[r]
  BY Zenon, <1>0, <1>2, <1>3 DEF TypeOK
<1>7. Safe /\ Grows /\ watermark <= watermark' /\ \A r \in Slot : Settled(r) => Settled(r)'
  <2>1. synced' \in synced..Len(wal) /\ watermark <= watermark'
    BY <1>0, Numbers DEF TypeOK
  <2> QED BY Zenon, <1>0, <1>2, <1>6, <2>1, SafeSame DEF Grows, Settled
<1>8. \A u \in Txn : PhaseInv(u)'
  <2>1. PhaseInv(t)'
    <3>1. PhaseInv(t) /\ phase'[t] = (IF x = "Validated" THEN "validated" ELSE "aborted")
          /\ (x = "Validated" => reinsert'[t] = FinalFlags(s, Committed))
      BY Zenon, <1>0, <1>3 DEF Inv, TypeOK
    <3> QED BY Zenon, <1>0, <1>1, <1>2, <1>3, <1>4, <1>6, <3>1 DEF PhaseInv
  <2>2. ASSUME NEW u \in Txn, u # t PROVE PhaseInv(u)'
    <3>1. PhaseInv(u) /\ phase'[u] = phase[u] /\ reinsert'[u] = reinsert[u]
      BY Zenon, <1>0, <1>3, <2>2 DEF Inv, TypeOK
    <3>2. seq[u] # 0 => seq[u] \in Slot /\ seq[u] # s /\ seq[u] < nextSeq'
                        /\ \A w \in Txn : seq'[w] = seq[u] => w = u
      BY Zenon, <1>0, <1>2, <2>2, <3>1 DEF PhaseInv
    <3> QED BY Zenon, <1>0, <1>6, <1>7, <3>1, <3>2, PhaseKept
  <2> QED BY Zenon, <2>1, <2>2
<1>9. LogInv' /\ KeyspacesInv(V)' /\ Owned'
  BY Zenon, <1>0, <1>5, <1>7, LogSame, KeyspacesSame DEF Inv, Serving, Owned
<1>10. Agrees(V)'
  BY Zenon, <1>0, <1>3, <1>6, <1>7 DEF Inv, Agrees, Safe
<1>11. SlotsInv'
  <2>1. SlotsInv
    BY Zenon, <1>0 DEF Inv, Serving
  <2>2. ASSUME NEW r \in Slot
        PROVE  /\ status'[r] # "Empty" <=> r < nextSeq
               /\ r <= watermark => Settled(r)'
               /\ status'[r] = "Applied" => Whole(kv, r)'
               /\ promised[r] = "Committed" => status'[r] = "Applied"
    <3>1. CASE r # s
      <4>1. (Whole(kv, r) => Whole(kv, r)') /\ (Settled(r) => Settled(r)')
        BY Zenon, <1>0, <1>6, <3>1 DEF Settled, Whole
      <4> QED BY Zenon, <1>0, <1>6, <2>1, <3>1, <4>1 DEF SlotsInv
    <3>2. CASE r = s
      BY Zenon, <1>0, <1>2, <1>3, <1>6, <2>1, <3>2 DEF SlotsInv, Settled
    <3> QED BY Zenon, <3>1, <3>2
  <2> QED BY Zenon, <1>0, <2>1, <2>2 DEF SlotsInv
<1> QED BY Zenon, <1>0, <1>5, <1>7, <1>8, <1>9, <1>10, <1>11, UpFrame DEF Inv

\* A sequenced commit has its record.
LEMMA RecordType ==
  ASSUME TypeOK, LogInv, NEW s \in Slot, s < nextSeq
  PROVE  log[s] \in Record /\ log[s].ops \in Buffer /\ log[s].flags \subseteq Puts(log[s].ops)
  BY Zenon DEF TypeOK, LogInv, Record

\* A batch has a version of every key that the commit inserts or deletes, all of
\* them with its sequence number.
LEMMA Batch ==
  ASSUME NEW s \in Nat, NEW o \in Buffer, NEW flags \in SUBSET Puts(o), NEW k \in Key
  PROVE  /\ NewVersions(k, s, o, flags) \subseteq Version
         /\ \A v \in NewVersions(k, s, o, flags) : v.seq = s
         /\ o.writes[k].op \in {"Insert", "Delete"} =>
              \E v \in NewVersions(k, s, o, flags) : v.seq = s /\ v.op = o.writes[k].op
<1>1. o.writes[k] \in Write
  BY Zenon DEF Buffer
<1>2. PICK w : w = o.writes[k]
  BY Zenon
<1>3. k \in flags => w.op = "Put"
  BY Zenon, <1>2 DEF Puts
<1>4. CASE w.op = "Insert" \/ k \in flags
  <2>1. w.val \in Val
    BY <1>1, <1>2, <1>3, <1>4 DEF Write, NoWrite
  <2>2. NewVersions(k, s, o, flags) = {[seq |-> s, op |-> "Insert", val |-> w.val]}
    <3>1. w.op # "Delete"
      BY Zenon, <1>3, <1>4
    <3> QED BY Zenon, <1>2, <1>4, <3>1 DEF NewVersions
  <2>3. w.op \in {"Insert", "Delete"} => w.op = "Insert"
    BY Zenon, <1>3, <1>4
  <2> QED BY <1>2, <2>1, <2>2, <2>3 DEF Version
<1>5. CASE w.op = "Delete"
  <2>1. NewVersions(k, s, o, flags) = {[seq |-> s, op |-> "Delete"]}
    BY Zenon, <1>2, <1>3, <1>5 DEF NewVersions
  <2> QED BY <1>2, <1>5, <2>1 DEF Version
<1>6. CASE ~(w.op = "Insert" \/ k \in flags) /\ w.op # "Delete"
  <2>1. NewVersions(k, s, o, flags) = {}
    BY Zenon, <1>2, <1>6 DEF NewVersions
  <2> QED BY Zenon, <1>2, <1>6, <2>1
<1> QED BY Zenon, <1>4, <1>5, <1>6

\* The batch of a validated commit, whose record is synced, goes to the keyspaces.
LEMMA KeyspacesStep ==
  ASSUME NEW V, Inv(V), NEW t \in Txn, WriteKeyspaces(t)
  PROVE  Inv(V)'
<1> USE DEF logFileVars, checkpointVars, replayVars
<1>0. TypeOK /\ mode = "up" /\ phase[t] = "validated"
      /\ UNCHANGED <<wal, synced, nextSeq, log, statuses, status, watermark, open, seq, reinsert,
                     checkpoints, prev, mark, mode, at, replayed, bare, crashes, promised>>
      /\ phase' = [phase EXCEPT ![t] = "written"]
  BY Zenon DEF Inv, WriteKeyspaces, WriteVersions, Enter
<1>1. PICK s, o, f : s = seq[t] /\ o = log[s].ops /\ f = reinsert[t]
  BY Zenon
<1>2. /\ s \in Slot /\ s < nextSeq /\ status[s] = "Validated" /\ s # 0
      /\ \A u \in Txn : seq[u] = s => u = t
      /\ f \subseteq Puts(o) /\ o \in Buffer /\ Synced(s) /\ s \in V
      /\ kv' = [k \in Key |-> kv[k] \cup NewVersions(k, s, o, f)]
  <2>1. s \in Slot /\ s < nextSeq /\ status[s] = "Validated" /\ s # 0 /\ f \subseteq Puts(o)
        /\ \A u \in Txn : seq[u] = s => u = t
    BY Zenon, <1>0, <1>1 DEF Inv, PhaseInv
  <2>2. o \in Buffer /\ s \in V
    BY Zenon, <1>1, <2>1, RecordType DEF Inv, Agrees
  <2>3. Synced(s) /\ kv' = [k \in Key |-> kv[k] \cup NewVersions(k, s, o, f)]
    BY Zenon, <1>1 DEF WriteKeyspaces, WriteVersions
  <2> QED BY Zenon, <2>1, <2>2, <2>3
<1>3. s \in Nat
  BY <1>2 DEF Slot
<1>4. ASSUME NEW k \in Key
      PROVE  /\ kv'[k] = kv[k] \cup NewVersions(k, s, o, f)
             /\ NewVersions(k, s, o, f) \subseteq Version
             /\ \A v \in NewVersions(k, s, o, f) : v.seq = s
             /\ o.writes[k].op \in {"Insert", "Delete"} =>
                  \E v \in NewVersions(k, s, o, f) : v.seq = s /\ v.op = o.writes[k].op
  <2>1. f \in SUBSET Puts(o)
    BY Zenon, <1>2
  <2>2. kv'[k] = kv[k] \cup NewVersions(k, s, o, f)
    BY Zenon, <1>2
  <2>3. o \in Buffer
    BY Zenon, <1>2
  <2>4. /\ NewVersions(k, s, o, f) \subseteq Version
        /\ \A v \in NewVersions(k, s, o, f) : v.seq = s
        /\ o.writes[k].op \in {"Insert", "Delete"} =>
             \E v \in NewVersions(k, s, o, f) : v.seq = s /\ v.op = o.writes[k].op
    BY <1>3, <2>1, <2>3, Batch
  <2> QED BY Zenon, <2>2, <2>4
<1>5. Grows /\ Whole(kv, s)'
  <2>1. Grows
    BY Zenon, <1>4 DEF Grows
  <2>2. ASSUME NEW k \in Key, log'[s].ops.writes[k].op \in {"Insert", "Delete"}
        PROVE  \E v \in kv'[k] : v.seq = s /\ v.op = log'[s].ops.writes[k].op
    <3>1. log'[s].ops = o
      BY Zenon, <1>0, <1>1
    <3> QED BY Zenon, <1>4, <2>2, <3>1
  <2> QED BY Zenon, <2>1, <2>2 DEF Whole
<1>6. TypeOK'
  <2>1. kv' \in [Key -> SUBSET Version]
    BY Zenon, <1>0, <1>2, <1>4 DEF TypeOK
  <2>2. phase' \in [Txn -> {"idle", "open", "sequenced", "validated", "written", "applied",
                            "aborted", "returned", "gone"}]
    BY Zenon, <1>0 DEF TypeOK
  <2> QED BY Zenon, <1>0, <2>1, <2>2 DEF TypeOK
<1>7. Safe /\ watermark <= watermark' /\ \A r \in Slot : Settled(r) => Settled(r)'
  <2>1. synced' \in synced..Len(wal) /\ watermark <= watermark'
    BY <1>0, Numbers DEF TypeOK
  <2> QED BY Zenon, <1>0, <2>1, SafeSame DEF Settled
<1>8. \A u \in Txn : PhaseInv(u)'
  <2>1. PhaseInv(t)'
    <3>1. PhaseInv(t) /\ phase'[t] = "written" /\ seq'[t] = s
      BY Zenon, <1>0, <1>1 DEF Inv, TypeOK
    <3>2. Synced(s)' /\ Whole(kv, s)' /\ status'[s] = "Validated" /\ s < nextSeq'
          /\ \A u \in Txn : seq'[u] = s => u = t
      BY Zenon, <1>0, <1>2, <1>5, <1>7 DEF Safe
    <3>3. Synced(seq[t])' /\ Whole(kv, seq[t])'
      BY Zenon, <3>1, <3>2 DEF Synced, Whole
    <3> QED BY Zenon, <1>0, <1>2, <3>1, <3>2, <3>3 DEF PhaseInv
  <2>2. ASSUME NEW u \in Txn, u # t PROVE PhaseInv(u)'
    <3>1. PhaseInv(u) /\ phase'[u] = phase[u]
      BY Zenon, <1>0, <2>2 DEF Inv, TypeOK
    <3> QED BY Zenon, <1>0, <1>5, <1>7, <3>1, PhaseKept DEF PhaseInv
  <2> QED BY Zenon, <2>1, <2>2
<1>9. LogInv' /\ Agrees(V)' /\ Owned'
  BY Zenon, <1>0, <1>7, LogSame, AgreesSame DEF Inv, Owned
<1>10. SlotsInv'
  <2>1. SlotsInv
    BY Zenon, <1>0 DEF Inv, Serving
  <2>2. ASSUME NEW r \in Slot
        PROVE  (Whole(kv, r) => Whole(kv, r)') /\ (Settled(r) => Settled(r)')
    BY Zenon, <1>0, <1>5, <1>7, WholeKept
  <2> QED BY Zenon, <1>0, <2>1, <2>2 DEF SlotsInv
<1>11. KeyspacesInv(V)'
  <2>1. PICK m : m = IF mark = NoMark THEN watermark ELSE mark
    BY Zenon
  <2>2. Founded(V, kv, m)
    BY Zenon, <1>0, <2>1 DEF Inv, KeyspacesInv, Serving
  <2>3. Synced(s)'
    BY Zenon, <1>2, <1>7 DEF Safe
  <2>4. ASSUME NEW k \in Key, NEW v \in kv'[k], v.seq \in Slot
        PROVE  \/ v.seq \in V /\ Synced(v.seq)'
               \/ v.seq <= m /\ (v.seq < nextSeq' => v.seq \in V)
    <3>1. CASE v \in kv[k]
      BY Zenon, <1>0, <1>7, <2>2, <2>4, <3>1 DEF Founded, Safe
    <3>2. CASE v \in NewVersions(k, s, o, f)
      <4>1. v.seq = s
        BY Zenon, <1>4, <3>2
      <4> QED BY Zenon, <1>2, <2>3, <4>1
    <3> QED BY Zenon, <1>4, <2>4, <3>1, <3>2
  <2> QED BY Zenon, <1>0, <2>1, <2>4 DEF KeyspacesInv, Founded, Synced
<1> QED BY Zenon, <1>0, <1>6, <1>7, <1>8, <1>9, <1>10, <1>11, UpFrame DEF Inv

\* The commit is applied, from now on other snapshots may see it.
LEMMA AppliedStep ==
  ASSUME NEW V, Inv(V), NEW t \in Txn, Applied(t)
  PROVE  Inv(V)'
<1> USE DEF logFileVars, checkpointVars, replayVars
<1>0. TypeOK /\ mode = "up" /\ phase[t] = "written"
      /\ UNCHANGED <<wal, synced, nextSeq, log, statuses, kv, watermark, open, seq, reinsert,
                     checkpoints, prev, mark, mode, at, replayed, bare, crashes>>
      /\ phase' = [phase EXCEPT ![t] = "applied"]
  BY Zenon DEF Inv, Applied, Apply, Enter
<1>1. PICK s : s = seq[t]
  BY Zenon
<1>2. /\ s \in Slot /\ s < nextSeq /\ status[s] = "Validated" /\ s # 0
      /\ \A u \in Txn : seq[u] = s => u = t
      /\ Synced(s) /\ Whole(kv, s) /\ s \in V
  <2>1. s \in Slot /\ s < nextSeq /\ status[s] = "Validated" /\ s # 0 /\ Synced(s) /\ Whole(kv, s)
        /\ \A u \in Txn : seq[u] = s => u = t
    BY Zenon, <1>0, <1>1 DEF Inv, PhaseInv
  <2> QED BY Zenon, <2>1 DEF Inv, Agrees
<1>3. status' = [status EXCEPT ![s] = "Applied"] /\ promised' = [promised EXCEPT ![s] = "Committed"]
  BY Zenon, <1>1 DEF Applied, Apply
<1>4. TypeOK'
  <2>1. /\ status' \in [Slot -> {"Empty", "Pending", "Validated", "Applied", "Aborted"}]
        /\ promised' \in [Slot -> Outcome]
    BY Zenon, <1>0, <1>3 DEF TypeOK, Outcome
  <2>2. phase' \in [Txn -> {"idle", "open", "sequenced", "validated", "written", "applied",
                            "aborted", "returned", "gone"}]
    BY Zenon, <1>0 DEF TypeOK
  <2> QED BY Zenon, <1>0, <2>1, <2>2 DEF TypeOK
<1>5. /\ status'[s] = "Applied" /\ promised'[s] = "Committed"
      /\ \A r \in Slot : r # s => status'[r] = status[r] /\ promised'[r] = promised[r]
  BY Zenon, <1>0, <1>2, <1>3 DEF TypeOK
<1>6. Safe /\ Grows /\ watermark <= watermark' /\ \A r \in Slot : Settled(r) => Settled(r)'
  <2>1. synced' \in synced..Len(wal) /\ watermark <= watermark'
    BY <1>0, Numbers DEF TypeOK
  <2> QED BY Zenon, <1>0, <1>2, <1>5, <2>1, SafeSame DEF Grows, Settled
<1>7. \A u \in Txn : PhaseInv(u)'
  <2>1. PhaseInv(t)'
    <3>1. PhaseInv(t) /\ phase'[t] = "applied" /\ seq'[t] = s /\ status'[seq'[t]] = "Applied"
      BY Zenon, <1>0, <1>1, <1>5 DEF Inv, TypeOK
    <3> QED BY Zenon, <1>0, <1>1, <1>2, <3>1 DEF PhaseInv
  <2>2. ASSUME NEW u \in Txn, u # t PROVE PhaseInv(u)'
    <3>1. PhaseInv(u) /\ phase'[u] = phase[u]
      BY Zenon, <1>0, <2>2 DEF Inv, TypeOK
    <3>2. seq[u] # 0 => seq[u] \in Slot /\ seq[u] # s /\ seq[u] < nextSeq'
                        /\ \A w \in Txn : seq'[w] = seq[u] => w = u
      BY Zenon, <1>0, <1>2, <2>2, <3>1 DEF PhaseInv
    <3> QED BY Zenon, <1>0, <1>5, <1>6, <3>1, <3>2, PhaseKept
  <2> QED BY Zenon, <2>1, <2>2
<1>8. LogInv' /\ KeyspacesInv(V)' /\ Owned'
  BY Zenon, <1>0, <1>4, <1>6, LogSame, KeyspacesSame DEF Inv, Serving, Owned
<1>9. Agrees(V)'
  <2>1. Synced(s)'
    BY Zenon, <1>2, <1>6 DEF Safe
  <2>2. ASSUME NEW r \in Slot
        PROVE  /\ statuses'[r] # "None" => r < nextSeq'
               /\ statuses'[r] = "Committed" => r \in V
               /\ statuses'[r] = "Rejected" => r \notin V
               /\ promised'[r] # "None" => Synced(r)'
               /\ promised'[r] = "Committed" => r \in V
               /\ promised'[r] = "Rejected" => r \notin V
               /\ r < nextSeq' /\ status'[r] \in {"Validated", "Applied"} => r \in V
               /\ r < nextSeq' /\ status'[r] = "Aborted" => r \notin V
    <3>1. CASE r = s
      BY Zenon, <1>0, <1>2, <1>5, <2>1, <3>1 DEF Inv, Agrees
    <3>2. CASE r # s
      BY Zenon, <1>0, <1>5, <1>6, <3>2 DEF Inv, Agrees, Safe
    <3> QED BY Zenon, <3>1, <3>2
  <2> QED BY Zenon, <2>2 DEF Agrees
<1>10. SlotsInv'
  <2>1. SlotsInv
    BY Zenon, <1>0 DEF Inv, Serving
  <2>2. ASSUME NEW r \in Slot
        PROVE  /\ status'[r] # "Empty" <=> r < nextSeq
               /\ r <= watermark => Settled(r)'
               /\ status'[r] = "Applied" => Whole(kv, r)'
               /\ promised'[r] = "Committed" => status'[r] = "Applied"
    <3>1. (Whole(kv, r) => Whole(kv, r)') /\ (Settled(r) => Settled(r)')
      BY Zenon, <1>0, <1>6 DEF Whole
    <3>2. CASE r # s
      BY Zenon, <1>0, <1>5, <2>1, <3>1, <3>2 DEF SlotsInv
    <3>3. CASE r = s
      BY Zenon, <1>0, <1>2, <1>5, <2>1, <3>1, <3>3 DEF SlotsInv, Settled
    <3> QED BY Zenon, <3>2, <3>3
  <2> QED BY Zenon, <1>0, <2>1, <2>2 DEF SlotsInv
<1> QED BY Zenon, <1>0, <1>4, <1>6, <1>7, <1>8, <1>9, <1>10, UpFrame DEF Inv

\* may_increment_watermark: the watermark moves over a settled slot.
LEMMA WatermarkStep ==
  ASSUME NEW V, Inv(V), MoveWatermark
  PROVE  Inv(V)'
<1> USE DEF logFileVars, checkpointVars, replayVars
<1>0. TypeOK /\ mode = "up" /\ watermark < MaxSeq
      /\ UNCHANGED <<wal, synced, nextSeq, log, statuses, kv, status, phase, open, seq, reinsert,
                     checkpoints, prev, mark, mode, at, replayed, bare, crashes, promised>>
      /\ Settled(watermark + 1) /\ watermark' = watermark + 1
  BY Zenon DEF Inv, MoveWatermark, Advance, Settled
<1>1. /\ watermark + 1 \in Slot /\ watermark <= watermark' /\ watermark' \in Marks
      /\ synced' \in synced..Len(wal)
      /\ \A s \in Slot : /\ s <= watermark' => s <= watermark \/ s = watermark + 1
                         /\ watermark' < s => watermark < s
  <2>1. synced' \in synced..Len(wal)
    BY <1>0 DEF TypeOK
  <2>2. watermark \in Int /\ First - 1 <= watermark /\ watermark < MaxSeq /\ watermark' = watermark + 1
    BY Zenon, <1>0, Numbers
  <2> QED BY <2>1, <2>2 DEF Slot, Marks
<1>2. TypeOK'
  BY Zenon, <1>0, <1>1 DEF TypeOK
<1>3. Safe /\ Grows /\ \A s \in Slot : Settled(s) => Settled(s)'
  BY Zenon, <1>0, <1>1, SafeSame DEF Grows, Settled
<1>4. ASSUME NEW u \in Txn PROVE PhaseInv(u)'
  BY Zenon, <1>0, <1>3, PhaseKept DEF Inv, PhaseInv
<1>5. LogInv' /\ Agrees(V)' /\ KeyspacesInv(V)' /\ Owned'
  BY Zenon, <1>0, <1>1, <1>2, <1>3, LogSame, AgreesSame, KeyspacesSame DEF Inv, Serving, Owned
<1>6. SlotsInv'
  <2>1. SlotsInv
    BY Zenon, <1>0 DEF Inv, Serving
  <2>2. watermark' < nextSeq
    BY Zenon, <1>0, <1>1, <2>1 DEF SlotsInv, Settled
  <2>3. ASSUME NEW r \in Slot
        PROVE  (Whole(kv, r) => Whole(kv, r)') /\ (r <= watermark' => Settled(r)')
    BY Zenon, <1>0, <1>1, <1>3, <2>1 DEF SlotsInv, Whole
  <2> QED BY Zenon, <1>0, <2>1, <2>2, <2>3 DEF SlotsInv
<1> QED BY Zenon, <1>0, <1>1, <1>2, <1>3, <1>4, <1>5, <1>6, UpFrame DEF Inv

\* The fsync thread.
LEMMA SyncStep ==
  ASSUME NEW V, Inv(V), Sync
  PROVE  Inv(V)'
<1> USE DEF logFileVars, checkpointVars, replayVars
<1>0. TypeOK /\ mode = "up"
      /\ UNCHANGED <<wal, nextSeq, log, statuses, kv, status, watermark, phase, open, seq, reinsert,
                     checkpoints, prev, mark, mode, at, replayed, bare, crashes, promised>>
      /\ synced < Len(wal) /\ synced' = Len(wal)
  BY Zenon DEF Inv, Sync, protocolVars
<1>1. synced' \in synced..Len(wal) /\ synced' \in 0..Len(wal') /\ watermark <= watermark'
  BY <1>0, Numbers DEF TypeOK
<1>2. TypeOK'
  BY Zenon, <1>0, <1>1 DEF TypeOK
<1>3. Safe /\ Grows /\ \A s \in Slot : Settled(s) => Settled(s)'
  BY Zenon, <1>0, <1>1, SafeSame DEF Grows, Settled
<1>4. ASSUME NEW u \in Txn PROVE PhaseInv(u)'
  BY Zenon, <1>0, <1>3, PhaseKept DEF Inv, PhaseInv
<1>5. LogInv' /\ Agrees(V)' /\ KeyspacesInv(V)' /\ Owned' /\ SlotsInv'
  BY Zenon, <1>0, <1>1, <1>2, <1>3, LogSame, AgreesSame, KeyspacesSame, SlotsSame
     DEF Inv, Serving, Owned
<1> QED BY Zenon, <1>0, <1>1, <1>2, <1>3, <1>4, <1>5, UpFrame DEF Inv

\* A status record is written after its commit.
LEMMA LogStatus ==
  ASSUME TypeOK, LogInv, NEW s \in Slot, s < nextSeq, wal' = Append(wal, <<"status", s>>),
         UNCHANGED <<nextSeq, log>>
  PROVE  LogInv' /\ wal' \in Seq({"commit", "status"} \X Slot) /\ Len(wal') = Len(wal) + 1
<1>1. wal \in Seq({"commit", "status"} \X Slot) /\ Len(wal) \in Nat
  BY DEF TypeOK
<1>2. /\ wal' \in Seq({"commit", "status"} \X Slot) /\ Len(wal') = Len(wal) + 1
      /\ wal'[Len(wal) + 1] = <<"status", s>>
      /\ \A n \in Index : wal'[n] = wal[n]
  BY <1>1 DEF Index
<1>3. /\ Index \subseteq Index'
      /\ \A n \in Index' : n \in Index \/ n = Len(wal) + 1
      /\ \A n \in Index : n \in 1..(Len(wal) + 1)
      /\ \A n \in Index : \A m \in 1..n : m \in Index
  BY <1>1, <1>2 DEF Index
<1>4. \A r \in Slot : \A n \in Index' : wal'[n] = <<"commit", r>> => n \in Index /\ wal[n] = <<"commit", r>>
  <2>1. \A r \in Slot : <<"commit", r>> # <<"status", s>>
    BY SMT
  <2> QED BY Zenon, <1>2, <1>3, <2>1
<1>5. \A r \in Slot : (\E n \in Index : wal[n] = <<"commit", r>>) <=> (\E n \in Index' : wal'[n] = <<"commit", r>>)
  BY Zenon, <1>2, <1>3, <1>4
<1>6. ASSUME NEW n \in Index', NEW r \in Slot, wal'[n] = <<"status", r>>
      PROVE  \E m \in 1..n : wal'[m] = <<"commit", r>>
  <2>1. CASE n \in Index
    <3>1. PICK m \in 1..n : wal[m] = <<"commit", r>>
      <4>1. wal[n] = <<"status", r>>
        BY Zenon, <1>2, <1>6, <2>1
      <4> QED BY Zenon, <2>1, <4>1 DEF LogInv
    <3> QED BY Zenon, <1>2, <1>3, <2>1, <3>1
  <2>2. CASE n = Len(wal) + 1
    <3>1. r = s
      <4>1. <<"status", r>> = <<"status", s>>
        BY Zenon, <1>2, <1>6, <2>2
      <4> QED BY Zenon, <4>1
    <3>2. PICK m \in Index : wal[m] = <<"commit", s>>
      BY Zenon DEF LogInv
    <3>3. m \in 1..n
      BY Zenon, <1>3, <2>2, <3>2
    <3> QED BY Zenon, <1>2, <3>1, <3>2, <3>3
  <2> QED BY Zenon, <1>3, <1>6, <2>1, <2>2
<1> QED BY Zenon, <1>2, <1>4, <1>5, <1>6 DEF LogInv

\* persist_commit_status, and the answer to the client.
LEMMA PersistStep ==
  ASSUME NEW V, Inv(V), NEW t \in Txn, PersistStatus(t)
  PROVE  Inv(V)'
<1> USE DEF logFileVars, checkpointVars, replayVars
<1>0. TypeOK /\ mode = "up" /\ phase[t] \in {"applied", "aborted"}
      /\ UNCHANGED <<synced, nextSeq, log, kv, status, watermark, open, seq, reinsert,
                     checkpoints, prev, mark, mode, at, replayed, bare, crashes>>
      /\ phase' = [phase EXCEPT ![t] = "returned"]
  BY Zenon DEF Inv, PersistStatus, Return, Enter
<1>1. PICK s, x : s = seq[t] /\ x = IF phase[t] = "applied" THEN "Committed" ELSE "Rejected"
  BY Zenon
<1>2. /\ s \in Slot /\ s < nextSeq /\ s # 0 /\ Synced(s)
      /\ \A u \in Txn : seq[u] = s => u = t
      /\ \/ x = "Committed" /\ status[s] = "Applied" /\ s \in V
         \/ x = "Rejected" /\ status[s] = "Aborted" /\ s \notin V
  <2>1. s \in Slot /\ s < nextSeq /\ s # 0 /\ (\A u \in Txn : seq[u] = s => u = t)
        /\ \/ x = "Committed" /\ status[s] = "Applied"
           \/ x = "Rejected" /\ status[s] = "Aborted"
    BY Zenon, <1>0, <1>1 DEF Inv, PhaseInv
  <2>2. Synced(s)
    BY Zenon, <1>1 DEF PersistStatus
  <2> QED BY Zenon, <2>1, <2>2 DEF Inv, Agrees
<1>3. statuses' = [statuses EXCEPT ![s] = x] /\ wal' = Append(wal, <<"status", s>>)
  BY Zenon, <1>1 DEF PersistStatus, Return
<1>4. promised' = [promised EXCEPT ![s] = x]
  <2>1. statuses'[s] = x
    BY Zenon, <1>0, <1>2, <1>3 DEF TypeOK
  <2> QED BY Zenon, <1>1, <2>1 DEF PersistStatus
<1>5. /\ statuses'[s] = x /\ promised'[s] = x
      /\ \A r \in Slot : r # s => statuses'[r] = statuses[r] /\ promised'[r] = promised[r]
  BY Zenon, <1>0, <1>2, <1>3, <1>4 DEF TypeOK
<1>6. LogInv' /\ wal' \in Seq({"commit", "status"} \X Slot) /\ Len(wal') = Len(wal) + 1
  BY Zenon, <1>0, <1>2, <1>3, LogStatus DEF Inv
<1>7. TypeOK'
  <2>1. statuses' \in [Slot -> Outcome] /\ promised' \in [Slot -> Outcome]
    BY Zenon, <1>0, <1>2, <1>3, <1>4 DEF TypeOK, Outcome
  <2>2. phase' \in [Txn -> {"idle", "open", "sequenced", "validated", "written", "applied",
                            "aborted", "returned", "gone"}]
    BY Zenon, <1>0 DEF TypeOK
  <2>3. synced' \in 0..Len(wal')
    <3>1. wal \in Seq({"commit", "status"} \X Slot) /\ synced \in 0..Len(wal)
      BY Zenon, <1>0 DEF TypeOK
    <3> QED BY <1>0, <1>6, <3>1
  <2> QED BY Zenon, <1>0, <1>6, <2>1, <2>2, <2>3 DEF TypeOK
<1>8. Safe /\ Grows /\ watermark <= watermark' /\ \A r \in Slot : Settled(r) => Settled(r)'
  <2>1. <<"status", s>> \in {"commit", "status"} \X Slot /\ watermark <= watermark'
    BY <1>0, <1>2, Numbers
  <2> QED BY Zenon, <1>0, <1>3, <2>1, SafeAppend DEF Grows, Settled
<1>9. \A u \in Txn : PhaseInv(u)'
  <2>1. PhaseInv(t)'
    <3>1. PhaseInv(t) /\ phase'[t] = "returned" /\ seq'[t] = s
      BY Zenon, <1>0, <1>1 DEF Inv, TypeOK
    <3>2. Settled(seq[t])'
      BY Zenon, <1>0, <1>2, <3>1 DEF Settled
    <3> QED BY Zenon, <1>0, <1>1, <1>2, <3>1, <3>2 DEF PhaseInv
  <2>2. ASSUME NEW u \in Txn, u # t PROVE PhaseInv(u)'
    <3>1. PhaseInv(u) /\ phase'[u] = phase[u]
      BY Zenon, <1>0, <2>2 DEF Inv, TypeOK
    <3> QED BY Zenon, <1>0, <1>8, <3>1, PhaseKept DEF PhaseInv
  <2> QED BY Zenon, <2>1, <2>2
<1>10. KeyspacesInv(V)' /\ Owned'
  BY Zenon, <1>0, <1>7, <1>8, KeyspacesSame DEF Inv, Serving, Owned
<1>11. Agrees(V)'
  <2>1. Synced(s)'
    BY Zenon, <1>2, <1>8 DEF Safe
  <2>2. ASSUME NEW r \in Slot
        PROVE  /\ statuses'[r] # "None" => r < nextSeq'
               /\ statuses'[r] = "Committed" => r \in V
               /\ statuses'[r] = "Rejected" => r \notin V
               /\ promised'[r] # "None" => Synced(r)'
               /\ promised'[r] = "Committed" => r \in V
               /\ promised'[r] = "Rejected" => r \notin V
               /\ r < nextSeq' /\ status'[r] \in {"Validated", "Applied"} => r \in V
               /\ r < nextSeq' /\ status'[r] = "Aborted" => r \notin V
    <3>1. CASE r = s
      BY Zenon, <1>0, <1>2, <1>5, <2>1, <3>1 DEF Inv, Agrees
    <3>2. CASE r # s
      BY Zenon, <1>0, <1>5, <1>8, <3>2 DEF Inv, Agrees, Safe
    <3> QED BY Zenon, <3>1, <3>2
  <2> QED BY Zenon, <2>2 DEF Agrees
<1>12. SlotsInv'
  <2>1. SlotsInv
    BY Zenon, <1>0 DEF Inv, Serving
  <2>2. ASSUME NEW r \in Slot
        PROVE  /\ (Whole(kv, r) => Whole(kv, r)') /\ (Settled(r) => Settled(r)')
               /\ promised'[r] = "Committed" => status[r] = "Applied"
    <3>1. (Whole(kv, r) => Whole(kv, r)') /\ (Settled(r) => Settled(r)')
      BY Zenon, <1>0, <1>8 DEF Whole
    <3>2. CASE r = s
      BY Zenon, <1>2, <1>5, <3>1, <3>2
    <3>3. CASE r # s
      BY Zenon, <1>5, <2>1, <3>1, <3>3 DEF SlotsInv
    <3> QED BY Zenon, <3>2, <3>3
  <2> QED BY Zenon, <1>0, <2>1, <2>2 DEF SlotsInv
<1> QED BY Zenon, <1>0, <1>6, <1>7, <1>8, <1>9, <1>10, <1>11, <1>12, UpFrame DEF Inv

\* A commit record is numbered after the ones in the log.
LEMMA LogCommit ==
  ASSUME TypeOK, LogInv, NEW rec \in Record, rec.flags \subseteq Puts(rec.ops), nextSeq <= MaxSeq,
         wal' = Append(wal, <<"commit", nextSeq>>), nextSeq' = nextSeq + 1,
         log' = [log EXCEPT ![nextSeq] = rec]
  PROVE  LogInv' /\ wal' \in Seq({"commit", "status"} \X Slot) /\ Len(wal') = Len(wal) + 1
<1>1. wal \in Seq({"commit", "status"} \X Slot) /\ Len(wal) \in Nat
  BY DEF TypeOK
<1>2. nextSeq \in Slot /\ \A s \in Slot : /\ s < nextSeq' <=> s < nextSeq \/ s = nextSeq
                                          /\ ~(s < nextSeq /\ s = nextSeq)
                                          /\ s < nextSeq => ~(nextSeq < s)
                                          /\ ~(s < s)
  BY SMTT(40), Numbers DEF Slot
<1>3. /\ wal' \in Seq({"commit", "status"} \X Slot) /\ Len(wal') = Len(wal) + 1
      /\ wal'[Len(wal) + 1] = <<"commit", nextSeq>>
      /\ \A n \in Index : wal'[n] = wal[n]
  BY <1>1, <1>2 DEF Index
<1>4. /\ Index \subseteq Index' /\ Len(wal) + 1 \in Index'
      /\ \A n \in Index' : n \in Index \/ n = Len(wal) + 1
      /\ \A n \in Index : n < Len(wal) + 1
      /\ \A n \in Index : \A m \in 1..n : m \in Index
  BY <1>1, <1>3 DEF Index
<1>5. \A r, s \in Slot : <<"status", r>> # <<"commit", s>> /\ (<<"commit", r>> = <<"commit", s>> => r = s)
  BY SMT
<1>6. \A r \in Slot : \A n \in Index' : wal'[n] = <<"commit", r>> =>
          (n \in Index /\ wal[n] = <<"commit", r>> /\ r < nextSeq) \/ (n = Len(wal) + 1 /\ r = nextSeq)
  BY ZenonT(40), <1>2, <1>3, <1>4, <1>5 DEF LogInv
<1>7. ASSUME NEW s \in Slot PROVE s < nextSeq' <=> \E n \in Index' : wal'[n] = <<"commit", s>>
  BY Zenon, <1>2, <1>3, <1>4, <1>6 DEF LogInv
<1>8. ASSUME NEW m \in Index', NEW n \in Index', NEW r \in Slot, NEW s \in Slot,
             wal'[m] = <<"commit", r>>, wal'[n] = <<"commit", s>>, r < s
      PROVE  m < n
  <2>1. ~(n = Len(wal) + 1 /\ m = Len(wal) + 1)
    BY Zenon, <1>2, <1>3, <1>5, <1>8
  <2>2. ~(m = Len(wal) + 1 /\ n \in Index /\ s < nextSeq /\ r = nextSeq)
    BY Zenon, <1>2, <1>8
  <2>3. /\ (m \in Index /\ wal[m] = <<"commit", r>>) \/ (m = Len(wal) + 1 /\ r = nextSeq)
        /\ (n \in Index /\ wal[n] = <<"commit", s>> /\ s < nextSeq) \/ n = Len(wal) + 1
    BY Zenon, <1>6, <1>8
  <2>4. CASE m \in Index /\ wal[m] = <<"commit", r>> /\ n \in Index /\ wal[n] = <<"commit", s>>
    BY Zenon, <1>8, <2>4 DEF LogInv
  <2>5. CASE m \in Index /\ n = Len(wal) + 1
    BY Zenon, <1>4, <2>5
  <2> QED BY Zenon, <2>1, <2>2, <2>3, <2>4, <2>5
<1>9. ASSUME NEW n \in Index', NEW r \in Slot, wal'[n] = <<"status", r>>
      PROVE  \E m \in 1..n : wal'[m] = <<"commit", r>>
  <2>1. n \in Index
    BY Zenon, <1>2, <1>3, <1>4, <1>5, <1>9
  <2>2. PICK m \in 1..n : wal[m] = <<"commit", r>>
    BY ZenonT(40), <1>3, <1>9, <2>1 DEF LogInv
  <2> QED BY Zenon, <1>3, <1>4, <2>1, <2>2
<1>10. /\ log'[nextSeq] = rec
       /\ \A s \in Slot : s # nextSeq => log'[s] = log[s]
  BY Zenon, <1>2 DEF TypeOK
<1>11. rec # NoRecord
  BY DEF Record, NoRecord
<1>12. ASSUME NEW s \in Slot
       PROVE  /\ s < nextSeq' <=> log'[s] # NoRecord
              /\ s < nextSeq' => log'[s].flags \subseteq Puts(log'[s].ops)
  <2>1. CASE s = nextSeq
    BY Zenon, <1>2, <1>10, <1>11, <2>1
  <2>2. CASE s # nextSeq
    BY Zenon, <1>2, <1>10, <2>2 DEF LogInv
  <2> QED BY Zenon, <2>1, <2>2
<1> QED BY Zenon, <1>3, <1>7, <1>8, <1>9, <1>12 DEF LogInv

\* The valid commits once record rec has the next number.
Decided(V, rec) ==
    IF \A i \in V : rec.open < i => ~Conflicts(rec.ops, log[i].ops) THEN V \cup {nextSeq} ELSE V

\* A new record leaves the decisions on those before it alone.
LEMMA VerdictNew ==
  ASSUME NEW V, Verdict(V), TypeOK, NEW rec, nextSeq <= MaxSeq, nextSeq' = nextSeq + 1,
         log' = [log EXCEPT ![nextSeq] = rec]
  PROVE  \A W : W = Decided(V, rec) => Verdict(W)'
<1> SUFFICES ASSUME NEW W, W = Decided(V, rec) PROVE Verdict(W)'
  BY Zenon
<1>1. nextSeq \in Slot /\ \A s \in Slot : /\ s < nextSeq' <=> s < nextSeq \/ s = nextSeq
                                          /\ ~(s < nextSeq /\ s = nextSeq)
                                          /\ s < nextSeq => \A i \in Slot : i < s => i < nextSeq
  BY Numbers DEF Slot
<1>2. log'[nextSeq] = rec /\ \A s \in Slot : s # nextSeq => log'[s] = log[s]
  BY Zenon, <1>1 DEF TypeOK
<1>3. /\ \A s \in V : s \in Slot /\ s < nextSeq
      /\ \A s \in Slot : s < nextSeq => (s \in W <=> s \in V)
      /\ \A s \in W : s \in V \/ s = nextSeq
  BY Zenon, <1>1 DEF Decided, Verdict
<1>4. ASSUME NEW s \in Slot, s < nextSeq
      PROVE  s \in W <=> \A i \in Concurrent(s)' : i \in W => ~Clashes(s, i)'
  <2>1. Concurrent(s)' = Concurrent(s) /\ \A i \in Concurrent(s) : i \in Slot /\ i < nextSeq
    <3>1. log'[s] = log[s]
      BY Zenon, <1>1, <1>2, <1>4
    <3> QED BY Zenon, <1>1, <1>4, <3>1 DEF Concurrent
  <2>2. \A i \in Concurrent(s) : Clashes(s, i)' <=> Clashes(s, i)
    BY Zenon, <1>1, <1>2, <1>4, <2>1 DEF Clashes
  <2> QED BY Zenon, <1>3, <1>4, <2>1, <2>2 DEF Verdict
<1>5. nextSeq \in W <=> \A i \in V : rec.open < i => ~Conflicts(rec.ops, log[i].ops)
  BY Zenon, <1>1, <1>3 DEF Decided
<1>6. PICK q : q = nextSeq
  BY Zenon
<1>7. q \in W <=> \A i \in Concurrent(q)' : i \in W => ~Clashes(q, i)'
  <2>1. \A i \in Slot : i \in Concurrent(q)' <=> rec.open < i /\ i < q
    BY Zenon, <1>1, <1>2, <1>6 DEF Concurrent
  <2>2. \A i \in Slot : i < q => (Clashes(q, i)' <=> Conflicts(rec.ops, log[i].ops))
    BY Zenon, <1>1, <1>2, <1>6 DEF Clashes
  <2>3. \A i \in Concurrent(q)' : i \in Slot /\ i < q
    BY Zenon DEF Concurrent
  <2>4. \A i \in V : i \in Slot /\ i < q
    BY Zenon, <1>3, <1>6
  <2>5. \A i \in Slot : i < q => (i \in W <=> i \in V)
    BY Zenon, <1>3, <1>6
  <2> QED BY Zenon, <1>5, <1>6, <2>1, <2>2, <2>3, <2>4, <2>5
<1> QED BY Zenon, <1>1, <1>3, <1>4, <1>6, <1>7 DEF Verdict

\* W has the decisions V on the commits before q.
Extends(W, V, q) == \A s \in Slot : s # q => (s \in W <=> s \in V)

LEMMA FoundedNew ==
  ASSUME NEW V, NEW W, NEW q, NEW data, NEW m \in Int, TypeOK, Founded(V, data, m), Extends(W, V, q),
         q = nextSeq, q \notin V, nextSeq' = nextSeq + 1, m < q, Safe
  PROVE  Founded(W, data, m)'
<1>1. \A s \in Slot : (s < nextSeq' <=> s < nextSeq \/ s = q) /\ (s <= m => s # q)
  BY Numbers
<1>2. ASSUME NEW k \in Key, NEW v \in data[k], v.seq \in Slot
      PROVE  \/ v.seq \in W /\ Synced(v.seq)'
             \/ v.seq <= m /\ (v.seq < nextSeq' => v.seq \in W)
  BY Zenon, <1>1, <1>2 DEF Founded, Extends, Safe
<1> QED BY Zenon, <1>2 DEF Founded, Synced

LEMMA CoversNew ==
  ASSUME NEW V, NEW W, NEW q, NEW data, NEW m \in Int, NEW k, CoversKey(V, data, m, k),
         Extends(W, V, q), W \subseteq Slot, q \in Int, m < q, \A s \in Slot : s # q => log'[s] = log[s]
  PROVE  CoversKey(W, data, m, k)'
<1>1. \A s \in Slot : s <= m => s # q
  BY DEF Slot
<1>2. \A s \in W : s <= m => s \in V /\ log'[s] = log[s]
  BY Zenon, <1>1 DEF Extends
<1>3. ASSUME NEW s \in W, s <= m, log'[s].ops.writes[k].op \in {"Insert", "Delete"}
      PROVE  \E v \in data[k] : v.seq = s /\ v.op = log'[s].ops.writes[k].op
  <2>1. s \in V /\ log'[s] = log[s]
    BY Zenon, <1>2, <1>3
  <2>2. log[s].ops.writes[k].op \in {"Insert", "Delete"}
    BY Zenon, <1>3, <2>1
  <2>3. \E v \in data[k] : v.seq = s /\ v.op = log[s].ops.writes[k].op
    BY Zenon, <1>3, <2>1, <2>2 DEF CoversKey
  <2> QED BY Zenon, <2>1, <2>3
<1> QED BY Zenon, <1>3 DEF CoversKey

\* The commit gets its number, and a place in the log.
LEMMA RecordStep ==
  ASSUME NEW V, Inv(V), NEW t \in Txn, WriteRecord(t)
  PROVE  \E W \in SUBSET Slot : Inv(W)'
<1> USE DEF logFileVars, checkpointVars, replayVars
<1>0. TypeOK /\ mode = "up" /\ phase[t] = "open" /\ nextSeq <= MaxSeq
      /\ UNCHANGED <<synced, statuses, kv, watermark, open, reinsert,
                     checkpoints, prev, mark, mode, at, replayed, bare, crashes, promised>>
      /\ nextSeq' = nextSeq + 1
      /\ phase' = [phase EXCEPT ![t] = "sequenced"]
  BY Zenon DEF Inv, WriteRecord, Sequence, Enter
<1>1. PICK q : q = nextSeq
  BY Zenon
<1>2. PICK rec : /\ rec \in Record /\ rec.flags \subseteq Puts(rec.ops)
                 /\ log' = [log EXCEPT ![nextSeq] = rec]
  <2>1. PICK o \in Ops : Sequence(t, o)
    BY Zenon DEF WriteRecord
  <2>2. StalePuts(o, kv, open[t]) \subseteq Puts(o) /\ Puts(o) \subseteq Key
    BY Zenon DEF StalePuts, Puts
  <2>3. open[t] \in Nat /\ o \in Buffer
    BY Zenon, <1>0 DEF TypeOK
  <2>4. PICK rec : rec = [open |-> open[t], ops |-> o, flags |-> StalePuts(o, kv, open[t])]
    BY Zenon
  <2>5. rec \in Record /\ rec.flags = StalePuts(o, kv, open[t]) /\ rec.ops = o
    BY Zenon, <2>2, <2>3, <2>4 DEF Record
  <2> QED BY Zenon, <2>1, <2>2, <2>4, <2>5 DEF Sequence
<1>3. /\ wal' = Append(wal, <<"commit", nextSeq>>)
      /\ seq' = [seq EXCEPT ![t] = q] /\ status' = [status EXCEPT ![q] = "Pending"]
  BY Zenon, <1>1 DEF WriteRecord, Sequence
<1>4. LogInv' /\ wal' \in Seq({"commit", "status"} \X Slot) /\ Len(wal') = Len(wal) + 1
  BY Zenon, <1>0, <1>2, <1>3, LogCommit DEF Inv
<1>5. /\ q \in Slot /\ q \in Int /\ q # 0 /\ nextSeq' \in First..(MaxSeq + 1)
      /\ \A s \in Slot : /\ s < nextSeq' <=> s < nextSeq \/ s = q
                         /\ ~(s < nextSeq /\ s = q)
                         /\ s <= watermark => s # q
      /\ watermark < q /\ watermark < nextSeq' /\ watermark <= watermark' /\ synced' \in 0..Len(wal')
  <2>1. watermark < nextSeq
    BY Zenon, <1>0 DEF Inv, Serving, SlotsInv
  <2>2. wal \in Seq({"commit", "status"} \X Slot) /\ synced \in 0..Len(wal)
    BY Zenon, <1>0 DEF TypeOK
  <2>3. synced' \in 0..Len(wal')
    BY <1>0, <1>4, <2>2
  <2> QED BY <1>0, <1>1, <2>1, <2>3, Numbers DEF Slot
<1>6. /\ log'[q] = rec /\ status'[q] = "Pending" /\ seq'[t] = q /\ phase'[t] = "sequenced"
      /\ \A s \in Slot : s # q => log'[s] = log[s] /\ status'[s] = status[s]
      /\ \A u \in Txn : u # t => seq'[u] = seq[u] /\ phase'[u] = phase[u]
  BY Zenon, <1>0, <1>1, <1>2, <1>3, <1>5 DEF TypeOK
<1>7. PICK W : W = Decided(V, rec)
  BY Zenon
<1>8. q \notin V /\ W \subseteq Slot /\ Extends(W, V, q) /\ Verdict(W)'
  <2>1. Verdict(W)'
    BY Zenon, <1>0, <1>2, <1>7, VerdictNew DEF Inv
  <2>2. \A s \in V : s \in Slot /\ s < nextSeq
    BY Zenon DEF Inv, Verdict
  <2>3. W \subseteq Slot /\ Extends(W, V, q)
    BY Zenon, <1>1, <1>5, <1>7, <2>2 DEF Decided, Extends
  <2> QED BY Zenon, <1>5, <2>1, <2>2, <2>3
<1>9. TypeOK'
  <2>1. log' \in [Slot -> Record \cup {NoRecord}]
    BY Zenon, <1>0, <1>1, <1>2, <1>5 DEF TypeOK
  <2>2. status' \in [Slot -> {"Empty", "Pending", "Validated", "Applied", "Aborted"}]
    BY Zenon, <1>0, <1>3 DEF TypeOK
  <2>3. phase' \in [Txn -> {"idle", "open", "sequenced", "validated", "written", "applied",
                            "aborted", "returned", "gone"}]
    BY Zenon, <1>0 DEF TypeOK
  <2>4. seq' \in [Txn -> Slot \cup {0}]
    BY Zenon, <1>0, <1>3, <1>5 DEF TypeOK
  <2> QED BY Zenon, <1>0, <1>4, <1>5, <2>1, <2>2, <2>3, <2>4 DEF TypeOK
<1>10. Safe /\ Grows
  <2>1. <<"commit", nextSeq>> \in {"commit", "status"} \X Slot
    BY Zenon, <1>1, <1>5
  <2> QED BY Zenon, <1>0, <1>3, <2>1, SafeAppend DEF Grows
<1>11. \A u \in Txn : PhaseInv(u)'
  <2>1. \A u \in Txn : seq[u] # q
    BY Zenon, <1>1, <1>5 DEF Inv, PhaseInv
  <2>2. PhaseInv(t)'
    BY Zenon, <1>0, <1>5, <1>6, <2>1 DEF PhaseInv
  <2>3. ASSUME NEW u \in Txn, u # t PROVE PhaseInv(u)'
    <3>1. PhaseInv(u) /\ phase'[u] = phase[u] /\ seq'[u] = seq[u] /\ reinsert'[u] = reinsert[u]
      BY Zenon, <1>0, <1>6, <2>3 DEF Inv
    <3>2. seq[u] # 0 => seq[u] \in Slot /\ seq[u] # q /\ seq[u] < nextSeq'
                        /\ \A w \in Txn : seq'[w] = seq[u] => w = u
      BY Zenon, <1>5, <1>6, <2>1, <2>3, <3>1 DEF PhaseInv
    <3> QED BY Zenon, <1>0, <1>6, <1>10, <3>1, <3>2, PhaseKept
  <2> QED BY Zenon, <2>2, <2>3
<1>12. promised[q] = "None" /\ statuses[q] = "None"
  <2>1. ~Synced(q)
    <3>1. 1..synced \subseteq Index
      BY <1>0 DEF TypeOK, Index
    <3> QED BY Zenon, <1>5, <3>1 DEF Inv, LogInv, Synced
  <2> QED BY Zenon, <1>1, <1>5, <2>1 DEF Inv, Agrees
<1>13. Agrees(W)'
  <2>1. ASSUME NEW r \in Slot
        PROVE  /\ statuses'[r] # "None" => r < nextSeq'
               /\ statuses'[r] = "Committed" => r \in W
               /\ statuses'[r] = "Rejected" => r \notin W
               /\ promised'[r] # "None" => Synced(r)'
               /\ promised'[r] = "Committed" => r \in W
               /\ promised'[r] = "Rejected" => r \notin W
               /\ r < nextSeq' /\ status'[r] \in {"Validated", "Applied"} => r \in W
               /\ r < nextSeq' /\ status'[r] = "Aborted" => r \notin W
    <3>1. CASE r = q
      BY Zenon, <1>0, <1>6, <1>12, <3>1
    <3>2. CASE r # q
      BY Zenon, <1>0, <1>5, <1>6, <1>8, <1>10, <3>2 DEF Inv, Agrees, Safe, Extends
    <3> QED BY Zenon, <3>1, <3>2
  <2> QED BY Zenon, <2>1 DEF Agrees
<1>14. SlotsInv' /\ Owned'
  <2>1. SlotsInv /\ Owned
    BY Zenon, <1>0 DEF Inv, Serving
  <2>2. ASSUME NEW r \in Slot, r # q
        PROVE  (Whole(kv, r) => Whole(kv, r)') /\ (Settled(r) => Settled(r)')
    BY Zenon, <1>6, <1>10, <2>2, WholeKept DEF Settled
  <2>3. ASSUME NEW r \in Slot
        PROVE  /\ status'[r] # "Empty" <=> r < nextSeq'
               /\ r <= watermark => Settled(r)'
               /\ status'[r] = "Applied" => Whole(kv, r)'
               /\ promised[r] = "Committed" => status'[r] = "Applied"
               /\ watermark < r /\ r < nextSeq' => \E u \in Txn : seq'[u] = r
    <3>1. CASE r = q
      BY Zenon, <1>5, <1>6, <1>12, <3>1
    <3>2. CASE r # q
      <4>1. watermark < r /\ r < nextSeq' => \E u \in Txn : seq'[u] = r
        <5>1. ASSUME watermark < r, r < nextSeq' PROVE \E u \in Txn : seq[u] = r
          BY Zenon, <1>0, <1>5, <2>1, <3>2, <5>1 DEF Owned
        <5>2. seq[t] = 0 /\ 0 \notin Slot
          <6>1. seq[t] = 0
            BY Zenon, <1>0 DEF Inv, PhaseInv
          <6> QED BY <6>1 DEF Slot
        <5> QED BY Zenon, <1>6, <5>1, <5>2
      <4>2. (r < nextSeq' <=> r < nextSeq) /\ status'[r] = status[r]
        BY Zenon, <1>5, <1>6, <3>2
      <4>3. /\ status[r] # "Empty" <=> r < nextSeq
            /\ r <= watermark => Settled(r)
            /\ status[r] = "Applied" => Whole(kv, r)
            /\ promised[r] = "Committed" => status[r] = "Applied"
        BY Zenon, <2>1 DEF SlotsInv
      <4> QED BY Zenon, <2>2, <3>2, <4>1, <4>2, <4>3
    <3> QED BY Zenon, <3>1, <3>2
  <2> QED BY Zenon, <1>0, <1>5, <2>3 DEF SlotsInv, Owned
<1>15. CheckpointsInv(W)'
  <2>1. Latest' = Latest
    BY Zenon, <1>0 DEF Latest
  <2>2. ASSUME NEW i \in DOMAIN checkpoints
        PROVE  /\ Complete(checkpoints[i]) => \A k \in Key : CoversKey(W, checkpoints[i].data, checkpoints[i].mark, k)'
               /\ checkpoints[i].mark <= watermark
    <3>1. PICK d, m : d = checkpoints[i].data /\ m = checkpoints[i].mark
      BY Zenon
    <3>2. m \in Int /\ m <= watermark /\ (Complete(checkpoints[i]) => \A k \in Key : CoversKey(V, d, m, k))
      BY Zenon, <1>0, <3>1, DirectoryType DEF Inv, CheckpointsInv
    <3>3. m < q
      BY SMTT(40), <1>0, <1>5, <3>2, Numbers
    <3>4. Complete(checkpoints[i]) => \A k \in Key : CoversKey(W, d, m, k)'
      <4>1. ASSUME NEW k \in Key, CoversKey(V, d, m, k) PROVE CoversKey(W, d, m, k)'
        <5>1. \A s \in Slot : s # q => log'[s] = log[s]
          BY Zenon, <1>6
        <5> QED BY Zenon, <1>5, <1>8, <3>2, <3>3, <4>1, <5>1, CoversNew
      <4> QED BY Zenon, <3>2, <4>1
    <3> QED BY Zenon, <1>0, <3>1, <3>2, <3>4 DEF CoversKey
  <2>3. PICK d, m : d = Latest.data /\ m = Latest.mark
    BY Zenon
  <2>4. m \in Int /\ m < q /\ \A s \in Slot : s <= m => s # q
    <3>1. m \in Int /\ m <= watermark
      <4>1. CASE checkpoints = <<>>
        <5>1. m = First - 1
          BY Zenon, <2>3, <4>1 DEF Latest, NewCheckpoint
        <5> QED BY <1>0, <5>1, Numbers
      <4>2. CASE checkpoints # <<>>
        BY Zenon, <1>0, <2>3, <4>2, LatestType, DirectoryType DEF Inv, CheckpointsInv
      <4> QED BY Zenon, <4>1, <4>2
    <3> QED BY SMTT(40), <1>0, <1>5, <3>1, Numbers
  <2>5. Complete(Latest) => Founded(W, d, m)'
    BY Zenon, <1>0, <1>1, <1>8, <1>10, <2>3, <2>4, FoundedNew DEF Inv, CheckpointsInv
  <2>6. \A s \in Slot : s <= m /\ s < nextSeq' => Settled(s)'
    BY Zenon, <1>5, <1>6, <2>3, <2>4 DEF Inv, CheckpointsInv, Settled
  <2>7. Complete(Latest) => Founded(W, Latest.data, Latest.mark)'
    BY Zenon, <2>1, <2>3, <2>5 DEF Founded
  <2>8. \A i \in DOMAIN checkpoints : Complete(checkpoints[i]) =>
           checkpoints[i].mark <= Latest.mark \/ ~Complete(Latest)
    BY Zenon DEF Inv, CheckpointsInv
  <2> QED BY Zenon, <1>0, <2>1, <2>2, <2>3, <2>6, <2>7, <2>8 DEF CheckpointsInv, Complete
<1>16. UnderWay(W)'
  <2> SUFFICES ASSUME mark # NoMark PROVE UnderWay(W)'
    BY Zenon, <1>0 DEF UnderWay
  <2>1. PICK d, m : d = Latest.data /\ m = mark
    BY Zenon
  <2>2. UnderWay(V) /\ m <= watermark /\ m \in Int
    BY Zenon, <1>0, <2>1, Numbers DEF Inv, UnderWay
  <2>3. m < q
    BY SMTT(40), <1>0, <1>5, <2>2, Numbers
  <2>4. Founded(W, d, m)' /\ \A k \in Latest.copied : CoversKey(W, d, m, k)'
    <3>1. Founded(V, d, m) /\ \A k \in Latest.copied : CoversKey(V, d, m, k)
      BY Zenon, <2>1, <2>2 DEF UnderWay
    <3>2. Founded(W, d, m)'
      BY Zenon, <1>0, <1>1, <1>8, <1>10, <2>2, <2>3, <3>1, FoundedNew
    <3>3. ASSUME NEW k \in Latest.copied PROVE CoversKey(W, d, m, k)'
      <4>1. \A s \in Slot : s # q => log'[s] = log[s]
        BY Zenon, <1>6
      <4> QED BY Zenon, <1>5, <1>8, <2>2, <2>3, <3>1, <4>1, CoversNew
    <3> QED BY Zenon, <3>2, <3>3
  <2>5. Latest' = Latest /\ Latest'.data = d /\ Latest'.copied = Latest.copied /\ mark' = m
    BY Zenon, <1>0, <2>1 DEF Latest
  <2>6. Founded(W, Latest.data, mark)'
    BY Zenon, <2>4, <2>5 DEF Founded
  <2>7. ASSUME NEW k \in Latest.copied PROVE CoversKey(W, Latest.data, mark, k)'
    BY Zenon, <2>4, <2>5 DEF CoversKey
  <2> QED BY Zenon, <1>0, <2>1, <2>2, <2>5, <2>6, <2>7 DEF UnderWay, Serving
<1>17. KeyspacesInv(W)'
  <2>1. PICK d, m : d = kv /\ m = IF mark = NoMark THEN watermark ELSE mark
    BY Zenon
  <2>2. m <= watermark /\ m \in Int
    <3>1. mark # NoMark => mark <= watermark
      BY Zenon DEF Inv, UnderWay
    <3> QED BY <1>0, <2>1, <3>1, Numbers
  <2>3. m < q
    BY SMTT(40), <1>0, <1>5, <2>2, Numbers
  <2>4. Founded(W, d, m)'
    BY Zenon, <1>0, <1>1, <1>8, <1>10, <2>1, <2>2, <2>3, FoundedNew DEF Inv, KeyspacesInv, Serving
  <2> QED BY Zenon, <1>0, <2>1, <2>4 DEF KeyspacesInv, Founded
<1>18. ReplayInv'
  BY Zenon, <1>0 DEF ReplayInv
<1>19. Inv(W)'
  BY Zenon, <1>4, <1>8, <1>9, <1>11, <1>13, <1>14, <1>15, <1>16, <1>17, <1>18 DEF Inv
<1> QED BY Zenon, <1>8, <1>19

-----------------------------------------------------------------------------
(* The steps of the checkpointer.                                            *)

\* The commits go on as they are, and may begin once the database is loaded.
LEMMA CheckpointerFrame ==
  ASSUME NEW V, Inv(V), TypeOK', Serving, mode' \in {mode, "up"},
         UNCHANGED <<protocolVars, wal, synced, replayed, promised>>
  PROVE  LogInv' /\ Verdict(V)' /\ Agrees(V)' /\ SlotsInv' /\ (\A t \in Txn : PhaseInv(t)') /\ Owned'
         /\ ReplayInv' /\ Safe /\ Serving'
<1>0. TypeOK /\ SlotsInv
      /\ UNCHANGED <<wal, synced, nextSeq, log, statuses, kv, status, watermark, phase, open, seq,
                     reinsert, replayed, promised>>
  BY Zenon DEF Inv, protocolVars
<1>1. Safe /\ Grows
  <2>1. synced' \in synced..Len(wal)
    BY <1>0 DEF TypeOK
  <2> QED BY Zenon, <1>0, <2>1, SafeSame DEF Grows
<1>2. LogInv' /\ Verdict(V)' /\ Agrees(V)'
  BY Zenon, <1>0, <1>1, LogSame, VerdictSame, AgreesSame DEF Inv
<1>3. mode' # "replaying" /\ Serving' /\ (mode' = "loading" => mode = "loading")
      /\ (mode' = "up" => mode = "up" \/ mode = "loading")
  BY Zenon DEF Serving
<1>4. ASSUME NEW t \in Txn PROVE PhaseInv(t)'
  <2>1. CASE mode' = mode
    BY Zenon, <1>0, <1>1, <2>1, PhaseKept DEF Inv, PhaseInv
  <2>2. CASE mode' # mode
    <3>1. seq[t] = 0 /\ phase[t] \in {"idle", "returned", "gone"}
      BY Zenon, <2>2 DEF Inv, PhaseInv
    <3> QED BY Zenon, <1>0, <3>1 DEF PhaseInv
  <2> QED BY Zenon, <2>1, <2>2
<1>5. SlotsInv'
  <2>1. ASSUME NEW s \in Slot PROVE (Whole(kv, s) => Whole(kv, s)') /\ (Settled(s) => Settled(s)')
    BY Zenon, <1>0 DEF Whole, Settled
  <2> QED BY Zenon, <1>0, <1>3, <2>1 DEF SlotsInv
<1>6. Owned'
  <2>1. mode = "loading" => \A s \in Slot : ~(watermark < s /\ s < nextSeq)
    <3>1. mode = "loading" => watermark = nextSeq - 1
      BY Zenon, <1>0 DEF SlotsInv
    <3> QED BY <1>0, <3>1, Numbers
  <2> QED BY Zenon, <1>0, <1>3, <2>1 DEF Inv, Owned
<1>7. ReplayInv'
  BY Zenon, <1>3 DEF ReplayInv
<1> QED BY Zenon, <1>1, <1>2, <1>3, <1>4, <1>5, <1>6, <1>7

\* The newest directory is changed to c.
LEMMA LatestChanged ==
  ASSUME TypeOK, checkpoints # <<>>, NEW c \in Directory,
         checkpoints' = [checkpoints EXCEPT ![Len(checkpoints)] = c]
  PROVE  /\ checkpoints' \in Seq(Directory) /\ checkpoints' # <<>> /\ Latest' = c
         /\ DOMAIN checkpoints' = DOMAIN checkpoints
         /\ \A i \in DOMAIN checkpoints : checkpoints'[i] = checkpoints[i] \/ checkpoints'[i] = c
<1>1. checkpoints \in Seq(Directory) /\ Len(checkpoints) \in Nat /\ Len(checkpoints) \in 1..Len(checkpoints)
  BY DEF TypeOK
<1>2. /\ checkpoints' \in Seq(Directory) /\ Len(checkpoints') = Len(checkpoints)
      /\ DOMAIN checkpoints' = DOMAIN checkpoints
      /\ checkpoints'[Len(checkpoints)] = c
      /\ \A i \in DOMAIN checkpoints : checkpoints'[i] = checkpoints[i] \/ checkpoints'[i] = c
  BY <1>1
<1>3. checkpoints' # <<>>
  BY <1>1, <1>2
<1> QED BY Zenon, <1>2, <1>3 DEF Latest

\* Checkpoint::new: an empty directory, and the watermark that the checkpoint will have.
LEMMA BeginStep ==
  ASSUME NEW V, Inv(V), BeginCheckpoint
  PROVE  Inv(V)'
<1> USE DEF logFileVars, checkpointVars, replayVars
<1>0. TypeOK /\ Serving /\ mark = NoMark /\ mark' = watermark
      /\ UNCHANGED <<protocolVars, wal, synced, prev, mode, at, replayed, bare, crashes, promised>>
      /\ UNCHANGED <<nextSeq, log, statuses, kv, status, watermark, phase, open, seq, reinsert>>
  BY Zenon DEF Inv, BeginCheckpoint, Serving, protocolVars
<1>1. PICK c : c = NewCheckpoint(NoMark, {}) /\ checkpoints' = Append(checkpoints, c)
  BY Zenon DEF BeginCheckpoint
<1>2. c \in Directory /\ c.mark = NoMark /\ c.copied = {} /\ \A k \in Key : c.data[k] = {}
  BY Zenon, <1>1 DEF NewCheckpoint, Directory
<1>3. /\ checkpoints' \in Seq(Directory) /\ checkpoints' # <<>> /\ Latest' = c
      /\ \A i \in DOMAIN checkpoints' : \/ i \in DOMAIN checkpoints /\ checkpoints'[i] = checkpoints[i]
                                        \/ checkpoints'[i] = c
  <2>1. checkpoints \in Seq(Directory) /\ Len(checkpoints) \in Nat
    BY <1>0 DEF TypeOK
  <2>2. /\ checkpoints' \in Seq(Directory) /\ checkpoints' # <<>>
        /\ checkpoints'[Len(checkpoints')] = c
        /\ \A i \in DOMAIN checkpoints' : \/ i \in DOMAIN checkpoints /\ checkpoints'[i] = checkpoints[i]
                                          \/ checkpoints'[i] = c
    BY <1>1, <1>2, <2>1
  <2> QED BY Zenon, <2>2 DEF Latest
<1>4. TypeOK'
  BY Zenon, <1>0, <1>3 DEF TypeOK
<1>5. NoMark <= watermark /\ watermark <= watermark' /\ watermark # NoMark
      /\ \A s \in Slot : ~(s <= NoMark)
  BY <1>0, Numbers DEF NoMark
<1>6. /\ LogInv' /\ Verdict(V)' /\ Agrees(V)' /\ SlotsInv' /\ (\A t \in Txn : PhaseInv(t)') /\ Owned'
      /\ ReplayInv' /\ Safe /\ Serving'
  BY Zenon, <1>0, <1>4, CheckpointerFrame
<1>7. \A i \in DOMAIN checkpoints' : checkpoints'[i].mark <= watermark
  <2>1. mode \in {"up", "loading", "replaying"}
    BY Zenon, <1>0 DEF Serving
  <2> QED BY Zenon, <1>2, <1>3, <1>5, <2>1 DEF Inv, CheckpointsInv
<1>8. CheckpointsInv(V)'
  <2>1. ASSUME NEW i \in DOMAIN checkpoints', Complete(checkpoints'[i])
        PROVE  \A k \in Key : CoversKey(V, checkpoints[i].data, checkpoints[i].mark, k)'
    <3>1. i \in DOMAIN checkpoints /\ checkpoints'[i] = checkpoints[i]
      BY Zenon, <1>2, <1>3, <2>1 DEF Complete
    <3>2. PICK d, m : d = checkpoints[i].data /\ m = checkpoints[i].mark
      BY Zenon
    <3>3. \A k \in Key : CoversKey(V, d, m, k)'
      BY Zenon, <1>0, <2>1, <3>1, <3>2, CoversSame DEF Inv, CheckpointsInv
    <3>4. checkpoints'[i].data = d /\ checkpoints'[i].mark = m
      BY Zenon, <3>1, <3>2
    <3> QED BY Zenon, <3>3, <3>4 DEF CoversKey
  <2> QED BY Zenon, <1>0, <1>2, <1>3, <1>5, <1>7, <2>1 DEF CheckpointsInv, Complete
<1>9. UnderWay(V)'
  <2>1. Founded(V, Latest.data, mark)'
    BY Zenon, <1>2, <1>3 DEF Founded
  <2> QED BY Zenon, <1>0, <1>2, <1>3, <1>5, <1>6, <1>7, <2>1 DEF UnderWay
<1>10. KeyspacesInv(V)'
  <2>1. PICK d, m : d = kv /\ m = watermark
    BY Zenon
  <2>2. Founded(V, d, m)'
    BY Zenon, <1>0, <1>6, <2>1, FoundedKept DEF Inv, KeyspacesInv
  <2> QED BY Zenon, <1>0, <1>5, <2>1, <2>2 DEF KeyspacesInv, Founded
<1> QED BY Zenon, <1>4, <1>6, <1>8, <1>9, <1>10 DEF Inv

\* What the copy of a keyspace has is covered.
LEMMA CopyCovers ==
  ASSUME NEW V, Inv(V), Serving, NEW m \in Int, m <= watermark, NEW k \in Key
  PROVE  CoversKey(V, kv, m, k)
<1>1. SUFFICES ASSUME NEW s \in V, s <= m, log[s].ops.writes[k].op \in {"Insert", "Delete"}
               PROVE  \E v \in kv[k] : v.seq = s /\ v.op = log[s].ops.writes[k].op
  BY Zenon DEF CoversKey
<1>2. s \in Slot /\ s < nextSeq
  BY Zenon DEF Inv, Verdict
<1>3. s <= watermark
  <2>1. watermark \in Int /\ s \in Int
    BY Zenon, <1>2, Numbers DEF Inv
  <2> QED BY <1>1, <2>1
<1>4. status[s] = "Applied"
  BY Zenon, <1>2, <1>3 DEF Inv, SlotsInv, Settled, Agrees
<1> QED BY ZenonT(40), <1>1, <1>2, <1>4 DEF Inv, SlotsInv, Whole

\* Keyspaces::checkpoint: one more keyspace is copied.
LEMMA CopyStep ==
  ASSUME NEW V, Inv(V), NEW k \in Key, CopyKeyspace(k)
  PROVE  Inv(V)'
<1> USE DEF logFileVars, checkpointVars, replayVars
<1>0. TypeOK /\ Serving /\ mark # NoMark /\ Latest.mark = NoMark
      /\ UNCHANGED <<protocolVars, wal, synced, prev, mark, mode, at, replayed, bare, crashes, promised>>
      /\ UNCHANGED <<nextSeq, log, statuses, kv, status, watermark, phase, open, seq, reinsert>>
  BY Zenon DEF Inv, CopyKeyspace, Copying, Serving, protocolVars
<1>1. UnderWay(V) /\ checkpoints # <<>>
  BY Zenon, <1>0 DEF Inv, UnderWay
<1>2. PICK c, d : /\ d = [Latest.data EXCEPT ![k] = kv[k]]
                  /\ c = [mark |-> NoMark, copied |-> Latest.copied \cup {k}, data |-> d]
  BY Zenon
<1>3. c \in Directory /\ c.mark = NoMark /\ c.copied = Latest.copied \cup {k} /\ c.data = d
      /\ d[k] = kv[k] /\ \A l \in Key : l # k => d[l] = Latest.data[l]
  <2>1. Latest \in Directory /\ kv[k] \subseteq Version
    BY Zenon, <1>0, LatestType DEF TypeOK
  <2>2. Latest.data \in [Key -> SUBSET Version] /\ Latest.copied \subseteq Key
    BY Zenon, <2>1 DEF Directory
  <2>3. d \in [Key -> SUBSET Version] /\ d[k] = kv[k] /\ \A l \in Key : l # k => d[l] = Latest.data[l]
    BY Zenon, <1>2, <2>1, <2>2
  <2>4. c.mark = NoMark /\ c.copied = Latest.copied \cup {k} /\ c.data = d
    BY Zenon, <1>2
  <2>5. c \in Directory
    BY Zenon, <1>2, <2>2, <2>3 DEF Directory
  <2> QED BY Zenon, <2>3, <2>4, <2>5
<1>4. checkpoints' = [checkpoints EXCEPT ![Len(checkpoints)] = c]
  BY Zenon, <1>2 DEF CopyKeyspace
<1>5. /\ checkpoints' \in Seq(Directory) /\ checkpoints' # <<>> /\ Latest' = c
      /\ DOMAIN checkpoints' = DOMAIN checkpoints
      /\ \A i \in DOMAIN checkpoints : checkpoints'[i] = checkpoints[i] \/ checkpoints'[i] = c
  BY Zenon, <1>0, <1>1, <1>3, <1>4, LatestChanged
<1>6. TypeOK'
  BY Zenon, <1>0, <1>5 DEF TypeOK
<1>7. NoMark <= watermark /\ NoMark <= mark /\ watermark <= watermark' /\ \A s \in Slot : ~(s <= NoMark)
  <2>1. mark \in {NoMark} \cup Marks
    BY Zenon, <1>0 DEF TypeOK
  <2> QED BY <1>0, <2>1, Numbers DEF NoMark, Marks
<1>8. /\ LogInv' /\ Verdict(V)' /\ Agrees(V)' /\ SlotsInv' /\ (\A t \in Txn : PhaseInv(t)') /\ Owned'
      /\ ReplayInv' /\ Safe /\ Serving'
  BY Zenon, <1>0, <1>6, CheckpointerFrame
<1>9. \A i \in DOMAIN checkpoints' : checkpoints'[i].mark <= watermark /\ checkpoints'[i].mark <= mark
  <2>1. mode \in {"up", "loading", "replaying"}
    BY Zenon, <1>0 DEF Serving
  <2> QED BY Zenon, <1>0, <1>1, <1>3, <1>5, <1>7, <2>1 DEF Inv, CheckpointsInv, UnderWay
<1>10. CheckpointsInv(V)'
  <2>1. ASSUME NEW i \in DOMAIN checkpoints', Complete(checkpoints'[i])
        PROVE  \A l \in Key : CoversKey(V, checkpoints[i].data, checkpoints[i].mark, l)'
    <3>1. i \in DOMAIN checkpoints /\ checkpoints'[i] = checkpoints[i]
      BY Zenon, <1>3, <1>5, <2>1 DEF Complete
    <3>2. PICK e, m : e = checkpoints[i].data /\ m = checkpoints[i].mark
      BY Zenon
    <3>3. \A l \in Key : CoversKey(V, e, m, l)'
      BY Zenon, <1>0, <2>1, <3>1, <3>2, CoversSame DEF Inv, CheckpointsInv
    <3>4. checkpoints'[i].data = e /\ checkpoints'[i].mark = m
      BY Zenon, <3>1, <3>2
    <3> QED BY Zenon, <3>3, <3>4 DEF CoversKey
  <2> QED BY Zenon, <1>0, <1>3, <1>5, <1>7, <1>9, <2>1 DEF CheckpointsInv, Complete
<1>11. UnderWay(V)'
  <2>1. PICK m : m = mark
    BY Zenon
  <2>2. m \in Int /\ m <= watermark /\ Founded(V, kv, m) /\ Founded(V, Latest.data, m)
        /\ \A l \in Latest.copied : CoversKey(V, Latest.data, m, l)
    BY Zenon, <1>0, <1>1, <2>1, Numbers DEF Inv, UnderWay, KeyspacesInv
  <2>3. Founded(V, d, m)
    BY Zenon, <1>3, <2>2 DEF Founded
  <2>4. ASSUME NEW l \in c.copied PROVE CoversKey(V, d, m, l)
    <3>1. CASE l = k
      <4>1. CoversKey(V, kv, m, k)
        BY Zenon, <1>0, <2>2, CopyCovers
      <4> QED BY Zenon, <1>3, <3>1, <4>1 DEF CoversKey
    <3>2. CASE l # k
      <4>1. l \in Latest.copied /\ l \in Key
        <5>1. Latest \in Directory
          BY Zenon, <1>0, LatestType
        <5>2. Latest.copied \subseteq Key
          BY Zenon, <5>1 DEF Directory
        <5> QED BY Zenon, <1>3, <2>4, <3>2, <5>2
      <4>2. d[l] = Latest.data[l] /\ CoversKey(V, Latest.data, m, l)
        BY Zenon, <1>3, <2>2, <3>2, <4>1
      <4> QED BY Zenon, <4>2 DEF CoversKey
    <3> QED BY Zenon, <3>1, <3>2
  <2>5. Founded(V, d, m)' /\ \A l \in c.copied : CoversKey(V, d, m, l)'
    BY Zenon, <1>0, <1>8, <2>3, <2>4, FoundedKept, CoversSame
  <2>6. Founded(V, Latest.data, mark)' /\ \A l \in Latest'.copied : CoversKey(V, Latest.data, mark, l)'
    <3>1. Latest'.data = d /\ Latest'.copied = c.copied /\ mark' = m
      BY Zenon, <1>0, <1>3, <1>5, <2>1
    <3>2. Founded(V, Latest.data, mark)'
      BY Zenon, <2>5, <3>1 DEF Founded
    <3>3. ASSUME NEW l \in c.copied PROVE CoversKey(V, Latest.data, mark, l)'
      BY Zenon, <2>5, <3>1 DEF CoversKey
    <3> QED BY Zenon, <3>1, <3>2, <3>3
  <2> QED BY Zenon, <1>0, <1>3, <1>5, <1>8, <1>9, <2>1, <2>2, <2>6 DEF UnderWay
<1>12. KeyspacesInv(V)'
  BY Zenon, <1>0, <1>6, <1>7, <1>8, KeyspacesSame DEF Inv
<1> QED BY Zenon, <1>6, <1>8, <1>10, <1>11, <1>12 DEF Inv

\* STORAGE_METADATA is written once every keyspace is copied.
LEMMA MetadataStep ==
  ASSUME NEW V, Inv(V), WriteMetadata
  PROVE  Inv(V)'
<1> USE DEF logFileVars, checkpointVars, replayVars
<1>0. TypeOK /\ Serving /\ mark # NoMark /\ Latest.mark = NoMark /\ Latest.copied = Key
      /\ UNCHANGED <<protocolVars, wal, synced, prev, mark, mode, at, replayed, bare, crashes, promised>>
      /\ UNCHANGED <<nextSeq, log, statuses, kv, status, watermark, phase, open, seq, reinsert>>
  BY Zenon DEF Inv, WriteMetadata, Copying, Serving, protocolVars
<1>1. UnderWay(V) /\ checkpoints # <<>>
  BY Zenon, <1>0 DEF Inv, UnderWay
<1>2. PICK c, d, m : /\ d = Latest.data /\ m = mark
                     /\ c = [mark |-> m, copied |-> Key, data |-> d]
  BY Zenon
<1>3. c \in Directory /\ c.mark = m /\ c.copied = Key /\ c.data = d
  <2>1. Latest \in Directory /\ mark \in {NoMark} \cup Marks
    BY Zenon, <1>0, LatestType DEF TypeOK
  <2> QED BY Zenon, <1>2, <2>1 DEF Directory
<1>4. checkpoints' = [checkpoints EXCEPT ![Len(checkpoints)] = c]
  BY Zenon, <1>2 DEF WriteMetadata
<1>5. /\ checkpoints' \in Seq(Directory) /\ checkpoints' # <<>> /\ Latest' = c
      /\ DOMAIN checkpoints' = DOMAIN checkpoints
      /\ \A i \in DOMAIN checkpoints : checkpoints'[i] = checkpoints[i] \/ checkpoints'[i] = c
  BY Zenon, <1>0, <1>1, <1>3, <1>4, LatestChanged
<1>6. TypeOK'
  BY Zenon, <1>0, <1>5 DEF TypeOK
<1>7. /\ m \in Int /\ m <= watermark /\ m <= m /\ m # NoMark /\ watermark <= watermark'
      /\ \A s \in Slot : s <= m => s <= watermark
  <2>1. mark <= watermark
    BY Zenon, <1>0, <1>1 DEF UnderWay
  <2> QED BY <1>0, <1>2, <2>1, Numbers
<1>8. /\ LogInv' /\ Verdict(V)' /\ Agrees(V)' /\ SlotsInv' /\ (\A t \in Txn : PhaseInv(t)') /\ Owned'
      /\ ReplayInv' /\ Safe /\ Serving'
  BY Zenon, <1>0, <1>6, CheckpointerFrame
<1>9. \A i \in DOMAIN checkpoints' : checkpoints'[i].mark <= watermark /\ checkpoints'[i].mark <= m
  <2>1. mode \in {"up", "loading", "replaying"}
    BY Zenon, <1>0 DEF Serving
  <2> QED BY Zenon, <1>0, <1>1, <1>2, <1>3, <1>5, <1>7, <2>1 DEF Inv, CheckpointsInv, UnderWay
<1>10. Founded(V, d, m)' /\ \A k \in Key : CoversKey(V, d, m, k)'
  BY Zenon, <1>0, <1>1, <1>2, <1>8, FoundedKept, CoversSame DEF UnderWay
<1>11. Founded(V, Latest.data, mark)' /\ \A k \in Key : CoversKey(V, Latest.data, mark, k)'
  <2>1. Latest'.data = d /\ mark' = m
    BY Zenon, <1>0, <1>2, <1>3, <1>5
  <2> QED BY Zenon, <1>10, <2>1 DEF Founded, CoversKey
<1>12. CheckpointsInv(V)'
  <2>1. ASSUME NEW i \in DOMAIN checkpoints', Complete(checkpoints'[i])
        PROVE  \A k \in Key : CoversKey(V, checkpoints[i].data, checkpoints[i].mark, k)'
    <3>1. PICK e, n : e = checkpoints'[i].data /\ n = checkpoints'[i].mark
      BY Zenon
    <3>2. \A k \in Key : CoversKey(V, e, n, k)'
      <4>1. CASE checkpoints'[i] = c
        BY Zenon, <1>3, <1>10, <3>1, <4>1
      <4>2. CASE checkpoints'[i] = checkpoints[i]
        BY Zenon, <1>0, <1>5, <2>1, <3>1, <4>2, CoversSame DEF Inv, CheckpointsInv
      <4> QED BY Zenon, <1>5, <2>1, <4>1, <4>2
    <3> QED BY Zenon, <3>1, <3>2 DEF CoversKey
  <2>2. \A s \in Slot : s <= m /\ s < nextSeq => Settled(s)'
    BY Zenon, <1>0, <1>7 DEF Inv, SlotsInv, Settled
  <2>3. Founded(V, Latest.data, Latest.mark)'
    BY Zenon, <1>0, <1>2, <1>3, <1>5, <1>11 DEF Founded
  <2> QED BY Zenon, <1>0, <1>3, <1>5, <1>9, <2>1, <2>2, <2>3 DEF CheckpointsInv
<1>13. UnderWay(V)'
  BY Zenon, <1>0, <1>2, <1>3, <1>5, <1>7, <1>8, <1>9, <1>11 DEF UnderWay
<1>14. KeyspacesInv(V)'
  BY Zenon, <1>0, <1>6, <1>7, <1>8, KeyspacesSame DEF Inv
<1> QED BY Zenon, <1>6, <1>8, <1>12, <1>13, <1>14 DEF Inv

\* Checkpoint::finish leaves the new directory alone.
LEMMA FinishStep ==
  ASSUME NEW V, Inv(V), FinishCheckpoint
  PROVE  Inv(V)'
<1> USE DEF logFileVars, checkpointVars, replayVars
<1>0. TypeOK /\ mark # NoMark /\ Latest.mark = mark /\ mark' = NoMark /\ mode' = "up"
      /\ prev' \in {mark, prev}
      /\ UNCHANGED <<protocolVars, wal, synced, at, replayed, bare, crashes, promised>>
      /\ UNCHANGED <<nextSeq, log, statuses, kv, status, watermark, phase, open, seq, reinsert>>
  BY Zenon DEF Inv, FinishCheckpoint, protocolVars
<1>1. UnderWay(V) /\ Serving /\ checkpoints # <<>> /\ mark <= watermark
  BY Zenon, <1>0 DEF Inv, UnderWay
<1>2. PICK c, m : c = Latest /\ m = mark /\ checkpoints' = <<c>>
  BY Zenon DEF FinishCheckpoint
<1>3. /\ checkpoints' \in Seq(Directory) /\ checkpoints' # <<>> /\ Latest' = c
      /\ \A i \in DOMAIN checkpoints' : checkpoints'[i] = c
  <2>1. c \in Directory
    BY Zenon, <1>0, <1>2, LatestType
  <2>2. /\ checkpoints' \in Seq(Directory) /\ checkpoints' # <<>>
        /\ checkpoints'[Len(checkpoints')] = c
        /\ \A i \in DOMAIN checkpoints' : checkpoints'[i] = c
    BY <1>2, <2>1
  <2> QED BY Zenon, <2>2 DEF Latest
<1>4. prev' \in Marks /\ mark' \in {NoMark} \cup Marks /\ m \in Int /\ m <= m /\ watermark <= watermark'
      /\ watermark \in Int
  <2>1. mark \in {NoMark} \cup Marks /\ prev \in Marks /\ mark \in Marks
    BY Zenon, <1>0 DEF TypeOK
  <2> QED BY <1>0, <1>2, <2>1, Numbers
<1>5. TypeOK'
  BY Zenon, <1>0, <1>3, <1>4 DEF TypeOK
<1>6. /\ LogInv' /\ Verdict(V)' /\ Agrees(V)' /\ SlotsInv' /\ (\A t \in Txn : PhaseInv(t)') /\ Owned'
      /\ ReplayInv' /\ Safe /\ Serving'
  BY Zenon, <1>0, <1>1, <1>5, CheckpointerFrame
<1>7. CheckpointsInv(V)'
  <2>1. Len(checkpoints) \in DOMAIN checkpoints /\ c = checkpoints[Len(checkpoints)] /\ Complete(c)
    BY Zenon, <1>0, <1>1, <1>2, LatestType DEF Complete
  <2>2. PICK d : d = c.data
    BY Zenon
  <2>3. /\ \A k \in Key : CoversKey(V, d, m, k)
        /\ Founded(V, d, m) /\ \A s \in Slot : s <= m /\ s < nextSeq => Settled(s)
    BY Zenon, <1>0, <1>2, <2>1, <2>2 DEF Inv, CheckpointsInv
  <2>4. (\A k \in Key : CoversKey(V, d, m, k)') /\ Founded(V, d, m)'
    BY Zenon, <1>0, <1>6, <2>3, CoversSame, FoundedKept
  <2>5. ASSUME NEW i \in DOMAIN checkpoints'
        PROVE  \A k \in Key : CoversKey(V, checkpoints[i].data, checkpoints[i].mark, k)'
    <3>1. checkpoints'[i].data = d /\ checkpoints'[i].mark = m
      BY Zenon, <1>0, <1>2, <1>3, <2>2, <2>5
    <3> QED BY Zenon, <2>4, <3>1 DEF CoversKey
  <2>6. Founded(V, Latest.data, Latest.mark)'
    BY Zenon, <1>0, <1>2, <1>3, <2>2, <2>4 DEF Founded
  <2>7. \A s \in Slot : s <= m /\ s < nextSeq => Settled(s)'
    BY Zenon, <1>0, <2>3 DEF Settled
  <2> QED BY Zenon, <1>0, <1>1, <1>2, <1>3, <1>4, <2>5, <2>6, <2>7 DEF CheckpointsInv
<1>8. UnderWay(V)'
  BY Zenon, <1>0 DEF UnderWay
<1>9. KeyspacesInv(V)'
  <2>1. PICK d, w : d = kv /\ w = watermark
    BY Zenon
  <2>2. Founded(V, d, m)
    BY Zenon, <1>0, <1>1, <1>2, <2>1 DEF Inv, KeyspacesInv
  <2>3. Founded(V, d, w)'
    <3>1. Founded(V, d, w)
      BY Zenon, <1>1, <1>2, <1>4, <2>1, <2>2, FoundedHigher
    <3> QED BY Zenon, <1>0, <1>6, <3>1, FoundedKept
  <2> QED BY Zenon, <1>0, <2>1, <2>3 DEF KeyspacesInv, Founded
<1> QED BY Zenon, <1>5, <1>6, <1>7, <1>8, <1>9 DEF Inv

-----------------------------------------------------------------------------
(* The crash.                                                                *)

\* What is left of the log has the commits up to the last one left.
LEMMA LogCrash ==
  ASSUME TypeOK, LogInv, NEW n \in synced..Len(wal), wal' = SubSeq(wal, 1, n),
         NEW last \in {First - 1} \cup Commits(wal'), \A s \in Commits(wal') : s <= last,
         nextSeq' = last + 1
  PROVE  /\ wal' \in Seq({"commit", "status"} \X Slot) /\ synced \in 0..Len(wal')
         /\ nextSeq' \in First..(MaxSeq + 1)
         /\ Index' \subseteq Index /\ \A m \in Index' : wal'[m] = wal[m] /\ 1..m \subseteq Index'
         /\ \A s \in Slot : /\ s < nextSeq' => s < nextSeq
                            /\ s < nextSeq' <=> s \in Commits(wal')
                            /\ s \in Commits(wal') <=> \E m \in Index' : wal'[m] = <<"commit", s>>
                            /\ Has(wal', "status", s) => s < nextSeq'
<1>1. wal \in Seq({"commit", "status"} \X Slot) /\ synced \in 0..Len(wal) /\ Len(wal) \in Nat
  BY DEF TypeOK
<1>2. n \in Nat /\ n <= Len(wal) /\ synced \in 0..n
  BY <1>1
<1>3. /\ wal' \in Seq({"commit", "status"} \X Slot) /\ Len(wal') = n /\ DOMAIN wal' = 1..n
      /\ \A m \in 1..n : wal'[m] = wal[m]
  BY <1>1, <1>2
<1>4. /\ Index' = 1..n /\ Index' \subseteq Index
      /\ \A m \in Index' : wal'[m] = wal[m] /\ 1..m \subseteq Index'
      /\ \A m, i : m \in Index /\ i \in Index' /\ m < i => m \in Index'
  BY <1>2, <1>3 DEF Index
<1>5. \A s \in Slot : s \in Commits(wal') <=> \E m \in Index' : wal'[m] = <<"commit", s>>
  BY Zenon, <1>3, <1>4 DEF Commits, Has
<1>6. \A s \in Commits(wal') : s \in Slot /\ s < nextSeq
  <2>1. ASSUME NEW s \in Commits(wal') PROVE s \in Slot
    BY Zenon DEF Commits
  <2>2. ASSUME NEW s \in Commits(wal') PROVE \E m \in Index : wal[m] = <<"commit", s>>
    BY Zenon, <1>4, <1>5, <2>1
  <2> QED BY Zenon, <2>1, <2>2 DEF LogInv
<1>7. last \in Int /\ First - 1 <= last /\ last <= MaxSeq
      /\ \A s \in Slot : s < nextSeq' <=> s <= last
  <2>1. last = First - 1 \/ last \in Slot
    BY Zenon, <1>6
  <2> QED BY <2>1, Numbers DEF Slot
<1>8. ASSUME NEW s \in Slot, s <= last PROVE s \in Commits(wal')
  <2>1. last \in Commits(wal') /\ last \in Slot /\ last < nextSeq
    <3>1. last # First - 1
      BY <1>7, <1>8, Numbers DEF Slot
    <3> QED BY Zenon, <1>6, <3>1
  <2>2. CASE s = last
    BY Zenon, <2>1, <2>2
  <2>3. CASE s < last
    <3>1. s < nextSeq
      BY <1>7, <2>1, <2>3, Numbers
    <3>2. PICK m \in Index : wal[m] = <<"commit", s>>
      BY Zenon, <3>1 DEF LogInv
    <3>3. PICK i \in Index' : wal'[i] = <<"commit", last>>
      BY Zenon, <1>5, <2>1
    <3>4. m < i
      <4>1. i \in Index /\ wal[i] = <<"commit", last>>
        BY Zenon, <1>4, <3>3
      <4> QED BY Zenon, <2>1, <2>3, <3>2, <4>1 DEF LogInv
    <3> QED BY Zenon, <1>4, <1>5, <3>2, <3>3, <3>4
  <2> QED BY SMTT(40), <1>7, <1>8, <2>2, <2>3, Numbers
<1>9. ASSUME NEW s \in Slot, Has(wal', "status", s) PROVE s \in Commits(wal')
  <2>1. PICK i \in Index' : wal'[i] = <<"status", s>>
    BY Zenon, <1>3, <1>4, <1>9 DEF Has
  <2>2. PICK m \in 1..i : wal[m] = <<"commit", s>>
    BY ZenonT(40), <1>4, <2>1 DEF LogInv
  <2> QED BY Zenon, <1>4, <1>5, <2>1, <2>2
<1>10. nextSeq' \in First..(MaxSeq + 1)
  BY <1>7
<1>11. ASSUME NEW s \in Slot
       PROVE  /\ s < nextSeq' => s < nextSeq
              /\ s < nextSeq' <=> s \in Commits(wal')
              /\ Has(wal', "status", s) => s < nextSeq'
  BY Zenon, <1>6, <1>7, <1>8, <1>9
<1> QED BY Zenon, <1>2, <1>3, <1>4, <1>5, <1>10, <1>11

\* The server goes down at any point: the log that is left decides as before.
LEMMA CrashStep ==
  ASSUME NEW V, Inv(V), Crash
  PROVE  \E W \in SUBSET Slot : Inv(W)'
<1> USE DEF logFileVars, checkpointVars, replayVars
<1>0. TypeOK /\ mode' = "down" /\ mark' = NoMark /\ crashes' = crashes + 1
      /\ UNCHANGED <<synced, kv, status, watermark, checkpoints, prev, at, replayed, bare, promised>>
      /\ phase' = [t \in Txn |-> IF phase[t] \in {"idle", "returned"} THEN phase[t] ELSE "gone"]
      /\ open' = [t \in Txn |-> 0] /\ seq' = [t \in Txn |-> 0] /\ reinsert' = [t \in Txn |-> {}]
  BY Zenon DEF Inv, Crash
<1>1. PICK n \in synced..Len(wal) :
         /\ wal' = SubSeq(wal, 1, n)
         /\ \E last \in {First - 1} \cup Commits(wal') :
              (\A s \in Commits(wal') : s <= last) /\ nextSeq' = last + 1
         /\ log' = [s \in Slot |-> IF s \in Commits(wal') THEN log[s] ELSE NoRecord]
         /\ statuses' = [s \in Slot |-> IF Has(wal', "status", s) THEN statuses[s] ELSE "None"]
  BY Zenon DEF Crash
<1>2. /\ wal' \in Seq({"commit", "status"} \X Slot) /\ synced \in 0..Len(wal')
      /\ nextSeq' \in First..(MaxSeq + 1)
      /\ Index' \subseteq Index /\ \A m \in Index' : wal'[m] = wal[m] /\ 1..m \subseteq Index'
      /\ \A s \in Slot : /\ s < nextSeq' => s < nextSeq
                         /\ s < nextSeq' <=> s \in Commits(wal')
                         /\ s \in Commits(wal') <=> \E m \in Index' : wal'[m] = <<"commit", s>>
                         /\ Has(wal', "status", s) => s < nextSeq'
  BY Zenon, <1>0, <1>1, LogCrash DEF Inv
<1>3. \A s \in Slot : /\ s < nextSeq' => log'[s] = log[s]
                      /\ ~(s < nextSeq') => log'[s] = NoRecord
                      /\ statuses'[s] # "None" => statuses'[s] = statuses[s] /\ s < nextSeq'
  BY Zenon, <1>1, <1>2
<1>4. Safe /\ \A s \in Slot : Synced(s) => Synced(s)' /\ s < nextSeq'
  <2>1. Safe
    BY Zenon, <1>0, <1>1, SafeCrash
  <2>2. 1..synced \subseteq Index'
    BY <1>2 DEF Index
  <2>3. \A s \in Slot : Synced(s)' => s < nextSeq'
    BY Zenon, <1>0, <1>2, <2>2 DEF Synced
  <2> QED BY Zenon, <2>1, <2>3 DEF Safe
<1>5. PICK W : W = {s \in V : s < nextSeq'}
  BY Zenon
<1>6. W \in SUBSET Slot /\ \A s \in V : s \in Slot
  BY Zenon, <1>5 DEF Inv, Verdict
<1>7. \A s : s \in W <=> s \in V /\ s < nextSeq'
  BY Zenon, <1>5
<1>8. TypeOK'
  <2>1. phase' \in [Txn -> {"idle", "open", "sequenced", "validated", "written", "applied",
                            "aborted", "returned", "gone"}]
    BY Zenon, <1>0
  <2>2. /\ open' \in [Txn -> Nat] /\ seq' \in [Txn -> Slot \cup {0}]
        /\ reinsert' \in [Txn -> SUBSET Key]
    BY Zenon, <1>0
  <2>3. log' \in [Slot -> Record \cup {NoRecord}] /\ statuses' \in [Slot -> Outcome]
    BY Zenon, <1>0, <1>1 DEF TypeOK, Outcome
  <2>4. crashes' \in Nat
    BY <1>0 DEF TypeOK
  <2> QED BY Zenon, <1>0, <1>2, <2>1, <2>2, <2>3, <2>4 DEF TypeOK
<1>9. LogInv'
  <2>1. LogInv
    BY Zenon DEF Inv
  <2>2. ASSUME NEW m \in Index', NEW i \in Index', NEW r \in Slot, NEW s \in Slot,
               wal'[m] = <<"commit", r>>, wal'[i] = <<"commit", s>>, r < s
        PROVE  m < i
    <3>1. m \in Index /\ i \in Index /\ wal[m] = <<"commit", r>> /\ wal[i] = <<"commit", s>>
      BY Zenon, <1>2, <2>2
    <3> QED BY Zenon, <2>1, <2>2, <3>1 DEF LogInv
  <2>3. ASSUME NEW i \in Index', NEW s \in Slot, wal'[i] = <<"status", s>>
        PROVE  \E m \in 1..i : wal'[m] = <<"commit", s>>
    <3>1. PICK m \in 1..i : wal[m] = <<"commit", s>>
      BY ZenonT(40), <1>2, <2>1, <2>3 DEF LogInv
    <3> QED BY Zenon, <1>2, <2>3, <3>1
  <2>4. ASSUME NEW s \in Slot
        PROVE  /\ s < nextSeq' <=> log'[s] # NoRecord
               /\ s < nextSeq' => log'[s].flags \subseteq Puts(log'[s].ops)
    BY Zenon, <1>2, <1>3, <2>1 DEF LogInv
  <2> QED BY Zenon, <1>2, <2>2, <2>3, <2>4 DEF LogInv
<1>10. Verdict(W)'
  <2>1. ASSUME NEW s \in Slot, s < nextSeq'
        PROVE  s \in W <=> \A i \in Concurrent(s)' : i \in W => ~Clashes(s, i)'
    <3>1. log'[s] = log[s] /\ s < nextSeq
      BY Zenon, <1>2, <1>3, <2>1
    <3>2. Concurrent(s)' = Concurrent(s)
      BY Zenon, <3>1 DEF Concurrent
    <3>3. ASSUME NEW i \in Concurrent(s) PROVE i < nextSeq' /\ i \in Slot
      <4>1. i \in Slot /\ i < s
        BY Zenon DEF Concurrent
      <4>2. nextSeq' \in Int
        BY <1>2
      <4> QED BY SMTT(40), <1>0, <2>1, <4>1, <4>2, Numbers
    <3>4. \A i \in Concurrent(s) : (i \in W <=> i \in V) /\ (Clashes(s, i)' <=> Clashes(s, i))
      BY Zenon, <1>3, <1>7, <3>1, <3>3 DEF Clashes
    <3> QED BY Zenon, <1>7, <2>1, <3>1, <3>2, <3>4 DEF Inv, Verdict
  <2> QED BY Zenon, <1>6, <1>7, <2>1 DEF Verdict
<1>11. Agrees(W)'
  <2>1. ASSUME NEW r \in Slot
        PROVE  /\ statuses'[r] # "None" => r < nextSeq'
               /\ statuses'[r] = "Committed" => r \in W
               /\ statuses'[r] = "Rejected" => r \notin W
    BY Zenon, <1>3, <1>7 DEF Inv, Agrees
  <2>2. ASSUME NEW r \in Slot
        PROVE  /\ promised[r] # "None" => Synced(r)'
               /\ promised[r] = "Committed" => r \in W
               /\ promised[r] = "Rejected" => r \notin W
    BY Zenon, <1>4, <1>7 DEF Inv, Agrees
  <2>3. ASSUME NEW r \in Slot, r < nextSeq'
        PROVE  /\ status[r] \in {"Validated", "Applied"} => r \in W
               /\ status[r] = "Aborted" => r \notin W
    BY Zenon, <1>2, <1>7, <2>3 DEF Inv, Agrees
  <2> QED BY Zenon, <1>0, <2>1, <2>2, <2>3 DEF Agrees
<1>12. CheckpointsInv(W)'
  <2>1. Latest' = Latest
    BY Zenon, <1>0 DEF Latest
  <2>2. ASSUME NEW i \in DOMAIN checkpoints, Complete(checkpoints[i])
        PROVE  /\ \A k \in Key : CoversKey(W, checkpoints[i].data, checkpoints[i].mark, k)'
               /\ checkpoints[i].mark <= Latest.mark \/ ~Complete(Latest)
    <3>1. PICK d, m : d = checkpoints[i].data /\ m = checkpoints[i].mark
      BY Zenon
    <3>2. \A k \in Key : CoversKey(V, d, m, k)
      BY Zenon, <2>2, <3>1 DEF Inv, CheckpointsInv
    <3>3. \A k \in Key : CoversKey(W, d, m, k)'
      <4>1. \A s \in W : s \in V /\ log'[s] = log[s]
        BY Zenon, <1>3, <1>6, <1>7
      <4>2. ASSUME NEW k \in Key, NEW s \in W, s <= m, log'[s].ops.writes[k].op \in {"Insert", "Delete"}
            PROVE  \E v \in d[k] : v.seq = s /\ v.op = log'[s].ops.writes[k].op
        <5>1. PICK x : x = log[s].ops.writes[k].op /\ x = log'[s].ops.writes[k].op
          BY Zenon, <4>1
        <5>2. CoversKey(V, d, m, k) /\ s \in V /\ log[s].ops.writes[k].op \in {"Insert", "Delete"}
          BY Zenon, <3>2, <4>1, <4>2, <5>1
        <5>3. \E v \in d[k] : v.seq = s /\ v.op = log[s].ops.writes[k].op
          BY Zenon, <4>2, <5>2 DEF CoversKey
        <5> QED BY Zenon, <5>1, <5>3
      <4> QED BY Zenon, <4>2 DEF CoversKey
    <3>4. checkpoints'[i].data = d /\ checkpoints'[i].mark = m
      BY Zenon, <1>0, <3>1
    <3>5. \A k \in Key : CoversKey(W, checkpoints[i].data, checkpoints[i].mark, k)'
      BY Zenon, <3>3, <3>4 DEF CoversKey
    <3> QED BY Zenon, <2>2, <3>5 DEF Inv, CheckpointsInv
  <2>3. \A s \in Slot : s <= Latest.mark /\ s < nextSeq' => Settled(s)'
    BY Zenon, <1>0, <1>2 DEF Inv, CheckpointsInv, Settled
  <2>4. Complete(Latest) => Founded(W, Latest.data, Latest.mark)'
    <3>1. PICK d, m : d = Latest.data /\ m = Latest.mark
      BY Zenon
    <3>2. Complete(Latest) => Founded(V, d, m)
      BY Zenon, <3>1 DEF Inv, CheckpointsInv
    <3>3. ASSUME Complete(Latest), NEW k \in Key, NEW v \in d[k], v.seq \in Slot
          PROVE  \/ v.seq \in W /\ Synced(v.seq)'
                 \/ v.seq <= m /\ (v.seq < nextSeq' => v.seq \in W)
      BY Zenon, <1>2, <1>4, <1>7, <3>2, <3>3 DEF Founded
    <3>4. Complete(Latest) => Founded(W, d, m)'
      BY Zenon, <3>3 DEF Founded, Synced
    <3>5. Latest'.data = d /\ Latest'.mark = m
      BY Zenon, <2>1, <3>1
    <3> QED BY Zenon, <3>4, <3>5 DEF Founded
  <2> QED BY Zenon, <1>0, <2>1, <2>2, <2>3, <2>4 DEF CheckpointsInv, Complete
<1>13. ASSUME NEW t \in Txn PROVE PhaseInv(t)'
  BY Zenon, <1>0 DEF PhaseInv
<1>14. ~Serving' /\ Owned' /\ UnderWay(W)' /\ ReplayInv' /\ KeyspacesInv(W)'
  BY Zenon, <1>0 DEF Serving, Owned, UnderWay, ReplayInv, KeyspacesInv
<1>15. Inv(W)'
  BY Zenon, <1>8, <1>9, <1>10, <1>11, <1>12, <1>13, <1>14 DEF Inv
<1> QED BY Zenon, <1>6, <1>15

-----------------------------------------------------------------------------
(* The steps of the recovery.                                                *)

\* What loading leaves alone before the server is up.
LEMMA LoadFrame ==
  ASSUME NEW V, Inv(V), TypeOK', Safe, mode \in {"down", "replaying"}, mode' \in {"replaying", "failed"},
         UNCHANGED <<nextSeq, log, phase, seq, mark>>
  PROVE  /\ ~Serving /\ mark = NoMark /\ Verdict(V)' /\ (\A t \in Txn : PhaseInv(t)') /\ Owned'
         /\ UnderWay(V)' /\ KeyspacesInv(V)' /\ ~Serving'
<1>1. ~Serving /\ ~Serving' /\ mode # "up" /\ mode' # "up"
  BY Zenon DEF Serving
<1>2. mark = NoMark
  BY Zenon, <1>1 DEF Inv, UnderWay
<1>3. ASSUME NEW t \in Txn PROVE PhaseInv(t)'
  <2>1. seq[t] = 0 /\ phase[t] \in {"idle", "returned", "gone"}
    BY Zenon, <1>1 DEF Inv, PhaseInv
  <2> QED BY Zenon, <2>1 DEF PhaseInv
<1> QED BY Zenon, <1>1, <1>2, <1>3, VerdictSame DEF Inv, Owned, UnderWay, KeyspacesInv

LEMMA FailStep ==
  ASSUME NEW V, Inv(V), mode \in {"down", "replaying"}, Fail
  PROVE  Inv(V)'
<1> USE DEF logFileVars, checkpointVars, replayVars
<1>0. TypeOK /\ mode' = "failed"
      /\ UNCHANGED <<wal, synced, nextSeq, log, statuses, kv, status, watermark, phase, open, seq, reinsert,
                     checkpoints, prev, mark, at, replayed, bare, crashes, promised>>
  BY Zenon DEF Inv, Fail, protocolVars
<1>1. TypeOK'
  BY Zenon, <1>0 DEF TypeOK
<1>2. Safe
  <2>1. synced' \in synced..Len(wal)
    BY <1>0 DEF TypeOK
  <2> QED BY Zenon, <1>0, <2>1, SafeSame
<1>3. LogInv' /\ Agrees(V)'
  BY Zenon, <1>0, <1>2, LogSame, AgreesSame DEF Inv
<1>4. CheckpointsInv(V)'
  BY Zenon, <1>0, <1>1, <1>2, CheckpointsSame DEF Inv, Running, Settled
<1>5. ReplayInv'
  BY Zenon, <1>0 DEF ReplayInv
<1> QED BY Zenon, <1>0, <1>1, <1>2, <1>3, <1>4, <1>5, LoadFrame DEF Inv

\* The keyspaces are those of the latest checkpoint.
LEMMA RestoreStep ==
  ASSUME NEW V, Inv(V), Restore
  PROVE  Inv(V)'
<1> USE DEF logFileVars, checkpointVars, replayVars
<1>0. TypeOK /\ mode = "down" /\ mode' = "replaying" /\ ~Unusable
      /\ UNCHANGED <<nextSeq, log, statuses, phase, open, seq, reinsert, wal, synced, checkpoints,
                     mark, crashes, promised>>
      /\ kv' = Latest.data /\ replayed' = [s \in Slot |-> {}] /\ bare' = {}
  BY Zenon DEF Inv, Restore
<1>1. PICK m : m = Latest.mark
  BY Zenon
<1>2. /\ watermark' = m /\ prev' = m /\ at' = m + 1
      /\ status' = [s \in Slot |-> IF s <= m THEN status[s] ELSE "Empty"]
  BY Zenon, <1>1 DEF Restore, RecoveryStart
<1>3. m \in Marks /\ m < nextSeq /\ m # NoMark /\ ~(m >= nextSeq) /\ kv' \in [Key -> SUBSET Version]
  <2>1. Latest \in Directory
    BY Zenon, <1>0, LatestType
  <2>2. m \in {NoMark} \cup Marks /\ Latest.data \in [Key -> SUBSET Version]
    BY Zenon, <1>1, <2>1 DEF Directory
  <2>3. m # NoMark /\ ~(m >= nextSeq)
    BY Zenon, <1>0, <1>1 DEF Unusable
  <2>4. m < nextSeq
    BY SMTT(40), <1>0, <2>2, <2>3, Numbers DEF Marks
  <2> QED BY Zenon, <1>0, <2>2, <2>3, <2>4
<1>4. /\ at' \in First..(MaxSeq + 1) /\ at' \in (m + 1)..nextSeq /\ m < at' /\ NoMark <= m /\ m <= m
      /\ \A s \in Slot : /\ ~(m < s /\ s < at') /\ (at' <= s <=> ~(s <= m)) /\ (s <= m => s < nextSeq)
  BY <1>0, <1>2, <1>3, Numbers DEF Marks, NoMark
<1>5. TypeOK'
  <2>1. status' \in [Slot -> {"Empty", "Pending", "Validated", "Applied", "Aborted"}]
    BY Zenon, <1>0, <1>2 DEF TypeOK
  <2>2. replayed' \in [Slot -> SUBSET Key] /\ bare' \subseteq Slot
    BY Zenon, <1>0
  <2> QED BY Zenon, <1>0, <1>2, <1>3, <1>4, <2>1, <2>2 DEF TypeOK
<1>6. \A s \in Slot : (s <= m => status'[s] = status[s]) /\ (~(s <= m) => status'[s] = "Empty")
  BY Zenon, <1>2
<1>7. Safe
  <2>1. synced' \in synced..Len(wal)
    BY <1>0 DEF TypeOK
  <2> QED BY Zenon, <1>0, <2>1, SafeSame
<1>8. LogInv'
  BY Zenon, <1>0, LogSame DEF Inv
<1>9. Agrees(V)'
  BY Zenon, <1>0, <1>6, <1>7 DEF Inv, Agrees, Safe
<1>10. CheckpointsInv(V)'
  <2>1. Latest' = Latest
    BY Zenon, <1>0 DEF Latest
  <2>2. Complete(Latest)
    BY Zenon, <1>1, <1>3 DEF Complete
  <2>3. ASSUME NEW i \in DOMAIN checkpoints PROVE checkpoints[i].mark <= m
    BY Zenon, <1>1, <1>4, <2>2, <2>3 DEF Inv, CheckpointsInv, Complete
  <2>4. ASSUME NEW i \in DOMAIN checkpoints, Complete(checkpoints[i])
        PROVE  \A k \in Key : CoversKey(V, checkpoints[i].data, checkpoints[i].mark, k)'
    <3>1. PICK e, n : e = checkpoints[i].data /\ n = checkpoints[i].mark
      BY Zenon
    <3>2. \A k \in Key : CoversKey(V, e, n, k)'
      BY Zenon, <1>0, <2>4, <3>1, CoversSame DEF Inv, CheckpointsInv
    <3>3. checkpoints'[i].data = e /\ checkpoints'[i].mark = n
      BY Zenon, <1>0, <3>1
    <3> QED BY Zenon, <3>2, <3>3 DEF CoversKey
  <2>5. \A s \in Slot : s <= m /\ s < nextSeq => Settled(s)'
    BY Zenon, <1>1, <1>6 DEF Inv, CheckpointsInv, Settled
  <2>6. Founded(V, Latest.data, Latest.mark)'
    <3>1. PICK d : d = Latest.data
      BY Zenon
    <3>2. Founded(V, d, m)'
      BY Zenon, <1>0, <1>1, <1>7, <2>2, <3>1, FoundedKept DEF Inv, CheckpointsInv
    <3>3. Latest'.data = d /\ Latest'.mark = m
      BY Zenon, <1>1, <2>1, <3>1
    <3> QED BY Zenon, <3>2, <3>3 DEF Founded
  <2> QED BY Zenon, <1>0, <1>1, <1>2, <2>1, <2>3, <2>4, <2>5, <2>6 DEF CheckpointsInv
<1>11. ReplayInv'
  <2>1. Latest' = Latest
    BY Zenon, <1>0 DEF Latest
  <2>2. ASSUME NEW s \in Slot PROVE status'[s] # "Validated"
    BY Zenon, <1>1, <1>4, <1>6 DEF Inv, CheckpointsInv, Settled
  <2> QED BY Zenon, <1>0, <1>1, <1>2, <1>3, <1>4, <1>6, <2>1, <2>2 DEF ReplayInv, Complete
<1> QED BY Zenon, <1>0, <1>5, <1>7, <1>8, <1>9, <1>10, <1>11, LoadFrame DEF Inv

LEMMA ReplayedSlot ==
  ASSUME TypeOK, at < nextSeq
  PROVE  at \in Slot /\ at + 1 \in First..(MaxSeq + 1)
  BY Numbers DEF TypeOK, Slot

\* The commit is replayed with the decision that the log has on it.
LEMMA ReplayedStep ==
  ASSUME NEW V, Inv(V), mode = "replaying", at < nextSeq, TypeOK', LogInv', Safe, at' = at + 1,
         UNCHANGED <<nextSeq, log, phase, seq, mark, mode, prev, kv, checkpoints, promised>>,
         watermark <= watermark', watermark' < at',
         status' = [status EXCEPT ![at] = IF at \in V THEN "Validated" ELSE "Aborted"],
         \A s \in Slot : statuses'[s] = statuses[s]
             \/ (s = at /\ statuses'[s] = IF at \in V THEN "Committed" ELSE "Rejected"),
         \A s \in Slot : replayed'[s] = replayed[s] \/ (s = at /\ replayed'[s] \subseteq Puts(log[s].ops)),
         at \in V => replayed'[at] \subseteq Puts(log[at].ops)
  PROVE  Inv(V)'
<1>0. TypeOK
  BY Zenon DEF Inv
<1>1. PICK a : a = at
  BY Zenon
<1>2. a \in Slot
  BY Zenon, <1>0, <1>1, ReplayedSlot
<1>3. /\ a \in V => status'[a] = "Validated"
      /\ a \notin V => status'[a] = "Aborted"
      /\ \A s \in Slot : s # a => status'[s] = status[s]
  BY Zenon, <1>0, <1>1, <1>2 DEF TypeOK
<1>4. ReplayInv
  BY Zenon DEF Inv
<1>5. /\ a + 1 \in (prev + 1)..nextSeq /\ prev < a
      /\ \A s \in Slot : /\ s < a + 1 <=> s < a \/ s = a
                         /\ a + 1 <= s => s # a /\ a <= s
                         /\ s <= prev => s # a
                         /\ s = a => ~(a + 1 <= s)
  <2>1. at \in (prev + 1)..nextSeq
    BY Zenon, <1>4 DEF ReplayInv
  <2> QED BY <1>0, <1>1, <2>1, Numbers
<1>6. Agrees(V)'
  <2>1. ASSUME NEW r \in Slot
        PROVE  /\ statuses'[r] # "None" => r < nextSeq
               /\ statuses'[r] = "Committed" => r \in V
               /\ statuses'[r] = "Rejected" => r \notin V
    BY Zenon DEF Inv, Agrees
  <2>2. ASSUME NEW r \in Slot
        PROVE  /\ promised[r] # "None" => Synced(r)'
               /\ promised[r] = "Committed" => r \in V
               /\ promised[r] = "Rejected" => r \notin V
    BY Zenon DEF Inv, Agrees, Safe
  <2>3. ASSUME NEW r \in Slot, r < nextSeq
        PROVE  /\ status'[r] \in {"Validated", "Applied"} => r \in V
               /\ status'[r] = "Aborted" => r \notin V
    <3>1. CASE r = a
      BY Zenon, <1>3, <3>1
    <3>2. CASE r # a
      BY Zenon, <1>3, <2>3, <3>2 DEF Inv, Agrees
    <3> QED BY Zenon, <3>1, <3>2
  <2> QED BY Zenon, <2>1, <2>2, <2>3 DEF Agrees
<1>7. CheckpointsInv(V)'
  <2>1. \A s \in Slot : s <= Latest.mark /\ s < nextSeq /\ Settled(s) => Settled(s)'
    BY Zenon, <1>3, <1>4, <1>5 DEF ReplayInv, Settled
  <2> QED BY Zenon, <1>0, <2>1, CheckpointsSame DEF Inv, Running
<1>8. ReplayInv'
  <2>1. Latest' = Latest
    BY Zenon DEF Latest
  <2>2. ASSUME NEW s \in Slot
        PROVE  /\ prev < s /\ s < a + 1 => status'[s] \in {"Validated", "Aborted"}
               /\ a + 1 <= s => status'[s] = "Empty"
               /\ status'[s] = "Validated" => replayed'[s] \subseteq Puts(log[s].ops)
    <3>1. CASE s = a
      BY Zenon, <1>1, <1>3, <1>5, <3>1
    <3>2. CASE s # a
      <4>1. status'[s] = status[s] /\ replayed'[s] = replayed[s]
        BY Zenon, <1>1, <1>3, <3>2
      <4> QED BY Zenon, <1>1, <1>4, <1>5, <3>2, <4>1 DEF ReplayInv
    <3> QED BY Zenon, <3>1, <3>2
  <2> QED BY Zenon, <1>1, <1>4, <1>5, <2>1, <2>2 DEF ReplayInv
<1> QED BY Zenon, <1>6, <1>7, <1>8, LoadFrame DEF Inv

\* load_validated and load_aborted take the decision from the status record.
LEMMA LoadValidatedStep ==
  ASSUME NEW V, Inv(V), LoadValidated
  PROVE  Inv(V)'
<1> USE DEF logFileVars, checkpointVars, replayVars
<1>0. TypeOK /\ mode = "replaying" /\ at < nextSeq /\ statuses[at] = "Committed" /\ at' = at + 1
      /\ UNCHANGED <<nextSeq, log, statuses, kv, watermark, phase, open, seq, reinsert,
                     wal, synced, checkpoints, prev, mark, mode, bare, crashes, promised>>
      /\ status' = [status EXCEPT ![at] = "Validated"]
      /\ replayed' = [replayed EXCEPT ![at] = log[at].flags]
  BY Zenon DEF Inv, LoadValidated, Replaying
<1>1. at \in Slot /\ at' \in First..(MaxSeq + 1)
  BY Zenon, <1>0, ReplayedSlot
<1>2. at \in V /\ log[at].flags \subseteq Puts(log[at].ops) /\ log[at].flags \subseteq Key
  BY Zenon, <1>0, <1>1 DEF Inv, Agrees, LogInv, Puts
<1>3. TypeOK'
  <2>1. status' \in [Slot -> {"Empty", "Pending", "Validated", "Applied", "Aborted"}]
    BY Zenon, <1>0 DEF TypeOK
  <2>2. replayed' \in [Slot -> SUBSET Key]
    BY Zenon, <1>0, <1>2 DEF TypeOK
  <2> QED BY Zenon, <1>0, <1>1, <2>1, <2>2 DEF TypeOK
<1>4. Safe /\ watermark <= watermark' /\ watermark' < at'
  <2>1. synced' \in synced..Len(wal)
    BY <1>0 DEF TypeOK
  <2>2. watermark < at
    BY Zenon, <1>0 DEF Inv, ReplayInv
  <2>3. watermark <= watermark' /\ watermark' < at'
    BY <1>0, <2>2, Numbers
  <2> QED BY Zenon, <1>0, <2>1, <2>3, SafeSame
<1>5. /\ replayed'[at] \subseteq Puts(log[at].ops)
      /\ \A s \in Slot : replayed'[s] = replayed[s] \/ (s = at /\ replayed'[s] \subseteq Puts(log[s].ops))
  BY Zenon, <1>0, <1>1, <1>2 DEF TypeOK
<1>6. LogInv'
  BY Zenon, <1>0, LogSame DEF Inv
<1>7. status' = [status EXCEPT ![at] = IF at \in V THEN "Validated" ELSE "Aborted"]
  BY Zenon, <1>0, <1>2
<1> QED BY Zenon, <1>0, <1>3, <1>4, <1>5, <1>6, <1>7, ReplayedStep

LEMMA LoadAbortedStep ==
  ASSUME NEW V, Inv(V), LoadAborted
  PROVE  Inv(V)'
<1> USE DEF logFileVars, checkpointVars, replayVars
<1>1. TypeOK /\ mode = "replaying" /\ at < nextSeq /\ statuses[at] = "Rejected"
  BY Zenon DEF Inv, LoadAborted, Replaying
<1>2. CASE Fail
  BY Zenon, <1>1, <1>2, FailStep
<1>3. CASE ~Fail
  <2>0. /\ at' = at + 1
        /\ UNCHANGED <<nextSeq, log, statuses, kv, watermark, phase, open, seq, reinsert,
                       wal, synced, checkpoints, prev, mark, mode, replayed, crashes, promised>>
        /\ status' = [status EXCEPT ![at] = "Aborted"]
        /\ bare' = bare \cup {at}
    BY Zenon, <1>3 DEF LoadAborted
  <2>1. at \in Slot /\ at' \in First..(MaxSeq + 1)
    BY Zenon, <1>1, <2>0, ReplayedSlot
  <2>2. at \notin V
    BY Zenon, <1>1, <2>1 DEF Inv, Agrees
  <2>3. TypeOK'
    <3>1. status' \in [Slot -> {"Empty", "Pending", "Validated", "Applied", "Aborted"}]
      BY Zenon, <1>1, <2>0 DEF TypeOK
    <3>2. bare' \subseteq Slot
      BY Zenon, <1>1, <2>0, <2>1 DEF TypeOK
    <3> QED BY Zenon, <1>1, <2>0, <2>1, <3>1, <3>2 DEF TypeOK
  <2>4. Safe /\ watermark <= watermark' /\ watermark' < at'
    <3>1. synced' \in synced..Len(wal)
      BY <1>1, <2>0 DEF TypeOK
    <3>2. watermark < at
      BY Zenon, <1>1 DEF Inv, ReplayInv
    <3>3. watermark <= watermark' /\ watermark' < at'
      BY <1>1, <2>0, <3>2, Numbers
    <3> QED BY Zenon, <1>1, <2>0, <3>1, <3>3, SafeSame
  <2>5. LogInv'
    BY Zenon, <2>0, LogSame DEF Inv
  <2>6. status' = [status EXCEPT ![at] = IF at \in V THEN "Validated" ELSE "Aborted"]
    BY Zenon, <2>0, <2>2
  <2> QED BY Zenon, <1>1, <2>0, <2>2, <2>3, <2>4, <2>5, <2>6, ReplayedStep
<1> QED BY Zenon, <1>2, <1>3

\* What replay knows of the predecessors of a commit is so, and is enough to decide
\* on it when it does not panic.
LEMMA ReplayVerdict ==
  ASSUME NEW V, Inv(V), mode = "replaying", at < nextSeq
  PROVE  (Stops = {} => at \in V) /\ ((\E i \in Stops : ~Panics(i)) => at \notin V)
<1>0. TypeOK /\ ReplayInv
  BY Zenon DEF Inv
<1>1. at \in Slot
  BY Zenon, <1>0, ReplayedSlot
<1>2. at \in V <=> \A i \in Concurrent(at) : i \in V => ~Clashes(at, i)
  BY Zenon, <1>1 DEF Inv, Verdict
<1>3. ASSUME NEW i \in Concurrent(at)
      PROVE  i \in Slot /\ i < at /\ i < nextSeq /\ (~OnDisk(i) => prev < i)
  <2>1. i \in Slot /\ i < at
    BY Zenon DEF Concurrent
  <2> QED BY <1>0, <2>1, Numbers DEF OnDisk
<1>4. ASSUME NEW i \in Concurrent(at), i \in KnownCommitted PROVE i \in V
  <2>1. CASE OnDisk(i)
    BY Zenon, <1>3, <1>4, <2>1 DEF KnownCommitted, Inv, Agrees
  <2>2. CASE ~OnDisk(i)
    BY Zenon, <1>3, <1>4, <2>2 DEF KnownCommitted, Inv, Agrees
  <2> QED BY Zenon, <2>1, <2>2
<1>5. ASSUME NEW i \in Concurrent(at), i \in V, ~Panics(i) PROVE i \in KnownCommitted
  <2>1. CASE OnDisk(i)
    <3>1. statuses[i] # "None" /\ statuses[i] # "Rejected"
      BY Zenon, <1>3, <1>5, <2>1 DEF Panics, Inv, Agrees
    <3>2. statuses[i] \in Outcome
      BY Zenon, <1>0, <1>3 DEF TypeOK
    <3> QED BY Zenon, <1>3, <2>1, <3>1, <3>2 DEF Outcome, KnownCommitted
  <2>2. CASE ~OnDisk(i)
    <3>1. status[i] \in {"Validated", "Aborted"}
      BY Zenon, <1>0, <1>3, <2>2 DEF ReplayInv
    <3>2. status[i] # "Aborted"
      BY Zenon, <1>3, <1>5 DEF Inv, Agrees
    <3> QED BY Zenon, <1>3, <2>2, <3>1, <3>2 DEF KnownCommitted
  <2> QED BY Zenon, <2>1, <2>2
<1>6. ASSUME Stops = {} PROVE at \in V
  <2>1. ASSUME NEW i \in Concurrent(at), i \in V PROVE ~Clashes(at, i)
    <3>1. ~Panics(i) /\ ~(i \in KnownCommitted /\ Clashes(at, i))
      BY Zenon, <1>6, <2>1 DEF Stops
    <3> QED BY Zenon, <1>5, <2>1, <3>1
  <2> QED BY Zenon, <1>2, <2>1
<1>7. ASSUME NEW i \in Stops, ~Panics(i) PROVE at \notin V
  <2>1. i \in Concurrent(at) /\ i \in KnownCommitted /\ Clashes(at, i)
    BY Zenon, <1>7 DEF Stops
  <2> QED BY Zenon, <1>2, <1>4, <2>1
<1> QED BY Zenon, <1>6, <1>7

LEMMA ReplayValidStep ==
  ASSUME NEW V, Inv(V), ReplayValid
  PROVE  Inv(V)'
<1> USE DEF logFileVars, checkpointVars, replayVars
<1>0. TypeOK /\ mode = "replaying" /\ at < nextSeq /\ at' = at + 1 /\ Stops = {}
      /\ UNCHANGED <<nextSeq, log, kv, watermark, phase, open, seq, reinsert, synced,
                     checkpoints, prev, mark, mode, bare, crashes, promised>>
      /\ status' = [status EXCEPT ![at] = "Validated"]
      /\ replayed' = [replayed EXCEPT ![at] = FinalFlags(at, KnownCommitted)]
      /\ statuses' = [statuses EXCEPT ![at] = "Committed"]
      /\ wal' = Append(wal, <<"status", at>>)
  BY Zenon DEF Inv, ReplayValid, Replaying, Conclude
<1>1. at \in Slot /\ at' \in First..(MaxSeq + 1)
  BY Zenon, <1>0, ReplayedSlot
<1>2. /\ at \in V /\ FinalFlags(at, KnownCommitted) \subseteq Puts(log[at].ops)
      /\ FinalFlags(at, KnownCommitted) \subseteq Key
  <2>1. at \in V
    BY Zenon, <1>0, ReplayVerdict
  <2> QED BY Zenon, <2>1 DEF FinalFlags, Puts
<1>3. LogInv' /\ wal' \in Seq({"commit", "status"} \X Slot) /\ Len(wal') = Len(wal) + 1
  BY Zenon, <1>0, <1>1, LogStatus DEF Inv
<1>4. TypeOK'
  <2>1. status' \in [Slot -> {"Empty", "Pending", "Validated", "Applied", "Aborted"}]
    BY Zenon, <1>0 DEF TypeOK
  <2>2. replayed' \in [Slot -> SUBSET Key] /\ statuses' \in [Slot -> Outcome]
    BY Zenon, <1>0, <1>2 DEF TypeOK, Outcome
  <2>3. synced' \in 0..Len(wal')
    <3>1. wal \in Seq({"commit", "status"} \X Slot) /\ synced \in 0..Len(wal)
      BY Zenon, <1>0 DEF TypeOK
    <3> QED BY <1>0, <1>3, <3>1
  <2> QED BY Zenon, <1>0, <1>1, <1>3, <2>1, <2>2, <2>3 DEF TypeOK
<1>5. Safe /\ watermark <= watermark' /\ watermark' < at'
  <2>1. <<"status", at>> \in {"commit", "status"} \X Slot
    BY Zenon, <1>1
  <2>2. watermark < at
    BY Zenon, <1>0 DEF Inv, ReplayInv
  <2>3. watermark <= watermark' /\ watermark' < at'
    BY SMTT(40), <1>0, <2>2, Numbers
  <2> QED BY Zenon, <1>0, <2>1, <2>3, SafeAppend
<1>6. /\ replayed'[at] \subseteq Puts(log[at].ops)
      /\ \A s \in Slot : replayed'[s] = replayed[s] \/ (s = at /\ replayed'[s] \subseteq Puts(log[s].ops))
  BY Zenon, <1>0, <1>1, <1>2 DEF TypeOK
<1>7. \A s \in Slot : statuses'[s] = statuses[s]
          \/ (s = at /\ statuses'[s] = IF at \in V THEN "Committed" ELSE "Rejected")
  BY Zenon, <1>0, <1>1, <1>2 DEF TypeOK
<1>8. status' = [status EXCEPT ![at] = IF at \in V THEN "Validated" ELSE "Aborted"]
  BY Zenon, <1>0, <1>2
<1> QED BY Zenon, <1>0, <1>3, <1>4, <1>5, <1>6, <1>7, <1>8, ReplayedStep

LEMMA ReplayConflictStep ==
  ASSUME NEW V, Inv(V), ReplayConflict
  PROVE  Inv(V)'
<1> USE DEF logFileVars, checkpointVars, replayVars
<1>0. TypeOK /\ mode = "replaying" /\ at < nextSeq /\ at' = at + 1 /\ (\E i \in Stops : ~Panics(i))
      /\ UNCHANGED <<nextSeq, log, kv, phase, open, seq, reinsert, synced, replayed,
                     checkpoints, prev, mark, mode, bare, crashes, promised>>
      /\ status' = [status EXCEPT ![at] = "Aborted"]
      /\ watermark' = (IF watermark = at - 1 THEN at ELSE watermark)
      /\ statuses' = [statuses EXCEPT ![at] = "Rejected"]
      /\ wal' = Append(wal, <<"status", at>>)
  BY Zenon DEF Inv, ReplayConflict, Replaying, Conclude
<1>1. at \in Slot /\ at' \in First..(MaxSeq + 1)
  BY Zenon, <1>0, ReplayedSlot
<1>2. at \notin V
  BY Zenon, <1>0, ReplayVerdict
<1>3. LogInv' /\ wal' \in Seq({"commit", "status"} \X Slot) /\ Len(wal') = Len(wal) + 1
  BY Zenon, <1>0, <1>1, LogStatus DEF Inv
<1>4. watermark <= watermark' /\ watermark' < at' /\ watermark' \in Marks
  <2>1. watermark < at
    BY Zenon, <1>0 DEF Inv, ReplayInv
  <2> QED BY SMTT(40), <1>0, <1>1, <2>1, Numbers DEF Marks
<1>5. TypeOK'
  <2>1. status' \in [Slot -> {"Empty", "Pending", "Validated", "Applied", "Aborted"}]
    BY Zenon, <1>0 DEF TypeOK
  <2>2. statuses' \in [Slot -> Outcome]
    BY Zenon, <1>0 DEF TypeOK, Outcome
  <2>3. synced' \in 0..Len(wal')
    <3>1. wal \in Seq({"commit", "status"} \X Slot) /\ synced \in 0..Len(wal)
      BY Zenon, <1>0 DEF TypeOK
    <3> QED BY <1>0, <1>3, <3>1
  <2> QED BY Zenon, <1>0, <1>1, <1>3, <1>4, <2>1, <2>2, <2>3 DEF TypeOK
<1>6. Safe
  <2>1. <<"status", at>> \in {"commit", "status"} \X Slot
    BY Zenon, <1>1
  <2> QED BY Zenon, <1>0, <2>1, SafeAppend
<1>7. \A s \in Slot : statuses'[s] = statuses[s]
          \/ (s = at /\ statuses'[s] = IF at \in V THEN "Committed" ELSE "Rejected")
  BY Zenon, <1>0, <1>1, <1>2 DEF TypeOK
<1>8. status' = [status EXCEPT ![at] = IF at \in V THEN "Validated" ELSE "Aborted"]
  BY Zenon, <1>0, <1>2
<1> QED BY Zenon, <1>0, <1>2, <1>3, <1>4, <1>5, <1>6, <1>7, <1>8, ReplayedStep

\* A synced commit is in the log.
LEMMA SyncedBelow ==
  ASSUME TypeOK, LogInv, NEW s \in Slot, Synced(s)
  PROVE  s < nextSeq
<1>1. 1..synced \subseteq Index
  BY DEF TypeOK, Index
<1> QED BY Zenon, <1>1 DEF LogInv, Synced

\* The batches of the replayed commits are written, and the database is loaded.
LEMMA EndReplayStep ==
  ASSUME NEW V, Inv(V), EndReplay
  PROVE  Inv(V)'
<1> USE DEF logFileVars, checkpointVars, replayVars
<1>0. TypeOK /\ mode = "replaying" /\ at >= nextSeq /\ ReplayInv /\ LogInv
      /\ UNCHANGED <<nextSeq, log, statuses, phase, open, seq, reinsert, wal, synced,
                     checkpoints, prev, mark, at, crashes, promised>>
      /\ status' = [s \in Slot |-> IF status[s] = "Validated" THEN "Applied" ELSE status[s]]
      /\ watermark' = nextSeq - 1 /\ mode' \in {"loading", "up"}
      /\ replayed' = [s \in Slot |-> {}] /\ bare' = {}
  BY Zenon DEF Inv, EndReplay, RecoveredWatermark
<1>1. \A s \in Slot : status'[s] = IF status[s] = "Validated" THEN "Applied" ELSE status[s]
  BY Zenon, <1>0
<1>2. PICK R : R = {i \in Slot : status[i] = "Validated"}
  BY Zenon
<1>3. \A k \in Key : kv'[k] = kv[k] \cup UNION {NewVersions(k, s, log[s].ops, replayed[s]) : s \in R}
  BY Zenon, <1>2 DEF EndReplay
<1>4. /\ at = nextSeq /\ watermark' \in Marks /\ watermark <= watermark' /\ watermark' \in Int
      /\ watermark' < nextSeq /\ prev <= watermark' /\ prev \in Int
      /\ \A s \in Slot : /\ s <= watermark' <=> s < nextSeq
                         /\ at <= s <=> ~(s < nextSeq)
                         /\ s < nextSeq => s <= prev \/ (prev < s /\ s < at)
  <2>1. at \in (prev + 1)..nextSeq /\ watermark < at
    BY Zenon, <1>0 DEF ReplayInv
  <2> QED BY <1>0, <2>1, Numbers DEF Marks
<1>5. ASSUME NEW s \in Slot
      PROVE  /\ ~(s < nextSeq) => status[s] = "Empty"
             /\ s < nextSeq /\ ~Settled(s) => status[s] = "Validated"
             /\ s < nextSeq /\ status[s] = "Applied" => s <= prev
             /\ s < nextSeq => Settled(s)'
  <2>1. ~(s < nextSeq) => status[s] = "Empty"
    BY Zenon, <1>0, <1>4 DEF ReplayInv
  <2>2. s <= prev /\ s < nextSeq => Settled(s)
    BY Zenon, <1>0 DEF Inv, CheckpointsInv, ReplayInv
  <2>3. prev < s /\ s < at => status[s] \in {"Validated", "Aborted"}
    BY Zenon, <1>0 DEF ReplayInv
  <2>4. s < nextSeq /\ ~Settled(s) => status[s] = "Validated"
    BY Zenon, <1>4, <2>2, <2>3 DEF Settled
  <2>5. s < nextSeq /\ status[s] = "Applied" => s <= prev
    BY Zenon, <1>4, <2>3
  <2>6. s < nextSeq => Settled(s)'
    BY Zenon, <1>1, <2>4 DEF Settled
  <2> QED BY Zenon, <2>1, <2>4, <2>5, <2>6
<1>6. ASSUME NEW s \in R
      PROVE  /\ s \in Slot /\ s \in Nat /\ s < nextSeq /\ s <= watermark' /\ s \in V
             /\ log[s].ops \in Buffer /\ replayed[s] \in SUBSET Puts(log[s].ops)
  <2>1. s \in Slot /\ status[s] = "Validated"
    BY Zenon, <1>2
  <2>2. s < nextSeq
    BY Zenon, <1>5, <2>1
  <2>3. s \in Nat
    BY <2>1 DEF Slot
  <2>4. s \in V /\ log[s].ops \in Buffer /\ replayed[s] \in SUBSET Puts(log[s].ops)
    BY Zenon, <1>0, <2>1, <2>2, RecordType DEF Inv, Agrees, ReplayInv
  <2> QED BY Zenon, <1>4, <2>1, <2>2, <2>3, <2>4
<1>7. ASSUME NEW k \in Key, NEW s \in R
      PROVE  /\ NewVersions(k, s, log[s].ops, replayed[s]) \subseteq kv'[k]
             /\ NewVersions(k, s, log[s].ops, replayed[s]) \subseteq Version
             /\ \A v \in NewVersions(k, s, log[s].ops, replayed[s]) : v.seq = s
             /\ log[s].ops.writes[k].op \in {"Insert", "Delete"} =>
                  \E v \in NewVersions(k, s, log[s].ops, replayed[s]) :
                      v.seq = s /\ v.op = log[s].ops.writes[k].op
  <2>1. PICK o, f : o = log[s].ops /\ f = replayed[s]
    BY Zenon
  <2>2. s \in Nat /\ o \in Buffer /\ f \in SUBSET Puts(o)
    BY Zenon, <1>6, <2>1
  <2>3. /\ NewVersions(k, s, o, f) \subseteq Version
        /\ \A v \in NewVersions(k, s, o, f) : v.seq = s
        /\ o.writes[k].op \in {"Insert", "Delete"} =>
             \E v \in NewVersions(k, s, o, f) : v.seq = s /\ v.op = o.writes[k].op
    BY <2>2, Batch
  <2>4. NewVersions(k, s, o, f) \subseteq kv'[k]
    BY Zenon, <1>3, <2>1
  <2> QED BY Zenon, <2>1, <2>3, <2>4
<1>8. Grows /\ \A k \in Key : \A v \in kv'[k] :
                  v \in kv[k] \/ \E s \in R : v \in NewVersions(k, s, log[s].ops, replayed[s])
  <2>1. Grows
    BY Zenon, <1>3 DEF Grows
  <2>2. ASSUME NEW k \in Key, NEW v \in kv'[k], v \notin kv[k]
        PROVE  \E s \in R : v \in NewVersions(k, s, log[s].ops, replayed[s])
    BY <1>3, <2>2
  <2> QED BY Zenon, <2>1, <2>2
<1>9. TypeOK'
  <2>1. status' \in [Slot -> {"Empty", "Pending", "Validated", "Applied", "Aborted"}]
    BY Zenon, <1>0 DEF TypeOK
  <2>2. replayed' \in [Slot -> SUBSET Key] /\ bare' \subseteq Slot
    BY Zenon, <1>0
  <2>3. kv' \in [Key -> SUBSET Version]
    <3>1. \A k \in Key : kv'[k] \subseteq Version
      <4>1. ASSUME NEW k \in Key, NEW v \in kv'[k] PROVE v \in Version
        <5>1. CASE v \in kv[k]
          BY Zenon, <1>0, <5>1 DEF TypeOK
        <5>2. ASSUME NEW s \in R, v \in NewVersions(k, s, log[s].ops, replayed[s]) PROVE v \in Version
          BY Zenon, <1>7, <5>2
        <5> QED BY Zenon, <1>8, <4>1, <5>1, <5>2
      <4> QED BY Zenon, <4>1
    <3>2. kv' = [k \in Key |-> kv'[k]]
      BY Zenon DEF EndReplay
    <3> QED BY Zenon, <3>1, <3>2
  <2>4. mode' \in {"up", "down", "replaying", "loading", "failed"}
    BY Zenon, <1>0
  <2> QED BY Zenon, <1>0, <1>4, <2>1, <2>2, <2>3, <2>4 DEF TypeOK
<1>10. Safe
  <2>1. synced' \in synced..Len(wal)
    BY <1>0 DEF TypeOK
  <2> QED BY Zenon, <1>0, <2>1, SafeSame
<1>11. LogInv' /\ Verdict(V)'
  BY Zenon, <1>0, LogSame, VerdictSame DEF Inv
<1>12. Agrees(V)'
  BY Zenon, <1>0, <1>1, <1>10 DEF Inv, Agrees, Safe
<1>13. mode # "up" /\ ~Serving /\ mark = NoMark
  <2>1. mode # "up" /\ ~Serving
    BY Zenon, <1>0 DEF Serving
  <2> QED BY Zenon, <2>1 DEF Inv, UnderWay
<1>14. ASSUME NEW t \in Txn PROVE PhaseInv(t)'
  <2>1. seq[t] = 0 /\ phase[t] \in {"idle", "returned", "gone"}
    BY Zenon, <1>13 DEF Inv, PhaseInv
  <2> QED BY Zenon, <1>0, <2>1 DEF PhaseInv
<1>15. Owned' /\ UnderWay(V)' /\ ReplayInv'
  <2>1. \A s \in Slot : ~(watermark' < s /\ s < nextSeq)
    BY <1>0, <1>4, Numbers
  <2> QED BY Zenon, <1>0, <1>13, <2>1 DEF Owned, UnderWay, ReplayInv
<1>16. CheckpointsInv(V)'
  <2>1. \A s \in Slot : s <= Latest.mark /\ s < nextSeq /\ Settled(s) => Settled(s)'
    BY Zenon, <1>5
  <2> QED BY Zenon, <1>0, <1>4, <1>9, <1>10, <2>1, CheckpointsSame DEF Inv, Running
<1>17. SlotsInv'
  <2>1. ASSUME NEW s \in Slot, status'[s] = "Applied" PROVE Whole(kv, s)'
    <3>1. CASE status[s] = "Validated"
      <4>1. s \in R
        BY Zenon, <1>2, <3>1
      <4>2. ASSUME NEW k \in Key, log[s].ops.writes[k].op \in {"Insert", "Delete"}
            PROVE  \E v \in kv'[k] : v.seq = s /\ v.op = log[s].ops.writes[k].op
        BY Zenon, <1>7, <4>1, <4>2
      <4> QED BY Zenon, <1>0, <4>2 DEF Whole
    <3>2. CASE status[s] = "Applied"
      <4>1. s < nextSeq /\ s <= prev
        BY Zenon, <1>5, <3>2
      <4>2. s \in V
        BY Zenon, <3>2, <4>1 DEF Inv, Agrees
      <4>3. \A k \in Key : CoversKey(V, kv, prev, k)
        <5>1. CASE checkpoints = <<>>
          <6>1. prev = First - 1
            <7>1. prev = Latest.mark
              BY Zenon, <1>0 DEF ReplayInv
            <7> QED BY Zenon, <5>1, <7>1 DEF Latest, NewCheckpoint
          <6> QED BY <1>0, <4>1, <6>1, Numbers
        <5>2. CASE checkpoints # <<>>
          BY Zenon, <1>0, <5>2, LatestType DEF Inv, CheckpointsInv, ReplayInv
        <5> QED BY Zenon, <5>1, <5>2
      <4>4. Whole(kv, s)
        BY Zenon, <4>1, <4>2, <4>3, CoveredWhole
      <4> QED BY Zenon, <1>0, <1>8, <4>4, WholeKept
    <3> QED BY Zenon, <1>1, <2>1, <3>1, <3>2
  <2>2. ASSUME NEW s \in Slot, promised[s] = "Committed" PROVE status'[s] = "Applied"
    <3>1. s \in V /\ s < nextSeq
      BY Zenon, <1>0, <2>2, SyncedBelow DEF Inv, Agrees
    <3>2. Settled(s)' /\ status'[s] # "Aborted"
      BY Zenon, <1>0, <1>5, <1>12, <3>1 DEF Agrees
    <3> QED BY Zenon, <3>2 DEF Settled
  <2>3. ASSUME NEW s \in Slot
        PROVE  /\ status'[s] # "Empty" <=> s < nextSeq
               /\ s <= watermark' => Settled(s)'
    BY Zenon, <1>1, <1>4, <1>5 DEF Settled
  <2> QED BY Zenon, <1>0, <1>4, <2>1, <2>2, <2>3 DEF SlotsInv
<1>18. KeyspacesInv(V)'
  <2>1. PICK w : w = watermark'
    BY Zenon
  <2>2. Founded(V, kv, prev)
    BY Zenon, <1>0 DEF Inv, CheckpointsInv, ReplayInv
  <2>3. Founded(V, kv, w)
    BY Zenon, <1>4, <2>1, <2>2, FoundedHigher
  <2>4. ASSUME NEW k \in Key, NEW v \in kv'[k], v.seq \in Slot
        PROVE  \/ v.seq \in V /\ Synced(v.seq)'
               \/ v.seq <= w /\ (v.seq < nextSeq' => v.seq \in V)
    <3>1. CASE v \in kv[k]
      BY Zenon, <1>0, <1>10, <2>3, <2>4, <3>1 DEF Founded, Safe
    <3>2. ASSUME NEW s \in R, v \in NewVersions(k, s, log[s].ops, replayed[s])
          PROVE  v.seq <= w /\ v.seq \in V
      <4>1. v.seq = s
        BY ZenonT(40), <1>7, <3>2
      <4>2. s <= w /\ s \in V
        BY Zenon, <1>6, <2>1
      <4> QED BY Zenon, <4>1, <4>2
    <3> QED BY Zenon, <1>8, <2>4, <3>1, <3>2
  <2>5. mark' = NoMark
    BY Zenon, <1>0, <1>13
  <2> QED BY Zenon, <2>1, <2>4, <2>5 DEF KeyspacesInv, Founded, Synced
<1> QED BY Zenon, <1>9, <1>11, <1>12, <1>14, <1>15, <1>16, <1>17, <1>18 DEF Inv

-----------------------------------------------------------------------------
(* The invariant, and what follows from it.                                  *)

LEMMA InitInv ==
  ASSUME RecoveryInit
  PROVE  IInv
<1>1. /\ nextSeq = First /\ watermark = First - 1 /\ prev = First - 1 /\ mark = NoMark /\ mode = "up"
      /\ wal = <<>> /\ synced = 0 /\ at = First /\ bare = {} /\ crashes = 0
      /\ log = [s \in Slot |-> NoRecord] /\ statuses = [s \in Slot |-> "None"]
      /\ promised = [s \in Slot |-> "None"] /\ status = [s \in Slot |-> "Empty"]
      /\ replayed = [s \in Slot |-> {}]
      /\ phase = [t \in Txn |-> "idle"] /\ open = [t \in Txn |-> 0] /\ seq = [t \in Txn |-> 0]
      /\ reinsert = [t \in Txn |-> {}]
  BY Zenon DEF RecoveryInit, Init
<1>2. kv \in [Key -> SUBSET Version] /\ \A k \in Key : \A v \in kv[k] : v.seq = First - 1
  <2>1. kv \in [Key -> {{}} \cup {{[seq |-> First - 1, op |-> "Insert", val |-> v]} :
                                   v \in IF First = 1 THEN {} ELSE Val}]
    BY Zenon DEF RecoveryInit, Init
  <2>2. First - 1 \in Nat
    OBVIOUS
  <2>3. ASSUME NEW k \in Key PROVE kv[k] \subseteq Version /\ \A v \in kv[k] : v.seq = First - 1
    <3>1. kv[k] = {} \/ \E v \in Val : kv[k] = {[seq |-> First - 1, op |-> "Insert", val |-> v]}
      BY Zenon, <2>1
    <3> QED BY <2>2, <3>1 DEF Version
  <2> QED BY Zenon, <2>1, <2>3
<1>3. PICK c : c = [mark |-> First - 1, copied |-> Key, data |-> kv]
  BY Zenon
<1>4. /\ c \in Directory /\ c.mark = First - 1 /\ c.data = kv
      /\ NewCheckpoint(First - 1, Key).mark = First - 1
      /\ \A k \in Key : NewCheckpoint(First - 1, Key).data[k] = {}
  BY <1>2, <1>3 DEF Directory, Marks, NewCheckpoint
<1>5. /\ checkpoints \in Seq(Directory) /\ \A i \in DOMAIN checkpoints : checkpoints[i] = c
      /\ Latest.mark = First - 1
      /\ \A k \in Key : Latest.data[k] \subseteq kv[k]
  <2>1. CASE First = 1
    <3>1. checkpoints = <<>>
      BY Zenon, <2>1 DEF RecoveryInit
    <3>2. Latest = NewCheckpoint(First - 1, Key)
      BY Zenon, <3>1 DEF Latest
    <3>3. checkpoints \in Seq(Directory) /\ \A i \in DOMAIN checkpoints : checkpoints[i] = c
      BY <3>1
    <3> QED BY Zenon, <1>4, <3>2, <3>3
  <2>2. CASE First # 1
    <3>1. checkpoints = <<c>>
      BY Zenon, <1>3, <2>2 DEF RecoveryInit
    <3>2. /\ checkpoints \in Seq(Directory) /\ checkpoints # <<>> /\ checkpoints[Len(checkpoints)] = c
          /\ \A i \in DOMAIN checkpoints : checkpoints[i] = c
      BY <1>4, <3>1
    <3>3. Latest = c
      BY Zenon, <3>2 DEF Latest
    <3> QED BY Zenon, <1>4, <3>2, <3>3
  <2> QED BY Zenon, <2>1, <2>2
<1>6. TypeOK
  <2>1. /\ nextSeq \in First..(MaxSeq + 1) /\ watermark \in Marks /\ prev \in Marks
        /\ at \in First..(MaxSeq + 1) /\ crashes \in Nat /\ mark \in {NoMark} \cup Marks
        /\ wal \in Seq({"commit", "status"} \X Slot) /\ synced \in 0..Len(wal)
    BY <1>1 DEF Marks
  <2>2. /\ log \in [Slot -> Record \cup {NoRecord}]
        /\ statuses \in [Slot -> Outcome] /\ promised \in [Slot -> Outcome]
        /\ status \in [Slot -> {"Empty", "Pending", "Validated", "Applied", "Aborted"}]
        /\ replayed \in [Slot -> SUBSET Key] /\ bare \subseteq Slot
    BY Zenon, <1>1 DEF Outcome
  <2>3. /\ phase \in [Txn -> {"idle", "open", "sequenced", "validated", "written", "applied",
                              "aborted", "returned", "gone"}]
        /\ seq \in [Txn -> Slot \cup {0}] /\ reinsert \in [Txn -> SUBSET Key]
    BY Zenon, <1>1
  <2>4. open \in [Txn -> Nat]
    BY Zenon, <1>1
  <2> QED BY Zenon, <1>1, <1>2, <1>5, <2>1, <2>2, <2>3, <2>4 DEF TypeOK
<1>7. /\ \A s \in Slot : ~(s < nextSeq) /\ ~(s <= First - 1) /\ s # First - 1
      /\ First - 1 <= First - 1 /\ watermark < nextSeq
  BY <1>1 DEF Slot
<1>8. Index = {}
  BY <1>1 DEF Index
<1>9. LogInv
  BY Zenon, <1>1, <1>7, <1>8 DEF LogInv
<1>10. Verdict({}) /\ Agrees({})
  BY Zenon, <1>1, <1>7 DEF Verdict, Agrees
<1>11. SlotsInv /\ Owned
  BY Zenon, <1>1, <1>7 DEF SlotsInv, Owned
<1>12. \A t \in Txn : PhaseInv(t)
  BY Zenon, <1>1 DEF PhaseInv
<1>13. \A m : Founded({}, kv, m) /\ Founded({}, Latest.data, m)
  <2>1. \A k \in Key : \A v \in kv[k] : v.seq \notin Slot
    BY Zenon, <1>2, <1>7
  <2> QED BY Zenon, <1>5, <2>1 DEF Founded
<1>14. CheckpointsInv({})
  <2>1. \A data, m, k : CoversKey({}, data, m, k)
    BY Zenon DEF CoversKey
  <2> QED BY Zenon, <1>1, <1>4, <1>5, <1>7, <1>13, <2>1 DEF CheckpointsInv
<1>15. UnderWay({}) /\ ReplayInv /\ KeyspacesInv({})
  BY Zenon, <1>1, <1>13 DEF UnderWay, ReplayInv, KeyspacesInv
<1>16. Inv({})
  BY Zenon, <1>6, <1>9, <1>10, <1>11, <1>12, <1>14, <1>15 DEF Inv
<1> QED BY Zenon, <1>16 DEF IInv

LEMMA StutterInv ==
  ASSUME NEW V, Inv(V), UNCHANGED vars
  PROVE  Inv(V)'
<1>0. UNCHANGED <<wal, synced, nextSeq, log, statuses, kv, status, watermark, phase, open, seq, reinsert,
                  checkpoints, prev, mark, mode, at, replayed, bare, crashes, promised>>
  BY Zenon DEF vars, protocolVars
<1>1. TypeOK' /\ LogInv' /\ Verdict(V)' /\ Safe /\ Grows
  <2>1. synced' \in synced..Len(wal)
    BY <1>0 DEF Inv, TypeOK
  <2> QED BY ZenonT(40), <1>0, <2>1, LogSame, VerdictSame, SafeSame DEF Inv, TypeOK, Grows
<1>2. watermark <= watermark' /\ \A s \in Slot : Settled(s) => Settled(s)'
  <2>1. watermark <= watermark'
    BY <1>0, Numbers DEF Inv
  <2> QED BY Zenon, <1>0, <2>1 DEF Settled
<1>3. Agrees(V)' /\ KeyspacesInv(V)' /\ CheckpointsInv(V)' /\ UnderWay(V)'
  BY Zenon, <1>0, <1>1, <1>2, AgreesSame, KeyspacesSame, CheckpointsSame, UnderWaySame
     DEF Inv, Serving, Running, UnderWay
<1>4. ASSUME NEW u \in Txn PROVE PhaseInv(u)'
  BY Zenon, <1>0, <1>1, PhaseKept DEF Inv, PhaseInv
<1>5. (Serving' => SlotsInv') /\ Owned'
  BY Zenon, <1>0, SlotsSame DEF Inv, Serving, Owned
<1>6. ReplayInv'
  <2>1. Latest' = Latest
    BY Zenon, <1>0 DEF Latest
  <2> QED BY Zenon, <1>0, <2>1 DEF Inv, ReplayInv, Complete
<1> QED BY Zenon, <1>1, <1>3, <1>4, <1>5, <1>6 DEF Inv

LEMMA NextInv ==
  ASSUME IInv, [RecoveryNext]_vars
  PROVE  IInv'
<1>1. PICK V \in SUBSET Slot : Inv(V)
  BY Zenon DEF IInv
<1>2. SUFFICES ASSUME RecoveryNext PROVE \E W \in SUBSET Slot : Inv(W)'
  <2>1. (\E W \in SUBSET Slot : Inv(W)') => IInv'
    BY Zenon DEF IInv
  <2> QED BY Zenon, <1>1, <2>1, StutterInv
<1>3. ASSUME NEW t \in Txn, Commit(t) PROVE \E W \in SUBSET Slot : Inv(W)'
  BY Zenon, <1>1, <1>3, OpenStep, RecordStep, DecideStep, KeyspacesStep, AppliedStep, PersistStep
     DEF Commit
<1>4. CASE MoveWatermark \/ Sync
  BY Zenon, <1>1, <1>4, WatermarkStep, SyncStep
<1>5. CASE Checkpointer
  BY Zenon, <1>1, <1>5, BeginStep, CopyStep, MetadataStep, FinishStep DEF Checkpointer
<1>6. CASE Crash
  BY Zenon, <1>1, <1>6, CrashStep
<1>7. CASE Load
  <2>1. (FailRestore \/ ReplayPanic) => mode \in {"down", "replaying"} /\ Fail
    BY Zenon DEF FailRestore, ReplayPanic, Replaying
  <2> QED BY Zenon, <1>1, <1>7, <2>1, FailStep, RestoreStep, LoadValidatedStep, LoadAbortedStep,
             ReplayValidStep, ReplayConflictStep, EndReplayStep DEF Load
<1> QED BY Zenon, <1>2, <1>3, <1>4, <1>5, <1>6, <1>7 DEF RecoveryNext

LEMMA RecoveryInvariant == RecoverySpec => []IInv
<1>1. RecoveryInit => IInv
  BY Zenon, InitInv
<1>2. IInv /\ [RecoveryNext]_vars => IInv'
  BY Zenon, NextInv
<1> QED BY <1>1, <1>2, PTL DEF RecoverySpec

\* In every state of the recovery the variables have their types.
THEOREM RecoveryTypes == RecoverySpec => []TypeOK
<1>1. IInv => TypeOK
  BY Zenon DEF IInv, Inv
<1> QED BY <1>1, RecoveryInvariant, PTL

\* A commit of which a client was told, or that a snapshot could see, is in the log
\* and in the keyspaces whenever the server is up, none of a rejected one is, and no
\* status record says otherwise, however often and wherever the server went down
\* (snapshot_commit, apply_recovered).
THEOREM Promises == RecoverySpec => []PromisesKept
<1>1. IInv => PromisesKept
  <2>1. SUFFICES ASSUME NEW V, Inv(V), Serving, NEW s \in Slot
                 PROVE  /\ promised[s] = "Committed" => /\ log[s] # NoRecord /\ Whole(kv, s)
                                                        /\ statuses[s] # "Rejected"
                        /\ promised[s] = "Rejected" => Absent(kv, s) /\ statuses[s] # "Committed"
    BY Zenon DEF IInv, PromisesKept
  <2>2. promised[s] # "None" => s < nextSeq
    BY Zenon, <2>1, SyncedBelow DEF Inv, Agrees
  <2>3. ASSUME promised[s] = "Committed"
        PROVE  log[s] # NoRecord /\ Whole(kv, s) /\ statuses[s] # "Rejected"
    BY Zenon, <2>1, <2>2, <2>3 DEF Inv, Agrees, LogInv, SlotsInv
  <2>4. ASSUME promised[s] = "Rejected" PROVE Absent(kv, s) /\ statuses[s] # "Committed"
    <3>1. s \notin V /\ s < nextSeq /\ statuses[s] # "Committed"
      BY Zenon, <2>1, <2>2, <2>4 DEF Inv, Agrees
    <3>2. PICK m : Founded(V, kv, m)
      BY Zenon, <2>1 DEF Inv, KeyspacesInv
    <3>3. Absent(kv, s)
      BY Zenon, <2>1, <3>1, <3>2 DEF Absent, Founded
    <3> QED BY Zenon, <3>1, <3>3
  <2> QED BY Zenon, <2>3, <2>4
<1> QED BY <1>1, RecoveryInvariant, PTL

\* The commits up to the watermark are in the keyspaces as a whole or not at all, and
\* a checkpoint has all the writes of the commits up to its watermark, although
\* commits are written while keyspaces are copied (add_storage, MVCCStorage::load).
THEOREM CommitsWhole == RecoverySpec => []WholeCommits
<1>1. IInv => CheckpointCovers
  <2>1. SUFFICES ASSUME NEW V, Inv(V), NEW i \in DOMAIN checkpoints, NEW s \in Slot,
                        s <= checkpoints[i].mark, log[s] # NoRecord, status[s] = "Applied"
                 PROVE  Whole(checkpoints[i].data, s)
    BY Zenon DEF IInv, CheckpointCovers
  <2>2. s \in V
    BY Zenon, <2>1 DEF Inv, LogInv, Agrees
  <2>3. Complete(checkpoints[i])
    <3>1. ~(s <= NoMark)
      BY <2>1, Numbers DEF Inv, NoMark
    <3> QED BY Zenon, <2>1, <3>1 DEF Complete
  <2>4. PICK d, m : d = checkpoints[i].data /\ m = checkpoints[i].mark
    BY Zenon
  <2>5. s <= m /\ \A k \in Key : CoversKey(V, d, m, k)
    BY Zenon, <2>1, <2>3, <2>4 DEF Inv, CheckpointsInv
  <2> QED BY Zenon, <2>2, <2>4, <2>5, CoveredWhole
<1>2. ASSUME IInv, Serving, NEW s \in Slot, s <= watermark
      PROVE  IF status[s] = "Applied" THEN Whole(kv, s) ELSE Absent(kv, s)
  <2>1. PICK V : Inv(V)
    BY Zenon, <1>2 DEF IInv
  <2>2. status[s] = "Applied" => Whole(kv, s)
    BY Zenon, <1>2, <2>1 DEF Inv, SlotsInv
  <2>3. ASSUME status[s] # "Applied" PROVE Absent(kv, s)
    <3>1. status[s] = "Aborted" /\ s < nextSeq
      BY Zenon, <1>2, <2>1, <2>3 DEF Inv, SlotsInv, Settled
    <3>2. s \notin V
      BY Zenon, <2>1, <3>1 DEF Inv, Agrees
    <3>3. PICK m : Founded(V, kv, m)
      BY Zenon, <1>2, <2>1 DEF Inv, KeyspacesInv
    <3> QED BY Zenon, <3>1, <3>2, <3>3 DEF Absent, Founded
  <2> QED BY Zenon, <2>2, <2>3
<1>3. IInv => WholeCommits
  BY Zenon, <1>1, <1>2 DEF WholeCommits
<1> QED BY <1>3, RecoveryInvariant, PTL

\* Every slot above the watermark has a commit of this run of the server, which has
\* settled it when it returns: recovery leaves no slot behind (MVCCStorage::load).
THEOREM SlotsOwned == RecoverySpec => []NoOrphanSlot
<1>1. IInv => NoOrphanSlot
  <2>1. SUFFICES ASSUME NEW V, Inv(V), mode = "up", NEW s \in Slot, watermark < s, s < nextSeq
                 PROVE  \E t \in Txn : /\ seq[t] = s
                                       /\ phase[t] = "returned" => status[s] \in {"Applied", "Aborted"}
    BY Zenon DEF IInv, NoOrphanSlot
  <2>2. PICK t \in Txn : seq[t] = s
    BY Zenon, <2>1 DEF Inv, Owned
  <2>3. s # 0
    BY DEF Slot
  <2>4. phase[t] = "returned" => status[s] \in {"Applied", "Aborted"}
    BY Zenon, <2>1, <2>2, <2>3 DEF Inv, PhaseInv, Settled
  <2> QED BY Zenon, <2>2, <2>4
<1> QED BY <1>1, RecoveryInvariant, PTL
=============================================================================
