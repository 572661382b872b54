------------------------ MODULE DatabaseSchemaProofs ------------------------
(***************************************************************************)
(* Proofs about what a database keeps beside its storage: that the counts  *)
(* may_synchronise leaves are what a snapshot at their number reads, that  *)
(* a transaction's caches are those of its snapshot's schema, that no plan *)
(* outlives the schema it was made for, and that a statistics record comes *)
(* before every schema commit.                                             *)
(*                                                                         *)
(* The first part is about the algorithm alone, on any log: the delta of a *)
(* write (DeltaExact), a run of commits (RunningExact) and the loop        *)
(* (LoopTracked, SynchroniseTracked).  The second says how the log grows   *)
(* (Later) and what that leaves as it was.  The third is the inductive     *)
(* invariant Inv, one lemma for each of its parts.                         *)
(***************************************************************************)
EXTENDS DatabaseSchema, WellFoundedInduction, TLAPS

\* A nonempty set of numbers has a least element.  Induction is used in this form.
LEMMA LeastNumber ==
  ASSUME NEW T \in SUBSET Nat, T # {}
  PROVE  \E n \in T : \A m \in T : n <= m
<1> DEFINE R == OpToRel(<, Nat)
<1>1. IsWellFoundedOn(R, Nat)
  BY Zenon, NatLessThanWellFounded
<1>2. \A x, y \in Nat : y < x => <<y, x>> \in R
  BY Zenon DEF OpToRel
<1> HIDE DEF R
<1>3. PICK x \in T : \A y \in T : ~ (<<y, x>> \in R)
  BY Zenon, <1>1, WFMin
<1>4. ASSUME NEW y \in T PROVE x <= y
  <2>1. x \in Nat /\ y \in Nat /\ ~ (y < x)
    BY Zenon, <1>2, <1>3
  <2> QED BY <2>1
<1> QED BY Zenon, <1>4

\* An element that no other exceeds is the maximum.
LEMMA MaxIs ==
  ASSUME NEW T \in SUBSET Int, NEW x \in T, \A y \in T : x >= y
  PROVE  Max(T) = x
<1> DEFINE m == Max(T)
<1>1. m \in T /\ \A y \in T : m >= y
  BY Zenon DEF Max
<1> HIDE DEF m
<1>2. m \in Int /\ x \in Int /\ m >= x /\ x >= m
  BY Zenon, <1>1
<1>3. m = x
  BY <1>2
<1> QED BY Zenon, <1>3 DEF m

\* An element that exceeds no other is the minimum.
LEMMA MinIs ==
  ASSUME NEW T \in SUBSET Int, NEW x \in T, \A y \in T : x =< y
  PROVE  Min(T) = x
<1> DEFINE m == Min(T)
<1>1. m \in T /\ \A y \in T : m =< y
  BY Zenon DEF Min
<1> HIDE DEF m
<1>2. m \in Int /\ x \in Int /\ m =< x /\ x =< m
  BY Zenon, <1>1
<1>3. m = x
  BY <1>2
<1> QED BY Zenon, <1>3 DEF m

\* A nonempty set of numbers with a bound has a maximum.
LEMMA BoundedMax ==
  ASSUME NEW T \in SUBSET Nat, T # {}, NEW b \in Nat, \A n \in T : n <= b
  PROVE  Max(T) \in T /\ \A n \in T : n <= Max(T)
<1> DEFINE B == {m \in Nat : \A n \in T : n <= m}
<1>1. PICK m \in B : \A k \in B : m <= k
  <2>1. b \in B
    BY Zenon
  <2> QED BY Zenon, <2>1, LeastNumber
<1>2. m \in T
  <2> SUFFICES ASSUME m \notin T PROVE FALSE
    BY Zenon
  <2>1. PICK n \in T : TRUE
    BY Zenon
  <2>2. m - 1 \in B
    BY <2>1
  <2> QED BY <1>1, <2>2
<1>3. Max(T) = m
  BY <1>2, MaxIs
<1> QED BY Zenon, <1>2, <1>3

\* The running count satisfies its recursion: the function exists, by induction on the
\* length of the log.
LEMMA RunningDef ==
  ASSUME NEW st, NEW lg, NEW k, NEW C, st.seq \in Nat, Len(lg) \in Nat
  PROVE  \A i \in st.seq..Len(lg) :
            Running(st, lg, k, C)[i] =
              IF i = st.seq THEN st.counts[k]
              ELSE Running(st, lg, k, C)[i - 1]
                   + IF i \in C /\ k \in Written(lg[i].ops) THEN WriteToDelta(lg, k, i, C) ELSE 0
<1> DEFINE a == st.seq
           d(i) == IF i \in C /\ k \in Written(lg[i].ops) THEN WriteToDelta(lg, k, i, C) ELSE 0
           base == st.counts[k]
           Solves(f, b) == f = [i \in a..b |-> IF i = a THEN base ELSE f[i - 1] + d(i)]
           T == {n \in Nat : ~ \E f : Solves(f, a + n)}
<1>0. a \in Nat
  BY Zenon
<1> HIDE DEF d, base, a
<1>1. T = {}
  <2> SUFFICES ASSUME T # {} PROVE FALSE
    BY Zenon
  <2>1. PICK n \in T : \A m \in T : n <= m
    BY Zenon, LeastNumber
  <2>2. CASE n = 0
    <3> DEFINE g == [i \in a..(a + 0) |-> base]
    <3>1. Solves(g, a + 0)
      BY <1>0
    <3> QED BY <2>1, <2>2, <3>1, Zenon
  <2>3. CASE n # 0
    <3>1. n - 1 \in Nat /\ n - 1 \notin T
      BY <2>1, <2>3
    <3>2. PICK f : Solves(f, a + (n - 1))
      BY Zenon, <3>1
    <3> DEFINE g == [i \in a..(a + n) |-> IF i = a + n THEN f[i - 1] + d(i) ELSE f[i]]
    <3>3. Solves(g, a + n)
      BY <1>0, <2>1, <2>3, <3>2
    <3> QED BY <2>1, <3>3, Zenon
  <2> QED BY Zenon, <2>2, <2>3
<1>2. \E f : Solves(f, Len(lg))
  <2>1. CASE Len(lg) >= a
    <3>1. Len(lg) - a \in Nat /\ a + (Len(lg) - a) = Len(lg)
      BY <1>0, <2>1
    <3>2. Len(lg) - a \notin T
      BY Zenon, <1>1
    <3>3. \E f : Solves(f, a + (Len(lg) - a))
      BY Zenon, <3>1, <3>2
    <3> QED BY <3>1, <3>3, Zenon
  <2>2. CASE ~ (Len(lg) >= a)
    <3> DEFINE g == [i \in a..Len(lg) |-> base]
    <3>1. Solves(g, Len(lg))
      BY <1>0, <2>2
    <3> QED BY <3>1, Zenon
  <2> QED BY Zenon, <2>1, <2>2
<1>3. Running(st, lg, k, C) = CHOOSE f : Solves(f, Len(lg))
  BY Zenon DEF Running, a, d, base
<1>4. Solves(Running(st, lg, k, C), Len(lg))
  BY <1>2, <1>3, Zenon
<1> DEFINE run == Running(st, lg, k, C)
<1> HIDE DEF run
<1>5. \A i \in a..Len(lg) : run[i] = IF i = a THEN base ELSE run[i - 1] + d(i)
  BY Zenon, <1>4 DEF run
<1> QED BY Zenon, <1>5 DEF run, a, d, base

\* The entries of the log
Commit ==
    [type : {"data", "schema"}, open : Nat, ops : Ops,
     status : {"pending", "applied", "aborted", "validated", "rejected"}, flushed : Nat,
     lost : SUBSET Nat]

\* What every log holds: a commit's operations were possible for a transaction that reads
\* at its number, all commits up to which were decided.
WellFormed(lg) ==
    /\ lg \in Seq(Commit)
    /\ \A i \in DOMAIN lg :
        /\ lg[i].open < i
        /\ \A j \in 1..lg[i].open : lg[j].status # "pending"
        /\ lg[i].ops.inserts \subseteq ObjectKey
        /\ lg[i].ops.puts \cap (ObjectKey \cup lg[i].ops.deletes) = {}
        /\ \A j \in 1..(i - 1) : lg[i].ops.inserts \cap lg[j].ops.inserts = {}
        /\ \A k \in lg[i].ops.deletes : Present(lg, k, lg[i].open)
        /\ lg[i].ops.reinsert = {k \in lg[i].ops.puts : ~Present(lg, k, lg[i].open)}

\* The key was deleted by two committed commits, of which the later did not see the earlier.
RacedIn(lg, k) ==
    \E i, j \in Committed(lg, Len(lg)) :
        i < j /\ lg[j].open < i /\ k \in lg[i].ops.deletes \cap lg[j].ops.deletes

\* The count of a key that is there, or is not
Bit(b) == IF b THEN 1 ELSE 0

\* The watermark is the last number up to which nothing is pending.
LEMMA WatermarkFacts ==
  ASSUME NEW lg, Len(lg) \in Nat, DOMAIN lg = 1..Len(lg)
  PROVE  /\ Watermark(lg) \in 0..Len(lg)
         /\ \A i \in 1..Watermark(lg) : lg[i].status # "pending"
         /\ \A s \in DOMAIN lg : (\A i \in 1..s : lg[i].status # "pending") => s <= Watermark(lg)
<1> DEFINE T == {0} \cup {s \in DOMAIN lg : \A i \in 1..s : lg[i].status # "pending"}
<1>1. T \in SUBSET Nat /\ T # {} /\ \A n \in T : n <= Len(lg)
  OBVIOUS
<1>2. Max(T) \in T /\ \A n \in T : n <= Max(T)
  <2> HIDE DEF T
  <2> QED BY Zenon, <1>1, BoundedMax
<1>3. Watermark(lg) = Max(T)
  BY Zenon DEF Watermark
<1> HIDE DEF T
<1>4. Watermark(lg) \in T /\ \A n \in T : n <= Watermark(lg)
  BY Zenon, <1>2, <1>3
<1> QED BY <1>4 DEF T

\* What the number of a reader adds when it moves by one commit
LEMMA PresentStep ==
  ASSUME NEW lg, NEW k, NEW i \in Nat \ {0}
  PROVE  /\ i \notin Committed(lg, i) \/ k \notin Written(lg[i].ops) =>
               (Present(lg, k, i) <=> Present(lg, k, i - 1))
         /\ i \in Committed(lg, i) /\ k \in Written(lg[i].ops) =>
               (Present(lg, k, i) <=> k \notin lg[i].ops.deletes)
<1> DEFINE W(s) == {j \in Committed(lg, s) : k \in Written(lg[j].ops)}
<1>0. \A s : Present(lg, k, s) <=> W(s) # {} /\ k \notin lg[Max(W(s))].ops.deletes
  BY Zenon DEF Present
<1>1. ASSUME i \notin Committed(lg, i) \/ k \notin Written(lg[i].ops)
      PROVE  W(i) = W(i - 1)
  BY <1>1 DEF Committed
<1>2. ASSUME i \in Committed(lg, i), k \in Written(lg[i].ops)
      PROVE  W(i) # {} /\ Max(W(i)) = i
  <2>1. W(i) \in SUBSET Int /\ i \in W(i) /\ \A y \in W(i) : i >= y
    BY <1>2 DEF Committed
  <2> HIDE DEF W
  <2> QED BY Zenon, <2>1, MaxIs
<1> HIDE DEF W
<1>3. i \notin Committed(lg, i) \/ k \notin Written(lg[i].ops) =>
        (Present(lg, k, i) <=> Present(lg, k, i - 1))
  BY <1>0, <1>1, Zenon
<1>4. i \in Committed(lg, i) /\ k \in Written(lg[i].ops) =>
        (Present(lg, k, i) <=> k \notin lg[i].ops.deletes)
  BY Zenon, <1>0, <1>2
<1> QED BY <1>3, <1>4, Zenon

\* A key stays as it is while nobody writes it, and stays there while nobody deletes it.
LEMMA PresentKept ==
  ASSUME NEW lg, NEW k, NEW a \in Nat, NEW b \in Nat, a <= b
  PROVE  /\ (\A j \in Committed(lg, b) : a < j => k \notin Written(lg[j].ops))
               => (Present(lg, k, b) <=> Present(lg, k, a))
         /\ Present(lg, k, a)
               /\ (\A j \in Committed(lg, b) : a < j => k \notin lg[j].ops.deletes)
               => Present(lg, k, b)
<1> DEFINE P1(n) == (\A j \in Committed(lg, n) : a < j => k \notin Written(lg[j].ops))
                      => (Present(lg, k, n) <=> Present(lg, k, a))
           P2(n) == Present(lg, k, a)
                      /\ (\A j \in Committed(lg, n) : a < j => k \notin lg[j].ops.deletes)
                      => Present(lg, k, n)
           T == {n \in a..b : ~ (P1(n) /\ P2(n))}
<1>1. T = {}
  <2> SUFFICES ASSUME T # {} PROVE FALSE
    BY Zenon
  <2>1. PICK n \in T : \A m \in T : n <= m
    <3>1. T \in SUBSET Nat
      OBVIOUS
    <3> HIDE DEF T
    <3> QED BY Zenon, <3>1, LeastNumber
  <2>2. n \in a..b /\ ~ (P1(n) /\ P2(n)) /\ P1(a) /\ P2(a)
    BY <2>1, Zenon
  <2>3. n # a
    BY <2>2, Zenon
  <2>4. n - 1 \in a..b /\ n \in Nat \ {0} /\ a < n
    BY <2>2, <2>3
  <2>5. P1(n - 1) /\ P2(n - 1)
    <3> HIDE DEF P1, P2
    <3> QED BY <2>1, <2>2, <2>4
  <2>6. \A j : j \in Committed(lg, n - 1) => j \in Committed(lg, n)
    BY <2>4 DEF Committed
  <2>7. \/ (Present(lg, k, n) <=> Present(lg, k, n - 1))
        \/ n \in Committed(lg, n) /\ k \in Written(lg[n].ops)
             /\ (Present(lg, k, n) <=> k \notin lg[n].ops.deletes)
    BY <2>4, PresentStep, Zenon
  <2>8. P1(n)
    BY <2>4, <2>5, <2>6, <2>7, Zenon
  <2>9. P2(n)
    BY <2>4, <2>5, <2>6, <2>7, Zenon
  <2> QED BY <2>2, <2>8, <2>9, Zenon
<1>2. P1(b) /\ P2(b)
  <2> HIDE DEF P1, P2
  <2> QED BY <1>1
<1> QED BY <1>2, Zenon

\* A key that a read sees was written by a commit that the read sees.
LEMMA PresentWriter ==
  ASSUME NEW lg, NEW k, NEW s \in Nat, Present(lg, k, s)
  PROVE  \E w \in Committed(lg, s) : k \in Written(lg[w].ops) /\ k \notin lg[w].ops.deletes
<1> DEFINE W == {j \in Committed(lg, s) : k \in Written(lg[j].ops)}
<1>1. W # {} /\ k \notin lg[Max(W)].ops.deletes
  BY Zenon DEF Present
<1>2. W \in SUBSET Nat /\ \A n \in W : n <= s
  BY DEF Committed
<1>3. Max(W) \in W
  <2> HIDE DEF W
  <2> QED BY Zenon, <1>1, <1>2, BoundedMax
<1> QED BY <1>1, <1>3, Zenon

\* An object key is written by nobody before the commit that inserts it.
LEMMA InsertFresh ==
  ASSUME NEW lg, WellFormed(lg), NEW i \in DOMAIN lg, NEW k \in lg[i].ops.inserts
  PROVE  /\ \A j \in 1..(i - 1) : k \notin Written(lg[j].ops)
         /\ k \notin lg[i].ops.deletes
<1>0. DOMAIN lg = 1..Len(lg) /\ Len(lg) \in Nat /\ \A j \in DOMAIN lg : lg[j] \in Commit
  BY DEF WellFormed
<1>1. k \in ObjectKey
  BY Zenon DEF WellFormed
<1>2. \A j \in 1..(i - 1) : j \in DOMAIN lg /\ k \notin lg[j].ops.inserts \cup lg[j].ops.puts
  BY <1>0, <1>1 DEF WellFormed
<1>3. ASSUME NEW j \in 1..i PROVE k \notin lg[j].ops.deletes
  <2> SUFFICES ASSUME k \in lg[j].ops.deletes PROVE FALSE
    BY Zenon
  <2>1. j \in DOMAIN lg /\ Present(lg, k, lg[j].open) /\ lg[j].open \in Nat /\ lg[j].open < j
    <3>1. j \in DOMAIN lg
      BY <1>0
    <3> QED BY Zenon, <1>0, <3>1 DEF WellFormed, Commit
  <2>2. PICK w \in Committed(lg, lg[j].open) :
            k \in Written(lg[w].ops) /\ k \notin lg[w].ops.deletes
    BY Zenon, <2>1, PresentWriter
  <2>3. w \in 1..(i - 1)
    BY <1>0, <2>1 DEF Committed
  <2> QED BY Zenon, <1>2, <2>2, <2>3 DEF Written
<1>4. \A j \in 1..(i - 1) : j \in 1..i
  BY <1>0
<1>5. i \in 1..i
  BY <1>0
<1> QED BY Zenon, <1>2, <1>3, <1>4, <1>5 DEF Written

\* write_to_delta finds what the commit i changes in the presence of k, if it is given
\* every commit from the first one it is given up to i.
LEMMA DeltaExact ==
  ASSUME NEW lg, WellFormed(lg), NEW k, ~RacedIn(lg, k),
         NEW C, C \subseteq Committed(lg, Len(lg)), NEW i \in C, k \in Written(lg[i].ops),
         \A j \in Committed(lg, i - 1) : (\E c \in C : c <= j) => j \in C
  PROVE  WriteToDelta(lg, k, i, C) = Bit(Present(lg, k, i)) - Bit(Present(lg, k, i - 1))
<1> DEFINE op == lg[i].ops
           concurrent == {j \in C : lg[i].open < j /\ j < i /\ k \in Written(lg[j].ops)}
<1>0. DOMAIN lg = 1..Len(lg) /\ Len(lg) \in Nat /\ \A j \in DOMAIN lg : lg[j] \in Commit
  BY DEF WellFormed
<1>1. /\ i \in DOMAIN lg /\ i \in Nat \ {0} /\ i \in Committed(lg, i) /\ i \in Committed(lg, Len(lg))
      /\ lg[i].open \in Nat /\ lg[i].open < i
  BY <1>0 DEF Committed, WellFormed, Commit
<1>2. Present(lg, k, i) <=> k \notin op.deletes
  BY <1>1, PresentStep, Zenon
<1>3. /\ \A j \in Committed(lg, i - 1) : j \in Nat /\ j < i /\ j \in Committed(lg, Len(lg))
      /\ lg[i].open <= i - 1 /\ i - 1 \in Nat
  BY <1>0, <1>1 DEF Committed
<1>4. \A j \in C : j < i => j \in Committed(lg, i - 1)
  BY <1>0, <1>1 DEF Committed
<1>5. CASE k \in op.inserts
  <2>1. k \notin op.deletes /\ \A j \in 1..(i - 1) : k \notin Written(lg[j].ops)
    BY Zenon, <1>1, <1>5, InsertFresh
  <2>2. ~Present(lg, k, i - 1)
    <3>1. \A w \in Committed(lg, i - 1) : w \in 1..(i - 1)
      BY Zenon DEF Committed
    <3> QED BY Zenon, <1>3, <2>1, <3>1, PresentWriter
  <2>3. WriteToDelta(lg, k, i, C) = 1
    BY Zenon, <1>5 DEF WriteToDelta
  <2> QED BY <1>2, <2>1, <2>2, <2>3 DEF Bit
<1>6. CASE k \notin op.inserts /\ k \in op.deletes
  <2>1. \A j \in Committed(lg, i - 1) : lg[i].open < j => k \notin lg[j].ops.deletes
    BY Zenon, <1>1, <1>3, <1>6 DEF RacedIn
  <2>2. Present(lg, k, i - 1)
    <3>1. Present(lg, k, lg[i].open)
      BY Zenon, <1>1, <1>6 DEF WellFormed
    <3> QED BY Zenon, <1>1, <1>3, <2>1, <3>1, PresentKept
  <2>3. ~ \E j \in concurrent : k \in lg[j].ops.deletes
    BY Zenon, <1>4, <2>1
  <2>4. WriteToDelta(lg, k, i, C) = -1
    BY Zenon, <1>6, <2>3 DEF WriteToDelta
  <2> QED BY <1>2, <1>6, <2>2, <2>4 DEF Bit
<1>7. CASE k \notin op.inserts /\ k \notin op.deletes
  <2>0. k \in op.puts
    BY Zenon, <1>7 DEF Written
  <2>1. CASE concurrent # {}
    <3> DEFINE x == Max(concurrent)
    <3>1. x \in concurrent /\ \A j \in concurrent : j <= x
      <4>1. concurrent \in SUBSET Nat /\ \A j \in concurrent : j <= i
        BY <1>1, <1>3, <1>4
      <4> HIDE DEF concurrent
      <4> QED BY Zenon, <1>1, <2>1, <4>1, BoundedMax
    <3> HIDE DEF x
    <3>2. \A j \in Committed(lg, i - 1) : x < j => k \notin Written(lg[j].ops)
      BY <1>1, <1>3, <1>4, <3>1
    <3>3. x \in Nat \ {0} /\ x <= i - 1 /\ x \in Committed(lg, x) /\ k \in Written(lg[x].ops)
      BY <1>1, <1>4, <3>1 DEF Committed
    <3>4. Present(lg, k, x) <=> k \notin lg[x].ops.deletes
      BY Zenon, <3>3, PresentStep
    <3>5. Present(lg, k, i - 1) <=> Present(lg, k, x)
      BY Zenon, <1>3, <3>2, <3>3, PresentKept
    <3>6. WriteToDelta(lg, k, i, C) = IF k \in lg[x].ops.deletes THEN 1 ELSE 0
      BY Zenon, <1>7, <2>1 DEF WriteToDelta, x
    <3> QED BY <1>2, <1>7, <3>4, <3>5, <3>6 DEF Bit
  <2>2. CASE concurrent = {} /\ lg[i].open + 1 < Min(C)
    <3>1. WriteToDelta(lg, k, i, C) = IF Present(lg, k, i - 1) THEN 0 ELSE 1
      BY Zenon, <1>7, <2>2 DEF WriteToDelta
    <3> QED BY <1>2, <1>7, <3>1 DEF Bit
  <2>3. CASE concurrent = {} /\ ~ (lg[i].open + 1 < Min(C))
    <3>1. Min(C) \in C /\ Min(C) \in Nat
      <4>1. C \in SUBSET Nat /\ C # {}
        BY DEF Committed
      <4>2. PICK n \in C : \A m \in C : n <= m
        BY Zenon, <4>1, LeastNumber
      <4>3. Min(C) = n
        BY <4>1, <4>2, MinIs
      <4> QED BY Zenon, <4>1, <4>2, <4>3
    <3>2. \A j \in Committed(lg, i - 1) : lg[i].open < j => k \notin Written(lg[j].ops)
      BY <1>1, <1>3, <2>3, <3>1
    <3>3. Present(lg, k, i - 1) <=> Present(lg, k, lg[i].open)
      BY Zenon, <1>1, <1>3, <3>2, PresentKept
    <3>4. k \in op.reinsert <=> ~Present(lg, k, lg[i].open)
      BY Zenon, <1>1, <2>0 DEF WellFormed
    <3>5. WriteToDelta(lg, k, i, C) = IF k \in op.reinsert THEN 1 ELSE 0
      BY Zenon, <1>7, <2>3 DEF WriteToDelta
    <3> QED BY <1>2, <1>7, <3>3, <3>4, <3>5 DEF Bit
  <2> QED BY Zenon, <2>1, <2>2, <2>3
<1> QED BY Zenon, <1>5, <1>6, <1>7

\* The count of k is what a read at the number of the statistics sees.
Exact(st, lg, k) == st.counts[k] = Bit(Present(lg, k, st.seq))

\* The commits C are the ones that update_writes needs to go on from the number q up to e.
Feeds(lg, C, q, e) ==
    /\ C \subseteq Committed(lg, e)
    /\ \A j \in Committed(lg, e) : q < j => j \in C
    /\ \A i \in C : \A j \in Committed(lg, i - 1) : q < i /\ (\E c \in C : c <= j) => j \in C

\* update_writes: the running count is exact at every commit that it has passed, if it was
\* at the first and the key was not deleted twice.
LEMMA RunningExact ==
  ASSUME NEW lg, WellFormed(lg), NEW k, ~RacedIn(lg, k), NEW st, Exact(st, lg, k),
         st.seq \in Nat, NEW e \in Nat, st.seq <= e, e <= Len(lg), NEW C, Feeds(lg, C, st.seq, e)
  PROVE  Running(st, lg, k, C)[Len(lg)] = Bit(Present(lg, k, e))
<1> DEFINE q == st.seq
           run == Running(st, lg, k, C)
           P(n) == run[n] = Bit(Present(lg, k, IF n <= e THEN n ELSE e))
           T == {n \in q..Len(lg) : ~P(n)}
<1>0. Len(lg) \in Nat /\ q \in Nat
  BY DEF WellFormed
<1>1. \A n \in q..Len(lg) :
        run[n] = IF n = q THEN st.counts[k]
                 ELSE run[n - 1] + IF n \in C /\ k \in Written(lg[n].ops)
                                   THEN WriteToDelta(lg, k, n, C) ELSE 0
  BY <1>0, RunningDef
<1> HIDE DEF run
<1>2. T = {}
  <2> SUFFICES ASSUME T # {} PROVE FALSE
    BY Zenon
  <2>1. PICK n \in T : \A m \in T : n <= m
    <3>1. T \in SUBSET Nat
      BY <1>0
    <3> HIDE DEF T
    <3> QED BY Zenon, <3>1, LeastNumber
  <2>2. n \in q..Len(lg) /\ ~P(n)
    BY <2>1, Zenon
  <2>3. CASE n = q
    BY Zenon, <1>0, <1>1, <2>2, <2>3 DEF Exact
  <2>4. CASE n # q
    <3>1. n - 1 \in q..Len(lg) /\ n \in Nat \ {0} /\ n \in 1..Len(lg) /\ q < n
      BY <1>0, <2>2, <2>4
    <3>2. P(n - 1)
      <4> HIDE DEF P
      <4> QED BY <1>0, <2>1, <2>2, <3>1
    <3>3. CASE n > e
      <4>1. n \notin C
        BY <1>0, <2>2, <3>3 DEF Feeds, Committed
      <4>2. run[n] = run[n - 1] + 0
        BY Zenon, <1>1, <2>2, <2>4, <4>1
      <4>3. (IF n <= e THEN n ELSE e) = e /\ (IF n - 1 <= e THEN n - 1 ELSE e) = e
        BY <1>0, <2>2, <3>3
      <4> QED BY <2>2, <3>2, <4>2, <4>3 DEF Bit
    <3>4. CASE n <= e
      <4>0. (IF n <= e THEN n ELSE e) = n /\ (IF n - 1 <= e THEN n - 1 ELSE e) = n - 1
        BY <1>0, <2>2, <3>4
      <4>1. run[n - 1] = Bit(Present(lg, k, n - 1)) /\ run[n] # Bit(Present(lg, k, n))
        BY Zenon, <2>2, <3>2, <4>0
      <4>2. n \in C <=> n \in Committed(lg, n)
        BY <1>0, <3>1, <3>4 DEF Feeds, Committed
      <4>3. CASE n \in C /\ k \in Written(lg[n].ops)
        <5>1. WriteToDelta(lg, k, n, C) = Bit(Present(lg, k, n)) - Bit(Present(lg, k, n - 1))
          <6>1. C \subseteq Committed(lg, Len(lg))
            BY <1>0 DEF Feeds, Committed
          <6>2. \A j \in Committed(lg, n - 1) : (\E c \in C : c <= j) => j \in C
            BY Zenon, <3>1, <4>3 DEF Feeds
          <6> QED BY Zenon, <4>3, <6>1, <6>2, DeltaExact
        <5>2. run[n] = run[n - 1] + WriteToDelta(lg, k, n, C)
          BY Zenon, <1>1, <2>2, <2>4, <4>3
        <5> QED BY <4>1, <5>1, <5>2 DEF Bit
      <4>4. CASE ~ (n \in C /\ k \in Written(lg[n].ops))
        <5>1. Present(lg, k, n) <=> Present(lg, k, n - 1)
          BY Zenon, <3>1, <4>2, <4>4, PresentStep
        <5>2. run[n] = run[n - 1] + 0
          BY Zenon, <1>1, <2>2, <2>4, <4>4
        <5> QED BY <4>1, <5>1, <5>2 DEF Bit
      <4> QED BY Zenon, <4>3, <4>4
    <3> QED BY <1>0, <2>2, <3>3, <3>4
  <2> QED BY Zenon, <2>3, <2>4
<1>3. P(Len(lg))
  <2> HIDE DEF P
  <2> QED BY <1>0, <1>2
<1>4. (IF Len(lg) <= e THEN Len(lg) ELSE e) = e
  BY <1>0
<1> QED BY <1>3, <1>4, Zenon DEF run

\* What update_writes does when it is given the commits it needs to get to e
LEMMA UpdateFacts ==
  ASSUME NEW lg, WellFormed(lg), NEW st, st.seq \in Nat, NEW e \in Nat, st.seq <= e, e <= Len(lg),
         NEW C, Feeds(lg, C, st.seq, e)
  PROVE  LET up == UpdateWrites(st, lg, C)
         IN /\ up.durable = st.durable /\ up.records = st.records
            /\ up.seq \in Nat /\ st.seq <= up.seq /\ up.seq <= e
            /\ \A j \in Committed(lg, e) : j <= up.seq
            /\ \A k \in Key : Exact(st, lg, k) /\ ~RacedIn(lg, k) => Exact(up, lg, k)
<1> DEFINE up == UpdateWrites(st, lg, C)
           T == {i \in C : i > st.seq} \cup {st.seq}
           counts == [k \in Key |-> Running(st, lg, k, C)[Len(lg)]]
<1>0. \A c \in C : c \in Nat /\ c <= e
  BY DEF Feeds, Committed
<1>1. up.seq = Max(T) /\ up.counts = counts /\ up.durable = st.durable /\ up.records = st.records
  BY Zenon DEF UpdateWrites
<1>2. Max(T) \in T /\ \A n \in T : n <= Max(T)
  <2>1. T \in SUBSET Nat /\ T # {} /\ \A n \in T : n <= e
    BY Zenon, <1>0
  <2> HIDE DEF T
  <2> QED BY Zenon, <2>1, BoundedMax
<1> HIDE DEF up
<1>3. up.seq \in Nat /\ st.seq <= up.seq /\ up.seq <= e
  BY Zenon, <1>0, <1>1, <1>2
<1>4. ASSUME NEW j \in Committed(lg, e) PROVE j <= up.seq
  <2>1. j \in Nat
    BY DEF Committed
  <2>2. CASE j <= st.seq
    BY <1>3, <2>1, <2>2
  <2>3. CASE st.seq < j
    BY Zenon, <1>1, <1>2, <2>1, <2>3 DEF Feeds
  <2> QED BY <2>1, <2>2, <2>3
<1>5. ASSUME NEW k \in Key, Exact(st, lg, k), ~RacedIn(lg, k) PROVE Exact(up, lg, k)
  <2>1. up.counts[k] = Running(st, lg, k, C)[Len(lg)]
    BY Zenon, <1>1
  <2>2. up.counts[k] = Bit(Present(lg, k, e))
    BY <1>5, <2>1, RunningExact
  <2>3. Present(lg, k, e) <=> Present(lg, k, up.seq)
    <3>1. \A j \in Committed(lg, e) : j \in Nat
      BY DEF Committed
    <3> QED BY <1>3, <1>4, <3>1, PresentKept
  <2> QED BY Zenon, <2>2, <2>3 DEF Exact, Bit
<1> QED BY Zenon, <1>1, <1>3, <1>4, <1>5 DEF up

\* The running count is an integer at every commit, exact or not.
LEMMA RunningInt ==
  ASSUME NEW lg, NEW k, NEW C, NEW st, st.seq \in Nat, Len(lg) \in Nat, st.seq <= Len(lg),
         st.counts[k] \in Int
  PROVE  Running(st, lg, k, C)[Len(lg)] \in Int
<1> DEFINE q == st.seq
           run == Running(st, lg, k, C)
           d(n) == IF n \in C /\ k \in Written(lg[n].ops) THEN WriteToDelta(lg, k, n, C) ELSE 0
           T == {n \in q..Len(lg) : run[n] \notin Int}
<1>0. \A n : d(n) \in Int
  BY DEF WriteToDelta
<1>1. \A n \in q..Len(lg) : run[n] = IF n = q THEN st.counts[k] ELSE run[n - 1] + d(n)
  BY RunningDef
<1> HIDE DEF run, d
<1>2. T = {}
  <2> SUFFICES ASSUME T # {} PROVE FALSE
    BY Zenon
  <2>1. PICK n \in T : \A m \in T : n <= m
    <3>1. T \in SUBSET Nat
      OBVIOUS
    <3> HIDE DEF T
    <3> QED BY Zenon, <3>1, LeastNumber
  <2>2. n # q
    BY Zenon, <1>1, <2>1
  <2>3. n - 1 \in q..Len(lg) /\ n - 1 \notin T
    BY <2>1, <2>2
  <2>4. run[n - 1] \in Int /\ d(n) \in Int /\ run[n] = run[n - 1] + d(n)
    BY Zenon, <1>0, <1>1, <2>1, <2>2, <2>3
  <2> QED BY <2>1, <2>4
<1>3. run[Len(lg)] \in Int
  BY <1>2
<1> QED BY Zenon, <1>3 DEF run

\* Statistics, as they are kept and written
Statistic == [seq : Nat, counts : [Key -> Int], durable : Nat]

\* The statistics st count what a reader at their number finds in lg.
Counted(st, lg) ==
    /\ st.seq \in 0..Len(lg) /\ st.durable \in 0..st.seq /\ st.counts \in [Key -> Int]
    /\ \A k \in Key : Exact(st, lg, k) \/ RacedIn(lg, k)

\* ... and so do the records that were left on the way to them.
Tracked(st, lg) ==
    /\ Counted(st, lg)
    /\ st.records \in Seq(Statistic)
    /\ \A n \in DOMAIN st.records : Counted(st.records[n], lg) /\ st.records[n].seq <= st.seq

\* update_writes keeps statistics that count the log.
LEMMA UpdateTracked ==
  ASSUME NEW lg, WellFormed(lg), NEW st, Tracked(st, lg), NEW e \in Nat, st.seq <= e, e <= Len(lg),
         NEW C, Feeds(lg, C, st.seq, e)
  PROVE  LET up == UpdateWrites(st, lg, C)
         IN /\ Tracked(up, lg)
            /\ st.seq <= up.seq /\ up.seq <= e
            /\ \A j \in Committed(lg, e) : j <= up.seq
<1> DEFINE up == UpdateWrites(st, lg, C)
<1>0. st.seq \in Nat /\ Len(lg) \in Nat /\ st.durable \in 0..st.seq /\ st.counts \in [Key -> Int]
  BY DEF Tracked, Counted, WellFormed
<1>1. /\ up.durable = st.durable /\ up.records = st.records
      /\ up.seq \in Nat /\ st.seq <= up.seq /\ up.seq <= e
      /\ \A j \in Committed(lg, e) : j <= up.seq
      /\ \A k \in Key : Exact(st, lg, k) /\ ~RacedIn(lg, k) => Exact(up, lg, k)
  BY <1>0, UpdateFacts, Zenon
<1>2. up.counts \in [Key -> Int]
  <2>1. \A k \in Key : Running(st, lg, k, C)[Len(lg)] \in Int
    BY <1>0, RunningInt
  <2>2. up.counts = [k \in Key |-> Running(st, lg, k, C)[Len(lg)]]
    BY Zenon DEF UpdateWrites
  <2> HIDE DEF up
  <2> QED BY Zenon, <2>1, <2>2
<1> HIDE DEF up
<1>3. \A k \in Key : Exact(up, lg, k) \/ RacedIn(lg, k)
  BY Zenon, <1>1 DEF Tracked, Counted
<1>4. up.seq \in 0..Len(lg) /\ up.durable \in 0..up.seq
  BY <1>0, <1>1
<1>5. Counted(up, lg)
  BY Zenon, <1>2, <1>3, <1>4 DEF Counted
<1>6. \A n \in DOMAIN st.records : st.records[n].seq \in Nat /\ st.records[n].seq <= st.seq
  BY <1>0 DEF Tracked, Counted
<1>7. \A n \in DOMAIN up.records : Counted(up.records[n], lg) /\ up.records[n].seq <= up.seq
  BY <1>0, <1>1, <1>6 DEF Tracked
<1>8. Tracked(up, lg)
  BY Zenon, <1>1, <1>5, <1>7 DEF Tracked
<1> QED BY Zenon, <1>1, <1>8 DEF up

\* durably_write keeps them, and its record carries their number.
LEMMA WriteTracked ==
  ASSUME NEW lg, NEW st, Tracked(st, lg), Len(lg) \in Nat
  PROVE  LET dw == DurablyWrite(st)
         IN /\ Tracked(dw, lg) /\ dw.seq = st.seq
            /\ Len(dw.records) \in DOMAIN dw.records /\ dw.records[Len(dw.records)].seq = st.seq
<1> DEFINE w == [seq |-> st.seq, counts |-> st.counts, durable |-> st.durable]
           dw == DurablyWrite(st)
<1>0. st.seq \in 0..Len(lg) /\ st.durable \in 0..st.seq /\ st.counts \in [Key -> Int]
  BY Zenon DEF Tracked, Counted
<1>1. dw.seq = st.seq /\ dw.counts = st.counts /\ dw.durable = st.seq /\ dw.records = Append(st.records, w)
  BY Zenon DEF DurablyWrite
<1>2. w \in Statistic /\ w.seq = st.seq /\ w.counts = st.counts /\ w.durable = st.durable
  BY <1>0 DEF Statistic
<1>3. Counted(w, lg)
  BY Zenon, <1>2 DEF Tracked, Counted, Exact
<1> HIDE DEF w, dw
<1>4. Counted(dw, lg)
  BY <1>0, <1>1 DEF Tracked, Counted, Exact
<1>5. /\ dw.records \in Seq(Statistic)
      /\ Len(dw.records) = Len(st.records) + 1 /\ Len(st.records) \in Nat
      /\ DOMAIN st.records = 1..Len(st.records)
      /\ DOMAIN dw.records = 1..(Len(st.records) + 1)
      /\ \A n \in 1..Len(st.records) : dw.records[n] = st.records[n]
      /\ dw.records[Len(st.records) + 1] = w
  BY <1>1, <1>2 DEF Tracked
<1>6. \A n \in DOMAIN dw.records : Counted(dw.records[n], lg) /\ dw.records[n].seq <= dw.seq
  <2> SUFFICES ASSUME NEW n \in DOMAIN dw.records
               PROVE  Counted(dw.records[n], lg) /\ dw.records[n].seq <= dw.seq
    BY Zenon
  <2>1. CASE n \in 1..Len(st.records)
    BY Zenon, <1>1, <1>5, <2>1 DEF Tracked
  <2>2. CASE n = Len(st.records) + 1
    BY <1>0, <1>1, <1>2, <1>3, <1>5, <2>2
  <2> QED BY <1>5, <2>1, <2>2
<1>7. Tracked(dw, lg)
  BY Zenon, <1>4, <1>5, <1>6 DEF Tracked
<1> QED BY <1>1, <1>2, <1>5, <1>7 DEF dw

\* The state of the loop after the commit i, started from the number q: what it has not
\* counted yet of the commits from m on is in its data.
SyncedTo(acc, lg, q, i) ==
    /\ Tracked(acc.st, lg)
    /\ q <= acc.st.seq /\ (acc.st.seq <= q \/ acc.st.seq <= i)
    /\ \E m \in 1..(i + 1) :
           m - 1 <= acc.st.seq /\ acc.data = {j \in Committed(lg, i) : m <= j}

\* The data of the loop is what update_writes needs.
LEMMA DataFeeds ==
  ASSUME NEW lg, NEW acc, NEW q \in Nat, NEW i \in Nat, SyncedTo(acc, lg, q, i),
         Len(lg) \in Nat, i <= Len(lg)
  PROVE  \E e \in Nat : /\ acc.st.seq <= e /\ e <= Len(lg) /\ i <= e /\ (e = i \/ e = acc.st.seq)
                        /\ Feeds(lg, acc.data, acc.st.seq, e)
<1> DEFINE x == acc.st.seq
           e == IF x <= i THEN i ELSE x
<1>1. x \in Nat /\ x <= Len(lg)
  BY DEF SyncedTo, Tracked, Counted
<1>2. PICK m \in 1..(i + 1) : m - 1 <= x /\ acc.data = {j \in Committed(lg, i) : m <= j}
  BY Zenon DEF SyncedTo
<1> HIDE DEF x
<1>3. e \in Nat /\ x <= e /\ e <= Len(lg) /\ i <= e /\ (e = i \/ e = x)
  BY <1>1
<1>4. acc.data \subseteq Committed(lg, e)
  BY <1>2, <1>3 DEF Committed
<1>5. \A j \in Committed(lg, e) : x < j => j \in acc.data
  BY <1>1, <1>2, <1>3 DEF Committed
<1>6. ASSUME NEW n \in acc.data, NEW j \in Committed(lg, n - 1), NEW c \in acc.data, c <= j
      PROVE  j \in acc.data
  <2>1. n \in Nat /\ n <= i /\ c \in Nat /\ m <= c
    BY <1>2 DEF Committed
  <2>2. j \in Nat /\ j < n /\ j \in Committed(lg, n - 1)
    BY <2>1 DEF Committed
  <2>3. m \in Nat /\ m <= j /\ j \in Committed(lg, i)
    BY <1>2, <1>6, <2>1, <2>2 DEF Committed
  <2> QED BY Zenon, <1>2, <2>3
<1>7. Feeds(lg, acc.data, x, e)
  BY Zenon, <1>4, <1>5, <1>6 DEF Feeds
<1> QED BY Zenon, <1>3, <1>7 DEF x

\* One turn of the loop of may_synchronise keeps the statistics synchronised to it.
LEMMA SyncStepTracked ==
  ASSUME NEW lg, WellFormed(lg), NEW q \in Nat, NEW i \in DOMAIN lg, Complete(lg[i].status),
         NEW acc, SyncedTo(acc, lg, q, i - 1)
  PROVE  SyncedTo(SyncStep(acc, lg, i), lg, q, i)
<1> DEFINE st == acc.st
           new == SyncStep(acc, lg, i)
<1>0. /\ Len(lg) \in Nat /\ i \in Nat \ {0} /\ i <= Len(lg) /\ i - 1 \in Nat
      /\ i - 1 <= Len(lg) /\ lg[i].type \in {"data", "schema"}
  <2>1. lg \in Seq(Commit)
    BY Zenon DEF WellFormed
  <2>2. Len(lg) \in Nat /\ i \in 1..Len(lg) /\ lg[i] \in Commit
    BY <2>1
  <2> QED BY <2>2 DEF Commit
<1>1. /\ st.seq \in Nat /\ st.seq <= Len(lg) /\ Tracked(st, lg) /\ q <= st.seq
      /\ st.seq <= q \/ st.seq <= i - 1
      /\ st.durable \in Nat /\ st.durable <= st.seq
  BY DEF SyncedTo, Tracked, Counted
<1>2. PICK m \in 1..i : m - 1 <= st.seq /\ acc.data = {j \in Committed(lg, i - 1) : m <= j}
  <2>1. (i - 1) + 1 = i
    BY <1>0
  <2> QED BY Zenon, <2>1 DEF SyncedTo
<1>3. CASE lg[i].status = "rejected"
  <2>1. new = acc
    BY Zenon, <1>3 DEF SyncStep
  <2>2. Committed(lg, i) = Committed(lg, i - 1)
    BY <1>0, <1>3 DEF Committed
  <2>3. m \in 1..(i + 1) /\ acc.data = {j \in Committed(lg, i) : m <= j}
    BY <1>0, <1>2, <2>2
  <2>4. st.seq <= q \/ st.seq <= i
    BY <1>0, <1>1
  <2> QED BY Zenon, <1>1, <1>2, <2>1, <2>3, <2>4 DEF SyncedTo
<1>4. CASE lg[i].status # "rejected" /\ lg[i].type = "data"
  <2>1. new.st = st /\ new.data = acc.data \cup {i}
    BY Zenon, <1>4 DEF SyncStep
  <2>2. i \in Committed(lg, i)
    BY <1>0, <1>4 DEF Committed, Complete
  <2>3. m \in 1..(i + 1) /\ new.data = {j \in Committed(lg, i) : m <= j}
    BY <1>0, <1>2, <2>1, <2>2 DEF Committed
  <2>4. st.seq <= q \/ st.seq <= i
    BY <1>0, <1>1
  <2> HIDE DEF new
  <2>5. SyncedTo(new, lg, q, i)
    BY Zenon, <1>1, <1>2, <2>1, <2>3, <2>4 DEF SyncedTo
  <2> QED BY Zenon, <2>5 DEF new
<1>5. CASE lg[i].status # "rejected" /\ lg[i].type = "schema"
  <2> DEFINE before == IF st.durable + 1 < i THEN DurablyWrite(UpdateWrites(st, lg, acc.data)) ELSE st
             up == UpdateWrites(before, lg, {i})
  <2>1. new.st = (IF st.seq < i THEN up ELSE st) /\ new.data = {}
    BY Zenon, <1>5 DEF SyncStep
  <2>2. new.data = {j \in Committed(lg, i) : i + 1 <= j} /\ i + 1 \in 1..(i + 1)
    BY <1>0, <2>1 DEF Committed
  <2> HIDE DEF new
  <2>3. CASE st.seq >= i
    <3>1. new.st = st
      BY <1>0, <1>1, <2>1, <2>3
    <3>2. (i + 1) - 1 <= st.seq /\ st.seq <= q
      BY <1>0, <1>1, <2>3
    <3>3. SyncedTo(new, lg, q, i)
      BY Zenon, <1>1, <2>2, <3>1, <3>2 DEF SyncedTo
    <3> QED BY Zenon, <3>3 DEF new
  <2>4. CASE st.seq < i
    <3>1. /\ Tracked(before, lg) /\ st.seq <= before.seq /\ before.seq <= i - 1
          /\ \A j \in Committed(lg, i - 1) : j <= before.seq
      <4>1. CASE st.durable + 1 < i
        <5> DEFINE flush == UpdateWrites(st, lg, acc.data)
        <5>1. PICK e \in Nat : /\ st.seq <= e /\ e <= Len(lg) /\ i - 1 <= e /\ (e = i - 1 \/ e = st.seq)
                               /\ Feeds(lg, acc.data, st.seq, e)
          BY <1>0, DataFeeds, Zenon
        <5>2. e = i - 1
          BY <1>0, <1>1, <2>4, <5>1
        <5>3. /\ Tracked(flush, lg) /\ st.seq <= flush.seq /\ flush.seq <= e
              /\ \A j \in Committed(lg, e) : j <= flush.seq
          BY <1>1, <5>1, UpdateTracked, Zenon
        <5> HIDE DEF flush
        <5>4. Tracked(DurablyWrite(flush), lg) /\ DurablyWrite(flush).seq = flush.seq
          BY <1>0, <5>3, WriteTracked, Zenon
        <5>5. before = DurablyWrite(flush)
          BY Zenon, <4>1 DEF flush
        <5> HIDE DEF before
        <5> QED BY Zenon, <5>2, <5>3, <5>4, <5>5
      <4>2. CASE ~ (st.durable + 1 < i)
        <5>1. before = st /\ st.seq = i - 1
          BY <1>0, <1>1, <2>4, <4>2
        <5>2. \A j \in Committed(lg, i - 1) : j <= i - 1
          BY <1>0 DEF Committed
        <5> HIDE DEF before
        <5> QED BY <1>0, <1>1, <5>1, <5>2
      <4> QED BY Zenon, <4>1, <4>2
    <3> HIDE DEF before
    <3>2. before.seq \in Nat
      BY <3>1 DEF Tracked, Counted
    <3>3. i \in Committed(lg, i)
      BY <1>0, <1>5 DEF Committed, Complete
    <3>4. Feeds(lg, {i}, before.seq, i)
      <4>1. \A j \in Committed(lg, i) : before.seq < j => j = i
        BY <1>0, <3>1, <3>2 DEF Committed
      <4>2. \A j \in Committed(lg, i - 1) : ~ (i <= j)
        BY <1>0 DEF Committed
      <4> QED BY Zenon, <3>3, <4>1, <4>2 DEF Feeds
    <3>5. before.seq <= i
      BY <1>0, <3>1, <3>2
    <3>6. /\ Tracked(up, lg) /\ before.seq <= up.seq /\ up.seq <= i
          /\ \A j \in Committed(lg, i) : j <= up.seq
      BY Zenon, <1>0, <3>1, <3>4, <3>5, UpdateTracked
    <3> HIDE DEF up
    <3>7. up.seq \in Nat
      BY <3>6 DEF Tracked, Counted
    <3>8. new.st = up
      BY Zenon, <2>1, <2>4
    <3>9. q <= up.seq /\ (i + 1) - 1 <= up.seq
      BY <1>0, <1>1, <3>1, <3>2, <3>3, <3>6, <3>7
    <3>10. SyncedTo(new, lg, q, i)
      BY Zenon, <2>2, <3>6, <3>8, <3>9 DEF SyncedTo
    <3> QED BY Zenon, <3>10 DEF new
  <2> QED BY <1>0, <1>1, <2>3, <2>4
<1> QED BY Zenon, <1>0, <1>3, <1>4, <1>5

\* The loop does, by induction on the number of commits.
LEMMA LoopTracked ==
  ASSUME NEW lg, WellFormed(lg), NEW st, Tracked(st, lg), NEW start \in Nat \ {0},
         start - 1 <= st.seq, NEW end \in (start - 1)..Len(lg),
         \A j \in start..end : Complete(lg[j].status)
  PROVE  SyncedTo(SyncLoop(st, lg, start, end), lg, st.seq, end)
<1> DEFINE base == [st |-> st, data |-> {}]
           a == start - 1
           Solves(f, b) == f = [i \in (start - 1)..b |->
                                  IF i < start THEN base ELSE SyncStep(f[i - 1], lg, i)]
           T == {n \in Nat : ~ \E f : Solves(f, a + n)}
<1>0. /\ a \in Nat /\ start = a + 1 /\ Len(lg) \in Nat /\ DOMAIN lg = 1..Len(lg) /\ end \in Nat
      /\ a <= end /\ end <= Len(lg)
  BY DEF WellFormed
<1> HIDE DEF a, base
<1>1. T = {}
  <2> SUFFICES ASSUME T # {} PROVE FALSE
    BY Zenon
  <2>1. PICK n \in T : \A m \in T : n <= m
    BY Zenon, LeastNumber
  <2>2. CASE n = 0
    <3> DEFINE g == [i \in (start - 1)..(a + 0) |-> base]
    <3>1. Solves(g, a + 0)
      BY <1>0
    <3> QED BY <2>1, <2>2, <3>1, Zenon
  <2>3. CASE n # 0
    <3>1. n - 1 \in Nat /\ n - 1 \notin T
      BY <2>1, <2>3
    <3>2. PICK f : Solves(f, a + (n - 1))
      BY Zenon, <3>1
    <3> DEFINE g == [i \in (start - 1)..(a + n) |-> IF i = a + n THEN SyncStep(f[i - 1], lg, i) ELSE f[i]]
    <3>3. Solves(g, a + n)
      BY <1>0, <2>1, <2>3, <3>2
    <3> QED BY <2>1, <3>3, Zenon
  <2> QED BY Zenon, <2>2, <2>3
<1>2. \E f : Solves(f, end)
  <2>1. end - a \in Nat /\ a + (end - a) = end
    BY <1>0
  <2>2. end - a \notin T
    BY Zenon, <1>1
  <2>3. \E f : Solves(f, a + (end - a))
    BY Zenon, <2>1, <2>2
  <2> QED BY <2>1, <2>3, Zenon
<1> DEFINE loop == CHOOSE f : Solves(f, end)
<1>3. SyncLoop(st, lg, start, end) = loop[end]
  BY Zenon DEF SyncLoop, base
<1>4. Solves(loop, end)
  BY <1>2, Zenon
<1> HIDE DEF loop
<1>5. \A i \in a..end : loop[i] = IF i < start THEN base ELSE SyncStep(loop[i - 1], lg, i)
  BY <1>0, <1>4
<1> DEFINE U == {i \in a..end : ~SyncedTo(loop[i], lg, st.seq, i)}
<1>6. U = {}
  <2> SUFFICES ASSUME U # {} PROVE FALSE
    BY Zenon
  <2>1. PICK n \in U : \A m \in U : n <= m
    <3>1. U \in SUBSET Nat
      BY <1>0
    <3> HIDE DEF U
    <3> QED BY Zenon, <3>1, LeastNumber
  <2>2. n \in a..end /\ ~SyncedTo(loop[n], lg, st.seq, n)
    BY Zenon, <2>1
  <2>3. CASE n = a
    <3>1. loop[n] = base
      BY <1>0, <1>5, <2>2, <2>3
    <3>2. base.st = st /\ base.data = {} /\ st.seq \in Nat
      BY DEF base, Tracked, Counted
    <3>3. start \in 1..(n + 1) /\ {j \in Committed(lg, n) : start <= j} = {} /\ start - 1 <= st.seq
      BY <1>0, <2>3 DEF Committed
    <3>4. SyncedTo(base, lg, st.seq, n)
      BY <3>2, <3>3 DEF SyncedTo
    <3> QED BY Zenon, <2>2, <3>1, <3>4
  <2>4. CASE n # a
    <3>1. n - 1 \in a..end /\ n - 1 \notin U /\ n \in DOMAIN lg /\ n \in start..end /\ ~ (n < start)
      BY <1>0, <2>1, <2>2, <2>4
    <3>2. SyncedTo(loop[n - 1], lg, st.seq, n - 1)
      BY Zenon, <3>1
    <3>3. loop[n] = SyncStep(loop[n - 1], lg, n)
      BY Zenon, <1>5, <2>2, <3>1
    <3>4. st.seq \in Nat
      BY DEF Tracked, Counted
    <3>5. SyncedTo(SyncStep(loop[n - 1], lg, n), lg, st.seq, n)
      BY Zenon, <3>1, <3>2, <3>4, SyncStepTracked
    <3> QED BY Zenon, <2>2, <3>3, <3>5
  <2> QED BY Zenon, <2>3, <2>4
<1>7. end \in a..end /\ end \notin U
  BY <1>0, <1>6
<1> QED BY Zenon, <1>3, <1>7

\* may_synchronise brings statistics that count what they should to the last commit that
\* has its status record, or leaves them where they are.
LEMMA SynchroniseTracked ==
  ASSUME NEW lg, WellFormed(lg), NEW old, Counted(old, lg), old.seq <= Watermark(lg)
  PROVE  LET st == MaySynchronise(old, lg)
         IN /\ Tracked(st, lg) /\ old.seq <= st.seq /\ st.seq <= Watermark(lg)
            /\ \A n \in 0..Len(lg) : (\A i \in 1..n : Complete(lg[i].status)) =>
                   \A j \in Committed(lg, n) : j <= st.seq
<1> DEFINE start == Max({1, old.seq - ContextSize})
           Ends == {start - 1} \cup {i \in start..Len(lg) : \A j \in start..i : Complete(lg[j].status)}
           end == Max(Ends)
           copy == [seq |-> old.seq, counts |-> old.counts, durable |-> old.durable,
                    records |-> <<>>, panic |-> FALSE]
           last == SyncLoop(copy, lg, start, end)
           st == UpdateWrites(last.st, lg, last.data)
           all(n) == \A i \in 1..n : Complete(lg[i].status)
<1>0. Len(lg) \in Nat /\ DOMAIN lg = 1..Len(lg) /\ old.seq \in 0..Len(lg)
  BY DEF WellFormed, Counted
<1>1. /\ Watermark(lg) \in 0..Len(lg)
      /\ \A i \in 1..Watermark(lg) : lg[i].status # "pending"
      /\ \A s \in DOMAIN lg : (\A i \in 1..s : lg[i].status # "pending") => s <= Watermark(lg)
  BY Zenon, <1>0, WatermarkFacts
<1>2. MaySynchronise(old, lg) = IF old.seq = Watermark(lg) THEN copy
                                ELSE IF st.seq - st.durable > DurableEvery THEN DurablyWrite(st) ELSE st
  BY Zenon DEF MaySynchronise
<1>3. Tracked(copy, lg) /\ copy.seq = old.seq
  BY <1>0 DEF Tracked, Counted, Exact
<1>4. \A n \in 0..Len(lg) : all(n) => n <= Watermark(lg)
  <2> SUFFICES ASSUME NEW n \in 0..Len(lg), all(n) PROVE n <= Watermark(lg)
    BY Zenon
  <2>1. CASE n = 0
    BY <1>1, <2>1
  <2>2. CASE n # 0
    BY <1>0, <1>1, <2>2 DEF Complete
  <2> QED BY Zenon, <2>1, <2>2
<1>5. CASE old.seq = Watermark(lg)
  <2>1. MaySynchronise(old, lg) = copy
    BY Zenon, <1>2, <1>5
  <2>2. \A n \in 0..Len(lg) : all(n) => \A j \in Committed(lg, n) : j <= old.seq
    <3> SUFFICES ASSUME NEW n \in 0..Len(lg), all(n), NEW j \in Committed(lg, n) PROVE j <= old.seq
      BY Zenon
    <3>1. n <= old.seq
      BY Zenon, <1>4, <1>5
    <3> QED BY <1>0, <3>1 DEF Committed
  <2> QED BY Zenon, <1>0, <1>3, <1>5, <2>1, <2>2
<1>6. CASE old.seq # Watermark(lg)
  <2>1. start \in Nat \ {0} /\ start - 1 <= old.seq /\ start <= Len(lg)
    <3>1. {1, old.seq - ContextSize} \in SUBSET Int
      BY <1>0, StatisticsAssumption
    <3> DEFINE x == old.seq - ContextSize
    <3>2. start = IF 1 >= x THEN 1 ELSE x
      <4>0. x \in Int
        BY <1>0, StatisticsAssumption
      <4> HIDE DEF x
      <4>1. CASE 1 >= x
        <5>1. Max({1, x}) = 1
          BY <4>0, <4>1, MaxIs
        <5> QED BY Zenon, <4>1, <5>1 DEF x
      <4>2. CASE ~ (1 >= x)
        <5>1. x \in {1, x} /\ \A y \in {1, x} : x >= y
          BY <4>0, <4>2
        <5>2. Max({1, x}) = x
          BY <4>0, <5>1, MaxIs
        <5> QED BY Zenon, <4>2, <5>2 DEF x
      <4> QED BY Zenon, <4>1, <4>2
    <3>3. old.seq < Len(lg)
      BY <1>0, <1>1, <1>6
    <3> HIDE DEF start
    <3> QED BY <1>0, <3>2, <3>3, StatisticsAssumption
  <2> HIDE DEF start
  <2>2. end \in Ends /\ \A n \in Ends : n <= end
    <3>1. Ends \in SUBSET Nat /\ Ends # {} /\ \A n \in Ends : n <= Len(lg)
      BY <1>0, <2>1
    <3> HIDE DEF Ends
    <3> QED BY Zenon, <1>0, <3>1, BoundedMax
  <2> HIDE DEF end
  <2>3. end \in (start - 1)..Len(lg) /\ \A j \in start..end : Complete(lg[j].status)
    BY <1>0, <2>1, <2>2
  <2>4. SyncedTo(last, lg, old.seq, end)
    <3> HIDE DEF copy
    <3> QED BY Zenon, <1>3, <2>1, <2>3, LoopTracked
  <2> HIDE DEF last
  <2>5. PICK e \in Nat : /\ last.st.seq <= e /\ e <= Len(lg) /\ end <= e /\ (e = end \/ e = last.st.seq)
                         /\ Feeds(lg, last.data, last.st.seq, e)
    <3>1. end \in Nat /\ end <= Len(lg) /\ old.seq \in Nat
      BY <1>0, <2>1, <2>3
    <3> QED BY Zenon, <1>0, <2>4, <3>1, DataFeeds
  <2>6. /\ Tracked(last.st, lg) /\ old.seq <= last.st.seq
        /\ last.st.seq <= old.seq \/ last.st.seq <= end
        /\ last.st.seq \in Nat
    <3>1. /\ Tracked(last.st, lg) /\ old.seq <= last.st.seq /\ last.st.seq \in 0..Len(lg)
          /\ last.st.seq <= old.seq \/ last.st.seq <= end
      BY Zenon, <2>4 DEF SyncedTo, Tracked, Counted
    <3>2. \A n \in Nat : \A x \in 0..n : x \in Nat
      OBVIOUS
    <3> QED BY Zenon, <1>0, <3>1, <3>2
  <2>7. /\ Tracked(st, lg) /\ last.st.seq <= st.seq /\ st.seq <= e
        /\ \A j \in Committed(lg, e) : j <= st.seq
    BY <2>5, <2>6, UpdateTracked, Zenon
  <2> HIDE DEF st
  <2>8. st.seq \in Nat /\ old.seq <= st.seq
    BY <1>0, <2>6, <2>7 DEF Tracked, Counted
  <2>9. e <= Watermark(lg)
    <3>1. end <= Watermark(lg)
      <4>1. CASE end = start - 1
        BY <1>0, <1>1, <2>1, <4>1
      <4>2. CASE end # start - 1
        <5>1. end \in DOMAIN lg /\ end >= start
          BY <1>0, <2>1, <2>3, <4>2
        <5>2. \A i \in 1..end : lg[i].status # "pending"
          <6> SUFFICES ASSUME NEW i \in 1..end PROVE lg[i].status # "pending"
            BY Zenon
          <6>1. CASE i < start
            <7>1. i \in 1..Watermark(lg)
              BY <1>0, <1>1, <2>1, <6>1
            <7> QED BY Zenon, <1>1, <7>1
          <6>2. CASE i >= start
            BY <2>1, <2>3, <6>2 DEF Complete
          <6> QED BY <2>1, <6>1, <6>2
        <5> QED BY Zenon, <1>1, <5>1, <5>2
      <4> QED BY Zenon, <4>1, <4>2
    <3> QED BY <1>0, <1>1, <2>3, <2>5, <2>6, <3>1
  <2>10. \A n \in 0..Len(lg) : all(n) => \A j \in Committed(lg, n) : j <= st.seq
    <3> SUFFICES ASSUME NEW n \in 0..Len(lg), all(n), NEW j \in Committed(lg, n) PROVE j <= st.seq
      BY Zenon
    <3>1. n <= end
      <4>1. CASE n < start
        BY <1>0, <2>1, <2>3, <4>1
      <4>2. CASE n >= start
        <5>1. n \in start..Len(lg) /\ \A i \in start..n : Complete(lg[i].status)
          BY <1>0, <2>1, <4>2
        <5>2. n \in Ends
          BY <5>1, Zenon
        <5> QED BY <2>2, <5>2, Zenon
      <4> QED BY <1>0, <2>1, <4>1, <4>2
    <3>2. j \in Committed(lg, e)
      BY <1>0, <2>1, <2>3, <2>5, <3>1 DEF Committed
    <3> QED BY Zenon, <2>7, <3>2
  <2>11. st.seq <= Watermark(lg)
    BY <1>1, <2>5, <2>7, <2>8, <2>9
  <2>12. Tracked(DurablyWrite(st), lg) /\ DurablyWrite(st).seq = st.seq
    BY <1>0, <2>7, WriteTracked, Zenon
  <2>13. MaySynchronise(old, lg) \in {st, DurablyWrite(st)}
    BY Zenon, <1>2, <1>6
  <2> QED BY Zenon, <2>7, <2>8, <2>10, <2>11, <2>12, <2>13
<1> QED BY Zenon, <1>5, <1>6

(* How the log changes: commits are appended, and get their status in order.     *)

\* The log lg2 comes after lg.
Later(lg, lg2) ==
    /\ lg \in Seq(Commit) /\ lg2 \in Seq(Commit) /\ Len(lg) <= Len(lg2)
    /\ \A i \in DOMAIN lg :
        /\ lg2[i].type = lg[i].type /\ lg2[i].open = lg[i].open
        /\ lg2[i].ops = lg[i].ops /\ lg2[i].flushed = lg[i].flushed
        /\ lg2[i].lost = lg[i].lost
        /\ lg[i].status # "pending" =>
               /\ lg2[i].status # "pending"
               /\ lg2[i].status \in {"applied", "validated"} <=> lg[i].status \in {"applied", "validated"}
        /\ Complete(lg[i].status) => lg2[i].status = lg[i].status

\* What was committed stays so, and nothing is added below the watermark.
LEMMA LaterCommitted ==
  ASSUME NEW lg, NEW lg2, Later(lg, lg2), NEW s \in 0..Len(lg)
  PROVE  /\ Committed(lg, s) \subseteq Committed(lg2, s)
         /\ (\A i \in 1..s : lg[i].status # "pending") => Committed(lg2, s) = Committed(lg, s)
<1>1. DOMAIN lg = 1..Len(lg) /\ Len(lg) \in Nat
  BY DEF Later
<1>2. ASSUME NEW i \in 1..s
      PROVE  /\ lg[i].status \in {"applied", "validated"} => lg2[i].status \in {"applied", "validated"}
             /\ lg[i].status # "pending" =>
                  (lg2[i].status \in {"applied", "validated"} <=> lg[i].status \in {"applied", "validated"})
  BY <1>1 DEF Later
<1> QED BY Zenon, <1>2 DEF Committed

\* A snapshot below the watermark reads the same in a later log.
LEMMA LaterPresent ==
  ASSUME NEW lg, NEW lg2, Later(lg, lg2), NEW s \in 0..Len(lg), NEW k,
         \A i \in 1..s : lg[i].status # "pending"
  PROVE  Present(lg2, k, s) <=> Present(lg, k, s)
<1> DEFINE W == {i \in Committed(lg, s) : k \in Written(lg[i].ops)}
<1>0. DOMAIN lg = 1..Len(lg) /\ Len(lg) \in Nat
  BY DEF Later
<1>1. Committed(lg2, s) = Committed(lg, s)
  BY Zenon, LaterCommitted
<1>2. \A i \in Committed(lg, s) : lg2[i].ops = lg[i].ops
  BY <1>0 DEF Later, Committed
<1>3. W = {i \in Committed(lg2, s) : k \in Written(lg2[i].ops)}
  BY <1>1, <1>2
<1>4. W # {} => Max(W) \in W
  <2>1. W \in SUBSET Nat /\ s \in Nat /\ \A n \in W : n <= s
    BY <1>0 DEF Committed
  <2> HIDE DEF W
  <2> QED BY Zenon, <2>1, BoundedMax
<1>5. W # {} => lg2[Max(W)].ops = lg[Max(W)].ops
  BY Zenon, <1>2, <1>4
<1>6. Present(lg, k, s) <=> W # {} /\ k \notin lg[Max(W)].ops.deletes
  BY Zenon DEF Present
<1>7. Present(lg2, k, s) <=> W # {} /\ k \notin lg2[Max(W)].ops.deletes
  BY Zenon, <1>3 DEF Present
<1> HIDE DEF W
<1> QED BY Zenon, <1>5, <1>6, <1>7

\* It sees the same schema.
LEMMA LaterSchemaIn ==
  ASSUME NEW lg, NEW lg2, Later(lg, lg2), NEW s \in 0..Len(lg),
         \A i \in 1..s : lg[i].status # "pending"
  PROVE  SchemaIn(lg2, s) = SchemaIn(lg, s)
<1>0. DOMAIN lg = 1..Len(lg) /\ Len(lg) \in Nat
  BY DEF Later
<1>1. Committed(lg2, s) = Committed(lg, s)
  BY Zenon, LaterCommitted
<1>2. \A i \in Committed(lg, s) : lg2[i].type = lg[i].type
  BY <1>0 DEF Later, Committed
<1>3. {i \in Committed(lg2, s) : lg2[i].type = "schema"} = {i \in Committed(lg, s) : lg[i].type = "schema"}
  BY Zenon, <1>1, <1>2
<1> QED BY Zenon, <1>3 DEF SchemaIn

\* Two deletions that raced are not undone.
LEMMA LaterRaced ==
  ASSUME NEW lg, NEW lg2, Later(lg, lg2), NEW k, RacedIn(lg, k)
  PROVE  RacedIn(lg2, k)
<1>0. DOMAIN lg = 1..Len(lg) /\ Len(lg) \in Nat /\ Len(lg2) \in Nat /\ Len(lg) <= Len(lg2)
  BY DEF Later
<1>1. PICK i, j \in Committed(lg, Len(lg)) :
          i < j /\ lg[j].open < i /\ k \in lg[i].ops.deletes \cap lg[j].ops.deletes
  BY Zenon DEF RacedIn
<1>2. i \in DOMAIN lg /\ j \in DOMAIN lg
  BY Zenon, <1>0 DEF Committed
<1>3. i \in Committed(lg2, Len(lg)) /\ j \in Committed(lg2, Len(lg))
  BY <1>0, LaterCommitted
<1>4. i \in Committed(lg2, Len(lg2)) /\ j \in Committed(lg2, Len(lg2))
  BY <1>0, <1>3 DEF Committed
<1>5. lg2[j].open < i /\ k \in lg2[i].ops.deletes \cap lg2[j].ops.deletes
  BY Zenon, <1>1, <1>2 DEF Later
<1> QED BY Zenon, <1>1, <1>4, <1>5 DEF RacedIn

\* The watermark does not go back.
LEMMA LaterWatermark ==
  ASSUME NEW lg, NEW lg2, Later(lg, lg2)
  PROVE  /\ Watermark(lg) \in 0..Len(lg) /\ Watermark(lg2) \in 0..Len(lg2)
         /\ Watermark(lg) <= Watermark(lg2)
         /\ \A s \in 0..Watermark(lg) : \A i \in 1..s : lg[i].status # "pending"
<1>0. /\ DOMAIN lg = 1..Len(lg) /\ Len(lg) \in Nat
      /\ DOMAIN lg2 = 1..Len(lg2) /\ Len(lg2) \in Nat /\ Len(lg) <= Len(lg2)
  BY DEF Later
<1>1. Watermark(lg) \in 0..Len(lg) /\ \A i \in 1..Watermark(lg) : lg[i].status # "pending"
  BY Zenon, <1>0, WatermarkFacts
<1>2. /\ Watermark(lg2) \in 0..Len(lg2)
      /\ \A s \in DOMAIN lg2 : (\A i \in 1..s : lg2[i].status # "pending") => s <= Watermark(lg2)
  BY Zenon, <1>0, WatermarkFacts
<1>3. \A i \in 1..Watermark(lg) : lg2[i].status # "pending"
  BY <1>0, <1>1 DEF Later
<1>4. Watermark(lg) <= Watermark(lg2)
  BY <1>0, <1>1, <1>2, <1>3
<1> QED BY <1>1, <1>2, <1>4

\* The watermark never falls.
LEMMA WatermarkRises ==
  ASSUME NEW lg, NEW lg2, Later(lg, lg2)
  PROVE  Watermark(lg) \in Nat /\ Watermark(lg2) \in Nat /\ Watermark(lg) <= Watermark(lg2)
<1>1. Len(lg) \in Nat /\ Len(lg2) \in Nat
  BY DEF Later
<1>2. \A n \in Nat : \A x \in 0..n : x \in Nat
  OBVIOUS
<1> QED BY Zenon, <1>1, <1>2, LaterWatermark

\* The positions of a log are numbers.
LEMMA LogFacts ==
  ASSUME NEW lg, WellFormed(lg)
  PROVE  /\ lg \in Seq(Commit) /\ Len(lg) \in Nat /\ DOMAIN lg = 1..Len(lg)
         /\ Watermark(lg) \in Nat /\ Later(lg, lg)
<1>1. lg \in Seq(Commit)
  BY Zenon DEF WellFormed
<1>2. Len(lg) \in Nat /\ DOMAIN lg = 1..Len(lg) /\ Len(lg) <= Len(lg)
  BY <1>1
<1>3. \A n \in Nat : \A x \in 0..n : x \in Nat
  OBVIOUS
<1>4. Watermark(lg) \in Nat
  BY Zenon, <1>2, <1>3, WatermarkFacts
<1>5. Later(lg, lg)
  BY Zenon, <1>1, <1>2 DEF Later
<1> QED BY Zenon, <1>1, <1>2, <1>4, <1>5

\* Statistics that count the log count a later one.
LEMMA LaterCounted ==
  ASSUME NEW lg, NEW lg2, Later(lg, lg2), NEW st, Counted(st, lg), st.seq <= Watermark(lg)
  PROVE  Counted(st, lg2) /\ st.seq <= Watermark(lg2)
<1>0. Len(lg) \in Nat /\ Len(lg2) \in Nat /\ Len(lg) <= Len(lg2)
  BY DEF Later
<1>1. st.seq \in 0..Len(lg)
  BY Zenon DEF Counted
<1>2. \A i \in 1..st.seq : lg[i].status # "pending"
  BY <1>0, <1>1, LaterWatermark
<1>3. \A k \in Key : Exact(st, lg2, k) \/ RacedIn(lg2, k)
  <2> SUFFICES ASSUME NEW k \in Key PROVE Exact(st, lg2, k) \/ RacedIn(lg2, k)
    BY Zenon
  <2>1. CASE RacedIn(lg, k)
    BY Zenon, <2>1, LaterRaced
  <2>2. CASE Exact(st, lg, k)
    <3>1. Present(lg2, k, st.seq) <=> Present(lg, k, st.seq)
      BY Zenon, <1>1, <1>2, LaterPresent
    <3> QED BY Zenon, <2>2, <3>1 DEF Exact, Bit
  <2> QED BY Zenon, <2>1, <2>2 DEF Counted
<1>4. st.seq \in 0..Len(lg2) /\ st.seq <= Watermark(lg2)
  BY <1>0, <1>1, LaterWatermark
<1> QED BY Zenon, <1>3, <1>4 DEF Counted

\* A later log without new commits is well formed.
LEMMA LaterWellFormed ==
  ASSUME NEW lg, NEW lg2, Later(lg, lg2), WellFormed(lg), Len(lg2) = Len(lg)
  PROVE  WellFormed(lg2)
<1>0. /\ DOMAIN lg = 1..Len(lg) /\ Len(lg) \in Nat /\ DOMAIN lg2 = DOMAIN lg
      /\ lg2 \in Seq(Commit) /\ \A i \in DOMAIN lg : lg[i] \in Commit
  BY DEF Later
<1> SUFFICES ASSUME NEW i \in DOMAIN lg2
             PROVE  /\ lg2[i].open < i
                    /\ \A j \in 1..lg2[i].open : lg2[j].status # "pending"
                    /\ lg2[i].ops.inserts \subseteq ObjectKey
                    /\ lg2[i].ops.puts \cap (ObjectKey \cup lg2[i].ops.deletes) = {}
                    /\ \A j \in 1..(i - 1) : lg2[i].ops.inserts \cap lg2[j].ops.inserts = {}
                    /\ \A k \in lg2[i].ops.deletes : Present(lg2, k, lg2[i].open)
                    /\ lg2[i].ops.reinsert = {k \in lg2[i].ops.puts : ~Present(lg2, k, lg2[i].open)}
  BY Zenon, <1>0 DEF WellFormed
<1>1. lg2[i].type = lg[i].type /\ lg2[i].open = lg[i].open /\ lg2[i].ops = lg[i].ops
  BY Zenon, <1>0 DEF Later
<1>2. lg[i].open \in Nat /\ lg[i].open < i /\ i \in Nat /\ i <= Len(lg)
  BY <1>0 DEF WellFormed, Commit
<1>3. \A j \in 1..lg[i].open : lg[j].status # "pending"
  BY Zenon, <1>0 DEF WellFormed
<1>4. \A j \in 1..lg[i].open : lg2[j].status # "pending"
  BY <1>0, <1>2, <1>3 DEF Later
<1>5. \A k : Present(lg2, k, lg[i].open) <=> Present(lg, k, lg[i].open)
  BY <1>0, <1>2, <1>3, LaterPresent
<1>6. \A j \in 1..(i - 1) : lg2[i].ops.inserts \cap lg2[j].ops.inserts = {}
  <2>1. \A j \in 1..(i - 1) : lg2[j].ops = lg[j].ops
    BY <1>0, <1>2 DEF Later
  <2> QED BY Zenon, <1>0, <1>1, <2>1 DEF WellFormed
<1>7. /\ lg[i].ops.inserts \subseteq ObjectKey
      /\ lg[i].ops.puts \cap (ObjectKey \cup lg[i].ops.deletes) = {}
      /\ \A k \in lg[i].ops.deletes : Present(lg, k, lg[i].open)
      /\ lg[i].ops.reinsert = {k \in lg[i].ops.puts : ~Present(lg, k, lg[i].open)}
  BY Zenon, <1>0 DEF WellFormed
<1>8. lg2[i].ops.reinsert = {k \in lg2[i].ops.puts : ~Present(lg2, k, lg2[i].open)}
  <2>1. {k \in lg[i].ops.puts : ~Present(lg2, k, lg[i].open)}
          = {k \in lg[i].ops.puts : ~Present(lg, k, lg[i].open)}
    BY Zenon, <1>5
  <2> QED BY Zenon, <1>1, <1>7, <2>1
<1>9. \A k \in lg2[i].ops.deletes : Present(lg2, k, lg2[i].open)
  BY Zenon, <1>1, <1>5, <1>7
<1> QED BY Zenon, <1>1, <1>2, <1>4, <1>6, <1>7, <1>8, <1>9

\* A log with another commit is later.
LEMMA LaterAppend ==
  ASSUME NEW lg, WellFormed(lg), NEW c \in Commit
  PROVE  /\ Later(lg, Append(lg, c)) /\ Append(lg, c) \in Seq(Commit)
         /\ Len(Append(lg, c)) = Len(lg) + 1 /\ Append(lg, c)[Len(lg) + 1] = c
         /\ \A i \in DOMAIN lg : Append(lg, c)[i] = lg[i]
<1>1. lg \in Seq(Commit)
  BY Zenon DEF WellFormed
<1>2. /\ Append(lg, c) \in Seq(Commit) /\ Len(lg) \in Nat
      /\ Len(Append(lg, c)) = Len(lg) + 1 /\ Append(lg, c)[Len(lg) + 1] = c
      /\ \A i \in DOMAIN lg : Append(lg, c)[i] = lg[i]
  BY <1>1
<1> QED BY <1>1, <1>2 DEF Later

\* It is well formed if the commit comes from a transaction that reads below the
\* watermark and buffers what such a transaction can.
LEMMA AppendWellFormed ==
  ASSUME NEW lg, WellFormed(lg), NEW c \in Commit, c.open <= Watermark(lg),
         c.ops.inserts \subseteq ObjectKey,
         c.ops.puts \cap (ObjectKey \cup c.ops.deletes) = {},
         \A j \in DOMAIN lg : c.ops.inserts \cap lg[j].ops.inserts = {},
         \A k \in c.ops.deletes : Present(lg, k, c.open),
         c.ops.reinsert = {k \in c.ops.puts : ~Present(lg, k, c.open)}
  PROVE  WellFormed(Append(lg, c))
<1> DEFINE lg2 == Append(lg, c)
           n == Len(lg) + 1
<1>0. /\ Later(lg, lg2) /\ lg2 \in Seq(Commit) /\ Len(lg2) = n /\ lg2[n] = c
      /\ \A i \in DOMAIN lg : lg2[i] = lg[i]
  BY Zenon, LaterAppend
<1>1. /\ DOMAIN lg = 1..Len(lg) /\ Len(lg) \in Nat /\ DOMAIN lg2 = 1..n
      /\ \A i \in DOMAIN lg : lg[i] \in Commit
  BY <1>0 DEF WellFormed
<1> HIDE DEF lg2
<1>2. c.open \in Nat /\ c.open <= Len(lg) /\ \A j \in 1..c.open : lg[j].status # "pending"
  BY <1>0, LaterWatermark DEF Commit
<1>3. \A k : Present(lg2, k, c.open) <=> Present(lg, k, c.open)
  BY <1>0, <1>2, LaterPresent
<1> SUFFICES ASSUME NEW i \in DOMAIN lg2
             PROVE  /\ lg2[i].open < i
                    /\ \A j \in 1..lg2[i].open : lg2[j].status # "pending"
                    /\ lg2[i].ops.inserts \subseteq ObjectKey
                    /\ lg2[i].ops.puts \cap (ObjectKey \cup lg2[i].ops.deletes) = {}
                    /\ \A j \in 1..(i - 1) : lg2[i].ops.inserts \cap lg2[j].ops.inserts = {}
                    /\ \A k \in lg2[i].ops.deletes : Present(lg2, k, lg2[i].open)
                    /\ lg2[i].ops.reinsert = {k \in lg2[i].ops.puts : ~Present(lg2, k, lg2[i].open)}
  BY Zenon, <1>0 DEF WellFormed, lg2
<1>4. CASE i = n
  <2>1. lg2[i] = c /\ \A j \in 1..(i - 1) : j \in DOMAIN lg /\ lg2[j] = lg[j]
    BY <1>0, <1>1, <1>4
  <2>2. lg2[i].open < i /\ \A j \in 1..lg2[i].open : lg2[j].status # "pending"
    BY <1>1, <1>2, <1>4, <2>1
  <2>3. \A j \in 1..(i - 1) : lg2[i].ops.inserts \cap lg2[j].ops.inserts = {}
    BY Zenon, <2>1
  <2>4. lg2[i].ops.reinsert = {k \in lg2[i].ops.puts : ~Present(lg2, k, lg2[i].open)}
    BY Zenon, <1>3, <2>1
  <2> QED BY Zenon, <1>3, <2>1, <2>2, <2>3, <2>4
<1>5. CASE i \in DOMAIN lg
  <2>1. lg2[i] = lg[i] /\ \A j \in 1..(i - 1) : lg2[j] = lg[j]
    BY <1>0, <1>1, <1>5
  <2>2. lg[i].open \in Nat /\ lg[i].open < i /\ \A j \in 1..lg[i].open : lg[j].status # "pending"
    BY Zenon, <1>1, <1>5 DEF WellFormed, Commit
  <2>3. \A j \in 1..lg2[i].open : lg2[j].status # "pending"
    BY <1>0, <1>1, <1>5, <2>1, <2>2
  <2>4. \A k : Present(lg2, k, lg[i].open) <=> Present(lg, k, lg[i].open)
    BY <1>0, <1>1, <1>5, <2>2, LaterPresent
  <2>5. lg2[i].ops.reinsert = {k \in lg2[i].ops.puts : ~Present(lg2, k, lg2[i].open)}
    <3>1. lg[i].ops.reinsert = {k \in lg[i].ops.puts : ~Present(lg, k, lg[i].open)}
      BY Zenon, <1>5 DEF WellFormed
    <3> QED BY Zenon, <2>1, <2>4, <3>1
  <2>6. \A j \in 1..(i - 1) : lg2[i].ops.inserts \cap lg2[j].ops.inserts = {}
    BY Zenon, <1>5, <2>1 DEF WellFormed
  <2>7. /\ lg[i].ops.inserts \subseteq ObjectKey
        /\ lg[i].ops.puts \cap (ObjectKey \cup lg[i].ops.deletes) = {}
        /\ \A k \in lg[i].ops.deletes : Present(lg, k, lg[i].open)
    BY Zenon, <1>5 DEF WellFormed
  <2> QED BY Zenon, <2>1, <2>2, <2>3, <2>4, <2>5, <2>6, <2>7
<1> QED BY <1>1, <1>4, <1>5

\* The phases in which a transaction has a snapshot
Readers == {"open", "compiling"}

\* The states of a transaction, of the schema transaction and of the statistics thread
TxnState ==
    [phase : {"closed", "open", "compiling", "committing"}, kind : {"read", "write"},
     open : Nat, cache : Nat]
SchemaState ==
    [phase : {"closed", "open", "locked", "submitted", "committed", "poisoned"}, open : Nat,
     statistics : Statistic]
UpdaterState ==
    [phase : {"waiting", "checked", "cloned", "synced", "dead"}, statistics : Statistic]

\* The values of the variables
TypeInv ==
    /\ WellFormed(log)
    /\ flushed \in Nat /\ cache \in Nat /\ straddled \in BOOLEAN
    /\ statistics \in Statistic /\ record \in Statistic
    /\ txn \in [Txn -> TxnState] /\ schema \in SchemaState /\ updater \in UpdaterState
    /\ lost \in SUBSET Nat

\* A commit without its status record belongs to the one transaction that finishes it, or
\* its transaction failed; a schema transaction has no write transaction beside it.
OwnerInv ==
    /\ \A t \in Txn : txn[t].phase \in Readers => txn[t].open <= Watermark(log)
    /\ \A t \in Txn : txn[t].phase = "committing" =>
           /\ txn[t].kind = "write" /\ txn[t].open \in DOMAIN log
           /\ log[txn[t].open].type = "data" /\ ~Complete(log[txn[t].open].status)
           /\ \A u \in Txn : txn[u].phase = "committing" /\ txn[u].open = txn[t].open => u = t
    /\ \A i \in DOMAIN log :
           \/ Complete(log[i].status)
           \/ \E t \in Txn : txn[t].phase = "committing" /\ txn[t].open = i
           \/ schema.phase = "submitted" /\ schema.open = i
           \/ i \in lost
    /\ schema.phase # "closed" => \A t \in Txn : txn[t].phase # "closed" => txn[t].kind = "read"
    /\ schema.phase \in {"open", "locked"} => schema.open <= Watermark(log)
    /\ schema.phase \in {"submitted", "committed"} =>
           /\ schema.open = Len(log) /\ schema.open \in DOMAIN log /\ log[schema.open].type = "schema"
    /\ schema.phase = "submitted" => log[schema.open].status \in {"pending", "applied"}
    /\ schema.phase = "committed" => log[schema.open].status = "validated"

\* Nobody's statistics are wrong or ahead of the storage.
StatisticsInv ==
    \A st \in {statistics, schema.statistics, updater.statistics, record} :
        Counted(st, log) /\ st.seq <= Watermark(log)

\* A schema commit comes after commits that are complete or whose transaction had failed,
\* and once it is decided they are decided too. What lies below the first such failure was
\* counted in the last statistics record before it; so it is when the schema lock is taken.
FlushInv ==
    /\ schema.phase = "locked" =>
           \A j \in Committed(log, Len(log)) : j <= flushed \/ \E l \in lost : l <= j
    /\ \A i \in DOMAIN log : log[i].type = "schema" =>
           /\ \A j \in 1..(i - 1) : Complete(log[j].status) \/ j \in log[i].lost
           /\ log[i].status \in {"applied", "validated"} => \A j \in 1..(i - 1) : log[j].status # "pending"
    /\ FlushedUnlessLost

\* The newest schema in the log
Newest == SchemaIn(log, Len(log))

\* A schema commit is accepted, and its transaction has yet to replace the caches.
Replacing ==
    schema.phase \in {"submitted", "committed"} /\ log[schema.open].status \in {"applied", "validated"}

\* The caches are the newest schema's, unless they could not be built or are about to be
\* replaced; the plan and every reader agree with them, unless a reader was overtaken.
CacheInv ==
    /\ Replacing \/ cache = Newest \/ Newest \in failed
    /\ CachesMatchSnapshot
    /\ straddled \/ (/\ plan \in {NoPlan, cache}
                     /\ \A t \in Txn : txn[t].phase \in Readers => txn[t].cache = cache)

\* The inductive invariant
Inv == TypeInv /\ OwnerInv /\ StatisticsInv /\ FlushInv /\ CacheInv

\* A status that is given to a commit leaves a later log.
LEMMA StatusLater ==
  ASSUME NEW lg, WellFormed(lg), NEW i \in DOMAIN lg,
         NEW s \in {"pending", "applied", "aborted", "validated", "rejected"},
         \/ lg[i].status = "pending"
         \/ lg[i].status = "applied" /\ s = "validated"
         \/ lg[i].status = "aborted" /\ s = "rejected"
  PROVE  LET lg2 == WithStatus(lg, i, s)
         IN /\ Later(lg, lg2) /\ WellFormed(lg2) /\ Len(lg2) = Len(lg) /\ DOMAIN lg2 = DOMAIN lg
            /\ lg2[i].status = s /\ lg2[i].type = lg[i].type /\ \A j \in DOMAIN lg : j # i => lg2[j] = lg[j]
<1> DEFINE lg2 == WithStatus(lg, i, s)
           c == [type |-> lg[i].type, open |-> lg[i].open, ops |-> lg[i].ops, status |-> s,
                 flushed |-> lg[i].flushed, lost |-> lg[i].lost]
<1>0. lg \in Seq(Commit) /\ DOMAIN lg = 1..Len(lg) /\ Len(lg) \in Nat /\ lg[i] \in Commit
  BY DEF WellFormed
<1>1. /\ c \in Commit /\ c.status = s /\ c.type = lg[i].type /\ c.open = lg[i].open
      /\ c.ops = lg[i].ops /\ c.flushed = lg[i].flushed /\ c.lost = lg[i].lost
  BY Zenon, <1>0 DEF Commit
<1>2. lg2 = [lg EXCEPT ![i] = c]
  BY Zenon DEF WithStatus
<1> HIDE DEF c, lg2
<1>3. /\ lg2 \in Seq(Commit) /\ Len(lg2) = Len(lg) /\ DOMAIN lg2 = DOMAIN lg
      /\ lg2[i] = c /\ \A j \in DOMAIN lg : j # i => lg2[j] = lg[j]
  BY <1>0, <1>1, <1>2
<1>4. Later(lg, lg2)
  <2> SUFFICES ASSUME NEW j \in DOMAIN lg
               PROVE  /\ lg2[j].type = lg[j].type /\ lg2[j].open = lg[j].open
                      /\ lg2[j].ops = lg[j].ops /\ lg2[j].flushed = lg[j].flushed
                      /\ lg2[j].lost = lg[j].lost
                      /\ lg[j].status # "pending" =>
                           /\ lg2[j].status # "pending"
                           /\ lg2[j].status \in {"applied", "validated"} <=> lg[j].status \in {"applied", "validated"}
                      /\ Complete(lg[j].status) => lg2[j].status = lg[j].status
    BY <1>0, <1>3 DEF Later
  <2>1. CASE j = i
    BY Zenon, <1>1, <1>3, <2>1 DEF Complete
  <2>2. CASE j # i
    BY Zenon, <1>3, <2>2
  <2> QED BY Zenon, <2>1, <2>2
<1>5. WellFormed(lg2)
  BY Zenon, <1>3, <1>4, LaterWellFormed
<1> QED BY Zenon, <1>1, <1>3, <1>4, <1>5 DEF lg2

\* Recovery decides every commit, and keeps what was decided.
LEMMA RecoveredLater ==
  ASSUME WellFormed(log),
         NEW undecided \in [{i \in DOMAIN log : log[i].status = "pending"} -> {"validated", "rejected"}]
  PROVE  LET lg2 == Recovered(undecided)
         IN /\ Later(log, lg2) /\ WellFormed(lg2) /\ Len(lg2) = Len(log) /\ DOMAIN lg2 = DOMAIN log
            /\ \A i \in DOMAIN log : Complete(lg2[i].status)
            /\ Watermark(lg2) = Len(lg2)
<1> DEFINE lg2 == Recovered(undecided)
           new(i) == IF i \in DOMAIN undecided THEN undecided[i]
                     ELSE IF log[i].status \in {"applied", "validated"} THEN "validated" ELSE "rejected"
<1>0. /\ log \in Seq(Commit) /\ DOMAIN log = 1..Len(log) /\ Len(log) \in Nat
      /\ \A i \in DOMAIN log : log[i] \in Commit
  BY DEF WellFormed
<1>1. \A i \in DOMAIN log : /\ new(i) \in {"validated", "rejected"}
                            /\ log[i].status # "pending" =>
                                (new(i) = "validated" <=> log[i].status \in {"applied", "validated"})
  BY Zenon
<1> HIDE DEF new
<1>2. lg2 = [i \in DOMAIN log |-> [log[i] EXCEPT !.status = new(i)]]
  BY Zenon DEF Recovered, new
<1> HIDE DEF lg2
<1>3. ASSUME NEW i \in DOMAIN log
      PROVE  /\ lg2[i] \in Commit /\ lg2[i].status = new(i) /\ lg2[i].type = log[i].type
             /\ lg2[i].open = log[i].open /\ lg2[i].ops = log[i].ops /\ lg2[i].flushed = log[i].flushed
             /\ lg2[i].lost = log[i].lost
  <2>1. lg2[i] = [log[i] EXCEPT !.status = new(i)]
    BY Zenon, <1>2
  <2> QED BY Zenon, <1>0, <1>1, <2>1 DEF Commit
<1>4. DOMAIN lg2 = 1..Len(log) /\ lg2 \in Seq(Commit) /\ Len(lg2) = Len(log)
  BY <1>0, <1>2, <1>3
<1>5. Later(log, lg2)
  BY <1>0, <1>1, <1>3, <1>4 DEF Later, Complete
<1>6. WellFormed(lg2)
  BY Zenon, <1>4, <1>5, LaterWellFormed
<1>7. \A i \in DOMAIN log : Complete(lg2[i].status)
  BY Zenon, <1>1, <1>3 DEF Complete
<1>8. Watermark(lg2) = Len(lg2)
  <2>1. /\ Watermark(lg2) \in 0..Len(lg2)
        /\ \A s \in DOMAIN lg2 : (\A i \in 1..s : lg2[i].status # "pending") => s <= Watermark(lg2)
    BY Zenon, <1>0, <1>4, WatermarkFacts
  <2>2. \A i \in 1..Len(lg2) : lg2[i].status # "pending"
    BY Zenon, <1>0, <1>4, <1>7 DEF Complete
  <2>3. Len(lg2) # 0 => Len(lg2) \in DOMAIN lg2
    BY <1>0, <1>4
  <2> QED BY <1>0, <1>4, <2>1, <2>2, <2>3
<1> QED BY Zenon, <1>0, <1>4, <1>5, <1>6, <1>7, <1>8 DEF lg2

\* A transaction that reads at s <= watermark can submit its buffer.
LEMMA SubmitLater ==
  ASSUME TypeInv, NEW type \in {"data", "schema"}, NEW s \in Nat, s <= Watermark(log),
         NEW o \in Buffers(s) \cup {NoOps}, Submit(type, s, o)
  PROVE  /\ Later(log, log') /\ WellFormed(log') /\ Len(log') = Len(log) + 1
         /\ \A i \in DOMAIN log : log'[i] = log[i]
         /\ log'[Len(log) + 1].type = type /\ log'[Len(log) + 1].status = "pending"
         /\ type = "schema" => log'[Len(log) + 1].flushed = flushed /\ log'[Len(log) + 1].lost = lost
<1> DEFINE c == [type |-> type, open |-> s, ops |-> o, status |-> "pending",
                 flushed |-> IF type = "schema" THEN flushed ELSE 0,
                 lost |-> IF type = "schema" THEN lost ELSE {}]
<1>0. WellFormed(log) /\ flushed \in Nat /\ lost \in SUBSET Nat
  BY Zenon DEF TypeInv
<1>1. /\ o \in Ops /\ o.inserts \subseteq ObjectKey
      /\ o.puts \cap (ObjectKey \cup o.deletes) = {}
      /\ \A j \in DOMAIN log : o.inserts \cap log[j].ops.inserts = {}
      /\ \A k \in o.deletes : Present(log, k, s)
      /\ o.reinsert = {k \in o.puts : ~Present(log, k, s)}
  <2>1. CASE o = NoOps
    BY Zenon, <2>1 DEF NoOps, Ops
  <2>2. CASE o \in Buffers(s)
    <3>1. /\ o \in [inserts : SUBSET ObjectKey, puts : SUBSET (Key \ ObjectKey), deletes : SUBSET Key,
                    reinsert : SUBSET (Key \ ObjectKey)]
          /\ o.puts \cap o.deletes = {}
          /\ \A j \in DOMAIN log : o.inserts \cap log[j].ops.inserts = {}
          /\ \A k \in o.deletes : Present(log, k, s)
          /\ o.reinsert = {k \in o.puts : ~Present(log, k, s)}
      BY Zenon, <2>2 DEF Buffers
    <3>2. o \in Ops
      BY Zenon, <3>1, ObjectKeyAssumption DEF Ops
    <3> QED BY Zenon, <3>1, <3>2
  <2> QED BY Zenon, <2>1, <2>2
<1>2. /\ c \in Commit /\ c.open = s /\ c.ops = o /\ c.type = type /\ c.status = "pending"
      /\ type = "schema" => c.flushed = flushed /\ c.lost = lost
  BY Zenon, <1>0, <1>1 DEF Commit
<1>3. log' = Append(log, c)
  BY Zenon DEF Submit
<1> HIDE DEF c
<1>4. WellFormed(Append(log, c))
  BY Zenon, <1>0, <1>1, <1>2, AppendWellFormed
<1> QED BY <1>0, <1>2, <1>3, <1>4, LaterAppend

(* The steps that change the log.                                              *)

\* What a step of a writer or of the schema transaction does to the log
LEMMA CommitTxnLog ==
  ASSUME TypeInv, OwnerInv, NEW t \in Txn, CommitTxn(t)
  PROVE  /\ Later(log, log') /\ WellFormed(log') /\ Len(log') = Len(log) + 1
         /\ \A i \in DOMAIN log : log'[i] = log[i]
         /\ log'[Len(log) + 1].type = "data" /\ log'[Len(log) + 1].status = "pending"
<1>1. txn[t].open \in Nat /\ txn[t].open <= Watermark(log)
  BY Zenon DEF TypeInv, TxnState, OwnerInv, CommitTxn, Readers
<1>2. PICK o \in Buffers(txn[t].open) : Submit("data", txn[t].open, o)
  BY Zenon DEF CommitTxn
<1> QED BY Zenon, <1>1, <1>2, SubmitLater

\* The schema commit is appended with the number of the last statistics record.
LEMMA SubmitSchemaLog ==
  ASSUME TypeInv, OwnerInv, SubmitSchema
  PROVE  /\ Later(log, log') /\ WellFormed(log') /\ Len(log') = Len(log) + 1
         /\ \A i \in DOMAIN log : log'[i] = log[i]
         /\ log'[Len(log) + 1].type = "schema" /\ log'[Len(log) + 1].status = "pending"
         /\ log'[Len(log) + 1].flushed = flushed /\ log'[Len(log) + 1].lost = lost
<1>1. schema.open \in Nat /\ schema.open <= Watermark(log)
  BY Zenon DEF TypeInv, SchemaState, OwnerInv, SubmitSchema
<1>2. PICK o \in Buffers(schema.open) \cup {NoOps} : Submit("schema", schema.open, o)
  BY Zenon DEF SubmitSchema
<1> QED BY Zenon, <1>1, <1>2, SubmitLater

\* The commit i of the log gets a status, and no other changes.
Marks(i, S) ==
    /\ Later(log, log') /\ WellFormed(log') /\ Len(log') = Len(log) /\ DOMAIN log' = DOMAIN log
    /\ log'[i].status \in S /\ log'[i].type = log[i].type
    /\ \A j \in DOMAIN log : j # i => log'[j] = log[j]

\* The isolation manager's decision marks one commit.
LEMMA DecideMarks ==
  ASSUME TypeInv, NEW i \in DOMAIN log, NEW S \in SUBSET {"applied", "aborted"}, Decide(i, S)
  PROVE  Marks(i, S)
<1>1. PICK x \in S : log' = WithStatus(log, i, x)
  BY Zenon DEF Decide
<1>2. log[i].status = "pending" /\ WellFormed(log)
  BY Zenon DEF Decide, TypeInv
<1>3. x \in {"pending", "applied", "aborted", "validated", "rejected"}
  BY Zenon
<1> QED BY <1>1, <1>2, <1>3, StatusLater DEF Marks

\* So does its status record.
LEMMA PersistMarks ==
  ASSUME TypeInv, NEW i \in DOMAIN log, PersistStatus(i)
  PROVE  /\ Marks(i, {"validated", "rejected"})
         /\ log[i].status = "applied" => Marks(i, {"validated"})
<1> DEFINE x == IF log[i].status = "applied" THEN "validated" ELSE "rejected"
<1>1. log' = WithStatus(log, i, x) /\ log[i].status \in {"applied", "aborted"} /\ WellFormed(log)
  BY Zenon DEF PersistStatus, TypeInv
<1>2. /\ x \in {"pending", "applied", "aborted", "validated", "rejected"} /\ x \in {"validated", "rejected"}
      /\ log[i].status = "applied" => x \in {"validated"}
      /\ \/ log[i].status = "applied" /\ x = "validated"
         \/ log[i].status = "aborted" /\ x = "rejected"
  BY Zenon, <1>1
<1> HIDE DEF x
<1> QED BY <1>1, <1>2, StatusLater DEF Marks

\* The commit that is decided is the writer's.
LEMMA DecideTxnMarks ==
  ASSUME TypeInv, OwnerInv, NEW t \in Txn, DecideTxn(t)
  PROVE  txn[t].open \in DOMAIN log /\ Marks(txn[t].open, {"applied", "aborted"})
<1>1. txn[t].open \in DOMAIN log
  BY Zenon DEF OwnerInv, DecideTxn
<1> QED BY Zenon, <1>1, DecideMarks DEF DecideTxn

\* The commit that is finished is the writer's.
LEMMA FinishTxnMarks ==
  ASSUME TypeInv, OwnerInv, NEW t \in Txn, FinishTxn(t)
  PROVE  txn[t].open \in DOMAIN log /\ Marks(txn[t].open, {"validated", "rejected"})
<1>1. txn[t].open \in DOMAIN log
  BY Zenon DEF OwnerInv, FinishTxn
<1> QED BY Zenon, <1>1, PersistMarks DEF FinishTxn

\* The commit that is decided is the schema transaction's.
LEMMA DecideSchemaMarks ==
  ASSUME TypeInv, OwnerInv, DecideSchema
  PROVE  schema.open \in DOMAIN log /\ Marks(schema.open, {"applied"})
<1>1. schema.open \in DOMAIN log
  BY Zenon DEF OwnerInv, DecideSchema
<1> QED BY Zenon, <1>1, DecideMarks DEF DecideSchema

\* The commit that is finished is the schema transaction's, and was accepted.
LEMMA FinishSchemaMarks ==
  ASSUME TypeInv, OwnerInv, FinishSchema
  PROVE  schema.open \in DOMAIN log /\ Marks(schema.open, {"validated"})
<1>1. schema.open \in DOMAIN log /\ log[schema.open].status \in {"pending", "applied"}
  BY Zenon DEF OwnerInv, FinishSchema
<1>2. PersistStatus(schema.open)
  BY Zenon DEF FinishSchema
<1>3. log[schema.open].status = "applied"
  BY Zenon, <1>1, <1>2 DEF PersistStatus
<1> QED BY Zenon, <1>1, <1>2, <1>3, PersistMarks

\* Recovery completes every commit.
LEMMA CrashLog ==
  ASSUME TypeInv, Crash
  PROVE  /\ Later(log, log') /\ WellFormed(log') /\ Len(log') = Len(log) /\ DOMAIN log' = DOMAIN log
         /\ \A i \in DOMAIN log : Complete(log'[i].status)
         /\ Watermark(log') = Len(log')
<1>1. PICK undecided \in [{i \in DOMAIN log : log[i].status = "pending"} -> {"validated", "rejected"}] :
          log' = Recovered(undecided)
  BY Zenon DEF Crash
<1>2. WellFormed(log)
  BY Zenon DEF TypeInv
<1> QED BY Zenon, <1>1, <1>2, RecoveredLater

\* The steps that leave the log alone
LogKept ==
    \/ \E t \in Txn : OpenTxn(t) \/ CompilePlan(t) \/ InsertPlan(t) \/ CloseTxn(t) \/ FailTxn(t)
    \/ OpenSchema \/ AbandonSchema \/ LockSchema \/ ReplaceUnchanged \/ ReplaceCaches \/ FailSchema
    \/ Updater

\* The steps by what they do to the log
LEMMA NextCases ==
  ASSUME Next
  PROVE  \/ LogKept
         \/ \E t \in Txn : CommitTxn(t) \/ DecideTxn(t) \/ FinishTxn(t)
         \/ SubmitSchema \/ DecideSchema \/ FinishSchema \/ Crash
BY Zenon DEF Next, Transaction, SchemaTransaction, LogKept

\* The others leave it.
LEMMA KeptLog ==
  ASSUME LogKept PROVE log' = log
<1>1. ASSUME NEW t \in Txn,
             OpenTxn(t) \/ CompilePlan(t) \/ InsertPlan(t) \/ CloseTxn(t) \/ FailTxn(t)
      PROVE  log' = log
  BY <1>1, Zenon DEF OpenTxn, CompilePlan, InsertPlan, CloseTxn, FailTxn
<1>2. CASE OpenSchema \/ AbandonSchema \/ FailSchema
  BY Zenon, <1>2 DEF OpenSchema, AbandonSchema, FailSchema
<1>3. CASE LockSchema
  BY <1>3, Zenon DEF LockSchema
<1>4. CASE ReplaceUnchanged \/ ReplaceCaches
  BY <1>4, Zenon DEF ReplaceUnchanged, ReplaceCaches
<1>5. CASE Updater
  BY <1>5, Zenon DEF Updater, UpdaterCheck, UpdaterClone, UpdaterSync, UpdaterStore
<1> QED BY <1>1, <1>2, <1>3, <1>4, <1>5, Zenon DEF LogKept

\* Every step leaves a later log.
LEMMA LogStep ==
  ASSUME TypeInv, OwnerInv, [Next]_vars
  PROVE  Later(log, log') /\ WellFormed(log')
<1>1. WellFormed(log) /\ Later(log, log)
  BY Zenon, LogFacts DEF TypeInv
<1>2. CASE LogKept
  BY Zenon, <1>1, <1>2, KeptLog
<1>3. ASSUME NEW t \in Txn, CommitTxn(t) \/ DecideTxn(t) \/ FinishTxn(t)
      PROVE  Later(log, log') /\ WellFormed(log')
  BY <1>3, CommitTxnLog, DecideTxnMarks, FinishTxnMarks, Zenon DEF Marks
<1>4. CASE SubmitSchema \/ DecideSchema \/ FinishSchema \/ Crash
  BY <1>4, SubmitSchemaLog, DecideSchemaMarks, FinishSchemaMarks, CrashLog, Zenon DEF Marks
<1>5. CASE UNCHANGED vars
  BY Zenon, <1>1, <1>5 DEF vars
<1> QED BY <1>2, <1>3, <1>4, <1>5, NextCases, Zenon

(* The statistics.                                                             *)

\* What stays true of statistics kept by somebody
Kept(st, lg) == st \in Statistic /\ Counted(st, lg) /\ st.seq <= Watermark(lg)

\* A synchronisation leaves statistics and records that can be kept.
Leaves(st, lg) ==
    /\ Kept(Counts(st), lg)
    /\ st.records \in Seq(Statistic) /\ st.seq \in Nat
    /\ \A n \in DOMAIN st.records : Kept(st.records[n], lg) /\ st.records[n].seq <= st.seq

\* Statistics that count the log can be kept, and so can their records.
LEMMA TrackedLeaves ==
  ASSUME NEW lg, NEW st, Tracked(st, lg), Len(lg) \in Nat, st.seq <= Watermark(lg),
         Watermark(lg) \in Nat
  PROVE  Leaves(st, lg)
<1> DEFINE c == Counts(st)
<1>0. /\ st.seq \in 0..Len(lg) /\ st.durable \in 0..st.seq /\ st.counts \in [Key -> Int]
      /\ \A k \in Key : Exact(st, lg, k) \/ RacedIn(lg, k)
  BY Zenon DEF Tracked, Counted
<1>1. c.seq = st.seq /\ c.counts = st.counts /\ c.durable = st.durable /\ c \in Statistic
  BY <1>0 DEF Counts, Statistic
<1> HIDE DEF c
<1>2. Kept(c, lg)
  BY Zenon, <1>0, <1>1 DEF Kept, Counted, Exact
<1>3. st.records \in Seq(Statistic)
  BY Zenon DEF Tracked
<1>4. ASSUME NEW n \in DOMAIN st.records
      PROVE  Kept(st.records[n], lg) /\ st.records[n].seq <= st.seq
  <2>1. Counted(st.records[n], lg) /\ st.records[n].seq <= st.seq /\ st.records[n] \in Statistic
    BY <1>3 DEF Tracked
  <2>2. st.records[n].seq \in Nat
    BY <2>1 DEF Counted
  <2> QED BY <1>0, <2>1, <2>2 DEF Kept
<1> QED BY <1>0, <1>2, <1>3, <1>4 DEF Leaves, c

\* may_synchronise and durably_write leave such statistics, which have counted everything
\* below the first incomplete commit.
LEMMA SynchroniseLeaves ==
  ASSUME NEW lg, WellFormed(lg), NEW old, Kept(old, lg)
  PROVE  LET st == MaySynchronise(old, lg)
         IN /\ Leaves(st, lg) /\ Leaves(DurablyWrite(st), lg)
            /\ \A n \in 0..Len(lg) : (\A i \in 1..n : Complete(lg[i].status)) =>
                   \A j \in Committed(lg, n) : j <= st.seq
            /\ \E n \in DOMAIN DurablyWrite(st).records : DurablyWrite(st).records[n].seq = st.seq
<1> DEFINE st == MaySynchronise(old, lg)
<1>1. Len(lg) \in Nat /\ DOMAIN lg = 1..Len(lg)
  BY DEF WellFormed
<1>2. Watermark(lg) \in Nat
  BY <1>1, WatermarkFacts
<1>3. /\ Tracked(st, lg) /\ st.seq <= Watermark(lg)
      /\ \A n \in 0..Len(lg) : (\A i \in 1..n : Complete(lg[i].status)) =>
             \A j \in Committed(lg, n) : j <= st.seq
  BY SynchroniseTracked, Zenon DEF Kept
<1> HIDE DEF st
<1>4. /\ Tracked(DurablyWrite(st), lg) /\ DurablyWrite(st).seq = st.seq
      /\ \E n \in DOMAIN DurablyWrite(st).records : DurablyWrite(st).records[n].seq = st.seq
  BY <1>1, <1>3, WriteTracked, Zenon
<1>5. Leaves(st, lg)
  BY Zenon, <1>1, <1>2, <1>3, TrackedLeaves
<1>6. Leaves(DurablyWrite(st), lg)
  BY Zenon, <1>1, <1>2, <1>3, <1>4, TrackedLeaves
<1> QED BY Zenon, <1>3, <1>4, <1>5, <1>6 DEF st

\* Statistics can be kept while the log grows.
LEMMA LaterKept ==
  ASSUME NEW lg, NEW lg2, Later(lg, lg2), NEW st, Kept(st, lg)
  PROVE  Kept(st, lg2)
BY Zenon, LaterCounted DEF Kept

\* The records that are written can be recovered from, and raise the flushed number.
LEMMA RecordsWritten ==
  ASSUME NEW lg, NEW st, Leaves(st, lg), Kept(record, lg), flushed \in Nat,
         NEW rs \in {<<>>, st.records}, WriteRecords(rs)
  PROVE  /\ Kept(record', lg) /\ flushed' \in Nat /\ flushed <= flushed'
         /\ \A n \in DOMAIN rs : rs[n].seq <= flushed'
<1> DEFINE T == {flushed} \cup {rs[n].seq : n \in DOMAIN rs}
<1>0. st.records \in Seq(Statistic)
  BY Zenon DEF Leaves
<1>1. \A n \in DOMAIN rs : Kept(rs[n], lg) /\ rs[n].seq <= st.seq /\ rs[n].seq \in Nat
  <2>1. CASE rs = <<>>
    BY <2>1
  <2>2. CASE rs = st.records
    BY Zenon, <2>2 DEF Leaves, Kept, Statistic
  <2> QED BY Zenon, <2>1, <2>2
<1>2. T \in SUBSET Nat /\ T # {}
  BY Zenon, <1>1
<1>3. st.seq \in Nat
  BY Zenon DEF Leaves
<1>4. PICK b \in Nat : \A n \in T : n <= b
  <2> DEFINE b == IF flushed <= st.seq THEN st.seq ELSE flushed
  <2>1. b \in Nat /\ \A n \in T : n <= b
    BY <1>1, <1>3
  <2> QED BY Zenon, <2>1
<1>5. Max(T) \in T /\ \A n \in T : n <= Max(T)
  <2> HIDE DEF T
  <2> QED BY Zenon, <1>2, <1>4, BoundedMax
<1>6. flushed' = Max(T)
  BY Zenon DEF WriteRecords
<1>7. flushed' \in Nat /\ \A n \in T : n <= flushed'
  <2> HIDE DEF T
  <2> QED BY Zenon, <1>2, <1>5, <1>6
<1>8. Kept(record', lg)
  <2>1. CASE rs = <<>>
    BY Zenon, <2>1 DEF WriteRecords
  <2>2. CASE rs # <<>>
    <3>1. record' = rs[Len(rs)]
      BY Zenon, <2>2 DEF WriteRecords
    <3>2. Len(rs) \in DOMAIN rs
      <4>1. rs = st.records
        BY Zenon, <2>2
      <4> QED BY <1>0, <2>2, <4>1
    <3> QED BY Zenon, <1>1, <3>1, <3>2
  <2> QED BY Zenon, <2>1, <2>2
<1> QED BY Zenon, <1>7, <1>8

\* A new database has nothing to count.
LEMMA NewKept ==
  ASSUME NEW lg, WellFormed(lg) PROVE Kept(NewStatistics(0), lg)
<1> DEFINE st == NewStatistics(0)
<1>1. st.seq = 0 /\ st.durable = 0 /\ st.counts = [k \in Key |-> 0] /\ st \in Statistic
  BY DEF NewStatistics, Statistic
<1> HIDE DEF st
<1>2. \A k : ~Present(lg, k, 0)
  BY DEF Present, Committed
<1>3. \A k \in Key : Exact(st, lg, k)
  BY Zenon, <1>1, <1>2 DEF Exact, Bit
<1>4. Len(lg) \in Nat /\ Watermark(lg) \in Nat
  BY WatermarkFacts DEF WellFormed
<1>5. Kept(st, lg)
  BY <1>1, <1>3, <1>4 DEF Kept, Counted
<1> QED BY Zenon, <1>5 DEF st

\* The steps that synchronise no statistics
Stays ==
    /\ record' = record /\ flushed' = flushed /\ statistics' \in {statistics, updater.statistics}
    /\ schema'.statistics \in {schema.statistics, NewStatistics(0)}
    /\ updater'.statistics \in {updater.statistics, statistics, NewStatistics(0)}

\* What the next step leaves to everybody who holds statistics
StoresKept ==
    /\ Kept(statistics', log') /\ Kept(record', log')
    /\ Kept(schema'.statistics, log') /\ Kept(updater'.statistics, log')
    /\ flushed' \in Nat /\ flushed <= flushed'

\* Everybody's statistics can be kept.
LEMMA EverybodyKept ==
  ASSUME TypeInv, StatisticsInv
  PROVE  /\ Kept(statistics, log) /\ Kept(record, log)
         /\ Kept(schema.statistics, log) /\ Kept(updater.statistics, log)
<1>1. /\ statistics \in Statistic /\ record \in Statistic
      /\ schema.statistics \in Statistic /\ updater.statistics \in Statistic
  BY Zenon DEF TypeInv, SchemaState, UpdaterState
<1> QED BY Zenon, <1>1 DEF StatisticsInv, Kept

\* A step that synchronises nothing leaves everybody what somebody had.
LEMMA StaysKept ==
  ASSUME TypeInv, StatisticsInv, Later(log, log'), WellFormed(log'), Stays
  PROVE  StoresKept
<1>1. \A st \in {statistics, record, schema.statistics, updater.statistics} : Kept(st, log')
  BY Zenon, EverybodyKept, LaterKept
<1>2. Kept(NewStatistics(0), log')
  BY Zenon, NewKept
<1>3. flushed' = flushed /\ flushed \in Nat /\ flushed <= flushed'
  BY DEF Stays, TypeInv
<1>4. statistics' = statistics \/ statistics' = updater.statistics
  BY Zenon DEF Stays
<1>5. schema'.statistics = schema.statistics \/ schema'.statistics = NewStatistics(0)
  BY Zenon DEF Stays
<1>6. \/ updater'.statistics = updater.statistics \/ updater'.statistics = statistics
      \/ updater'.statistics = NewStatistics(0)
  BY Zenon DEF Stays
<1>7. record' = record
  BY Zenon DEF Stays
<1> QED BY <1>1, <1>2, <1>3, <1>4, <1>5, <1>6, <1>7, Zenon DEF StoresKept

\* The steps that synchronise nothing
LEMMA LogStays ==
  ASSUME TypeInv,
         \/ \E t \in Txn : OpenTxn(t) \/ CompilePlan(t) \/ InsertPlan(t) \/ CloseTxn(t)
         \/ \E t \in Txn : CommitTxn(t) \/ DecideTxn(t) \/ FinishTxn(t) \/ FailTxn(t)
         \/ OpenSchema \/ AbandonSchema \/ FailSchema \/ SubmitSchema \/ DecideSchema \/ FinishSchema
         \/ UpdaterCheck \/ UpdaterClone \/ UpdaterStore \/ UNCHANGED vars
  PROVE  Stays
<1>0. /\ schema \in [phase : {"closed", "open", "locked", "submitted", "committed", "poisoned"},
                     open : Nat, statistics : Statistic]
      /\ updater \in [phase : {"waiting", "checked", "cloned", "synced", "dead"},
                      statistics : Statistic]
  BY Zenon DEF TypeInv, SchemaState, UpdaterState
<1>1. ASSUME NEW t \in Txn, OpenTxn(t) \/ CompilePlan(t) \/ InsertPlan(t) \/ CloseTxn(t) PROVE Stays
  <2>1. /\ UNCHANGED <<record, flushed, statistics>> /\ schema' = schema /\ updater' = updater
    BY <1>1, Zenon DEF OpenTxn, CompilePlan, InsertPlan, CloseTxn, stores
  <2> QED BY Zenon, <2>1 DEF Stays
<1>2. ASSUME NEW t \in Txn, CommitTxn(t) \/ DecideTxn(t) \/ FinishTxn(t) \/ FailTxn(t) PROVE Stays
  <2>1. /\ UNCHANGED <<record, flushed, statistics>> /\ schema' = schema /\ updater' = updater
    BY <1>2, Zenon DEF CommitTxn, DecideTxn, FinishTxn, FailTxn, stores
  <2> QED BY Zenon, <2>1 DEF Stays
<1>3. CASE OpenSchema \/ AbandonSchema \/ FailSchema
  BY <1>3 DEF OpenSchema, AbandonSchema, FailSchema, NoSchema, stores, Stays
<1>4. CASE SubmitSchema \/ DecideSchema
  <2>1. UNCHANGED <<record, flushed, statistics>> /\ updater' = updater
    BY <1>4, Zenon DEF SubmitSchema, DecideSchema, stores
  <2>2. schema'.statistics = schema.statistics
    <3>1. CASE SubmitSchema
      <4>1. schema' = [phase |-> "submitted", open |-> Len(log) + 1, statistics |-> schema.statistics]
        BY <3>1, Zenon DEF SubmitSchema
      <4> QED BY Zenon, <4>1
    <3>2. CASE DecideSchema
      BY <3>2, Zenon DEF DecideSchema
    <3> QED BY Zenon, <1>4, <3>1, <3>2
  <2> QED BY Zenon, <2>1, <2>2 DEF Stays
<1>5. CASE FinishSchema
  BY Zenon, <1>0, <1>5 DEF FinishSchema, stores, Stays
<1>6. CASE UpdaterCheck \/ UpdaterClone \/ UpdaterStore
  BY <1>0, <1>6 DEF UpdaterCheck, UpdaterClone, UpdaterStore, Waiting, stores, Stays
<1>7. CASE UNCHANGED vars
  BY Zenon, <1>7 DEF vars, Stays
<1> QED BY <1>1, <1>2, <1>3, <1>4, <1>5, <1>6, <1>7, Zenon

\* try_commit: the record that is written when the schema lock is taken has counted every
\* commit below the first incomplete one.
LEMMA LockKept ==
  ASSUME TypeInv, StatisticsInv, LockSchema
  PROVE  /\ StoresKept
         /\ schema'.phase = "locked" =>
                \A j \in Committed(log, Len(log)) :
                    (\A i \in 1..j : Complete(log[i].status)) => j <= flushed'
<1> DEFINE s0 == MaySynchronise(statistics, log)
           st == DurablyWrite(s0)
           rs == IF st.panic THEN <<>> ELSE st.records
<1>1. WellFormed(log) /\ Len(log) \in Nat /\ flushed \in Nat
  BY Zenon, LogFacts DEF TypeInv
<1>2. Kept(statistics, log) /\ Kept(record, log) /\ Kept(updater.statistics, log)
  BY Zenon, EverybodyKept
<1>3. /\ Leaves(st, log)
      /\ \A n \in 0..Len(log) : (\A i \in 1..n : Complete(log[i].status)) =>
             \A j \in Committed(log, n) : j <= s0.seq
      /\ \E n \in DOMAIN st.records : st.records[n].seq = s0.seq
  BY <1>1, <1>2, SynchroniseLeaves, Zenon
<1>4. /\ schema' = [phase |-> IF st.panic THEN "poisoned" ELSE "locked",
                    open |-> schema.open, statistics |-> Counts(st)]
      /\ WriteRecords(rs)
      /\ log' = log /\ statistics' = statistics /\ updater' = updater
  BY Zenon DEF LockSchema
<1> HIDE DEF s0, st
<1>5. rs \in {<<>>, st.records}
  BY Zenon
<1>6. rs = st.records \/ schema'.phase # "locked"
  BY Zenon, <1>4
<1>7. schema'.statistics = Counts(st)
  BY Zenon, <1>4
<1> HIDE DEF rs
<1>8. /\ Kept(record', log) /\ flushed' \in Nat /\ flushed <= flushed'
      /\ \A n \in DOMAIN rs : rs[n].seq <= flushed'
  BY Zenon, <1>1, <1>2, <1>3, <1>4, <1>5, RecordsWritten
<1>9. Kept(Counts(st), log)
  BY Zenon, <1>3 DEF Leaves
<1>10. StoresKept
  BY <1>2, <1>4, <1>7, <1>8, <1>9, Zenon DEF StoresKept
<1>11. ASSUME schema'.phase = "locked", NEW j \in Committed(log, Len(log)),
              \A i \in 1..j : Complete(log[i].status)
       PROVE  j <= flushed'
  <2>1. PICK n \in DOMAIN st.records : st.records[n].seq = s0.seq
    BY Zenon, <1>3
  <2>2. s0.seq <= flushed'
    BY Zenon, <1>6, <1>8, <1>11, <2>1
  <2>3. j <= s0.seq /\ j \in Nat
    <3>1. j \in 0..Len(log) /\ j \in Nat /\ j \in Committed(log, j)
      BY <1>1, <1>11 DEF Committed
    <3> QED BY Zenon, <1>3, <1>11, <3>1
  <2>4. s0.seq \in Nat
    <3>1. st.records[n] \in Statistic
      BY Zenon, <1>3, <2>1 DEF Leaves, Kept
    <3> QED BY Zenon, <2>1, <3>1 DEF Statistic
  <2> QED BY <1>8, <2>2, <2>3, <2>4
<1> QED BY Zenon, <1>10, <1>11

\* The end of try_commit: the statistics it took are brought up to date and published.
LEMMA ReplaceKept ==
  ASSUME TypeInv, StatisticsInv, NEW c, Replace(c), log' = log, updater' = updater
  PROVE  StoresKept
<1> DEFINE st == MaySynchronise(schema.statistics, log)
<1>1. WellFormed(log) /\ flushed \in Nat
  BY Zenon DEF TypeInv
<1>2. Kept(schema.statistics, log) /\ Kept(record, log) /\ Kept(updater.statistics, log)
  BY Zenon, EverybodyKept
<1>3. Leaves(st, log)
  BY <1>1, <1>2, SynchroniseLeaves, Zenon
<1>4. statistics' = Counts(st) /\ WriteRecords(st.records) /\ schema' = NoSchema
  BY Zenon DEF Replace
<1> HIDE DEF st
<1>5. Kept(record', log) /\ flushed' \in Nat /\ flushed <= flushed'
  BY Zenon, <1>1, <1>2, <1>3, <1>4, RecordsWritten
<1>6. Kept(schema'.statistics, log)
  BY Zenon, <1>1, <1>4, NewKept DEF NoSchema
<1>7. Kept(Counts(st), log)
  BY Zenon, <1>3 DEF Leaves
<1> QED BY <1>2, <1>4, <1>5, <1>6, <1>7, Zenon DEF StoresKept

\* The background thread's copy is brought up to date.
LEMMA UpdaterKept ==
  ASSUME TypeInv, StatisticsInv, UpdaterSync
  PROVE  StoresKept
<1> DEFINE st == MaySynchronise(updater.statistics, log)
           rs == IF st.panic THEN <<>> ELSE st.records
<1>1. WellFormed(log) /\ flushed \in Nat
  BY Zenon DEF TypeInv
<1>2. /\ Kept(statistics, log) /\ Kept(schema.statistics, log) /\ Kept(record, log)
      /\ Kept(updater.statistics, log)
  BY Zenon, EverybodyKept
<1>3. Leaves(st, log)
  BY <1>1, <1>2, SynchroniseLeaves, Zenon
<1>4. /\ updater' = [phase |-> IF st.panic THEN "dead" ELSE "synced", statistics |-> Counts(st)]
      /\ WriteRecords(rs)
      /\ log' = log /\ statistics' = statistics /\ schema' = schema
  BY Zenon DEF UpdaterSync
<1> HIDE DEF st
<1>5. rs \in {<<>>, st.records}
  BY Zenon
<1>6. updater'.statistics = Counts(st)
  BY Zenon, <1>4
<1> HIDE DEF rs
<1>7. Kept(record', log) /\ flushed' \in Nat /\ flushed <= flushed'
  BY Zenon, <1>1, <1>2, <1>3, <1>4, <1>5, RecordsWritten
<1>8. Kept(Counts(st), log)
  BY Zenon, <1>3 DEF Leaves
<1> QED BY <1>2, <1>4, <1>6, <1>7, <1>8, Zenon DEF StoresKept

\* Database::load starts from the last statistics record.
LEMMA CrashKept ==
  ASSUME TypeInv, StatisticsInv, Crash
  PROVE  StoresKept
<1>1. /\ Later(log, log') /\ WellFormed(log')
      /\ Kept(record, log) /\ flushed \in Nat
  BY Zenon, CrashLog, EverybodyKept DEF TypeInv
<1>2. Kept(record, log')
  BY Zenon, <1>1, LaterKept
<1> DEFINE st == MaySynchronise(record, log')
           rs == IF st.panic THEN <<>> ELSE st.records
<1>3. Leaves(st, log')
  BY <1>1, <1>2, SynchroniseLeaves, Zenon
<1>4. /\ WriteRecords(rs) /\ statistics' = Counts(st)
      /\ schema' = [phase |-> IF st.panic THEN "poisoned" ELSE "closed", open |-> 0,
                    statistics |-> NewStatistics(0)]
      /\ updater' = Waiting
  <2>1. PICK undecided \in [{i \in DOMAIN log : log[i].status = "pending"} -> {"validated", "rejected"}] :
           LET recovered == Recovered(undecided)
               x == MaySynchronise(record, recovered)
           IN /\ log' = recovered
              /\ WriteRecords(IF x.panic THEN <<>> ELSE x.records)
              /\ statistics' = Counts(x)
              /\ schema' = [phase |-> IF x.panic THEN "poisoned" ELSE "closed", open |-> 0,
                            statistics |-> NewStatistics(0)]
              /\ cache' = LoadCache(x, recovered)
    BY Zenon DEF Crash
  <2>2. updater' = Waiting
    BY Zenon DEF Crash
  <2> QED BY <2>1, <2>2, Zenon
<1> HIDE DEF st
<1>5. rs \in {<<>>, st.records}
  BY Zenon
<1>6. schema'.statistics = NewStatistics(0) /\ updater'.statistics = NewStatistics(0)
  BY Zenon, <1>4 DEF Waiting
<1> HIDE DEF rs
<1>7. Kept(record', log') /\ flushed' \in Nat /\ flushed <= flushed'
  <2> DEFINE lg == log'
  <2>1. Leaves(st, lg) /\ Kept(record, lg)
    BY Zenon, <1>2, <1>3
  <2> HIDE DEF lg
  <2>2. Kept(record', lg) /\ flushed' \in Nat /\ flushed <= flushed'
    BY Zenon, <1>1, <1>4, <1>5, <2>1, RecordsWritten
  <2> QED BY Zenon, <2>2 DEF lg
<1>8. Kept(Counts(st), log') /\ Kept(NewStatistics(0), log')
  BY Zenon, <1>1, <1>3, NewKept DEF Leaves
<1> QED BY <1>4, <1>6, <1>7, <1>8, Zenon DEF StoresKept

\* Every step leaves everybody statistics that count the log.
LEMMA StoreStep ==
  ASSUME TypeInv, OwnerInv, StatisticsInv, [Next]_vars
  PROVE  StoresKept
<1>1. Later(log, log') /\ WellFormed(log')
  BY Zenon, LogStep
<1>2. CASE LockSchema
  BY Zenon, <1>2, LockKept
<1>3. CASE ReplaceUnchanged \/ ReplaceCaches
  <2>1. PICK c : Replace(c)
    BY <1>3, Zenon DEF ReplaceUnchanged, ReplaceCaches
  <2>2. log' = log /\ updater' = updater
    BY <1>3, Zenon DEF ReplaceUnchanged, ReplaceCaches
  <2> QED BY Zenon, <2>1, <2>2, ReplaceKept
<1>4. CASE UpdaterSync
  BY Zenon, <1>4, UpdaterKept
<1>5. CASE Crash
  BY Zenon, <1>5, CrashKept
<1>6. CASE \/ \E t \in Txn : OpenTxn(t) \/ CompilePlan(t) \/ InsertPlan(t) \/ CloseTxn(t)
           \/ \E t \in Txn : CommitTxn(t) \/ DecideTxn(t) \/ FinishTxn(t) \/ FailTxn(t)
           \/ OpenSchema \/ AbandonSchema \/ FailSchema \/ SubmitSchema \/ DecideSchema \/ FinishSchema
           \/ UpdaterCheck \/ UpdaterClone \/ UpdaterStore \/ UNCHANGED vars
  BY <1>1, <1>6, LogStays, StaysKept, Zenon
<1> QED BY <1>2, <1>3, <1>4, <1>5, <1>6, Zenon DEF Next, Transaction, SchemaTransaction, Updater

\* The schema that a read sees
LEMMA SchemaInFacts ==
  ASSUME NEW lg, WellFormed(lg), NEW s \in 0..Len(lg)
  PROVE  /\ SchemaIn(lg, s) \in 0..s
         /\ SchemaIn(lg, s) # 0 => SchemaIn(lg, s) \in Committed(lg, s) /\ lg[SchemaIn(lg, s)].type = "schema"
         /\ \A i \in Committed(lg, s) : lg[i].type = "schema" => i <= SchemaIn(lg, s)
<1> DEFINE T == {0} \cup {i \in Committed(lg, s) : lg[i].type = "schema"}
<1>1. Len(lg) \in Nat
  BY DEF WellFormed
<1>2. s \in Nat /\ T \in SUBSET Nat /\ T # {} /\ \A n \in T : n <= s
  BY <1>1 DEF Committed
<1>3. SchemaIn(lg, s) = Max(T)
  BY Zenon DEF SchemaIn
<1>4. Max(T) \in T /\ \A n \in T : n <= Max(T)
  <2> HIDE DEF T
  <2> QED BY Zenon, <1>2, BoundedMax
<1>5. SchemaIn(lg, s) \in T /\ \A n \in T : n <= SchemaIn(lg, s)
  BY <1>3, <1>4, Zenon
<1> QED BY <1>2, <1>5

\* A step of a transaction leaves the shared stores but the plan, and its state is one.
LEMMA TxnTypes ==
  ASSUME TypeInv, NEW t \in Txn,
         \/ OpenTxn(t) \/ CompilePlan(t) \/ InsertPlan(t) \/ CloseTxn(t)
         \/ CommitTxn(t) \/ DecideTxn(t) \/ FinishTxn(t) \/ FailTxn(t)
  PROVE  /\ txn' \in [Txn -> TxnState] /\ schema' = schema /\ updater' = updater
         /\ cache' = cache /\ straddled' = straddled
<1>1. Watermark(log) \in Nat /\ Len(log) \in Nat
  BY Zenon, LogFacts DEF TypeInv
<1>2. txn \in [Txn -> TxnState] /\ cache \in Nat
  BY Zenon DEF TypeInv
<1>3. CASE OpenTxn(t)
  <2>1. txn' = [txn EXCEPT ![t] = [phase |-> "open", kind |-> @.kind, open |-> Watermark(log),
                                  cache |-> cache]]
    BY <1>3, Zenon DEF OpenTxn
  <2>2. txn' \in [Txn -> TxnState]
    BY Zenon, <1>1, <1>2, <2>1 DEF TxnState
  <2> QED BY <1>3, <2>2, Zenon DEF OpenTxn, stores
<1>4. CASE CompilePlan(t) \/ InsertPlan(t) \/ CloseTxn(t)
  BY <1>2, <1>4 DEF TxnState, CompilePlan, InsertPlan, CloseTxn, Closed, stores
<1>5. CASE CommitTxn(t)
  <2>1. txn' = [txn EXCEPT ![t] = [phase |-> "committing", kind |-> @.kind, open |-> Len(log) + 1,
                                  cache |-> @.cache]]
    BY <1>5, Zenon DEF CommitTxn
  <2>2. txn' \in [Txn -> TxnState]
    BY <1>1, <1>2, <2>1 DEF TxnState
  <2> QED BY <1>5, <2>2, Zenon DEF CommitTxn, stores
<1>6. CASE DecideTxn(t)
  BY <1>2, <1>6, Zenon DEF DecideTxn, stores
<1>7. CASE FinishTxn(t) \/ FailTxn(t)
  <2>1. txn' = [txn EXCEPT ![t] = Closed(@.kind)]
    BY <1>7, Zenon DEF FinishTxn, FailTxn
  <2>2. txn' \in [Txn -> TxnState]
    BY Zenon, <1>2, <2>1 DEF TxnState, Closed
  <2> QED BY <1>7, <2>2, Zenon DEF FinishTxn, FailTxn, stores
<1> QED BY Zenon, <1>3, <1>4, <1>5, <1>6, <1>7

\* A step of the schema transaction leaves values of their types.
LEMMA SchemaTypes ==
  ASSUME TypeInv, StoresKept, SchemaTransaction
  PROVE  /\ txn' = txn /\ schema' \in SchemaState /\ updater' = updater
         /\ cache' \in Nat /\ straddled' \in BOOLEAN
<1>1. Watermark(log) \in Nat /\ Len(log) \in Nat
  BY Zenon, LogFacts DEF TypeInv
<1>2. schema \in SchemaState /\ cache \in Nat /\ straddled \in BOOLEAN
  BY Zenon DEF TypeInv
<1>3. NewStatistics(0) \in Statistic /\ schema'.statistics \in Statistic
  BY DEF NewStatistics, Statistic, StoresKept, Kept
<1>4. CASE OpenSchema \/ AbandonSchema \/ FailSchema
  BY <1>1, <1>2, <1>3, <1>4 DEF OpenSchema, AbandonSchema, FailSchema, NoSchema, SchemaState, stores
<1>5. CASE LockSchema
  <2>1. /\ \E st : schema' = [phase |-> IF st.panic THEN "poisoned" ELSE "locked",
                              open |-> schema.open, statistics |-> Counts(st)]
        /\ UNCHANGED <<txn, updater, cache, straddled>>
    BY <1>5, Zenon DEF LockSchema
  <2>2. schema' \in SchemaState
    BY <1>2, <1>3, <2>1 DEF SchemaState
  <2> QED BY Zenon, <1>2, <2>1, <2>2
<1>6. CASE SubmitSchema
  <2>1. /\ schema' = [phase |-> "submitted", open |-> Len(log) + 1, statistics |-> schema.statistics]
        /\ UNCHANGED <<txn, updater, cache, straddled>>
    BY <1>6, Zenon DEF SubmitSchema, stores
  <2> QED BY <1>1, <1>2, <2>1 DEF SchemaState
<1>7. CASE DecideSchema
  BY <1>2, <1>7, Zenon DEF DecideSchema, stores
<1>8. CASE FinishSchema
  <2>1. /\ schema' = [schema EXCEPT !.phase = "committed"]
        /\ UNCHANGED <<txn, updater, cache, straddled>>
    BY <1>8, Zenon DEF FinishSchema, stores
  <2> QED BY Zenon, <1>2, <2>1 DEF SchemaState
<1>9. CASE ReplaceUnchanged \/ ReplaceCaches
  <2>1. PICK c \in {cache, schema.open} : Replace(c)
    BY <1>9, Zenon DEF ReplaceUnchanged, ReplaceCaches
  <2>2. UNCHANGED <<txn, updater>>
    BY <1>9, Zenon DEF ReplaceUnchanged, ReplaceCaches
  <2>3. /\ cache' = c /\ schema' = NoSchema
        /\ straddled' = (straddled \/ (c # cache /\ \E t \in Txn : txn[t].phase # "closed"))
    BY <2>1, Zenon DEF Replace
  <2>4. c \in Nat
    BY Zenon, <1>2 DEF SchemaState
  <2> QED BY Zenon, <1>2, <1>3, <2>2, <2>3, <2>4 DEF NoSchema, SchemaState
<1> QED BY <1>4, <1>5, <1>6, <1>7, <1>8, <1>9, Zenon DEF SchemaTransaction

\* So does one of the statistics thread, which leaves the caches.
LEMMA UpdaterTypes ==
  ASSUME TypeInv, StoresKept, Updater
  PROVE  /\ txn' = txn /\ schema' = schema /\ updater' \in UpdaterState
         /\ cache' = cache /\ straddled' = straddled
<1>1. updater \in UpdaterState /\ statistics \in Statistic /\ NewStatistics(0) \in Statistic
  BY DEF TypeInv, NewStatistics, Statistic
<1>2. updater'.statistics \in Statistic
  BY Zenon DEF StoresKept, Kept
<1>3. CASE UpdaterCheck \/ UpdaterClone \/ UpdaterStore
  BY <1>1, <1>3 DEF UpdaterCheck, UpdaterClone, UpdaterStore, Waiting, stores, UpdaterState
<1>4. CASE UpdaterSync
  <2>1. /\ \E st : updater' = [phase |-> IF st.panic THEN "dead" ELSE "synced", statistics |-> Counts(st)]
        /\ UNCHANGED <<txn, schema, cache, straddled>>
    BY <1>4, Zenon DEF UpdaterSync
  <2> QED BY <1>1, <1>2, <2>1 DEF UpdaterState
<1> QED BY <1>3, <1>4, Zenon DEF Updater

\* After a restart nobody has a transaction, and the caches are those of the newest schema.
LEMMA CrashStores ==
  ASSUME TypeInv, Crash
  PROVE  /\ \A t \in Txn : txn'[t].phase = "closed" /\ txn'[t].kind = txn[t].kind
         /\ txn' \in [Txn -> TxnState]
         /\ schema' \in SchemaState /\ schema'.phase \in {"closed", "poisoned"}
         /\ updater' \in UpdaterState /\ cache' = Newest' /\ straddled' = FALSE /\ plan' = NoPlan
<1>1. txn \in [Txn -> TxnState] /\ NewStatistics(0) \in Statistic
  BY DEF TypeInv, NewStatistics, Statistic
<1>2. txn' = [t \in Txn |-> Closed(txn[t].kind)] /\ updater' = Waiting /\ straddled' = FALSE /\ plan' = NoPlan
  BY Zenon DEF Crash
<1>3. /\ \E st : schema' = [phase |-> IF st.panic THEN "poisoned" ELSE "closed", open |-> 0,
                            statistics |-> NewStatistics(0)]
      /\ cache' = Newest'
  <2>1. PICK undecided \in [{i \in DOMAIN log : log[i].status = "pending"} -> {"validated", "rejected"}] :
           LET recovered == Recovered(undecided)
               x == MaySynchronise(record, recovered)
           IN /\ log' = recovered
              /\ WriteRecords(IF x.panic THEN <<>> ELSE x.records)
              /\ statistics' = Counts(x)
              /\ schema' = [phase |-> IF x.panic THEN "poisoned" ELSE "closed", open |-> 0,
                            statistics |-> NewStatistics(0)]
              /\ cache' = LoadCache(x, recovered)
    BY Zenon DEF Crash
  <2>2. cache' = Newest'
    BY <2>1, Zenon DEF LoadCache, Newest
  <2> QED BY <2>1, <2>2, Zenon
<1>4. schema' \in SchemaState /\ schema'.phase \in {"closed", "poisoned"}
  BY <1>1, <1>3 DEF SchemaState
<1>5. updater' \in UpdaterState
  BY Zenon, <1>1, <1>2 DEF Waiting, UpdaterState
<1>6. txn' \in [Txn -> TxnState] /\ \A t \in Txn : txn'[t].phase = "closed" /\ txn'[t].kind = txn[t].kind
  BY Zenon, <1>1, <1>2 DEF Closed, TxnState
<1> QED BY Zenon, <1>2, <1>3, <1>4, <1>5, <1>6

\* The commits of failed transactions are forgotten at a restart only.
LEMMA LostGrows ==
  ASSUME TypeInv, [Next]_vars
  PROVE  /\ lost' \in SUBSET Nat
         /\ lost \subseteq lost' \/ Crash
         /\ lost' = lost \/ Crash \/ FailSchema \/ \E t \in Txn : FailTxn(t)
<1>0. lost \in SUBSET Nat /\ txn \in [Txn -> TxnState] /\ schema \in SchemaState
  BY Zenon DEF TypeInv
<1>1. ASSUME NEW t \in Txn, Transaction(t), ~FailTxn(t) PROVE lost' = lost
  BY <1>1, Zenon DEF Transaction, OpenTxn, CompilePlan, InsertPlan, CloseTxn, CommitTxn, DecideTxn, FinishTxn
<1>2. ASSUME NEW t \in Txn, FailTxn(t) PROVE lost' = lost \cup {txn[t].open} /\ txn[t].open \in Nat
  BY <1>0, <1>2, Zenon DEF FailTxn, Lose, TxnState
<1>3. ASSUME SchemaTransaction, ~FailSchema PROVE lost' = lost
  BY <1>3, Zenon DEF SchemaTransaction, OpenSchema, AbandonSchema, LockSchema, SubmitSchema, DecideSchema,
                     FinishSchema, ReplaceUnchanged, ReplaceCaches
<1>4. ASSUME FailSchema PROVE lost' \in {lost, lost \cup {schema.open}} /\ schema.open \in Nat
  BY <1>0, <1>4, Zenon DEF FailSchema, Lose, SchemaState
<1>5. ASSUME Updater PROVE lost' = lost
  BY <1>5, Zenon DEF Updater, UpdaterCheck, UpdaterClone, UpdaterSync, UpdaterStore
<1>6. ASSUME Crash PROVE lost' = {}
  BY <1>6, Zenon DEF Crash
<1>7. ASSUME UNCHANGED vars PROVE lost' = lost
  BY <1>7, Zenon DEF vars
<1>8. \/ \E t \in Txn : Transaction(t)
      \/ SchemaTransaction \/ Updater \/ Crash \/ UNCHANGED vars
  BY Zenon DEF Next
<1> QED BY Zenon, <1>0, <1>1, <1>2, <1>3, <1>4, <1>5, <1>6, <1>7, <1>8

\* Every step leaves values of their types.
LEMMA TypeStep ==
  ASSUME TypeInv, OwnerInv, StatisticsInv, [Next]_vars
  PROVE  TypeInv'
<1>1. WellFormed(log') /\ StoresKept
  BY Zenon, LogStep, StoreStep
<1>2. statistics' \in Statistic /\ record' \in Statistic /\ flushed' \in Nat
  BY Zenon, <1>1 DEF StoresKept, Kept
<1>3. /\ cache' \in Nat /\ straddled' \in BOOLEAN
      /\ txn' \in [Txn -> TxnState] /\ schema' \in SchemaState /\ updater' \in UpdaterState
  <2>0. /\ cache \in Nat /\ straddled \in BOOLEAN
        /\ txn \in [Txn -> TxnState] /\ schema \in SchemaState /\ updater \in UpdaterState
    BY Zenon DEF TypeInv
  <2>1. ASSUME NEW t \in Txn, Transaction(t)
        PROVE  /\ cache' \in Nat /\ straddled' \in BOOLEAN
               /\ txn' \in [Txn -> TxnState] /\ schema' \in SchemaState /\ updater' \in UpdaterState
    BY <2>0, <2>1, TxnTypes, Zenon DEF Transaction
  <2>2. CASE SchemaTransaction
    BY <1>1, <2>0, <2>2, SchemaTypes, Zenon
  <2>3. CASE Updater
    BY <1>1, <2>0, <2>3, UpdaterTypes, Zenon
  <2>4. CASE Crash
    <3>1. cache' = Newest' /\ straddled' = FALSE
      BY <2>4, CrashStores, Zenon
    <3>2. Newest' \in Nat
      <4> DEFINE lg == log'
      <4>1. WellFormed(lg) /\ Len(lg) \in 0..Len(lg)
        BY <1>1 DEF WellFormed
      <4> HIDE DEF lg
      <4>2. SchemaIn(lg, Len(lg)) \in Nat
        BY <4>1, SchemaInFacts
      <4> QED BY Zenon, <4>2 DEF lg, Newest
    <3>3. straddled' \in BOOLEAN
      BY Zenon, <3>1
    <3> QED BY <2>4, <3>1, <3>2, <3>3, CrashStores, Zenon
  <2>5. CASE UNCHANGED vars
    BY Zenon, <2>0, <2>5 DEF vars
  <2> QED BY <2>1, <2>2, <2>3, <2>4, <2>5, Zenon DEF Next
<1>4. lost' \in SUBSET Nat
  BY Zenon, LostGrows
<1> QED BY Zenon, <1>1, <1>2, <1>3, <1>4 DEF TypeInv

(* Who has to finish a commit.                                                   *)

\* Opening, closing and compiling leave the owners of commits.
LEMMA TxnOwner ==
  ASSUME TypeInv, OwnerInv, NEW t \in Txn, OpenTxn(t) \/ CompilePlan(t) \/ InsertPlan(t) \/ CloseTxn(t)
  PROVE  OwnerInv'
<1>1. Watermark(log) \in Nat
  BY Zenon, LogFacts DEF TypeInv
<1>2. txn \in [Txn -> TxnState] /\ schema \in SchemaState
  BY Zenon DEF TypeInv
<1>3. log' = log /\ schema' = schema /\ lost' = lost
  BY Zenon DEF OpenTxn, CompilePlan, InsertPlan, CloseTxn
<1>4. CASE OpenTxn(t)
  <2>1. /\ txn' = [txn EXCEPT ![t] = [phase |-> "open", kind |-> @.kind, open |-> Watermark(log),
                                     cache |-> cache]]
        /\ txn[t].phase = "closed" /\ (txn[t].kind = "write" => schema.phase = "closed")
    BY <1>4, Zenon DEF OpenTxn
  <2>2. /\ txn'[t].phase = "open" /\ txn'[t].kind = txn[t].kind /\ txn'[t].open = Watermark(log)
        /\ txn[t].kind \in {"read", "write"}
        /\ \A u \in Txn : u # t => txn'[u] = txn[u]
    BY Zenon, <1>2, <2>1 DEF TxnState
  <2> QED BY <1>1, <1>2, <1>3, <2>1, <2>2 DEF OwnerInv, Readers
<1>5. CASE CompilePlan(t) \/ InsertPlan(t) \/ CloseTxn(t)
  <2>1. /\ txn[t].phase \in Readers /\ txn'[t].phase \in Readers \cup {"closed"}
        /\ txn'[t].phase \in Readers => txn'[t].open = txn[t].open
        /\ txn'[t].kind = txn[t].kind
        /\ \A u \in Txn : u # t => txn'[u] = txn[u]
    BY <1>2, <1>5 DEF CompilePlan, InsertPlan, CloseTxn, Closed, TxnState, Readers
  <2> QED BY <1>1, <1>2, <1>3, <2>1 DEF OwnerInv, Readers
<1> QED BY Zenon, <1>4, <1>5

\* A new commit is its writer's.
LEMMA CommitTxnOwner ==
  ASSUME TypeInv, OwnerInv, NEW t \in Txn, CommitTxn(t)
  PROVE  OwnerInv'
<1>0. Watermark(log) \in Nat /\ Len(log) \in Nat /\ DOMAIN log = 1..Len(log)
  BY Zenon, LogFacts DEF TypeInv
<1>1. txn \in [Txn -> TxnState] /\ schema \in SchemaState
  BY Zenon DEF TypeInv
<1>2. /\ Later(log, log') /\ WellFormed(log') /\ Len(log') = Len(log) + 1
      /\ \A i \in DOMAIN log : log'[i] = log[i]
      /\ log'[Len(log) + 1].type = "data" /\ log'[Len(log) + 1].status = "pending"
  BY Zenon, CommitTxnLog
<1>3. Watermark(log) <= Watermark(log') /\ Watermark(log') \in Nat
  BY Zenon, <1>2, WatermarkRises
<1>4. DOMAIN log' = 1..(Len(log) + 1)
  BY <1>2 DEF WellFormed
<1>5. /\ txn' = [txn EXCEPT ![t] = [phase |-> "committing", kind |-> @.kind, open |-> Len(log) + 1,
                                   cache |-> @.cache]]
      /\ txn[t].phase = "open" /\ txn[t].kind = "write" /\ schema' = schema /\ lost' = lost
  BY Zenon DEF CommitTxn
<1>6. /\ txn'[t].phase = "committing" /\ txn'[t].kind = "write" /\ txn'[t].open = Len(log) + 1
      /\ \A u \in Txn : u # t => txn'[u] = txn[u]
  BY Zenon, <1>1, <1>5 DEF TxnState
<1>7. schema.phase = "closed"
  BY Zenon, <1>1, <1>5 DEF OwnerInv
<1>8. ASSUME NEW u \in Txn, txn'[u].phase \in Readers PROVE txn'[u].open <= Watermark(log')
  <2>1. txn'[u] = txn[u] /\ txn[u].open <= Watermark(log) /\ txn[u].open \in Nat
    BY Zenon, <1>1, <1>6, <1>8 DEF OwnerInv, Readers, TxnState
  <2> QED BY <1>0, <1>3, <2>1
<1>9. ASSUME NEW u \in Txn, txn'[u].phase = "committing"
      PROVE  /\ txn'[u].kind = "write" /\ txn'[u].open \in DOMAIN log'
             /\ log'[txn'[u].open].type = "data" /\ ~Complete(log'[txn'[u].open].status)
             /\ \A w \in Txn : txn'[w].phase = "committing" /\ txn'[w].open = txn'[u].open => w = u
  <2>1. ASSUME NEW w \in Txn, w # t, txn'[w].phase = "committing"
        PROVE  txn'[w].open \in DOMAIN log /\ txn'[w].open # Len(log) + 1
    BY <1>0, <1>6, <2>1 DEF OwnerInv
  <2>2. CASE u = t
    <3>1. \A w \in Txn : txn'[w].phase = "committing" /\ txn'[w].open = txn'[u].open => w = u
      BY Zenon, <1>6, <2>1, <2>2
    <3> QED BY <1>0, <1>2, <1>4, <1>6, <2>2, <3>1 DEF Complete
  <2>3. CASE u # t
    <3>1. /\ txn'[u] = txn[u] /\ txn[u].phase = "committing" /\ txn[u].open \in DOMAIN log
          /\ log'[txn[u].open] = log[txn[u].open]
      BY Zenon, <1>2, <1>6, <1>9, <2>3 DEF OwnerInv
    <3>2. \A w \in Txn : txn'[w].phase = "committing" /\ txn'[w].open = txn'[u].open => w = u
      BY <1>6, <2>1, <2>3, <3>1, <1>9 DEF OwnerInv
    <3> QED BY <1>0, <1>4, <3>1, <3>2 DEF OwnerInv
  <2> QED BY Zenon, <2>2, <2>3
<1>10. ASSUME NEW i \in DOMAIN log'
       PROVE  \/ Complete(log'[i].status)
              \/ \E u \in Txn : txn'[u].phase = "committing" /\ txn'[u].open = i
              \/ schema'.phase = "submitted" /\ schema'.open = i
              \/ i \in lost'
  <2>1. CASE i = Len(log) + 1
    BY Zenon, <1>6, <2>1
  <2>2. CASE i # Len(log) + 1
    <3>1. i \in DOMAIN log /\ log'[i] = log[i]
      BY <1>0, <1>2, <1>4, <2>2
    <3>2. \/ Complete(log[i].status)
          \/ \E u \in Txn : txn[u].phase = "committing" /\ txn[u].open = i
          \/ schema.phase = "submitted" /\ schema.open = i
          \/ i \in lost
      BY Zenon, <3>1 DEF OwnerInv
    <3>3. \A u \in Txn : txn[u].phase = "committing" => txn'[u] = txn[u]
      BY Zenon, <1>5, <1>6
    <3> QED BY Zenon, <1>5, <3>1, <3>2, <3>3
  <2> QED BY Zenon, <2>1, <2>2
<1> QED BY Zenon, <1>5, <1>7, <1>8, <1>9, <1>10 DEF OwnerInv

\* A writer's commit gets its status.
LEMMA MarkTxnOwner ==
  ASSUME TypeInv, OwnerInv, NEW t \in Txn, DecideTxn(t) \/ FinishTxn(t)
  PROVE  OwnerInv'
<1>0. Watermark(log) \in Nat /\ Len(log) \in Nat /\ DOMAIN log = 1..Len(log)
  BY Zenon, LogFacts DEF TypeInv
<1>1. txn \in [Txn -> TxnState] /\ schema \in SchemaState
  BY Zenon DEF TypeInv
<1> DEFINE i == txn[t].open
<1>2. /\ txn[t].phase = "committing" /\ txn[t].kind = "write" /\ i \in DOMAIN log
      /\ schema' = schema /\ lost' = lost
  BY Zenon DEF DecideTxn, FinishTxn, OwnerInv
<1>3. schema.phase = "closed"
  BY Zenon, <1>1, <1>2 DEF OwnerInv
<1>4. \A u \in Txn : u # t /\ txn[u].phase = "committing" => txn[u].open # i
  BY Zenon, <1>2 DEF OwnerInv
<1>5. CASE DecideTxn(t)
  <2>1. Marks(i, {"applied", "aborted"}) /\ txn' = txn
    BY <1>5, DecideTxnMarks, Zenon DEF DecideTxn
  <2>2. Watermark(log) <= Watermark(log') /\ Watermark(log') \in Nat
    BY Zenon, <2>1, WatermarkRises DEF Marks
  <2>3. /\ DOMAIN log' = DOMAIN log /\ log'[i].type = log[i].type /\ ~Complete(log'[i].status)
        /\ \A j \in DOMAIN log : j # i => log'[j] = log[j]
    BY Zenon, <2>1 DEF Marks, Complete
  <2>4. \A u \in Txn : txn[u].phase \in Readers => txn[u].open <= Watermark(log')
    <3>1. \A x, y, z \in Nat : x <= y /\ y <= z => x <= z
      OBVIOUS
    <3> QED BY Zenon, <1>0, <1>1, <2>2, <3>1 DEF OwnerInv, TxnState
  <2> HIDE DEF i
  <2>5. \A u \in Txn : txn[u].phase = "committing" =>
           /\ txn[u].kind = "write" /\ txn[u].open \in DOMAIN log'
           /\ log'[txn[u].open].type = "data" /\ ~Complete(log'[txn[u].open].status)
           /\ \A w \in Txn : txn[w].phase = "committing" /\ txn[w].open = txn[u].open => w = u
    <3>1. ASSUME NEW u \in Txn, txn[u].phase = "committing"
          PROVE  /\ txn[u].kind = "write" /\ txn[u].open \in DOMAIN log
                 /\ log[txn[u].open].type = "data" /\ ~Complete(log[txn[u].open].status)
                 /\ \A w \in Txn : txn[w].phase = "committing" /\ txn[w].open = txn[u].open => w = u
      BY Zenon, <3>1 DEF OwnerInv
    <3>2. ASSUME NEW j \in DOMAIN log, log[j].type = "data", ~Complete(log[j].status)
          PROVE  j \in DOMAIN log' /\ log'[j].type = "data" /\ ~Complete(log'[j].status)
      BY Zenon, <2>3, <3>2
    <3> QED BY Zenon, <3>1, <3>2
  <2>6. \A j \in DOMAIN log' :
           \/ Complete(log'[j].status)
           \/ \E u \in Txn : txn[u].phase = "committing" /\ txn[u].open = j
           \/ schema.phase = "submitted" /\ schema.open = j
           \/ j \in lost
    <3>1. \A j \in DOMAIN log :
             \/ Complete(log[j].status)
             \/ \E u \in Txn : txn[u].phase = "committing" /\ txn[u].open = j
             \/ schema.phase = "submitted" /\ schema.open = j
             \/ j \in lost
      BY Zenon DEF OwnerInv
    <3> QED BY <1>2, <2>3, <3>1 DEF i
  <2> QED BY Zenon, <1>2, <1>3, <2>1, <2>4, <2>5, <2>6 DEF OwnerInv
<1>6. CASE FinishTxn(t)
  <2>1. Marks(i, {"validated", "rejected"}) /\ txn' = [txn EXCEPT ![t] = Closed(@.kind)]
    BY <1>6, FinishTxnMarks, Zenon DEF FinishTxn
  <2>2. Watermark(log) <= Watermark(log') /\ Watermark(log') \in Nat
    BY Zenon, <2>1, WatermarkRises DEF Marks
  <2>3. /\ DOMAIN log' = DOMAIN log /\ Complete(log'[i].status)
        /\ \A j \in DOMAIN log : j # i => log'[j] = log[j]
    BY Zenon, <2>1 DEF Marks, Complete
  <2>4. txn'[t].phase = "closed" /\ \A u \in Txn : u # t => txn'[u] = txn[u]
    BY Zenon, <1>1, <2>1 DEF Closed
  <2>5. \A u \in Txn : txn'[u].phase \in Readers => txn'[u].open <= Watermark(log')
    <3>1. \A u \in Txn : txn[u].phase \in Readers => txn[u].open <= Watermark(log) /\ txn[u].open \in Nat
      BY Zenon, <1>1 DEF OwnerInv, TxnState
    <3>2. \A x, y, z \in Nat : x <= y /\ y <= z => x <= z
      OBVIOUS
    <3>3. txn'[t].phase \notin Readers
      BY Zenon, <2>4 DEF Readers
    <3> QED BY Zenon, <1>0, <2>2, <2>4, <3>1, <3>2, <3>3
  <2> HIDE DEF i
  <2>6. \A u \in Txn : txn'[u].phase = "committing" =>
           /\ txn'[u].kind = "write" /\ txn'[u].open \in DOMAIN log'
           /\ log'[txn'[u].open].type = "data" /\ ~Complete(log'[txn'[u].open].status)
           /\ \A w \in Txn : txn'[w].phase = "committing" /\ txn'[w].open = txn'[u].open => w = u
    <3> SUFFICES ASSUME NEW u \in Txn, txn'[u].phase = "committing"
                 PROVE  /\ txn'[u].kind = "write" /\ txn'[u].open \in DOMAIN log'
                        /\ log'[txn'[u].open].type = "data" /\ ~Complete(log'[txn'[u].open].status)
                        /\ \A w \in Txn : txn'[w].phase = "committing" /\ txn'[w].open = txn'[u].open => w = u
        BY Zenon
    <3>1. u # t /\ txn'[u] = txn[u] /\ txn[u].phase = "committing"
      BY Zenon, <2>4
    <3>2. /\ txn[u].kind = "write" /\ txn[u].open \in DOMAIN log
          /\ log[txn[u].open].type = "data" /\ ~Complete(log[txn[u].open].status)
          /\ \A w \in Txn : txn[w].phase = "committing" /\ txn[w].open = txn[u].open => w = u
      BY Zenon, <3>1 DEF OwnerInv
    <3>3. log'[txn[u].open] = log[txn[u].open] /\ DOMAIN log' = DOMAIN log
      BY Zenon, <1>4, <2>3, <3>1, <3>2
    <3>4. ASSUME NEW w \in Txn, txn'[w].phase = "committing" PROVE txn'[w] = txn[w]
      BY Zenon, <2>4, <3>4
    <3> QED BY Zenon, <3>1, <3>2, <3>3, <3>4
  <2>7. \A j \in DOMAIN log' :
           \/ Complete(log'[j].status)
           \/ \E u \in Txn : txn'[u].phase = "committing" /\ txn'[u].open = j
           \/ schema.phase = "submitted" /\ schema.open = j
           \/ j \in lost
    BY <1>2, <2>3, <2>4 DEF OwnerInv, i
  <2> QED BY Zenon, <1>2, <1>3, <2>5, <2>6, <2>7 DEF OwnerInv
<1> QED BY Zenon, <1>5, <1>6

\* A commit that fails is remembered.
LEMMA FailTxnOwner ==
  ASSUME TypeInv, OwnerInv, NEW t \in Txn, FailTxn(t)
  PROVE  OwnerInv'
<1>1. txn \in [Txn -> TxnState]
  BY Zenon DEF TypeInv
<1>2. /\ log' = log /\ schema' = schema /\ lost' = lost \cup {txn[t].open}
      /\ txn' = [txn EXCEPT ![t] = Closed(@.kind)] /\ txn[t].phase = "committing"
  BY Zenon DEF FailTxn, Lose
<1>3. txn'[t].phase = "closed" /\ \A u \in Txn : u # t => txn'[u] = txn[u]
  BY Zenon, <1>1, <1>2 DEF Closed
<1>4. \A u \in Txn : txn'[u].phase # "closed" => txn'[u] = txn[u]
  BY Zenon, <1>3
<1>5. schema.phase = "closed"
  BY Zenon, <1>2 DEF OwnerInv
<1>6. \A u \in Txn : txn'[u].phase \in Readers => txn'[u].open <= Watermark(log)
  BY Zenon, <1>4 DEF OwnerInv, Readers
<1>7. ASSUME NEW u \in Txn, txn'[u].phase = "committing"
      PROVE  /\ txn'[u].kind = "write" /\ txn'[u].open \in DOMAIN log
             /\ log[txn'[u].open].type = "data" /\ ~Complete(log[txn'[u].open].status)
             /\ \A w \in Txn : txn'[w].phase = "committing" /\ txn'[w].open = txn'[u].open => w = u
  <2>1. \A w \in Txn : txn'[w].phase = "committing" => txn'[w] = txn[w]
    BY Zenon, <1>4
  <2>2. txn'[u] = txn[u] /\ txn[u].phase = "committing"
    BY Zenon, <1>7, <2>1
  <2>3. /\ txn[u].kind = "write" /\ txn[u].open \in DOMAIN log
        /\ log[txn[u].open].type = "data" /\ ~Complete(log[txn[u].open].status)
    BY Zenon, <2>2 DEF OwnerInv
  <2>4. \A w \in Txn : txn[w].phase = "committing" /\ txn[w].open = txn[u].open => w = u
    BY Zenon, <2>2 DEF OwnerInv
  <2>5. ASSUME NEW w \in Txn, txn'[w].phase = "committing", txn'[w].open = txn'[u].open
        PROVE  w = u
    <3>1. txn[w].phase = "committing" /\ txn[w].open = txn[u].open
      BY Zenon, <2>1, <2>2, <2>5
    <3> QED BY Zenon, <2>4, <3>1
  <2> QED BY Zenon, <2>2, <2>3, <2>5
<1>8. ASSUME NEW i \in DOMAIN log
      PROVE  \/ Complete(log[i].status)
             \/ \E u \in Txn : txn'[u].phase = "committing" /\ txn'[u].open = i
             \/ schema.phase = "submitted" /\ schema.open = i
             \/ i \in lost'
  <2>1. \/ Complete(log[i].status)
        \/ \E u \in Txn : txn[u].phase = "committing" /\ txn[u].open = i
        \/ schema.phase = "submitted" /\ schema.open = i
        \/ i \in lost
    BY Zenon DEF OwnerInv
  <2> QED BY Zenon, <1>2, <1>3, <2>1
<1> QED BY Zenon, <1>2, <1>5, <1>6, <1>7, <1>8 DEF OwnerInv

\* The log and the transactions stay.
LEMMA SchemaOwner ==
  ASSUME TypeInv, OwnerInv,
         \/ OpenSchema \/ AbandonSchema \/ LockSchema \/ ReplaceUnchanged \/ ReplaceCaches
         \/ FailSchema \/ Updater \/ UNCHANGED vars
  PROVE  OwnerInv'
<1>1. Watermark(log) \in Nat
  BY Zenon, LogFacts DEF TypeInv
<1>2. txn \in [Txn -> TxnState] /\ schema \in SchemaState
  BY Zenon DEF TypeInv
<1>3. CASE OpenSchema
  <2>1. /\ log' = log /\ txn' = txn /\ lost' = lost /\ schema.phase = "closed"
        /\ \A t \in Txn : txn[t].phase # "closed" => txn[t].kind = "read"
        /\ schema' = [phase |-> "open", open |-> Watermark(log), statistics |-> NewStatistics(0)]
    BY <1>3, Zenon DEF OpenSchema
  <2>2. schema'.phase = "open" /\ schema'.open = Watermark(log)
    BY Zenon, <2>1
  <2>3. Watermark(log) <= Watermark(log)
    BY <1>1
  <2> QED BY Zenon, <2>1, <2>2, <2>3 DEF OwnerInv
<1>4. CASE AbandonSchema \/ FailSchema \/ ReplaceUnchanged \/ ReplaceCaches
  <2>1. log' = log /\ txn' = txn /\ schema' = NoSchema
    BY Zenon, <1>4 DEF AbandonSchema, FailSchema, ReplaceUnchanged, ReplaceCaches, Replace
  <2>2. lost \subseteq lost' /\ (schema.phase = "submitted" => schema.open \in lost')
    BY Zenon, <1>4 DEF AbandonSchema, FailSchema, Lose, ReplaceUnchanged, ReplaceCaches
  <2>3. schema'.phase = "closed"
    BY Zenon, <2>1 DEF NoSchema
  <2>4. ASSUME NEW i \in DOMAIN log
        PROVE  \/ Complete(log[i].status)
               \/ \E t \in Txn : txn[t].phase = "committing" /\ txn[t].open = i
               \/ i \in lost'
    BY Zenon, <2>2 DEF OwnerInv
  <2> QED BY Zenon, <1>1, <1>2, <2>1, <2>3, <2>4 DEF OwnerInv
<1>5. CASE LockSchema
  <2>1. /\ log' = log /\ txn' = txn /\ lost' = lost /\ schema.phase = "open"
        /\ \E st : schema' = [phase |-> IF st.panic THEN "poisoned" ELSE "locked",
                              open |-> schema.open, statistics |-> Counts(st)]
    BY <1>5, Zenon DEF LockSchema
  <2>2. schema'.phase \in {"locked", "poisoned"} /\ schema'.open = schema.open
    BY <2>1
  <2> QED BY Zenon, <1>1, <1>2, <2>1, <2>2 DEF OwnerInv
<1>6. CASE Updater
  <2>1. log' = log /\ txn' = txn /\ schema' = schema /\ lost' = lost
    BY <1>6, Zenon DEF Updater, UpdaterCheck, UpdaterClone, UpdaterSync, UpdaterStore
  <2> QED BY Zenon, <2>1 DEF OwnerInv
<1>7. CASE UNCHANGED vars
  BY Zenon, <1>7 DEF vars, OwnerInv
<1> QED BY Zenon, <1>3, <1>4, <1>5, <1>6, <1>7

\* A schema transaction finds every commit complete but its own and the failed ones.
LEMMA CompleteBeside ==
  ASSUME TypeInv, OwnerInv, schema.phase # "closed", NEW i \in DOMAIN log,
         ~(schema.phase = "submitted" /\ schema.open = i)
  PROVE  Complete(log[i].status) \/ i \in lost
BY Zenon DEF OwnerInv

\* A new schema commit is the schema transaction's, and nobody else has one to finish.
LEMMA SubmitSchemaOwner ==
  ASSUME TypeInv, OwnerInv, SubmitSchema
  PROVE  OwnerInv'
<1>0. Watermark(log) \in Nat /\ Len(log) \in Nat /\ DOMAIN log = 1..Len(log)
  BY Zenon, LogFacts DEF TypeInv
<1>1. txn \in [Txn -> TxnState] /\ schema \in SchemaState
  BY Zenon DEF TypeInv
<1>2. /\ Later(log, log') /\ WellFormed(log') /\ Len(log') = Len(log) + 1
      /\ \A i \in DOMAIN log : log'[i] = log[i]
      /\ log'[Len(log) + 1].type = "schema" /\ log'[Len(log) + 1].status = "pending"
  BY Zenon, SubmitSchemaLog
<1>3. Watermark(log) <= Watermark(log') /\ Watermark(log') \in Nat
  BY Zenon, <1>2, WatermarkRises
<1>4. DOMAIN log' = 1..(Len(log) + 1)
  BY <1>2 DEF WellFormed
<1>5. /\ schema' = [phase |-> "submitted", open |-> Len(log) + 1, statistics |-> schema.statistics]
      /\ schema.phase = "locked" /\ txn' = txn /\ lost' = lost
  BY Zenon DEF SubmitSchema
<1>6. schema'.phase = "submitted" /\ schema'.open = Len(log) + 1
  BY Zenon, <1>5
<1>7. \A u \in Txn : txn[u].phase # "closed" => txn[u].kind = "read"
  BY Zenon, <1>5 DEF OwnerInv
<1>8. \A u \in Txn : txn[u].phase # "committing"
  BY Zenon, <1>7 DEF OwnerInv
<1>9. \A u \in Txn : txn[u].phase \in Readers => txn[u].open <= Watermark(log')
  BY <1>0, <1>1, <1>3 DEF OwnerInv, TxnState
<1>10. ASSUME NEW i \in DOMAIN log', i # Len(log) + 1 PROVE Complete(log'[i].status) \/ i \in lost'
  <2>1. i \in DOMAIN log /\ log'[i] = log[i]
    BY <1>0, <1>2, <1>4, <1>10
  <2> QED BY Zenon, <1>5, <2>1, CompleteBeside
<1>11. Len(log) + 1 \in DOMAIN log'
  BY <1>0, <1>4
<1> QED BY Zenon, <1>2, <1>5, <1>6, <1>7, <1>8, <1>9, <1>10, <1>11 DEF OwnerInv

\* The schema commit gets its status.
LEMMA MarkSchemaOwner ==
  ASSUME TypeInv, OwnerInv, DecideSchema \/ FinishSchema
  PROVE  OwnerInv'
<1>0. Watermark(log) \in Nat /\ Len(log) \in Nat /\ DOMAIN log = 1..Len(log)
  BY Zenon, LogFacts DEF TypeInv
<1>1. txn \in [Txn -> TxnState] /\ schema \in SchemaState
  BY Zenon DEF TypeInv
<1> DEFINE i == schema.open
<1>2. schema.phase = "submitted" /\ txn' = txn /\ lost' = lost
  BY Zenon DEF DecideSchema, FinishSchema
<1>3. \A u \in Txn : txn[u].phase # "closed" => txn[u].kind = "read"
  BY Zenon, <1>2 DEF OwnerInv
<1>4. \A u \in Txn : txn[u].phase # "committing"
  BY Zenon, <1>3 DEF OwnerInv
<1>5. \A j \in DOMAIN log : j # i => Complete(log[j].status) \/ j \in lost
  BY Zenon, <1>2, CompleteBeside
<1>6. i = Len(log) /\ i \in DOMAIN log /\ log[i].type = "schema"
  BY Zenon, <1>2 DEF OwnerInv
<1>7. PICK S \in {{"applied"}, {"validated"}} :
         /\ Marks(i, S) /\ schema'.open = i
         /\ \/ S = {"applied"} /\ schema'.phase = "submitted"
            \/ S = {"validated"} /\ schema'.phase = "committed"
  <2>1. CASE DecideSchema
    <3>1. Marks(i, {"applied"}) /\ schema' = schema
      BY <2>1, DecideSchemaMarks, Zenon DEF DecideSchema
    <3> QED BY Zenon, <1>2, <3>1
  <2>2. CASE FinishSchema
    <3>1. Marks(i, {"validated"}) /\ schema' = [schema EXCEPT !.phase = "committed"]
      BY <2>2, FinishSchemaMarks, Zenon DEF FinishSchema
    <3>2. schema'.open = i /\ schema'.phase = "committed"
      BY Zenon, <1>1, <3>1 DEF SchemaState
    <3> QED BY Zenon, <3>1, <3>2
  <2> QED BY Zenon, <2>1, <2>2
<1>8. Watermark(log) <= Watermark(log') /\ Watermark(log') \in Nat
  BY Zenon, <1>7, WatermarkRises DEF Marks
<1>9. \A u \in Txn : txn[u].phase \in Readers => txn[u].open <= Watermark(log')
  BY <1>0, <1>1, <1>8 DEF OwnerInv, TxnState
<1> HIDE DEF i
<1>10. /\ DOMAIN log' = DOMAIN log /\ Len(log') = Len(log) /\ log'[i].type = "schema" /\ log'[i].status \in S
       /\ \A j \in DOMAIN log : j # i => log'[j] = log[j]
  BY Zenon, <1>6, <1>7 DEF Marks
<1>11. \A j \in DOMAIN log' :
           Complete(log'[j].status) \/ (schema'.phase = "submitted" /\ schema'.open = j) \/ j \in lost'
  <2> SUFFICES ASSUME NEW j \in DOMAIN log'
               PROVE  \/ Complete(log'[j].status)
                      \/ schema'.phase = "submitted" /\ schema'.open = j
                      \/ j \in lost'
    BY Zenon
  <2>1. CASE j # i
    BY Zenon, <1>2, <1>5, <1>10, <2>1
  <2>2. CASE j = i
    BY Zenon, <1>7, <1>10, <2>2 DEF Complete
  <2> QED BY Zenon, <2>1, <2>2
<1>12. schema'.phase = "submitted" => log'[schema'.open].status \in {"pending", "applied"}
  BY Zenon, <1>7, <1>10
<1>13. schema'.phase = "committed" => log'[schema'.open].status = "validated"
  BY Zenon, <1>7, <1>10
<1>14. schema'.phase \in {"submitted", "committed"} /\ schema'.open = i
  BY Zenon, <1>7
<1> QED BY Zenon, <1>2, <1>3, <1>4, <1>6, <1>9, <1>10, <1>11, <1>12, <1>13, <1>14 DEF OwnerInv

\* After a restart no commit needs an owner.
LEMMA CrashOwner ==
  ASSUME TypeInv, OwnerInv, Crash
  PROVE  OwnerInv'
<1>1. DOMAIN log' = DOMAIN log /\ \A i \in DOMAIN log : Complete(log'[i].status)
  BY Zenon, CrashLog
<1>2. /\ \A t \in Txn : txn'[t].phase = "closed"
      /\ schema'.phase \in {"closed", "poisoned"}
  BY Zenon, CrashStores
<1> QED BY Zenon, <1>1, <1>2 DEF OwnerInv, Readers

\* Every step leaves an incomplete commit with one owner, or remembers that it failed.
LEMMA OwnerStep ==
  ASSUME TypeInv, OwnerInv, [Next]_vars
  PROVE  OwnerInv'
<1>1. CASE \/ OpenSchema \/ AbandonSchema \/ LockSchema \/ ReplaceUnchanged \/ ReplaceCaches
           \/ FailSchema \/ Updater \/ UNCHANGED vars
  BY Zenon, <1>1, SchemaOwner
<1>2. ASSUME NEW t \in Txn, Transaction(t) PROVE OwnerInv'
  BY <1>2, TxnOwner, CommitTxnOwner, MarkTxnOwner, FailTxnOwner, Zenon DEF Transaction
<1>3. CASE SubmitSchema \/ DecideSchema \/ FinishSchema \/ Crash
  BY Zenon, <1>3, SubmitSchemaOwner, MarkSchemaOwner, CrashOwner
<1> QED BY <1>1, <1>2, <1>3, Zenon DEF Next, SchemaTransaction

\* Every step leaves statistics that count the log within the watermark.
LEMMA StatisticsStep ==
  ASSUME TypeInv, OwnerInv, StatisticsInv, [Next]_vars
  PROVE  StatisticsInv'
<1>1. StoresKept
  BY Zenon, StoreStep
<1> QED BY Zenon, <1>1 DEF StoresKept, Kept, StatisticsInv

(* What is flushed before a schema commit.                                       *)

\* How the schema lock is taken
LEMMA LockedStep ==
  ASSUME TypeInv, OwnerInv, [Next]_vars, schema'.phase = "locked"
  PROVE  LockSchema \/ (schema.phase = "locked" /\ log' = log /\ lost' = lost)
<1>1. ASSUME NEW t \in Txn, OpenTxn(t) \/ CompilePlan(t) \/ InsertPlan(t) \/ CloseTxn(t)
      PROVE  schema.phase = "locked" /\ log' = log /\ lost' = lost
  BY <1>1, Zenon DEF OpenTxn, CompilePlan, InsertPlan, CloseTxn
<1>2. ASSUME NEW t \in Txn, CommitTxn(t) \/ DecideTxn(t) \/ FinishTxn(t) \/ FailTxn(t)
      PROVE  FALSE
  <2>1. schema' = schema
    BY <1>2, Zenon DEF CommitTxn, DecideTxn, FinishTxn, FailTxn
  <2>2. txn[t].phase # "closed" /\ txn[t].kind = "write"
    <3>1. CASE CommitTxn(t)
      BY Zenon, <3>1 DEF CommitTxn
    <3>2. CASE DecideTxn(t) \/ FinishTxn(t) \/ FailTxn(t)
      BY Zenon, <3>2 DEF DecideTxn, FinishTxn, FailTxn, OwnerInv
    <3> QED BY Zenon, <1>2, <3>1, <3>2
  <2> QED BY Zenon, <2>1, <2>2 DEF OwnerInv
<1>3. CASE OpenSchema \/ AbandonSchema \/ FailSchema
  BY <1>3 DEF OpenSchema, AbandonSchema, FailSchema, NoSchema
<1>4. CASE ReplaceUnchanged \/ ReplaceCaches
  BY <1>4 DEF ReplaceUnchanged, ReplaceCaches, Replace, NoSchema
<1>5. CASE SubmitSchema
  BY Zenon, <1>5 DEF SubmitSchema
<1>6. CASE DecideSchema
  BY Zenon, <1>6 DEF DecideSchema
<1>7. CASE FinishSchema
  BY Zenon, <1>7 DEF FinishSchema, TypeInv, SchemaState
<1>8. CASE Updater
  BY <1>8, Zenon DEF Updater, UpdaterCheck, UpdaterClone, UpdaterSync, UpdaterStore
<1>9. CASE Crash
  BY Zenon, <1>9, CrashStores
<1>10. CASE UNCHANGED vars
  BY Zenon, <1>10 DEF vars
<1> QED BY <1>1, <1>2, <1>3, <1>4, <1>5, <1>6, <1>7, <1>8, <1>9, <1>10, Zenon
        DEF Next, Transaction, SchemaTransaction

\* The commits that a step adds to the log
LEMMA NewCommits ==
  ASSUME TypeInv, OwnerInv, [Next]_vars
  PROVE  \/ Len(log') = Len(log)
         \/ Len(log') = Len(log) + 1 /\ log'[Len(log) + 1].type = "data"
         \/ Len(log') = Len(log) + 1 /\ SubmitSchema
<1>1. ASSUME NEW t \in Txn, CommitTxn(t) \/ DecideTxn(t) \/ FinishTxn(t)
      PROVE  \/ Len(log') = Len(log)
             \/ Len(log') = Len(log) + 1 /\ log'[Len(log) + 1].type = "data"
  BY <1>1, CommitTxnLog, DecideTxnMarks, FinishTxnMarks, Zenon DEF Marks
<1>2. CASE SubmitSchema
  BY <1>2, SubmitSchemaLog, Zenon
<1>3. CASE DecideSchema \/ FinishSchema \/ Crash
  BY <1>3, DecideSchemaMarks, FinishSchemaMarks, CrashLog, Zenon DEF Marks
<1>4. CASE LogKept
  BY Zenon, <1>4, KeptLog
<1>5. CASE UNCHANGED vars
  BY Zenon, <1>5 DEF vars
<1> QED BY <1>1, <1>2, <1>3, <1>4, <1>5, NextCases, Zenon

\* The steps that give no schema commit its status
KeepsSchemas ==
    \/ LogKept \/ SubmitSchema
    \/ \E t \in Txn : CommitTxn(t) \/ DecideTxn(t) \/ FinishTxn(t)

\* A schema commit keeps its status in them.
LEMMA SchemaKept ==
  ASSUME TypeInv, OwnerInv, KeepsSchemas, NEW i \in DOMAIN log, log[i].type = "schema"
  PROVE  log'[i].status = log[i].status
<1>1. ASSUME NEW t \in Txn, CommitTxn(t) PROVE log'[i] = log[i]
  BY Zenon, <1>1, CommitTxnLog
<1>2. ASSUME NEW t \in Txn, DecideTxn(t) \/ FinishTxn(t) PROVE log'[i] = log[i]
  <2>1. log[txn[t].open].type = "data"
    BY Zenon, <1>2 DEF DecideTxn, FinishTxn, OwnerInv
  <2>2. \A j \in DOMAIN log : j # txn[t].open => log'[j] = log[j]
    BY Zenon, <1>2, DecideTxnMarks, FinishTxnMarks DEF Marks
  <2>3. i # txn[t].open
    <3>1. "data" # "schema"
      OBVIOUS
    <3> QED BY Zenon, <2>1, <3>1
  <2> QED BY Zenon, <2>2, <2>3
<1>3. CASE SubmitSchema
  BY Zenon, <1>3, SubmitSchemaLog
<1>4. CASE LogKept
  BY Zenon, <1>4, KeptLog
<1> QED BY <1>1, <1>2, <1>3, <1>4, Zenon DEF KeepsSchemas

\* Only its transaction, and recovery, give a schema commit another status.
LEMMA SchemaStatus ==
  ASSUME TypeInv, OwnerInv, [Next]_vars, NEW i \in DOMAIN log, log[i].type = "schema"
  PROVE  \/ log'[i].status = log[i].status
         \/ Crash
         \/ (DecideSchema \/ FinishSchema) /\ schema.open = i
<1>1. CASE DecideSchema \/ FinishSchema
  <2>1. \A j \in DOMAIN log : j # schema.open => log'[j] = log[j]
    BY Zenon, <1>1, DecideSchemaMarks, FinishSchemaMarks DEF Marks
  <2> QED BY Zenon, <1>1, <2>1
<1>2. CASE KeepsSchemas
  BY Zenon, <1>2, SchemaKept
<1>3. CASE UNCHANGED vars
  BY Zenon, <1>3 DEF vars
<1> QED BY <1>1, <1>2, <1>3, NextCases, Zenon DEF KeepsSchemas

\* A schema commit is accepted after every commit before it is decided.
LEMMA AcceptedAfter ==
  ASSUME TypeInv, OwnerInv, FlushInv, [Next]_vars, NEW i \in DOMAIN log, log[i].type = "schema",
         log'[i].status \in {"applied", "validated"}, NEW j \in 1..(i - 1)
  PROVE  log'[j].status # "pending"
<1>0. Later(log, log') /\ j \in DOMAIN log /\ j # i
  <2>1. DOMAIN log = 1..Len(log) /\ Len(log) \in Nat
    BY DEF TypeInv, WellFormed
  <2>2. j \in DOMAIN log /\ j # i
    BY <2>1
  <2> QED BY Zenon, <2>2, LogStep
<1>1. CASE log[i].status \in {"applied", "validated"}
  <2>1. log[j].status # "pending"
    BY Zenon, <1>1 DEF FlushInv
  <2> QED BY Zenon, <1>0, <2>1 DEF Later
<1>2. CASE Crash
  <2>1. Complete(log'[j].status)
    BY Zenon, <1>0, <1>2, CrashLog
  <2> QED BY Zenon, <2>1 DEF Complete
<1>3. CASE DecideSchema /\ schema.open = i
  <2>1. /\ schema.phase = "submitted"
        /\ \A l \in lost : l < i => log[l].status # "pending"
    BY Zenon, <1>3 DEF DecideSchema, Decide
  <2>2. Complete(log[j].status) \/ j \in lost
    BY Zenon, <1>0, <1>3, <2>1, CompleteBeside
  <2>3. j < i
    <3>1. i \in Nat
      BY DEF TypeInv, WellFormed
    <3> QED BY <3>1
  <2>4. log[j].status # "pending"
    BY Zenon, <2>1, <2>2, <2>3 DEF Complete
  <2> QED BY Zenon, <1>0, <2>4 DEF Later
<1>4. CASE FinishSchema /\ schema.open = i
  <2>1. log[i].status \in {"pending", "applied"} /\ log[i].status \in {"applied", "aborted"}
    BY Zenon, <1>4 DEF FinishSchema, OwnerInv, PersistStatus
  <2>2. log[i].status = "applied"
    BY <2>1
  <2> QED BY Zenon, <1>1, <2>2
<1>5. CASE log'[i].status = log[i].status
  BY Zenon, <1>1, <1>5
<1> QED BY Zenon, <1>2, <1>3, <1>4, <1>5, SchemaStatus

\* What lies below the first failed commit before a schema commit is in a statistics record.
LEMMA FlushStep ==
  ASSUME TypeInv, OwnerInv, StatisticsInv, FlushInv, [Next]_vars
  PROVE  FlushInv'
<1>1. Later(log, log') /\ WellFormed(log') /\ StoresKept
  BY Zenon, LogStep, StoreStep
<1>2. Len(log) \in Nat /\ DOMAIN log = 1..Len(log) /\ flushed \in Nat
  BY DEF TypeInv, WellFormed
<1>3. flushed' \in Nat /\ flushed <= flushed'
  BY Zenon, <1>1 DEF StoresKept
<1>4. Len(log') \in Nat /\ DOMAIN log' = 1..Len(log') /\ Len(log) <= Len(log')
  BY <1>1 DEF WellFormed, Later
<1>5. ASSUME schema'.phase = "locked", NEW j \in Committed(log', Len(log'))
      PROVE  j <= flushed' \/ \E l \in lost' : l <= j
  <2>1. CASE LockSchema
    <3>1. schema.phase = "open" /\ log' = log /\ lost' = lost
      BY <2>1, Zenon DEF LockSchema
    <3>2. \A i \in DOMAIN log : Complete(log[i].status) \/ i \in lost
      BY Zenon, <3>1, CompleteBeside
    <3>3. j \in Committed(log, Len(log))
      BY Zenon, <1>5, <3>1
    <3>4. CASE \A i \in 1..j : Complete(log[i].status)
      BY <1>5, <2>1, <3>3, <3>4, LockKept, Zenon
    <3>5. CASE ~ \A i \in 1..j : Complete(log[i].status)
      <4>1. PICK i \in 1..j : ~Complete(log[i].status)
        BY Zenon, <3>5
      <4>2. i \in DOMAIN log /\ i <= j
        BY <1>2, <3>3 DEF Committed
      <4> QED BY Zenon, <3>1, <3>2, <4>1, <4>2
    <3> QED BY Zenon, <3>4, <3>5
  <2>2. CASE schema.phase = "locked" /\ log' = log /\ lost' = lost
    <3>1. j \in Committed(log, Len(log)) /\ (j <= flushed \/ \E l \in lost' : l <= j)
      BY Zenon, <1>5, <2>2 DEF FlushInv
    <3>2. j \in Nat
      BY <1>2, <3>1 DEF Committed
    <3>3. \A x, y, z \in Nat : x <= y /\ y <= z => x <= z
      OBVIOUS
    <3> QED BY Zenon, <1>2, <1>3, <3>1, <3>2, <3>3
  <2> QED BY Zenon, <1>5, <2>1, <2>2, LockedStep
<1>6. ASSUME NEW i \in DOMAIN log', log'[i].type = "schema"
      PROVE  /\ \A j \in 1..(i - 1) : Complete(log'[j].status) \/ j \in log'[i].lost
             /\ log'[i].status \in {"applied", "validated"} =>
                    \A j \in 1..(i - 1) : log'[j].status # "pending"
             /\ \A j \in Committed(log', i - 1) :
                    j <= log'[i].flushed \/ \E l \in log'[i].lost : l <= j
  <2>1. CASE i \in DOMAIN log
    <3>1. /\ log[i].type = "schema" /\ log'[i].flushed = log[i].flushed /\ log'[i].lost = log[i].lost
      BY Zenon, <1>1, <1>6, <2>1 DEF Later
    <3>2. ASSUME NEW j \in 1..(i - 1)
          PROVE  j <= j /\ (j \in log[i].lost \/ (Complete(log[j].status) /\ log'[j].status = log[j].status))
      <4>1. j \in DOMAIN log /\ j <= j
        BY <1>2, <2>1
      <4>2. Complete(log[j].status) \/ j \in log[i].lost
        BY Zenon, <2>1, <3>1 DEF FlushInv
      <4> QED BY Zenon, <1>1, <4>1, <4>2 DEF Later
    <3>3. \A j \in Committed(log', i - 1) : j \in Committed(log, i - 1) \/ (j \in log[i].lost /\ j <= j)
      BY Zenon, <3>2 DEF Committed
    <3>4. \A j \in Committed(log, i - 1) : j <= log[i].flushed \/ \E l \in log[i].lost : l <= j
      BY Zenon, <2>1, <3>1 DEF FlushInv, FlushedUnlessLost
    <3>5. log'[i].status \in {"applied", "validated"} =>
             \A j \in 1..(i - 1) : log'[j].status # "pending"
      BY Zenon, <2>1, <3>1, AcceptedAfter
    <3>6. \A j \in Committed(log', i - 1) : j <= log'[i].flushed \/ \E l \in log'[i].lost : l <= j
      BY Zenon, <3>1, <3>3, <3>4
    <3>7. \A j \in 1..(i - 1) : Complete(log'[j].status) \/ j \in log'[i].lost
      BY Zenon, <3>1, <3>2
    <3> QED BY Zenon, <3>5, <3>6, <3>7
  <2>2. CASE i \notin DOMAIN log
    <3>1. SubmitSchema /\ i = Len(log) + 1
      <4>1. Len(log') = Len(log) \/ Len(log') = Len(log) + 1
        <5>1. \/ Len(log') = Len(log)
              \/ Len(log') = Len(log) + 1 /\ log'[Len(log) + 1].type = "data"
              \/ Len(log') = Len(log) + 1 /\ SubmitSchema
          BY Zenon, NewCommits
        <5> QED BY <5>1, Zenon
      <4>2. i = Len(log) + 1 /\ Len(log') # Len(log)
        <5> DEFINE n == Len(log)
                   n2 == Len(log')
        <5>1. n \in Nat /\ n2 \in Nat /\ i \in 1..n2 /\ i \notin 1..n /\ (n2 = n \/ n2 = n + 1)
          BY <1>2, <1>4, <2>2, <4>1, Zenon
        <5> HIDE DEF n, n2
        <5>2. i = n + 1 /\ n2 # n
          BY <5>1
        <5> QED BY Zenon, <5>2 DEF n, n2
      <4> QED BY <1>6, <4>2, NewCommits, Zenon
    <3>2. /\ schema.phase = "locked" /\ log'[i].flushed = flushed /\ log'[i].lost = lost
          /\ log'[i].status = "pending" /\ \A j \in DOMAIN log : log'[j] = log[j]
      BY <3>1, SubmitSchemaLog, Zenon DEF SubmitSchema
    <3>3. \A j \in DOMAIN log : Complete(log[j].status) \/ j \in lost
      BY Zenon, <3>2, CompleteBeside
    <3>4. \A j \in 1..(i - 1) : j \in DOMAIN log
      BY <1>2, <3>1
    <3>5. \A j \in Committed(log', i - 1) : j \in Committed(log, Len(log))
      BY Zenon, <1>2, <3>1, <3>2, <3>4 DEF Committed
    <3>6. \A j \in Committed(log, Len(log)) : j <= flushed \/ \E l \in lost : l <= j
      BY Zenon, <3>2 DEF FlushInv
    <3> QED BY Zenon, <3>2, <3>3, <3>4, <3>5, <3>6
  <2> QED BY Zenon, <2>1, <2>2
<1> QED BY Zenon, <1>5, <1>6 DEF FlushInv, FlushedUnlessLost

(* The caches and the plan.                                                      *)

\* A new transaction's snapshot sees the newest schema.
LEMMA NewestSeen ==
  ASSUME TypeInv, FlushInv
  PROVE  SchemaIn(log, Watermark(log)) = Newest
<1>1. WellFormed(log) /\ Len(log) \in Nat /\ DOMAIN log = 1..Len(log)
  BY DEF TypeInv, WellFormed
<1> DEFINE w == Watermark(log)
           n == SchemaIn(log, Len(log))
           m == SchemaIn(log, w)
<1>2. w \in 0..Len(log) /\ \A s \in DOMAIN log : (\A i \in 1..s : log[i].status # "pending") => s <= w
  BY Zenon, <1>1, WatermarkFacts
<1> HIDE DEF w
<1>3. /\ n \in 0..Len(log)
      /\ n # 0 => n \in Committed(log, Len(log)) /\ log[n].type = "schema"
      /\ \A i \in Committed(log, Len(log)) : log[i].type = "schema" => i <= n
  BY <1>1, SchemaInFacts
<1>4. /\ m \in 0..w
      /\ m # 0 => m \in Committed(log, w) /\ log[m].type = "schema"
      /\ \A i \in Committed(log, w) : log[i].type = "schema" => i <= m
  BY Zenon, <1>1, <1>2, SchemaInFacts
<1> HIDE DEF n, m
<1>5. m <= n
  <2>1. CASE m = 0
    BY <1>3, <2>1
  <2>2. CASE m # 0
    <3>1. m \in Committed(log, Len(log)) /\ log[m].type = "schema"
      BY <1>1, <1>2, <1>4, <2>2 DEF Committed
    <3> QED BY Zenon, <1>3, <3>1
  <2> QED BY Zenon, <2>1, <2>2
<1>6. n <= m
  <2>1. CASE n = 0
    BY <1>2, <1>4, <2>1
  <2>2. CASE n # 0
    <3>1. n \in DOMAIN log /\ log[n].status \in {"applied", "validated"} /\ log[n].type = "schema"
      BY Zenon, <1>1, <1>3, <2>2 DEF Committed
    <3>2. ASSUME NEW i \in 1..n PROVE log[i].status # "pending"
      <4>1. CASE i = n
        BY Zenon, <3>1, <4>1
      <4>2. CASE i # n
        <5>1. i \in 1..(n - 1)
          BY <1>1, <3>1, <4>2
        <5> QED BY Zenon, <3>1, <5>1 DEF FlushInv
      <4> QED BY Zenon, <4>1, <4>2
    <3>3. n <= w
      BY Zenon, <1>2, <3>1, <3>2
    <3>4. n \in Committed(log, w)
      BY <1>1, <1>2, <3>1, <3>3 DEF Committed
    <3> QED BY Zenon, <1>4, <3>1, <3>4
  <2> QED BY Zenon, <2>1, <2>2
<1>7. m = n
  BY <1>1, <1>2, <1>3, <1>4, <1>5, <1>6
<1> QED BY Zenon, <1>7 DEF Newest, n, m, w

\* Commits of data, and those that are not decided, do not change the newest schema.
LEMMA LaterNewest ==
  ASSUME NEW lg, NEW lg2, Later(lg, lg2),
         \A i \in DOMAIN lg : lg[i].type = "schema" => lg2[i].status = lg[i].status,
         \/ Len(lg2) = Len(lg)
         \/ Len(lg2) = Len(lg) + 1 /\ (lg2[Len(lg) + 1].type = "data" \/ lg2[Len(lg) + 1].status = "pending")
  PROVE  SchemaIn(lg2, Len(lg2)) = SchemaIn(lg, Len(lg))
<1>1. /\ Len(lg) \in Nat /\ DOMAIN lg = 1..Len(lg) /\ Len(lg2) \in Nat /\ DOMAIN lg2 = 1..Len(lg2)
      /\ Len(lg) <= Len(lg2)
  BY DEF Later
<1> DEFINE S == {i \in Committed(lg, Len(lg)) : lg[i].type = "schema"}
           S2 == {i \in Committed(lg2, Len(lg2)) : lg2[i].type = "schema"}
<1>3. ASSUME NEW i \in DOMAIN lg, lg[i].type = "schema" PROVE lg2[i].status = lg[i].status
  BY Zenon, <1>3
<1>4. \A i \in DOMAIN lg : lg2[i].type = lg[i].type
  BY Zenon DEF Later
<1>5. S = S2
  <2>1. ASSUME NEW i \in S PROVE i \in S2
    <3>1. i \in DOMAIN lg /\ lg[i].type = "schema" /\ lg[i].status \in {"applied", "validated"}
      BY Zenon, <1>1 DEF Committed
    <3>2. lg2[i].status = lg[i].status /\ lg2[i].type = "schema"
      BY Zenon, <1>3, <1>4, <3>1
    <3>3. i \in 1..Len(lg2)
      <4>1. i \in 1..Len(lg)
        BY Zenon DEF Committed
      <4>2. \A n, m \in Nat : n <= m => \A j \in 1..n : j \in 1..m
        OBVIOUS
      <4> QED BY <1>1, <4>1, <4>2, Zenon
    <3> QED BY Zenon, <3>1, <3>2, <3>3 DEF Committed
  <2>2. ASSUME NEW i \in S2 PROVE i \in S
    <3>1. i \in 1..Len(lg2) /\ lg2[i].type = "schema" /\ lg2[i].status \in {"applied", "validated"}
      BY Zenon DEF Committed
    <3>2. i # Len(lg) + 1 \/ Len(lg2) = Len(lg)
      BY Zenon, <3>1
    <3>3. i \in DOMAIN lg
      <4>1. \A n, m \in Nat : m = n \/ m = n + 1 =>
                \A j \in 1..m : j # n + 1 \/ m = n => j \in 1..n
        OBVIOUS
      <4>2. Len(lg2) = Len(lg) \/ Len(lg2) = Len(lg) + 1
        BY Zenon
      <4> QED BY <1>1, <3>1, <3>2, <4>1, <4>2, Zenon
    <3>4. lg[i].type = "schema" /\ lg2[i].status = lg[i].status
      BY Zenon, <1>3, <1>4, <3>1, <3>3
    <3> QED BY Zenon, <1>1, <3>1, <3>3, <3>4 DEF Committed
  <2> QED BY Zenon, <2>1, <2>2
<1> QED BY Zenon, <1>5 DEF SchemaIn

\* Only the schema transaction changes the newest schema, when its commit is accepted.
LEMMA NewestKept ==
  ASSUME TypeInv, OwnerInv, KeepsSchemas
  PROVE  Newest' = Newest /\ Later(log, log')
<1>0. Next
  BY Zenon DEF KeepsSchemas, LogKept, Next, Transaction, SchemaTransaction
<1>1. Later(log, log')
  BY Zenon, <1>0, LogStep
<1>2. \A i \in DOMAIN log : log[i].type = "schema" => log'[i].status = log[i].status
  BY Zenon, SchemaKept
<1>3. \/ Len(log') = Len(log)
      \/ Len(log') = Len(log) + 1
           /\ (log'[Len(log) + 1].type = "data" \/ log'[Len(log) + 1].status = "pending")
  BY Zenon, <1>0, NewCommits, SubmitSchemaLog
<1>4. SchemaIn(log', Len(log')) = SchemaIn(log, Len(log))
  BY <1>1, <1>2, <1>3, LaterNewest, Zenon
<1> QED BY Zenon, <1>1, <1>4 DEF Newest

\* What an open transaction sees stays what it saw.
LEMMA SeenKept ==
  ASSUME TypeInv, OwnerInv, Later(log, log'), NEW t \in Txn, txn[t].phase \in Readers
  PROVE  SchemaIn(log', txn[t].open) = SchemaIn(log, txn[t].open)
<1>1. Len(log) \in Nat /\ DOMAIN log = 1..Len(log)
  BY DEF TypeInv, WellFormed
<1>2. txn[t].open \in Nat /\ txn[t].open <= Watermark(log)
  BY Zenon DEF TypeInv, TxnState, OwnerInv
<1>3. Watermark(log) \in 0..Len(log) /\ \A i \in 1..Watermark(log) : log[i].status # "pending"
  BY Zenon, <1>1, WatermarkFacts
<1>4. txn[t].open \in 0..Len(log) /\ \A i \in 1..txn[t].open : log[i].status # "pending"
  BY <1>1, <1>2, <1>3
<1> QED BY <1>4, LaterSchemaIn, Zenon

\* Steps of the readers, of writers that open, and of the statistics thread
LEMMA ReaderCache ==
  ASSUME TypeInv, OwnerInv, FlushInv, CacheInv, NEW t \in Txn,
         OpenTxn(t) \/ CompilePlan(t) \/ InsertPlan(t) \/ CloseTxn(t)
  PROVE  CacheInv'
<1>1. txn \in [Txn -> TxnState] /\ schema \in SchemaState
  BY Zenon DEF TypeInv
<1>2. log' = log /\ schema' = schema /\ cache' = cache /\ failed' = failed /\ straddled' = straddled
  BY Zenon DEF OpenTxn, CompilePlan, InsertPlan, CloseTxn, stores
<1>3. Newest' = Newest
  BY Zenon, <1>2 DEF Newest
<1>4. ASSUME NEW u \in Txn, u # t PROVE txn'[u] = txn[u]
  <2>1. CASE OpenTxn(t)
    <3>1. txn' = [txn EXCEPT ![t] = [phase |-> "open", kind |-> @.kind, open |-> Watermark(log),
                                    cache |-> cache]]
      BY <2>1, Zenon DEF OpenTxn
    <3> QED BY Zenon, <1>1, <1>4, <3>1
  <2>2. CASE CompilePlan(t) \/ InsertPlan(t) \/ CloseTxn(t)
    BY Zenon, <1>1, <1>4, <2>2 DEF CompilePlan, InsertPlan, CloseTxn
  <2> QED BY Zenon, <2>1, <2>2
<1>5. CASE OpenTxn(t)
  <2>1. /\ txn' = [txn EXCEPT ![t] = [phase |-> "open", kind |-> @.kind, open |-> Watermark(log),
                                     cache |-> cache]]
        /\ ~SchemaLocked /\ plan' = plan
    BY <1>5, Zenon DEF OpenTxn, stores
  <2>2. txn'[t].open = Watermark(log) /\ txn'[t].cache = cache
    BY Zenon, <1>1, <2>1
  <2>3. SchemaIn(log, txn'[t].open) = Newest
    BY Zenon, <2>2, NewestSeen
  <2>4. cache = Newest \/ Newest \in failed
    BY Zenon, <2>1 DEF CacheInv, Replacing, SchemaLocked
  <2>5. txn'[t].cache = SchemaIn(log, txn'[t].open) \/ SchemaIn(log, txn'[t].open) \in failed
    BY Zenon, <2>2, <2>3, <2>4
  <2>6. \A u \in Txn : txn'[u].phase \in Readers =>
           txn'[u].cache = SchemaIn(log, txn'[u].open) \/ SchemaIn(log, txn'[u].open) \in failed
    BY Zenon, <1>4, <2>5 DEF CacheInv, CachesMatchSnapshot, Readers, SchemaAt
  <2>7. straddled \/ \A u \in Txn : txn'[u].phase \in Readers => txn'[u].cache = cache
    BY Zenon, <1>4, <2>2 DEF CacheInv
  <2> QED BY Zenon, <1>2, <1>3, <2>1, <2>6, <2>7
          DEF CacheInv, Replacing, CachesMatchSnapshot, SchemaAt, Readers
<1>6. CASE CompilePlan(t) \/ InsertPlan(t) \/ CloseTxn(t)
  <2>1. /\ txn[t].phase \in Readers
        /\ txn'[t].phase \in Readers => txn'[t].open = txn[t].open /\ txn'[t].cache = txn[t].cache
        /\ plan' = plan \/ plan' = txn[t].cache
    BY <1>1, <1>6 DEF CompilePlan, InsertPlan, CloseTxn, Closed, TxnState, Readers, stores
  <2>2. \A u \in Txn : txn'[u].phase \in Readers =>
           /\ txn[u].phase \in Readers /\ txn'[u].open = txn[u].open /\ txn'[u].cache = txn[u].cache
    BY Zenon, <1>4, <2>1
  <2>3. \A u \in Txn : txn'[u].phase \in Readers =>
           txn'[u].cache = SchemaIn(log, txn'[u].open) \/ SchemaIn(log, txn'[u].open) \in failed
    BY Zenon, <2>2 DEF CacheInv, CachesMatchSnapshot, Readers, SchemaAt
  <2>4. \/ straddled
        \/ plan' \in {NoPlan, cache} /\ \A u \in Txn : txn'[u].phase \in Readers => txn'[u].cache = cache
    BY Zenon, <2>1, <2>2 DEF CacheInv
  <2> QED BY Zenon, <1>2, <1>3, <2>3, <2>4
          DEF CacheInv, Replacing, CachesMatchSnapshot, SchemaAt, Readers
<1> QED BY Zenon, <1>5, <1>6

\* Steps after which the caches, the plan or nothing and the readers are as before
LEMMA SameCache ==
  ASSUME TypeInv, OwnerInv, CacheInv, Later(log, log'),
         cache' = cache, failed \subseteq failed', straddled' = straddled, plan' \in {plan, NoPlan},
         \A u \in Txn : txn'[u].phase \in Readers => txn'[u] = txn[u],
         Replacing' \/ cache' = Newest' \/ Newest' \in failed'
  PROVE  CacheInv'
<1>1. ASSUME NEW u \in Txn, txn'[u].phase \in Readers
      PROVE  /\ txn'[u].cache = SchemaIn(log', txn'[u].open) \/ SchemaIn(log', txn'[u].open) \in failed'
             /\ straddled \/ txn'[u].cache = cache
  <2>1. txn'[u] = txn[u] /\ txn[u].phase \in Readers
    BY Zenon, <1>1
  <2>2. SchemaIn(log', txn[u].open) = SchemaIn(log, txn[u].open)
    BY Zenon, <2>1, SeenKept
  <2>3. txn[u].cache = SchemaIn(log, txn[u].open) \/ SchemaIn(log, txn[u].open) \in failed
    BY Zenon, <2>1 DEF CacheInv, CachesMatchSnapshot, Readers, SchemaAt
  <2>4. straddled \/ txn[u].cache = cache
    BY Zenon, <2>1 DEF CacheInv
  <2> QED BY Zenon, <2>1, <2>2, <2>3, <2>4
<1>2. straddled \/ plan' \in {NoPlan, cache}
  BY Zenon DEF CacheInv
<1> QED BY Zenon, <1>1, <1>2 DEF CacheInv, CachesMatchSnapshot, SchemaAt, Readers

\* Commits of data leave the newest schema.
LEMMA WriterCache ==
  ASSUME TypeInv, OwnerInv, CacheInv, NEW t \in Txn,
         CommitTxn(t) \/ DecideTxn(t) \/ FinishTxn(t) \/ FailTxn(t)
  PROVE  CacheInv'
<1>1. txn \in [Txn -> TxnState]
  BY Zenon DEF TypeInv
<1>2. /\ schema' = schema /\ cache' = cache /\ failed' = failed /\ straddled' = straddled /\ plan' = plan
  BY Zenon DEF CommitTxn, DecideTxn, FinishTxn, FailTxn, stores
<1>3. txn[t].phase # "closed" /\ txn[t].kind = "write"
  <2>1. CASE CommitTxn(t)
    BY Zenon, <2>1 DEF CommitTxn
  <2>2. CASE DecideTxn(t) \/ FinishTxn(t) \/ FailTxn(t)
    BY Zenon, <2>2 DEF DecideTxn, FinishTxn, FailTxn, OwnerInv
  <2> QED BY Zenon, <2>1, <2>2
<1>4. schema.phase = "closed"
  BY Zenon, <1>3 DEF OwnerInv
<1>5. KeepsSchemas
  BY Zenon DEF KeepsSchemas, LogKept
<1>6. Newest' = Newest /\ Later(log, log')
  BY Zenon, <1>5, NewestKept
<1>7. \A u \in Txn : txn'[u].phase \in Readers => txn'[u] = txn[u]
  <2>1. CASE CommitTxn(t)
    <3>1. txn' = [txn EXCEPT ![t] = [phase |-> "committing", kind |-> @.kind, open |-> Len(log) + 1,
                                    cache |-> @.cache]]
      BY <2>1, Zenon DEF CommitTxn
    <3>2. txn'[t].phase = "committing" /\ \A u \in Txn : u # t => txn'[u] = txn[u]
      BY Zenon, <1>1, <3>1
    <3> QED BY Zenon, <3>2 DEF Readers
  <2>2. CASE DecideTxn(t)
    BY <2>2, Zenon DEF DecideTxn
  <2>3. CASE FinishTxn(t) \/ FailTxn(t)
    <3>1. txn' = [txn EXCEPT ![t] = Closed(@.kind)]
      BY <2>3, Zenon DEF FinishTxn, FailTxn
    <3>2. txn'[t].phase = "closed" /\ \A u \in Txn : u # t => txn'[u] = txn[u]
      BY Zenon, <1>1, <3>1 DEF Closed
    <3> QED BY Zenon, <3>2 DEF Readers
  <2> QED BY Zenon, <2>1, <2>2, <2>3
<1>8. cache' = Newest' \/ Newest' \in failed'
  BY Zenon, <1>2, <1>4, <1>6 DEF CacheInv, Replacing
<1> QED BY Zenon, <1>2, <1>6, <1>7, <1>8, SameCache

\* The schema transaction's commit is the newest schema once it is accepted.
LEMMA AcceptedNewest ==
  ASSUME TypeInv, OwnerInv, Replacing
  PROVE  Newest = schema.open
<1>1. WellFormed(log) /\ Len(log) \in Nat /\ DOMAIN log = 1..Len(log)
  BY DEF TypeInv, WellFormed
<1>2. /\ schema.open = Len(log) /\ schema.open \in DOMAIN log /\ log[schema.open].type = "schema"
      /\ log[schema.open].status \in {"applied", "validated"}
  BY Zenon DEF OwnerInv, Replacing
<1>3. Len(log) \in Committed(log, Len(log)) /\ log[Len(log)].type = "schema"
  BY Zenon, <1>1, <1>2 DEF Committed
<1> DEFINE n == SchemaIn(log, Len(log))
<1>4. n \in 0..Len(log) /\ Len(log) <= n
  BY <1>1, <1>3, SchemaInFacts
<1> HIDE DEF n
<1>5. n = Len(log)
  <2>1. \A x, y \in Nat : x \in 0..y /\ y <= x => x = y
    OBVIOUS
  <2>2. n \in Nat
    BY <1>1, <1>4
  <2> QED BY <1>1, <1>4, <2>1, <2>2, Zenon
<1> QED BY Zenon, <1>2, <1>5 DEF Newest, n

\* The caches stay until the schema commit is complete; a commit that fails is remembered.
LEMMA SchemaCache ==
  ASSUME TypeInv, OwnerInv, CacheInv,
         \/ OpenSchema \/ AbandonSchema \/ LockSchema \/ SubmitSchema \/ DecideSchema \/ FinishSchema
         \/ FailSchema \/ Updater \/ UNCHANGED vars
  PROVE  CacheInv'
<1>1. schema \in SchemaState /\ txn \in [Txn -> TxnState] /\ Later(log, log)
  BY DEF TypeInv, WellFormed, Later
<1>2. CASE OpenSchema \/ AbandonSchema \/ LockSchema \/ Updater \/ UNCHANGED vars
  <2>1. /\ log' = log /\ txn' = txn /\ cache' = cache /\ failed' = failed /\ straddled' = straddled
        /\ plan' \in {plan, NoPlan}
    <3>1. CASE OpenSchema \/ AbandonSchema \/ UNCHANGED vars
      BY Zenon, <3>1 DEF OpenSchema, AbandonSchema, stores, vars
    <3>2. CASE LockSchema
      <4>1. UNCHANGED <<log, txn, cache, failed, straddled, plan>>
        BY <3>2, Zenon DEF LockSchema
      <4> QED BY Zenon, <4>1
    <3>3. CASE UpdaterSync
      BY <3>3, Zenon DEF UpdaterSync
    <3>4. CASE UpdaterCheck \/ UpdaterClone \/ UpdaterStore
      BY Zenon, <3>4 DEF UpdaterCheck, UpdaterClone, UpdaterStore, stores
    <3> QED BY <1>2, <3>1, <3>2, <3>3, <3>4, Zenon DEF Updater
  <2>2. schema.phase \in {"submitted", "committed"} => schema' = schema
    <3>1. CASE OpenSchema \/ AbandonSchema
      BY Zenon, <3>1 DEF OpenSchema, AbandonSchema
    <3>2. CASE LockSchema
      BY Zenon, <3>2 DEF LockSchema
    <3>3. CASE Updater
      BY <3>3, Zenon DEF Updater, UpdaterCheck, UpdaterClone, UpdaterSync, UpdaterStore
    <3>4. CASE UNCHANGED vars
      BY Zenon, <3>4 DEF vars
    <3> QED BY Zenon, <1>2, <3>1, <3>2, <3>3, <3>4
  <2>3. Newest' = Newest
    BY Zenon, <2>1 DEF Newest
  <2>4. Replacing' \/ cache' = Newest' \/ Newest' \in failed'
    BY Zenon, <2>1, <2>2, <2>3 DEF CacheInv, Replacing
  <2> QED BY Zenon, <1>1, <2>1, <2>4, SameCache
<1>3. CASE SubmitSchema
  <2>1. /\ txn' = txn /\ cache' = cache /\ failed' = failed /\ straddled' = straddled /\ plan' = plan
        /\ schema.phase = "locked"
    BY <1>3, Zenon DEF SubmitSchema, stores
  <2>2. Newest' = Newest /\ Later(log, log')
    BY <1>3, NewestKept, Zenon DEF KeepsSchemas
  <2>3. cache' = Newest' \/ Newest' \in failed'
    BY Zenon, <2>1, <2>2 DEF CacheInv, Replacing
  <2> QED BY Zenon, <2>1, <2>2, <2>3, SameCache
<1>4. CASE DecideSchema \/ FinishSchema
  <2>1. /\ txn' = txn /\ cache' = cache /\ failed' = failed /\ straddled' = straddled /\ plan' = plan
    BY <1>4, Zenon DEF DecideSchema, FinishSchema, stores
  <2>2. schema'.phase \in {"submitted", "committed"} /\ schema'.open = schema.open
    BY <1>1, <1>4 DEF DecideSchema, FinishSchema, SchemaState
  <2>3. Later(log, log') /\ log'[schema.open].status \in {"applied", "validated"}
    BY <1>4, DecideSchemaMarks, FinishSchemaMarks, Zenon DEF Marks
  <2>4. Replacing'
    BY Zenon, <2>2, <2>3 DEF Replacing
  <2> QED BY Zenon, <2>1, <2>3, <2>4, SameCache
<1>5. CASE FailSchema
  <2>1. /\ log' = log /\ txn' = txn /\ cache' = cache /\ straddled' = straddled /\ plan' = plan
        /\ failed' = failed \cup {schema.open}
    BY Zenon, <1>5 DEF FailSchema
  <2>2. Newest' = Newest
    BY Zenon, <2>1 DEF Newest
  <2>3. cache = Newest \/ Newest \in failed'
    <3>1. CASE Replacing
      BY Zenon, <2>1, <3>1, AcceptedNewest
    <3>2. CASE ~Replacing
      BY Zenon, <2>1, <3>2 DEF CacheInv
    <3> QED BY Zenon, <3>1, <3>2
  <2> QED BY Zenon, <1>1, <2>1, <2>2, <2>3, SameCache
<1> QED BY ZenonT(30), <1>2, <1>3, <1>4, <1>5

\* The end of try_commit: the plans go with the caches they were made for.
LEMMA ReplaceCache ==
  ASSUME TypeInv, OwnerInv, CacheInv, ReplaceUnchanged \/ ReplaceCaches
  PROVE  CacheInv'
<1>1. PICK c : /\ Replace(c)
               /\ \/ c = cache /\ schema.phase = "locked"
                  \/ c = schema.open /\ schema.phase = "committed"
  BY Zenon DEF ReplaceUnchanged, ReplaceCaches
<1>2. log' = log /\ failed' = failed /\ txn' = txn
  BY Zenon DEF ReplaceUnchanged, ReplaceCaches
<1>3. /\ cache' = c /\ plan' = NoPlan
      /\ straddled' = (straddled \/ (c # cache /\ \E t \in Txn : txn[t].phase # "closed"))
  BY <1>1, Zenon DEF Replace
<1>4. Newest' = Newest
  BY Zenon, <1>2 DEF Newest
<1>5. cache' = Newest' \/ Newest' \in failed'
  <2>1. CASE c = cache /\ schema.phase = "locked"
    BY Zenon, <1>2, <1>3, <1>4, <2>1 DEF CacheInv, Replacing
  <2>2. CASE c = schema.open /\ schema.phase = "committed"
    <3>1. Replacing
      BY Zenon, <2>2 DEF Replacing, OwnerInv
    <3> QED BY Zenon, <1>3, <1>4, <2>2, <3>1, AcceptedNewest
  <2> QED BY Zenon, <1>1, <2>1, <2>2
<1>6. CachesMatchSnapshot'
  BY Zenon, <1>2 DEF CacheInv, CachesMatchSnapshot, SchemaAt
<1>7. ASSUME ~straddled', NEW t \in Txn, txn'[t].phase \in Readers PROVE txn'[t].cache = cache'
  <2>1. txn[t].phase # "closed"
    BY Zenon, <1>2, <1>7 DEF Readers
  <2>2. ~straddled /\ c = cache
    BY Zenon, <1>3, <1>7, <2>1
  <2> QED BY Zenon, <1>2, <1>3, <1>7, <2>2 DEF CacheInv
<1> QED BY Zenon, <1>3, <1>5, <1>6, <1>7 DEF CacheInv

\* Every step keeps the caches and the plan in step with the log.
LEMMA CacheStep ==
  ASSUME TypeInv, OwnerInv, FlushInv, CacheInv, [Next]_vars
  PROVE  CacheInv'
<1>1. ASSUME NEW t \in Txn, Transaction(t) PROVE CacheInv'
  BY <1>1, ReaderCache, WriterCache, Zenon DEF Transaction
<1>2. CASE \/ OpenSchema \/ AbandonSchema \/ LockSchema \/ SubmitSchema \/ DecideSchema \/ FinishSchema
           \/ FailSchema \/ Updater \/ UNCHANGED vars
  BY Zenon, <1>2, SchemaCache
<1>3. CASE ReplaceUnchanged \/ ReplaceCaches
  BY Zenon, <1>3, ReplaceCache
<1>4. CASE Crash
  <2>1. /\ \A t \in Txn : txn'[t].phase = "closed"
        /\ cache' = Newest' /\ plan' = NoPlan
    BY Zenon, <1>4, CrashStores
  <2> QED BY Zenon, <2>1 DEF CacheInv, CachesMatchSnapshot, Readers
<1> QED BY <1>1, <1>2, <1>3, <1>4, Zenon DEF Next, SchemaTransaction

-----------------------------------------------------------------------------
(* The theorems.                                                               *)

\* Everything the four properties rest on holds in every state.
LEMMA InvHolds == Spec => []Inv
<1>1. ASSUME Init PROVE Inv
  <2>1. /\ log = <<>> /\ record = NewStatistics(0) /\ flushed = 0 /\ statistics = NewStatistics(0)
        /\ cache = 0 /\ plan = NoPlan /\ straddled = FALSE /\ lost = {}
        /\ txn \in [Txn -> {Closed("read"), Closed("write")}] /\ schema = NoSchema /\ updater = Waiting
    BY <1>1, Zenon DEF Init
  <2>2. WellFormed(<<>>)
    <3>1. <<>> \in Seq(Commit) /\ DOMAIN <<>> = {}
      OBVIOUS
    <3> QED BY Zenon, <3>1 DEF WellFormed
  <2>3. Kept(NewStatistics(0), <<>>)
    BY Zenon, <2>2, NewKept
  <2>4. NewStatistics(0) \in Statistic
    BY DEF NewStatistics, Statistic
  <2>5. /\ \A t \in Txn : txn[t].phase = "closed" 
        /\ txn \in [Txn -> TxnState]
    BY <2>1 DEF Closed, TxnState
  <2>6. /\ schema.phase = "closed" /\ schema.statistics = NewStatistics(0) /\ schema \in SchemaState
        /\ updater.statistics = NewStatistics(0) /\ updater \in UpdaterState
    BY Zenon, <2>1, <2>4 DEF NoSchema, Waiting, SchemaState, UpdaterState
  <2>7. TypeInv
    BY ZenonT(30), <2>1, <2>2, <2>4, <2>5, <2>6 DEF TypeInv
  <2>8. OwnerInv
    BY <2>1, <2>5, <2>6 DEF OwnerInv, Readers
  <2>9. StatisticsInv
    BY Zenon, <2>1, <2>3, <2>6 DEF StatisticsInv, Kept
  <2>10. FlushInv
    BY <2>1, <2>6 DEF FlushInv, FlushedUnlessLost
  <2>11. CacheInv
    <3>1. Len(<<>>) = 0 /\ 0 \in 0..Len(<<>>)
      OBVIOUS
    <3>2. SchemaIn(<<>>, 0) \in 0..0
      BY Zenon, <2>2, <3>1, SchemaInFacts
    <3>3. Newest = 0
      BY <2>1, <3>1, <3>2 DEF Newest
    <3> QED BY Zenon, <2>1, <2>5, <3>3 DEF CacheInv, CachesMatchSnapshot, Readers
  <2> QED BY Zenon, <2>7, <2>8, <2>9, <2>10, <2>11 DEF Inv
<1>2. ASSUME Inv, [Next]_vars PROVE Inv'
  <2>1. TypeInv /\ OwnerInv /\ StatisticsInv /\ FlushInv /\ CacheInv
    BY Zenon, <1>2 DEF Inv
  <2>2. TypeInv' /\ OwnerInv'
    BY <1>2, <2>1, TypeStep, OwnerStep, Zenon
  <2>3. StatisticsInv' /\ FlushInv'
    BY <1>2, <2>1, StatisticsStep, FlushStep, Zenon
  <2>4. CacheInv'
    BY <1>2, <2>1, CacheStep, Zenon
  <2> QED BY Zenon, <2>2, <2>3, <2>4 DEF Inv
<1> QED BY <1>1, <1>2, PTL DEF Spec

\* Whatever the order of commits, status records, schema commits, updates by the
\* statistics thread and restarts, may_synchronise leaves counts that are exactly what a
\* snapshot at their number reads, unless two concurrent transactions deleted the key.
THEOREM CountsAreWhatIsRead == Spec => []AccurateUnlessRaced
<1>1. ASSUME Inv PROVE AccurateUnlessRaced
  <2>1. StatisticsInv
    BY Zenon, <1>1 DEF Inv
  <2>2. WithinWatermark
    BY Zenon, <2>1 DEF StatisticsInv, WithinWatermark
  <2>3. ASSUME NEW k \in Key PROVE AccurateFor(k) \/ RacedDelete(k)
    <3>1. Exact(statistics, log, k) \/ RacedIn(log, k)
      BY Zenon, <2>1 DEF StatisticsInv, Counted
    <3> QED BY <3>1, Zenon DEF Exact, RacedIn, AccurateFor, RacedDelete, Bit
  <2> QED BY Zenon, <2>2, <2>3 DEF AccurateUnlessRaced
<1> QED BY <1>1, InvHolds, PTL

\* A transaction has the type and function caches of the schema that its snapshot reads,
\* or the commit of that schema failed to build them.
THEOREM CachesAreTheSnapshots == Spec => []CachesMatchSnapshot
<1>1. ASSUME Inv PROVE CachesMatchSnapshot
  BY Zenon, <1>1 DEF Inv, CacheInv
<1> QED BY <1>1, InvHolds, PTL

\* force_reset leaves no plan of an older schema, unless a read transaction was open
\* while a schema commit replaced the caches.
THEOREM PlansAreCurrent == Spec => []PlansCurrentUnlessStraddled
<1>1. ASSUME Inv PROVE PlansCurrentUnlessStraddled
  BY Zenon, <1>1 DEF Inv, CacheInv, PlansCurrentUnlessStraddled
<1> QED BY <1>1, InvHolds, PTL

\* Before a schema commit is in the log, a statistics record is that has counted every
\* commit before it, up to the first that returned an error without its status record.
THEOREM StatisticsBeforeSchema == Spec => []FlushedUnlessLost
<1>1. ASSUME Inv PROVE FlushedUnlessLost
  BY Zenon, <1>1 DEF Inv, FlushInv
<1> QED BY <1>1, InvHolds, PTL
=============================================================================
