------------------------- MODULE ThingManagerProofs -------------------------
(***************************************************************************)
(* Theorems about the committed graph, for every schema, every set of      *)
(* instances and any number of concurrent transactions: no edge dangles,   *)
(* a unique value has one owner, an attribute without owners and an        *)
(* incomplete index come only of a race, and every object is within its    *)
(* cardinalities but for relations that a clean-up took a player from.     *)
(*                                                                         *)
(* A transaction's edits are anchored in its own snapshot (Anchored); the  *)
(* commits it has not seen cannot have taken away what it locks, nor have  *)
(* attached anything to what it deletes, without conflicting with it.      *)
(***************************************************************************)
EXTENDS ThingManager, FiniteSetTheorems, TLAPS

Key == Vertex \cup Edge \cup Index

\* The kinds of keys are apart, and an edge's ends are vertices of the kinds it names.
LEMMA KeyFacts ==
    /\ \A k \in Has : k.from \in Object /\ k.to \in Attribute
    /\ \A k \in Links : k.from \in Relation /\ k.from \in Object /\ k.to \in Object
    /\ \A k \in Edge : k.from \in Vertex /\ k.to \in Vertex
    /\ Has \cap Links = {}
    /\ Edge \cap Index = {}
    /\ Vertex \cap Edge = {}
    /\ Vertex \cap Index = {}
    /\ Object \cap Attribute = {}
    /\ Has \subseteq Edge /\ Links \subseteq Edge
    /\ Relation \subseteq Object /\ Object \subseteq Vertex /\ Attribute \subseteq Vertex
<1>1. /\ \A k \in Has : k.from \in Object /\ k.to \in Attribute /\ k.kind = "has"
      /\ \A k \in Links : k.from \in Relation /\ k.to \in Object /\ k.kind = "links"
      /\ \A k \in Index : k.kind = "index"
    BY Zenon DEF Has, Links, Index
<1>2. Has \cap Links = {} /\ (Has \cup Links) \cap Index = {}
    BY Zenon, <1>1
<1> QED
    BY Zenon, <1>1, <1>2, KeyAssumption DEF Edge, Object, Vertex

\* The entries of the index are keys of their own kind: they are no edges.
LEMMA IndexKeys ==
    ASSUME NEW l \in Links, NEW g
    PROVE  IndexWith(l, g) \subseteq Index
BY DEF IndexWith, IndexOf, Index, PlayersOf

-----------------------------------------------------------------------------
(* What the operations on a buffer keep.                                     *)

\* A buffer that holds nothing is anchored in any graph.
LEMMA EmptyAnchored ==
    ASSUME NEW g
    PROVE  EmptyBuffer \in Buffer /\ Anchored(EmptyBuffer, g)
BY Zenon DEF EmptyBuffer, Buffer, Anchored

\* Object::set_required: objects that are seen are locked, and nothing else changes.
LEMMA RequireObjectsKeeps ==
    ASSUME NEW b \in Buffer, NEW g, Anchored(b, g), NEW O \in SUBSET Object
    PROVE  LET c == RequireObjects(b, g, O)
           IN /\ c \in Buffer
              /\ Anchored(c, g)
              /\ View(c, g) = View(b, g)
              /\ c.inserts = b.inserts
              /\ \A o \in O : o \in View(b, g) => o \in c.inserts \cup c.unmodifiable
<1> DEFINE c == RequireObjects(b, g, O)
<1>1. /\ c \in Buffer
      /\ c.inserts = b.inserts /\ c.puts = b.puts /\ c.deletes = b.deletes
      /\ c.unmodifiable = b.unmodifiable \cup {o \in O : Persisted(b, g, o)}
    BY Zenon, KeyFacts DEF RequireObjects, Buffer
<1> HIDE DEF c
<1>2. View(c, g) = View(b, g)
    BY Zenon, <1>1 DEF View
<1>3. Anchored(c, g)
    BY <1>1, <1>2 DEF Anchored
<1>4. \A o \in O : o \in View(b, g) => o \in c.inserts \cup c.unmodifiable
    BY Zenon, <1>1, KeyFacts DEF View, Persisted, Buffer
<1> QED
    BY Zenon, <1>1, <1>2, <1>3, <1>4 DEF c

\* Attribute::set_required: the attribute is put again, or locked where the graph has it.
LEMMA RequireAttributeKeeps ==
    ASSUME NEW b \in Buffer, NEW g, Anchored(b, g), NEW a \in Attribute
    PROVE  LET c == RequireAttribute(b, g, a)
           IN /\ c \in Buffer
              /\ Anchored(c, g)
              /\ View(c, g) = View(b, g)
              /\ c.inserts = b.inserts
              /\ c.unmodifiable = b.unmodifiable \cup {a}
<1> DEFINE c == RequireAttribute(b, g, a)
<1>1. /\ c \in Buffer
      /\ c.inserts = b.inserts /\ c.puts = b.puts /\ c.deletes = b.deletes
      /\ c.unmodifiable = b.unmodifiable \cup {a}
    BY KeyFacts DEF RequireAttribute, Buffer
<1> HIDE DEF c
<1>2. View(c, g) = View(b, g)
    BY Zenon, <1>1 DEF View
<1>3. Anchored(c, g)
    BY <1>1, <1>2 DEF Anchored
<1> QED
    BY Zenon, <1>1, <1>2, <1>3 DEF c

\* Putting an edge whose ends are seen and held, with index entries.
LEMMA PutEdgeKeeps ==
    ASSUME NEW b \in Buffer, NEW g, Anchored(b, g),
           NEW k \in Edge, NEW I \in SUBSET Index,
           \A v \in {k.from, k.to} : v \in View(b, g) /\ v \in b.inserts \cup b.unmodifiable
    PROVE  Put(b, {k} \cup I) \in Buffer /\ Anchored(Put(b, {k} \cup I), g)
<1> DEFINE c == Put(b, {k} \cup I)
<1>1. /\ c \in Buffer
      /\ c.inserts = b.inserts /\ c.unmodifiable = b.unmodifiable
      /\ c.puts = b.puts \cup ({k} \cup I) /\ c.deletes = b.deletes \ ({k} \cup I)
    BY Zenon DEF Put, Buffer
<1> HIDE DEF c
<1>2. ({k} \cup I) \cap Vertex = {}
    BY Zenon, KeyFacts
<1>3. View(b, g) \subseteq View(c, g)
    BY Zenon, <1>1 DEF View
<1>4. ASSUME NEW e \in c.puts \cap Edge, NEW v \in {e.from, e.to}
      PROVE  v \in View(c, g) /\ v \in c.inserts \cup c.unmodifiable
  <2>1. e \in b.puts \cap Edge \/ e = k
    BY Zenon, <1>1, KeyFacts
  <2> QED
    BY <2>1, <1>1, <1>3 DEF Anchored
<1>5. ASSUME NEW e \in g \cap Edge, NEW v \in {e.from, e.to}, v \in c.deletes
      PROVE  e \in c.deletes
  <2>1. e \in b.deletes /\ v \in b.deletes
    BY <1>1, <1>5 DEF Anchored
  <2>2. e # k
    BY <2>1, <1>1, <1>5, KeyFacts DEF View, Anchored, Buffer
  <2> QED
    BY Zenon, <2>1, <2>2, <1>1, KeyFacts
<1>6. c.inserts \cap g = {} /\ c.deletes \subseteq g /\ c.puts \cap c.deletes = {}
    BY Zenon, <1>1 DEF Anchored
<1>7. Anchored(c, g)
    BY Zenon, <1>4, <1>5, <1>6 DEF Anchored
<1> QED
    BY Zenon, <1>1, <1>7 DEF c

\* Dropping the keys P from the puts and deleting some of them leaves the vertices alone.
LEMMA DropKeeps ==
    ASSUME NEW b \in Buffer, NEW c \in Buffer, NEW g, Anchored(b, g),
           NEW P \in SUBSET (Edge \cup Index), NEW D \in SUBSET (P \cap g),
           c.inserts = b.inserts, c.unmodifiable = b.unmodifiable,
           c.puts = b.puts \ P, c.deletes = b.deletes \cup D
    PROVE  Anchored(c, g)
<1>1. /\ c.inserts = b.inserts /\ c.unmodifiable = b.unmodifiable
      /\ c.puts = b.puts \ P /\ c.deletes = b.deletes \cup D
    BY Zenon
<1>2. P \cap Vertex = {} /\ D \cap Vertex = {}
    BY Zenon, KeyFacts
<1>3. ASSUME NEW e \in c.puts \cap Edge, NEW v \in {e.from, e.to}
      PROVE  v \in View(c, g) /\ v \in c.inserts \cup c.unmodifiable
  <2>1. e \in b.puts \cap Edge /\ v \in Vertex
    BY <1>1, KeyFacts
  <2> QED
    BY <2>1, <1>1, <1>2 DEF Anchored, View
<1>4. ASSUME NEW e \in g \cap Edge, NEW v \in {e.from, e.to}, v \in c.deletes
      PROVE  e \in c.deletes
  <2>1. v \in Vertex
    BY KeyFacts
  <2> QED
    BY <2>1, <1>1, <1>2, <1>4 DEF Anchored
<1>5. c.inserts \cap g = {} /\ c.deletes \subseteq g /\ c.puts \cap c.deletes = {}
    BY Zenon, <1>1 DEF Anchored
<1> QED
    BY Zenon, <1>1, <1>3, <1>4, <1>5 DEF Anchored

\* The graphs whose edges have their ends.
Closed(g) == \A k \in g \cap Edge : {k.from, k.to} \subseteq g

\* unset_has deletes ownerships, and no end of an edge that stays.
LEMMA UnsetHasKeeps ==
    ASSUME NEW b \in Buffer, NEW g, Anchored(b, g), Closed(g), NEW H \in SUBSET Has
    PROVE  LET c == UnsetHas(b, g, H)
           IN /\ c \in Buffer
              /\ Anchored(c, g)
              /\ c.inserts = b.inserts /\ c.unmodifiable = b.unmodifiable
              /\ c.puts = b.puts \ H
              /\ c.deletes = b.deletes \cup (H \cap g)
<1>1. {h \in H \cap g : h.from \notin b.inserts} = H \cap g
    BY Zenon, KeyFacts DEF Closed, Anchored
<1> DEFINE c == UnsetHas(b, g, H)
<1>2. /\ c \in Buffer
      /\ c.inserts = b.inserts /\ c.unmodifiable = b.unmodifiable
      /\ c.puts = b.puts \ H /\ c.deletes = b.deletes \cup (H \cap g)
    BY Zenon, <1>1, KeyFacts DEF UnsetHas, Buffer, Edge
<1> HIDE DEF c
<1>3. H \in SUBSET (Edge \cup Index) /\ H \cap g \in SUBSET (H \cap g)
    BY Zenon, KeyFacts
<1>4. Anchored(c, g)
    BY Zenon, <1>2, <1>3, DropKeeps
<1> QED
    BY Zenon, <1>2, <1>4 DEF c

\* unset_links deletes players and their index entries, and no end of an edge that stays.
LEMMA UnsetLinksKeeps ==
    ASSUME NEW b \in Buffer, NEW g, Anchored(b, g), Closed(g), NEW L \in SUBSET Links
    PROVE  LET c == UnsetLinks(b, g, L)
           IN /\ c \in Buffer
              /\ Anchored(c, g)
              /\ c.inserts = b.inserts /\ c.unmodifiable = b.unmodifiable
              /\ c.puts \cap Edge = (b.puts \cap Edge) \ L
              /\ c.deletes \cap Edge = (b.deletes \cap Edge) \cup (L \cap g)
              /\ c.puts \subseteq b.puts
              /\ b.deletes \subseteq c.deletes
              /\ c.deletes \cap Vertex = b.deletes \cap Vertex
              /\ c.puts \cap Vertex = b.puts \cap Vertex
<1> DEFINE I == UNION {IndexWith(l, View(b, g)) : l \in L}
           D == (L \cap g) \cup (I \cap g)
           c == UnsetLinks(b, g, L)
<1>1. {l \in L \cap g : l.from \notin b.inserts} = L \cap g
    BY Zenon, KeyFacts DEF Closed, Anchored
<1>2. c = [b EXCEPT !.puts = @ \ (L \cup I), !.deletes = (@ \cup (L \cap g)) \cup (I \cap g)]
    BY Zenon, <1>1 DEF UnsetLinks, Buffer
<1>3. I \subseteq Index
    BY Zenon, IndexKeys
<1> HIDE DEF I, c
<1>4. /\ L \cup I \in SUBSET (Edge \cup Index)
      /\ D \in SUBSET ((L \cup I) \cap g)
    BY Zenon, <1>3, KeyFacts
<1>5. /\ c \in Buffer
      /\ c.inserts = b.inserts /\ c.unmodifiable = b.unmodifiable
      /\ c.puts = b.puts \ (L \cup I) /\ c.deletes = b.deletes \cup D
    BY Zenon, <1>2, <1>3, KeyFacts DEF Buffer
<1> HIDE DEF D
<1>7. Anchored(c, g)
    BY Zenon, <1>4, <1>5, DropKeeps
<1>6. /\ c.puts \cap Edge = (b.puts \cap Edge) \ L
      /\ c.deletes \cap Edge = (b.deletes \cap Edge) \cup (L \cap g)
      /\ c.deletes \cap Vertex = b.deletes \cap Vertex
      /\ c.puts \cap Vertex = b.puts \cap Vertex
    BY Zenon, <1>5, <1>3, KeyFacts DEF D
<1> QED
    BY Zenon, <1>5, <1>6, <1>7 DEF c

\* The delete of objects takes their edges along, so that no edge keeps a removed end.
LEMMA RemoveObjectsKeeps ==
    ASSUME NEW b \in Buffer, NEW g, Anchored(b, g), Closed(g), NEW O \in SUBSET Object
    PROVE  LET c == RemoveObjects(b, g, O)
           IN c \in Buffer /\ Anchored(c, g) /\ c.inserts \subseteq b.inserts
<1> DEFINE H == {h \in View(b, g) \cap Has : h.from \in O}
           L == {l \in View(b, g) \cap Links : l.from \in O \/ l.to \in O}
           d == UnsetHas(b, g, H)
           u == UnsetLinks(d, g, L)
           c == [u EXCEPT !.unmodifiable = @ \ O, !.inserts = @ \ O,
                          !.deletes = @ \cup (O \cap g)]
<1>1. RemoveObjects(b, g, O) = c
    BY Zenon DEF RemoveObjects
<1>2. H \in SUBSET Has /\ L \in SUBSET Links
    BY Zenon
<1> HIDE DEF H, L
<1>3. /\ d \in Buffer /\ Anchored(d, g)
      /\ d.inserts = b.inserts /\ d.unmodifiable = b.unmodifiable
      /\ d.puts = b.puts \ H /\ d.deletes = b.deletes \cup (H \cap g)
    BY <1>2, UnsetHasKeeps
<1> HIDE DEF d
<1>4. /\ u \in Buffer /\ Anchored(u, g)
      /\ u.inserts = b.inserts /\ u.unmodifiable = b.unmodifiable
      /\ u.puts \cap Edge = (d.puts \cap Edge) \ L
      /\ u.deletes \cap Edge = (d.deletes \cap Edge) \cup (L \cap g)
      /\ u.deletes \cap Vertex = d.deletes \cap Vertex
    BY <1>2, <1>3, UnsetLinksKeeps
<1> HIDE DEF u
<1>5. /\ c \in Buffer
      /\ c.inserts = u.inserts \ O /\ c.unmodifiable = u.unmodifiable \ O
      /\ c.puts = u.puts /\ c.deletes = u.deletes \cup (O \cap g)
    BY Zenon, <1>4, KeyFacts DEF Buffer
<1> HIDE DEF c
<1>6. ASSUME NEW e \in Edge, e \in View(b, g), NEW v \in {e.from, e.to}, v \in O
      PROVE  e \in H \cup L
    BY Zenon, <1>6, KeyFacts DEF H, L, Edge
<1>7. ASSUME NEW e \in c.puts \cap Edge, NEW v \in {e.from, e.to}
      PROVE  v \in View(c, g) /\ v \in c.inserts \cup c.unmodifiable
  <2>1. e \in u.puts /\ e \in b.puts /\ e \notin H \cup L /\ e \in Edge
    BY Zenon, <1>3, <1>4, <1>5
  <2>2. v \notin O
    BY Zenon, <2>1, <1>6 DEF View
  <2>3. v \in View(u, g) /\ v \in u.inserts \cup u.unmodifiable
    BY <2>1, <1>4 DEF Anchored
  <2> QED
    BY Zenon, <2>2, <2>3, <1>5 DEF View
<1>8. ASSUME NEW e \in g \cap Edge, NEW v \in {e.from, e.to}, v \in c.deletes
      PROVE  e \in c.deletes
  <2>1. CASE v \in u.deletes
    BY <2>1, <1>4, <1>5 DEF Anchored
  <2>2. CASE v \in O
    <3>1. e \in View(b, g) \/ e \in b.deletes
      BY Zenon DEF View
    <3> QED
      BY <3>1, <2>2, <1>6, <1>3, <1>4, <1>5
  <2> QED
    BY Zenon, <2>1, <2>2, <1>5, <1>8
<1>9. c.inserts \cap g = {} /\ c.deletes \subseteq g /\ c.puts \cap c.deletes = {}
    BY <1>4, <1>5, KeyFacts DEF Anchored, Buffer
<1>10. Anchored(c, g)
    BY Zenon, <1>7, <1>8, <1>9 DEF Anchored
<1> QED
    BY Zenon, <1>1, <1>4, <1>5, <1>10

\* The delete of attributes takes their ownerships along.
LEMMA RemoveAttributesKeeps ==
    ASSUME NEW b \in Buffer, NEW g, Anchored(b, g), Closed(g), NEW A \in SUBSET Attribute
    PROVE  LET c == RemoveAttributes(b, g, A)
           IN c \in Buffer /\ Anchored(c, g) /\ c.inserts = b.inserts
<1> DEFINE H == {h \in View(b, g) \cap Has : h.to \in A}
           d == UnsetHas(b, g, H)
           c == [d EXCEPT !.puts = @ \ A, !.deletes = @ \cup (A \cap g)]
<1>1. RemoveAttributes(b, g, A) = c
    BY Zenon DEF RemoveAttributes
<1>2. H \in SUBSET Has
    BY Zenon
<1> HIDE DEF H
<1>3. /\ d \in Buffer /\ Anchored(d, g)
      /\ d.inserts = b.inserts /\ d.unmodifiable = b.unmodifiable
      /\ d.puts = b.puts \ H /\ d.deletes = b.deletes \cup (H \cap g)
    BY <1>2, UnsetHasKeeps
<1> HIDE DEF d
<1>4. /\ c \in Buffer
      /\ c.inserts = d.inserts /\ c.unmodifiable = d.unmodifiable
      /\ c.puts = d.puts \ A /\ c.deletes = d.deletes \cup (A \cap g)
    BY Zenon, <1>3, KeyFacts DEF Buffer
<1> HIDE DEF c
<1>5. ASSUME NEW e \in Edge, e \in View(b, g), NEW v \in {e.from, e.to}, v \in A
      PROVE  e \in H
    BY Zenon, <1>5, KeyFacts DEF H, Edge
<1>6. ASSUME NEW e \in c.puts \cap Edge, NEW v \in {e.from, e.to}
      PROVE  v \in View(c, g) /\ v \in c.inserts \cup c.unmodifiable
  <2>1. e \in d.puts /\ e \in b.puts /\ e \notin H /\ e \in Edge
    BY Zenon, <1>3, <1>4
  <2>2. v \notin A
    BY Zenon, <2>1, <1>5 DEF View
  <2>3. v \in View(d, g) /\ v \in d.inserts \cup d.unmodifiable
    BY <2>1, <1>3 DEF Anchored
  <2> QED
    BY Zenon, <2>2, <2>3, <1>4 DEF View
<1>7. ASSUME NEW e \in g \cap Edge, NEW v \in {e.from, e.to}, v \in c.deletes
      PROVE  e \in c.deletes
  <2>1. CASE v \in d.deletes
    BY <2>1, <1>3, <1>4 DEF Anchored
  <2>2. CASE v \in A
    <3>1. e \in View(b, g) \/ e \in b.deletes
      BY Zenon DEF View
    <3> QED
      BY Zenon, <3>1, <2>2, <1>5, <1>3, <1>4
  <2> QED
    BY Zenon, <2>1, <2>2, <1>4, <1>7
<1>8. c.inserts \cap g = {} /\ c.deletes \subseteq g /\ c.puts \cap c.deletes = {}
    BY Zenon, <1>3, <1>4 DEF Anchored
<1>9. Anchored(c, g)
    BY Zenon, <1>6, <1>7, <1>8 DEF Anchored
<1> QED
    BY Zenon, <1>1, <1>3, <1>4, <1>9

\* cleanup_attributes deletes attributes that no one owns: the edits stay anchored.
LEMMA CleanupAttributesKeeps ==
    ASSUME NEW b \in Buffer, NEW g, Anchored(b, g), Closed(g)
    PROVE  LET c == CleanupAttributes(b, g)
           IN c \in Buffer /\ Anchored(c, g) /\ c.inserts = b.inserts
<1> DEFINE lost == {h.to : h \in b.deletes \cap Has} \cap View(b, g)
           d == RemoveAttributes(b, g, Unowned(lost, View(b, g)))
           U == Unowned(d.puts \cap Attribute, View(d, g))
           c == [d EXCEPT !.puts = @ \ U]
<1>1. Unowned(lost, View(b, g)) \in SUBSET Attribute
    BY Zenon, KeyFacts DEF Unowned
<1> HIDE DEF lost
<1>2. d \in Buffer /\ Anchored(d, g) /\ d.inserts = b.inserts
    BY Zenon, <1>1, RemoveAttributesKeeps
<1>3. CleanupAttributes(b, g) = c
    BY Zenon, <1>2 DEF CleanupAttributes, lost, Buffer
<1> HIDE DEF d
<1>4. /\ c \in Buffer
      /\ c.inserts = d.inserts /\ c.unmodifiable = d.unmodifiable
      /\ c.puts = d.puts \ U /\ c.deletes = d.deletes
    BY Zenon, <1>2 DEF Buffer
<1>5. ASSUME NEW e \in d.puts \cap Edge, NEW v \in {e.from, e.to}
      PROVE  v \notin U
  <2>1. CASE e \in Has
    BY Zenon, <2>1, KeyFacts DEF Unowned, OwnersOf, View
  <2>2. CASE e \in Links
    BY Zenon, <2>2, KeyFacts DEF Unowned
  <2> QED
    BY Zenon, <2>1, <2>2 DEF Edge
<1> HIDE DEF U, c
<1>6. ASSUME NEW e \in c.puts \cap Edge, NEW v \in {e.from, e.to}
      PROVE  v \in View(c, g) /\ v \in c.inserts \cup c.unmodifiable
  <2>1. e \in d.puts \cap Edge
    BY Zenon, <1>4
  <2>2. v \notin U /\ v \in View(d, g) /\ v \in d.inserts \cup d.unmodifiable
    BY <2>1, <1>2, <1>5 DEF Anchored
  <2> QED
    BY Zenon, <2>2, <1>4 DEF View
<1>7. Anchored(c, g)
    BY <1>2, <1>4, <1>6 DEF Anchored
<1> QED
    BY Zenon, <1>2, <1>3, <1>4, <1>7

-----------------------------------------------------------------------------
(* From the buffers to the committed graph: the commits that a transaction   *)
(* has not seen changed the graph it reads only through keys that they       *)
(* inserted, put or deleted (History), and the ids they inserted are new to  *)
(* every earlier graph (Fresh).                                              *)

CommitLock ==
    {<<"unique", a, o>> : a \in Attribute, o \in Object} \cup {<<"owns", o>> : o \in Object}
        \cup {<<"plays", o, r>> : o \in Object, r \in Role}
        \cup {<<"relates", o, r>> : o \in Object, r \in Role}

\* a buffer as it is committed
Final ==
    [inserts : SUBSET Object, puts : SUBSET (Attribute \cup Edge \cup Index),
     deletes : SUBSET (Vertex \cup Edge \cup Index), unmodifiable : SUBSET Vertex,
     exclusive : SUBSET CommitLock]

Phase == {"idle", "open", "emptied", "created", "cleaned", "closed"}

Types ==
    /\ graphs \in Seq(SUBSET Key)
    /\ commits \in Seq([buffer : Final, open : Nat, shorn : SUBSET Relation])
    /\ Len(graphs) = Len(commits) + 1
    /\ unused \subseteq Object
    /\ open \in [Txn -> 0..Len(commits)]
    /\ buffer \in [Txn -> Buffer]
    /\ shorn \in [Txn -> SUBSET Relation]
    /\ phase \in [Txn -> Phase]
    /\ \A t \in Txn : phase[t] = "idle" => buffer[t] = EmptyBuffer

Fresh ==
    /\ \A i \in 1..Len(graphs) : unused \cap graphs[i] = {}
    /\ \A t \in Txn : buffer[t].inserts \cap unused = {}
    /\ \A t \in Txn, i \in 1..Len(graphs) : buffer[t].inserts \cap graphs[i] = {}
    /\ \A t, u \in Txn : t # u => buffer[t].inserts \cap buffer[u].inserts = {}
    /\ \A i \in 1..Len(commits) : \A j \in 1..i : commits[i].buffer.inserts \cap graphs[j] = {}

History ==
    \A s \in 0..Len(commits) :
        /\ \A k \in graphs[s + 1] :
               k \in Graph \/ \E i \in (s + 1)..Len(commits) : k \in commits[i].buffer.deletes
        /\ \A k \in Graph :
               \/ k \in graphs[s + 1]
               \/ \E i \in (s + 1)..Len(commits) :
                      k \in commits[i].buffer.puts \cup commits[i].buffer.inserts

\* the edges that a buffer puts hold their ends
Held(b) == \A k \in b.puts \cap Edge : \A v \in {k.from, k.to} : v \in b.inserts \cup b.unmodifiable

GraphInv ==
    /\ Types
    /\ Fresh
    /\ History
    /\ \A i \in 1..Len(commits) : Held(commits[i].buffer)
    /\ \A i \in 1..Len(graphs) : Closed(graphs[i])
    /\ BuffersAnchored

\* The positions in the history before and after a commit.
LEMMA Positions ==
    ASSUME NEW n \in Nat
    PROVE  /\ n + 1 \in 1..(n + 1) /\ n + 2 \in 1..(n + 2) /\ (n + 1) + 1 = n + 2
           /\ \A i \in 1..(n + 2) : i = n + 2 \/ i \in 1..(n + 1)
           /\ \A i \in 1..(n + 1) : i = n + 1 \/ i \in 1..n
           /\ \A i \in 1..(n + 1) : \A j \in 1..i : j \in 1..(n + 1)
           /\ \A s \in 0..(n + 1) : s = n + 1 \/ s \in 0..n
           /\ \A s \in 0..n : /\ s \in 0..(n + 1) /\ s + 1 \in 1..(n + 1) /\ n + 1 \in (s + 1)..(n + 1)
                             /\ \A i \in (s + 1)..n : i \in 1..n /\ i \in (s + 1)..(n + 1)
<1>1. n + 1 \in 1..(n + 1) /\ n + 2 \in 1..(n + 2) /\ (n + 1) + 1 = n + 2
    OBVIOUS
<1>2. /\ \A i \in 1..(n + 2) : i = n + 2 \/ i \in 1..(n + 1)
      /\ \A i \in 1..(n + 1) : i = n + 1 \/ i \in 1..n
    OBVIOUS
<1>3. \A i \in 1..(n + 1) : \A j \in 1..i : j \in 1..(n + 1)
    OBVIOUS
<1>4. \A s \in 0..(n + 1) : s = n + 1 \/ s \in 0..n
    OBVIOUS
<1>5. \A s \in 0..n : s \in 0..(n + 1) /\ s + 1 \in 1..(n + 1) /\ n + 1 \in (s + 1)..(n + 1)
    OBVIOUS
<1>6. \A s \in 0..n : \A i \in (s + 1)..n : i \in 1..n /\ i \in (s + 1)..(n + 1)
    OBVIOUS
<1> QED
    BY Zenon, <1>1, <1>2, <1>3, <1>4, <1>5, <1>6

-----------------------------------------------------------------------------
\* The heart of the argument: b read g, the graph is now G, and the buffers in M made the
\* difference.
LEMMA CommitCloses ==
    ASSUME NEW b \in Final, NEW g, NEW G, NEW M \in SUBSET Final,
           Anchored(b, g), Closed(G),
           \A c \in M : ~Conflicts(b, c) /\ Held(c) /\ c.inserts \cap g = {},
           \A k \in g : k \in G \/ \E c \in M : k \in c.deletes,
           \A k \in G : k \in g \/ \E c \in M : k \in c.puts \cup c.inserts
    PROVE  Closed(After(b, G))
<1> SUFFICES ASSUME NEW k \in After(b, G) \cap Edge, NEW v \in {k.from, k.to}
             PROVE  v \in After(b, G)
    BY Zenon DEF Closed
<1>0. v \in Vertex /\ k \notin b.inserts /\ k \notin b.deletes
    BY KeyFacts DEF After, Final
<1>1. CASE k \in b.puts
  <2>1. v \in View(b, g) /\ v \in b.inserts \cup b.unmodifiable
    BY <1>1 DEF Anchored
  <2>2. CASE v \in b.inserts \cup b.puts
    BY Zenon, <2>2 DEF Anchored, After
  <2>3. CASE v \in g \ b.deletes /\ v \in b.unmodifiable
    <3>1. v \in G
      BY Zenon, <2>3 DEF Conflicts
    <3> QED
      BY Zenon, <3>1, <2>3 DEF After
  <2> QED
    BY Zenon, <2>1, <2>2, <2>3 DEF View
<1>2. CASE k \notin b.puts
  <2>1. k \in G /\ v \in G
    BY Zenon, <1>0, <1>2 DEF After, Closed
  <2>2. ASSUME v \in b.deletes PROVE FALSE
    <3>1. v \in g /\ k \notin g
      BY <1>0, <2>2 DEF Anchored
    <3>2. PICK c \in M : k \in c.puts \cup c.inserts
      BY Zenon, <2>1, <3>1
    <3>3. k \in c.puts
      BY Zenon, <3>2, KeyFacts DEF Final
    <3>4. v \in c.inserts \cup c.unmodifiable
      BY Zenon, <3>3 DEF Held
    <3> QED
      BY Zenon, <3>1, <3>4, <2>2 DEF Conflicts
  <2> QED
    BY Zenon, <2>1, <2>2 DEF After
<1> QED
    BY Zenon, <1>1, <1>2

\* What a commit writes is anchored in its snapshot, with the locks of finalise added.
LEMMA FinalisedType ==
    ASSUME NEW t \in Txn, GraphInv
    PROVE  /\ Finalised(t) \in Final
           /\ Anchored(Finalised(t), Snapshot(t))
           /\ Finalised(t).inserts = buffer[t].inserts
<1> DEFINE b == CleanupAttributes(buffer[t], Snapshot(t))
           f == [b EXCEPT !.exclusive = CommitLocks(b)]
<1>1. open[t] + 1 \in 1..Len(graphs)
    BY DEF GraphInv, Types
<1>2. b \in Buffer /\ Anchored(b, Snapshot(t)) /\ b.inserts = buffer[t].inserts
  <2>1. buffer[t] \in Buffer /\ Anchored(buffer[t], Snapshot(t))
    BY Zenon DEF GraphInv, Types, BuffersAnchored
  <2>2. Closed(Snapshot(t))
    BY Zenon, <1>1 DEF GraphInv, Snapshot
  <2> QED
    BY Zenon, <2>1, <2>2, CleanupAttributesKeeps
<1>3. Finalised(t) = f
    BY Zenon DEF Finalised
<1> HIDE DEF b
<1>4. CommitLocks(b) \in SUBSET CommitLock
  <2> DEFINE has == (b.puts \cup b.deletes) \cap Has
             links == (b.puts \cup b.deletes) \cap Links
  <2>1. {UniqueLock(h) : h \in UniqueHas(has)} \subseteq CommitLock
    BY KeyFacts DEF UniqueHas, UniqueLock, CommitLock
  <2>2. {<<"owns", h.from>> : h \in has} \subseteq CommitLock
    BY KeyFacts DEF CommitLock
  <2>3. {<<"plays", l.to, l.role>> : l \in links} \subseteq CommitLock
    BY DEF CommitLock, Links
  <2>4. {<<"relates", l.from, l.role>> : l \in links} \subseteq CommitLock
    BY DEF CommitLock, Links, Object
  <2> QED
    BY <2>1, <2>2, <2>3, <2>4, Zenon DEF CommitLocks
<1> DEFINE L == CommitLocks(b)
<1> HIDE DEF L
<1>5. /\ [b EXCEPT !.exclusive = L] \in Final
      /\ [b EXCEPT !.exclusive = L].inserts = b.inserts
      /\ [b EXCEPT !.exclusive = L].puts = b.puts
      /\ [b EXCEPT !.exclusive = L].deletes = b.deletes
      /\ [b EXCEPT !.exclusive = L].unmodifiable = b.unmodifiable
  <2>1. L \in SUBSET CommitLock
    BY Zenon, <1>4 DEF L
  <2> QED
    BY Zenon, <2>1, <1>2 DEF Buffer, Final
<1>6. /\ f \in Final /\ f.inserts = b.inserts /\ f.puts = b.puts
      /\ f.deletes = b.deletes /\ f.unmodifiable = b.unmodifiable
    BY Zenon, <1>5 DEF L
<1> HIDE DEF f
<1>7. Anchored(f, Snapshot(t))
    BY <1>2, <1>6 DEF Anchored, View
<1> QED
    BY Zenon, <1>2, <1>3, <1>6, <1>7

-----------------------------------------------------------------------------
(* The steps.                                                                *)

\* The invariant holds of a loaded database before any transaction is open.
LEMMA InitGraphInv == Init => GraphInv
<1> SUFFICES ASSUME Init PROVE GraphInv
    BY Zenon
<1>1. PICK g \in Start : graphs = <<g>> /\ unused = Object \ g
    BY Zenon DEF Init
<1>2. g \in SUBSET Key /\ Closed(g)
    BY Zenon, StartAssumption DEF Key, Closed
<1>3. /\ Len(graphs) = 1 /\ graphs[1] = g /\ Len(commits) = 0
      /\ graphs \in Seq(SUBSET Key) /\ commits \in Seq([buffer : Final, open : Nat, shorn : SUBSET Relation])
    BY <1>1, <1>2 DEF Init
<1>4. \A t \in Txn : buffer[t] = EmptyBuffer /\ open[t] = 0
    BY Zenon DEF Init
<1>5. buffer \in [Txn -> Buffer] /\ open \in [Txn -> 0..Len(commits)]
    BY <1>3, EmptyAnchored DEF Init
<1>6. phase \in [Txn -> Phase] /\ shorn \in [Txn -> SUBSET Relation]
    BY Zenon DEF Init, Phase
<1>7. Types
    BY <1>1, <1>3, <1>4, <1>5, <1>6 DEF Types
<1>8. Fresh
    BY <1>1, <1>3, <1>4 DEF Fresh, EmptyBuffer
<1>9. History
    BY <1>3 DEF History, Graph
<1>10. BuffersAnchored
    BY Zenon, <1>4, EmptyAnchored DEF BuffersAnchored
<1> QED
    BY <1>2, <1>3, <1>7, <1>8, <1>9, <1>10 DEF GraphInv

\* A step of one transaction that changes only its own buffer.
LEMMA EditKeeps ==
    ASSUME GraphInv, NEW t \in Txn, NEW c \in Buffer,
           Anchored(c, Snapshot(t)),
           buffer' = [buffer EXCEPT ![t] = c],
           unused' \subseteq unused,
           c.inserts \subseteq buffer[t].inserts \cup (unused \ unused'),
           UNCHANGED <<graphs, commits, open>>,
           shorn' \in [Txn -> SUBSET Relation],
           phase' \in [Txn -> Phase],
           \A u \in Txn : phase'[u] = "idle" => phase[u] = "idle",
           phase[t] # "idle"
    PROVE  GraphInv'
<1>1. /\ buffer' \in [Txn -> Buffer]
      /\ buffer'[t] = c
      /\ \A u \in Txn \ {t} : buffer'[u] = buffer[u]
    BY Zenon DEF GraphInv, Types
<1>2. Types'
    BY Zenon, <1>1 DEF GraphInv, Types
<1>3. Fresh'
  <2>1. \A u \in Txn : buffer'[u].inserts \cap unused' = {}
    BY Zenon, <1>1 DEF GraphInv, Fresh
  <2>2. \A u \in Txn, i \in 1..Len(graphs) : buffer'[u].inserts \cap graphs[i] = {}
    BY Zenon, <1>1 DEF GraphInv, Fresh
  <2>3. ASSUME NEW u \in Txn, NEW w \in Txn, u # w
        PROVE  buffer'[u].inserts \cap buffer'[w].inserts = {}
    BY Zenon, <1>1, <2>3 DEF GraphInv, Fresh
  <2> QED
    BY Zenon, <2>1, <2>2, <2>3 DEF GraphInv, Fresh
<1>4. History'
    BY Zenon DEF GraphInv, History, Graph
<1>5. BuffersAnchored'
    BY Zenon, <1>1 DEF GraphInv, BuffersAnchored, Snapshot
<1> QED
    BY Zenon, <1>2, <1>3, <1>4, <1>5 DEF GraphInv

\* A transaction opens with an empty buffer, at any number that is committed.
LEMMA OpenKeeps ==
    ASSUME GraphInv, NEW t \in Txn, NEW s \in 0..Len(commits), Open(t, s)
    PROVE  GraphInv'
<1>1. /\ open' \in [Txn -> 0..Len(commits)]
      /\ open'[t] = s
      /\ \A u \in Txn \ {t} : open'[u] = open[u]
    BY Zenon DEF Open, GraphInv, Types
<1>2. phase \in [Txn -> Phase]
    BY Zenon DEF GraphInv, Types
<1>3. phase' \in [Txn -> Phase]
    BY Zenon, <1>2 DEF Open, Phase
<1>4. \A u \in Txn : phase'[u] = "idle" => phase[u] = "idle"
    BY Zenon, <1>2 DEF Open
<1>5. buffer[t] = EmptyBuffer
    BY Zenon DEF Open, GraphInv, Types
<1>6. Types'
    BY Zenon, <1>1, <1>3, <1>4 DEF Open, GraphInv, Types
<1>7. Fresh' /\ History'
    BY ZenonT(40) DEF Open, GraphInv, Fresh, History, Graph
<1>8. BuffersAnchored'
    BY Zenon, <1>1, <1>5, EmptyAnchored DEF Open, GraphInv, BuffersAnchored, Snapshot
<1> QED
    BY Zenon, <1>6, <1>7, <1>8 DEF Open, GraphInv

\* The graph that a snapshot reads has its edges' ends, and the buffer is anchored in it.
LEMMA SnapshotFacts ==
    ASSUME GraphInv, NEW t \in Txn
    PROVE  /\ buffer[t] \in Buffer
           /\ Anchored(buffer[t], Snapshot(t))
           /\ Closed(Snapshot(t))
<1>1. open[t] + 1 \in 1..Len(graphs)
    BY DEF GraphInv, Types
<1> QED
    BY Zenon, <1>1 DEF GraphInv, Types, BuffersAnchored, Snapshot

\* Every operation of a query leaves the transaction's edits anchored.
LEMMA OperationKeeps ==
    ASSUME GraphInv, NEW t \in Txn, Operation(t)
    PROVE  GraphInv'
<1> DEFINE b == buffer[t]
           g == Snapshot(t)
<1>1. b \in Buffer /\ Anchored(b, g) /\ Closed(g) /\ Seen(t) = View(b, g)
    BY Zenon, SnapshotFacts DEF Seen
<1> HIDE DEF b, g
<1>2. SUFFICES ASSUME NEW c \in Buffer, Edit(t, c), Anchored(c, g),
                      unused' \subseteq unused,
                      c.inserts \subseteq b.inserts \cup (unused \ unused')
               PROVE  GraphInv'
  <2>1. ASSUME NEW o \in Object, CreateObject(t, o) PROVE GraphInv'
    <3> DEFINE c == [b EXCEPT !.inserts = @ \cup {o}]
    <3>1. /\ c \in Buffer /\ c.inserts = b.inserts \cup {o} /\ c.puts = b.puts
          /\ c.deletes = b.deletes /\ c.unmodifiable = b.unmodifiable
      BY Zenon, <1>1 DEF Buffer
    <3>2. o \notin g
      BY <2>1 DEF GraphInv, Fresh, Types, CreateObject, g, Snapshot
    <3>3. Edit(t, c) /\ unused' = unused \ {o} /\ o \in unused
      BY Zenon, <2>1 DEF CreateObject, b
    <3> HIDE DEF c
    <3>4. Anchored(c, g)
      BY <1>1, <3>1, <3>2 DEF Anchored, View
    <3> QED
      BY Zenon, <3>1, <3>3, <3>4, <1>2
  <2>2. ASSUME NEW o \in Object, DeleteObject(t, o) PROVE GraphInv'
    <3>1. {o} \in SUBSET Object
      BY ZenonT(40)
    <3> QED
      BY Zenon, <1>1, <1>2, <2>2, <3>1, RemoveObjectsKeeps DEF DeleteObject, b, g
  <2>3. ASSUME NEW a \in Attribute, CreateAttribute(t, a) PROVE GraphInv'
    <3> DEFINE c == Put(b, {a})
    <3>1. /\ c \in Buffer /\ c.inserts = b.inserts /\ c.puts = b.puts \cup {a}
          /\ c.deletes = b.deletes \ {a} /\ c.unmodifiable = b.unmodifiable
      BY Zenon, <1>1 DEF Buffer, Put
    <3>2. Edit(t, c) /\ unused' = unused
      BY Zenon, <2>3 DEF CreateAttribute, b
    <3> HIDE DEF c
    <3>3. ASSUME NEW k \in g \cap Edge, NEW v \in {k.from, k.to}, v \in c.deletes
          PROVE  k \in c.deletes
      BY <1>1, <3>1, <3>3, KeyFacts DEF Anchored
    <3>4. ASSUME NEW k \in c.puts \cap Edge, NEW v \in {k.from, k.to}
          PROVE  v \in View(c, g) /\ v \in c.inserts \cup c.unmodifiable
      <4>1. k \in b.puts \cap Edge
        BY <3>1, KeyFacts
      <4> QED
        BY <4>1, <1>1, <3>1 DEF Anchored, View
    <3>5. Anchored(c, g)
      BY Zenon, <1>1, <3>1, <3>3, <3>4 DEF Anchored
    <3> QED
      BY Zenon, <3>1, <3>2, <3>5, <1>2
  <2>4. ASSUME NEW a \in Attribute, DeleteAttribute(t, a) PROVE GraphInv'
    <3>1. {a} \in SUBSET Attribute
      BY Zenon
    <3> QED
      BY Zenon, <1>1, <1>2, <2>4, <3>1, RemoveAttributesKeeps DEF DeleteAttribute, b, g
  <2>5. ASSUME NEW h \in Has, SetHas(t, h) PROVE GraphInv'
    <3> DEFINE d == RequireObjects(b, g, {h.from})
               e == RequireAttribute(d, g, h.to)
    <3>1. h \in Edge /\ h.from \in Object /\ h.to \in Attribute
      BY Zenon, KeyFacts
    <3>2. {h.from, h.to} \subseteq View(b, g) /\ Edit(t, Put(e, {h})) /\ unused' = unused
      BY <1>1, <2>5, Zenon DEF SetHas, b, g
    <3>3. {h.from} \in SUBSET Object
      BY ZenonT(40), <3>1
    <3>4. /\ d \in Buffer /\ Anchored(d, g) /\ View(d, g) = View(b, g) /\ d.inserts = b.inserts
          /\ \A o \in {h.from} : o \in View(b, g) => o \in d.inserts \cup d.unmodifiable
      BY ZenonT(40), <1>1, <3>3, RequireObjectsKeeps
    <3> HIDE DEF d
    <3>5. /\ e \in Buffer /\ Anchored(e, g) /\ View(e, g) = View(d, g) /\ e.inserts = d.inserts
          /\ e.unmodifiable = d.unmodifiable \cup {h.to}
      BY <3>1, <3>4, RequireAttributeKeeps
    <3> HIDE DEF e
    <3>6. \A v \in {h.from, h.to} : v \in View(e, g) /\ v \in e.inserts \cup e.unmodifiable
      BY ZenonT(40), <3>2, <3>4, <3>5
    <3>7. Put(e, {h} \cup {}) \in Buffer /\ Anchored(Put(e, {h} \cup {}), g)
      BY Zenon, <3>1, <3>5, <3>6, PutEdgeKeeps
    <3>8. {h} \cup {} = {h}
      BY Zenon
    <3>9. Put(e, {h}).inserts = e.inserts
      BY Zenon, <3>5 DEF Put, Buffer
    <3> QED
      BY Zenon, <3>2, <3>4, <3>5, <3>7, <3>8, <3>9, <1>2
  <2>6. ASSUME NEW h \in Has, UnsetHasOf(t, h) PROVE GraphInv'
    <3>1. {h} \in SUBSET Has
      BY Zenon
    <3> QED
      BY <1>1, <1>2, <2>6, <3>1, UnsetHasKeeps DEF UnsetHasOf, b, g
  <2>7. ASSUME NEW l \in Links, AddPlayer(t, l) PROVE GraphInv'
    <3> DEFINE e == RequireObjects(b, g, {l.from, l.to})
               I == IndexWith(l, View(b, g))
    <3>1. l \in Edge /\ {l.from, l.to} \in SUBSET Object
      BY Zenon, KeyFacts
    <3>2. {l.from, l.to} \subseteq View(b, g) /\ Edit(t, Put(e, {l} \cup I)) /\ unused' = unused
      BY <1>1, <2>7, Zenon DEF AddPlayer, b, g
    <3>3. I \in SUBSET Index
      BY Zenon, IndexKeys
    <3>4. /\ e \in Buffer /\ Anchored(e, g) /\ View(e, g) = View(b, g) /\ e.inserts = b.inserts
          /\ \A o \in {l.from, l.to} : o \in View(b, g) => o \in e.inserts \cup e.unmodifiable
      BY Zenon, <1>1, <3>1, RequireObjectsKeeps
    <3> HIDE DEF e, I
    <3>5. \A v \in {l.from, l.to} : v \in View(e, g) /\ v \in e.inserts \cup e.unmodifiable
      BY Zenon, <3>2, <3>4
    <3>6. Put(e, {l} \cup I) \in Buffer /\ Anchored(Put(e, {l} \cup I), g)
      BY ZenonT(40), <3>1, <3>3, <3>4, <3>5, PutEdgeKeeps
    <3>7. Put(e, {l} \cup I).inserts = e.inserts
      BY Zenon, <3>4 DEF Put, Buffer
    <3> QED
      BY Zenon, <3>2, <3>4, <3>6, <3>7, <1>2
  <2>8. ASSUME NEW l \in Links, RemovePlayer(t, l) PROVE GraphInv'
    <3>1. {l} \in SUBSET Links
      BY Zenon
    <3> QED
      BY SMTT(40), <1>1, <1>2, <2>8, <3>1, UnsetLinksKeeps DEF RemovePlayer, b, g
  <2>9. CASE Rollback(t)
    BY ZenonT(40), <1>2, <2>9, EmptyAnchored DEF Rollback, EmptyBuffer
  <2> QED
    BY Zenon, <2>1, <2>2, <2>3, <2>4, <2>5, <2>6, <2>7, <2>8, <2>9 DEF Operation
<1>3. phase[t] # "idle" /\ phase' = phase
    BY Zenon, <1>2 DEF Operation, Editing, Edit
<1> QED
    BY Zenon, <1>2, <1>3, EditKeeps DEF Edit, GraphInv, Types, b, g

\* The count of the cardinalities changes no edit.
LEMMA FinaliseKeeps ==
    ASSUME GraphInv, NEW t \in Txn, Finalise(t)
    PROVE  GraphInv'
<1>1. phase[t] = "open" /\ phase \in [Txn -> Phase]
    BY Zenon DEF Finalise, GraphInv, Types
<1>2. PICK label \in {"emptied", "closed"} : phase' = [phase EXCEPT ![t] = label]
    BY Zenon DEF Finalise, Enter, Close
<1>3. /\ phase' \in [Txn -> Phase]
      /\ \A u \in Txn : phase'[u] = "idle" => phase[u] = "idle"
    BY Zenon, <1>1, <1>2 DEF Phase
<1>s. shorn' \in [Txn -> SUBSET Relation]
    BY Zenon DEF Finalise, GraphInv, Types
<1>4. CASE buffer' = buffer
  <2>1. buffer' = [buffer EXCEPT ![t] = buffer[t]]
    BY Zenon, <1>4 DEF GraphInv, Types
  <2> QED
    BY Zenon, <2>1, <1>1, <1>3, <1>s, SnapshotFacts, EditKeeps DEF Finalise
<1>5. CASE buffer' = [buffer EXCEPT ![t] = EmptyBuffer]
  <2>1. EmptyBuffer \in Buffer /\ Anchored(EmptyBuffer, Snapshot(t)) /\ EmptyBuffer.inserts = {}
    BY Zenon, EmptyAnchored DEF EmptyBuffer
  <2> QED
    BY Zenon, <2>1, <1>1, <1>3, <1>5, <1>s, EditKeeps DEF Finalise
<1> QED
    BY Zenon, <1>4, <1>5 DEF Finalise, Close

\* A pass of cleanup_relations leaves the edits anchored.
LEMMA CleanupKeeps ==
    ASSUME GraphInv, NEW t \in Txn, NEW from \in Phase \ {"idle"}, NEW next \in Phase \ {"idle"},
           NEW R \in SUBSET Object, CleanupPass(t, from, next, R)
    PROVE  GraphInv'
<1>1. phase[t] # "idle" /\ phase \in [Txn -> Phase]
    BY Zenon DEF CleanupPass, GraphInv, Types
<1>s. shorn' \in [Txn -> SUBSET Relation]
  <2>1. \A l \in Links : l.from \in Relation
    BY DEF Links
  <2>2. shorn \in [Txn -> SUBSET Relation]
    BY Zenon DEF GraphInv, Types
  <2>3. shorn[t] \cup {l.from : l \in {m \in Seen(t) \cap Links : m.to \in R}} \in SUBSET Relation
    BY Zenon, <2>1, <2>2
  <2> QED
    BY Zenon, <2>2, <2>3 DEF CleanupPass
<1>2. CASE R = {}
  <2>1. phase' = [phase EXCEPT ![t] = next] /\ buffer' = buffer
    BY Zenon, <1>2 DEF CleanupPass, Enter
  <2>2. /\ phase' \in [Txn -> Phase]
        /\ \A u \in Txn : phase'[u] = "idle" => phase[u] = "idle"
    BY Zenon, <1>1, <2>1
  <2>3. buffer' = [buffer EXCEPT ![t] = buffer[t]]
    BY Zenon, <2>1 DEF GraphInv, Types
  <2> QED
    BY Zenon, <2>2, <2>3, <1>1, <1>s, SnapshotFacts, EditKeeps DEF CleanupPass
<1>3. CASE R # {}
  <2> DEFINE c == RemoveObjects(buffer[t], Snapshot(t), R)
  <2>1. c \in Buffer /\ Anchored(c, Snapshot(t)) /\ c.inserts \subseteq buffer[t].inserts
    BY Zenon, SnapshotFacts, RemoveObjectsKeeps
  <2>2. buffer' = [buffer EXCEPT ![t] = c] /\ phase' = phase
    BY Zenon, <1>3 DEF CleanupPass, GraphInv, Types
  <2> HIDE DEF c
  <2> QED
    BY ZenonT(40), <2>1, <2>2, <1>1, <1>s, EditKeeps DEF CleanupPass
<1> QED
    BY Zenon, <1>2, <1>3

\* A commit that the isolation rule admits leaves no edge without an end.
LEMMA CommitKeeps ==
    ASSUME GraphInv, NEW t \in Txn, Commit(t)
    PROVE  GraphInv'
<1> DEFINE n == Len(commits)
           f == Finalised(t)
           g == Snapshot(t)
           unseen == (open[t] + 1)..n
<1>1. /\ phase[t] = "cleaned" /\ phase \in [Txn -> Phase]
      /\ phase' = [phase EXCEPT ![t] = "closed"]
      /\ buffer' = [buffer EXCEPT ![t] = EmptyBuffer]
      /\ UNCHANGED <<unused, open, shorn, ops>>
    BY Zenon DEF Commit, Close, Enter, GraphInv, Types
<1>2. /\ phase' \in [Txn -> Phase]
      /\ \A u \in Txn : phase'[u] = "idle" => phase[u] = "idle"
    BY Zenon, <1>1 DEF Phase
<1>3. EmptyBuffer \in Buffer /\ Anchored(EmptyBuffer, g) /\ EmptyBuffer.inserts = {}
    BY ZenonT(40), EmptyAnchored DEF EmptyBuffer
<1>s. shorn' \in [Txn -> SUBSET Relation] /\ shorn[t] \in SUBSET Relation
    BY Zenon, <1>1 DEF GraphInv, Types
<1>4. CASE UNCHANGED <<graphs, commits>>
    BY Zenon, <1>1, <1>2, <1>3, <1>4, <1>s, EditKeeps
<1>5. CASE /\ \A i \in unseen : ~Conflicts(f, commits[i].buffer)
           /\ commits' = Append(commits, [buffer |-> f, open |-> open[t], shorn |-> shorn[t]])
           /\ graphs' = Append(graphs, After(f, graphs[Len(graphs)]))
  <2> DEFINE G == graphs[Len(graphs)]
             M == {commits[i].buffer : i \in unseen}
             H == After(f, G)
  <2>1. f \in Final /\ Anchored(f, g) /\ f.inserts = buffer[t].inserts
    BY Zenon, FinalisedType
  <2> HIDE DEF f, g
  <2>2. /\ n \in Nat /\ Len(graphs) = n + 1 /\ open[t] \in 0..n
        /\ graphs \in Seq(SUBSET Key) /\ commits \in Seq([buffer : Final, open : Nat, shorn : SUBSET Relation])
        /\ G \in SUBSET Key /\ G = Graph /\ Closed(G)
        /\ \A i \in 1..n : commits[i].buffer \in Final /\ Held(commits[i].buffer)
    <3>1. /\ n \in Nat /\ Len(graphs) = n + 1 /\ open[t] \in 0..n
          /\ graphs \in Seq(SUBSET Key) /\ commits \in Seq([buffer : Final, open : Nat, shorn : SUBSET Relation])
      BY DEF GraphInv, Types
    <3>2. G \in SUBSET Key /\ G = Graph /\ Closed(G)
      BY <3>1 DEF GraphInv, Graph
    <3>3. ASSUME NEW i \in 1..n PROVE commits[i].buffer \in Final /\ Held(commits[i].buffer)
      <4> DEFINE R == [buffer : Final, open : Nat, shorn : SUBSET Relation]
      <4>1. commits \in Seq(R) /\ i \in 1..Len(commits)
        BY Zenon, <3>1
      <4> HIDE DEF R
      <4>2. commits[i] \in R
        BY <4>1
      <4> QED
        BY Zenon, <4>2 DEF R, GraphInv
    <3> QED
      BY Zenon, <3>1, <3>2, <3>3
  <2>3. M \in SUBSET Final
    BY <2>2
  <2>4. \A c \in M : ~Conflicts(f, c) /\ Held(c) /\ c.inserts \cap g = {}
    <3>1. \A i \in unseen : i \in 1..n /\ open[t] + 1 \in 1..i
      BY <2>2
    <3> QED
      BY ZenonT(40), <3>1, <2>2, <1>5 DEF GraphInv, Fresh, g, Snapshot
  <2>5. /\ \A k \in g : k \in G \/ \E c \in M : k \in c.deletes
        /\ \A k \in G : k \in g \/ \E c \in M : k \in c.puts \cup c.inserts
    BY Zenon, <2>2 DEF GraphInv, History, g, Snapshot
  <2>6. Closed(H)
    BY Zenon, <2>1, <2>2, <2>3, <2>4, <2>5, CommitCloses
  <2>7. H \in SUBSET Key
    BY Zenon, <2>1, <2>2 DEF After, Final, Key, Vertex
  <2> HIDE DEF M
  <2>8. Held(f)
    BY <2>1 DEF Anchored, Held
  <2>h. H = (G \cup f.inserts \cup f.puts) \ f.deletes
    BY ZenonT(40) DEF After
  <2> HIDE DEF H
  <2>9. /\ graphs' \in Seq(SUBSET Key) /\ Len(graphs') = n + 2
        /\ graphs'[n + 2] = H /\ \A i \in 1..(n + 1) : graphs'[i] = graphs[i]
    BY <1>5, <2>2, <2>7 DEF H
  <2>10. /\ commits' \in Seq([buffer : Final, open : Nat, shorn : SUBSET Relation]) /\ Len(commits') = n + 1
         /\ commits'[n + 1].buffer = f /\ \A i \in 1..n : commits'[i] = commits[i]
    BY SMTT(40), <1>5, <1>s, <2>1, <2>2
  <2>11. /\ buffer' \in [Txn -> Buffer] /\ buffer'[t] = EmptyBuffer
         /\ \A u \in Txn \ {t} : buffer'[u] = buffer[u]
    BY ZenonT(40), <1>1, <1>3 DEF GraphInv, Types
  <2>12. Types'
    <3>1. open' \in [Txn -> 0..Len(commits')]
      BY Zenon, <1>1, <2>2, <2>10, Positions DEF GraphInv, Types
    <3> QED
      BY SMTT(40), <1>1, <1>2, <2>9, <2>10, <2>11, <3>1 DEF GraphInv, Types
  <2>13. Fresh'
    <3>1. ASSUME NEW i \in 1..Len(graphs') PROVE unused' \cap graphs'[i] = {}
      <4>1. CASE i = n + 2
        <5>1. unused \cap G = {} /\ unused \cap f.inserts = {} /\ unused \subseteq Object
          BY SMTT(40), <2>1, <2>2 DEF GraphInv, Fresh, Types
        <5>2. f.puts \cap Object = {}
          BY Zenon, <2>1, KeyFacts DEF Final
        <5> QED
          BY ZenonT(40), <5>1, <5>2, <4>1, <1>1, <2>9, <2>h
      <4>2. CASE i \in 1..(n + 1)
        BY ZenonT(40), <4>2, <1>1, <2>2, <2>9 DEF GraphInv, Fresh
      <4> QED
        BY Zenon, <4>1, <4>2, <2>2, <2>9, Positions
    <3>2. ASSUME NEW u \in Txn, NEW i \in 1..Len(graphs')
          PROVE  buffer'[u].inserts \cap graphs'[i] = {}
      <4>1. CASE u = t
        BY ZenonT(40), <4>1, <2>11, <1>3
      <4>2. CASE u # t /\ i = n + 2
        <5>1. /\ buffer[u].inserts \cap G = {} /\ buffer[u].inserts \cap f.inserts = {}
              /\ buffer[u].inserts \subseteq Object
          BY SMTT(40), <4>2, <2>1, <2>2 DEF GraphInv, Fresh, Types, Buffer
        <5>2. f.puts \cap Object = {}
          BY Zenon, <2>1, KeyFacts DEF Final
        <5> QED
          BY ZenonT(40), <5>1, <5>2, <4>2, <2>9, <2>11, <2>h
      <4>3. CASE u # t /\ i \in 1..(n + 1)
        BY ZenonT(40), <4>3, <2>2, <2>9, <2>11 DEF GraphInv, Fresh
      <4> QED
        BY Zenon, <4>1, <4>2, <4>3, <2>2, <2>9, Positions
    <3>3. ASSUME NEW u \in Txn PROVE buffer'[u].inserts \cap unused' = {}
      BY ZenonT(40), <1>1, <1>3, <2>11 DEF GraphInv, Fresh
    <3>4. ASSUME NEW u \in Txn, NEW w \in Txn, u # w
          PROVE  buffer'[u].inserts \cap buffer'[w].inserts = {}
      BY ZenonT(40), <3>4, <1>3, <2>11 DEF GraphInv, Fresh
    <3>5. ASSUME NEW i \in 1..Len(commits'), NEW j \in 1..i
          PROVE  commits'[i].buffer.inserts \cap graphs'[j] = {}
      <4>1. j \in 1..(n + 1) /\ graphs'[j] = graphs[j]
        BY Zenon, <2>2, <2>9, <2>10, Positions
      <4>2. CASE i = n + 1
        BY ZenonT(40), <4>1, <4>2, <2>1, <2>2, <2>10 DEF GraphInv, Fresh
      <4>3. CASE i \in 1..n
        BY ZenonT(40), <4>1, <4>3, <2>10 DEF GraphInv, Fresh
      <4> QED
        BY Zenon, <4>2, <4>3, <2>2, <2>10, Positions
    <3> QED
      BY Zenon, <3>1, <3>2, <3>3, <3>4, <3>5 DEF Fresh
  <2>14. History'
    <3>1. Graph' = H
      BY Zenon, <2>9 DEF Graph
    <3>2. ASSUME NEW s \in 0..Len(commits'), NEW k \in graphs'[s + 1], k \notin Graph'
          PROVE  \E i \in (s + 1)..Len(commits') : k \in commits'[i].buffer.deletes
      <4>1. s \in 0..n /\ graphs'[s + 1] = graphs[s + 1]
        BY Zenon, <3>1, <3>2, <2>2, <2>9, <2>10, Positions
      <4>2. k \in G \/ \E i \in (s + 1)..n : k \in commits[i].buffer.deletes
        BY Zenon, <4>1, <2>2 DEF GraphInv, History
      <4>3. CASE k \in G
        <5>1. k \in f.deletes
          BY Zenon, <4>3, <3>1, <3>2, <2>h
        <5>2. n + 1 \in (s + 1)..Len(commits') /\ commits'[n + 1].buffer = f
          BY Zenon, <4>1, <2>2, <2>10, Positions
        <5> QED
          BY <5>1, <5>2, Zenon
      <4>4. CASE k \notin G
        <5>1. PICK i \in (s + 1)..n : k \in commits[i].buffer.deletes
          BY Zenon, <4>2, <4>4
        <5>2. i \in 1..n
          BY Zenon, <4>1, <2>2, Positions
        <5>3. i \in (s + 1)..Len(commits') /\ commits'[i] = commits[i]
          BY Zenon, <4>1, <5>2, <2>2, <2>10, Positions
        <5> QED
          BY <5>1, <5>3, Zenon
      <4> QED
        BY Zenon, <4>3, <4>4
    <3>3. ASSUME NEW s \in 0..Len(commits'), NEW k \in Graph', k \notin graphs'[s + 1]
          PROVE  \E i \in (s + 1)..Len(commits') :
                     k \in commits'[i].buffer.puts \cup commits'[i].buffer.inserts
      <4>1. s \in 0..n /\ graphs'[s + 1] = graphs[s + 1]
        BY Zenon, <3>1, <3>3, <2>2, <2>9, <2>10, Positions
      <4>2. CASE k \in f.puts \cup f.inserts
        <5>1. n + 1 \in (s + 1)..Len(commits') /\ commits'[n + 1].buffer = f
          BY Zenon, <4>1, <2>2, <2>10, Positions
        <5> QED
          BY <4>2, <5>1, Zenon
      <4>3. CASE k \in G
        <5>1. PICK i \in (s + 1)..n : k \in commits[i].buffer.puts \cup commits[i].buffer.inserts
          BY ZenonT(40), <4>1, <4>3, <3>3, <2>2 DEF GraphInv, History
        <5>2. i \in 1..n
          BY Zenon, <4>1, <2>2, Positions
        <5>3. i \in (s + 1)..Len(commits') /\ commits'[i] = commits[i]
          BY Zenon, <4>1, <5>2, <2>2, <2>10, Positions
        <5> QED
          BY <5>1, <5>3, Zenon
      <4> QED
        BY Zenon, <4>2, <4>3, <3>1, <2>h
    <3> QED
      BY Zenon, <3>2, <3>3 DEF History
  <2>15. BuffersAnchored'
    <3>1. ASSUME NEW u \in Txn PROVE Anchored(buffer'[u], graphs'[open'[u] + 1])
      <4>1. graphs'[open'[u] + 1] = graphs[open[u] + 1]
        BY Zenon, <1>1, <2>2, <2>9, Positions DEF GraphInv, Types
      <4> QED
        BY Zenon, <4>1, <2>11, EmptyAnchored DEF GraphInv, BuffersAnchored, Snapshot
    <3> QED
      BY Zenon, <3>1 DEF BuffersAnchored, Snapshot
  <2>16. \A i \in 1..Len(commits') : Held(commits'[i].buffer)
    BY Zenon, <2>2, <2>8, <2>10, Positions
  <2>17. \A i \in 1..Len(graphs') : Closed(graphs'[i])
    BY Zenon, <2>2, <2>6, <2>9, Positions DEF GraphInv
  <2> QED
    BY Zenon, <2>12, <2>13, <2>14, <2>15, <2>16, <2>17 DEF GraphInv
<1> QED
    BY <1>4, <1>5, Zenon DEF Commit

\* Every step keeps the invariant.
LEMMA NextKeeps == GraphInv /\ [Next]_vars => GraphInv'
<1> SUFFICES ASSUME GraphInv, [Next]_vars PROVE GraphInv'
    BY Zenon
<1>1. CASE UNCHANGED vars
    BY ZenonT(40), <1>1 DEF vars, GraphInv, Types, Fresh, History, Graph, BuffersAnchored, Snapshot
<1>2. ASSUME NEW t \in Txn, NEW s \in 0..Len(commits), Open(t, s) PROVE GraphInv'
    BY Zenon, <1>2, OpenKeeps
<1>3. ASSUME NEW t \in Txn, Operation(t) PROVE GraphInv'
    BY Zenon, <1>3, OperationKeeps
<1>4. ASSUME NEW t \in Txn, Finalise(t) PROVE GraphInv'
    BY Zenon, <1>4, FinaliseKeeps
<1>5. ASSUME NEW t \in Txn, CleanupEmptied(t) PROVE GraphInv'
  <2>1. EmptiedRelations(buffer[t], Snapshot(t)) \in SUBSET Object
    BY Zenon, KeyFacts DEF EmptiedRelations
  <2>2. "emptied" \in Phase \ {"idle"} /\ "created" \in Phase \ {"idle"}
    BY Zenon DEF Phase
  <2> QED
    BY Zenon, <1>5, <2>1, <2>2, CleanupKeeps DEF CleanupEmptied
<1>6. ASSUME NEW t \in Txn, CleanupCreated(t) PROVE GraphInv'
  <2>1. CreatedEmpty(buffer[t], Snapshot(t)) \in SUBSET Object
    BY Zenon, KeyFacts DEF CreatedEmpty
  <2>2. "created" \in Phase \ {"idle"} /\ "cleaned" \in Phase \ {"idle"}
    BY Zenon DEF Phase
  <2> QED
    BY Zenon, <1>6, <2>1, <2>2, CleanupKeeps DEF CleanupCreated
<1>7. ASSUME NEW t \in Txn, Commit(t) PROVE GraphInv'
    BY Zenon, <1>7, CommitKeeps
<1> QED
    BY Zenon, <1>1, <1>2, <1>3, <1>4, <1>5, <1>6, <1>7 DEF Next

\* Whatever the schema, the instances and the number of transactions: the buffers are of
\* their types, every open transaction's edits are anchored in its snapshot, and no committed
\* has or links edge is without one of its ends (set_required's locks in entity.rs,
\* relation.rs and attribute.rs, the edge removal of the delete functions, the two
\* clean-up passes and the isolation rule).
THEOREM GraphIntegrity == Spec => [](TypeOK /\ BuffersAnchored /\ NoDanglingEdges)
<1>1. GraphInv => TypeOK /\ BuffersAnchored /\ NoDanglingEdges
  <2> SUFFICES ASSUME GraphInv PROVE TypeOK /\ NoDanglingEdges
    BY Zenon DEF GraphInv
  <2>1. TypeOK
    BY Zenon DEF GraphInv, Types, TypeOK, Phase
  <2>2. Closed(Graph)
    BY DEF GraphInv, Types, Graph
  <2> QED
    BY Zenon, <2>1, <2>2 DEF NoDanglingEdges, Closed
<1> QED
    BY <1>1, InitGraphInv, NextKeeps, PTL DEF Spec

-----------------------------------------------------------------------------
(* What a step does to the buffers: the keys K are added to what the         *)
(* transaction sees, or the keys P are taken from it.                        *)

Adds(b, c, K) ==
    /\ c.inserts = b.inserts \cup (K \cap Object) /\ c.puts = b.puts \cup (K \ Object)
    /\ c.deletes = b.deletes \ K

Drops(b, g, c, P) ==
    c.inserts = b.inserts \ P /\ c.puts = b.puts \ P /\ c.deletes = b.deletes \cup (P \cap g)

LinksAt(O, g) == {l \in g \cap Links : l.from \in O \/ l.to \in O}
IndexOn(L, g) == UNION {IndexWith(l, g) : l \in L}

UniqueIn(h, g) ==
    h.from \in UniqueOwner => \A k \in OwnersOf(h.to, g) : k.from \in UniqueOwner => k.from = h.from

\* an object, an attribute, an ownership or a player added; attributes and ownerships, or
\* objects and players, removed
Added(b, g, c) ==
    \/ \E o \in unused : Adds(b, c, {o})
    \/ \E a \in Attribute : Adds(b, c, {a})
    \/ \E h \in Has : UniqueIn(h, View(b, g)) /\ Adds(b, c, {h})
    \/ \E l \in Links : l.from \in View(b, g) /\ Adds(b, c, {l} \cup IndexWith(l, View(b, g)))

Removed(b, g, c) ==
    \/ \E S \in SUBSET (Attribute \cup Has) : Drops(b, g, c, S)
    \/ \E O \in SUBSET Object, H \in SUBSET Has, L \in SUBSET (View(b, g) \cap Links) :
          /\ LinksAt(O, View(b, g)) \subseteq L
          /\ Drops(b, g, c, O \cup H \cup L \cup IndexOn(L, View(b, g)))

Changes(b, g, c) == c = b \/ Added(b, g, c) \/ Removed(b, g, c)

\* What is added to a buffer is seen on top of the rest.
LEMMA ViewOfAdds ==
    ASSUME NEW b, NEW g, NEW c, NEW K, Adds(b, c, K)
    PROVE  View(c, g) = View(b, g) \cup K
BY Zenon DEF Adds, View

\* What is dropped from a buffer is no longer seen.
LEMMA ViewOfDrops ==
    ASSUME NEW b, NEW g, NEW c, NEW P, Drops(b, g, c, P)
    PROVE  View(c, g) = View(b, g) \ P
BY Zenon DEF Drops, View

\* The index entries depend on the links alone.
LEMMA IndexOfLinks ==
    ASSUME NEW g, NEW v, g \cap Links = v \cap Links
    PROVE  /\ \A r : PlayersOf(r, g) = PlayersOf(r, v)
           /\ \A l : IndexWith(l, g) = IndexWith(l, v)
           /\ \A L : IndexOn(L, g) = IndexOn(L, v)
           /\ \A O : LinksAt(O, g) = LinksAt(O, v)
<1>1. \A r : PlayersOf(r, g) = PlayersOf(r, v)
    BY Zenon DEF PlayersOf
<1>2. \A l : IndexWith(l, g) = IndexWith(l, v)
    BY Zenon, <1>1 DEF IndexWith
<1>3. \A L : IndexOn(L, g) = IndexOn(L, v)
    BY Zenon, <1>2 DEF IndexOn
<1>4. \A O : LinksAt(O, g) = LinksAt(O, v)
    BY Zenon DEF LinksAt
<1> QED
    BY Zenon, <1>1, <1>2, <1>3, <1>4

\* unset_has, with the has edges H
LEMMA UnsetHasDrops ==
    ASSUME NEW b \in Buffer, NEW g, Anchored(b, g), Closed(g), NEW H \in SUBSET Has
    PROVE  Drops(b, g, UnsetHas(b, g, H), H)
<1>1. b.inserts \ H = b.inserts
    BY Zenon, KeyFacts DEF Buffer
<1> QED
    BY <1>1, UnsetHasKeeps DEF Drops

\* remove_player, and what the deletion of an object does with its links
LEMMA UnsetLinksDrops ==
    ASSUME NEW b \in Buffer, NEW g, Anchored(b, g), Closed(g), NEW L \in SUBSET Links
    PROVE  Drops(b, g, UnsetLinks(b, g, L), L \cup IndexOn(L, View(b, g)))
<1> DEFINE I == IndexOn(L, View(b, g))
           c == UnsetLinks(b, g, L)
<1>1. {l \in L \cap g : l.from \notin b.inserts} = L \cap g
    BY Zenon, KeyFacts DEF Closed, Anchored
<1>2. c = [b EXCEPT !.puts = @ \ (L \cup I), !.deletes = (@ \cup (L \cap g)) \cup (I \cap g)]
    BY Zenon, <1>1 DEF UnsetLinks, IndexOn, Buffer
<1>3. I \subseteq Index
    BY Zenon, IndexKeys DEF IndexOn
<1> HIDE DEF I, c
<1>4. b.inserts \ (L \cup I) = b.inserts
    BY Zenon, <1>3, KeyFacts DEF Buffer
<1>5. /\ c.inserts = b.inserts /\ c.puts = b.puts \ (L \cup I)
      /\ c.deletes = b.deletes \cup ((L \cup I) \cap g)
    BY Zenon, <1>2 DEF Buffer
<1> QED
    BY Zenon, <1>4, <1>5 DEF Drops, I, c

\* The delete of objects drops them, their edges and the index entries of their links.
LEMMA RemoveObjectsDrops ==
    ASSUME NEW b \in Buffer, NEW g, Anchored(b, g), Closed(g), NEW O \in SUBSET Object
    PROVE  LET v == View(b, g)
               H == {h \in v \cap Has : h.from \in O}
               L == LinksAt(O, v)
           IN  Drops(b, g, RemoveObjects(b, g, O), O \cup H \cup L \cup IndexOn(L, v))
<1> DEFINE v == View(b, g)
           H == {h \in v \cap Has : h.from \in O}
           L == LinksAt(O, v)
           I == IndexOn(L, v)
           d == UnsetHas(b, g, H)
           u == UnsetLinks(d, g, L)
           c == [u EXCEPT !.unmodifiable = @ \ O, !.inserts = @ \ O,
                          !.deletes = @ \cup (O \cap g)]
<1>1. RemoveObjects(b, g, O) = c
    BY Zenon DEF RemoveObjects, LinksAt
<1>2. H \in SUBSET Has /\ L \in SUBSET Links /\ I \subseteq Index
    BY Zenon, IndexKeys DEF LinksAt, IndexOn
<1> HIDE DEF H, L
<1>3. d \in Buffer /\ Anchored(d, g) /\ Drops(b, g, d, H)
    BY Zenon, <1>2, UnsetHasKeeps, UnsetHasDrops
<1>4. IndexOn(L, View(d, g)) = I
  <2> HIDE DEF d
  <2>1. View(d, g) = v \ H
    BY <1>3, ViewOfDrops
  <2>2. View(d, g) \cap Links = v \cap Links
    BY Zenon, <2>1, <1>2, KeyFacts
  <2>3. \A x, y : x \cap Links = y \cap Links => IndexOn(L, x) = IndexOn(L, y)
    BY Zenon, IndexOfLinks
  <2> QED
    BY Zenon, <2>2, <2>3 DEF I
<1> HIDE DEF d, I, v
<1>5. u \in Buffer /\ Drops(d, g, u, L \cup I)
    BY Zenon, <1>2, <1>3, <1>4, UnsetLinksKeeps, UnsetLinksDrops
<1> HIDE DEF u
<1>6. /\ c.inserts = u.inserts \ O /\ c.puts = u.puts /\ c.deletes = u.deletes \cup (O \cap g)
    BY Zenon, <1>5 DEF Buffer
<1> HIDE DEF c
<1>7. u.puts \ O = u.puts
    BY Zenon, <1>5, KeyFacts DEF Buffer
<1>8. Drops(b, g, c, O \cup H \cup L \cup I)
    BY Zenon, <1>3, <1>5, <1>6, <1>7 DEF Drops
<1> QED
    BY Zenon, <1>1, <1>8 DEF H, L, I, v

\* The delete of attributes drops them and their ownerships.
LEMMA RemoveAttributesDrops ==
    ASSUME NEW b \in Buffer, NEW g, Anchored(b, g), Closed(g), NEW A \in SUBSET Attribute
    PROVE  Drops(b, g, RemoveAttributes(b, g, A), A \cup {h \in View(b, g) \cap Has : h.to \in A})
<1> DEFINE H == {h \in View(b, g) \cap Has : h.to \in A}
           d == UnsetHas(b, g, H)
           c == [d EXCEPT !.puts = @ \ A, !.deletes = @ \cup (A \cap g)]
<1>1. RemoveAttributes(b, g, A) = c
    BY Zenon DEF RemoveAttributes
<1>2. H \in SUBSET Has
    BY Zenon
<1> HIDE DEF H
<1>3. d \in Buffer /\ Drops(b, g, d, H)
    BY Zenon, <1>2, UnsetHasKeeps, UnsetHasDrops
<1> HIDE DEF d
<1>4. /\ c.inserts = d.inserts /\ c.puts = d.puts \ A /\ c.deletes = d.deletes \cup (A \cap g)
    BY Zenon, <1>3 DEF Buffer
<1> HIDE DEF c
<1>5. d.inserts \ A = d.inserts
    BY Zenon, <1>3, KeyFacts DEF Buffer
<1>6. Drops(b, g, c, A \cup H)
    BY Zenon, <1>3, <1>4, <1>5 DEF Drops
<1> QED
    BY Zenon, <1>1, <1>6 DEF H

\* cleanup_attributes touches attributes only, and leaves none that lost its last owner.
LEMMA CleanupEffect ==
    ASSUME NEW b \in Buffer, NEW g, Anchored(b, g), Closed(g)
    PROVE  LET c == CleanupAttributes(b, g)
           IN /\ c.inserts = b.inserts
              /\ \A k : k \notin Attribute => (k \in c.puts <=> k \in b.puts) /\ (k \in c.deletes <=> k \in b.deletes)
              /\ \A a \in Unowned(View(c, g) \cap Attribute, View(c, g)) :
                    a \notin c.puts /\ \A h \in c.deletes \cap Has : h.to # a
<1> DEFINE lost == {h.to : h \in b.deletes \cap Has} \cap View(b, g)
           A == Unowned(lost, View(b, g))
           d == RemoveAttributes(b, g, A)
           U == Unowned(d.puts \cap Attribute, View(d, g))
           c == [d EXCEPT !.puts = @ \ U]
<1>1. A \in SUBSET Attribute
    BY Zenon, KeyFacts DEF Unowned
<1>2. d \in Buffer
    BY Zenon, <1>1, RemoveAttributesKeeps
<1>3. CleanupAttributes(b, g) = c
    BY Zenon, <1>2 DEF CleanupAttributes, Buffer
<1>4. {h \in View(b, g) \cap Has : h.to \in A} = {}
    BY Zenon DEF Unowned, OwnersOf
<1>5. \A a : a \in A <=> a \in View(b, g) /\ ~Independent /\ OwnersOf(a, View(b, g)) = {}
                          /\ \E h \in b.deletes \cap Has : h.to = a
    BY Zenon DEF Unowned
<1> HIDE DEF A
<1>6. Drops(b, g, d, A)
  <2>1. Drops(b, g, d, A \cup {h \in View(b, g) \cap Has : h.to \in A})
    BY Zenon, <1>1, RemoveAttributesDrops
  <2>2. A \cup {h \in View(b, g) \cap Has : h.to \in A} = A
    BY Zenon, <1>4
  <2> QED
    BY <2>1, <2>2
<1> HIDE DEF d
<1>7. c.inserts = d.inserts /\ c.puts = d.puts \ U /\ c.deletes = d.deletes
    BY Zenon, <1>2 DEF Buffer
<1>8. \A a : a \in U <=> a \in d.puts \cap Attribute /\ ~Independent /\ OwnersOf(a, View(d, g)) = {}
    BY Zenon DEF Unowned
<1> HIDE DEF U, c
<1>9. A \cap b.inserts = {}
    BY Zenon, <1>1, KeyFacts DEF Buffer
<1>10. c.inserts = b.inserts
    BY Zenon, <1>6, <1>7, <1>9 DEF Drops
<1>11. \A k : k \notin Attribute => (k \in c.puts <=> k \in b.puts) /\ (k \in c.deletes <=> k \in b.deletes)
    BY Zenon, <1>1, <1>6, <1>7, <1>8 DEF Drops
<1>12. View(c, g) \cap Has = View(b, g) \cap Has /\ View(d, g) \cap Has = View(b, g) \cap Has
       /\ View(c, g) \subseteq View(b, g) \ A
  <2>1. View(d, g) = View(b, g) \ A
    BY <1>6, ViewOfDrops
  <2>2. View(d, g) \cap Has = View(b, g) \cap Has
    BY Zenon, <2>1, <1>1, KeyFacts
  <2>3. View(c, g) \subseteq View(d, g)
    BY Zenon, <1>7 DEF View
  <2>4. View(d, g) \cap Has \subseteq View(c, g)
    BY Zenon, <1>7, <1>8, KeyFacts DEF View
  <2> QED
    BY Zenon, <2>1, <2>2, <2>3, <2>4
<1>13. \A a : OwnersOf(a, View(c, g)) = OwnersOf(a, View(b, g)) /\ OwnersOf(a, View(d, g)) = OwnersOf(a, View(b, g))
    BY Zenon, <1>12 DEF OwnersOf
<1>14. ASSUME NEW a \in Unowned(View(c, g) \cap Attribute, View(c, g))
       PROVE  a \notin c.puts /\ \A h \in c.deletes \cap Has : h.to # a
  <2>1. a \in View(c, g) /\ a \in Attribute /\ ~Independent /\ OwnersOf(a, View(c, g)) = {}
    BY Zenon DEF Unowned
  <2>2. OwnersOf(a, View(d, g)) = {} /\ OwnersOf(a, View(b, g)) = {}
    BY Zenon, <2>1, <1>13
  <2>3. a \notin c.puts
    BY Zenon, <2>1, <2>2, <1>7, <1>8
  <2>4. a \in View(b, g) /\ a \notin A
    BY Zenon, <2>1, <1>12
  <2>5. ASSUME NEW h \in c.deletes \cap Has, h.to = a PROVE FALSE
    <3>1. h \in b.deletes \cap Has
      BY Zenon, <1>11, KeyFacts
    <3> QED
      BY Zenon, <3>1, <2>5, <2>1, <2>2, <2>4, <1>5
  <2> QED
    BY Zenon, <2>3, <2>5
<1> QED
    BY Zenon, <1>3, <1>10, <1>11, <1>14

\* The buffer that t commits, compared with the one it has edited.
LEMMA FinalisedEffect ==
    ASSUME NEW t \in Txn, GraphInv
    PROVE  LET f == Finalised(t)
               b == buffer[t]
               g == Snapshot(t)
           IN /\ f.inserts = b.inserts
              /\ \A k : k \notin Attribute => (k \in f.puts <=> k \in b.puts) /\ (k \in f.deletes <=> k \in b.deletes)
              /\ \A k : k \notin Attribute => (k \in View(f, g) <=> k \in View(b, g))
              /\ \A a \in Unowned(View(f, g) \cap Attribute, View(f, g)) :
                    a \notin f.puts /\ \A h \in f.deletes \cap Has : h.to # a
              /\ f.exclusive = CommitLocks(f)
<1> DEFINE b == buffer[t]
           g == Snapshot(t)
           c == CleanupAttributes(b, g)
           f == [c EXCEPT !.exclusive = CommitLocks(c)]
<1>1. b \in Buffer /\ Anchored(b, g) /\ Closed(g)
    BY Zenon, SnapshotFacts
<1>2. Finalised(t) = f
    BY Zenon DEF Finalised
<1> HIDE DEF b, g
<1>3. /\ c \in Buffer
      /\ c.inserts = b.inserts
      /\ \A k : k \notin Attribute => (k \in c.puts <=> k \in b.puts) /\ (k \in c.deletes <=> k \in b.deletes)
      /\ \A a \in Unowned(View(c, g) \cap Attribute, View(c, g)) :
            a \notin c.puts /\ \A h \in c.deletes \cap Has : h.to # a
    BY <1>1, CleanupEffect, CleanupAttributesKeeps
<1> HIDE DEF c
<1>4. f.inserts = c.inserts /\ f.puts = c.puts /\ f.deletes = c.deletes /\ f.exclusive = CommitLocks(c)
    BY Zenon, <1>3 DEF Buffer
<1> HIDE DEF f
<1>5. CommitLocks(f) = CommitLocks(c) /\ View(f, g) = View(c, g)
    BY Zenon, <1>4 DEF CommitLocks, View
<1>6. \A k : k \notin Attribute => (k \in View(f, g) <=> k \in View(b, g))
    BY Zenon, <1>3, <1>4 DEF View
<1> QED
    BY <1>2, <1>3, <1>4, <1>5, <1>6 DEF b, g

-----------------------------------------------------------------------------
\* What a commit that is not refused finds and leaves.
Commits(t) == Commit(t) /\ commits' # commits

\* A commit that is admitted conflicts with none that it has not seen, and appends its edits.
LEMMA Committing ==
    ASSUME GraphInv, NEW t \in Txn, Commits(t)
    PROVE  LET n == Len(commits)
               f == Finalised(t)
           IN /\ n \in Nat /\ open[t] \in 0..n /\ Len(graphs) = n + 1 /\ Len(graphs') = n + 2
              /\ f \in Final /\ Anchored(f, Snapshot(t))
              /\ Len(commits') = n + 1 /\ \A i \in 1..n : commits'[i] = commits[i]
              /\ commits'[n + 1] = [buffer |-> f, open |-> open[t], shorn |-> shorn[t]]
              /\ Graph' = After(f, Graph)
              /\ \A i \in 1..(n + 1) : graphs'[i] = graphs[i]
              /\ \A i \in (open[t] + 1)..n : ~Conflicts(f, commits[i].buffer)
              /\ \A i \in 1..n : commits[i].buffer \in Final
<1> DEFINE n == Len(commits)
           f == Finalised(t)
<1>1. /\ n \in Nat /\ Len(graphs) = n + 1 /\ open[t] \in 0..n
      /\ graphs \in Seq(SUBSET Key) /\ commits \in Seq([buffer : Final, open : Nat, shorn : SUBSET Relation])
    BY DEF GraphInv, Types
<1>2. f \in Final /\ Anchored(f, Snapshot(t))
    BY Zenon, FinalisedType
<1>3. /\ \A i \in (open[t] + 1)..n : ~Conflicts(f, commits[i].buffer)
      /\ commits' = Append(commits, [buffer |-> f, open |-> open[t], shorn |-> shorn[t]])
      /\ graphs' = Append(graphs, After(f, graphs[Len(graphs)]))
    BY Zenon DEF Commits, Commit
<1> DEFINE x == [buffer |-> f, open |-> open[t], shorn |-> shorn[t]]
           H == After(f, graphs[Len(graphs)])
           R == [buffer : Final, open : Nat, shorn : SUBSET Relation]
<1>4. \A c \in R : c.buffer \in Final
    BY Zenon
<1>5. commits \in Seq(R) /\ commits' = Append(commits, x) /\ graphs' = Append(graphs, H)
    BY Zenon, <1>1, <1>3
<1> HIDE DEF x, H, R, f
<1>6. /\ Len(commits') = n + 1 /\ \A i \in 1..n : commits'[i] = commits[i] /\ commits[i] \in R
      /\ commits'[n + 1] = x
    BY <1>1, <1>5
<1>7. /\ Len(graphs') = n + 2 /\ \A i \in 1..(n + 1) : graphs'[i] = graphs[i]
      /\ graphs'[n + 2] = H
    BY <1>1, <1>5
<1>8. Graph' = After(f, Graph)
    BY Zenon, <1>7 DEF Graph, H
<1> QED
    BY Zenon, <1>1, <1>2, <1>3, <1>4, <1>6, <1>7, <1>8 DEF x, f

\* Numbers of commits and of graphs
LEMMA Unseen ==
    ASSUME NEW n \in Nat
    PROVE  /\ \A s \in 0..n : \A i \in (s + 1)..n : i \in 1..n /\ i \in 1..(n + 1) /\ s < i /\ i < n + 1
           /\ \A i \in 1..n : i \in 1..(n + 1)
OBVIOUS

\* What was raced stays so.
LEMMA RacedKept ==
    ASSUME GraphInv, NEW t \in Txn, Commits(t), NEW K, Raced(K)
    PROVE  Raced(K)'
<1>1. /\ Len(commits) \in Nat /\ Len(commits') = Len(commits) + 1
      /\ \A i \in 1..Len(commits) : commits'[i] = commits[i]
    BY Zenon, Committing
<1>2. PICK i, j \in 1..Len(commits) :
        /\ commits[j].open < i /\ i < j
        /\ \A c \in {i, j} : (commits[c].buffer.puts \cup commits[c].buffer.deletes) \cap K # {}
    BY Zenon DEF Raced
<1>3. i \in 1..Len(commits') /\ j \in 1..Len(commits')
    BY Zenon, <1>1, Unseen
<1>4. commits'[i] = commits[i] /\ commits'[j] = commits[j]
    BY Zenon, <1>1
<1>5. \A c \in {i, j} : (commits'[c].buffer.puts \cup commits'[c].buffer.deletes) \cap K # {}
    BY Zenon, <1>2, <1>4
<1> QED
    BY <1>2, <1>3, <1>4, <1>5 DEF Raced

\* A commit and one that its snapshot has not seen write the same keys.
LEMMA RacedNow ==
    ASSUME GraphInv, NEW t \in Txn, Commits(t), NEW K,
           NEW i \in (open[t] + 1)..Len(commits),
           (commits[i].buffer.puts \cup commits[i].buffer.deletes) \cap K # {},
           (Finalised(t).puts \cup Finalised(t).deletes) \cap K # {}
    PROVE  Raced(K)'
<1> DEFINE n == Len(commits)
<1>1. /\ n \in Nat /\ open[t] \in 0..n /\ Len(commits') = n + 1
      /\ \A m \in 1..n : commits'[m] = commits[m]
      /\ commits'[n + 1] = [buffer |-> Finalised(t), open |-> open[t], shorn |-> shorn[t]]
    BY Zenon, Committing
<1>2. i \in 1..n /\ i \in 1..(n + 1) /\ open[t] < i /\ i < n + 1 /\ n + 1 \in 1..(n + 1)
    BY Zenon, <1>1, Unseen, Positions
<1>3. commits'[n + 1].open = open[t] /\ commits'[n + 1].buffer = Finalised(t)
    BY <1>1
<1> HIDE DEF n
<1>4. \A c \in {i, n + 1} : (commits'[c].buffer.puts \cup commits'[c].buffer.deletes) \cap K # {}
    BY Zenon, <1>1, <1>2, <1>3
<1> QED
    BY Zenon, <1>1, <1>2, <1>3, <1>4 DEF Raced

\* The keys that no unseen commit wrote are in the graph as they were in the snapshot.
LEMMA SameUnlessWritten ==
    ASSUME GraphInv, NEW t \in Txn, NEW k, k \notin Object,
           \A i \in (open[t] + 1)..Len(commits) : k \notin commits[i].buffer.puts \cup commits[i].buffer.deletes
    PROVE  k \in Graph <=> k \in Snapshot(t)
<1>1. open[t] \in 0..Len(commits) /\ Len(commits) \in Nat
    BY DEF GraphInv, Types
<1>2. \A i \in (open[t] + 1)..Len(commits) : commits[i].buffer.inserts \subseteq Object
  <2>1. commits \in Seq([buffer : Final, open : Nat, shorn : SUBSET Relation])
    BY Zenon DEF GraphInv, Types
  <2> DEFINE R == [buffer : Final, open : Nat, shorn : SUBSET Relation]
  <2>2. \A c \in R : c.buffer.inserts \subseteq Object
    BY Zenon DEF Final
  <2>3. commits \in Seq(R)
    BY Zenon, <2>1
  <2> HIDE DEF R
  <2>4. \A i \in 1..Len(commits) : commits[i] \in R
    BY <2>3
  <2>5. \A i \in (open[t] + 1)..Len(commits) : i \in 1..Len(commits)
    BY Zenon, <1>1, Unseen
  <2> QED
    BY Zenon, <2>2, <2>4, <2>5
<1> QED
    BY Zenon, <1>1, <1>2 DEF GraphInv, History, Snapshot

\* Every operation of a transaction changes its buffer in one of these ways.
LEMMA OperationChanges ==
    ASSUME GraphInv, NEW t \in Txn, Operation(t)
    PROVE  \E c : /\ buffer' = [buffer EXCEPT ![t] = c]
                  /\ c = EmptyBuffer \/ Changes(buffer[t], Snapshot(t), c)
                  /\ unused' \subseteq unused /\ UNCHANGED <<graphs, commits, phase, open, shorn>>
<1> DEFINE b == buffer[t]
           g == Snapshot(t)
           v == View(b, g)
<1>1. b \in Buffer /\ Anchored(b, g) /\ Closed(g) /\ Seen(t) = v
    BY Zenon, SnapshotFacts DEF Seen
<1>2. b.puts \cap Object = {} /\ b.deletes \cap unused = {} /\ unused \subseteq Object
  <2>1. b.puts \cap Object = {}
    BY Zenon, <1>1, KeyFacts DEF Buffer
  <2>2. unused \cap g = {}
    BY DEF GraphInv, Fresh, Types, Snapshot
  <2> QED
    BY Zenon, <1>1, <2>1, <2>2 DEF Anchored, GraphInv, Types
<1> HIDE DEF b, g, v
<1> SUFFICES ASSUME \A c : Edit(t, c) /\ unused' \subseteq unused
                              => ~ (c = EmptyBuffer \/ Changes(b, g, c))
             PROVE  FALSE
    BY Zenon DEF Edit, b, g
<1>3. \A c : Edit(t, c) /\ unused' \subseteq unused => ~ Added(b, g, c) /\ ~ Removed(b, g, c)
    BY Zenon DEF Changes
<1>4. ASSUME NEW o \in Object, CreateObject(t, o) PROVE FALSE
  <2> DEFINE c == [b EXCEPT !.inserts = @ \cup {o}]
  <2>1. Edit(t, c) /\ unused' \subseteq unused /\ o \in unused
    BY Zenon, <1>4 DEF CreateObject, b
  <2>2. c.inserts = b.inserts \cup {o} /\ c.puts = b.puts /\ c.deletes = b.deletes
    BY Zenon, <1>1 DEF Buffer
  <2>3. Adds(b, c, {o})
    BY Zenon, <2>1, <2>2, <1>2 DEF Adds
  <2> HIDE DEF c
  <2> QED
    BY Zenon, <2>1, <2>3, <1>3 DEF Added
<1>5. ASSUME NEW o \in Object, DeleteObject(t, o) PROVE FALSE
  <2> DEFINE c == RemoveObjects(b, g, {o})
             H == {h \in v \cap Has : h.from \in {o}}
             L == LinksAt({o}, v)
  <2>1. Edit(t, c) /\ unused' \subseteq unused
    BY Zenon, <1>5 DEF DeleteObject, b, g
  <2>2. {o} \in SUBSET Object
    BY ZenonT(40)
  <2>3. Drops(b, g, c, {o} \cup H \cup L \cup IndexOn(L, v))
    BY Zenon, <1>1, <2>2, RemoveObjectsDrops DEF v
  <2>4. H \in SUBSET Has /\ L \in SUBSET (v \cap Links) /\ L \subseteq L
    BY Zenon DEF LinksAt
  <2> HIDE DEF c, H
  <2> QED
    BY Zenon, <2>1, <2>2, <2>3, <2>4, <1>3 DEF Removed, v
<1>6. ASSUME NEW a \in Attribute, CreateAttribute(t, a) PROVE FALSE
  <2> DEFINE c == Put(b, {a})
  <2>1. Edit(t, c) /\ unused' \subseteq unused
    BY Zenon, <1>6 DEF CreateAttribute, b
  <2>2. c.inserts = b.inserts /\ c.puts = b.puts \cup {a} /\ c.deletes = b.deletes \ {a}
    BY Zenon, <1>1 DEF Buffer, Put
  <2>3. Adds(b, c, {a})
    BY Zenon, <2>2, KeyFacts DEF Adds
  <2> HIDE DEF c
  <2> QED
    BY Zenon, <2>1, <2>3, <1>3 DEF Added
<1>7. ASSUME NEW a \in Attribute, DeleteAttribute(t, a) PROVE FALSE
  <2> DEFINE c == RemoveAttributes(b, g, {a})
             H == {h \in View(b, g) \cap Has : h.to \in {a}}
  <2>1. Edit(t, c) /\ unused' \subseteq unused
    BY Zenon, <1>7 DEF DeleteAttribute, b, g
  <2>2. Drops(b, g, c, {a} \cup H)
    BY Zenon, <1>1, RemoveAttributesDrops
  <2>3. {a} \cup H \in SUBSET (Attribute \cup Has)
    BY Zenon
  <2> HIDE DEF c, H
  <2> QED
    BY Zenon, <2>1, <2>2, <2>3, <1>3 DEF Removed
<1>8. ASSUME NEW h \in Has, SetHas(t, h) PROVE FALSE
  <2> DEFINE d == RequireObjects(b, g, {h.from})
             e == RequireAttribute(d, g, h.to)
             c == Put(e, {h})
  <2>1. h \in Edge /\ {h.from} \in SUBSET Object /\ {h.to} \in SUBSET Vertex
    BY Zenon, KeyFacts
  <2>2. Edit(t, c) /\ unused' = unused /\ UniqueFor(t, h.from, h.to)
    BY <1>1, <1>8, Zenon DEF SetHas, b, g
  <2> DEFINE O == {h.from}
  <2> HIDE DEF O
  <2>a. O \in SUBSET Object /\ d = RequireObjects(b, g, O)
    BY Zenon, <2>1 DEF O
  <2> HIDE DEF d
  <2>3. d \in Buffer /\ d.inserts = b.inserts /\ d.puts = b.puts /\ d.deletes = b.deletes
    BY Zenon, <1>1, <2>a, KeyFacts DEF RequireObjects, Buffer
  <2>4. e \in Buffer /\ e.inserts = d.inserts /\ e.puts = d.puts /\ e.deletes = d.deletes
    BY Zenon, <2>1, <2>3, KeyFacts DEF RequireAttribute, Buffer
  <2> HIDE DEF e
  <2>5. c.inserts = e.inserts /\ c.puts = e.puts \cup {h} /\ c.deletes = e.deletes \ {h}
    BY Zenon, <2>4 DEF Buffer, Put
  <2> HIDE DEF c
  <2>6. Adds(b, c, {h})
    BY Zenon, <2>3, <2>4, <2>5, KeyFacts DEF Adds
  <2>7. UniqueIn(h, View(b, g))
    BY Zenon, <2>2, <1>1 DEF UniqueFor, UniqueIn, v
  <2> QED
    BY Zenon, <2>2, <2>6, <2>7, <1>3 DEF Added
<1>9. ASSUME NEW h \in Has, UnsetHasOf(t, h) PROVE FALSE
  <2> DEFINE c == UnsetHas(b, g, {h})
  <2>1. Edit(t, c) /\ unused' \subseteq unused
    BY Zenon, <1>9 DEF UnsetHasOf, b, g
  <2>2. Drops(b, g, c, {h})
    BY Zenon, <1>1, UnsetHasDrops
  <2>3. {h} \in SUBSET (Attribute \cup Has)
    BY Zenon
  <2> HIDE DEF c
  <2> QED
    BY Zenon, <2>1, <2>2, <2>3, <1>3 DEF Removed
<1>10. ASSUME NEW l \in Links, AddPlayer(t, l) PROVE FALSE
  <2> DEFINE e == RequireObjects(b, g, {l.from, l.to})
             K == {l} \cup IndexWith(l, v)
             c == Put(e, K)
  <2>1. {l.from, l.to} \in SUBSET Object
    BY Zenon, KeyFacts
  <2>2. Edit(t, c) /\ unused' = unused /\ l.from \in v
    BY <1>1, <1>10, Zenon DEF AddPlayer, b, g
  <2>3. e \in Buffer /\ e.inserts = b.inserts /\ e.puts = b.puts /\ e.deletes = b.deletes
    BY Zenon, <1>1, <2>1, KeyFacts DEF RequireObjects, Buffer
  <2>4. K \cap Object = {}
    BY Zenon, IndexKeys, KeyFacts
  <2> HIDE DEF e, K
  <2>5. c.inserts = e.inserts /\ c.puts = e.puts \cup K /\ c.deletes = e.deletes \ K
    BY Zenon, <2>3 DEF Buffer, Put
  <2> HIDE DEF c
  <2>6. Adds(b, c, K)
    BY Zenon, <2>3, <2>4, <2>5 DEF Adds
  <2> QED
    BY Zenon, <2>2, <2>6, <1>3 DEF Added, K, v
<1>11. ASSUME NEW l \in Links, RemovePlayer(t, l) PROVE FALSE
  <2> DEFINE c == UnsetLinks(b, g, {l})
  <2>1. Edit(t, c) /\ unused' \subseteq unused /\ l \in v
    BY Zenon, <1>1, <1>11 DEF RemovePlayer, b, g
  <2>2. Drops(b, g, c, {l} \cup IndexOn({l}, v))
    BY Zenon, <1>1, UnsetLinksDrops DEF v
  <2>3. Drops(b, g, c, {} \cup {} \cup {l} \cup IndexOn({l}, v))
    BY <2>2
  <2>4. {l} \in SUBSET (v \cap Links) /\ LinksAt({}, v) \subseteq {l}
    BY Zenon, <2>1 DEF LinksAt
  <2> HIDE DEF c
  <2>5. {} \in SUBSET Object /\ {} \in SUBSET Has
    BY Zenon
  <2> QED
    BY Zenon, <2>1, <2>3, <2>4, <2>5, <1>3 DEF Removed, v
<1>12. ~ Rollback(t)
    BY Zenon DEF Rollback
<1> QED
    BY Zenon, <1>4, <1>5, <1>6, <1>7, <1>8, <1>9, <1>10, <1>11, <1>12 DEF Operation

\* A step changes one transaction's buffer, or empties it, and may append a commit.
Moves(t) ==
    /\ \A u \in Txn \ {t} : buffer'[u] = buffer[u] /\ open'[u] = open[u]
    /\ \/ buffer'[t] = EmptyBuffer
       \/ open'[t] = open[t] /\ Changes(buffer[t], Snapshot(t), buffer'[t])
    /\ unused' \subseteq unused
    /\ UNCHANGED <<graphs, commits>> \/ Commits(t)

\* A pass of cleanup_relations removes relations with all their edges.
LEMMA CleanupChanges ==
    ASSUME GraphInv, NEW t \in Txn, NEW from, NEW next, NEW R \in SUBSET Object,
           CleanupPass(t, from, next, R)
    PROVE  Moves(t)
<1> DEFINE b == buffer[t]
           g == Snapshot(t)
           v == View(b, g)
           c == RemoveObjects(b, g, R)
           H == {h \in v \cap Has : h.from \in R}
           L == LinksAt(R, v)
<1>1. b \in Buffer /\ Anchored(b, g) /\ Closed(g) /\ buffer \in [Txn -> Buffer]
    BY Zenon, SnapshotFacts DEF GraphInv, Types
<1>2. CASE buffer' = buffer
    BY Zenon, <1>2 DEF CleanupPass, Moves, Changes
<1>3. CASE buffer' = [buffer EXCEPT ![t] = c]
  <2>1. Drops(b, g, c, R \cup H \cup L \cup IndexOn(L, v))
    BY Zenon, <1>1, RemoveObjectsDrops
  <2>2. H \in SUBSET Has /\ L \in SUBSET (v \cap Links) /\ L \subseteq L
    BY Zenon DEF LinksAt
  <2> HIDE DEF H, c
  <2>3. Removed(b, g, c)
    BY Zenon, <2>1, <2>2 DEF Removed
  <2>4. buffer'[t] = c /\ \A u \in Txn \ {t} : buffer'[u] = buffer[u]
    BY Zenon, <1>1, <1>3
  <2> QED
    BY Zenon, <2>3, <2>4 DEF CleanupPass, Moves, Changes
<1> QED
    BY Zenon, <1>2, <1>3 DEF CleanupPass

\* A commit empties its own buffer, whether it is admitted or refused.
LEMMA CommitMoves ==
    ASSUME GraphInv, NEW t \in Txn, Commit(t)
    PROVE  Moves(t)
<1>0. buffer \in [Txn -> Buffer] /\ commits \in Seq([buffer : Final, open : Nat, shorn : SUBSET Relation])
    BY Zenon DEF GraphInv, Types
<1>1. buffer' = [buffer EXCEPT ![t] = EmptyBuffer] /\ unused' = unused /\ open' = open
    BY Zenon DEF Commit, Close
<1>2. buffer'[t] = EmptyBuffer /\ \A u \in Txn \ {t} : buffer'[u] = buffer[u]
    BY Zenon, <1>0, <1>1
<1>3. \A x : Append(commits, x) # commits
    BY <1>0
<1>4. UNCHANGED <<graphs, commits>> \/ Commits(t)
    BY Zenon, <1>3 DEF Commits, Commit
<1> QED
    BY Zenon, <1>1, <1>2, <1>4 DEF Moves

\* Every step is a move of one transaction.
LEMMA NextMoves ==
    ASSUME GraphInv, Next
    PROVE  \E t \in Txn : Moves(t)
<1>0. buffer \in [Txn -> Buffer] /\ open \in [Txn -> 0..Len(commits)]
    BY Zenon DEF GraphInv, Types
<1>1. ASSUME NEW t \in Txn, NEW s \in 0..Len(commits), Open(t, s) PROVE Moves(t)
    BY Zenon, <1>0, <1>1 DEF Open, Moves, GraphInv, Types
<1>2. ASSUME NEW t \in Txn, Operation(t) PROVE Moves(t)
  <2>1. PICK c : /\ buffer' = [buffer EXCEPT ![t] = c]
                 /\ c = EmptyBuffer \/ Changes(buffer[t], Snapshot(t), c)
                 /\ unused' \subseteq unused /\ UNCHANGED <<graphs, commits, phase, open, shorn>>
    BY Zenon, <1>2, OperationChanges
  <2>2. buffer'[t] = c /\ \A u \in Txn \ {t} : buffer'[u] = buffer[u]
    BY Zenon, <1>0, <2>1
  <2> QED
    BY Zenon, <2>1, <2>2 DEF Moves
<1>3. ASSUME NEW t \in Txn, Finalise(t) PROVE Moves(t)
  <2>1. CASE buffer' = buffer
    BY Zenon, <1>3, <2>1 DEF Finalise, Moves, Changes
  <2>2. CASE buffer' = [buffer EXCEPT ![t] = EmptyBuffer]
    BY Zenon, <1>0, <1>3, <2>2 DEF Finalise, Moves
  <2> QED
    BY Zenon, <1>3, <2>1, <2>2 DEF Finalise, Close
<1>4. ASSUME NEW t \in Txn, CleanupEmptied(t) PROVE Moves(t)
  <2>1. EmptiedRelations(buffer[t], Snapshot(t)) \in SUBSET Object
    BY Zenon, KeyFacts DEF EmptiedRelations
  <2> QED
    BY Zenon, <1>4, <2>1, CleanupChanges DEF CleanupEmptied
<1>5. ASSUME NEW t \in Txn, CleanupCreated(t) PROVE Moves(t)
  <2>1. CreatedEmpty(buffer[t], Snapshot(t)) \in SUBSET Object
    BY Zenon, KeyFacts DEF CreatedEmpty
  <2> QED
    BY Zenon, <1>5, <2>1, CleanupChanges DEF CleanupCreated
<1>6. ASSUME NEW t \in Txn, Commit(t) PROVE Moves(t)
    BY Zenon, <1>6, CommitMoves
<1> QED
    BY Zenon, <1>1, <1>2, <1>3, <1>4, <1>5, <1>6 DEF Next

\* A snapshot reads the same graph as long as it is open.
LEMMA SnapshotKept ==
    ASSUME GraphInv, NEW t \in Txn, Moves(t), NEW u \in Txn, open'[u] = open[u]
    PROVE  Snapshot(u)' = Snapshot(u)
<1>1. CASE UNCHANGED <<graphs, commits>>
    BY Zenon, <1>1 DEF Snapshot
<1>2. CASE Commits(t)
  <2>1. Len(commits) \in Nat /\ \A i \in 1..(Len(commits) + 1) : graphs'[i] = graphs[i]
    BY Zenon, <1>2, Committing
  <2>2. open[u] \in 0..Len(commits)
    BY Zenon DEF GraphInv, Types
  <2>3. open[u] + 1 \in 1..(Len(commits) + 1)
    BY Zenon, <2>1, <2>2, Positions
  <2> QED
    BY <2>1, <2>3 DEF Snapshot
<1> QED
    BY Zenon, <1>1, <1>2 DEF Moves

\* The invariants of the buffers, before and after a step
LEMMA BuffersAre ==
    ASSUME GraphInv, NEW t \in Txn, Moves(t)
    PROVE  buffer[t] \in Buffer /\ (GraphInv' => buffer'[t] \in Buffer)
BY Zenon DEF GraphInv, Types

\* Without a commit nothing changes about the graph and the races.
LEMMA GraphSame ==
    ASSUME UNCHANGED <<graphs, commits>>
    PROVE  Graph' = Graph /\ \A K : Raced(K)' <=> Raced(K)
BY DEF Graph, Raced

-----------------------------------------------------------------------------
(* A @unique value has one owner, unless two were given it concurrently.     *)

\* The unique values that a buffer puts have no other owner in sight.
UniqueSeen(b, g) ==
    \A h \in UniqueHas(b.puts), k \in UniqueHas(View(b, g)) : h.to = k.to => h.from = k.from

\* A change keeps a transaction's view of unique values unique: set_has has looked for owners.
LEMMA UniqueChanges ==
    ASSUME NEW b \in Buffer, NEW g, NEW c \in Buffer, UniqueSeen(b, g),
           unused \subseteq Object, Changes(b, g, c)
    PROVE  UniqueSeen(c, g)
<1>1. ASSUME NEW K, Adds(b, c, K), K \cap Has = {} PROVE UniqueSeen(c, g)
  <2>1. View(c, g) = View(b, g) \cup K /\ c.puts = b.puts \cup (K \ Object)
    BY <1>1, ViewOfAdds DEF Adds
  <2>2. UniqueHas(c.puts) = UniqueHas(b.puts) /\ UniqueHas(View(c, g)) = UniqueHas(View(b, g))
    BY Zenon, <1>1, <2>1 DEF UniqueHas
  <2> QED
    BY Zenon, <2>2 DEF UniqueSeen
<1>2. ASSUME NEW P, Drops(b, g, c, P) PROVE UniqueSeen(c, g)
  <2>1. View(c, g) \subseteq View(b, g) /\ c.puts \subseteq b.puts
    BY <1>2, ViewOfDrops DEF Drops
  <2>2. UniqueHas(c.puts) \subseteq UniqueHas(b.puts) /\ UniqueHas(View(c, g)) \subseteq UniqueHas(View(b, g))
    BY Zenon, <2>1 DEF UniqueHas
  <2> QED
    BY Zenon, <2>2 DEF UniqueSeen
<1>3. ASSUME NEW o \in Object, Adds(b, c, {o}) PROVE UniqueSeen(c, g)
    BY Zenon, <1>1, <1>3, KeyFacts
<1>4. ASSUME NEW a \in Attribute, Adds(b, c, {a}) PROVE UniqueSeen(c, g)
    BY Zenon, <1>1, <1>4, KeyFacts
<1>5. ASSUME NEW l \in Links, Adds(b, c, {l} \cup IndexWith(l, View(b, g))) PROVE UniqueSeen(c, g)
  <2>1. ({l} \cup IndexWith(l, View(b, g))) \cap Has = {}
    BY Zenon, IndexKeys, KeyFacts
  <2> QED
    BY Zenon, <1>1, <1>5, <2>1
<1>6. ASSUME NEW h \in Has, UniqueIn(h, View(b, g)), Adds(b, c, {h}) PROVE UniqueSeen(c, g)
  <2>a. View(c, g) = View(b, g) \cup {h}
    BY <1>6, ViewOfAdds
  <2>b. c.puts = b.puts \cup {h}
    BY Zenon, <1>6, KeyFacts DEF Adds
  <2>1. View(c, g) = View(b, g) \cup {h} /\ c.puts = b.puts \cup {h}
    BY <2>a, <2>b
  <2>2. h.from \in UniqueOwner => \A k \in UniqueHas(View(b, g)) : h.to = k.to => h.from = k.from
    BY Zenon, <1>6 DEF UniqueIn, OwnersOf, UniqueHas
  <2>3. ASSUME NEW x \in UniqueHas(c.puts), NEW k \in UniqueHas(View(c, g)), x.to = k.to
        PROVE  x.from = k.from
    <3>1. x = h \/ x \in UniqueHas(b.puts)
      BY Zenon, <2>1 DEF UniqueHas
    <3>2. k = h \/ k \in UniqueHas(View(b, g))
      BY Zenon, <2>1 DEF UniqueHas
    <3>3. UniqueHas(b.puts) \subseteq UniqueHas(View(b, g))
      BY Zenon DEF UniqueHas, View
    <3>4. x.from \in UniqueOwner /\ k.from \in UniqueOwner
      BY Zenon DEF UniqueHas
    <3>5. CASE x = h
      BY Zenon, <3>5, <3>2, <3>4, <2>2, <2>3
    <3>6. CASE x # h /\ k = h
      <4>1. x \in UniqueHas(View(b, g)) /\ h.to = x.to
        BY Zenon, <3>6, <3>1, <3>3, <2>3
      <4> QED
        BY Zenon, <4>1, <3>4, <3>6, <2>2
    <3>7. CASE x # h /\ k # h
      BY Zenon, <3>7, <3>1, <3>2, <2>3 DEF UniqueSeen
    <3> QED
      BY Zenon, <3>5, <3>6, <3>7
  <2> QED
    BY Zenon, <2>3 DEF UniqueSeen
<1>7. unused \subseteq Object => (Added(b, g, c) => UniqueSeen(c, g))
    BY Zenon, <1>3, <1>4, <1>5, <1>6 DEF Added
<1> QED
    BY Zenon, <1>2, <1>7 DEF Changes, Removed

\* What a commit adds has another owner only if that was added unseen.
LEMMA UniqueCommits ==
    ASSUME GraphInv, NEW t \in Txn, Commits(t), UniqueSeen(buffer[t], Snapshot(t)), UniqueUnlessRaced
    PROVE  UniqueUnlessRaced'
<1> DEFINE n == Len(commits)
           f == Finalised(t)
           g == Snapshot(t)
<1>1. /\ f \in Final /\ Graph' = After(f, Graph) /\ Anchored(f, g)
    BY Zenon, Committing
<1>2. /\ \A k : k \notin Attribute => (k \in f.puts <=> k \in buffer[t].puts)
      /\ \A k : k \notin Attribute => (k \in View(f, g) <=> k \in View(buffer[t], g))
    BY Zenon, FinalisedEffect
<1> HIDE DEF f, g
<1>3. UniqueSeen(f, g)
  <2>1. UniqueHas(f.puts) = UniqueHas(buffer[t].puts) /\ UniqueHas(View(f, g)) = UniqueHas(View(buffer[t], g))
    BY Zenon, <1>2, KeyFacts DEF UniqueHas
  <2> QED
    BY Zenon, <2>1 DEF UniqueSeen, g
<1>4. ASSUME NEW h \in UniqueHas(f.puts), NEW k \in UniqueHas(Graph'), h.to = k.to, h.from # k.from,
             NEW K, h \in K, k \in K
      PROVE  Raced(K)'
  <2>1. k \notin f.inserts /\ k \notin Object /\ k \in Has /\ h \in f.puts
    BY Zenon, <1>1, KeyFacts DEF UniqueHas, Final
  <2>2. k \notin View(f, g)
    BY Zenon, <1>3, <1>4 DEF UniqueSeen, UniqueHas
  <2>3. k \in Graph /\ k \notin g
    BY Zenon, <2>1, <2>2, <1>1 DEF After, View, UniqueHas
  <2>4. PICK i \in (open[t] + 1)..n : k \in commits[i].buffer.puts \cup commits[i].buffer.deletes
    BY Zenon, <2>1, <2>3, SameUnlessWritten DEF g
  <2> QED
    BY Zenon, <2>1, <2>4, <1>4, RacedNow DEF f
<1>5. ASSUME NEW h \in UniqueHas(Graph'), NEW k \in UniqueHas(Graph'), h.to = k.to, h.from # k.from
      PROVE  Raced({h, k})'
  <2>1. h \in {h, k} /\ k \in {h, k}
    BY Zenon
  <2>2. \A x \in UniqueHas(Graph') : x \in UniqueHas(f.puts) \/ x \in UniqueHas(Graph)
    <3>1. \A x \in Graph' \cap Has : x \in f.puts \/ x \in Graph
      BY Zenon, <1>1, KeyFacts DEF After, Final
    <3> QED
      BY Zenon, <3>1 DEF UniqueHas
  <2>3. CASE h \in UniqueHas(f.puts)
    BY Zenon, <1>4, <1>5, <2>1, <2>3
  <2>4. CASE k \in UniqueHas(f.puts)
    BY Zenon, <1>4, <1>5, <2>1, <2>4
  <2>5. CASE h \in UniqueHas(Graph) /\ k \in UniqueHas(Graph)
    <3>1. Raced({h, k})
      BY Zenon, <1>5, <2>5 DEF UniqueUnlessRaced
    <3> QED
      BY Zenon, <3>1, RacedKept
  <2> QED
    BY Zenon, <2>2, <2>3, <2>4, <2>5
<1> QED
    BY Zenon, <1>5 DEF UniqueUnlessRaced

UniqueInv == (\A t \in Txn : UniqueSeen(buffer[t], Snapshot(t))) /\ UniqueUnlessRaced

\* A @unique value has two owners only where concurrent transactions wrote their has edges,
\* for every schema and any number of transactions: validate_has_unique_constraint sees the
\* others.
THEOREM UniqueValues == Spec => []UniqueUnlessRaced
<1>1. Init => UniqueInv
  <2> SUFFICES ASSUME Init PROVE UniqueInv
    BY Zenon
  <2>1. PICK g \in Start : graphs = <<g>>
    BY Zenon DEF Init
  <2>2. Graph = g
    BY <2>1 DEF Graph
  <2>3. \A h, k \in UniqueHas(g) : h.to = k.to => h.from = k.from
    BY Zenon, StartAssumption
  <2>4. UniqueUnlessRaced
    BY Zenon, <2>2, <2>3 DEF UniqueUnlessRaced
  <2>5. \A t \in Txn : buffer[t] = EmptyBuffer /\ UniqueHas(EmptyBuffer.puts) = {}
    BY Zenon DEF Init, UniqueHas, EmptyBuffer
  <2> QED
    BY Zenon, <2>4, <2>5 DEF UniqueInv, UniqueSeen
<1>2. GraphInv /\ GraphInv' /\ UniqueInv /\ [Next]_vars => UniqueInv'
  <2> SUFFICES ASSUME GraphInv, GraphInv', UniqueInv, [Next]_vars PROVE UniqueInv'
    BY Zenon
  <2>1. CASE UNCHANGED vars
    <3>1. UNCHANGED <<graphs, commits>> /\ buffer' = buffer /\ \A u \in Txn : Snapshot(u)' = Snapshot(u)
      BY Zenon, <2>1 DEF vars, Snapshot
    <3> QED
      BY Zenon, <3>1, GraphSame DEF UniqueInv, UniqueUnlessRaced
  <2>2. CASE Next
    <3>1. PICK t \in Txn : Moves(t)
      BY Zenon, <2>2, NextMoves
    <3>2. UniqueSeen(buffer'[t], Snapshot(t)')
      <4>1. UniqueHas(EmptyBuffer.puts) = {}
        BY Zenon DEF UniqueHas, EmptyBuffer
      <4>2. CASE buffer'[t] = EmptyBuffer
        BY Zenon, <4>1, <4>2 DEF UniqueSeen
      <4>3. CASE open'[t] = open[t] /\ Changes(buffer[t], Snapshot(t), buffer'[t])
        <5>1. Snapshot(t)' = Snapshot(t)
          BY Zenon, <3>1, <4>3, SnapshotKept
        <5>2. UniqueSeen(buffer'[t], Snapshot(t))
          BY Zenon, <3>1, <4>3, BuffersAre, UniqueChanges DEF UniqueInv, GraphInv, Types
        <5> QED
          BY Zenon, <5>1, <5>2
      <4> QED
        BY Zenon, <3>1, <4>2, <4>3 DEF Moves
    <3>3. ASSUME NEW u \in Txn, u # t PROVE UniqueSeen(buffer'[u], Snapshot(u)')
      <4>1. buffer'[u] = buffer[u] /\ open'[u] = open[u]
        BY Zenon, <3>1, <3>3 DEF Moves
      <4>2. Snapshot(u)' = Snapshot(u)
        BY Zenon, <3>1, <4>1, SnapshotKept
      <4> QED
        BY Zenon, <4>1, <4>2 DEF UniqueInv
    <3>4. UniqueUnlessRaced'
      <4>1. CASE UNCHANGED <<graphs, commits>>
        BY Zenon, <4>1, GraphSame DEF UniqueInv, UniqueUnlessRaced
      <4>2. CASE Commits(t)
        BY Zenon, <4>2, UniqueCommits DEF UniqueInv
      <4> QED
        BY Zenon, <3>1, <4>1, <4>2 DEF Moves
    <3> QED
      BY Zenon, <3>2, <3>3, <3>4 DEF UniqueInv
  <2> QED
    BY Zenon, <2>1, <2>2
<1>3. UniqueInv => UniqueUnlessRaced
    BY Zenon DEF UniqueInv
<1> QED
    BY <1>1, <1>2, <1>3, InitGraphInv, NextKeeps, PTL DEF Spec

-----------------------------------------------------------------------------
(* An attribute without an owner was left by concurrent transactions.        *)

\* A commit leaves what it writes alone, and no other unseen commit wrote, as it saw it.
LEMMA CommittedAsSeen ==
    ASSUME GraphInv, NEW t \in Txn, Commits(t), NEW k, k \notin Object
    PROVE  /\ k \in Graph' <=> (k \in Graph \/ k \in Finalised(t).puts) /\ k \notin Finalised(t).deletes
           /\ (\A i \in (open[t] + 1)..Len(commits) :
                  k \notin commits[i].buffer.puts \cup commits[i].buffer.deletes)
                => (k \in Graph' <=> k \in View(Finalised(t), Snapshot(t)))
<1> DEFINE f == Finalised(t)
           g == Snapshot(t)
<1>1. f \in Final /\ Graph' = After(f, Graph) /\ Anchored(f, g)
    BY Zenon, Committing
<1> HIDE DEF f, g
<1>2. k \notin f.inserts /\ (k \in f.puts => k \notin f.deletes)
    BY Zenon, <1>1 DEF Final, Anchored
<1>3. k \in Graph' <=> (k \in Graph \/ k \in f.puts) /\ k \notin f.deletes
    BY Zenon, <1>1, <1>2 DEF After
<1>4. k \in View(f, g) <=> (k \in g \/ k \in f.puts) /\ k \notin f.deletes
    BY Zenon, <1>2 DEF View
<1>5. (\A i \in (open[t] + 1)..Len(commits) : k \notin commits[i].buffer.puts \cup commits[i].buffer.deletes)
         => (k \in Graph <=> k \in g)
    BY Zenon, SameUnlessWritten DEF g
<1> QED
    BY Zenon, <1>3, <1>4, <1>5 DEF f, g

\* A commit leaves no attribute without an owner, unless two commits raced for it.
LEMMA OwnedCommits ==
    ASSUME GraphInv, NEW t \in Txn, Commits(t), OwnedUnlessRaced
    PROVE  OwnedUnlessRaced'
<1> DEFINE f == Finalised(t)
           v == View(f, Snapshot(t))
<1> SUFFICES ASSUME NEW a \in Unowned(Graph' \cap Attribute, Graph')
             PROVE  Raced({a} \cup {h \in Has : h.to = a})'
    BY Zenon DEF OwnedUnlessRaced
<1> DEFINE K == {a} \cup {h \in Has : h.to = a}
<1>1. /\ a \in Graph' /\ a \in Attribute /\ ~Independent
      /\ \A h \in Has : h.to = a => h \notin Graph'
    BY Zenon DEF Unowned, OwnersOf
<1>2. \A k \in K : k = a \/ (k \in Has /\ k.to = a)
    BY Zenon
<1>3. \A k \in K : k \notin Object
    BY Zenon, <1>1, KeyFacts
<1>k. a \in K /\ \A h \in Has : h.to = a => h \in K
    BY Zenon
<1> HIDE DEF K
<1>4. ASSUME NEW g, a \in g, \A k \in K : k \in Graph' <=> k \in g
      PROVE  a \in Unowned(g \cap Attribute, g)
    BY Zenon, <1>1, <1>4, <1>k DEF Unowned, OwnersOf
<1>5. CASE (f.puts \cup f.deletes) \cap K = {}
  <2>1. \A k \in K : k \in Graph' <=> k \in Graph
    BY Zenon, <1>3, <1>5, CommittedAsSeen
  <2>2. a \in Unowned(Graph \cap Attribute, Graph)
    BY Zenon, <2>1, <1>1, <1>4, <1>k
  <2>3. Raced(K)
    BY Zenon, <2>2 DEF OwnedUnlessRaced, K
  <2> QED
    BY Zenon, <2>3, RacedKept DEF K
<1>6. CASE /\ (f.puts \cup f.deletes) \cap K # {}
           /\ \E i \in (open[t] + 1)..Len(commits) :
                 (commits[i].buffer.puts \cup commits[i].buffer.deletes) \cap K # {}
    BY Zenon, <1>6, RacedNow DEF K
<1>7. CASE /\ (f.puts \cup f.deletes) \cap K # {}
           /\ \A i \in (open[t] + 1)..Len(commits) :
                 (commits[i].buffer.puts \cup commits[i].buffer.deletes) \cap K = {}
  <2>1. \A k \in K : k \in Graph' <=> k \in v
    <3>1. \A k \in K : \A i \in (open[t] + 1)..Len(commits) :
              k \notin commits[i].buffer.puts \cup commits[i].buffer.deletes
      BY Zenon, <1>7
    <3> QED
      BY Zenon, <3>1, <1>3, CommittedAsSeen
  <2>2. a \in Unowned(v \cap Attribute, v)
    BY Zenon, <2>1, <1>1, <1>4, <1>k
  <2>3. a \notin f.puts /\ \A h \in f.deletes \cap Has : h.to # a
    BY Zenon, <2>2, FinalisedEffect
  <2>4. a \notin f.deletes
    BY Zenon, <1>1, <1>3, <1>k, CommittedAsSeen
  <2>5. PICK k \in K : k \in f.puts \/ k \in f.deletes
    BY Zenon, <1>7
  <2>6. k \in Has /\ k.to = a /\ k \in f.puts
    BY Zenon, <2>3, <2>4, <2>5, <1>2
  <2>7. k \in v
    BY Zenon, <2>6 DEF View
  <2> QED
    BY Zenon, <2>1, <2>6, <2>7, <1>1
<1> QED
    BY Zenon, <1>5, <1>6, <1>7

\* An attribute that nobody owns was left by transactions that ran concurrently, one of
\* which wrote the attribute or an ownership of it: cleanup_attributes finds all others.
THEOREM AttributesOwned == Spec => []OwnedUnlessRaced
<1>1. Init => OwnedUnlessRaced
  <2> SUFFICES ASSUME Init PROVE OwnedUnlessRaced
    BY Zenon
  <2>1. PICK g \in Start : graphs = <<g>>
    BY Zenon DEF Init
  <2>2. Graph = g
    BY <2>1 DEF Graph
  <2> QED
    BY Zenon, <2>2, StartAssumption DEF OwnedUnlessRaced
<1>2. GraphInv /\ OwnedUnlessRaced /\ [Next]_vars => OwnedUnlessRaced'
  <2> SUFFICES ASSUME GraphInv, OwnedUnlessRaced, [Next]_vars PROVE OwnedUnlessRaced'
    BY Zenon
  <2>1. CASE UNCHANGED <<graphs, commits>>
    BY Zenon, <2>1, GraphSame DEF OwnedUnlessRaced
  <2>2. ASSUME NEW t \in Txn, Commits(t) PROVE OwnedUnlessRaced'
    BY Zenon, <2>2, OwnedCommits
  <2> QED
    BY Zenon, <2>1, <2>2, NextMoves DEF vars, Moves
<1> QED
    BY <1>1, <1>2, InitGraphInv, NextKeeps, PTL DEF Spec

-----------------------------------------------------------------------------
(* The index of a relation's players.                                        *)

LinksOf(r) == {l \in Links : l.from = r}
EntriesOf(r) == {i \in Index : \E l \in i.links : l.from = r}

\* the entries that the players of r may have
Pair(r) ==
    {i \in Index : Indexed(r) /\ \E l, q \in Links : l # q /\ l.from = r /\ q.from = r /\ i.links = {l, q}}

\* the index of r in g is what its players in g ask for
IndexRight(r, g) == \A i \in EntriesOf(r) : i \in g <=> i \in Pair(r) /\ i.links \subseteq g

\* An index entry is determined by its two links.
LEMMA IndexRecords ==
    ASSUME NEW l \in Links, NEW q \in Links
    PROVE  /\ IndexOf(l, q) \in Index /\ IndexOf(l, q).links = {l, q}
           /\ \A i \in Index : i.links = {l, q} => i = IndexOf(l, q)
<1>1. IndexOf(l, q) \in Index /\ IndexOf(l, q).links = {l, q}
    BY DEF IndexOf, Index
<1>2. ASSUME NEW i \in Index, i.links = {l, q} PROVE i = IndexOf(l, q)
  <2>1. i = [kind |-> i.kind, links |-> i.links] /\ i.kind = "index"
    BY DEF Index
  <2> QED
    BY <2>1, <1>2 DEF IndexOf
<1> QED
    BY Zenon, <1>1, <1>2

\* The entries between players of one relation concern no other relation.
LEMMA PairFacts ==
    ASSUME NEW r, NEW i \in Pair(r)
    PROVE  /\ i \in EntriesOf(r) /\ i.links \subseteq LinksOf(r) /\ i.links # {}
           /\ \A s : i \in EntriesOf(s) => s = r
<1>1. PICK l, q \in Links : l # q /\ l.from = r /\ q.from = r /\ i.links = {l, q}
    BY Zenon DEF Pair
<1>2. i \in Index
    BY Zenon DEF Pair
<1> QED
    BY Zenon, <1>1, <1>2 DEF EntriesOf, LinksOf

\* The entries between a link and the other players
LEMMA IndexWithIs ==
    ASSUME NEW l \in Links, NEW g
    PROVE  IndexWith(l, g) = {i \in Pair(l.from) : l \in i.links /\ i.links \subseteq g \cup {l}}
<1>1. ASSUME NEW i \in IndexWith(l, g)
      PROVE  i \in Pair(l.from) /\ l \in i.links /\ i.links \subseteq g \cup {l}
  <2>1. PICK q \in PlayersOf(l.from, g) \ {l} : i = IndexOf(l, q)
    BY Zenon DEF IndexWith
  <2>2. Indexed(l.from) /\ q \in Links /\ q \in g /\ q.from = l.from /\ q # l
    BY Zenon, <2>1 DEF IndexWith, PlayersOf
  <2>3. i \in Index /\ i.links = {l, q}
    BY Zenon, <2>1, <2>2, IndexRecords
  <2> QED
    BY Zenon, <2>2, <2>3 DEF Pair
<1>2. ASSUME NEW i \in Pair(l.from), l \in i.links, i.links \subseteq g \cup {l}
      PROVE  i \in IndexWith(l, g)
  <2>1. PICK x, y \in Links : x # y /\ x.from = l.from /\ y.from = l.from /\ i.links = {x, y}
    BY Zenon DEF Pair
  <2>2. PICK q \in Links : q # l /\ q.from = l.from /\ i.links = {l, q}
    <3>1. CASE l = x
      BY Zenon, <2>1, <3>1
    <3>2. CASE l = y
      <4>1. i.links = {y, x}
        BY Zenon, <2>1
      <4> QED
        BY Zenon, <2>1, <3>2, <4>1
    <3> QED
      BY Zenon, <1>2, <2>1, <3>1, <3>2
  <2>3. q \in PlayersOf(l.from, g) \ {l}
    BY Zenon, <1>2, <2>2 DEF PlayersOf
  <2>4. i = IndexOf(l, q) /\ Indexed(l.from)
    BY <2>2, IndexRecords DEF Pair
  <2> QED
    BY Zenon, <2>3, <2>4 DEF IndexWith
<1> QED
    BY Zenon, <1>1, <1>2

\* The statement of IndexUnlessRaced, in these terms
LEMMA IndexRightIs ==
    ASSUME NEW r, NEW g
    PROVE  IndexRight(r, g) <=>
              {i \in g \cap Index : \E l \in i.links : l.from = r} = UNION {IndexWith(l, g) : l \in PlayersOf(r, g)}
<1> DEFINE A == {i \in g \cap Index : \E l \in i.links : l.from = r}
           B == UNION {IndexWith(l, g) : l \in PlayersOf(r, g)}
<1>1. \A i : i \in A <=> i \in EntriesOf(r) /\ i \in g
    BY Zenon DEF EntriesOf
<1>2. ASSUME NEW i PROVE i \in B <=> i \in Pair(r) /\ i.links \subseteq g
  <2>1. ASSUME i \in B PROVE i \in Pair(r) /\ i.links \subseteq g
    <3>1. PICK l \in PlayersOf(r, g) : i \in IndexWith(l, g)
      BY Zenon, <2>1
    <3>2. l \in Links /\ l \in g /\ l.from = r
      BY Zenon DEF PlayersOf
    <3> QED
      BY <3>1, <3>2, IndexWithIs
  <2>2. ASSUME i \in Pair(r), i.links \subseteq g PROVE i \in B
    <3>1. PICK l \in LinksOf(r) : l \in i.links
      BY <2>2, PairFacts
    <3>2. l \in Links /\ l.from = r /\ l \in PlayersOf(r, g)
      BY Zenon, <2>2, <3>1 DEF LinksOf, PlayersOf
    <3>3. i \in IndexWith(l, g)
      BY <2>2, <3>1, <3>2, IndexWithIs
    <3> QED
      BY Zenon, <3>2, <3>3
  <2> QED
    BY Zenon, <2>1, <2>2
<1>3. \A i : i \in Pair(r) => i \in EntriesOf(r)
    BY Zenon, PairFacts
<1> HIDE DEF A, B
<1>4. IndexRight(r, g) <=> \A i : i \in A <=> i \in B
    BY Zenon, <1>1, <1>2, <1>3 DEF IndexRight
<1>5. A = B <=> \A i : i \in A <=> i \in B
    BY Zenon
<1> QED
    BY Zenon, <1>4, <1>5 DEF A, B

\* Only the links and the entries of r matter to its index.
LEMMA RightSame ==
    ASSUME NEW r, NEW g, NEW h, IndexRight(r, g),
           \A k \in LinksOf(r) \cup EntriesOf(r) : k \in g <=> k \in h
    PROVE  IndexRight(r, h)
<1> SUFFICES ASSUME NEW i \in EntriesOf(r)
             PROVE  i \in h <=> i \in Pair(r) /\ i.links \subseteq h
    BY Zenon DEF IndexRight
<1>1. i \in h <=> i \in g
    BY Zenon
<1>2. i \in Pair(r) => (i.links \subseteq h <=> i.links \subseteq g)
    BY Zenon, PairFacts
<1> QED
    BY Zenon, <1>1, <1>2 DEF IndexRight

\* A relation that is not in the graph has no links there.
LEMMA RightIfNew ==
    ASSUME NEW r, NEW g, Closed(g), r \notin g, \A i \in EntriesOf(r) : i \notin g
    PROVE  IndexRight(r, g)
<1>1. \A l \in LinksOf(r) : l \notin g
    BY Zenon, KeyFacts DEF Closed, LinksOf
<1>2. \A i \in Pair(r) : ~ (i.links \subseteq g)
    BY <1>1, PairFacts
<1> QED
    BY Zenon, <1>2 DEF IndexRight

\* What a buffer does to the index, given that the index it found was right: it leaves it
\* right, and puts no entry without one of its links.
Accompanied(b, g) ==
    /\ \A i \in b.puts \cap Index : \A l \in i.links : l.from \in g \cup b.inserts
    /\ \A r \in View(b, g) \cap Relation : IndexRight(r, g) =>
          /\ IndexRight(r, View(b, g))
          /\ \A i \in b.puts \cap EntriesOf(r) : i.links \cap b.puts # {}

\* Entries are index keys, and what they join are links.
LEMMA EntryFacts ==
    /\ \A r : EntriesOf(r) \subseteq Index /\ LinksOf(r) \subseteq Links
    /\ \A i \in Index : i.links \subseteq Links
    /\ \A i \in Index : \A l \in i.links : i \in EntriesOf(l.from) /\ l.from \in Relation
    /\ \A r : EntriesOf(r) # {} => r \in Relation
<1>1. \A i \in Index : i.links \subseteq Links
    BY Zenon DEF Index
<1> QED
    BY Zenon, <1>1, KeyFacts DEF EntriesOf, LinksOf

\* Ownerships and attributes do not matter to the index.
LEMMA AccompaniedSame ==
    ASSUME NEW b, NEW c, NEW g, Accompanied(b, g), c.inserts = b.inserts,
           \A k \in Links \cup Index : k \in c.puts <=> k \in b.puts,
           \A k \in Links \cup Index \cup Relation : k \in View(c, g) <=> k \in View(b, g)
    PROVE  Accompanied(c, g)
<1>1. \A i \in c.puts \cap Index : \A l \in i.links : l.from \in g \cup c.inserts
    BY Zenon DEF Accompanied
<1>2. ASSUME NEW r \in View(c, g) \cap Relation, IndexRight(r, g)
      PROVE  /\ IndexRight(r, View(c, g))
             /\ \A i \in c.puts \cap EntriesOf(r) : i.links \cap c.puts # {}
  <2>1. r \in View(b, g) \cap Relation
    BY Zenon
  <2>2. /\ IndexRight(r, View(b, g))
        /\ \A i \in b.puts \cap EntriesOf(r) : i.links \cap b.puts # {}
    BY Zenon, <1>2, <2>1 DEF Accompanied
  <2>3. IndexRight(r, View(c, g))
    <3> DEFINE x == View(b, g)
               y == View(c, g)
    <3>1. \A k \in LinksOf(r) \cup EntriesOf(r) : k \in x <=> k \in y
      BY Zenon, EntryFacts
    <3> HIDE DEF x, y
    <3>2. IndexRight(r, x) => IndexRight(r, y)
      BY Zenon, <3>1, RightSame
    <3> QED
      BY Zenon, <2>2, <3>2 DEF x, y
  <2>4. ASSUME NEW i \in c.puts \cap EntriesOf(r) PROVE i.links \cap c.puts # {}
    <3>1. i \in b.puts \cap EntriesOf(r) /\ i.links \subseteq Links
      BY Zenon, EntryFacts
    <3> QED
      BY Zenon, <3>1, <2>2
  <2> QED
    BY Zenon, <2>3, <2>4
<1> QED
    BY Zenon, <1>1, <1>2 DEF Accompanied

\* The index of a relation that the buffer creates: the graph has nothing of it.
New(r, g) == r \notin g /\ \A i \in EntriesOf(r) : i \notin g

\* create_relation and create_entity
LEMMA AccompaniedObject ==
    ASSUME NEW b \in Buffer, NEW g, NEW c \in Buffer, Closed(g), Anchored(b, g), Accompanied(b, g),
           NEW o \in Object, o \notin b.inserts, New(o, g), Adds(b, c, {o})
    PROVE  Accompanied(c, g)
<1> DEFINE v == View(b, g)
           w == View(c, g)
<1>1. w = v \cup {o} /\ c.inserts = b.inserts \cup {o} /\ c.puts = b.puts
  <2>1. w = v \cup {o}
    BY ViewOfAdds
  <2>2. {o} \cap Object = {o} /\ {o} \ Object = {}
    BY Zenon
  <2> QED
    BY <2>1, <2>2 DEF Adds
<1>2. b.puts \cap Object = {}
    BY Zenon, KeyFacts DEF Buffer
<1>3. o \notin v
    BY Zenon, <1>2 DEF View, New
<1>4. ASSUME NEW i \in EntriesOf(o) PROVE i \notin b.puts
  <2>1. PICK l \in i.links : l.from = o
    BY Zenon DEF EntriesOf
  <2>2. i \in Index /\ o \notin g \cup b.inserts
    BY Zenon, EntryFacts DEF New
  <2> QED
    BY Zenon, <2>1, <2>2 DEF Accompanied
<1>5. \A l \in LinksOf(o) : l \notin v
  <2>1. ASSUME NEW l \in LinksOf(o), l \in v PROVE FALSE
    <3>1. l \in Edge /\ l.from = o /\ l \notin b.inserts
      BY Zenon, KeyFacts DEF LinksOf, Buffer
    <3>2. l \in g => o \in g
      BY Zenon, <3>1 DEF Closed
    <3>3. l \in b.puts => o \in v
      BY Zenon, <3>1 DEF Anchored
    <3> QED
      BY Zenon, <2>1, <3>1, <3>2, <3>3, <1>3 DEF View, New
  <2> QED
    BY Zenon, <2>1
<1>6. \A i \in EntriesOf(o) : i \notin v
    BY Zenon, <1>4, EntryFacts, KeyFacts DEF View, New, Buffer
<1>7. \A k \in Links \cup Index : k \in w <=> k \in v
    BY Zenon, <1>1, KeyFacts
<1> HIDE DEF v, w
<1>8. IndexRight(o, w)
  <2>1. \A i \in Pair(o) : ~ (i.links \subseteq w)
    <3>1. \A l \in LinksOf(o) : l \notin w
      BY Zenon, <1>5, <1>7, EntryFacts
    <3> QED
      BY <3>1, PairFacts
  <2>2. \A i \in EntriesOf(o) : i \notin w
    BY Zenon, <1>6, <1>7, EntryFacts
  <2> QED
    BY Zenon, <2>1, <2>2 DEF IndexRight
<1>9. ASSUME NEW r \in v \cap Relation, IndexRight(r, g)
      PROVE  /\ IndexRight(r, w)
             /\ \A i \in c.puts \cap EntriesOf(r) : i.links \cap c.puts # {}
  <2>1. /\ IndexRight(r, v)
        /\ \A i \in b.puts \cap EntriesOf(r) : i.links \cap b.puts # {}
    BY Zenon, <1>9 DEF Accompanied, v
  <2>2. \A k \in LinksOf(r) \cup EntriesOf(r) : k \in v <=> k \in w
    BY Zenon, <1>7, EntryFacts
  <2> QED
    BY Zenon, <2>1, <2>2, <1>1, RightSame
<1>10. \A i \in c.puts \cap Index : \A l \in i.links : l.from \in g \cup c.inserts
    BY Zenon, <1>1 DEF Accompanied
<1>11. \A r \in w \cap Relation : r = o \/ r \in v \cap Relation
    BY Zenon, <1>1
<1>12. \A i \in c.puts \cap EntriesOf(o) : FALSE
    BY Zenon, <1>1, <1>4
<1> QED
    BY Zenon, <1>8, <1>9, <1>10, <1>11, <1>12 DEF Accompanied, w

\* add_player, with relation_index_player_regenerate
LEMMA AccompaniedPlayer ==
    ASSUME NEW b \in Buffer, NEW g, NEW c \in Buffer, Accompanied(b, g),
           NEW l \in Links, l.from \in View(b, g), Adds(b, c, {l} \cup IndexWith(l, View(b, g)))
    PROVE  Accompanied(c, g)
<1> DEFINE v == View(b, g)
           w == View(c, g)
           I == IndexWith(l, v)
           K == {l} \cup I
<1>1. /\ I \subseteq Index
      /\ \A i : i \in I <=> i \in Pair(l.from) /\ l \in i.links /\ i.links \subseteq v \cup {l}
  <2>1. I \subseteq Index
    BY Zenon, IndexKeys
  <2>2. I = {i \in Pair(l.from) : l \in i.links /\ i.links \subseteq v \cup {l}}
    BY IndexWithIs
  <2> HIDE DEF I
  <2> QED
    BY Zenon, <2>1, <2>2
<1>2. w = v \cup K
    BY ViewOfAdds
<1> HIDE DEF I
<1>3. K \cap Object = {} /\ l \notin Index /\ l \in Links /\ l.from \in Relation /\ K \cap Relation = {}
  <2>1. I \subseteq Index
    BY Zenon, <1>1
  <2> QED
    BY Zenon, <2>1, KeyFacts
<1>4. c.inserts = b.inserts /\ c.puts = b.puts \cup K
    BY Zenon, <1>3 DEF Adds, K, I, v
<1>a. l \in K /\ \A k \in K : k = l \/ k \in I
    BY Zenon
<1>b. I \subseteq K
    BY Zenon
<1>5. b.puts \subseteq v /\ l.from \in v
    BY Zenon DEF View
<1>6. b.puts \cap Object = {}
    BY Zenon, KeyFacts DEF Buffer
<1>7. l.from \in g \cup b.inserts
    BY Zenon, <1>6, KeyFacts DEF View
<1> HIDE DEF v, w, K
<1>8. ASSUME NEW i \in c.puts \cap Index, NEW m \in i.links PROVE m.from \in g \cup c.inserts
  <2>1. CASE i \in b.puts
    BY Zenon, <2>1, <1>4 DEF Accompanied
  <2>2. CASE i \in I
    <3>1. m \in LinksOf(l.from)
      BY <2>2, <1>1, PairFacts
    <3> QED
      BY Zenon, <3>1, <1>4, <1>7 DEF LinksOf
  <2> QED
    BY Zenon, <2>1, <2>2, <1>3, <1>4, <1>a
<1>9. ASSUME NEW r \in w \cap Relation, IndexRight(r, g)
      PROVE  /\ IndexRight(r, w)
             /\ \A i \in c.puts \cap EntriesOf(r) : i.links \cap c.puts # {}
  <2>0. r \in v \cap Relation
    BY Zenon, <1>2, <1>3
  <2>1. /\ IndexRight(r, v)
        /\ \A i \in b.puts \cap EntriesOf(r) : i.links \cap b.puts # {}
    BY Zenon, <1>9, <2>0 DEF Accompanied, v
  <2>2. \A i \in I : i \in EntriesOf(r) => r = l.from
    BY <1>1, PairFacts
  <2>3. \A i \in c.puts \cap EntriesOf(r) : i.links \cap c.puts # {}
    <3>1. ASSUME NEW i \in c.puts \cap EntriesOf(r), i \in b.puts PROVE i.links \cap c.puts # {}
      BY Zenon, <3>1, <2>1, <1>4
    <3>2. ASSUME NEW i \in I PROVE i.links \cap c.puts # {}
      BY Zenon, <1>1, <1>4, <1>a
    <3> QED
      BY Zenon, <3>1, <3>2, <1>3, <1>4, <1>a, EntryFacts
  <2>4. CASE r # l.from
    <3>0. I \subseteq Index
      BY Zenon, <1>1
    <3>a. \A k \in LinksOf(r) : k \notin K
      BY Zenon, <2>4, <3>0, <1>a, EntryFacts, KeyFacts DEF LinksOf
    <3>b. \A k \in EntriesOf(r) : k \notin K
      BY Zenon, <2>2, <2>4, <1>3, <1>a, EntryFacts
    <3>1. \A k \in LinksOf(r) \cup EntriesOf(r) : k \notin K
      BY Zenon, <3>a, <3>b
    <3>2. \A k \in LinksOf(r) \cup EntriesOf(r) : k \in v <=> k \in w
      BY Zenon, <3>1, <1>2
    <3> QED
      BY Zenon, <2>1, <2>3, <3>2, RightSame
  <2>5. CASE r = l.from
    <3>1. ASSUME NEW i \in EntriesOf(r) PROVE i \in w <=> i \in Pair(r) /\ i.links \subseteq w
      <4>1. i # l /\ i.links \subseteq Links
        BY Zenon, <1>3, EntryFacts
      <4>2. i \in w <=> i \in v \/ i \in I
        BY Zenon, <1>2, <1>a, <1>b, <4>1
      <4>3. i.links \subseteq w <=> i.links \subseteq v \cup {l}
        <5>1. I \subseteq Index
          BY Zenon, <1>1
        <5>2. \A m \in Links : m \in w <=> m \in v \cup {l}
          BY Zenon, <5>1, <1>2, <1>a, KeyFacts
        <5> QED
          BY Zenon, <4>1, <5>2
      <4>4. i \in v <=> i \in Pair(r) /\ i.links \subseteq v
        BY Zenon, <2>1 DEF IndexRight
      <4>5. i.links \subseteq v \cup {l} <=> i.links \subseteq v \/ (l \in i.links /\ i.links \subseteq v \cup {l})
        BY Zenon
      <4> QED
        BY Zenon, <4>2, <4>3, <4>4, <4>5, <1>1, <2>5
    <3> QED
      BY Zenon, <3>1, <2>3 DEF IndexRight
  <2> QED
    BY Zenon, <2>4, <2>5
<1> QED
    BY Zenon, <1>8, <1>9 DEF Accompanied, w

\* remove_player and delete_object, with relation_index_player_remove
LEMMA AccompaniedRemoval ==
    ASSUME NEW b \in Buffer, NEW g, NEW c \in Buffer, Closed(g), Accompanied(b, g),
           \A r \in b.inserts : New(r, g),
           NEW O \in SUBSET Object, NEW H \in SUBSET Has, NEW L \in SUBSET (View(b, g) \cap Links),
           LinksAt(O, View(b, g)) \subseteq L,
           Drops(b, g, c, O \cup H \cup L \cup IndexOn(L, View(b, g)))
    PROVE  Accompanied(c, g)
<1> DEFINE v == View(b, g)
           w == View(c, g)
           I == IndexOn(L, v)
           P == O \cup H \cup L \cup I
<1>1. I \subseteq Index
    BY Zenon, IndexKeys DEF IndexOn
<1>2. w = v \ P
    BY ViewOfDrops
<1>3. c.inserts = b.inserts \ P /\ c.puts = b.puts \ P
    BY Zenon DEF Drops
<1>4. b.puts \subseteq v /\ L \subseteq v /\ L \subseteq Links /\ LinksAt(O, v) \subseteq L
    BY Zenon DEF View
<1>5. \A r, i : i \in Pair(r) /\ i.links \subseteq v => (i \in I <=> i.links \cap L # {})
  <2> SUFFICES ASSUME NEW r, NEW i \in Pair(r), i.links \subseteq v
               PROVE  i \in I <=> i.links \cap L # {}
    BY Zenon
  <2>0. i.links \subseteq LinksOf(r)
    BY PairFacts
  <2>1. ASSUME NEW l \in L PROVE i \in IndexWith(l, v) <=> l \in i.links
    <3>1. l \in Links
      BY Zenon, <1>4
    <3>2. IndexWith(l, v) = {j \in Pair(l.from) : l \in j.links /\ j.links \subseteq v \cup {l}}
      BY <3>1, IndexWithIs
    <3>3. l \in i.links => l.from = r
      BY Zenon, <2>0 DEF LinksOf
    <3>4. i.links \subseteq v \cup {l}
      BY Zenon
    <3> HIDE DEF v
    <3> QED
      BY Zenon, <3>2, <3>3, <3>4
  <2>2. i \in I <=> \E l \in L : i \in IndexWith(l, v)
    BY Zenon DEF IndexOn
  <2> QED
    BY Zenon, <2>1, <2>2
<1> HIDE DEF I, v, w
<1>6. /\ \A k \in Links : k \in P <=> k \in L
      /\ \A k \in Index : k \in P <=> k \in I
      /\ \A k \in Object : k \in P <=> k \in O
    BY Zenon, <1>1, <1>4, KeyFacts
<1> HIDE DEF P
<1>7. ASSUME NEW r \in v \cap Relation, IndexRight(r, g)
      PROVE  /\ IndexRight(r, w)
             /\ \A i \in c.puts \cap EntriesOf(r) : i.links \cap c.puts # {}
             /\ \A i \in c.puts \cap EntriesOf(r) : i.links \subseteq v \ L /\ i \in Pair(r)
  <2>1. /\ IndexRight(r, v)
        /\ \A i \in b.puts \cap EntriesOf(r) : i.links \cap b.puts # {}
    BY Zenon, <1>7 DEF Accompanied, v
  <2>2. ASSUME NEW i \in EntriesOf(r) PROVE i \in w <=> i \in Pair(r) /\ i.links \subseteq w
    <3>1. i \in w <=> i \in v /\ i \notin I
      BY Zenon, <1>2, <1>6, EntryFacts
    <3>2. i \in v <=> i \in Pair(r) /\ i.links \subseteq v
      BY Zenon, <2>1 DEF IndexRight
    <3>3. i.links \subseteq w <=> i.links \subseteq v /\ i.links \cap L = {}
      <4>1. i.links \subseteq Links
        BY Zenon, EntryFacts
      <4>2. \A k \in Links : k \in w <=> k \in v /\ k \notin L
        BY Zenon, <1>2, <1>6
      <4> QED
        BY Zenon, <4>1, <4>2
    <3> QED
      BY Zenon, <3>1, <3>2, <3>3, <1>5
  <2>3. IndexRight(r, w)
    BY Zenon, <2>2 DEF IndexRight
  <2>4. ASSUME NEW i \in c.puts \cap EntriesOf(r)
        PROVE  i.links \cap c.puts # {} /\ i.links \subseteq v \ L /\ i \in Pair(r)
    <3>1. i \in b.puts /\ i \notin I
      BY Zenon, <1>3, <1>6, EntryFacts
    <3>2. i \in Pair(r) /\ i.links \subseteq v
      BY Zenon, <3>1, <1>4, <2>1 DEF IndexRight
    <3>3. i.links \cap L = {}
      BY Zenon, <3>1, <3>2, <1>5
    <3>4. PICK k \in i.links : k \in b.puts
      BY Zenon, <3>1, <2>1
    <3>5. k \in Links /\ k \notin L
      BY Zenon, <3>3, <3>4, EntryFacts
    <3> QED
      BY Zenon, <3>2, <3>3, <3>4, <3>5, <1>3, <1>6
  <2> QED
    BY Zenon, <2>3, <2>4
<1>8. ASSUME NEW i \in c.puts \cap Index, NEW l \in i.links PROVE l.from \in g \cup c.inserts
  <2>1. i \in b.puts
    BY Zenon, <1>3
  <2>2. l.from \in g \cup b.inserts
    BY Zenon, <2>1 DEF Accompanied
  <2>3. l.from \in Relation /\ l.from \in Object /\ i \in EntriesOf(l.from) /\ l \in Links
    BY Zenon, EntryFacts, KeyFacts
  <2>4. ASSUME l.from \in b.inserts, l.from \in O PROVE FALSE
    <3>1. l.from \in v \cap Relation
      BY Zenon, <2>3, <2>4 DEF View, v
    <3>2. IndexRight(l.from, g)
      BY <2>4, RightIfNew DEF New
    <3>3. i.links \subseteq v \ L
      BY Zenon, <3>1, <3>2, <2>3, <1>7
    <3>4. l \in v /\ l \notin L
      BY Zenon, <3>3
    <3>5. l \in LinksAt(O, v)
      BY Zenon, <3>4, <2>3, <2>4 DEF LinksAt
    <3> QED
      BY Zenon, <3>4, <3>5, <1>4
  <2> QED
    BY Zenon, <2>2, <2>3, <2>4, <1>3, <1>6
<1>9. \A r \in w : r \in v
    BY Zenon, <1>2
<1> QED
    BY Zenon, <1>7, <1>8, <1>9 DEF Accompanied, w

\* A change to players regenerates the entries that the transaction sees between them.
LEMMA AccompaniedChanges ==
    ASSUME NEW b \in Buffer, NEW g, NEW c \in Buffer, Closed(g), Anchored(b, g), Accompanied(b, g),
           \A r \in b.inserts : New(r, g), \A o \in unused : New(o, g) /\ o \notin b.inserts,
           unused \subseteq Object, Changes(b, g, c)
    PROVE  Accompanied(c, g)
<1>1. ASSUME NEW K \in SUBSET (Attribute \cup Has), Adds(b, c, K) PROVE Accompanied(c, g)
  <2>1. View(c, g) = View(b, g) \cup K
    BY <1>1, ViewOfAdds
  <2>2. K \cap (Links \cup Index \cup Relation) = {} /\ K \cap Object = {}
    BY Zenon, KeyFacts
  <2>3. c.inserts = b.inserts /\ \A k \in Links \cup Index : k \in c.puts <=> k \in b.puts
    BY Zenon, <1>1, <2>2 DEF Adds
  <2>4. \A k \in Links \cup Index \cup Relation : k \in View(c, g) <=> k \in View(b, g)
    BY Zenon, <2>1, <2>2
  <2> QED
    BY Zenon, <2>3, <2>4, AccompaniedSame
<1>2. ASSUME NEW P \in SUBSET (Attribute \cup Has), Drops(b, g, c, P) PROVE Accompanied(c, g)
  <2>1. View(c, g) = View(b, g) \ P
    BY <1>2, ViewOfDrops
  <2>2. P \cap (Links \cup Index \cup Relation) = {} /\ P \cap Object = {} /\ b.inserts \subseteq Object
    BY Zenon, KeyFacts DEF Buffer
  <2>3. c.inserts = b.inserts /\ \A k \in Links \cup Index : k \in c.puts <=> k \in b.puts
    BY Zenon, <1>2, <2>2 DEF Drops
  <2>4. \A k \in Links \cup Index \cup Relation : k \in View(c, g) <=> k \in View(b, g)
    BY Zenon, <2>1, <2>2
  <2> QED
    BY Zenon, <2>3, <2>4, AccompaniedSame
<1>3. ASSUME NEW o \in unused, Adds(b, c, {o}) PROVE Accompanied(c, g)
    BY Zenon, <1>3, AccompaniedObject
<1>4. ASSUME NEW a \in Attribute \cup Has, Adds(b, c, {a}) PROVE Accompanied(c, g)
  <2> DEFINE K == {a}
  <2>1. K \in SUBSET (Attribute \cup Has)
    BY Zenon
  <2> QED
    BY Zenon, <1>1, <1>4, <2>1
<1>5. ASSUME NEW l \in Links, l.from \in View(b, g), Adds(b, c, {l} \cup IndexWith(l, View(b, g)))
      PROVE  Accompanied(c, g)
    BY Zenon, <1>5, AccompaniedPlayer
<1>6. Added(b, g, c) => Accompanied(c, g)
    BY Zenon, <1>3, <1>4, <1>5 DEF Added
<1>7. Removed(b, g, c) => Accompanied(c, g)
    BY Zenon, <1>2, AccompaniedRemoval DEF Removed
<1> QED
    BY Zenon, <1>6, <1>7 DEF Changes

\* The relations that an index mentions are in that graph or were in one before it.
KnownIndex ==
    \A n \in 1..Len(graphs) : \A i \in graphs[n] \cap Index : \A l \in i.links :
        \E m \in 1..n : l.from \in graphs[m]

IndexFine ==
    \A n \in 1..Len(graphs) : \A r \in graphs[n] \cap Relation :
        IndexRight(r, graphs[n]) \/ Raced(LinksOf(r))

IndexInv ==
    (\A t \in Txn : Accompanied(buffer[t], Snapshot(t))) /\ KnownIndex /\ IndexFine

\* The places of the snapshots and of the last graph
LEMMA Places ==
    ASSUME GraphInv, NEW t \in Txn
    PROVE  /\ open[t] + 1 \in 1..Len(graphs) /\ Len(graphs) \in 1..Len(graphs)
           /\ \A n \in 1..Len(graphs) : \A m \in 1..n : m \in 1..Len(graphs)
           /\ \A m \in 1..(open[t] + 1) : \A i \in (open[t] + 1)..Len(commits) : m \in 1..i /\ i \in 1..Len(commits)
           /\ Closed(Graph)
<1>1. Len(commits) \in Nat /\ Len(graphs) = Len(commits) + 1 /\ open[t] \in 0..Len(commits)
    BY DEF GraphInv, Types
<1>2. Len(graphs) \in 1..Len(graphs)
    BY <1>1
<1>3. Closed(Graph)
    BY Zenon, <1>2 DEF GraphInv, Graph
<1> QED
    BY <1>1, <1>3

\* What no graph of the history holds is new to all of them.
LEMMA NewToHistory ==
    ASSUME GraphInv, KnownIndex, NEW t \in Txn, NEW o, \A m \in 1..Len(graphs) : o \notin graphs[m]
    PROVE  \A n \in 1..Len(graphs) : New(o, graphs[n])
<1> SUFFICES ASSUME NEW n \in 1..Len(graphs), NEW i \in EntriesOf(o), i \in graphs[n]
             PROVE  FALSE
    BY Zenon DEF New
<1>1. PICK l \in i.links : l.from = o
    BY Zenon DEF EntriesOf
<1>2. \E m \in 1..n : l.from \in graphs[m]
    BY Zenon, EntryFacts DEF KnownIndex
<1> QED
    BY Zenon, <1>1, <1>2, Places

\* What a transaction creates, or may create, is new to every graph.
LEMMA CreatesNew ==
    ASSUME GraphInv, KnownIndex, NEW t \in Txn, NEW o \in unused \cup buffer[t].inserts
    PROVE  New(o, Snapshot(t)) /\ New(o, Graph)
<1>1. \A m \in 1..Len(graphs) : o \notin graphs[m]
    BY Zenon DEF GraphInv, Fresh
<1>2. \A n \in 1..Len(graphs) : New(o, graphs[n])
    BY Zenon, <1>1, NewToHistory
<1> QED
    BY Zenon, <1>2, Places DEF Snapshot, Graph

\* A commit leaves the index of a relation right, unless one it has not seen changed its
\* players too.
LEMMA IndexCommits ==
    ASSUME GraphInv, NEW t \in Txn, Commits(t), IndexInv, NEW r \in Graph' \cap Relation
    PROVE  IndexRight(r, Graph') \/ Raced(LinksOf(r))'
<1> DEFINE f == Finalised(t)
           g == Snapshot(t)
           v == View(f, g)
           U == (open[t] + 1)..Len(commits)
           Wrote(x) == (x.puts \cup x.deletes) \cap LinksOf(r) # {}
<1> SUFFICES ASSUME ~ Raced(LinksOf(r))' PROVE IndexRight(r, Graph')
    BY Zenon
<1>1. ~ Raced(LinksOf(r))
    BY Zenon, RacedKept
<1>2. f \in Final /\ Graph' = After(f, Graph) /\ Anchored(f, g) /\ Closed(g) /\ Closed(Graph)
    BY Zenon, Committing, SnapshotFacts, Places
<1>3. /\ f.inserts = buffer[t].inserts
      /\ \A k : k \notin Attribute => (k \in f.puts <=> k \in buffer[t].puts)
      /\ \A k : k \notin Attribute => (k \in v <=> k \in View(buffer[t], g))
    BY Zenon, FinalisedEffect
<1>4. Accompanied(f, g)
  <2>1. \A k \in Links \cup Index \cup Relation : k \notin Attribute
    BY Zenon, KeyFacts
  <2>2. Accompanied(buffer[t], g)
    BY Zenon DEF IndexInv
  <2> HIDE DEF f, g
  <2> QED
    BY Zenon, <1>3, <2>1, <2>2, AccompaniedSame
<1>5. Wrote(f) => \A i \in U : ~ Wrote(commits[i].buffer)
    BY Zenon, RacedNow
<1>6. r \in g => IndexRight(r, g)
    BY Zenon, <1>1, Places DEF IndexInv, IndexFine, Snapshot
<1>7. r \in Graph => IndexRight(r, Graph)
    BY Zenon, <1>1, Places DEF IndexInv, IndexFine, Graph
<1>8. r \in f.inserts => New(r, g) /\ New(r, Graph) /\ IndexRight(r, g) /\ IndexRight(r, Graph)
  <2> SUFFICES ASSUME r \in f.inserts
               PROVE  New(r, g) /\ New(r, Graph) /\ IndexRight(r, g) /\ IndexRight(r, Graph)
    BY Zenon
  <2>1. New(r, g) /\ New(r, Graph)
    BY Zenon, <1>3, CreatesNew DEF IndexInv
  <2> HIDE DEF g
  <2> QED
    BY <2>1, <1>2, RightIfNew DEF New
<1>9. \A k \in LinksOf(r) \cup EntriesOf(r) :
         /\ k \notin Object
         /\ k \in Graph' <=> (k \in Graph \/ k \in f.puts) /\ k \notin f.deletes
         /\ k \in v <=> (k \in g \/ k \in f.puts) /\ k \notin f.deletes
  <2>1. \A k \in LinksOf(r) \cup EntriesOf(r) : k \notin Object
    BY Zenon, EntryFacts, KeyFacts
  <2>2. \A k \in LinksOf(r) \cup EntriesOf(r) : k \notin f.inserts /\ (k \in f.puts => k \notin f.deletes)
    BY Zenon, <1>2, <2>1 DEF Final, Anchored
  <2> QED
    BY Zenon, <1>2, <2>1, <2>2 DEF After, View
<1>10. r \notin f.puts /\ r \notin f.deletes /\ (r \in Graph \/ r \in f.inserts)
  <2>1. r \notin f.puts
    BY Zenon, <1>2, KeyFacts DEF Final
  <2> QED
    BY Zenon, <1>2, <2>1 DEF After
<1>11. \A k \in LinksOf(r) : k \in Edge /\ k.from = r
    BY Zenon, KeyFacts DEF LinksOf
<1>12. IndexRight(r, Graph)
    BY Zenon, <1>7, <1>8, <1>10
<1> HIDE DEF f, g, U
<1>13. CASE Wrote(f)
  <2>1. \A k \in LinksOf(r) : k \in Graph <=> k \in g
    <3>1. \A k \in LinksOf(r) : \A i \in U : k \notin commits[i].buffer.puts \cup commits[i].buffer.deletes
      BY Zenon, <1>5, <1>13
    <3> QED
      BY Zenon, <3>1, <1>9, SameUnlessWritten DEF g, U
  <2>2. r \in g \/ r \in f.inserts
    <3>1. PICK k \in LinksOf(r) : k \in f.puts \/ k \in f.deletes
      BY Zenon, <1>13
    <3>0. k \in Edge /\ k.from = r
      BY Zenon, <1>11
    <3>2. CASE k \in f.puts
      <4>1. k.from \in View(f, g)
        BY Zenon, <3>0, <3>2, <1>2 DEF Anchored
      <4> QED
        BY Zenon, <3>0, <4>1, <1>10 DEF View
    <3>3. CASE k \in f.deletes
      <4>1. k \in g
        BY Zenon, <3>3, <1>2 DEF Anchored
      <4>2. k.from \in g
        BY Zenon, <4>1, <3>0, <1>2 DEF Closed
      <4> QED
        BY Zenon, <3>0, <4>2
    <3> QED
      BY Zenon, <3>1, <3>2, <3>3
  <2>3. IndexRight(r, g) /\ r \in v
    BY Zenon, <2>2, <1>6, <1>8, <1>10 DEF View
  <2>4. IndexRight(r, v)
    BY Zenon, <2>3, <1>4 DEF Accompanied
  <2>5. \A i \in EntriesOf(r) : i \in Graph <=> i \in g
    <3> SUFFICES ASSUME NEW i \in EntriesOf(r) PROVE i \in Graph <=> i \in g
      BY Zenon
    <3>1. i \in Pair(r) => i.links \subseteq LinksOf(r)
      BY PairFacts
    <3>2. i \in Pair(r) => (i.links \subseteq Graph <=> i.links \subseteq g)
      BY Zenon, <3>1, <2>1
    <3> QED
      BY Zenon, <3>2, <2>3, <1>12 DEF IndexRight
  <2>6. \A k \in LinksOf(r) \cup EntriesOf(r) : k \in v <=> k \in Graph'
    BY Zenon, <2>1, <2>5, <1>9
  <2> HIDE DEF v
  <2> QED
    BY <2>4, <2>6, RightSame
<1>14. CASE ~ Wrote(f)
  <2>1. \A k \in LinksOf(r) : k \notin f.puts /\ k \notin f.deletes
    BY Zenon, <1>14
  <2>2. \A i \in EntriesOf(r) : i \notin f.puts /\ i \notin f.deletes
    <3>1. CASE r \in g \/ r \in f.inserts
      <4>1. IndexRight(r, g) /\ r \in v
        BY Zenon, <3>1, <1>6, <1>8, <1>10 DEF View
      <4>2. IndexRight(r, v) /\ \A i \in f.puts \cap EntriesOf(r) : i.links \cap f.puts # {}
        BY Zenon, <4>1, <1>4 DEF Accompanied
      <4>3. ASSUME NEW i \in EntriesOf(r), i \in Pair(r) PROVE i.links \subseteq LinksOf(r)
        BY <4>3, PairFacts
      <4>4. ASSUME NEW i \in EntriesOf(r), i \in f.puts PROVE FALSE
        <5>1. i \in v
          BY Zenon, <4>4 DEF View
        <5>2. i \in Pair(r)
          BY Zenon, <5>1, <4>2 DEF IndexRight
        <5> QED
          BY Zenon, <5>2, <4>2, <4>3, <4>4, <2>1
      <4>5. ASSUME NEW i \in EntriesOf(r), i \in f.deletes PROVE FALSE
        <5>1. i \in g /\ i \notin v
          BY Zenon, <4>5, <1>2, <1>9 DEF Anchored
        <5>2. i \in Pair(r) /\ i.links \subseteq g
          BY Zenon, <5>1, <4>1 DEF IndexRight
        <5>3. i.links \subseteq v
          BY Zenon, <5>2, <4>3, <2>1, <1>9
        <5> QED
          BY Zenon, <5>1, <5>2, <5>3, <4>2 DEF IndexRight
      <4> QED
        BY Zenon, <4>4, <4>5
    <3>2. CASE r \notin g /\ r \notin f.inserts
      <4>1. ASSUME NEW i \in EntriesOf(r), i \in f.puts PROVE FALSE
        <5>1. PICK l \in i.links : l.from = r
          BY Zenon DEF EntriesOf
        <5> QED
          BY Zenon, <5>1, <4>1, <3>2, <1>4, EntryFacts DEF Accompanied
      <4>2. ASSUME NEW i \in EntriesOf(r), i \in f.deletes PROVE FALSE
        <5>1. PICK l \in i.links : l.from = r
          BY Zenon DEF EntriesOf
        <5>2. i \in g
          BY Zenon, <4>2, <1>2 DEF Anchored
        <5>3. PICK m \in 1..(open[t] + 1) : r \in graphs[m]
          BY Zenon, <5>1, <5>2, Places, EntryFacts DEF IndexInv, KnownIndex, g, Snapshot
        <5>4. r \in Graph
          BY Zenon, <3>2, <1>10
        <5>5. PICK i2 \in (open[t] + 1)..Len(commits) :
                 r \in commits[i2].buffer.puts \cup commits[i2].buffer.inserts
          BY Zenon, <5>4, <3>2 DEF GraphInv, Types, History, g, Snapshot
        <5>6. m \in 1..i2 /\ i2 \in 1..Len(commits)
          BY Zenon, Places
        <5>7. r \notin commits[i2].buffer.puts
          <6>1. commits[i2].buffer \in Final
            BY Zenon, <5>6, Committing
          <6> QED
            BY Zenon, <6>1, KeyFacts DEF Final
        <5> QED
          BY Zenon, <5>3, <5>5, <5>6, <5>7 DEF GraphInv, Fresh
      <4> QED
        BY Zenon, <4>1, <4>2
    <3> QED
      BY Zenon, <3>1, <3>2
  <2>3. \A k \in LinksOf(r) \cup EntriesOf(r) : k \in Graph <=> k \in Graph'
    BY Zenon, <2>1, <2>2, <1>9
  <2> QED
    BY <2>3, <1>12, RightSame
<1> QED
    BY Zenon, <1>13, <1>14

-----------------------------------------------------------------------------
\* The index of a loaded database is complete.
LEMMA IndexInit == Init => IndexInv
<1> SUFFICES ASSUME Init PROVE IndexInv
    BY Zenon
<1>1. PICK g \in Start : graphs = <<g>>
    BY Zenon DEF Init
<1>2. \A k \in g \cap Edge : {k.from, k.to} \subseteq g
    BY Zenon, StartAssumption
<1>3. g \cap Index = UNION {IndexWith(l, g) : l \in g \cap Links}
    BY Zenon, StartAssumption
<1>4. \A i \in g \cap Index : \E l \in g \cap Links : i \in Pair(l.from) /\ i.links \subseteq g
  <2> SUFFICES ASSUME NEW i \in g \cap Index
               PROVE  \E l \in g \cap Links : i \in Pair(l.from) /\ i.links \subseteq g
    BY Zenon
  <2>1. PICK l \in g \cap Links : i \in IndexWith(l, g)
    BY Zenon, <1>3
  <2>2. i \in Pair(l.from) /\ i.links \subseteq g \cup {l}
    BY <2>1, IndexWithIs
  <2> QED
    BY Zenon, <2>1, <2>2
<1>5. \A n \in 1..Len(graphs) : n = 1 /\ graphs[n] = g /\ n \in 1..n
    BY <1>1
<1>6. KnownIndex
  <2>1. \A i \in g \cap Index : \A l \in i.links : l.from \in g
    <3> SUFFICES ASSUME NEW i \in g \cap Index, NEW l \in i.links PROVE l.from \in g
      BY Zenon
    <3>1. l \in g
      BY Zenon, <1>4
    <3>2. l \in g \cap Edge
      BY Zenon, <3>1, EntryFacts, KeyFacts
    <3> QED
      BY Zenon, <3>2, <1>2
  <2>2. ASSUME NEW n \in 1..Len(graphs), NEW i \in graphs[n] \cap Index, NEW l \in i.links
        PROVE  \E m \in 1..n : l.from \in graphs[m]
    <3>1. n \in 1..n /\ graphs[n] = g
      BY Zenon, <1>5
    <3>2. l.from \in graphs[n]
      BY <3>1, <2>1
    <3> QED
      BY Zenon, <3>1, <3>2
  <2> QED
    BY Zenon, <2>2 DEF KnownIndex
<1>7. ASSUME NEW r PROVE IndexRight(r, g)
  <2> SUFFICES ASSUME NEW i \in EntriesOf(r) PROVE i \in g <=> i \in Pair(r) /\ i.links \subseteq g
    BY Zenon DEF IndexRight
  <2>1. ASSUME i \in g PROVE i \in Pair(r) /\ i.links \subseteq g
    <3>1. PICK l \in g \cap Links : i \in Pair(l.from) /\ i.links \subseteq g
      BY Zenon, <2>1, <1>4, EntryFacts
    <3>2. r = l.from
      BY <3>1, PairFacts
    <3> QED
      BY Zenon, <3>1, <3>2
  <2>2. ASSUME i \in Pair(r), i.links \subseteq g PROVE i \in g
    <3>1. PICK l \in LinksOf(r) : l \in i.links
      BY <2>2, PairFacts
    <3>2. l \in g \cap Links /\ l.from = r /\ i.links \subseteq g \cup {l}
      BY Zenon, <2>2, <3>1 DEF LinksOf
    <3>3. i \in IndexWith(l, g)
      BY <2>2, <3>1, <3>2, IndexWithIs
    <3> QED
      BY Zenon, <3>2, <3>3, <1>3
  <2> QED
    BY Zenon, <2>1, <2>2
<1>8. IndexFine
    BY Zenon, <1>5, <1>7 DEF IndexFine
<1>9. ASSUME NEW t \in Txn PROVE Accompanied(buffer[t], Snapshot(t))
  <2>1. buffer[t] = EmptyBuffer
    BY Zenon DEF Init
  <2>2. EmptyBuffer.inserts = {} /\ EmptyBuffer.puts = {} /\ EmptyBuffer.deletes = {}
    BY Zenon DEF EmptyBuffer
  <2>3. \A h : View(EmptyBuffer, h) = h
    BY Zenon, <2>2 DEF View
  <2> QED
    BY Zenon, <2>1, <2>2, <2>3 DEF Accompanied
<1> QED
    BY Zenon, <1>6, <1>8, <1>9 DEF IndexInv

\* The keys that a commit adds to the index mention what it saw or created.
LEMMA KnownCommits ==
    ASSUME GraphInv, NEW t \in Txn, Commits(t), IndexInv
    PROVE  KnownIndex'
<1> DEFINE f == Finalised(t)
           g == Snapshot(t)
           n == Len(graphs)
<1>1. /\ f \in Final /\ Graph' = After(f, Graph) /\ Anchored(f, g)
      /\ n \in Nat /\ Len(graphs') = n + 1 /\ \A i \in 1..n : graphs'[i] = graphs[i]
  <2>1. /\ Len(commits) \in Nat /\ Len(graphs) = Len(commits) + 1 /\ Len(graphs') = Len(commits) + 2
        /\ \A i \in 1..(Len(commits) + 1) : graphs'[i] = graphs[i]
        /\ f \in Final /\ Graph' = After(f, Graph) /\ Anchored(f, g)
    BY Zenon, Committing
  <2> HIDE DEF f, g
  <2> QED
    BY <2>1
<1>2. /\ f.inserts = buffer[t].inserts
      /\ \A k : k \notin Attribute => (k \in f.puts <=> k \in buffer[t].puts)
    BY Zenon, FinalisedEffect
<1>3. ASSUME NEW i \in f.puts \cap Index, NEW l \in i.links PROVE l.from \in g \cup f.inserts
    BY Zenon, <1>2, KeyFacts DEF IndexInv, Accompanied
<1>4. Graph' = graphs'[n + 1]
    BY Zenon, <1>1 DEF Graph
<1>5. /\ \A m \in 1..(n + 1) : m = n + 1 \/ m \in 1..n
      /\ \A m \in 1..n : m \in 1..(n + 1) /\ \A j \in 1..m : j \in 1..n
      /\ n + 1 \in 1..(n + 1) /\ open[t] + 1 \in 1..n
  <2>1. open[t] + 1 \in 1..n
    BY Zenon, Places
  <2> HIDE DEF n
  <2> QED
    BY <1>1, <2>1
<1>6. ASSUME NEW i \in Graph' \cap Index, NEW l \in i.links
      PROVE  \E m \in 1..(n + 1) : l.from \in graphs'[m]
  <2>1. i \in Graph \/ i \in f.puts
    BY Zenon, <1>1, KeyFacts DEF After, Final
  <2>2. CASE i \in Graph
    <3>1. \E m \in 1..n : l.from \in graphs[m]
      BY Zenon, <2>2, Places DEF IndexInv, KnownIndex, Graph
    <3> QED
      BY Zenon, <3>1, <1>1, <1>5
  <2>3. CASE i \in f.puts /\ l.from \in g
    BY Zenon, <2>3, <1>1, <1>5 DEF Snapshot
  <2>4. CASE i \in f.puts /\ l.from \in f.inserts
    <3>1. l.from \in Graph'
      BY Zenon, <2>4, <1>1 DEF After, Anchored
    <3> QED
      BY Zenon, <3>1, <1>4, <1>5
  <2> QED
    BY Zenon, <1>3, <2>1, <2>2, <2>3, <2>4
<1> HIDE DEF f, g, n
<1>7. ASSUME NEW s \in 1..(n + 1), NEW i \in graphs'[s] \cap Index, NEW l \in i.links
      PROVE  \E m \in 1..s : l.from \in graphs'[m]
  <2>1. CASE s = n + 1
    BY Zenon, <2>1, <1>4, <1>6
  <2>2. CASE s \in 1..n
    <3>1. \E m \in 1..s : l.from \in graphs[m]
      BY Zenon, <2>2, <1>1 DEF IndexInv, KnownIndex, n
    <3> QED
      BY Zenon, <3>1, <2>2, <1>1, <1>5
  <2> QED
    BY Zenon, <2>1, <2>2, <1>5
<1> QED
    BY Zenon, <1>1, <1>7 DEF KnownIndex

\* A commit leaves every relation's index complete, unless two commits raced for its players.
LEMMA FineCommits ==
    ASSUME GraphInv, NEW t \in Txn, Commits(t), IndexInv
    PROVE  IndexFine'
<1>1. Len(graphs) \in Nat /\ Len(graphs') = Len(graphs) + 1 /\ \A i \in 1..Len(graphs) : graphs'[i] = graphs[i]
  <2>1. /\ Len(commits) \in Nat /\ Len(graphs) = Len(commits) + 1 /\ Len(graphs') = Len(commits) + 2
        /\ \A i \in 1..(Len(commits) + 1) : graphs'[i] = graphs[i]
    BY Zenon, Committing
  <2> QED
    BY <2>1
<1>2. ASSUME NEW s \in 1..Len(graphs'), NEW r \in graphs'[s] \cap Relation
      PROVE  IndexRight(r, graphs'[s]) \/ Raced(LinksOf(r))'
  <2>1. CASE s = Len(graphs')
    <3>1. graphs'[s] = Graph'
      BY Zenon, <2>1 DEF Graph
    <3> QED
      BY Zenon, <3>1, IndexCommits
  <2>2. CASE s \in 1..Len(graphs)
    <3>1. graphs'[s] = graphs[s]
      BY Zenon, <2>2, <1>1
    <3>2. IndexRight(r, graphs[s]) \/ Raced(LinksOf(r))
      BY Zenon, <2>2, <3>1 DEF IndexInv, IndexFine
    <3> QED
      BY Zenon, <3>1, <3>2, RacedKept
  <2>3. s = Len(graphs') \/ s \in 1..Len(graphs)
    BY <1>1
  <2> QED
    BY Zenon, <2>1, <2>2, <2>3
<1> QED
    BY Zenon, <1>2 DEF IndexFine

\* The index of a relation holds exactly the pairs of its players, unless two concurrent
\* transactions changed the players: add_player, remove_player and the deletions keep the
\* index to the players that they see, for every schema and any number of transactions.
THEOREM IndexRegenerated == Spec => []IndexUnlessRaced
<1>1. GraphInv /\ GraphInv' /\ IndexInv /\ [Next]_vars => IndexInv'
  <2> SUFFICES ASSUME GraphInv, GraphInv', IndexInv, [Next]_vars PROVE IndexInv'
    BY Zenon
  <2>1. ASSUME UNCHANGED <<graphs, commits>> PROVE KnownIndex' /\ IndexFine'
    <3>1. KnownIndex'
      BY Zenon, <2>1 DEF IndexInv, KnownIndex
    <3>2. IndexFine'
      BY Zenon, <2>1, GraphSame DEF IndexInv, IndexFine
    <3> QED
      BY Zenon, <3>1, <3>2
  <2>2. CASE UNCHANGED vars
    <3>1. UNCHANGED <<graphs, commits>> /\ buffer' = buffer /\ \A u \in Txn : Snapshot(u)' = Snapshot(u)
      BY Zenon, <2>2 DEF vars, Snapshot
    <3> QED
      BY Zenon, <3>1, <2>1 DEF IndexInv
  <2>3. CASE Next
    <3>1. PICK t \in Txn : Moves(t)
      BY Zenon, <2>3, NextMoves
    <3>2. Accompanied(buffer'[t], Snapshot(t)')
      <4>1. CASE buffer'[t] = EmptyBuffer
        <5>1. EmptyBuffer.inserts = {} /\ EmptyBuffer.puts = {} /\ EmptyBuffer.deletes = {}
          BY Zenon DEF EmptyBuffer
        <5>2. \A h : View(EmptyBuffer, h) = h
          BY Zenon, <5>1 DEF View
        <5> QED
          BY Zenon, <4>1, <5>1, <5>2 DEF Accompanied
      <4>2. CASE open'[t] = open[t] /\ Changes(buffer[t], Snapshot(t), buffer'[t])
        <5>1. Snapshot(t)' = Snapshot(t)
          BY Zenon, <3>1, <4>2, SnapshotKept
        <5>2. \A o \in unused \cup buffer[t].inserts : New(o, Snapshot(t))
          BY Zenon, CreatesNew DEF IndexInv
        <5>3. unused \subseteq Object /\ \A o \in unused : o \notin buffer[t].inserts
          BY Zenon DEF GraphInv, Types, Fresh
        <5>4. buffer[t] \in Buffer /\ buffer'[t] \in Buffer
          BY Zenon, <3>1, BuffersAre
        <5>5. Closed(Snapshot(t)) /\ Anchored(buffer[t], Snapshot(t)) /\ Accompanied(buffer[t], Snapshot(t))
          BY Zenon, SnapshotFacts DEF IndexInv
        <5>6. Accompanied(buffer'[t], Snapshot(t))
          BY Zenon, <4>2, <5>2, <5>3, <5>4, <5>5, AccompaniedChanges
        <5> QED
          BY Zenon, <5>1, <5>6
      <4> QED
        BY Zenon, <3>1, <4>1, <4>2 DEF Moves
    <3>3. ASSUME NEW u \in Txn, u # t PROVE Accompanied(buffer'[u], Snapshot(u)')
      <4>1. buffer'[u] = buffer[u] /\ open'[u] = open[u]
        BY Zenon, <3>1, <3>3 DEF Moves
      <4>2. Snapshot(u)' = Snapshot(u)
        BY Zenon, <3>1, <4>1, SnapshotKept
      <4> QED
        BY Zenon, <4>1, <4>2 DEF IndexInv
    <3>4. KnownIndex' /\ IndexFine'
      BY Zenon, <3>1, <2>1, KnownCommits, FineCommits DEF Moves
    <3> QED
      BY Zenon, <3>2, <3>3, <3>4 DEF IndexInv
  <2> QED
    BY Zenon, <2>2, <2>3
<1>2. GraphInv /\ IndexInv => IndexUnlessRaced
  <2> SUFFICES ASSUME GraphInv, IndexInv, NEW r \in Graph \cap Relation
               PROVE  \/ {i \in Graph \cap Index : \E l \in i.links : l.from = r}
                            = UNION {IndexWith(l, Graph) : l \in PlayersOf(r, Graph)}
                      \/ Raced({l \in Links : l.from = r})
    BY Zenon DEF IndexUnlessRaced
  <2>1. Len(graphs) \in 1..Len(graphs)
    BY DEF GraphInv, Types
  <2>2. IndexRight(r, Graph) \/ Raced(LinksOf(r))
    BY Zenon, <2>1 DEF IndexInv, IndexFine, Graph
  <2> QED
    BY Zenon, <2>2, IndexRightIs DEF LinksOf
<1> QED
    BY <1>1, <1>2, IndexInit, InitGraphInv, NextKeeps, PTL DEF Spec

-----------------------------------------------------------------------------
(* Cardinalities.                                                            *)

Writes(b, K) == (b.puts \cup b.deletes) \cap K # {}

\* The edges that a cardinality counts
Owns(o) == {h \in Has : h.from = o}
Plays(o, role) == {l \in Links : l.to = o /\ l.role = role}
Relates(r, role) == {l \in Links : l.from = r /\ l.role = role}

CountsWithin(E, g) ==
    /\ \A o \in g \cap Owner : InCard(Cardinality(Owns(o) \cap g), OwnsCard)
    /\ \A o \in g \cap Player, role \in Role : InCard(Cardinality(Plays(o, role) \cap g), PlaysCard)
    /\ \A r \in g \cap Relation, role \in Role : InCard(Cardinality(Relates(r, role) \cap g), RelatesBound(E, r))

\* What a cardinality counts is the edges of one object, in one role, that the graph has.
LEMMA CountedEdges ==
    ASSUME NEW g, NEW o, NEW role
    PROVE  /\ HasOf(o, g) = Owns(o) \cap g
           /\ {l \in PlayedBy(o, g) : l.role = role} = Plays(o, role) \cap g
           /\ {l \in PlayersOf(o, g) : l.role = role} = Relates(o, role) \cap g
BY Zenon DEF HasOf, PlayedBy, PlayersOf, Owns, Plays, Relates

\* To be within the cardinalities is to have these counts within bounds.
LEMMA WithinIs == \A E, g : WithinBut(E, g) <=> CountsWithin(E, g)
<1> SUFFICES ASSUME NEW E, NEW g PROVE WithinBut(E, g) <=> CountsWithin(E, g)
    BY Zenon
<1>1. \A o, role : /\ OwnsWithin(o, g) <=> InCard(Cardinality(Owns(o) \cap g), OwnsCard)
                   /\ PlaysWithin(o, role, g) <=> InCard(Cardinality(Plays(o, role) \cap g), PlaysCard)
    BY CountedEdges DEF OwnsWithin, PlaysWithin
<1>2. \A o, role : {l \in PlayersOf(o, g) : l.role = role} = Relates(o, role) \cap g
    BY CountedEdges
<1>3. \A o, role : InCard(Cardinality({l \in PlayersOf(o, g) : l.role = role}), RelatesBound(E, o))
                   <=> InCard(Cardinality(Relates(o, role) \cap g), RelatesBound(E, o))
    BY <1>2
<1> QED
    BY Zenon, <1>1, <1>3 DEF WithinBut, CountsWithin

\* The counts are numbers: a graph has finitely many edges.
LEMMA Counts ==
    ASSUME NEW g, NEW o, NEW role
    PROVE  /\ Cardinality(Owns(o) \cap g) \in Nat /\ Cardinality(Plays(o, role) \cap g) \in Nat
           /\ Cardinality(Relates(o, role) \cap g) \in Nat
<1>1. ASSUME NEW S, IsFiniteSet(S), NEW T \in SUBSET S PROVE Cardinality(T) \in Nat
    BY <1>1, FS_Subset, FS_CardinalityType
<1>2. Owns(o) \cap g \in SUBSET Has /\ Plays(o, role) \cap g \in SUBSET Links /\ Relates(o, role) \cap g \in SUBSET Links
    BY Zenon DEF Owns, Plays, Relates
<1> QED
    BY Zenon, <1>1, <1>2, CardinalityAssumption

\* A cardinality that is not checked holds whatever the count.
LEMMA Unchecked ==
    ASSUME NEW card, ~Checked(card), NEW n \in Nat
    PROVE  InCard(n, card)
BY DEF Checked, InCard

\* What is asked of a relation that is spared its minimum, and of one that is not.
LEMMA BoundFacts ==
    ASSUME NEW E, NEW r \in Relation
    PROVE  /\ RelatesBound(E, r).min \in Nat /\ RelatesBound(E, r).min <= RelatesCard[r].min
           /\ RelatesBound(E, r).max = RelatesCard[r].max /\ RelatesCard[r].max \in Nat \cup {NoMax}
           /\ RelatesCard[r].min \in Nat
           /\ r \in E => RelatesBound(E, r).min = 0
           /\ r \notin E => RelatesBound(E, r) = RelatesCard[r]
           /\ ~Checked(RelatesCard[r]) => ~Checked(RelatesBound(E, r))
<1>1. RelatesCard[r] \in [min : Nat, max : Nat \cup {NoMax}]
    BY CardinalityAssumption
<1>2. CASE r \in E
    BY <1>1, <1>2 DEF RelatesBound, Checked
<1>3. CASE r \notin E
    BY <1>1, <1>3 DEF RelatesBound, Checked
<1> QED
    BY Zenon, <1>2, <1>3

\* A count within a relation's cardinality is within what is asked of it when it is spared.
LEMMA SparedMore ==
    ASSUME NEW E, NEW F, E \subseteq F, NEW r \in Relation, NEW n \in Nat
    PROVE  /\ InCard(n, RelatesBound(E, r)) => InCard(n, RelatesBound(F, r))
           /\ InCard(n, RelatesCard[r]) => InCard(n, RelatesBound(F, r))
<1>1. CASE r \in F
    BY <1>1, BoundFacts DEF InCard
<1>2. CASE r \notin F
    BY Zenon, <1>2, BoundFacts
<1> QED
    BY Zenon, <1>1, <1>2

\* To spare more relations their minimum asks less.
LEMMA WithinMore ==
    ASSUME NEW E, NEW F, E \subseteq F, NEW g, WithinBut(E, g)
    PROVE  WithinBut(F, g)
<1>1. CountsWithin(E, g)
    BY Zenon, WithinIs
<1>2. ASSUME NEW r \in g \cap Relation, NEW role \in Role
      PROVE  InCard(Cardinality(Relates(r, role) \cap g), RelatesBound(F, r))
  <2>1. InCard(Cardinality(Relates(r, role) \cap g), RelatesBound(E, r))
    BY Zenon, <1>1 DEF CountsWithin
  <2> QED
    BY Zenon, <2>1, Counts, SparedMore
<1>3. CountsWithin(F, g)
    BY Zenon, <1>1, <1>2 DEF CountsWithin
<1> QED
    BY Zenon, <1>3, WithinIs

\* What is counted at o was not written since the snapshot, or only by this commit.
LEMMA CountKept ==
    ASSUME GraphInv, NEW t \in Txn, Commits(t), NEW o \in Graph' \cap Object,
           NEW K \in SUBSET Edge, \A k \in K : k.from = o \/ k.to = o,
           NEW x, \A b : Writes(b, K) => x \in CommitLocks(b),
           \A i \in 1..Len(commits) : commits[i].buffer.exclusive = CommitLocks(commits[i].buffer)
    PROVE  LET v == View(Finalised(t), Snapshot(t))
           IN  \/ o \in v /\ K \cap Graph' = K \cap v
               \/ o \in Graph /\ K \cap Graph' = K \cap Graph
<1> DEFINE f == Finalised(t)
           g == Snapshot(t)
           v == View(f, g)
           U == (open[t] + 1)..Len(commits)
<1>1. /\ f \in Final /\ Graph' = After(f, Graph) /\ Anchored(f, g) /\ Closed(g) /\ Closed(Graph)
      /\ \A i \in U : ~Conflicts(f, commits[i].buffer) /\ i \in 1..Len(commits)
  <2>1. \A i \in U : i \in 1..Len(commits)
    BY DEF GraphInv, Types
  <2> QED
    BY Zenon, <2>1, Committing, SnapshotFacts, Places
<1>2. f.exclusive = CommitLocks(f)
    BY Zenon, FinalisedEffect
<1>3. \A k \in K : k \notin Object
    BY Zenon, KeyFacts
<1>4. \A k \in K : k \in Graph' <=> (k \in Graph \/ k \in f.puts) /\ k \notin f.deletes
    BY Zenon, <1>3, CommittedAsSeen
<1>5. o \notin f.puts /\ o \notin f.deletes /\ (o \in Graph \/ o \in f.inserts)
  <2>1. o \notin f.puts
    BY Zenon, <1>1, KeyFacts DEF Final
  <2> QED
    BY Zenon, <1>1, <2>1 DEF After
<1>6. CASE Writes(f, K)
  <2>1. \A i \in U : x \notin CommitLocks(commits[i].buffer)
    BY Zenon, <1>1, <1>2, <1>6 DEF Conflicts
  <2>2. \A k \in K : \A i \in U : k \notin commits[i].buffer.puts \cup commits[i].buffer.deletes
    BY Zenon, <2>1 DEF Writes
  <2>3. \A k \in K : k \in Graph' <=> k \in v
    BY Zenon, <2>2, <1>3, CommittedAsSeen
  <2>4. PICK k \in K : k \in f.puts \/ k \in f.deletes
    BY Zenon, <1>6 DEF Writes
  <2>5. k \in Edge /\ o \in {k.from, k.to}
    BY Zenon
  <2>6. CASE k \in f.puts
    <3>0. k \in f.puts \cap Edge
      BY Zenon, <2>5, <2>6
    <3>a. k.from \in View(f, g) /\ k.to \in View(f, g)
      <4> HIDE DEF f, g
      <4>1. Anchored(f, g)
        BY Zenon, <1>1
      <4>2. k.from \in View(f, g)
        BY Zenon, <3>0, <4>1 DEF Anchored
      <4>3. k.to \in View(f, g)
        BY Zenon, <3>0, <4>1 DEF Anchored
      <4> QED
        BY Zenon, <4>2, <4>3
    <3>1. o \in v
      BY Zenon, <2>5, <3>a
    <3> QED
      BY Zenon, <3>1, <2>3
  <2>7. CASE k \in f.deletes
    <3>1. k \in g
      BY Zenon, <2>7, <1>1 DEF Anchored
    <3>2. o \in g
      BY Zenon, <3>1, <2>5, <1>1 DEF Closed
    <3>3. o \in v
      BY Zenon, <3>2, <1>5 DEF View
    <3> QED
      BY Zenon, <3>3, <2>3
  <2> QED
    BY Zenon, <2>4, <2>6, <2>7
<1>7. CASE ~ Writes(f, K)
  <2>1. \A k \in K : k \notin f.puts /\ k \notin f.deletes
    BY Zenon, <1>7 DEF Writes
  <2>2. K \cap Graph' = K \cap Graph
    BY Zenon, <2>1, <1>4
  <2>3. CASE o \in Graph
    BY Zenon, <2>2, <2>3
  <2>4. CASE o \notin Graph
    <3>1. o \in f.inserts /\ o \notin g
      BY Zenon, <2>4, <1>1, <1>5 DEF Anchored
    <3>2. ASSUME NEW k \in K PROVE k \notin g /\ k \notin Graph
      <4>1. k \in Edge /\ o \in {k.from, k.to}
        BY Zenon
      <4> QED
        BY Zenon, <4>1, <3>1, <2>4, <1>1 DEF Closed
    <3>3. \A k \in K : k \notin v /\ k \notin Graph'
      <4>1. \A k \in K : k \notin f.inserts
        BY Zenon, <1>1, <1>3 DEF Final
      <4> QED
        BY Zenon, <4>1, <3>2, <2>1, <1>4 DEF View
    <3>4. o \in v
      BY Zenon, <3>1 DEF View
    <3> QED
      BY Zenon, <3>3, <3>4
  <2> QED
    BY Zenon, <2>3, <2>4
<1> QED
    BY Zenon, <1>6, <1>7

\* create_commit_locks: who writes an edge that a checked cardinality counts locks that count.
LEMMA LockOfWritten ==
    ASSUME NEW o, NEW role
    PROVE  /\ Checked(OwnsCard) => \A b : Writes(b, Owns(o)) => <<"owns", o>> \in CommitLocks(b)
           /\ Checked(PlaysCard) => \A b : Writes(b, Plays(o, role)) => <<"plays", o, role>> \in CommitLocks(b)
           /\ Checked(RelatesCard[o]) => \A b : Writes(b, Relates(o, role)) => <<"relates", o, role>> \in CommitLocks(b)
<1>1. ASSUME Checked(OwnsCard), NEW b, Writes(b, Owns(o)) PROVE <<"owns", o>> \in CommitLocks(b)
  <2>1. PICK h \in (b.puts \cup b.deletes) \cap Has : h.from = o
    BY Zenon, <1>1 DEF Writes, Owns
  <2> QED
    BY Zenon, <1>1, <2>1 DEF CommitLocks
<1>2. ASSUME Checked(PlaysCard), NEW b, Writes(b, Plays(o, role)) PROVE <<"plays", o, role>> \in CommitLocks(b)
  <2>1. PICK l \in (b.puts \cup b.deletes) \cap Links : l.to = o /\ l.role = role
    BY Zenon, <1>2 DEF Writes, Plays
  <2> QED
    BY Zenon, <1>2, <2>1 DEF CommitLocks
<1>3. ASSUME Checked(RelatesCard[o]), NEW b, Writes(b, Relates(o, role)) PROVE <<"relates", o, role>> \in CommitLocks(b)
  <2>1. PICK l \in (b.puts \cup b.deletes) \cap Links : l.from = o /\ l.role = role
    BY Zenon, <1>3 DEF Writes, Relates
  <2> QED
    BY Zenon, <1>3, <2>1 DEF CommitLocks
<1> QED
    BY Zenon, <1>1, <1>2, <1>3

\* The commit locks keep the counts of concurrent transactions apart.
LEMMA CommitWithin ==
    ASSUME GraphInv, NEW t \in Txn, Commits(t),
           NEW E, WithinBut(E, Graph), WithinBut(E, Seen(t)),
           \A i \in 1..Len(commits) : commits[i].buffer.exclusive = CommitLocks(commits[i].buffer)
    PROVE  WithinBut(E, Graph')
<1> DEFINE G == Graph
           H == Graph'
           v == View(Finalised(t), Snapshot(t))
<1>1. CountsWithin(E, G)
    BY Zenon, WithinIs
<1>2. CountsWithin(E, v)
  <2> DEFINE w == Seen(t)
  <2>1. \A k : k \notin Attribute => (k \in v <=> k \in w)
    BY Zenon, FinalisedEffect DEF Seen
  <2>2. CountsWithin(E, w)
    BY Zenon, WithinIs
  <2> HIDE DEF v, w
  <2>3. v \cap Owner = w \cap Owner /\ v \cap Player = w \cap Player /\ v \cap Relation = w \cap Relation
    BY Zenon, <2>1, KeyFacts, CardinalityAssumption
  <2>4. \A o, role : /\ Owns(o) \cap v = Owns(o) \cap w
                     /\ Plays(o, role) \cap v = Plays(o, role) \cap w
                     /\ Relates(o, role) \cap v = Relates(o, role) \cap w
    BY Zenon, <2>1, KeyFacts DEF Owns, Plays, Relates
  <2> QED
    BY <2>2, <2>3, <2>4 DEF CountsWithin
<1>3. ASSUME NEW o \in H \cap Object, NEW K \in SUBSET Edge, \A k \in K : k.from = o \/ k.to = o,
             NEW x, \A b : Writes(b, K) => x \in CommitLocks(b)
      PROVE  \/ o \in v /\ K \cap H = K \cap v
             \/ o \in G /\ K \cap H = K \cap G
    BY Zenon, <1>3, CountKept
<1> HIDE DEF G, H, v
<1>4. ASSUME NEW o \in H \cap Owner PROVE InCard(Cardinality(Owns(o) \cap H), OwnsCard)
  <2>1. CASE ~ Checked(OwnsCard)
    BY Zenon, <2>1, Counts, Unchecked
  <2>2. CASE Checked(OwnsCard)
    <3>1. \A b : Writes(b, Owns(o)) => <<"owns", o>> \in CommitLocks(b)
      BY Zenon, <2>2, LockOfWritten
    <3>2. o \in H \cap Object /\ Owns(o) \in SUBSET Edge /\ \A k \in Owns(o) : k.from = o \/ k.to = o
      BY Zenon, CardinalityAssumption, KeyFacts DEF Owns
    <3>3. \/ o \in v /\ Owns(o) \cap H = Owns(o) \cap v
          \/ o \in G /\ Owns(o) \cap H = Owns(o) \cap G
      BY Zenon, <3>1, <3>2, <1>3
    <3> QED
      BY <3>3, <1>1, <1>2 DEF CountsWithin
  <2> QED
    BY Zenon, <2>1, <2>2
<1>5. ASSUME NEW o \in H \cap Player, NEW role \in Role
      PROVE  InCard(Cardinality(Plays(o, role) \cap H), PlaysCard)
  <2> DEFINE K == Plays(o, role)
  <2>1. CASE ~ Checked(PlaysCard)
    BY Zenon, <2>1, Counts, Unchecked
  <2>2. CASE Checked(PlaysCard)
    <3>1. \A b : Writes(b, K) => <<"plays", o, role>> \in CommitLocks(b)
      BY Zenon, <2>2, LockOfWritten
    <3>2. o \in H \cap Object /\ K \in SUBSET Edge /\ \A k \in K : k.from = o \/ k.to = o
      BY Zenon, CardinalityAssumption, KeyFacts DEF Plays
    <3>3. \/ o \in v /\ K \cap H = K \cap v
          \/ o \in G /\ K \cap H = K \cap G
      BY Zenon, <3>1, <3>2, <1>3
    <3> QED
      BY <3>3, <1>1, <1>2 DEF CountsWithin
  <2> QED
    BY Zenon, <2>1, <2>2
<1>6. ASSUME NEW r \in H \cap Relation, NEW role \in Role
      PROVE  InCard(Cardinality(Relates(r, role) \cap H), RelatesBound(E, r))
  <2> DEFINE K == Relates(r, role)
  <2>1. CASE ~ Checked(RelatesCard[r])
    BY Zenon, <2>1, Counts, Unchecked, BoundFacts
  <2>2. CASE Checked(RelatesCard[r])
    <3>1. \A b : Writes(b, K) => <<"relates", r, role>> \in CommitLocks(b)
      BY Zenon, <2>2, LockOfWritten
    <3>2. r \in H \cap Object /\ K \in SUBSET Edge /\ \A k \in K : k.from = r \/ k.to = r
      BY Zenon, KeyFacts DEF Relates
    <3>3. \/ r \in v /\ K \cap H = K \cap v
          \/ r \in G /\ K \cap H = K \cap G
      BY Zenon, <3>1, <3>2, <1>3
    <3> QED
      BY <3>3, <1>1, <1>2 DEF CountsWithin
  <2> QED
    BY Zenon, <2>1, <2>2
<1>7. CountsWithin(E, H)
    BY Zenon, <1>4, <1>5, <1>6 DEF CountsWithin
<1> QED
    BY Zenon, <1>7, WithinIs DEF H

\* validate_cardinalities looks at all that the transaction changed; the rest is as the
\* snapshot has it.
LEMMA ValidatedWithin ==
    ASSUME NEW b \in Buffer, NEW g, Anchored(b, g),
           NEW E, WithinBut(E, g), CardinalitiesHold(b, g)
    PROVE  WithinBut(E, View(b, g))
<1> DEFINE v == View(b, g)
           W == b.puts \cup b.deletes
<1>1. WithinBut(E, g)
    OBVIOUS
<1>2. /\ \A o \in b.inserts \cap Owner : OwnsWithin(o, v)
      /\ \A h \in W \cap Has : h.from \in v => OwnsWithin(h.from, v)
  <2> DEFINE S == (b.inserts \cap Owner) \cup ({h.from : h \in W \cap Has} \cap v)
  <2>1. \A o \in S : OwnsWithin(o, v)
    BY Zenon DEF CardinalitiesHold
  <2> QED
    BY Zenon, <2>1
<1>3. /\ \A o \in b.inserts \cap Player, role \in Role : PlaysWithin(o, role, v)
      /\ \A l \in W \cap Links : l.to \in v => PlaysWithin(l.to, l.role, v)
  <2> DEFINE S == ((b.inserts \cap Player) \X Role) \cup {<<l.to, l.role>> : l \in {m \in W \cap Links : m.to \in v}}
  <2>1. \A p \in S : PlaysWithin(p[1], p[2], v)
    BY Zenon DEF CardinalitiesHold
  <2>2. \A o \in b.inserts \cap Player, role \in Role : <<o, role>> \in S
    BY Zenon
  <2>3. \A l \in W \cap Links : l.to \in v => <<l.to, l.role>> \in S
    BY Zenon
  <2> HIDE DEF S, v, W
  <2> QED
    BY <2>1, <2>2, <2>3
<1>4. /\ \A o \in b.inserts \cap Relation, role \in Role : RelatesWithin(o, role, v)
      /\ \A l \in W \cap Links : l.from \in v => RelatesWithin(l.from, l.role, v)
  <2> DEFINE S == ((b.inserts \cap Relation) \X Role) \cup {<<l.from, l.role>> : l \in {m \in W \cap Links : m.from \in v}}
  <2>1. \A p \in S : RelatesWithin(p[1], p[2], v)
    BY Zenon DEF CardinalitiesHold
  <2>2. \A o \in b.inserts \cap Relation, role \in Role : <<o, role>> \in S
    BY Zenon
  <2>3. \A l \in W \cap Links : l.from \in v => <<l.from, l.role>> \in S
    BY Zenon
  <2> HIDE DEF S, v, W
  <2> QED
    BY <2>1, <2>2, <2>3
<1>5. \A o \in v \cap Object : o \in b.inserts \/ o \in g
    BY Zenon, KeyFacts DEF View, Buffer
<1>6. \A k \in Edge : k \notin W => (k \in v <=> k \in g)
    BY Zenon, KeyFacts DEF View, Buffer
<1> HIDE DEF v, W
<1>7. ASSUME NEW o \in v \cap Owner PROVE OwnsWithin(o, v)
  <2>1. CASE \E h \in W \cap Has : h.from = o
    BY Zenon, <2>1, <1>2
  <2>2. CASE o \in g /\ \A h \in W \cap Has : h.from # o
    <3>1. HasOf(o, v) = HasOf(o, g)
      BY Zenon, <2>2, <1>6, KeyFacts DEF HasOf
    <3> QED
      BY <3>1, <2>2 DEF WithinBut, OwnsWithin
  <2> QED
    BY Zenon, <2>1, <2>2, <1>2, <1>5, CardinalityAssumption
<1>8. ASSUME NEW o \in v \cap Player, NEW role \in Role PROVE PlaysWithin(o, role, v)
  <2>1. CASE \E l \in W \cap Links : l.to = o /\ l.role = role
    BY Zenon, <2>1, <1>3
  <2>2. CASE o \in g /\ \A l \in W \cap Links : l.to = o => l.role # role
    <3>1. {l \in PlayedBy(o, v) : l.role = role} = {l \in PlayedBy(o, g) : l.role = role}
      BY Zenon, <2>2, <1>6, KeyFacts DEF PlayedBy
    <3> QED
      BY <3>1, <2>2 DEF WithinBut, PlaysWithin
  <2> QED
    BY Zenon, <2>1, <2>2, <1>3, <1>5, CardinalityAssumption
<1>9. ASSUME NEW r \in v \cap Relation, NEW role \in Role
      PROVE  InCard(Cardinality({l \in PlayersOf(r, v) : l.role = role}), RelatesBound(E, r))
  <2>0. Cardinality({l \in PlayersOf(r, v) : l.role = role}) \in Nat
    <3>1. Cardinality(Relates(r, role) \cap v) \in Nat
      BY Zenon, Counts
    <3>2. {l \in PlayersOf(r, v) : l.role = role} = Relates(r, role) \cap v
      BY CountedEdges
    <3> QED
      BY <3>1, <3>2
  <2>1. CASE RelatesWithin(r, role, v)
    BY <2>0, <2>1, SparedMore DEF RelatesWithin
  <2>2. CASE \E l \in W \cap Links : l.from = r /\ l.role = role
    BY Zenon, <2>1, <2>2, <1>4
  <2>3. CASE r \in g /\ \A l \in W \cap Links : l.from = r => l.role # role
    <3>1. {l \in PlayersOf(r, v) : l.role = role} = {l \in PlayersOf(r, g) : l.role = role}
      BY Zenon, <2>3, <1>6, KeyFacts DEF PlayersOf
    <3> QED
      BY <3>1, <2>3 DEF WithinBut
  <2> QED
    BY Zenon, <2>1, <2>2, <2>3, <1>4, <1>5, KeyFacts
<1> QED
    BY Zenon, <1>7, <1>8, <1>9 DEF WithinBut, v

\* cleanup_relations removes relations without players: what they played in has fewer
\* players, and is spared its minimum; all else is counted as before.
LEMMA CleanupWithin ==
    ASSUME NEW b \in Buffer, NEW g, Anchored(b, g), Closed(g), NEW E, WithinBut(E, View(b, g)),
           NEW R \in SUBSET (View(b, g) \cap Relation), \A r \in R : PlayersOf(r, View(b, g)) = {}
    PROVE  WithinBut(E \cup {l.from : l \in {m \in View(b, g) \cap Links : m.to \in R}},
                     View(RemoveObjects(b, g, R), g))
<1> DEFINE v == View(b, g)
           D == {l.from : l \in {m \in v \cap Links : m.to \in R}}
           F == E \cup D
           H == {h \in v \cap Has : h.from \in R}
           L == LinksAt(R, v)
           I == IndexOn(L, v)
           P == R \cup H \cup L \cup I
           w == View(RemoveObjects(b, g, R), g)
<1>0. R \in SUBSET Object
    BY Zenon, KeyFacts
<1>1. w = v \ P
  <2>1. Drops(b, g, RemoveObjects(b, g, R), P)
    BY Zenon, <1>0, RemoveObjectsDrops
  <2> HIDE DEF P
  <2> QED
    BY <2>1, ViewOfDrops
<1>2. I \subseteq Index /\ L \subseteq Links /\ H \subseteq Has
    BY Zenon, IndexKeys DEF IndexOn, LinksAt
<1>3. CountsWithin(E, v)
    BY Zenon, WithinIs
<1>4. \A l \in L : l.to \in R /\ l.from \notin R
    BY Zenon DEF LinksAt, PlayersOf
<1>5. \A h \in H : h.from \in R
    BY Zenon
<1>d. \A l \in L : l.from \in D
    BY Zenon, <1>4 DEF LinksAt
<1> HIDE DEF I, L, H, D, v, w
<1>6. /\ \A k \in Has : k \in P <=> k \in H
      /\ \A k \in Links : k \in P <=> k \in L
      /\ \A r \in R : r \in P
    BY Zenon, <1>0, <1>2, KeyFacts
<1> HIDE DEF P
<1>7. ASSUME NEW o \in w \cap Owner PROVE InCard(Cardinality(Owns(o) \cap w), OwnsCard)
  <2>1. o \in v \cap Owner /\ o \notin R
    BY Zenon, <1>1, <1>6
  <2>2. Owns(o) \cap w = Owns(o) \cap v
    BY Zenon, <2>1, <1>1, <1>5, <1>6 DEF Owns
  <2> QED
    BY <2>1, <2>2, <1>3 DEF CountsWithin
<1>8. ASSUME NEW o \in w \cap Player, NEW role \in Role
      PROVE  InCard(Cardinality(Plays(o, role) \cap w), PlaysCard)
  <2>1. o \in v \cap Player /\ o \notin R
    BY Zenon, <1>1, <1>6
  <2>2. Plays(o, role) \cap w = Plays(o, role) \cap v
    BY Zenon, <2>1, <1>1, <1>4, <1>6 DEF Plays
  <2> QED
    BY <2>1, <2>2, <1>3 DEF CountsWithin
<1>9. ASSUME NEW r \in w \cap Relation, NEW role \in Role
      PROVE  InCard(Cardinality(Relates(r, role) \cap w), RelatesBound(F, r))
  <2> DEFINE S == Relates(r, role) \cap v
             T == Relates(r, role) \cap w
  <2>1. r \in v \cap Relation
    BY Zenon, <1>1
  <2>2. InCard(Cardinality(S), RelatesBound(E, r))
    BY Zenon, <2>1, <1>3 DEF CountsWithin
  <2>3. CASE r \notin D
    <3>1. \A k \in Relates(r, role) : k \in Links /\ k \notin L
      BY Zenon, <2>3, <1>d DEF Relates
    <3>2. T = S
      BY Zenon, <3>1, <1>1, <1>6
    <3>3. InCard(Cardinality(S), RelatesBound(F, r))
      BY Zenon, <2>2, Counts, SparedMore
    <3> QED
      BY <3>2, <3>3
  <2>4. CASE r \in D
    <3>1. IsFiniteSet(S) /\ T \in SUBSET S
      <4>1. S \in SUBSET Links
        BY Zenon DEF Relates
      <4>2. IsFiniteSet(S)
        BY <4>1, CardinalityAssumption, FS_Subset
      <4> QED
        BY Zenon, <4>2, <1>1
    <3>2. Cardinality(T) <= Cardinality(S)
      BY <3>1, FS_Subset
    <3>3. Cardinality(T) \in Nat /\ Cardinality(S) \in Nat
      BY Zenon, Counts
    <3> DEFINE m == Cardinality(T)
               n == Cardinality(S)
    <3>4. m <= n /\ m \in Nat /\ n \in Nat /\ InCard(n, RelatesBound(E, r)) /\ r \in F
      BY Zenon, <3>2, <3>3, <2>2, <2>4
    <3> HIDE DEF m, n, F
    <3>5. InCard(m, RelatesBound(F, r))
      BY <3>4, BoundFacts DEF InCard, NoMax
    <3> QED
      BY Zenon, <3>5 DEF m
  <2> QED
    BY Zenon, <2>3, <2>4
<1>10. CountsWithin(F, w)
    BY Zenon, <1>7, <1>8, <1>9 DEF CountsWithin
<1> QED
    BY Zenon, <1>10, WithinIs DEF D, v, w

-----------------------------------------------------------------------------
Validated == {"emptied", "created", "cleaned"}

\* A transaction that has counted is within its cardinalities, but for what the clean-ups took.
SparedOf(t) == Spared \cup shorn[t]
Sound(t) == phase[t] \in Validated => WithinBut(SparedOf(t), Seen(t))

CardInv ==
    /\ \A n \in 1..Len(graphs) : WithinBut(Spared, graphs[n])
    /\ \A t \in Txn : Sound(t)
    /\ \A i \in 1..Len(commits) : commits[i].buffer.exclusive = CommitLocks(commits[i].buffer)

\* A loaded database is within its cardinalities.
LEMMA CardInit == Init => CardInv
<1> SUFFICES ASSUME Init PROVE CardInv
    BY Zenon
<1>1. PICK g \in Start : graphs = <<g>>
    BY Zenon DEF Init
<1>2. \A n \in 1..Len(graphs) : graphs[n] = g
    BY <1>1
<1>3. \A n \in 1..Len(graphs) : WithinBut(Spared, graphs[n])
  <2>1. WithinBut({}, g) /\ {} \subseteq Spared
    BY Zenon, StartAssumption
  <2>2. WithinBut(Spared, g)
    BY Zenon, <2>1, WithinMore
  <2> QED
    BY <1>2, <2>2
<1>4. \A i \in 1..Len(commits) : FALSE
    BY DEF Init
<1>5. \A t \in Txn : phase[t] = "idle"
    BY Zenon DEF Init
<1>6. "idle" \notin Validated
    BY DEF Validated
<1> QED
    BY Zenon, <1>3, <1>4, <1>5, <1>6 DEF CardInv, Sound

\* The relations that are spared stay so.
LEMMA SparedGrows ==
    ASSUME GraphInv, NEW t \in Txn, Moves(t)
    PROVE  Spared \subseteq Spared'
<1>1. CASE UNCHANGED <<graphs, commits>>
    BY Zenon, <1>1 DEF Spared
<1>2. CASE Commits(t)
  <2>1. /\ Len(commits) \in Nat /\ Len(commits') = Len(commits) + 1
        /\ \A i \in 1..Len(commits) : commits'[i] = commits[i]
    BY Zenon, <1>2, Committing
  <2>2. \A i \in 1..Len(commits) : i \in 1..Len(commits')
    BY <2>1
  <2> QED
    BY Zenon, <2>1, <2>2 DEF Spared
<1> QED
    BY Zenon, <1>1, <1>2 DEF Moves

\* A transaction that does not move stays as it was counted.
LEMMA SoundKept ==
    ASSUME CardInv, NEW u \in Txn, Spared \subseteq Spared',
           phase'[u] = phase[u], shorn'[u] = shorn[u], Seen(u)' = Seen(u)
    PROVE  Sound(u)'
<1> DEFINE E == SparedOf(u)
           F == SparedOf(u)'
<1>1. E \subseteq F
    BY Zenon DEF SparedOf
<1>2. phase[u] \in Validated => WithinBut(E, Seen(u))
    BY Zenon DEF CardInv, Sound
<1> HIDE DEF E, F
<1>3. phase[u] \in Validated => WithinBut(F, Seen(u))
    BY Zenon, <1>1, <1>2, WithinMore
<1>4. phase'[u] \in Validated => WithinBut(F, Seen(u)')
    BY Zenon, <1>3
<1> QED
    BY Zenon, <1>4 DEF Sound, F

\* A pass over the relations leaves the transaction within its cardinalities, but for the
\* relations that it takes players from.
LEMMA PassWithin ==
    ASSUME GraphInv, NEW t \in Txn, WithinBut(SparedOf(t), Seen(t)), NEW from, NEW next,
           NEW R \in SUBSET (Seen(t) \cap Relation), \A r \in R : PlayersOf(r, Seen(t)) = {},
           CleanupPass(t, from, next, R)
    PROVE  WithinBut(SparedOf(t)', Seen(t)')
<1>1. /\ buffer[t] \in Buffer /\ Anchored(buffer[t], Snapshot(t)) /\ Closed(Snapshot(t))
      /\ buffer \in [Txn -> Buffer] /\ shorn \in [Txn -> SUBSET Relation]
    BY Zenon, SnapshotFacts DEF GraphInv, Types
<1>2. Snapshot(t)' = Snapshot(t) /\ Spared' = Spared
    BY Zenon DEF CleanupPass, Snapshot, Spared
<1>3. CASE R = {}
  <2>1. buffer' = buffer /\ shorn' = shorn
    BY Zenon, <1>3 DEF CleanupPass
  <2> QED
    BY Zenon, <1>2, <2>1 DEF Seen, SparedOf
<1>4. CASE R # {}
  <2> DEFINE c == RemoveObjects(buffer[t], Snapshot(t), R)
             D == {l.from : l \in {m \in Seen(t) \cap Links : m.to \in R}}
  <2>1. buffer'[t] = c /\ shorn'[t] = shorn[t] \cup D
    BY Zenon, <1>1, <1>4 DEF CleanupPass
  <2>2. WithinBut(SparedOf(t) \cup D, View(c, Snapshot(t)))
    BY Zenon, <1>1, CleanupWithin DEF Seen
  <2> HIDE DEF c, D
  <2>3. SparedOf(t)' = SparedOf(t) \cup D /\ Seen(t)' = View(c, Snapshot(t))
    BY Zenon, <2>1, <1>2 DEF Seen, SparedOf
  <2> QED
    BY Zenon, <2>2, <2>3
<1> QED
    BY Zenon, <1>3, <1>4

\* Whatever is validated stays so until it is committed.
LEMMA ValidatedKept ==
    ASSUME GraphInv, CardInv, Next
    PROVE  \A t \in Txn : Sound(t)'
<1>0. /\ phase \in [Txn -> Phase] /\ buffer \in [Txn -> Buffer] /\ open \in [Txn -> 0..Len(commits)]
      /\ shorn \in [Txn -> SUBSET Relation]
    BY Zenon DEF GraphInv, Types
<1>a. "open" \notin Validated /\ "closed" \notin Validated
      /\ \A s \in Validated : s \in {"emptied", "created", "cleaned"}
    BY DEF Validated
<1>b. Spared \subseteq Spared'
    BY Zenon, NextMoves, SparedGrows
<1>1. ASSUME NEW t \in Txn, NEW s \in 0..Len(commits), Open(t, s)
      PROVE  \A u \in Txn : Sound(u)'
  <2> SUFFICES ASSUME NEW u \in Txn PROVE Sound(u)'
    BY Zenon
  <2>1. /\ phase'[t] = "open" /\ (u # t => phase'[u] = phase[u] /\ open'[u] = open[u])
        /\ shorn' = shorn
    BY Zenon, <1>0, <1>1 DEF Open
  <2>2. CASE u = t
    BY Zenon, <2>1, <2>2, <1>a DEF Sound
  <2>3. CASE u # t
    <3>1. Seen(u)' = Seen(u)
      BY Zenon, <2>1, <2>3, <1>1 DEF Open, Seen, Snapshot
    <3> QED
      BY Zenon, <2>1, <2>3, <3>1, <1>b, SoundKept
  <2> QED
    BY Zenon, <2>2, <2>3
<1>2. ASSUME NEW t \in Txn, Moves(t), \A u \in Txn \ {t} : phase'[u] = phase[u] /\ shorn'[u] = shorn[u],
             Sound(t)'
      PROVE  \A u \in Txn : Sound(u)'
  <2> SUFFICES ASSUME NEW u \in Txn, u # t PROVE Sound(u)'
    BY Zenon, <1>2
  <2>1. buffer'[u] = buffer[u] /\ open'[u] = open[u] /\ phase'[u] = phase[u] /\ shorn'[u] = shorn[u]
    BY Zenon, <1>2 DEF Moves
  <2>2. Snapshot(u)' = Snapshot(u)
    BY Zenon, <1>2, <2>1, SnapshotKept
  <2>3. Seen(u)' = Seen(u)
    BY Zenon, <2>1, <2>2 DEF Seen
  <2> QED
    BY Zenon, <2>1, <2>3, <1>b, SoundKept
<1>3. ASSUME NEW t \in Txn, Operation(t)
      PROVE  \A u \in Txn : Sound(u)'
  <2>1. PICK c : buffer' = [buffer EXCEPT ![t] = c] /\ UNCHANGED <<graphs, commits, phase, open, shorn>>
    BY Zenon, <1>3, OperationChanges
  <2>2. phase[t] = "open"
    BY Zenon, <1>3 DEF Operation, Editing
  <2> SUFFICES ASSUME NEW u \in Txn PROVE Sound(u)'
    BY Zenon
  <2>3. CASE u = t
    BY Zenon, <2>1, <2>2, <2>3, <1>a DEF Sound
  <2>4. CASE u # t
    <3>1. buffer'[u] = buffer[u]
      BY Zenon, <2>1, <2>4, <1>0
    <3>2. Seen(u)' = Seen(u)
      BY Zenon, <2>1, <3>1 DEF Seen, Snapshot
    <3> QED
      BY Zenon, <2>1, <3>2, <1>b, SoundKept
  <2> QED
    BY Zenon, <2>3, <2>4
<1>4. ASSUME NEW t \in Txn, Finalise(t)
      PROVE  \A u \in Txn : Sound(u)'
  <2> SUFFICES ASSUME NEW u \in Txn PROVE Sound(u)'
    BY Zenon
  <2>0. UNCHANGED <<graphs, open, shorn, commits>> /\ Snapshot(u)' = Snapshot(u)
    BY Zenon, <1>4 DEF Finalise, Snapshot
  <2>1. CASE u # t
    <3>1. phase'[u] = phase[u] /\ buffer'[u] = buffer[u]
      BY Zenon, <1>0, <1>4, <2>1 DEF Finalise, Enter, Close
    <3>2. Seen(u)' = Seen(u)
      BY Zenon, <3>1, <2>0 DEF Seen
    <3> QED
      BY Zenon, <3>1, <3>2, <2>0, <1>b, SoundKept
  <2>2. CASE u = t
    <3> SUFFICES ASSUME phase'[u] \in Validated PROVE WithinBut(SparedOf(u)', Seen(u)')
      BY Zenon DEF Sound
    <3>1. CardinalitiesHold(buffer[t], Snapshot(t)) /\ buffer' = buffer
      <4>1. ASSUME Close(t) PROVE FALSE
        BY Zenon, <4>1, <2>2, <1>0, <1>a DEF Close, Enter
      <4> QED
        BY Zenon, <1>4, <4>1 DEF Finalise
    <3>2. buffer[t] \in Buffer /\ Anchored(buffer[t], Snapshot(t))
      BY Zenon, SnapshotFacts
    <3>3. WithinBut(Spared, Snapshot(t))
      BY Zenon, Places DEF CardInv, Snapshot
    <3>4. WithinBut(SparedOf(t), Snapshot(t))
      BY Zenon, <3>3, WithinMore DEF SparedOf
    <3>5. WithinBut(SparedOf(t), View(buffer[t], Snapshot(t)))
      BY Zenon, <3>1, <3>2, <3>4, ValidatedWithin
    <3>6. SparedOf(u)' = SparedOf(t) /\ Seen(u)' = View(buffer[t], Snapshot(t))
      BY Zenon, <3>1, <2>0, <2>2 DEF Seen, SparedOf, Spared
    <3> QED
      BY Zenon, <3>5, <3>6
  <2> QED
    BY Zenon, <2>1, <2>2
<1>5. ASSUME NEW t \in Txn, NEW from \in Validated, NEW next,
             NEW R \in SUBSET (Seen(t) \cap Relation), \A r \in R : PlayersOf(r, Seen(t)) = {},
             CleanupPass(t, from, next, R)
      PROVE  \A u \in Txn : Sound(u)'
  <2>1. WithinBut(SparedOf(t), Seen(t))
    BY Zenon, <1>5 DEF CleanupPass, CardInv, Sound
  <2>2. WithinBut(SparedOf(t)', Seen(t)')
    BY Zenon, <2>1, <1>5, PassWithin
  <2>3. R \in SUBSET Object
    BY Zenon, KeyFacts
  <2>4. Moves(t)
    BY Zenon, <2>3, <1>5, CleanupChanges
  <2>5. \A u \in Txn \ {t} : phase'[u] = phase[u] /\ shorn'[u] = shorn[u]
    BY Zenon, <1>0, <1>5 DEF CleanupPass, Enter
  <2>6. Sound(t)'
    BY Zenon, <2>2 DEF Sound
  <2> QED
    BY Zenon, <2>4, <2>5, <2>6, <1>2
<1>6. ASSUME NEW t \in Txn, CleanupEmptied(t)
      PROVE  \A u \in Txn : Sound(u)'
  <2> DEFINE R == EmptiedRelations(buffer[t], Snapshot(t))
  <2>1. R \in SUBSET (Seen(t) \cap Relation) /\ \A r \in R : PlayersOf(r, Seen(t)) = {}
    BY Zenon DEF EmptiedRelations, Seen
  <2>2. "emptied" \in Validated
    BY DEF Validated
  <2> QED
    BY Zenon, <1>6, <2>1, <2>2, <1>5 DEF CleanupEmptied
<1>7. ASSUME NEW t \in Txn, CleanupCreated(t)
      PROVE  \A u \in Txn : Sound(u)'
  <2> DEFINE b == buffer[t]
             g == Snapshot(t)
             R == CreatedEmpty(b, g)
  <2>1. b \in Buffer /\ Anchored(b, g) /\ Closed(g) /\ Seen(t) = View(b, g)
    BY Zenon, SnapshotFacts DEF Seen
  <2> HIDE DEF b, g
  <2>2. R \in SUBSET (Seen(t) \cap Relation)
    BY Zenon, <2>1 DEF CreatedEmpty, View
  <2>3. ASSUME NEW r \in R PROVE PlayersOf(r, Seen(t)) = {}
    <3>1. r \in b.inserts /\ PlayersOf(r, b.puts) = {}
      BY Zenon DEF CreatedEmpty
    <3>2. ASSUME NEW l \in Links, l.from = r, l \in View(b, g) PROVE FALSE
      <4>1. l \notin b.puts
        BY Zenon, <3>1, <3>2 DEF PlayersOf
      <4>2. l \notin b.inserts /\ l \in Edge
        BY Zenon, <2>1, KeyFacts DEF Buffer
      <4>3. l \in g
        BY Zenon, <3>2, <4>1, <4>2 DEF View
      <4>4. l.from \in g
        BY Zenon, <4>2, <4>3, <2>1 DEF Closed
      <4> QED
        BY Zenon, <3>1, <3>2, <4>4, <2>1 DEF Anchored
    <3> QED
      BY Zenon, <3>2, <2>1 DEF PlayersOf
  <2>4. "created" \in Validated
    BY DEF Validated
  <2>5. CleanupPass(t, "created", "cleaned", R)
    BY Zenon, <1>7 DEF CleanupCreated, b, g
  <2> HIDE DEF R
  <2> QED
    BY Zenon, <2>2, <2>3, <2>4, <2>5, <1>5
<1>8. ASSUME NEW t \in Txn, Commit(t)
      PROVE  \A u \in Txn : Sound(u)'
  <2>1. /\ phase'[t] = "closed" /\ \A u \in Txn \ {t} : phase'[u] = phase[u]
        /\ shorn' = shorn
    BY Zenon, <1>0, <1>8 DEF Commit, Close, Enter
  <2>2. Moves(t)
    BY Zenon, <1>8, CommitMoves
  <2>3. Sound(t)'
    BY Zenon, <2>1, <1>a DEF Sound
  <2> QED
    BY Zenon, <2>1, <2>2, <2>3, <1>2
<1> QED
    BY Zenon, <1>1, <1>3, <1>4, <1>6, <1>7, <1>8 DEF Next

\* A commit keeps the graph within the cardinalities, but for what its clean-up took.
LEMMA CardCommits ==
    ASSUME GraphInv, CardInv, NEW t \in Txn, Commits(t)
    PROVE  /\ \A n \in 1..Len(graphs') : WithinBut(Spared', graphs'[n])
           /\ \A i \in 1..Len(commits') : commits'[i].buffer.exclusive = CommitLocks(commits'[i].buffer)
<1>1. /\ Len(commits) \in Nat /\ Len(graphs) = Len(commits) + 1 /\ Len(graphs') = Len(commits) + 2
      /\ \A i \in 1..(Len(commits) + 1) : graphs'[i] = graphs[i]
      /\ Len(commits') = Len(commits) + 1 /\ \A i \in 1..Len(commits) : commits'[i] = commits[i]
      /\ commits'[Len(commits) + 1] = [buffer |-> Finalised(t), open |-> open[t], shorn |-> shorn[t]]
    BY Zenon, Committing
<1>2. Finalised(t).exclusive = CommitLocks(Finalised(t))
    BY Zenon, FinalisedEffect
<1>3. phase[t] = "cleaned" /\ "cleaned" \in Validated
    BY Zenon DEF Commits, Commit, Validated
<1>4. WithinBut(SparedOf(t), Graph) /\ WithinBut(SparedOf(t), Seen(t))
  <2>1. WithinBut(Spared, Graph) /\ WithinBut(SparedOf(t), Seen(t))
    BY Zenon, <1>3, Places DEF CardInv, Graph, Sound
  <2> QED
    BY Zenon, <2>1, WithinMore DEF SparedOf
<1>s. Spared \subseteq Spared' /\ SparedOf(t) \subseteq Spared'
  <2>1. \A i \in 1..Len(commits) : i \in 1..Len(commits')
    BY <1>1
  <2>2. Len(commits) + 1 \in 1..Len(commits') /\ commits'[Len(commits) + 1].shorn = shorn[t]
    BY <1>1
  <2> QED
    BY Zenon, <1>1, <2>1, <2>2 DEF Spared, SparedOf
<1>5. WithinBut(Spared', Graph')
  <2>1. WithinBut(SparedOf(t), Graph')
    BY Zenon, <1>4, CommitWithin DEF CardInv
  <2> QED
    BY Zenon, <2>1, <1>s, WithinMore
<1>6. ASSUME NEW n \in 1..Len(graphs') PROVE WithinBut(Spared', graphs'[n])
  <2>1. n = Len(graphs') \/ (n \in 1..Len(graphs) /\ n \in 1..(Len(commits) + 1))
    BY <1>1
  <2>2. CASE n = Len(graphs')
    BY Zenon, <2>2, <1>5 DEF Graph
  <2>3. CASE n \in 1..Len(graphs) /\ n \in 1..(Len(commits) + 1)
    <3>1. graphs'[n] = graphs[n]
      BY Zenon, <2>3, <1>1
    <3>2. WithinBut(Spared, graphs[n])
      BY Zenon, <2>3 DEF CardInv
    <3>3. WithinBut(Spared', graphs[n])
      BY Zenon, <3>2, <1>s, WithinMore
    <3> QED
      BY Zenon, <3>1, <3>3
  <2> QED
    BY Zenon, <2>1, <2>2, <2>3
<1>7. ASSUME NEW i \in 1..Len(commits') PROVE commits'[i].buffer.exclusive = CommitLocks(commits'[i].buffer)
  <2>1. i = Len(commits) + 1 \/ i \in 1..Len(commits)
    BY <1>1
  <2>2. CASE i = Len(commits) + 1
    <3>1. commits'[i].buffer = Finalised(t)
      BY <2>2, <1>1
    <3> QED
      BY Zenon, <3>1, <1>2
  <2>3. CASE i \in 1..Len(commits)
    BY Zenon, <2>3, <1>1 DEF CardInv
  <2> QED
    BY Zenon, <2>1, <2>2, <2>3
<1> QED
    BY Zenon, <1>6, <1>7

\* Every committed object is within its cardinalities, for every schema and any number of
\* transactions: each counts in its own snapshot what it changed, and the exclusive locks
\* keep out what the others changed unseen.  Only a relation that a clean-up took a player
\* from may have too few: cleanup_relations runs after validate_cardinalities.
THEOREM CardinalitiesKept == Spec => []CardinalityUnlessCleaned
<1>1. GraphInv /\ CardInv /\ [Next]_vars => CardInv'
  <2> SUFFICES ASSUME GraphInv, CardInv, [Next]_vars PROVE CardInv'
    BY Zenon
  <2>1. ASSUME UNCHANGED <<graphs, commits>>
        PROVE  /\ \A n \in 1..Len(graphs') : WithinBut(Spared', graphs'[n])
               /\ \A i \in 1..Len(commits') : commits'[i].buffer.exclusive = CommitLocks(commits'[i].buffer)
    BY Zenon, <2>1 DEF CardInv, Spared
  <2>2. CASE UNCHANGED vars
    <3>1. /\ UNCHANGED <<graphs, commits, phase, shorn>> /\ Spared' = Spared
          /\ \A u \in Txn : Seen(u)' = Seen(u)
      BY Zenon, <2>2 DEF vars, Snapshot, Seen, Spared
    <3>2. \A u \in Txn : Sound(u)'
      BY Zenon, <3>1, SoundKept
    <3> QED
      BY Zenon, <3>1, <3>2, <2>1 DEF CardInv
  <2>3. CASE Next
    <3>1. PICK t \in Txn : Moves(t)
      BY Zenon, <2>3, NextMoves
    <3>2. /\ \A n \in 1..Len(graphs') : WithinBut(Spared', graphs'[n])
          /\ \A i \in 1..Len(commits') : commits'[i].buffer.exclusive = CommitLocks(commits'[i].buffer)
      BY Zenon, <3>1, <2>1, CardCommits DEF Moves
    <3> QED
      BY Zenon, <3>2, <2>3, ValidatedKept DEF CardInv
  <2> QED
    BY Zenon, <2>2, <2>3
<1>2. GraphInv /\ CardInv => CardinalityUnlessCleaned
  <2> SUFFICES ASSUME GraphInv, CardInv PROVE CardinalityUnlessCleaned
    BY Zenon
  <2>1. Len(graphs) \in 1..Len(graphs)
    BY DEF GraphInv, Types
  <2> QED
    BY Zenon, <2>1 DEF CardInv, CardinalityUnlessCleaned, Graph
<1> QED
    BY <1>1, <1>2, CardInit, InitGraphInv, NextKeeps, PTL DEF Spec
=============================================================================
