---------------------------- MODULE ThingManager ----------------------------
(***************************************************************************)
(* The instance graph that concurrent write transactions build: entities,  *)
(* relations and attributes, the has and links edges between them and the  *)
(* index of the players of a relation.  A transaction edits the buffer of  *)
(* its snapshot; committing validates the cardinalities of what it edited, *)
(* removes what it left without dependencies, takes its locks and goes     *)
(* through the storage's isolation (CommitProtocol) as one step.           *)
(*                                                                         *)
(* An edge and its reverse are one key here: the code writes them with the *)
(* same operation and value, one after the other.  Roles and ownerships    *)
(* are unordered, so that every count is one.                              *)
(***************************************************************************)
EXTENDS Integers, Sequences, FiniteSets

CONSTANTS
    Entity, Relation, Attribute, Role,
    Owner,         \* the objects whose type owns the attributes' type
    Player,        \* the objects whose type plays the roles
    OwnsCard, PlaysCard,
    RelatesCard,   \* of each relation: that of its type
    UniqueOwner,   \* those whose type owns it @unique
    Independent,   \* the attributes' type is @independent
    Start,         \* the graphs to start from
    Txn,
    MaxOps,        \* bound: operations of all transactions
    MaxCommits     \* bound: commits

NoMax == -1
Object == Entity \cup Relation
Vertex == Object \cup Attribute

Has == [kind : {"has"}, from : Object, to : Attribute]
Links == [kind : {"links"}, from : Relation, to : Object, role : Role]
Edge == Has \cup Links
Index == [kind : {"index"}, links : SUBSET Links]
IndexOf(l, q) == [kind |-> "index", links |-> {l, q}]

EmptyBuffer == [inserts |-> {}, puts |-> {}, deletes |-> {},
                unmodifiable |-> {}, exclusive |-> {}]

VARIABLES
    graphs,      \* graphs[s + 1]: the keys that a snapshot at s reads
    commits,     \* the commit with number s: its buffer, its snapshot's number, and shorn
    unused,      \* ids that the vertex generator has not given out
    phase,       \* how far each transaction is
    open,        \* the number its snapshot reads at
    buffer,      \* its writes and locks
    shorn,       \* history: the relations that its clean-up has taken a player from
    ops          \* operations so far

vars == <<graphs, commits, unused, phase, open, buffer, shorn, ops>>

-----------------------------------------------------------------------------
(* Reading a graph, or a snapshot g through the buffer b.                    *)

View(b, g) == (g \ b.deletes) \cup b.inserts \cup b.puts
UniqueHas(g) == {h \in g \cap Has : h.from \in UniqueOwner}
HasOf(o, g) == {h \in g \cap Has : h.from = o}
OwnersOf(a, g) == {h \in g \cap Has : h.to = a}
PlayersOf(r, g) == {l \in g \cap Links : l.from = r}
PlayedBy(o, g) == {l \in g \cap Links : l.to = o}

Persisted(b, g, v) == v \in g \ (b.deletes \cup b.inserts \cup b.puts)

Checked(card) == card # [min |-> 0, max |-> NoMax]
InCard(n, card) == card.min <= n /\ (card.max = NoMax \/ n <= card.max)

RELATION_INDEX_THRESHOLD == 5
Indexed(r) ==
    /\ RelatesCard[r].max # NoMax
    /\ Cardinality(Role) * RelatesCard[r].max <= RELATION_INDEX_THRESHOLD

-----------------------------------------------------------------------------
(* Editing the buffer b of a snapshot that reads g.                          *)

Put(b, K) == [b EXCEPT !.puts = @ \cup K, !.deletes = @ \ K]

RequireObjects(b, g, O) ==
    [b EXCEPT !.unmodifiable = @ \cup {o \in O : Persisted(b, g, o)}]

\* an attribute is shared: it is locked even when this transaction put it
RequireAttribute(b, g, a) == [b EXCEPT !.unmodifiable = @ \cup {a}]

UnsetHas(b, g, H) ==
    [b EXCEPT !.puts = @ \ H,
              !.deletes = @ \cup {h \in H \cap g : h.from \notin b.inserts}]

\* the index entries between a link and the other players of its relation
IndexWith(l, g) ==
    {IndexOf(l, q) : q \in IF Indexed(l.from) THEN PlayersOf(l.from, g) \ {l} ELSE {}}

\* Mutant: removing a player leaves its index entries behind
UnsetLinksOnly(b, g, L) ==
    [b EXCEPT !.puts = @ \ L,
              !.deletes = @ \cup {l \in L \cap g : l.from \notin b.inserts}]

UnsetLinks(b, g, L) ==
    LET index == UNION {IndexWith(l, View(b, g)) : l \in L}
    IN [b EXCEPT !.puts = @ \ (L \cup index),
                 !.deletes = @ \cup {l \in L \cap g : l.from \notin b.inserts} \cup (index \cap g)]

\* delete of entities and relations, with their edges; the lock on a deleted object goes too
RemoveObjects(b, g, O) ==
    LET seen == View(b, g)
        unowned == UnsetHas(b, g, {h \in seen \cap Has : h.from \in O})
        unlinked == UnsetLinks(unowned, g, {l \in seen \cap Links : l.from \in O \/ l.to \in O})
    IN [unlinked EXCEPT !.unmodifiable = @ \ O,
                        !.inserts = @ \ O,
                        !.deletes = @ \cup (O \cap g)]

RemoveAttributes(b, g, A) ==
    [UnsetHas(b, g, {h \in View(b, g) \cap Has : h.to \in A})
        EXCEPT !.puts = @ \ A, !.deletes = @ \cup (A \cap g)]

-----------------------------------------------------------------------------
(* The operations of an open transaction.                                    *)

Snapshot(t) == graphs[open[t] + 1]
Seen(t) == View(buffer[t], Snapshot(t))

Open(t, s) ==
    /\ phase[t] = "idle"
    /\ phase' = [phase EXCEPT ![t] = "open"]
    /\ open' = [open EXCEPT ![t] = s]
    /\ UNCHANGED <<graphs, commits, unused, buffer, shorn, ops>>

Editing(t) == phase[t] = "open" /\ ops < MaxOps

Edit(t, b) ==
    /\ ops' = ops + 1
    /\ buffer' = [buffer EXCEPT ![t] = b]
    /\ UNCHANGED <<graphs, commits, phase, open, shorn>>

\* create_entity and create_relation: an id that nobody has
CreateObject(t, o) ==
    /\ o \in unused
    /\ unused' = unused \ {o}
    /\ Edit(t, [buffer[t] EXCEPT !.inserts = @ \cup {o}])

CreateAttribute(t, a) ==
    /\ Edit(t, Put(buffer[t], {a}))
    /\ UNCHANGED unused

\* Mutant: another owner of the value is not looked for
UniqueForAny(t, o, a) == TRUE

\* validate_has_unique_constraint
UniqueFor(t, o, a) ==
    o \in UniqueOwner => \A h \in OwnersOf(a, Seen(t)) : h.from \in UniqueOwner => h.from = o

SetHas(t, h) ==
    /\ {h.from, h.to} \subseteq Seen(t)
    /\ h.from \in Owner
    /\ UniqueFor(t, h.from, h.to)
    /\ LET required == RequireAttribute(RequireObjects(buffer[t], Snapshot(t), {h.from}),
                                        Snapshot(t), h.to)
       IN Edit(t, Put(required, {h}))
    /\ UNCHANGED unused

UnsetHasOf(t, h) ==
    /\ h.from \in Seen(t)
    /\ h \in Seen(t)
    /\ Edit(t, UnsetHas(buffer[t], Snapshot(t), {h}))
    /\ UNCHANGED unused

AddPlayer(t, l) ==
    /\ {l.from, l.to} \subseteq Seen(t)
    /\ l.to \in Player
    /\ LET required == RequireObjects(buffer[t], Snapshot(t), {l.from, l.to})
       IN Edit(t, Put(required, {l} \cup IndexWith(l, Seen(t))))
    /\ UNCHANGED unused

RemovePlayer(t, l) ==
    /\ l.from \in Seen(t)
    /\ l \in Seen(t)
    /\ Edit(t, UnsetLinks(buffer[t], Snapshot(t), {l}))
    /\ UNCHANGED unused

DeleteObject(t, o) ==
    /\ o \in Seen(t)
    /\ Edit(t, RemoveObjects(buffer[t], Snapshot(t), {o}))
    /\ UNCHANGED unused

DeleteAttribute(t, a) ==
    /\ a \in Seen(t)
    /\ Edit(t, RemoveAttributes(buffer[t], Snapshot(t), {a}))
    /\ UNCHANGED unused

Rollback(t) ==
    /\ buffer[t] # EmptyBuffer
    /\ Edit(t, EmptyBuffer)
    /\ UNCHANGED unused

-----------------------------------------------------------------------------
(* finalise: cardinalities, then the clean-up passes, then the commit locks. *)

Enter(t, label) == phase' = [phase EXCEPT ![t] = label]

\* the snapshot goes, whatever became of it
Close(t) == Enter(t, "closed") /\ buffer' = [buffer EXCEPT ![t] = EmptyBuffer]

OwnsWithin(o, g) == InCard(Cardinality(HasOf(o, g)), OwnsCard)
PlaysWithin(o, role, g) == InCard(Cardinality({l \in PlayedBy(o, g) : l.role = role}), PlaysCard)
RelatesWithin(r, role, g) ==
    InCard(Cardinality({l \in PlayersOf(r, g) : l.role = role}), RelatesCard[r])

\* what is asked of the relation's roles: if it is one of R, no minimum
RelatesBound(R, r) == IF r \in R THEN [RelatesCard[r] EXCEPT !.min = 0] ELSE RelatesCard[r]

\* every object is within its cardinalities, but for too few players of the relations R
WithinBut(R, g) ==
    /\ \A o \in g \cap Owner : OwnsWithin(o, g)
    /\ \A o \in g \cap Player, role \in Role : PlaysWithin(o, role, g)
    /\ \A r \in g \cap Relation, role \in Role :
           InCard(Cardinality({l \in PlayersOf(r, g) : l.role = role}), RelatesBound(R, r))

\* CardinalityChangeTracker and validate_cardinalities: the objects that are new, and
\* those whose edges were written and that still exist
CardinalitiesHold(b, g) ==
    LET seen == View(b, g)
        written == b.puts \cup b.deletes
        links == written \cap Links
        new == b.inserts
        owners == (new \cap Owner) \cup ({h.from : h \in written \cap Has} \cap seen)
        players == ((new \cap Player) \X Role) \cup {<<l.to, l.role>> : l \in {m \in links : m.to \in seen}}
        relations == ((new \cap Relation) \X Role)
                        \cup {<<l.from, l.role>> : l \in {m \in links : m.from \in seen}}
    IN /\ \A o \in owners : OwnsWithin(o, seen)
       /\ \A p \in players : PlaysWithin(p[1], p[2], seen)
       /\ \A p \in relations : RelatesWithin(p[1], p[2], seen)

Finalise(t) ==
    /\ phase[t] = "open"
    /\ IF CardinalitiesHold(buffer[t], Snapshot(t))
       THEN Enter(t, "emptied") /\ UNCHANGED buffer
       ELSE Close(t)
    /\ UNCHANGED <<graphs, commits, unused, open, shorn, ops>>

\* the first pass of cleanup_relations: relations that lost their last player
EmptiedRelations(b, g) ==
    {r \in View(b, g) \cap Relation :
        /\ \E l \in b.deletes \cap Links : l.from = r
        /\ PlayersOf(r, View(b, g)) = {}}

\* the second pass: relations of this transaction that got none
CreatedEmpty(b, g) == {r \in b.inserts \cap Relation : PlayersOf(r, b.puts) = {}}

\* a pass is repeated until it finds nothing
CleanupPass(t, from, next, R) ==
    /\ phase[t] = from
    /\ IF R = {}
       THEN Enter(t, next) /\ UNCHANGED <<buffer, shorn>>
       ELSE /\ buffer' = [buffer EXCEPT ![t] = RemoveObjects(@, Snapshot(t), R)]
            /\ shorn' = [shorn EXCEPT ![t] =
                            @ \cup {l.from : l \in {m \in Seen(t) \cap Links : m.to \in R}}]
            /\ UNCHANGED phase
    /\ UNCHANGED <<graphs, commits, unused, open, ops>>

CleanupEmptied(t) ==
    CleanupPass(t, "emptied", "created", EmptiedRelations(buffer[t], Snapshot(t)))

CleanupCreated(t) ==
    CleanupPass(t, "created", "cleaned", CreatedEmpty(buffer[t], Snapshot(t)))

Unowned(A, g) == {a \in A : ~Independent /\ OwnersOf(a, g) = {}}

\* Mutant: only the attributes that the transaction put are looked at
CleanupPutAttributes(b, g) ==
    [b EXCEPT !.puts = @ \ Unowned(@ \cap Attribute, View(b, g))]

CleanupAttributes(b, g) ==
    LET lost == {h.to : h \in b.deletes \cap Has} \cap View(b, g)
        kept == RemoveAttributes(b, g, Unowned(lost, View(b, g)))
    IN [kept EXCEPT !.puts = @ \ Unowned(@ \cap Attribute, View(kept, g))]

UniqueLock(h) == <<"unique", h.to, h.from>>

\* Mutant: only the ownerships that a transaction adds are locked
CommitLocksOfPuts(b) ==
    LET has == b.puts \cap Has
        links == b.puts \cap Links
    IN {UniqueLock(h) : h \in UniqueHas(has)}
       \cup (IF Checked(OwnsCard) THEN {<<"owns", h.from>> : h \in has} ELSE {})
       \cup (IF Checked(PlaysCard) THEN {<<"plays", l.to, l.role>> : l \in links} ELSE {})
       \cup {<<"relates", l.from, l.role>> : l \in {m \in links : Checked(RelatesCard[m.from])}}

\* create_commit_locks
CommitLocks(b) ==
    LET has == (b.puts \cup b.deletes) \cap Has
        links == (b.puts \cup b.deletes) \cap Links
    IN {UniqueLock(h) : h \in UniqueHas(has)}
       \cup (IF Checked(OwnsCard) THEN {<<"owns", h.from>> : h \in has} ELSE {})
       \cup (IF Checked(PlaysCard) THEN {<<"plays", l.to, l.role>> : l \in links} ELSE {})
       \cup {<<"relates", l.from, l.role>> : l \in {m \in links : Checked(RelatesCard[m.from])}}

\* Mutant: a commit checks its locks against the deletes before it, not the other way round
ConflictsOneWay(b, c) ==
    \/ b.unmodifiable \cap c.deletes # {}
    \/ b.exclusive \cap c.exclusive # {}

\* the isolation manager's rule between a commit and one its snapshot has not seen
Conflicts(b, c) ==
    \/ b.deletes \cap c.unmodifiable # {}
    \/ b.unmodifiable \cap c.deletes # {}
    \/ b.exclusive \cap c.exclusive # {}

Finalised(t) ==
    LET b == CleanupAttributes(buffer[t], Snapshot(t))
    IN [b EXCEPT !.exclusive = CommitLocks(b)]

\* the graph after a commit: a Put leaves its key, whether or not it was there
After(b, g) == (g \cup b.inserts \cup b.puts) \ b.deletes

Commit(t) ==
    /\ phase[t] = "cleaned"
    /\ LET b == Finalised(t)
           unseen == (open[t] + 1)..Len(commits)
       IN IF b = EmptyBuffer \/ \E i \in unseen : Conflicts(b, commits[i].buffer)
          THEN UNCHANGED <<graphs, commits>>
          ELSE /\ Len(commits) < MaxCommits
               /\ commits' = Append(commits, [buffer |-> b, open |-> open[t], shorn |-> shorn[t]])
               /\ graphs' = Append(graphs, After(b, graphs[Len(graphs)]))
    /\ Close(t)
    /\ UNCHANGED <<unused, open, shorn, ops>>

-----------------------------------------------------------------------------
Init ==
    /\ \E g \in Start : graphs = <<g>> /\ unused = Object \ g
    /\ commits = <<>>
    /\ phase = [t \in Txn |-> "idle"]
    /\ open = [t \in Txn |-> 0]
    /\ buffer = [t \in Txn |-> EmptyBuffer]
    /\ shorn = [t \in Txn |-> {}]
    /\ ops = 0

Operation(t) ==
    /\ Editing(t)
    /\ \/ \E o \in Object : CreateObject(t, o) \/ DeleteObject(t, o)
       \/ \E a \in Attribute : CreateAttribute(t, a) \/ DeleteAttribute(t, a)
       \/ \E h \in Has : SetHas(t, h) \/ UnsetHasOf(t, h)
       \/ \E l \in Links : AddPlayer(t, l) \/ RemovePlayer(t, l)
       \/ Rollback(t)

Next ==
    \E t \in Txn :
        \/ \E s \in 0..Len(commits) : Open(t, s)
        \/ Operation(t)
        \/ Finalise(t) \/ CleanupEmptied(t) \/ CleanupCreated(t) \/ Commit(t)

Spec == Init /\ [][Next]_vars
-----------------------------------------------------------------------------
(* Properties.                                                               *)

Graph == graphs[Len(graphs)]

Buffer ==
    [inserts : SUBSET Object, puts : SUBSET (Attribute \cup Edge \cup Index),
     deletes : SUBSET (Vertex \cup Edge \cup Index), unmodifiable : SUBSET Vertex, exclusive : {{}}]

\* Every buffer holds keys of the kinds its operations write: objects are inserted and
\* everything else is put, as the `unreachable!` arms of get_status's callers suppose.
TypeOK ==
    /\ Len(graphs) = Len(commits) + 1
    /\ unused \subseteq Object
    /\ phase \in [Txn -> {"idle", "open", "emptied", "created", "cleaned", "closed"}]
    /\ open \in [Txn -> 0..Len(commits)]
    /\ buffer \in [Txn -> Buffer]
    /\ shorn \in [Txn -> SUBSET Relation]

\* What the buffer b does to the graph g that it reads leaves no edge without its ends, and
\* the instances its edges need and did not create are locked.
Anchored(b, g) ==
    /\ b.inserts \cap g = {}
    /\ b.deletes \subseteq g
    /\ b.puts \cap b.deletes = {}
    /\ \A k \in b.puts \cap Edge : \A v \in {k.from, k.to} :
           v \in View(b, g) /\ v \in b.inserts \cup b.unmodifiable
    /\ \A k \in g \cap Edge : \A v \in {k.from, k.to} : v \in b.deletes => k \in b.deletes

\* Every transaction keeps its own edits anchored between two operations, so that finalise
\* and the commit need not look at edges again: the existence validations, set_required
\* and the removal of edges in the delete functions.
BuffersAnchored == \A t \in Txn : Anchored(buffer[t], Snapshot(t))

\* Keys of K were written by two commits of which the later had not seen the earlier: any
\* two keys of K, the same one or not, put or deleted, at any time in the past.
Raced(K) ==
    \E i, j \in 1..Len(commits) :
        /\ commits[j].open < i /\ i < j
        /\ \A c \in {i, j} : (commits[c].buffer.puts \cup commits[c].buffer.deletes) \cap K # {}

\* The ends of every committed has and links edge are committed too, whatever the
\* transactions that deleted instances while others attached edges to them: set_required's
\* locks against delete_object's and delete_attribute's deletes.
NoDanglingEdges == \A k \in Graph \cap Edge : {k.from, k.to} \subseteq Graph

\* the relations that the clean-up of some commit has taken a player from
Spared == UNION {commits[i].shorn : i \in 1..Len(commits)}

\* Every committed object is within its cardinalities, though each transaction counts only
\* in its own snapshot and only what it changed: the exclusive locks of create_commit_locks.
\* The exception is a relation that a commit's clean-up has taken a player from, which may
\* have too few: finalise validates the cardinalities before cleanup_relations deletes the
\* relations without players, and those that they played in are not counted again.
CardinalityUnlessCleaned == WithinBut(Spared, Graph)

\* A @unique value has two owners only where concurrent transactions wrote their two has
\* edges: as long as none did, validate_has_unique_constraint keeps a value to one owner.
UniqueUnlessRaced ==
    \A h, k \in UniqueHas(Graph) : h.to = k.to /\ h.from # k.from => Raced({h, k})

\* The index holds exactly the pairs of players of a relation, unless concurrent transactions
\* have ever changed its players: relation_index_player_regenerate and _remove work on the snapshot's.
IndexUnlessRaced ==
    \A r \in Graph \cap Relation :
        \/ {i \in Graph \cap Index : \E l \in i.links : l.from = r}
              = UNION {IndexWith(l, Graph) : l \in PlayersOf(r, Graph)}
        \/ Raced({l \in Links : l.from = r})

\* An attribute that nobody owns is left only where concurrent transactions wrote it or its
\* has edges: cleanup_attributes removes it in every other case.
OwnedUnlessRaced ==
    \A a \in Unowned(Graph \cap Attribute, Graph) : Raced({a} \cup {h \in Has : h.to = a})

\* The graphs to start from are ones that transactions leave one after the other.
ASSUME StartAssumption ==
    \A g \in Start :
        /\ g \subseteq Vertex \cup Edge \cup Index
        /\ \A k \in g \cap Edge : {k.from, k.to} \subseteq g
        /\ \A r \in g \cap Relation : PlayersOf(r, g) # {}
        /\ g \cap Index = UNION {IndexWith(l, g) : l \in g \cap Links}
        /\ \A h, k \in UniqueHas(g) : h.to = k.to => h.from = k.from
        /\ Unowned(g \cap Attribute, g) = {}
        /\ WithinBut({}, g)

\* A schema's cardinalities are numbers, and there are finitely many edges to count.
ASSUME CardinalityAssumption ==
    /\ {OwnsCard, PlaysCard} \subseteq [min : Nat, max : Nat \cup {NoMax}]
    /\ RelatesCard \in [Relation -> [min : Nat, max : Nat \cup {NoMax}]]
    /\ Owner \cup Player \subseteq Object
    /\ IsFiniteSet(Has) /\ IsFiniteSet(Links)

\* Keys of different kinds differ: their prefixes do.
ASSUME KeyAssumption ==
    /\ Vertex \cap (Edge \cup Index) = {}
    /\ Object \cap Attribute = {}
=============================================================================
