---------------------------- MODULE CommitRecords ----------------------------
(***************************************************************************)
(* What a commit contains, how it depends on a commit before it, and which *)
(* versions of its keys it writes.                                         *)
(***************************************************************************)
EXTENDS Integers

CONSTANTS
    Key,         \* storage keys (lock keys included)
    Val          \* values

NoWrite == [op |-> "None"]
Write == {NoWrite, [op |-> "Delete"]} \cup [op : {"Insert", "Put"}, val : Val]
Lock == {"None", "Unmodifiable", "Exclusive"}
Buffer == [writes : [Key -> Write], locks : [Key -> Lock]]
Version == [seq : Nat, op : {"Insert"}, val : Val] \cup [seq : Nat, op : {"Delete"}]

-----------------------------------------------------------------------------
NoVersion == [seq |-> 0, op |-> "Delete"]
Newest(V) == IF V = {} THEN NoVersion ELSE CHOOSE v \in V : \A w \in V : w.seq <= v.seq
UpTo(V, s) == {v \in V : v.seq <= s}
\* the version of k that a snapshot at s sees, store being the versions of each key
VisibleIn(store, k, s) == Newest(UpTo(store[k], s))

Puts(o) == {k \in Key : o.writes[k].op = "Put"}

\* set_initial_put_status: the keys whose Put must be written unless a concurrent
\* commit writes them.  put_existing, whose writes are known to exist, has no caller.
StalePuts(o, store, s) ==
    {k \in Puts(o) : ~(/\ VisibleIn(store, k, s).op = "Insert"
                       /\ VisibleIn(store, k, s).val = o.writes[k].val)}

Conflicts(o, p) ==
    \E k \in Key :
        \/ o.writes[k].op = "Delete" /\ p.locks[k] = "Unmodifiable"
        \/ o.locks[k] = "Unmodifiable" /\ p.writes[k].op = "Delete"
        \/ o.locks[k] = "Exclusive" /\ p.locks[k] = "Exclusive"

DependentPuts(o, p) == {k \in Puts(o) : p.writes[k].op # "None"}
Independent(o, p) == ~Conflicts(o, p) /\ DependentPuts(o, p) = {}

\* Mutant: a Put is not written again after a concurrent delete
ReinsertsNoDeleted(o, p, flags) ==
    flags \ {k \in DependentPuts(o, p) : p.writes[k].op \in {"Insert", "Put"}}

\* handle_dependency: the reinsert flags after the predecessor's writes
Reinserts(o, p, flags) ==
    (flags \ {k \in DependentPuts(o, p) : p.writes[k].op \in {"Insert", "Put"}})
        \cup {k \in DependentPuts(o, p) : p.writes[k].op = "Delete"}

\* The versions a commit writes: inserts, reinserted puts and deletes
NewVersions(k, s, o, flags) ==
    CASE o.writes[k].op = "Insert" \/ k \in flags ->
            {[seq |-> s, op |-> "Insert", val |-> o.writes[k].val]}
      [] o.writes[k].op = "Delete" -> {[seq |-> s, op |-> "Delete"]}
      [] OTHER -> {}
=============================================================================
