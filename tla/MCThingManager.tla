--------------------------- MODULE MCThingManager ---------------------------
EXTENDS ThingManager, TLC

CONSTANTS e1, e2, r1, r2, a1, a2, a3, roleA, roleB

MCEntity == {e1, e2}
MCRelation == {r1, r2}
MCAttribute == {a1, a2, a3}
MCRole == {roleA, roleB}

HasEdge(o, a) == [kind |-> "has", from |-> o, to |-> a]
LinksEdge(r, p, role) == [kind |-> "links", from |-> r, to |-> p, role |-> role]

\* two owned entities and a relation between them
Related ==
    LET l == LinksEdge(r1, e1, roleA)
        q == LinksEdge(r1, e2, roleB)
    IN {e1, a1, a2, HasEdge(e1, a1), HasEdge(e1, a2), e2, a3, HasEdge(e2, a3), r1,
        HasEdge(r1, a1), l, q, IndexOf(l, q)}

\* a relation that plays in another
Nested ==
    LET l == LinksEdge(r2, r1, roleA)
        q == LinksEdge(r2, e1, roleB)
    IN {e1, a1, HasEdge(e1, a1), r1, HasEdge(r1, a1), LinksEdge(r1, e1, roleA),
        r2, HasEdge(r2, a1), l, q, IndexOf(l, q)}
MCStart == {Related, Nested}
MCObject == MCEntity \cup MCRelation

\* A transaction reads its snapshot and its own buffer only, and may open at any earlier
\* number: running one transaction after the other reaches every committed graph.
OneAtATime ==
    Cardinality({t \in Txn : phase[t] \notin {"idle", "closed"}}) <= 1
Interchangeable == Permutations(Txn)

ZeroOrOne == [min |-> 0, max |-> 1]
OneOrTwo == [min |-> 1, max |-> 2]

\* r1 may have no player of a role, r2 needs one
MCRelatesCard == [r \in MCRelation |-> IF r = r1 THEN ZeroOrOne ELSE OneOrTwo]
=============================================================================
