------------------------- MODULE MCIsolationManager -------------------------
(* Small instances of IsolationManager for TLC.                              *)
EXTENDS IsolationRefinement, TLC

CONSTANTS k, v

Buf(w, l) == [writes |-> [x \in Key |-> w], locks |-> [x \in Key |-> l]]
PutK == Buf([op |-> "Put", val |-> v], "None")
DeleteK == Buf([op |-> "Delete"], "None")
RequireK == Buf(NoWrite, "Unmodifiable")
ClaimK == Buf([op |-> "Insert", val |-> v], "Exclusive")

MCKey == {k}
MCVal == {v}
NoSeqs == {}
OldSeqs == {1, 2}
PutOnly == {PutK}
LockOps == {DeleteK, RequireK, ClaimK}
MixedOps == {PutK, DeleteK, RequireK}
TxnSymmetry == Permutations(Txn)
=============================================================================
