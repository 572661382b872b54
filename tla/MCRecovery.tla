----------------------------- MODULE MCRecovery -----------------------------
(* Small instances of Recovery for TLC.                                      *)
EXTENDS Recovery, TLC

CONSTANTS k1, k2, v

Unlocked == [x \in Key |-> "None"]
Erase == [op |-> "Delete"]
Assign == [op |-> "Insert", val |-> v]
Buf(w, l) == [writes |-> w, locks |-> l]

\* with two keys: one moves a value from k1 to k2, the others require k1
MoveValue == Buf((k1 :> Erase) @@ (k2 :> Assign), Unlocked)
RequireOnly == Buf([x \in Key |-> NoWrite], (k1 :> "Unmodifiable") @@ (k2 :> "None"))

\* with one key
PutK1 == Buf(k1 :> [op |-> "Put", val |-> v], Unlocked)
DeleteK1 == Buf(k1 :> Erase, Unlocked)

MCVal == {v}
OneKey == {k1}
TwoKeys == {k1, k2}
MoveOrRequire == {MoveValue, RequireOnly}
PutOps == {PutK1, DeleteK1}
TxnSymmetry == Permutations(Txn)
=============================================================================
