------------------------- MODULE MCTransactionService -------------------------
(***************************************************************************)
(* Instances of TransactionService for TLC.                                *)
(***************************************************************************)
EXTENDS TransactionService

Both == {"grpc", "http"}
LongFirst == [id \in 1..MaxRequests |-> IF id = 1 THEN 5 ELSE 2]
Http == {"http"}
=============================================================================
