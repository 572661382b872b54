---------------------- MODULE MCTransactionExclusivity ----------------------
(* With four requests two kinds queue behind each other while a third runs   *)
(* and a fourth has timed out.                                               *)
EXTENDS TransactionExclusivity
=============================================================================
