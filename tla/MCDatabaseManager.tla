------------------------- MODULE MCDatabaseManager -------------------------
(* A small instance of DatabaseManager for TLC.                              *)
EXTENDS DatabaseManager, TLC

CONSTANTS c1, c2, c3, a, b

ClientSymmetry == Permutations(Client)
=============================================================================
