-------------------------- MODULE MCDatabaseSchema --------------------------
EXTENDS DatabaseSchema, TLC

CONSTANTS object, edge

MCKey == {object, edge}
MCObjectKey == {object}
Interchangeable == Permutations(Txn)
=============================================================================
