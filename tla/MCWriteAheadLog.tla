--------------------------- MODULE MCWriteAheadLog ---------------------------
(* A small instance of WriteAheadLog for TLC.                                *)
EXTENDS WriteAheadLog

\* Two records to a file: the third commit, or a status record, causes a rotation
MCWriter == 1..3
=============================================================================
