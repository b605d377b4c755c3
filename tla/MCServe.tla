------------------------------ MODULE MCServe -------------------------------
(* Small instances of Serve for TLC: two files, a clock of quarter or half *)
(* seconds.                                                                *)
EXTENDS Serve, TLC

CONSTANTS f1, f2
SameFiles == Permutations(Files)
=============================================================================
