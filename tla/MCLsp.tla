-------------------------------- MODULE MCLsp -------------------------------
(* Small instances of Lsp for TLC. *)
EXTENDS Lsp, TLC

CONSTANTS c1, c2, x1, f1
SameCallers == Permutations(Callers)
=============================================================================
