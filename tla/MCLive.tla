------------------------------- MODULE MCLive -------------------------------
(* Small instances of Live for TLC. *)
EXTENDS Live, TLC

CONSTANTS r1, r2, a1, a2, k1, s1, s2

Goroutines == Permutations(Readers) \cup Permutations(Analyzers)
=============================================================================
