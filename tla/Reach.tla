------------------------------- MODULE Reach -------------------------------
(* Reachability, which most of the analysis asks for. *)
EXTENDS Integers, FiniteSets

\* What can be reached from S along next, a function to sets of successors.
Closure(S, next) ==
  LET reach[n \in Nat] ==
        IF n = 0 THEN S
        ELSE LET seen == reach[n-1] IN seen \cup UNION {next[b] : b \in seen}
  IN  reach[Cardinality(DOMAIN next)]
=============================================================================
