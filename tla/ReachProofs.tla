---------------------------- MODULE ReachProofs ----------------------------
(***************************************************************************)
(* What Closure of Reach computes: the least set that has the elements it  *)
(* starts from and all their successors.  The proofs need induction over   *)
(* the natural numbers, stated here for sets of them, and the existence of *)
(* functions that are defined by iteration.                                *)
(***************************************************************************)
EXTENDS Reach, FiniteSetTheorems, WellFoundedInduction, TLAPS

LEMMA Least ==
  ASSUME NEW T \in SUBSET Nat, T # {}
  PROVE  \E m \in T : \A n \in T : m <= n
<1>1. PICK m \in T : \A n \in T : ~ (<<n, m>> \in OpToRel(<, Nat))
  BY NatLessThanWellFounded, WFMin
<1>2. \A n \in T : ~(n < m)
  BY <1>1 DEF OpToRel
<1>3. QED
  BY <1>2

LEMMA Induction ==
  ASSUME NEW T \in SUBSET Nat, 0 \in T, \A n \in T : n + 1 \in T
  PROVE  T = Nat
<1>1. SUFFICES ASSUME Nat \ T # {} PROVE FALSE
  OBVIOUS
<1>2. PICK m \in Nat \ T : \A n \in Nat \ T : m <= n
  BY <1>1, Least
<1>3. m - 1 \in Nat /\ m - 1 \in T
  BY <1>2
<1>4. QED
  BY <1>2, <1>3

\* The first n steps of iterating F from a; F may look at the step's number.
First(U, F, a, n) ==
  {g \in [0..n -> U] : g[0] = a /\ \A i \in 0..n : i < n => g[i+1] = F[<<i, g[i]>>]}

LEMMA FirstExist ==
  ASSUME NEW U, NEW F \in [Nat \X U -> U], NEW a \in U
  PROVE  \A n \in Nat : First(U, F, a, n) # {}
<1> DEFINE T == {n \in Nat : First(U, F, a, n) # {}}
<1>1. 0 \in T
  <2>1. [i \in 0..0 |-> a] \in First(U, F, a, 0)
    BY DEF First
  <2>2. QED
    BY <2>1
<1>2. ASSUME NEW n \in T PROVE n + 1 \in T
  <2>1. n \in Nat
    OBVIOUS
  <2>2. PICK g \in [0..n -> U] : g[0] = a /\ \A i \in 0..n : i < n => g[i+1] = F[<<i, g[i]>>]
    BY DEF First
  <2>3. F[<<n, g[n]>>] \in U
    BY <2>1, <2>2
  <2> DEFINE h == [i \in 0..(n + 1) |-> IF i = n + 1 THEN F[<<n, g[n]>>] ELSE g[i]]
  <2>4. h \in [0..(n + 1) -> U] /\ h[0] = a
    BY <2>1, <2>2, <2>3
  <2>5. h[n+1] = F[<<n, g[n]>>] /\ \A i \in 0..n : h[i] = g[i]
    BY <2>1
  <2> HIDE DEF h
  <2>6. ASSUME NEW i \in 0..(n + 1), i < n + 1 PROVE h[i+1] = F[<<i, h[i]>>]
    <3>1. i \in 0..n /\ h[i] = g[i]
      BY <2>1, <2>5, <2>6
    <3>2. CASE i = n
      BY <2>5, <3>1, <3>2
    <3>3. CASE i < n
      <4>1. i + 1 \in 0..n /\ g[i+1] = F[<<i, g[i]>>]
        BY <2>1, <2>2, <3>1, <3>3
      <4>2. h[i+1] = g[i+1]
        BY <2>5, <4>1
      <4>3. QED
        BY <3>1, <4>1, <4>2
    <3>4. QED
      BY <2>1, <3>1, <3>2, <3>3
  <2>7. h \in First(U, F, a, n + 1)
    BY <2>4, <2>6 DEF First
  <2>8. QED
    BY <2>1, <2>7
<1> HIDE DEF T
<1>3. T = Nat
  <2>1. T \in SUBSET Nat
    BY DEF T
  <2>2. QED
    BY <1>1, <1>2, <2>1, Induction
<1>4. QED
  BY <1>3 DEF T

LEMMA FirstAgree ==
  ASSUME NEW U, NEW F \in [Nat \X U -> U], NEW a \in U,
         NEW m \in Nat, NEW n \in Nat, m <= n,
         NEW g \in First(U, F, a, m), NEW h \in First(U, F, a, n)
  PROVE  g[m] = h[m]
<1> DEFINE T == {i \in Nat : i <= m => g[i] = h[i]}
<1>1. g[0] = a /\ \A i \in 0..m : i < m => g[i+1] = F[<<i, g[i]>>]
  BY DEF First
<1>2. h[0] = a /\ \A i \in 0..n : i < n => h[i+1] = F[<<i, h[i]>>]
  BY DEF First
<1>3. 0 \in T
  BY <1>1, <1>2
<1>4. ASSUME NEW i \in T PROVE i + 1 \in T
  <2>1. i \in Nat /\ (i <= m => g[i] = h[i])
    OBVIOUS
  <2>2. ASSUME i + 1 <= m PROVE g[i+1] = h[i+1]
    <3>1. i \in 0..m /\ i < m /\ i \in 0..n /\ i < n /\ g[i] = h[i]
      BY <2>1, <2>2
    <3>2. g[i+1] = F[<<i, g[i]>>] /\ h[i+1] = F[<<i, h[i]>>]
      BY <1>1, <1>2, <3>1
    <3>3. QED
      BY <3>1, <3>2
  <2>3. QED
    BY <2>1, <2>2
<1> HIDE DEF T
<1>5. T = Nat
  <2>1. T \in SUBSET Nat
    BY DEF T
  <2>2. QED
    BY <1>3, <1>4, <2>1, Induction
<1>6. QED
  BY <1>5 DEF T

\* A function can be defined by iteration.
Iterates(f, U, F, a) ==
  f \in [Nat -> U] /\ f[0] = a /\ \A n \in Nat : f[n+1] = F[<<n, f[n]>>]

LEMMA Iterated ==
  ASSUME NEW U, NEW F \in [Nat \X U -> U], NEW a \in U
  PROVE  \E f : Iterates(f, U, F, a)
<1> DEFINE G(n) == CHOOSE g : g \in First(U, F, a, n)
           f == [n \in Nat |-> G(n)[n]]
<1>1. \A n \in Nat : G(n) \in First(U, F, a, n)
  BY FirstExist
<1> HIDE DEF G
<1>2. \A n \in Nat : G(n) \in [0..n -> U] /\ G(n)[0] = a
  BY <1>1 DEF First
<1>3. f \in [Nat -> U] /\ f[0] = a
  BY <1>2
<1>4. ASSUME NEW n \in Nat PROVE f[n+1] = F[<<n, f[n]>>]
  <2>1. G(n)[n] = G(n+1)[n]
    BY <1>1, FirstAgree
  <2>2. G(n+1)[n+1] = F[<<n, G(n+1)[n]>>]
    BY <1>1 DEF First
  <2>3. QED
    BY <2>1, <2>2
<1>5. QED
  BY <1>3, <1>4 DEF Iterates

-----------------------------------------------------------------------------
\* next leads from nodes to nodes.
Leads(next) == IsFiniteSet(DOMAIN next) /\ \A b \in DOMAIN next : next[b] \subseteq DOMAIN next

\* One round of Closure.
Grown(seen, next) == seen \cup UNION {next[b] : b \in seen}

LEMMA Rounds ==
  ASSUME NEW next, Leads(next), NEW S \in SUBSET DOMAIN next
  PROVE  \E reach \in [Nat -> SUBSET DOMAIN next] :
           /\ reach[0] = S
           /\ \A n \in Nat : reach[n+1] = Grown(reach[n], next)
           /\ Closure(S, next) = reach[Cardinality(DOMAIN next)]
<1> DEFINE D == DOMAIN next
           F == [p \in Nat \X SUBSET D |-> Grown(p[2], next)]
<1>1. \A seen \in SUBSET D : Grown(seen, next) \in SUBSET D
  BY DEF Leads, Grown
<1>2. F \in [Nat \X SUBSET D -> SUBSET D]
  BY <1>1
<1>3. \A n \in Nat, seen \in SUBSET D : F[<<n, seen>>] = Grown(seen, next)
  OBVIOUS
<1> HIDE DEF F
<1>4. PICK f \in [Nat -> SUBSET D] : f[0] = S /\ \A n \in Nat : f[n+1] = F[<<n, f[n]>>]
  <2>1. \E f : Iterates(f, SUBSET D, F, S)
    BY <1>2, Iterated
  <2>2. QED
    BY <2>1 DEF Iterates
<1>5. \A n \in Nat : f[n+1] = Grown(f[n], next)
  BY <1>3, <1>4
<1>6. f = [n \in Nat |-> IF n = 0 THEN S ELSE LET seen == f[n-1] IN seen \cup UNION {next[b] : b \in seen}]
  <2>1. \A n \in Nat : n # 0 => f[n] = Grown(f[n-1], next)
    <3>1. SUFFICES ASSUME NEW n \in Nat, n # 0 PROVE f[n] = Grown(f[n-1], next)
      OBVIOUS
    <3>2. n - 1 \in Nat /\ (n - 1) + 1 = n
      BY <3>1
    <3>3. QED
      BY <1>5, <3>2
  <2>2. f = [n \in Nat |-> IF n = 0 THEN S ELSE Grown(f[n-1], next)]
    BY <1>4, <2>1
  <2>3. QED
    BY <2>2 DEF Grown
<1> DEFINE reach[n \in Nat] ==
        IF n = 0 THEN S ELSE LET seen == reach[n-1] IN seen \cup UNION {next[b] : b \in seen}
<1>7. reach = [n \in Nat |-> IF n = 0 THEN S ELSE LET seen == reach[n-1] IN seen \cup UNION {next[b] : b \in seen}]
  BY <1>6
<1>8. Closure(S, next) = reach[Cardinality(D)]
  BY DEF Closure
<1> HIDE DEF reach
<1>9. \A n \in Nat : reach[n] = f[n]
  <2> DEFINE T == {n \in Nat : reach[n] = f[n]}
  <2>1. 0 \in T
    BY <1>4, <1>7
  <2>2. ASSUME NEW n \in T PROVE n + 1 \in T
    <3>1. n \in Nat /\ reach[n] = f[n]
      OBVIOUS
    <3>2. reach[n+1] = Grown(reach[n], next)
      BY <1>7, <3>1 DEF Grown
    <3>3. QED
      BY <1>5, <3>1, <3>2
  <2> HIDE DEF T
  <2>3. T = Nat
    <3>1. T \in SUBSET Nat
      BY DEF T
    <3>2. QED
      BY <2>1, <2>2, <3>1, Induction
  <2>4. QED
    BY <2>3 DEF T
<1>10. Cardinality(D) \in Nat
  BY FS_CardinalityType DEF Leads
<1>11. QED
  BY <1>4, <1>5, <1>8, <1>9, <1>10

\* Closure has what it starts from.
LEMMA ClosureStarts ==
  ASSUME NEW next, Leads(next), NEW S \in SUBSET DOMAIN next
  PROVE  S \subseteq Closure(S, next) /\ Closure(S, next) \subseteq DOMAIN next
<1>1. PICK reach \in [Nat -> SUBSET DOMAIN next] :
        /\ reach[0] = S
        /\ \A n \in Nat : reach[n+1] = Grown(reach[n], next)
        /\ Closure(S, next) = reach[Cardinality(DOMAIN next)]
  BY Rounds
<1> DEFINE T == {n \in Nat : S \subseteq reach[n]}
<1>2. 0 \in T
  BY <1>1
<1>3. \A n \in T : n + 1 \in T
  BY <1>1 DEF Grown
<1> HIDE DEF T
<1>4. T = Nat
  <2>1. T \in SUBSET Nat
    BY DEF T
  <2>2. QED
    BY <1>2, <1>3, <2>1, Induction
<1>5. Cardinality(DOMAIN next) \in Nat
  BY FS_CardinalityType DEF Leads
<1>6. QED
  BY <1>1, <1>4, <1>5 DEF T

\* It is in every set that has what it starts from and all successors.
LEMMA ClosureLeast ==
  ASSUME NEW next, Leads(next), NEW S \in SUBSET DOMAIN next,
         NEW V, S \subseteq V, \A b \in V \cap DOMAIN next : next[b] \subseteq V
  PROVE  Closure(S, next) \subseteq V
<1>1. PICK reach \in [Nat -> SUBSET DOMAIN next] :
        /\ reach[0] = S
        /\ \A n \in Nat : reach[n+1] = Grown(reach[n], next)
        /\ Closure(S, next) = reach[Cardinality(DOMAIN next)]
  BY Rounds
<1> DEFINE T == {n \in Nat : reach[n] \subseteq V}
<1>2. 0 \in T
  BY <1>1
<1>3. ASSUME NEW n \in T PROVE n + 1 \in T
  <2>1. n \in Nat /\ reach[n] \subseteq V /\ reach[n] \subseteq DOMAIN next
    BY <1>1
  <2>2. Grown(reach[n], next) \subseteq V
    BY <2>1 DEF Grown
  <2>3. QED
    BY <1>1, <2>1, <2>2
<1> HIDE DEF T
<1>4. T = Nat
  <2>1. T \in SUBSET Nat
    BY DEF T
  <2>2. QED
    BY <1>2, <1>3, <2>1, Induction
<1>5. Cardinality(DOMAIN next) \in Nat
  BY FS_CardinalityType DEF Leads
<1>6. QED
  BY <1>1, <1>4, <1>5 DEF T

\* As many rounds as there are nodes are enough: it has all successors.
LEMMA ClosureClosed ==
  ASSUME NEW next, Leads(next), NEW S \in SUBSET DOMAIN next
  PROVE  \A b \in Closure(S, next) : next[b] \subseteq Closure(S, next)
<1>1. PICK reach \in [Nat -> SUBSET DOMAIN next] :
        /\ reach[0] = S
        /\ \A n \in Nat : reach[n+1] = Grown(reach[n], next)
        /\ Closure(S, next) = reach[Cardinality(DOMAIN next)]
  BY Rounds
<1>2. \A n \in Nat : IsFiniteSet(reach[n]) /\ Cardinality(reach[n]) \in Nat
  BY <1>1, FS_Subset, FS_CardinalityType DEF Leads
\* Either a round adds something or none after it does.
<1> DEFINE T == {n \in Nat : reach[n+1] = reach[n] \/ Cardinality(reach[n]) >= n}
<1>3. 0 \in T
  BY <1>2
<1>4. ASSUME NEW n \in T PROVE n + 1 \in T
  <2>1. n \in Nat /\ n + 1 \in Nat
    OBVIOUS
  <2>2. reach[n+1] = Grown(reach[n], next) /\ reach[n+1+1] = Grown(reach[n+1], next)
    BY <1>1, <2>1
  <2>3. CASE reach[n+1] = reach[n]
    BY <2>1, <2>2, <2>3
  <2>4. CASE reach[n+1] # reach[n] /\ Cardinality(reach[n]) >= n
    <3>1. reach[n] \in SUBSET reach[n+1]
      BY <2>2 DEF Grown
    <3>2. /\ Cardinality(reach[n]) <= Cardinality(reach[n+1])
          /\ Cardinality(reach[n]) # Cardinality(reach[n+1])
      BY <1>2, <2>1, <2>4, <3>1, FS_Subset
    <3>3. Cardinality(reach[n+1]) >= n + 1
      BY <1>2, <2>1, <2>4, <3>2
    <3>4. QED
      BY <2>1, <3>3
  <2>5. QED
    BY <2>3, <2>4
<1> HIDE DEF T
<1>5. T = Nat
  <2>1. T \in SUBSET Nat
    BY DEF T
  <2>2. QED
    BY <1>3, <1>4, <2>1, Induction
<1> DEFINE N == Cardinality(DOMAIN next)
<1>6. N \in Nat
  BY FS_CardinalityType DEF Leads
<1>7. reach[N+1] = reach[N] \/ Cardinality(reach[N]) >= N
  BY <1>5, <1>6 DEF T
<1>8. reach[N+1] = Grown(reach[N], next)
  BY <1>1, <1>6
<1>9. CASE reach[N+1] = reach[N]
  BY <1>1, <1>8, <1>9 DEF Grown
<1>10. CASE Cardinality(reach[N]) >= N
  <2>1. reach[N] \in SUBSET DOMAIN next
    BY <1>1, <1>6
  <2>2. /\ Cardinality(reach[N]) <= N
        /\ Cardinality(DOMAIN next) = Cardinality(reach[N]) => DOMAIN next = reach[N]
    BY <2>1, FS_Subset DEF Leads
  <2>3. reach[N] = DOMAIN next
    BY <1>2, <1>6, <1>10, <2>2
  <2>4. QED
    BY <1>1, <2>3 DEF Leads
<1>11. QED
  BY <1>7, <1>9, <1>10
=============================================================================
