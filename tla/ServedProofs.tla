---------------------------- MODULE ServedProofs ----------------------------
(***************************************************************************)
(* Theorems about the graph of an analyzed program and what its flow shows *)
(* of the requests that are executed.                                      *)
(***************************************************************************)
EXTENDS Served, FlowProofs, RequestsProofs

-----------------------------------------------------------------------------
\* Sequences of sequences.
LEMMA Flattened ==
  ASSUME NEW S, NEW seqs \in Seq(Seq(S)), NEW T \in SUBSET Seq(S), <<>> \in T, \A s, t \in T : s \o t \in T,
         \A i \in DOMAIN seqs : seqs[i] \in T
  PROVE  /\ FlattenSeq(seqs) \in T
         /\ Range(FlattenSeq(seqs)) = UNION {Range(seqs[i]) : i \in DOMAIN seqs}
<1> DEFINE n == Len(seqs)
<1>1. n \in Nat /\ DOMAIN seqs = 1..n /\ \A i \in 1..n : seqs[i] \in T /\ seqs[i] \in Seq(S)
  OBVIOUS
<1>2. CASE n = 0
  <2>1. seqs = <<>> /\ FlattenSeq(seqs) = <<>> /\ DOMAIN seqs = {}
    BY <1>1, <1>2 DEF FlattenSeq
  <2>2. Range(FlattenSeq(seqs)) = {}
    BY <2>1 DEF Range
  <2>3. QED
    BY <2>1, <2>2
<1>3. CASE n # 0
  <2> DEFINE F == [p \in Nat \X Seq(S) |-> IF p[1] + 2 \in 1..n THEN p[2] \o seqs[p[1] + 2] ELSE p[2]]
  <2>1. 1 \in 1..n /\ seqs[1] \in Seq(S)
    BY <1>1, <1>3
  <2>2. F \in [Nat \X Seq(S) -> Seq(S)]
    <3>1. \A p \in Nat \X Seq(S) : F[p] \in Seq(S)
      BY <1>1
    <3>2. QED
      BY <3>1
  <2>3. \A k \in Nat, s \in Seq(S) : k + 2 \in 1..n => F[<<k, s>>] = s \o seqs[k + 2]
    OBVIOUS
  <2> HIDE DEF F
  <2>4. PICK f \in [Nat -> Seq(S)] : f[0] = seqs[1] /\ \A k \in Nat : f[k+1] = F[<<k, f[k]>>]
    <3>1. \E f : Iterates(f, Seq(S), F, seqs[1])
      BY <2>1, <2>2, Iterated
    <3>2. QED
      BY <3>1 DEF Iterates
  <2> DEFINE g == [i \in 1..n |-> f[i-1]]
  <2>5. g = [i \in 1..n |-> IF i = 1 THEN seqs[i] ELSE g[i-1] \o seqs[i]]
    <3>1. ASSUME NEW i \in 1..n PROVE g[i] = IF i = 1 THEN seqs[i] ELSE g[i-1] \o seqs[i]
      <4>1. CASE i = 1
        BY <2>4, <4>1
      <4>2. CASE i # 1
        <5>1. i - 2 \in Nat /\ (i - 2) + 1 = i - 1 /\ (i - 2) + 2 = i /\ i - 1 \in 1..n /\ (i - 1) - 1 = i - 2
          BY <1>1, <4>2
        <5>2. f[i-1] = F[<<i - 2, f[i-2]>>]
          BY <2>4, <5>1
        <5>3. f[i-2] \in Seq(S)
          BY <2>4, <5>1
        <5>4. f[i-1] = f[i-2] \o seqs[i]
          BY <2>3, <5>1, <5>2, <5>3
        <5>5. g[i] = f[i-1] /\ g[i-1] = f[i-2]
          BY <5>1
        <5>6. QED
          BY <4>2, <5>4, <5>5
      <4>3. QED
        BY <4>1, <4>2
    <3> HIDE DEF g
    <3>2. DOMAIN g = 1..n /\ g = [i \in 1..n |-> g[i]]
      BY DEF g
    <3>3. QED
      BY <3>1, <3>2
  <2> HIDE DEF g
  <2> DEFINE flatten[i \in 1..n] == IF i = 1 THEN seqs[i] ELSE flatten[i-1] \o seqs[i]
  <2>6. flatten = [i \in 1..n |-> IF i = 1 THEN seqs[i] ELSE flatten[i-1] \o seqs[i]]
    BY <2>5
  <2>7. FlattenSeq(seqs) = flatten[n]
    BY <1>3 DEF FlattenSeq
  <2> HIDE DEF flatten
  <2> DEFINE Parts(k) == UNION {Range(seqs[j]) : j \in 1..k}
  <2>8. Parts(1) = Range(seqs[1])
    <3>1. 1..1 = {1}
      OBVIOUS
    <3>2. QED
      BY <3>1
  <2>9. ASSUME NEW k \in Nat PROVE Parts(k + 1) = Parts(k) \cup Range(seqs[k+1])
    <3>1. /\ \A j \in 1..(k + 1) : j \in 1..k \/ j = k + 1
          /\ \A j \in 1..k : j \in 1..(k + 1)
          /\ k + 1 \in 1..(k + 1)
      OBVIOUS
    <3>2. QED
      BY <3>1
  <2>10. Parts(n) = UNION {Range(seqs[i]) : i \in DOMAIN seqs}
    BY <1>1
  <2> HIDE DEF Parts
  <2> DEFINE Z == {k \in Nat : k + 1 <= n => flatten[k+1] \in T /\ Range(flatten[k+1]) = Parts(k+1)}
  <2>11. 0 \in Z
    <3>1. flatten[1] = seqs[1] /\ 0 + 1 = 1
      BY <2>1, <2>6
    <3>2. QED
      BY <1>1, <2>1, <2>8, <3>1
  <2>12. ASSUME NEW k \in Z PROVE k + 1 \in Z
    <3>1. k \in Nat /\ (k + 1 <= n => flatten[k+1] \in T /\ Range(flatten[k+1]) = Parts(k + 1))
      OBVIOUS
    <3> HIDE DEF Z
    <3>2. ASSUME (k + 1) + 1 <= n
          PROVE  flatten[(k + 1) + 1] \in T /\ Range(flatten[(k + 1) + 1]) = Parts((k + 1) + 1)
      <4> DEFINE m == k + 1
      <4>1. m \in Nat /\ m + 1 \in 1..n /\ m + 1 # 1 /\ (m + 1) - 1 = m /\ k + 1 <= n
        <5>1. k \in Nat /\ n \in Nat /\ (k + 1) + 1 <= n
          BY <1>1, <3>1, <3>2
        <5> HIDE DEF n
        <5>2. QED
          BY <5>1
      <4>2. flatten[m] \in T /\ Range(flatten[m]) = Parts(m)
        BY <3>1, <4>1
      <4> HIDE DEF m
      <4>3. flatten[m+1] = flatten[m] \o seqs[m+1]
        BY <2>6, <4>1
      <4>4. seqs[m+1] \in T
        BY <1>1, <4>1
      <4>5. flatten[m] \in Seq(S) /\ seqs[m+1] \in Seq(S)
        BY <4>2, <4>4
      <4>6. PICK a, b : a = flatten[m] /\ b = seqs[m+1]
        OBVIOUS
      <4>7. Range(a \o b) = Range(a) \cup Range(b) /\ a \o b \in T
        <5>1. a \in T /\ b \in T
          BY <4>2, <4>4, <4>6
        <5>2. a \o b \in T
          BY <5>1
        <5>3. a \in Seq(S) /\ b \in Seq(S)
          BY <4>5, <4>6
        <5>4. QED
          BY <5>2, <5>3, RangeConcatenation
      <4>8. flatten[m+1] \in T /\ Range(flatten[m+1]) = Parts(m + 1)
        BY <2>9, <4>1, <4>2, <4>3, <4>6, <4>7
      <4>9. QED
        BY <4>8 DEF m
    <3>3. QED
      BY <3>1, <3>2 DEF Z
  <2> HIDE DEF Z
  <2>13. n - 1 \in Z
    <3>1. Z \in SUBSET Nat
      BY DEF Z
    <3>2. Z = Nat
      BY <2>11, <2>12, <3>1, Induction
    <3>3. QED
      BY <1>1, <1>3, <3>2
  <2>14. flatten[n] \in T /\ Range(flatten[n]) = Parts(n)
    <3>1. (n - 1) + 1 = n /\ n <= n
      BY <1>1
    <3>2. n - 1 \in Nat /\ ((n - 1) + 1 <= n => flatten[(n-1)+1] \in T /\ Range(flatten[(n-1)+1]) = Parts((n-1)+1))
      BY <2>13 DEF Z
    <3>3. QED
      BY <3>1, <3>2
  <2>15. QED
    BY <2>7, <2>10, <2>14
<1>4. QED
  BY <1>2, <1>3

\* The elements of a finite set in a sequence.
LEMMA SetInSeq ==
  ASSUME NEW S, IsFiniteSet(S)
  PROVE  SetToSeq(S) \in Seq(S) /\ Range(SetToSeq(S)) = S
<1>1. Cardinality(S) \in Nat
  BY FS_CardinalityType
<1> DEFINE g == SetToSeq(S)
<1>2. ExistsBijection(1..Cardinality(S), S)
  BY FS_CardinalityType
<1>3. \E f \in [1..Cardinality(S) -> S] : IsInjective(f)
  BY <1>2 DEF ExistsBijection, Bijection, Injection
<1>4. g \in [1..Cardinality(S) -> S] /\ IsInjective(g)
  BY <1>3 DEF SetToSeq
<1> HIDE DEF g
<1>5. g \in Seq(S)
  BY <1>1, <1>4
<1>6. g \in Surjection(1..Cardinality(S), S)
  <2>1. g \in Injection(1..Cardinality(S), S)
    BY <1>4 DEF Injection
  <2>2. IsFiniteSet(1..Cardinality(S)) /\ Cardinality(1..Cardinality(S)) = Cardinality(S)
    BY <1>1, FS_Interval
  <2>3. QED
    BY <2>1, <2>2, FS_Injection
<1>7. Range(g) = S
  BY <1>4, <1>6 DEF Surjection, Range
<1>8. QED
  BY <1>5, <1>7 DEF g

-----------------------------------------------------------------------------
\* Writes.
WellFormed(g) ==
  /\ IsGraph(g) /\ g = [nodes |-> g.nodes, edges |-> g.edges, ok |-> g.ok] /\ g.ok \in BOOLEAN
  /\ g.nodes = [x \in DOMAIN g.nodes |-> g.nodes[x]]

IsWrite(w) == IsNodeWrite(w) \/ (w.pos \in Int /\ w.branch \in Int)
IsWrites(ws) == IsSeq(ws) /\ \A w \in Range(ws) : IsWrite(w)

LEMMA OpenFormed == WellFormed(Open) /\ Open.ok /\ DOMAIN Open.nodes = {} /\ Range(Open.edges) = {}
<1>1. Open.nodes = <<>> /\ Open.edges = <<>> /\ Open.ok = TRUE
  BY DEF Open
<1>2. DOMAIN Open.nodes = {} /\ DOMAIN Open.edges = {} /\ IsFiniteSet({})
  BY <1>1, FS_EmptySet
<1>3. Range(Open.edges) = {} /\ IsSeq(Open.edges)
  BY <1>1, <1>2 DEF Range, IsSeq
<1>4. Open.nodes = [x \in DOMAIN Open.nodes |-> Open.nodes[x]]
  BY <1>1
<1>5. Open = [nodes |-> Open.nodes, edges |-> Open.edges, ok |-> Open.ok] /\ Open.ok \in BOOLEAN
  BY DEF Open
<1>6. IsGraph(Open)
  BY <1>2, <1>3 DEF IsGraph
<1>7. QED
  BY <1>1, <1>2, <1>3, <1>4, <1>5, <1>6 DEF WellFormed

\* AddNode changes the nodes of a graph.
LEMMA NodeAdded ==
  ASSUME NEW g, WellFormed(g), NEW id, NEW n, NEW h, h = AddNode(g, id, n)
  PROVE  /\ WellFormed(h) /\ h.edges = g.edges
         /\ g.ok /\ n.kind \in NodeKinds =>
              /\ h.ok /\ DOMAIN h.nodes = DOMAIN g.nodes \cup {id}
              /\ h.nodes[id] = n /\ \A x \in DOMAIN g.nodes \ {id} : h.nodes[x] = g.nodes[x]
         /\ ~(g.ok /\ n.kind \in NodeKinds) => ~h.ok /\ h.nodes = g.nodes
<1>1. /\ IsGraph(g) /\ g = [nodes |-> g.nodes, edges |-> g.edges, ok |-> g.ok] /\ g.ok \in BOOLEAN
      /\ g.nodes = [x \in DOMAIN g.nodes |-> g.nodes[x]]
  BY DEF WellFormed
<1> DEFINE more == [x \in DOMAIN g.nodes \cup {id} |-> IF x = id THEN n ELSE g.nodes[x]]
<1>2. \/ ~(g.ok /\ n.kind \in NodeKinds) /\ h = [nodes |-> g.nodes, edges |-> g.edges, ok |-> FALSE]
      \/ g.ok /\ n.kind \in NodeKinds /\ h = [nodes |-> more, edges |-> g.edges, ok |-> TRUE]
  <2>1. CASE ~g.ok
    <3>1. h = g /\ g.ok = FALSE
      BY <1>1, <2>1 DEF AddNode
    <3>2. QED
      BY <1>1, <2>1, <3>1
  <2>2. CASE g.ok /\ n.kind \notin NodeKinds
    <3>1. h = [g EXCEPT !.ok = FALSE]
      BY <2>2 DEF AddNode, Failed
    <3>2. QED
      BY <1>1, <2>2, <3>1
  <2>3. CASE g.ok /\ n.kind \in NodeKinds
    <3>1. h = [g EXCEPT !.nodes = more] /\ g.ok = TRUE
      BY <1>1, <2>3 DEF AddNode
    <3> HIDE DEF more
    <3>2. h = [nodes |-> more, edges |-> g.edges, ok |-> TRUE]
      BY <1>1, <3>1
    <3>3. QED
      BY <2>3, <3>2
  <2>4. QED
    BY <2>1, <2>2, <2>3
<1>3. /\ DOMAIN more = DOMAIN g.nodes \cup {id} /\ more[id] = n
      /\ \A x \in DOMAIN g.nodes \ {id} : more[x] = g.nodes[x]
      /\ more = [x \in DOMAIN more |-> more[x]]
  OBVIOUS
<1> HIDE DEF more
<1>4. CASE ~(g.ok /\ n.kind \in NodeKinds) /\ h = [nodes |-> g.nodes, edges |-> g.edges, ok |-> FALSE]
  <2>1. h.nodes = g.nodes /\ h.edges = g.edges /\ h.ok = FALSE
    BY <1>4
  <2>2. IsGraph(h)
    BY <1>1, <2>1 DEF IsGraph
  <2>3. WellFormed(h)
    BY <1>1, <1>4, <2>1, <2>2 DEF WellFormed
  <2>4. QED
    BY <1>4, <2>1, <2>3
<1>5. CASE g.ok /\ n.kind \in NodeKinds /\ h = [nodes |-> more, edges |-> g.edges, ok |-> TRUE]
  <2>1. h.nodes = more /\ h.edges = g.edges /\ h.ok = TRUE
    BY <1>5
  <2>2. IsFiniteSet(DOMAIN g.nodes \cup {id})
    BY <1>1, FS_AddElement DEF IsGraph
  <2>3. IsGraph(h)
    BY <1>1, <1>3, <2>1, <2>2 DEF IsGraph
  <2>4. WellFormed(h)
    BY <1>3, <1>5, <2>1, <2>3 DEF WellFormed
  <2>5. QED
    BY <1>3, <1>5, <2>1, <2>4
<1>6. QED
  BY <1>2, <1>4, <1>5

\* AddEdge adds an edge or finds it there.
LEMMA EdgeAdded ==
  ASSUME NEW g, WellFormed(g), NEW e, e.pos \in Int, e.branch \in Int, NEW h, h = AddEdge(g, e)
  PROVE  /\ WellFormed(h) /\ h.nodes = g.nodes
         /\ Range(g.edges) \subseteq Range(h.edges) /\ Range(h.edges) \subseteq Range(g.edges) \cup {e}
         /\ g.ok /\ e.kind \in EdgeKinds /\ {e.from, e.to} \subseteq DOMAIN g.nodes =>
              h.ok /\ \E d \in Range(h.edges) : SameEdge(d, e)
<1>1. /\ IsGraph(g) /\ g = [nodes |-> g.nodes, edges |-> g.edges, ok |-> g.ok] /\ g.ok \in BOOLEAN
      /\ g.nodes = [x \in DOMAIN g.nodes |-> g.nodes[x]] /\ IsSeq(g.edges)
  BY DEF WellFormed, IsGraph
<1>2. IsGraph(h)
  BY <1>1, EdgesStayUnique
<1>3. CASE ~g.ok \/ \E i \in DOMAIN g.edges : SameEdge(g.edges[i], e)
  <2> DEFINE good == e.kind \in EdgeKinds /\ {e.from, e.to} \subseteq DOMAIN g.nodes
  <2>1. h = IF ~g.ok THEN g ELSE IF ~good THEN Failed(g) ELSE g
    BY <1>3 DEF AddEdge
  <2>2. h = g \/ (h = Failed(g) /\ g.ok /\ ~good)
    BY <2>1
  <2>3. h = g \/ (h = [g EXCEPT !.ok = FALSE] /\ g.ok /\ ~good)
    BY <2>2 DEF Failed
  <2>4. h.nodes = g.nodes /\ h.edges = g.edges /\ (h.ok = g.ok \/ h.ok = FALSE)
        /\ h = [nodes |-> h.nodes, edges |-> h.edges, ok |-> h.ok]
    BY <1>1, <2>3
  <2>5. WellFormed(h)
    BY <1>1, <1>2, <2>4 DEF WellFormed
  <2>6. g.ok => \E d \in Range(g.edges) : SameEdge(d, e)
    BY <1>3 DEF Range
  <2>7. QED
    BY <1>1, <2>3, <2>4, <2>5, <2>6
<1>4. CASE g.ok /\ ~(e.kind \in EdgeKinds /\ {e.from, e.to} \subseteq DOMAIN g.nodes)
  <2>1. h = [g EXCEPT !.ok = FALSE]
    BY <1>4 DEF AddEdge, Failed
  <2>2. h.nodes = g.nodes /\ h.edges = g.edges /\ h.ok = FALSE
        /\ h = [nodes |-> h.nodes, edges |-> h.edges, ok |-> h.ok]
    BY <1>1, <2>1
  <2>3. WellFormed(h)
    BY <1>1, <1>2, <2>2 DEF WellFormed
  <2>4. QED
    BY <1>4, <2>2, <2>3
<1>5. CASE /\ g.ok /\ e.kind \in EdgeKinds /\ {e.from, e.to} \subseteq DOMAIN g.nodes
           /\ ~\E i \in DOMAIN g.edges : SameEdge(g.edges[i], e)
  <2>1. h = [g EXCEPT !.edges = Append(g.edges, e)]
    BY <1>5 DEF AddEdge
  <2>2. h.nodes = g.nodes /\ h.edges = Append(g.edges, e) /\ h.ok = g.ok
        /\ h = [nodes |-> h.nodes, edges |-> h.edges, ok |-> h.ok]
    BY <1>1, <2>1
  <2>3. Range(h.edges) = Range(g.edges) \cup {e}
    BY <1>1, <2>2, RangeAppend
  <2>4. WellFormed(h)
    BY <1>1, <1>2, <2>2 DEF WellFormed
  <2>5. SameEdge(e, e)
    BY DEF SameEdge
  <2>6. QED
    BY <1>5, <2>2, <2>3, <2>4, <2>5
<1>6. QED
  BY <1>3, <1>4, <1>5

\* A put is an AddNode or an AddEdge.
LEMMA PutIs ==
  ASSUME NEW g, NEW w
  PROVE  Put(g, w) = IF IsNodeWrite(w) THEN AddNode(g, w.id, w.node) ELSE AddEdge(g, w)
BY DEF Put

\* The recursive function of Written exists: its values are graphs with the
\* IDs, nodes and edges of g and of what is written.
PutInTurn(after, g, ws) == after[0] = g /\ \A n \in Nat : after[n+1] = Put(after[n], ws[n+1])

LEMMA WrittenSteps ==
  ASSUME NEW g, WellFormed(g), NEW ws, Len(ws) \in Nat
  PROVE  \E after : PutInTurn(after, g, ws) /\ Written(g, ws) = after[Len(ws)]
<1> DEFINE J == {ws[n] : n \in Nat}
           I == DOMAIN g.nodes \cup {w.id : w \in J}
           V == {g.nodes[x] : x \in DOMAIN g.nodes} \cup {w.node : w \in J}
           M == UNION {[D -> V] : D \in SUBSET I}
           K == Range(g.edges) \cup J
           U == [nodes : M, edges : Seq(K), ok : BOOLEAN]
           F == [p \in Nat \X U |-> Put(p[2], ws[p[1]+1])]
<1>1. /\ g = [nodes |-> g.nodes, edges |-> g.edges, ok |-> g.ok] /\ g.ok \in BOOLEAN
      /\ g.nodes = [x \in DOMAIN g.nodes |-> g.nodes[x]] /\ g.edges \in Seq(Range(g.edges))
  BY DEF WellFormed, IsGraph, IsSeq
<1>2. g \in U
  <2>1. g.nodes \in [DOMAIN g.nodes -> V]
    BY <1>1
  <2>2. DOMAIN g.nodes \in SUBSET I
    OBVIOUS
  <2>3. g.nodes \in M
    BY <2>1, <2>2
  <2>4. g.edges \in Seq(K)
    BY <1>1, SeqMonotonic
  <2> HIDE DEF M, K
  <2>5. QED
    BY <1>1, <2>3, <2>4
<1>3. ASSUME NEW h \in U, NEW w \in J PROVE Put(h, w) \in U
  <2> DEFINE more == [x \in DOMAIN h.nodes \cup {w.id} |-> IF x = w.id THEN w.node ELSE h.nodes[x]]
  <2>1. h.nodes \in M /\ h.edges \in Seq(K) /\ h.ok \in BOOLEAN
    BY DEF U
  <2>2. PICK D \in SUBSET I : h.nodes \in [D -> V]
    BY <2>1
  <2>3. more \in M
    <3>1. DOMAIN h.nodes \cup {w.id} \in SUBSET I
      BY <2>2
    <3>2. \A x \in DOMAIN h.nodes \cup {w.id} : (IF x = w.id THEN w.node ELSE h.nodes[x]) \in V
      BY <2>2
    <3>3. more \in [DOMAIN h.nodes \cup {w.id} -> V]
      BY <3>2
    <3>4. QED
      BY <3>1, <3>3
  <2>4. Append(h.edges, w) \in Seq(K)
    BY <2>1, AppendProperties
  <2> HIDE DEF M, K, I, V, J
  <2>5. [h EXCEPT !.ok = FALSE] \in U
    BY <2>1
  <2>6. [h EXCEPT !.nodes = more] \in U
    BY <2>3
  <2>7. [h EXCEPT !.edges = Append(h.edges, w)] \in U
    BY <2>4
  <2> HIDE DEF U
  <2>8. AddNode(h, w.id, w.node) \in U
    BY <2>5, <2>6 DEF AddNode, Failed
  <2>9. AddEdge(h, w) \in U
    BY <2>5, <2>7 DEF AddEdge, Failed
  <2>10. QED
    BY <2>8, <2>9, PutIs
<1>4. \A n \in Nat, h \in U : F[<<n, h>>] = Put(h, ws[n+1])
  <2> HIDE DEF U
  <2>1. QED
    OBVIOUS
<1>5. F \in [Nat \X U -> U]
  <2>1. \A p \in Nat \X U : p[1] + 1 \in Nat /\ p[2] \in U
    <3> HIDE DEF U
    <3>1. QED
      OBVIOUS
  <2>2. \A p \in Nat \X U : ws[p[1] + 1] \in J
    BY <2>1
  <2> HIDE DEF U, J
  <2>3. \A p \in Nat \X U : Put(p[2], ws[p[1]+1]) \in U
    BY <1>3, <2>1, <2>2
  <2>4. QED
    BY <2>3
<1> HIDE DEF F, U
<1>6. PICK f \in [Nat -> U] : f[0] = g /\ \A n \in Nat : f[n+1] = F[<<n, f[n]>>]
  <2>1. \E f : Iterates(f, U, F, g)
    BY <1>2, <1>5, Iterated
  <2>2. QED
    BY <2>1 DEF Iterates
<1>7. \A n \in Nat : f[n+1] = Put(f[n], ws[n+1])
  BY <1>4, <1>6
<1>8. f = [n \in Nat |-> IF n = 0 THEN g ELSE Put(f[n-1], ws[n])]
  <2>1. \A n \in Nat : n # 0 => f[n] = Put(f[n-1], ws[n])
    <3>1. SUFFICES ASSUME NEW n \in Nat, n # 0 PROVE f[n] = Put(f[n-1], ws[n])
      OBVIOUS
    <3>2. n - 1 \in Nat /\ (n - 1) + 1 = n
      BY <3>1
    <3>3. QED
      BY <1>7, <3>2
  <2>2. QED
    BY <1>6, <2>1
<1> DEFINE after[n \in Nat] == IF n = 0 THEN g ELSE Put(after[n-1], ws[n])
<1>9. after = [n \in Nat |-> IF n = 0 THEN g ELSE Put(after[n-1], ws[n])]
  BY <1>8
<1>10. Written(g, ws) = after[Len(ws)]
  BY DEF Written
<1> HIDE DEF after
<1>11. after[0] = g /\ \A n \in Nat : after[n+1] = Put(after[n], ws[n+1])
  <2>1. after[0] = g
    BY <1>9
  <2>2. ASSUME NEW n \in Nat PROVE after[n+1] = Put(after[n], ws[n+1])
    <3>1. n + 1 \in Nat /\ n + 1 # 0 /\ (n + 1) - 1 = n
      OBVIOUS
    <3>2. QED
      BY <1>9, <3>1
  <2>3. QED
    BY <2>1, <2>2
<1>12. QED
  BY <1>10, <1>11 DEF PutInTurn

\* Writes keep graphs what they are.
LEMMA PutKeeps ==
  ASSUME NEW g, WellFormed(g), NEW w, IsWrite(w)
  PROVE  WellFormed(Put(g, w))
<1>1. CASE IsNodeWrite(w)
  BY <1>1, NodeAdded, PutIs
<1>2. CASE ~IsNodeWrite(w)
  <2>1. w.pos \in Int /\ w.branch \in Int
    BY <1>2 DEF IsWrite
  <2>2. WellFormed(AddEdge(g, w))
    BY <2>1, EdgeAdded
  <2>3. QED
    BY <1>2, <2>2, PutIs
<1>3. QED
  BY <1>1, <1>2

LEMMA WriteKeeps ==
  ASSUME NEW g, WellFormed(g), NEW ws, IsWrites(ws)
  PROVE  WellFormed(Written(g, ws)) /\ WellFormed(Write(g, ws))
<1>1. IsSeq(ws) /\ Len(ws) \in Nat /\ DOMAIN ws = 1..Len(ws)
  BY DomainOfSeq DEF IsWrites
<1>2. PICK after : PutInTurn(after, g, ws) /\ Written(g, ws) = after[Len(ws)]
  BY <1>1, WrittenSteps
<1> DEFINE Z == {n \in Nat : n <= Len(ws) => WellFormed(after[n])}
<1>3. 0 \in Z
  BY <1>2 DEF PutInTurn
<1>4. ASSUME NEW n \in Z PROVE n + 1 \in Z
  <2>1. n \in Nat /\ (n <= Len(ws) => WellFormed(after[n]))
    OBVIOUS
  <2>2. ASSUME n + 1 <= Len(ws) PROVE WellFormed(after[n+1])
    <3>1. n + 1 \in 1..Len(ws) /\ n <= Len(ws)
      BY <1>1, <2>1, <2>2
    <3>2. IsWrite(ws[n+1])
      BY <1>1, <3>1 DEF IsWrites, Range
    <3>3. QED
      BY <1>2, <2>1, <3>1, <3>2, PutKeeps DEF PutInTurn
  <2>3. QED
    BY <2>1, <2>2
<1> HIDE DEF Z
<1>5. Z = Nat
  <2>1. Z \in SUBSET Nat
    BY DEF Z
  <2>2. QED
    BY <1>3, <1>4, <2>1, Induction
<1>6. WellFormed(Written(g, ws))
  BY <1>1, <1>2, <1>5 DEF Z
<1>7. QED
  BY <1>6 DEF Write

\* A write that succeeds once its ends are there.
Valid(w) == IF IsNodeWrite(w) THEN w.node.kind \in NodeKinds
            ELSE w.kind \in EdgeKinds /\ w.pos \in Int /\ w.branch \in Int

\* The nodes written before ws[i].
Earlier(ws, i) == {ws[j].id : j \in {k \in DOMAIN ws : k < i /\ IsNodeWrite(ws[k])}}

\* The nodes in ws.
Ids(ws) == {w.id : w \in {v \in Range(ws) : IsNodeWrite(v)}}

\* The ends of each edge are known or written before it.
Fits(ws, known) ==
  \A i \in DOMAIN ws : ~IsNodeWrite(ws[i]) => {ws[i].from, ws[i].to} \subseteq known \cup Earlier(ws, i)

\* h is g with the writes of W in it.
Has(h, g, W) ==
  /\ h.ok /\ DOMAIN h.nodes = DOMAIN g.nodes \cup {w.id : w \in {v \in W : IsNodeWrite(v)}}
  /\ \A x \in DOMAIN h.nodes :
       \/ x \in DOMAIN g.nodes /\ h.nodes[x] = g.nodes[x]
       \/ \E w \in W : IsNodeWrite(w) /\ w.id = x /\ w.node = h.nodes[x]
  /\ \A w \in W : IsNodeWrite(w) \/ \E e \in Range(h.edges) : SameEdge(e, w)
  /\ \A e \in Range(h.edges) : e \in Range(g.edges) \/ (e \in W /\ ~IsNodeWrite(e))

\* Writes that are valid and fit are in the graph.
LEMMA PutHas ==
  ASSUME NEW g, NEW W, NEW h, WellFormed(h), Has(h, g, W), NEW w, Valid(w),
         ~IsNodeWrite(w) => {w.from, w.to} \subseteq DOMAIN h.nodes,
         NEW i, i = Put(h, w)
  PROVE  WellFormed(i) /\ Has(i, g, W \cup {w})
<1>1. /\ h.ok /\ DOMAIN h.nodes = DOMAIN g.nodes \cup {v.id : v \in {u \in W : IsNodeWrite(u)}}
      /\ \A x \in DOMAIN h.nodes :
           \/ x \in DOMAIN g.nodes /\ h.nodes[x] = g.nodes[x]
           \/ \E v \in W : IsNodeWrite(v) /\ v.id = x /\ v.node = h.nodes[x]
      /\ \A v \in W : IsNodeWrite(v) \/ \E e \in Range(h.edges) : SameEdge(e, v)
      /\ \A e \in Range(h.edges) : e \in Range(g.edges) \/ (e \in W /\ ~IsNodeWrite(e))
  BY DEF Has
<1>2. CASE IsNodeWrite(w)
  <2>1. w.node.kind \in NodeKinds /\ i = AddNode(h, w.id, w.node)
    BY <1>2, PutIs DEF Valid
  <2>2. /\ WellFormed(i) /\ i.edges = h.edges /\ i.ok /\ DOMAIN i.nodes = DOMAIN h.nodes \cup {w.id}
        /\ i.nodes[w.id] = w.node /\ \A x \in DOMAIN h.nodes \ {w.id} : i.nodes[x] = h.nodes[x]
    BY <1>1, <2>1, NodeAdded
  <2>3. DOMAIN i.nodes = DOMAIN g.nodes \cup {v.id : v \in {u \in W \cup {w} : IsNodeWrite(u)}}
    BY <1>1, <1>2, <2>2
  <2>4. ASSUME NEW x \in DOMAIN i.nodes
        PROVE  \/ x \in DOMAIN g.nodes /\ i.nodes[x] = g.nodes[x]
               \/ \E v \in W \cup {w} : IsNodeWrite(v) /\ v.id = x /\ v.node = i.nodes[x]
    <3>1. CASE x = w.id
      BY <1>2, <2>2, <3>1
    <3>2. CASE x # w.id
      <4>1. x \in DOMAIN h.nodes /\ i.nodes[x] = h.nodes[x]
        BY <2>2, <3>2
      <4>2. QED
        BY <1>1, <4>1
    <3>3. QED
      BY <3>1, <3>2
  <2>5. QED
    BY <1>1, <1>2, <2>2, <2>3, <2>4 DEF Has
<1>3. CASE ~IsNodeWrite(w)
  <2>1. w.kind \in EdgeKinds /\ w.pos \in Int /\ w.branch \in Int /\ i = AddEdge(h, w)
    BY <1>3, PutIs DEF Valid
  <2>2. /\ WellFormed(i) /\ i.nodes = h.nodes /\ Range(h.edges) \subseteq Range(i.edges)
        /\ Range(i.edges) \subseteq Range(h.edges) \cup {w}
        /\ i.ok /\ \E d \in Range(i.edges) : SameEdge(d, w)
    <3>1. {w.from, w.to} \subseteq DOMAIN h.nodes /\ h.ok
      BY <1>1, <1>3
    <3>2. WellFormed(h) /\ w.pos \in Int /\ w.branch \in Int
      BY <2>1
    <3>3. \A e : /\ e.pos \in Int /\ e.branch \in Int
                 => /\ WellFormed(AddEdge(h, e)) /\ AddEdge(h, e).nodes = h.nodes
                    /\ Range(h.edges) \subseteq Range(AddEdge(h, e).edges)
                    /\ Range(AddEdge(h, e).edges) \subseteq Range(h.edges) \cup {e}
      BY EdgeAdded
    <3>4. QED
      BY <2>1, <3>1, <3>2, <3>3, EdgeAdded
  <2>3. DOMAIN i.nodes = DOMAIN g.nodes \cup {v.id : v \in {u \in W \cup {w} : IsNodeWrite(u)}}
    BY <1>1, <1>3, <2>2
  <2>4. \A v \in W \cup {w} : IsNodeWrite(v) \/ \E e \in Range(i.edges) : SameEdge(e, v)
    BY <1>1, <2>2
  <2>5. \A e \in Range(i.edges) : e \in Range(g.edges) \/ (e \in W \cup {w} /\ ~IsNodeWrite(e))
    BY <1>1, <1>3, <2>2
  <2>6. \A x \in DOMAIN i.nodes :
           \/ x \in DOMAIN g.nodes /\ i.nodes[x] = g.nodes[x]
           \/ \E v \in W \cup {w} : IsNodeWrite(v) /\ v.id = x /\ v.node = i.nodes[x]
    BY <1>1, <2>2
  <2>7. QED
    BY <2>2, <2>3, <2>4, <2>5, <2>6 DEF Has
<1>4. QED
  BY <1>2, <1>3

LEMMA WriteHas ==
  ASSUME NEW g, WellFormed(g), g.ok, NEW ws, IsSeq(ws), \A w \in Range(ws) : Valid(w), Fits(ws, DOMAIN g.nodes)
  PROVE  WellFormed(Write(g, ws)) /\ Has(Write(g, ws), g, Range(ws))
<1>1. IsSeq(ws) /\ Len(ws) \in Nat /\ DOMAIN ws = 1..Len(ws)
  BY DomainOfSeq
<1>2. PICK after : PutInTurn(after, g, ws) /\ Written(g, ws) = after[Len(ws)]
  BY <1>1, WrittenSteps
<1> DEFINE W(n) == {ws[j] : j \in {k \in DOMAIN ws : k < n + 1}}
<1>3. \A n \in Nat : Earlier(ws, n + 1) = {w.id : w \in {v \in W(n) : IsNodeWrite(v)}}
  BY DEF Earlier
<1>4. W(0) = {} /\ W(Len(ws)) = Range(ws)
  <2>1. \A k \in DOMAIN ws : ~(k < 0 + 1) /\ k < Len(ws) + 1
    BY <1>1
  <2>2. QED
    BY <2>1 DEF Range
<1>5. ASSUME NEW n \in Nat, n + 1 \in DOMAIN ws PROVE W(n + 1) = W(n) \cup {ws[n+1]}
  <2>1. \A k \in DOMAIN ws : k < (n + 1) + 1 <=> k < n + 1 \/ k = n + 1
    BY <1>1
  <2>2. QED
    BY <1>5, <2>1
<1> HIDE DEF W
<1> DEFINE Z == {n \in Nat : n <= Len(ws) => WellFormed(after[n]) /\ Has(after[n], g, W(n))}
<1>6. 0 \in Z
  <2>1. Has(g, g, {})
    BY DEF Has
  <2>2. QED
    BY <1>2, <1>4, <2>1 DEF PutInTurn
<1>7. ASSUME NEW n \in Z PROVE n + 1 \in Z
  <2>1. n \in Nat /\ (n <= Len(ws) => WellFormed(after[n]) /\ Has(after[n], g, W(n)))
    OBVIOUS
  <2>2. ASSUME n + 1 <= Len(ws) PROVE WellFormed(after[n+1]) /\ Has(after[n+1], g, W(n + 1))
    <3>1. n + 1 \in DOMAIN ws /\ n <= Len(ws)
      BY <1>1, <2>1, <2>2
    <3>2. Valid(ws[n+1])
      BY <3>1 DEF Range
    <3>3. DOMAIN after[n].nodes = DOMAIN g.nodes \cup Earlier(ws, n + 1)
      BY <1>3, <2>1, <3>1 DEF Has
    <3>4. ~IsNodeWrite(ws[n+1]) => {ws[n+1].from, ws[n+1].to} \subseteq DOMAIN after[n].nodes
      BY <3>1, <3>3 DEF Fits
    <3>5. after[n+1] = Put(after[n], ws[n+1])
      BY <1>2, <2>1 DEF PutInTurn
    <3>6. WellFormed(after[n+1]) /\ Has(after[n+1], g, W(n) \cup {ws[n+1]})
      BY <2>1, <3>1, <3>2, <3>4, <3>5, PutHas
    <3>7. QED
      BY <1>5, <2>1, <3>1, <3>6
  <2>3. QED
    BY <2>1, <2>2
<1> HIDE DEF Z
<1>8. Z = Nat
  <2>1. Z \in SUBSET Nat
    BY DEF Z
  <2>2. QED
    BY <1>6, <1>7, <2>1, Induction
<1>9. WellFormed(Written(g, ws)) /\ Has(Written(g, ws), g, Range(ws))
  BY <1>1, <1>2, <1>4, <1>8 DEF Z
<1>10. Written(g, ws).ok
  BY <1>9 DEF Has
<1>11. QED
  BY <1>9, <1>10 DEF Write

-----------------------------------------------------------------------------
\* Sequences of writes put together.
LEMMA ConcatSeqs ==
  ASSUME NEW s, IsSeq(s), NEW t, IsSeq(t)
  PROVE  /\ IsSeq(s \o t) /\ Range(s \o t) = Range(s) \cup Range(t)
         /\ Len(s) \in Nat /\ DOMAIN s = 1..Len(s) /\ Len(t) \in Nat /\ DOMAIN t = 1..Len(t)
         /\ DOMAIN (s \o t) = 1..(Len(s) + Len(t))
         /\ \A i \in 1..(Len(s) + Len(t)) : (s \o t)[i] = IF i <= Len(s) THEN s[i] ELSE t[i - Len(s)]
<1> DEFINE S == Range(s) \cup Range(t)
<1>1. s \in Seq(S) /\ t \in Seq(S)
  BY SeqMonotonic DEF IsSeq
<1> HIDE DEF S
<1>2. s \o t \in Seq(S) /\ Len(s \o t) = Len(s) + Len(t)
  BY <1>1, ConcatProperties
<1>3. \A i \in 1..(Len(s) + Len(t)) : (s \o t)[i] = IF i <= Len(s) THEN s[i] ELSE t[i - Len(s)]
  BY <1>1, ConcatProperties
<1>4. IsSeq(s \o t)
  BY <1>2, SeqRange
<1>5. Range(s \o t) = Range(s) \cup Range(t)
  BY <1>1, RangeConcatenation
<1>6. DOMAIN (s \o t) = 1..(Len(s) + Len(t))
  BY <1>2, LenProperties
<1>7. QED
  BY <1>3, <1>4, <1>5, <1>6, DomainOfSeq

LEMMA ConcatFits ==
  ASSUME NEW s, IsSeq(s), NEW t, IsSeq(t), NEW known, Fits(s, known), Fits(t, known \cup Ids(s))
  PROVE  Fits(s \o t, known)
<1> DEFINE u == s \o t
           m == Len(s)
           n == Len(t)
<1>1. /\ m \in Nat /\ DOMAIN s = 1..m /\ n \in Nat /\ DOMAIN t = 1..n /\ DOMAIN u = 1..(m + n)
      /\ \A i \in 1..(m + n) : u[i] = IF i <= m THEN s[i] ELSE t[i - m]
  BY ConcatSeqs
<1> HIDE DEF u, m, n
<1>2. SUFFICES ASSUME NEW i \in DOMAIN u, ~IsNodeWrite(u[i])
               PROVE  {u[i].from, u[i].to} \subseteq known \cup Earlier(u, i)
  BY DEF Fits, u
<1>3. \A j \in DOMAIN s : j \in DOMAIN u /\ u[j] = s[j] /\ j <= m
  BY <1>1
<1>4. CASE i <= m
  <2>1. i \in DOMAIN s /\ u[i] = s[i]
    BY <1>1, <1>4
  <2>2. {s[i].from, s[i].to} \subseteq known \cup Earlier(s, i)
    BY <1>2, <2>1 DEF Fits
  <2>3. Earlier(s, i) \subseteq Earlier(u, i)
    BY <1>3 DEF Earlier
  <2>4. QED
    BY <2>1, <2>2, <2>3
<1>5. CASE ~(i <= m)
  <2>1. i - m \in DOMAIN t /\ u[i] = t[i - m] /\ m < i
    BY <1>1, <1>5
  <2>2. {t[i - m].from, t[i - m].to} \subseteq known \cup Ids(s) \cup Earlier(t, i - m)
    BY <1>2, <2>1 DEF Fits
  <2>3. Ids(s) \subseteq Earlier(u, i)
    <3>1. \A j \in DOMAIN s : j < i
      BY <1>1, <2>1
    <3>2. QED
      BY <1>3, <3>1 DEF Ids, Range, Earlier
  <2>4. Earlier(t, i - m) \subseteq Earlier(u, i)
    <3>1. \A j \in DOMAIN t : j < i - m => j + m \in DOMAIN u /\ u[j + m] = t[j] /\ j + m < i
      BY <1>1, <2>1
    <3>2. QED
      BY <3>1 DEF Earlier
  <2>5. QED
    BY <2>1, <2>2, <2>3, <2>4
<1>6. QED
  BY <1>4, <1>5

LEMMA FitsMore ==
  ASSUME NEW s, NEW known, NEW more, known \subseteq more, Fits(s, known)
  PROVE  Fits(s, more)
BY DEF Fits

\* Sequences of writes that fit one after the other fit.
LEMMA FlattenFits ==
  ASSUME NEW n \in Nat, NEW seqs, DOMAIN seqs = 1..n, seqs = [i \in DOMAIN seqs |-> seqs[i]],
         NEW known, \A i \in 1..n : IsSeq(seqs[i]) /\ Fits(seqs[i], known)
  PROVE  /\ IsSeq(FlattenSeq(seqs)) /\ Fits(FlattenSeq(seqs), known)
         /\ Range(FlattenSeq(seqs)) = UNION {Range(seqs[i]) : i \in DOMAIN seqs}
<1> DEFINE S == UNION {Range(seqs[i]) : i \in DOMAIN seqs}
           T == {s \in Seq(S) : Fits(s, known)}
<1>1. \A i \in 1..n : seqs[i] \in Seq(S)
  <2>1. SUFFICES ASSUME NEW i \in 1..n PROVE seqs[i] \in Seq(S)
    OBVIOUS
  <2>2. seqs[i] \in Seq(Range(seqs[i])) /\ Range(seqs[i]) \subseteq S
    BY DEF IsSeq
  <2> HIDE DEF S
  <2>3. QED
    BY <2>2, SeqMonotonic
<1>2. seqs \in Seq(Seq(S))
  <2> HIDE DEF S
  <2>1. seqs \in [1..n -> Seq(S)]
    BY <1>1
  <2>2. QED
    BY <2>1
<1> HIDE DEF S
<1>3. <<>> \in T
  BY DEF Fits
<1>4. ASSUME NEW s \in T, NEW t \in T PROVE s \o t \in T
  <2>1. s \in Seq(S) /\ t \in Seq(S) /\ Fits(s, known) /\ Fits(t, known)
    OBVIOUS
  <2>2. IsSeq(s) /\ IsSeq(t)
    BY <2>1, SeqRange
  <2>3. Fits(t, known \cup Ids(s))
    BY <2>1, FitsMore
  <2>4. Fits(s \o t, known)
    BY <2>1, <2>2, <2>3, ConcatFits
  <2>5. s \o t \in Seq(S)
    BY <2>1, ConcatProperties
  <2>6. QED
    BY <2>4, <2>5
<1>5. \A i \in DOMAIN seqs : seqs[i] \in T
  BY <1>1
<1>6. T \in SUBSET Seq(S)
  OBVIOUS
<1>7. FlattenSeq(seqs) \in T /\ Range(FlattenSeq(seqs)) = UNION {Range(seqs[i]) : i \in DOMAIN seqs}
  <2> HIDE DEF T
  <2>1. QED
    BY <1>2, <1>3, <1>4, <1>5, <1>6, Flattened
<1>8. QED
  <2>1. FlattenSeq(seqs) \in Seq(S) /\ Fits(FlattenSeq(seqs), known)
    BY <1>7
  <2>2. IsSeq(FlattenSeq(seqs))
    BY <2>1, SeqRange
  <2>3. QED
    BY <1>7, <2>1, <2>2

\* A sequence of one write.
LEMMA OneWrite ==
  ASSUME NEW w, NEW known, IsNodeWrite(w) \/ {w.from, w.to} \subseteq known
  PROVE  IsSeq(<<w>>) /\ Range(<<w>>) = {w} /\ Fits(<<w>>, known) /\ (IsNodeWrite(w) => Ids(<<w>>) = {w.id})
<1>1. <<w>> \in Seq({w}) /\ DOMAIN <<w>> = {1} /\ <<w>>[1] = w
  OBVIOUS
<1>2. IsSeq(<<w>>)
  BY <1>1, SeqRange
<1>3. Range(<<w>>) = {w}
  BY <1>1 DEF Range
<1>4. Fits(<<w>>, known)
  BY <1>1 DEF Fits
<1>5. QED
  BY <1>2, <1>3, <1>4 DEF Ids

LEMMA NoWrites ==
  ASSUME NEW known
  PROVE  IsSeq(<<>>) /\ Range(<<>>) = {} /\ Fits(<<>>, known)
<1>1. <<>> \in Seq({}) /\ DOMAIN <<>> = {}
  OBVIOUS
<1>2. IsSeq(<<>>)
  BY <1>1, SeqRange
<1>3. QED
  BY <1>1, <1>2 DEF Range, Fits

-----------------------------------------------------------------------------
\* What Build writes.
NodeWrite(id, n) == [id |-> id, node |-> n]
TableWrite(t) == NodeWrite(TableID(t), Node("sql_table", FALSE, {}))
QueryEdge(sink, u) == [Edge(sink, TableID(u.table), "queries", 0, {}) EXCEPT !.op = u.op]
Tables(ts) == {TableID(t) : t \in ts}

LEMMA NodeWritten ==
  ASSUME NEW id, NEW n
  PROVE  IsNodeWrite(NodeWrite(id, n)) /\ NodeWrite(id, n).id = id /\ NodeWrite(id, n).node = n
<1>1. DOMAIN [id |-> id, node |-> n] = {"id", "node"}
  OBVIOUS
<1>2. QED
  BY <1>1 DEF IsNodeWrite, NodeWrite

LEMMA EdgeWritten ==
  ASSUME NEW a, NEW b, NEW k, NEW p, NEW ms
  PROVE  LET e == Edge(a, b, k, p, ms)
         IN  /\ ~IsNodeWrite(e) /\ e.from = a /\ e.to = b /\ e.kind = k /\ e.pos = p /\ e.methods = ms
             /\ e.branch = 0
<1>1. DOMAIN Edge(a, b, k, p, ms) = {"from", "to", "kind", "pos", "methods", "op", "group", "branch"}
  BY DEF Edge
<1>2. ~IsNodeWrite(Edge(a, b, k, p, ms))
  BY <1>1 DEF IsNodeWrite
<1>3. QED
  BY <1>2 DEF Edge

LEMMA QueryWritten ==
  ASSUME NEW sink, NEW u
  PROVE  LET e == QueryEdge(sink, u)
         IN  /\ ~IsNodeWrite(e) /\ e.from = sink /\ e.to = TableID(u.table) /\ e.kind = "queries"
             /\ e.pos = 0 /\ e.op = u.op /\ e.branch = 0
<1>1. DOMAIN QueryEdge(sink, u) = {"from", "to", "kind", "pos", "methods", "op", "group", "branch"}
  BY DEF Edge, QueryEdge
<1>2. ~IsNodeWrite(QueryEdge(sink, u))
  BY <1>1 DEF IsNodeWrite
<1>3. QED
  BY <1>2 DEF Edge, QueryEdge

\* What the uses of tables at a sink write.
IsUseWrite(w, sink, uses) == (\E t : w = TableWrite(t)) \/ \E u \in Range(uses) : w = QueryEdge(sink, u)

LEMMA TableUses ==
  ASSUME NEW sink, NEW uses, IsSeq(uses), NEW ws, ws = AddTableUses(sink, uses)
  PROVE  /\ IsSeq(ws) /\ Fits(ws, {sink} \cup Tables(Schema))
         /\ \A w \in Range(ws) : IsUseWrite(w, sink, uses)
         /\ \A u \in Range(uses) : QueryEdge(sink, u) \in Range(ws)
<1> DEFINE known == {sink} \cup Tables(Schema)
           inferred(u) == IF u.table \in Schema THEN <<>> ELSE AddTable(u.table)
           seqs == [i \in DOMAIN uses |-> inferred(uses[i]) \o <<QueryEdge(sink, uses[i])>>]
<1>1. ws = FlattenSeq(seqs)
  BY DEF AddTableUses, QueryEdge
<1>2. ASSUME NEW u, NEW us, us = inferred(u) \o <<QueryEdge(sink, u)>>
      PROVE  /\ IsSeq(us) /\ Fits(us, known) /\ QueryEdge(sink, u) \in Range(us)
             /\ \A w \in Range(us) : w = TableWrite(u.table) \/ w = QueryEdge(sink, u)
  <2> DEFINE e == QueryEdge(sink, u)
             t == TableWrite(u.table)
  <2>1. ~IsNodeWrite(e) /\ e.from = sink /\ e.to = TableID(u.table)
    BY QueryWritten DEF e
  <2>2. IsNodeWrite(t) /\ t.id = TableID(u.table)
    BY NodeWritten DEF TableWrite
  <2>3. inferred(u) = IF u.table \in Schema THEN <<>> ELSE <<t>>
    BY DEF AddTable, TableWrite, NodeWrite
  <2> HIDE DEF e, t, inferred, known
  <2>4. /\ IsSeq(inferred(u)) /\ Fits(inferred(u), known)
        /\ Range(inferred(u)) = IF u.table \in Schema THEN {} ELSE {t}
    BY <2>2, <2>3, OneWrite, NoWrites, ZenonT(60)
  <2>5. {sink, TableID(u.table)} \subseteq known \cup Ids(inferred(u))
    <3>1. CASE u.table \in Schema
      BY <3>1 DEF known, Tables
    <3>2. CASE u.table \notin Schema
      BY <2>2, <2>4, <3>2 DEF known, Ids
    <3>3. QED
      BY <3>1, <3>2
  <2>6. IsSeq(<<e>>) /\ Range(<<e>>) = {e} /\ Fits(<<e>>, known \cup Ids(inferred(u)))
    BY <2>1, <2>5, OneWrite
  <2>7. us = inferred(u) \o <<e>>
    BY <1>2 DEF e
  <2>8. IsSeq(us) /\ Range(us) = Range(inferred(u)) \cup {e} /\ Fits(us, known)
    BY <2>4, <2>6, <2>7, ConcatSeqs, ConcatFits, ZenonT(60)
  <2>9. QED
    BY <2>4, <2>8 DEF e, t
<1>3. DOMAIN uses = 1..Len(uses) /\ Len(uses) \in Nat
  BY DomainOfSeq
<1>4. DOMAIN seqs = 1..Len(uses) /\ \A i \in 1..Len(uses) : seqs[i] = inferred(uses[i]) \o <<QueryEdge(sink, uses[i])>>
  BY <1>3
<1>5. seqs = [i \in DOMAIN seqs |-> seqs[i]]
  OBVIOUS
<1> HIDE DEF seqs, inferred, known
<1>6. \A i \in 1..Len(uses) : IsSeq(seqs[i]) /\ Fits(seqs[i], known)
  BY <1>2, <1>4
<1>7. IsSeq(ws) /\ Fits(ws, known) /\ Range(ws) = UNION {Range(seqs[i]) : i \in DOMAIN seqs}
  BY <1>1, <1>3, <1>4, <1>5, <1>6, FlattenFits
<1>8. ASSUME NEW w \in Range(ws) PROVE IsUseWrite(w, sink, uses)
  <2>1. PICK i \in DOMAIN seqs : w \in Range(seqs[i])
    BY <1>7
  <2>2. w = TableWrite(uses[i].table) \/ w = QueryEdge(sink, uses[i])
    BY <1>2, <1>4, <2>1
  <2>3. uses[i] \in Range(uses)
    BY <1>3, <1>4 DEF Range
  <2>4. QED
    BY <2>2, <2>3 DEF IsUseWrite
<1>9. ASSUME NEW u \in Range(uses) PROVE QueryEdge(sink, u) \in Range(ws)
  <2>1. PICK i \in DOMAIN uses : u = uses[i]
    BY DEF Range
  <2>2. QueryEdge(sink, u) \in Range(seqs[i]) /\ i \in DOMAIN seqs
    BY <1>2, <1>3, <1>4, <2>1
  <2>3. QED
    BY <1>7, <2>2
<1>10. QED
  BY <1>7, <1>8, <1>9 DEF known

LEMMA SchemaWrites ==
  /\ IsSeq(AddSchema) /\ \A known : Fits(AddSchema, known)
  /\ Range(AddSchema) = {TableWrite(t) : t \in Schema}
<1> DEFINE tables == SetToSeq(Schema)
           seqs == [i \in DOMAIN tables |-> AddTable(tables[i])]
<1>1. IsSeq(tables) /\ Range(tables) = Schema /\ DOMAIN tables = 1..Len(tables) /\ Len(tables) \in Nat
  BY SchemaAssumption, SetInSeq, SeqRange, DomainOfSeq
<1>2. AddSchema = FlattenSeq(seqs)
  BY DEF AddSchema
<1> HIDE DEF tables
<1>3. DOMAIN seqs = 1..Len(tables) /\ \A i \in 1..Len(tables) : seqs[i] = <<TableWrite(tables[i])>>
  BY <1>1 DEF AddTable, TableWrite, NodeWrite
<1>4. seqs = [i \in DOMAIN seqs |-> seqs[i]]
  OBVIOUS
<1> HIDE DEF seqs
<1>5. ASSUME NEW i \in 1..Len(tables), NEW known
      PROVE  IsSeq(seqs[i]) /\ Fits(seqs[i], known) /\ Range(seqs[i]) = {TableWrite(tables[i])}
  <2>1. PICK w : w = TableWrite(tables[i])
    OBVIOUS
  <2>2. IsNodeWrite(w)
    BY <2>1, NodeWritten DEF TableWrite
  <2>3. IsSeq(<<w>>) /\ Fits(<<w>>, known) /\ Range(<<w>>) = {w}
    BY <2>2, OneWrite
  <2>4. QED
    BY <1>3, <2>1, <2>3
<1>6. ASSUME NEW known
      PROVE  /\ IsSeq(FlattenSeq(seqs)) /\ Fits(FlattenSeq(seqs), known)
             /\ Range(FlattenSeq(seqs)) = UNION {Range(seqs[i]) : i \in DOMAIN seqs}
  BY <1>1, <1>3, <1>4, <1>5, FlattenFits
<1>7. UNION {Range(seqs[i]) : i \in DOMAIN seqs} = {TableWrite(t) : t \in Schema}
  BY <1>1, <1>3, <1>5 DEF Range
<1>8. QED
  BY <1>2, <1>6, <1>7

\* Import and LinkSQL write graphs.
THEOREM ImportWritesGraph ==
  ASSUME NEW g, WellFormed(g), NEW doc, IsDocument(doc)
  PROVE  WellFormed(Import(g, doc))
<1>1. /\ IsSeq(doc.nodes) /\ IsSeq(doc.edges)
      /\ \A w \in Range(doc.nodes) \cup Range(doc.edges) : IsWrite(w)
  BY DEF IsDocument, IsWrite
<1>2. IsWrites(doc.nodes \o doc.edges)
  BY <1>1, ConcatSeqs DEF IsWrites
<1>3. WellFormed(Write(g, doc.nodes \o doc.edges))
  BY <1>2, WriteKeeps
<1>4. QED
  BY <1>3 DEF Import

LEMMA UsesAreWrites ==
  ASSUME NEW sink, NEW uses, IsSeq(uses), NEW ws, ws = AddTableUses(sink, uses), NEW w \in Range(ws)
  PROVE  IsWrite(w)
<1>1. IsUseWrite(w, sink, uses)
  BY TableUses
<1>2. CASE \E t : w = TableWrite(t)
  <2>1. PICK t : w = TableWrite(t)
    BY <1>2
  <2>2. IsNodeWrite(w)
    BY <2>1, NodeWritten DEF TableWrite
  <2>3. QED
    BY <2>2 DEF IsWrite
<1>3. CASE \E u \in Range(uses) : w = QueryEdge(sink, u)
  BY <1>3, QueryWritten DEF IsWrite
<1>4. QED
  BY <1>1, <1>2, <1>3 DEF IsUseWrite

THEOREM LinkSQLWritesGraph ==
  ASSUME NEW g, WellFormed(g), NEW queries, IsUses(queries)
  PROVE  WellFormed(LinkSQL(g, queries))
<1> DEFINE linked == {id \in DOMAIN queries \cap DOMAIN g.nodes : g.nodes[id].kind = "sink"}
           sinks == SetToSeq(linked)
           seqs == [i \in DOMAIN sinks |-> AddTableUses(sinks[i], queries[sinks[i]])]
<1>1. IsFiniteSet(linked)
  BY FS_Subset DEF WellFormed, IsGraph
<1>2. /\ IsSeq(sinks) /\ Range(sinks) = linked /\ DOMAIN sinks = 1..Len(sinks) /\ Len(sinks) \in Nat
  BY <1>1, SetInSeq, SeqRange, DomainOfSeq, ZenonT(60)
<1>3. LinkSQL(g, queries) = Write(g, AddSchema \o FlattenSeq(seqs))
  BY DEF LinkSQL
<1>4. \A i \in DOMAIN sinks : IsSeq(queries[sinks[i]])
  BY <1>2 DEF Range, IsUses
<1> HIDE DEF linked, sinks
<1>5. DOMAIN seqs = 1..Len(sinks) /\ \A i \in 1..Len(sinks) : seqs[i] = AddTableUses(sinks[i], queries[sinks[i]])
  BY <1>2
<1>6. seqs = [i \in DOMAIN seqs |-> seqs[i]]
  OBVIOUS
<1> HIDE DEF seqs
<1>7. ASSUME NEW i \in 1..Len(sinks)
      PROVE  /\ IsSeq(seqs[i]) /\ Fits(seqs[i], {sinks[i]} \cup Tables(Schema))
             /\ \A w \in Range(seqs[i]) : IsWrite(w)
  <2>1. PICK sink, uses, ws : sink = sinks[i] /\ uses = queries[sink] /\ ws = AddTableUses(sink, uses)
    OBVIOUS
  <2>2. IsSeq(uses) /\ ws = seqs[i]
    BY <1>2, <1>4, <1>5, <2>1
  <2>3. IsSeq(ws) /\ Fits(ws, {sink} \cup Tables(Schema))
    BY <2>1, <2>2, TableUses
  <2>4. \A w \in Range(ws) : IsWrite(w)
    BY <2>1, <2>2, UsesAreWrites
  <2>5. QED
    BY <2>1, <2>2, <2>3, <2>4
<1> DEFINE known == {sinks[i] : i \in 1..Len(sinks)} \cup Tables(Schema)
<1>8. \A i \in 1..Len(sinks) : Fits(seqs[i], known)
  <2>1. ASSUME NEW i \in 1..Len(sinks) PROVE Fits(seqs[i], known)
    <3>1. {sinks[i]} \cup Tables(Schema) \subseteq known
      OBVIOUS
    <3>2. Fits(seqs[i], {sinks[i]} \cup Tables(Schema))
      BY <1>7
    <3> HIDE DEF known
    <3>3. QED
      BY <3>1, <3>2, FitsMore
  <2>2. QED
    BY <2>1
<1> HIDE DEF known
<1>9. IsSeq(FlattenSeq(seqs)) /\ Range(FlattenSeq(seqs)) = UNION {Range(seqs[i]) : i \in DOMAIN seqs}
  <2>1. \A i \in 1..Len(sinks) : IsSeq(seqs[i]) /\ Fits(seqs[i], known)
    BY <1>7, <1>8
  <2>2. QED
    BY <1>2, <1>5, <1>6, <2>1, FlattenFits, ZenonT(60)
<1>10. \A w \in Range(FlattenSeq(seqs)) : IsWrite(w)
  BY <1>5, <1>7, <1>9
<1>11. \A w \in Range(AddSchema) : IsWrite(w)
  BY SchemaWrites, NodeWritten, ZenonT(60) DEF TableWrite, IsWrite
<1>12. IsWrites(AddSchema \o FlattenSeq(seqs))
  BY <1>9, <1>10, <1>11, SchemaWrites, ConcatSeqs, ZenonT(60) DEF IsWrites
<1>13. QED
  BY <1>3, <1>12, WriteKeeps

-----------------------------------------------------------------------------
(***************************************************************************)
(* The graph of a program.                                                 *)
(***************************************************************************)
FuncNode(f) == Node(FuncKind(f), ~Functions[f].module, IF f \in DOMAIN code THEN Compared(code[f]) ELSE {})
FuncWrite(f) == NodeWrite(FuncID(f), FuncNode(f))
SinkWrite(f, s) == NodeWrite(SinkID(f, s), Node("sink", FALSE, {}))
RouteWrite == NodeWrite(RouteID, Node("route", FALSE, {}))
CallEdge(f, s, to) == Edge(FuncID(f), to, "calls", SitePos(code[f], s), MethodsOf(code[f], s[1]))
DispatchEdge(m, g) == Edge(FuncID(m), FuncID(g), "dispatches_to", 0, {})
RouteEdge(f, kind) == Edge(RouteID, FuncID(f), kind, 0, {})

IsCallWrite(w) == \E f \in DOMAIN code : \E s \in Sites(code[f]) : \E to : w = CallEdge(f, s, to)
IsQueryWrite(w) ==
  \E f \in DOMAIN code : \E s \in Sites(code[f]) :
    \E u \in Range(UsesAt(program.queries, CallAt(code[f], s))) : w = QueryEdge(SinkID(f, s), u)
IsRouteWrite(w) == \E f : w = RouteEdge(f, "handled_by") \/ w = RouteEdge(f, "guarded_by")

NodeOfProgram(w) ==
  \/ w = RouteWrite
  \/ \E f : w = FuncWrite(f)
  \/ \E t : w = TableWrite(t)
  \/ \E f, s : w = SinkWrite(f, s)

EdgeOfProgram(w) ==
  \/ IsCallWrite(w)
  \/ \E m, g : w = DispatchEdge(m, g)
  \/ IsQueryWrite(w)
  \/ IsRouteWrite(w)

\* Writes that fit once the nodes of known are there.
OfProgram(w) == NodeOfProgram(w) \/ EdgeOfProgram(w)
Wrote(ws, known) == IsSeq(ws) /\ Fits(ws, known) /\ \A w \in Range(ws) : OfProgram(w)

LEMMA SitesOrdered ==
  ASSUME program \in Programs, NEW f \in DOMAIN code, NEW sites, sites = SitesInOrder(code[f])
  PROVE  Range(sites) = Sites(code[f]) /\ Len(sites) \in Nat /\ DOMAIN sites = 1..Len(sites)
<1>1. PICK body : body = code[f] /\ IsBody(body, DOMAIN Functions)
  BY CodeShape
<1>2. /\ Len(body) \in Nat /\ Blocks(body) = 1..Len(body)
      /\ \A b \in Blocks(body) : body[b].calls \in Seq(DOMAIN Functions)
  BY <1>1, BodyShape
<1> DEFINE S == Nat \X Nat
           seqs == [b \in Blocks(body) |-> [i \in DOMAIN body[b].calls |-> <<b, i>>]]
<1>3. sites = FlattenSeq(seqs)
  BY <1>1 DEF SitesInOrder
<1>4. ASSUME NEW b \in Blocks(body)
      PROVE  seqs[b] \in Seq(S) /\ Range(seqs[b]) = {<<b, i>> : i \in DOMAIN body[b].calls}
  <2>1. Len(body[b].calls) \in Nat /\ DOMAIN body[b].calls = 1..Len(body[b].calls) /\ b \in Nat
    BY <1>2
  <2>2. seqs[b] = [i \in 1..Len(body[b].calls) |-> <<b, i>>]
    BY <2>1
  <2>3. seqs[b] \in Seq(S)
    BY <2>1, <2>2
  <2>4. QED
    BY <2>1, <2>2, <2>3 DEF Range
<1>5. seqs \in Seq(Seq(S)) /\ DOMAIN seqs = Blocks(body)
  <2>1. DOMAIN seqs = 1..Len(body) /\ seqs = [b \in 1..Len(body) |-> seqs[b]]
    BY <1>2
  <2> HIDE DEF seqs
  <2>2. QED
    BY <1>2, <1>4, <2>1
<1> HIDE DEF seqs
<1>6. FlattenSeq(seqs) \in Seq(S) /\ Range(FlattenSeq(seqs)) = UNION {Range(seqs[b]) : b \in DOMAIN seqs}
  <2>1. PICK T : T = Seq(S)
    OBVIOUS
  <2>2. T \in SUBSET Seq(S) /\ <<>> \in T /\ (\A s, t \in T : s \o t \in T) /\ \A b \in DOMAIN seqs : seqs[b] \in T
    BY <1>4, <1>5, <2>1
  <2>3. QED
    BY <1>5, <2>1, <2>2, Flattened
<1>7. UNION {Range(seqs[b]) : b \in DOMAIN seqs} = Sites(body)
  <2>1. \A b \in Blocks(body) : Range(seqs[b]) = {<<b, i>> : i \in DOMAIN body[b].calls}
    BY <1>4
  <2>2. QED
    BY <1>5, <2>1 DEF Sites
<1>8. QED
  BY <1>1, <1>3, <1>6, <1>7

LEMMA SitesFinite ==
  ASSUME program \in Programs, NEW f \in DOMAIN code
  PROVE  /\ IsFiniteSet(Sites(code[f])) /\ Sites(code[f]) \subseteq Nat \X Nat
         /\ \A s \in Sites(code[f]) : s[1] \in Nat /\ s[2] \in Nat /\ s = <<s[1], s[2]>>
<1>1. PICK sites : Range(sites) = Sites(code[f]) /\ Len(sites) \in Nat /\ DOMAIN sites = 1..Len(sites)
  BY SitesOrdered
<1>2. IsFiniteSet(Sites(code[f]))
  <2> DEFINE g == [i \in 1..Len(sites) |-> sites[i]]
  <2>1. g \in Surjection(1..Len(sites), Sites(code[f]))
    BY <1>1 DEF Surjection, Range
  <2>2. IsFiniteSet(1..Len(sites))
    BY <1>1, FS_Interval
  <2>3. QED
    BY <2>1, <2>2, FS_Surjection
<1>3. IsBody(code[f], DOMAIN Functions)
  BY CodeShape
<1>4. PICK body : body = code[f]
  OBVIOUS
<1>5. /\ Blocks(body) \subseteq Nat
      /\ \A b \in Blocks(body) : body[b].calls \in Seq(DOMAIN Functions)
  BY <1>3, <1>4, BodyShape
<1>6. \A b \in Blocks(body) : DOMAIN body[b].calls = 1..Len(body[b].calls) /\ Len(body[b].calls) \in Nat
  BY <1>5
<1>7. Sites(body) \subseteq Nat \X Nat
  BY <1>5, <1>6 DEF Sites
<1>8. QED
  BY <1>2, <1>4, <1>7

\* Each call site of a function has a position of its own.
LEMMA PositionsDiffer ==
  ASSUME program \in Programs, NEW f \in DOMAIN code, NEW s \in Sites(code[f]), NEW t \in Sites(code[f])
  PROVE  /\ SitePos(code[f], s) \in Nat
         /\ SitePos(code[f], s) = SitePos(code[f], t) => s = t
<1> DEFINE S == Sites(code[f])
           upto(x) == {y \in S : y[1] < x[1] \/ (y[1] = x[1] /\ y[2] <= x[2])}
<1>1. IsFiniteSet(S) /\ \A x \in S : x[1] \in Nat /\ x[2] \in Nat /\ x = <<x[1], x[2]>>
  BY SitesFinite
<1>2. s \in S /\ t \in S
  OBVIOUS
<1>3. SitePos(code[f], s) = Cardinality(upto(s)) /\ SitePos(code[f], t) = Cardinality(upto(t))
  BY DEF SitePos
<1> HIDE DEF S
<1>4. \A x \in S : IsFiniteSet(upto(x)) /\ Cardinality(upto(x)) \in Nat
  BY <1>1, FS_Subset, FS_CardinalityType
<1>5. ASSUME NEW x \in S, NEW y \in S, x # y, Cardinality(upto(x)) = Cardinality(upto(y)),
             x[1] < y[1] \/ (x[1] = y[1] /\ x[2] <= y[2])
      PROVE  FALSE
  <2>1. upto(x) \subseteq upto(y)
    BY <1>1, <1>5
  <2>2. y \in upto(y) /\ y \notin upto(x)
    BY <1>1, <1>5
  <2> HIDE DEF upto
  <2>3. upto(x) = upto(y)
    BY <1>4, <1>5, <2>1, FS_Subset
  <2>4. QED
    BY <2>2, <2>3
<1>6. \A x, y \in S : x[1] < y[1] \/ (x[1] = y[1] /\ x[2] <= y[2]) \/ y[1] < x[1] \/ (y[1] = x[1] /\ y[2] <= x[2])
  BY <1>1
<1> HIDE DEF upto
<1>7. QED
  BY <1>2, <1>3, <1>4, <1>5, <1>6

\* Sequences of such writes put together.
LEMMA WroteConcat ==
  ASSUME NEW s, NEW t, NEW known, Wrote(s, known), Wrote(t, known \cup Ids(s))
  PROVE  /\ Wrote(s \o t, known) /\ Range(s \o t) = Range(s) \cup Range(t)
         /\ Ids(s \o t) = Ids(s) \cup Ids(t)
<1>1. Range(s \o t) = Range(s) \cup Range(t) /\ IsSeq(s \o t) /\ Fits(s \o t, known)
  BY ConcatSeqs, ConcatFits DEF Wrote
<1>2. Wrote(s \o t, known)
  BY <1>1 DEF Wrote
<1>3. QED
  BY <1>1, <1>2 DEF Ids

LEMMA WroteMore ==
  ASSUME NEW s, NEW known, NEW more, known \subseteq more, Wrote(s, known)
  PROVE  Wrote(s, more)
BY FitsMore DEF Wrote

LEMMA WroteFlat ==
  ASSUME NEW n \in Nat, NEW seqs, DOMAIN seqs = 1..n, seqs = [i \in DOMAIN seqs |-> seqs[i]],
         NEW known, \A i \in 1..n : Wrote(seqs[i], known)
  PROVE  /\ Wrote(FlattenSeq(seqs), known)
         /\ Range(FlattenSeq(seqs)) = UNION {Range(seqs[i]) : i \in 1..n}
<1>1. \A i \in 1..n : IsSeq(seqs[i]) /\ Fits(seqs[i], known)
  BY DEF Wrote
<1>2. /\ IsSeq(FlattenSeq(seqs)) /\ Fits(FlattenSeq(seqs), known)
      /\ Range(FlattenSeq(seqs)) = UNION {Range(seqs[i]) : i \in DOMAIN seqs}
  BY <1>1, FlattenFits
<1>3. \A i \in 1..n : \A w \in Range(seqs[i]) : OfProgram(w)
  BY DEF Wrote
<1>4. QED
  BY <1>2, <1>3 DEF Wrote

LEMMA WroteOne ==
  ASSUME NEW w, NEW known, OfProgram(w), IsNodeWrite(w) \/ {w.from, w.to} \subseteq known
  PROVE  Wrote(<<w>>, known) /\ Range(<<w>>) = {w} /\ (IsNodeWrite(w) => Ids(<<w>>) = {w.id})
BY OneWrite DEF Wrote

LEMMA WroteNone ==
  ASSUME NEW known
  PROVE  Wrote(<<>>, known) /\ Range(<<>>) = {} /\ Ids(<<>>) = {}
BY NoWrites DEF Wrote, Ids

\* A node, and an edge from a known one to it.
LEMMA WroteBoth ==
  ASSUME NEW v, NEW w, NEW a, OfProgram(v), IsNodeWrite(v), OfProgram(w), ~IsNodeWrite(w),
         w.from = a, w.to = v.id, NEW ws, ws = <<v>> \o <<w>>
  PROVE  Wrote(ws, {a}) /\ Range(ws) = {v, w} /\ Ids(ws) = {v.id}
<1>1. Wrote(<<v>>, {a}) /\ Range(<<v>>) = {v} /\ Ids(<<v>>) = {v.id}
  BY WroteOne
<1>2. {w.from, w.to} \subseteq {a} \cup Ids(<<v>>)
  BY <1>1
<1>3. Wrote(<<w>>, {a} \cup Ids(<<v>>)) /\ Range(<<w>>) = {w}
  BY <1>2, WroteOne
<1>4. Ids(<<w>>) = {}
  BY <1>3 DEF Ids
<1>5. QED
  BY <1>1, <1>3, <1>4, WroteConcat

LEMMA FuncWritten ==
  ASSUME NEW f
  PROVE  /\ AddFunc(code, f) = <<FuncWrite(f)>> /\ OfProgram(FuncWrite(f))
         /\ IsNodeWrite(FuncWrite(f)) /\ FuncWrite(f).id = FuncID(f)
<1>1. AddFunc(code, f) = <<FuncWrite(f)>>
  BY DEF AddFunc, FuncWrite, FuncNode, NodeWrite
<1>2. OfProgram(FuncWrite(f))
  BY DEF OfProgram, NodeOfProgram
<1>3. QED
  BY <1>1, <1>2, NodeWritten DEF FuncWrite

LEMMA CallEdgeWritten ==
  ASSUME NEW f \in DOMAIN code, NEW s \in Sites(code[f]), NEW to
  PROVE  LET e == CallEdge(f, s, to)
         IN  /\ OfProgram(e) /\ ~IsNodeWrite(e) /\ e.from = FuncID(f) /\ e.to = to /\ e.kind = "calls"
             /\ e.pos = SitePos(code[f], s) /\ e.methods = MethodsOf(code[f], s[1])
<1>1. OfProgram(CallEdge(f, s, to))
  BY DEF OfProgram, EdgeOfProgram, IsCallWrite
<1>2. QED
  BY <1>1, EdgeWritten DEF CallEdge

LEMMA DispatchWritten ==
  ASSUME NEW m, NEW g
  PROVE  LET e == DispatchEdge(m, g)
         IN  /\ OfProgram(e) /\ ~IsNodeWrite(e) /\ e.from = FuncID(m) /\ e.to = FuncID(g)
             /\ e.kind = "dispatches_to" /\ e.methods = {}
<1>1. OfProgram(DispatchEdge(m, g))
  BY DEF OfProgram, EdgeOfProgram
<1>2. QED
  BY <1>1, EdgeWritten DEF DispatchEdge

\* A function and what calls it.
LEMMA CalleeWrites ==
  ASSUME NEW f \in DOMAIN code, NEW s \in Sites(code[f]), NEW g, NEW ws,
         ws = AddFunc(code, g) \o <<CallEdge(f, s, FuncID(g))>>
  PROVE  /\ Wrote(ws, {FuncID(f)}) /\ Range(ws) = {FuncWrite(g), CallEdge(f, s, FuncID(g))}
         /\ Ids(ws) = {FuncID(g)}
<1>1. PICK v, w : v = FuncWrite(g) /\ w = CallEdge(f, s, FuncID(g))
  OBVIOUS
<1>2. ws = <<v>> \o <<w>>
  BY <1>1, FuncWritten
<1>3. OfProgram(v) /\ IsNodeWrite(v) /\ v.id = FuncID(g)
  BY <1>1, FuncWritten
<1>4. OfProgram(w) /\ ~IsNodeWrite(w) /\ w.from = FuncID(f) /\ w.to = FuncID(g)
  BY <1>1, CallEdgeWritten
<1>5. Wrote(ws, {w.from}) /\ Range(ws) = {v, w} /\ Ids(ws) = {v.id}
  BY <1>2, <1>3, <1>4, WroteBoth, Zenon
<1>6. QED
  BY <1>1, <1>3, <1>4, <1>5

LEMMA DispatchWrites ==
  ASSUME NEW m, NEW g, NEW ws, ws = AddFunc(code, g) \o <<DispatchEdge(m, g)>>
  PROVE  Wrote(ws, {FuncID(m)}) /\ Range(ws) = {FuncWrite(g), DispatchEdge(m, g)}
<1>1. PICK v, w : v = FuncWrite(g) /\ w = DispatchEdge(m, g)
  OBVIOUS
<1>2. ws = <<v>> \o <<w>>
  BY <1>1, FuncWritten
<1>3. OfProgram(v) /\ IsNodeWrite(v) /\ v.id = FuncID(g)
  BY <1>1, FuncWritten
<1>4. OfProgram(w) /\ ~IsNodeWrite(w) /\ w.from = FuncID(m) /\ w.to = FuncID(g)
  BY <1>1, DispatchWritten
<1>5. Wrote(ws, {w.from}) /\ Range(ws) = {v, w} /\ Ids(ws) = {v.id}
  BY <1>2, <1>3, <1>4, WroteBoth, Zenon
<1>6. QED
  BY <1>1, <1>3, <1>4, <1>5

LEMMA InvokeWrites ==
  ASSUME NEW f \in DOMAIN code, NEW s \in Sites(code[f]), NEW m, NEW g, NEW ws,
         ws = AddInvoke(code, f, m, g, SitePos(code[f], s), MethodsOf(code[f], s[1]))
  PROVE  /\ Wrote(ws, {FuncID(f)})
         /\ ~Excluded(m) /\ ~Excluded(g) /\ Functions[g].module =>
              CallEdge(f, s, FuncID(m)) \in Range(ws) /\ DispatchEdge(m, g) \in Range(ws)
<1> DEFINE called == AddFunc(code, m) \o <<CallEdge(f, s, FuncID(m))>>
           dispatched == AddFunc(code, g) \o <<DispatchEdge(m, g)>>
<1>1. ws = IF Excluded(m) THEN <<>>
           ELSE IF Excluded(g) \/ ~(Functions[m].module \/ Functions[g].module) THEN called
           ELSE called \o AddFunc(code, g) \o <<DispatchEdge(m, g)>>
  BY DEF AddInvoke, CallEdge, DispatchEdge
<1>2. /\ Wrote(called, {FuncID(f)}) /\ CallEdge(f, s, FuncID(m)) \in Range(called)
      /\ Ids(called) = {FuncID(m)} /\ IsSeq(called)
  <2>1. PICK ws1 : ws1 = called
    OBVIOUS
  <2>2. Wrote(ws1, {FuncID(f)}) /\ Range(ws1) = {FuncWrite(m), CallEdge(f, s, FuncID(m))} /\ Ids(ws1) = {FuncID(m)}
    BY <2>1, CalleeWrites, ZenonT(60)
  <2>3. QED
    BY <2>1, <2>2 DEF Wrote
<1>3. Wrote(dispatched, {FuncID(m)}) /\ DispatchEdge(m, g) \in Range(dispatched)
  BY DispatchWrites
<1>4. called \o AddFunc(code, g) \o <<DispatchEdge(m, g)>> = called \o dispatched
  <2>1. PICK v, w : v = FuncWrite(g) /\ w = DispatchEdge(m, g)
    OBVIOUS
  <2>2. AddFunc(code, g) = <<v>>
    BY <2>1, FuncWritten
  <2> HIDE DEF called
  <2>3. PICK S : called \in Seq(S)
    BY <1>2 DEF IsSeq
  <2>4. PICK T : T = S \cup {v, w}
    OBVIOUS
  <2>5. called \in Seq(T) /\ <<v>> \in Seq(T) /\ <<w>> \in Seq(T)
    <3>1. called \in Seq(T)
      BY <2>3, <2>4, SeqMonotonic
    <3>2. v \in T /\ w \in T
      BY <2>4
    <3>3. QED
      BY <3>1, <3>2
  <2>6. (called \o <<v>>) \o <<w>> = called \o (<<v>> \o <<w>>)
    BY <2>5, ConcatAssociative
  <2>7. QED
    BY <2>1, <2>2, <2>6
<1> HIDE DEF called, dispatched
<1>5. Wrote(dispatched, {FuncID(f)} \cup Ids(called))
  BY <1>2, <1>3, WroteMore
<1>6. /\ Wrote(called \o dispatched, {FuncID(f)})
      /\ Range(called \o dispatched) = Range(called) \cup Range(dispatched)
  BY <1>2, <1>5, WroteConcat
<1>7. CASE Excluded(m)
  BY <1>1, <1>7, WroteNone
<1>8. CASE ~Excluded(m) /\ (Excluded(g) \/ ~(Functions[m].module \/ Functions[g].module))
  BY <1>1, <1>2, <1>8
<1>9. CASE ~Excluded(m) /\ ~Excluded(g) /\ (Functions[m].module \/ Functions[g].module)
  <2>1. ws = called \o dispatched
    BY <1>1, <1>4, <1>9
  <2>2. QED
    BY <1>2, <1>3, <1>6, <2>1
<1>10. QED
  BY <1>7, <1>8, <1>9

\* The call at s of f, when it may run g, a function of the module.
CallShown(W, f, s, g) ==
  LET m == CallAt(code[f], s)
  IN  /\ CallEdge(f, s, FuncID(m)) \in W
      /\ Functions[m].impls # {} => DispatchEdge(m, g) \in W

Runnable(f, s) ==
  {g \in SiteCallees(CallAt(code[f], s)) : Functions[g].module /\ ~Excluded(CallAt(code[f], s))}

LEMMA CallWrites ==
  ASSUME program \in Programs, NEW f \in DOMAIN code, NEW s \in Sites(code[f]), NEW ws, ws = AddCall(code, f, s)
  PROVE  /\ Wrote(ws, {FuncID(f)})
         /\ \A g \in Runnable(f, s) : CallShown(Range(ws), f, s, g)
<1> DEFINE m == CallAt(code[f], s)
           impls == SetToSeq(Functions[m].impls)
           seqs == [i \in DOMAIN impls |->
                     AddInvoke(code, f, m, impls[i], SitePos(code[f], s), MethodsOf(code[f], s[1]))]
<1>1. m \in DOMAIN Functions /\ IsFiniteSet(Functions[m].impls)
  <2>1. m \in DOMAIN Functions
    BY SiteCalls
  <2>2. Functions[m].impls \subseteq DOMAIN Functions
    BY <2>1, FunctionsAssumption
  <2>3. QED
    BY <2>1, <2>2, FunctionsAssumption, FS_Subset
<1>2. ws = IF Functions[m].impls # {} THEN FlattenSeq(seqs)
           ELSE IF Excluded(m) THEN <<>>
           ELSE AddFunc(code, m) \o <<CallEdge(f, s, FuncID(m))>>
  BY DEF AddCall, CallEdge
<1>3. CASE Functions[m].impls # {}
  <2>1. /\ Range(impls) = Functions[m].impls /\ Len(impls) \in Nat /\ DOMAIN impls = 1..Len(impls)
    BY <1>1, SetInSeq, SeqRange, DomainOfSeq
  <2> HIDE DEF impls
  <2>2. /\ DOMAIN seqs = 1..Len(impls) /\ seqs = [i \in DOMAIN seqs |-> seqs[i]]
        /\ \A i \in 1..Len(impls) :
             seqs[i] = AddInvoke(code, f, m, impls[i], SitePos(code[f], s), MethodsOf(code[f], s[1]))
    BY <2>1
  <2> HIDE DEF seqs
  <2>3. ASSUME NEW i \in 1..Len(impls)
        PROVE  /\ Wrote(seqs[i], {FuncID(f)})
               /\ ~Excluded(m) /\ ~Excluded(impls[i]) /\ Functions[impls[i]].module =>
                    /\ CallEdge(f, s, FuncID(m)) \in Range(seqs[i])
                    /\ DispatchEdge(m, impls[i]) \in Range(seqs[i])
    <3>1. PICK g, us : g = impls[i] /\ us = seqs[i]
      OBVIOUS
    <3>2. us = AddInvoke(code, f, m, g, SitePos(code[f], s), MethodsOf(code[f], s[1]))
      BY <2>2, <3>1
    <3> HIDE DEF m
    <3>3. QED
      BY <3>1, <3>2, InvokeWrites
  <2>4. Wrote(FlattenSeq(seqs), {FuncID(f)}) /\ Range(FlattenSeq(seqs)) = UNION {Range(seqs[i]) : i \in 1..Len(impls)}
    BY <2>1, <2>2, <2>3, WroteFlat
  <2>5. ASSUME NEW g \in Runnable(f, s)
        PROVE  CallEdge(f, s, FuncID(m)) \in Range(ws) /\ DispatchEdge(m, g) \in Range(ws)
    <3>1. g \in Functions[m].impls /\ Functions[g].module /\ ~Excluded(m) /\ ~Excluded(g)
      BY <1>3 DEF Runnable, SiteCallees, Excluded
    <3>2. PICK i \in 1..Len(impls) : g = impls[i]
      BY <2>1, <3>1 DEF Range
    <3>3. CallEdge(f, s, FuncID(m)) \in Range(seqs[i]) /\ DispatchEdge(m, g) \in Range(seqs[i])
      BY <2>3, <3>1, <3>2
    <3>4. QED
      BY <1>2, <1>3, <2>4, <3>3
  <2>6. QED
    BY <1>2, <1>3, <2>4, <2>5 DEF CallShown
<1>4. CASE Functions[m].impls = {} /\ Excluded(m)
  <2>1. ws = <<>>
    BY <1>2, <1>4
  <2>2. Runnable(f, s) = {}
    BY <1>4 DEF Runnable
  <2>3. QED
    BY <2>1, <2>2, WroteNone
<1>5. CASE Functions[m].impls = {} /\ ~Excluded(m)
  <2>1. ws = AddFunc(code, m) \o <<CallEdge(f, s, FuncID(m))>>
    BY <1>2, <1>5
  <2> HIDE DEF m
  <2>2. Wrote(ws, {FuncID(f)}) /\ Range(ws) = {FuncWrite(m), CallEdge(f, s, FuncID(m))}
    BY <2>1, CalleeWrites, ZenonT(60)
  <2>3. QED
    BY <1>5, <2>2 DEF CallShown, m
<1>6. QED
  BY <1>3, <1>4, <1>5

LEMMA CallsWrites ==
  ASSUME program \in Programs, NEW f \in DOMAIN code, NEW ws, ws = AddCalls(code, f)
  PROVE  /\ Wrote(ws, {FuncID(f)})
         /\ \A s \in Sites(code[f]) : \A g \in Runnable(f, s) : CallShown(Range(ws), f, s, g)
<1> DEFINE sites == SitesInOrder(code[f])
           seqs == [i \in DOMAIN sites |-> AddCall(code, f, sites[i])]
<1>1. ws = FlattenSeq(seqs)
  BY DEF AddCalls
<1>2. Range(sites) = Sites(code[f]) /\ Len(sites) \in Nat /\ DOMAIN sites = 1..Len(sites)
  BY SitesOrdered
<1> HIDE DEF sites
<1>3. /\ DOMAIN seqs = 1..Len(sites) /\ seqs = [i \in DOMAIN seqs |-> seqs[i]]
      /\ \A i \in 1..Len(sites) : seqs[i] = AddCall(code, f, sites[i])
  BY <1>2
<1> HIDE DEF seqs
<1>4. ASSUME NEW i \in 1..Len(sites)
      PROVE  /\ Wrote(seqs[i], {FuncID(f)})
             /\ \A g \in Runnable(f, sites[i]) : CallShown(Range(seqs[i]), f, sites[i], g)
  <2>1. PICK s, us : s = sites[i] /\ us = seqs[i]
    OBVIOUS
  <2>2. s \in Sites(code[f]) /\ us = AddCall(code, f, s)
    BY <1>2, <1>3, <2>1 DEF Range
  <2>3. QED
    BY <2>1, <2>2, CallWrites
<1>a. \A i \in 1..Len(sites) : Wrote(seqs[i], {FuncID(f)})
  BY <1>4
<1>b. /\ Wrote(FlattenSeq(seqs), {FuncID(f)})
      /\ Range(FlattenSeq(seqs)) = UNION {Range(seqs[i]) : i \in 1..Len(sites)}
  BY <1>2, <1>3, <1>a, WroteFlat
<1>5. Wrote(ws, {FuncID(f)}) /\ Range(ws) = UNION {Range(seqs[i]) : i \in 1..Len(sites)}
  BY <1>1, <1>3, <1>b
<1>6. ASSUME NEW s \in Sites(code[f]), NEW g \in Runnable(f, s)
      PROVE  CallShown(Range(ws), f, s, g)
  <2>1. PICK i \in 1..Len(sites) : s = sites[i]
    BY <1>2 DEF Range
  <2>2. CallShown(Range(seqs[i]), f, s, g)
    BY <1>4, <2>1
  <2>3. Range(seqs[i]) \subseteq Range(ws)
    BY <1>5
  <2>4. QED
    BY <2>2, <2>3 DEF CallShown
<1>7. QED
  BY <1>5, <1>6

\* The sinks of f.
Detected(f) == {s \in Sites(code[f]) : <<f, s>> \in DetectedSinks(code)}

LEMMA SinkWritten ==
  ASSUME NEW f, NEW s
  PROVE  OfProgram(SinkWrite(f, s)) /\ IsNodeWrite(SinkWrite(f, s)) /\ SinkWrite(f, s).id = SinkID(f, s)
BY NodeWritten DEF SinkWrite, OfProgram, NodeOfProgram

LEMMA SinkWrites ==
  ASSUME NEW f \in DOMAIN code, NEW s \in Sites(code[f]), NEW ws, NEW known,
         ws = <<SinkWrite(f, s)>> \o AddFunc(code, f) \o <<CallEdge(f, s, SinkID(f, s))>>
  PROVE  Wrote(ws, known) /\ Range(ws) = {SinkWrite(f, s), FuncWrite(f), CallEdge(f, s, SinkID(f, s))}
<1>1. PICK u, v, w : u = SinkWrite(f, s) /\ v = FuncWrite(f) /\ w = CallEdge(f, s, SinkID(f, s))
  OBVIOUS
<1>2. ws = <<u>> \o <<v>> \o <<w>>
  BY <1>1, FuncWritten
<1>3. OfProgram(u) /\ IsNodeWrite(u) /\ u.id = SinkID(f, s)
  BY <1>1, SinkWritten
<1>4. OfProgram(v) /\ IsNodeWrite(v) /\ v.id = FuncID(f)
  BY <1>1, FuncWritten
<1>5. OfProgram(w) /\ ~IsNodeWrite(w) /\ w.from = FuncID(f) /\ w.to = SinkID(f, s)
  BY <1>1, CallEdgeWritten
<1>6. Wrote(<<u>>, known) /\ Range(<<u>>) = {u} /\ Ids(<<u>>) = {u.id}
  BY <1>3, WroteOne
<1>7. \A some : Wrote(<<v>>, some)
  BY <1>4, WroteOne
<1>8. Range(<<v>>) = {v} /\ Ids(<<v>>) = {v.id}
  BY <1>4, WroteOne
<1>9. PICK uv : uv = <<u>> \o <<v>>
  OBVIOUS
<1>10. Wrote(uv, known) /\ Range(uv) = {u, v} /\ Ids(uv) = {u.id, v.id}
  <2>1. Wrote(<<v>>, known \cup Ids(<<u>>))
    BY <1>7
  <2>2. Wrote(uv, known) /\ Range(uv) = Range(<<u>>) \cup Range(<<v>>) /\ Ids(uv) = Ids(<<u>>) \cup Ids(<<v>>)
    BY <1>6, <1>9, <2>1, WroteConcat, Zenon
  <2>3. QED
    BY <1>6, <1>8, <2>2
<1>11. {w.from, w.to} \subseteq known \cup Ids(uv)
  BY <1>3, <1>4, <1>5, <1>10
<1>12. Wrote(<<w>>, known \cup Ids(uv)) /\ Range(<<w>>) = {w}
  BY <1>5, <1>11, WroteOne, Zenon
<1>13. Wrote(uv \o <<w>>, known) /\ Range(uv \o <<w>>) = Range(uv) \cup Range(<<w>>)
  BY <1>10, <1>12, WroteConcat, Zenon
<1>14. ws = uv \o <<w>> /\ Range(ws) = {u, v, w}
  BY <1>2, <1>9, <1>10, <1>12, <1>13
<1>15. QED
  BY <1>1, <1>13, <1>14

LEMMA SinksWrites ==
  ASSUME program \in Programs, NEW f \in DOMAIN code, NEW ws, NEW known, ws = AddSinks(code, f)
  PROVE  /\ Wrote(ws, known)
         /\ \A s \in Detected(f) : SinkWrite(f, s) \in Range(ws) /\ CallEdge(f, s, SinkID(f, s)) \in Range(ws)
<1> DEFINE sites == SitesInOrder(code[f])
           sink(s) == <<SinkWrite(f, s)>> \o AddFunc(code, f) \o <<CallEdge(f, s, SinkID(f, s))>>
           seqs == [i \in DOMAIN sites |->
                     IF <<f, sites[i]>> \in DetectedSinks(code) THEN sink(sites[i]) ELSE <<>>]
<1>1. ws = FlattenSeq(seqs)
  BY DEF AddSinks, SinkWrite, NodeWrite, CallEdge
<1>2. Range(sites) = Sites(code[f]) /\ Len(sites) \in Nat /\ DOMAIN sites = 1..Len(sites)
  BY SitesOrdered
<1> HIDE DEF sites, sink
<1>3. /\ DOMAIN seqs = 1..Len(sites) /\ seqs = [i \in DOMAIN seqs |-> seqs[i]]
      /\ \A i \in 1..Len(sites) :
           seqs[i] = IF <<f, sites[i]>> \in DetectedSinks(code) THEN sink(sites[i]) ELSE <<>>
  BY <1>2
<1> HIDE DEF seqs
<1>4. ASSUME NEW i \in 1..Len(sites)
      PROVE  /\ Wrote(seqs[i], known)
             /\ sites[i] \in Detected(f) =>
                  SinkWrite(f, sites[i]) \in Range(seqs[i]) /\ CallEdge(f, sites[i], SinkID(f, sites[i])) \in Range(seqs[i])
  <2>1. PICK s, us : s = sites[i] /\ us = sink(s)
    OBVIOUS
  <2>2. s \in Sites(code[f])
    BY <1>2, <2>1 DEF Range
  <2>3. us = <<SinkWrite(f, s)>> \o AddFunc(code, f) \o <<CallEdge(f, s, SinkID(f, s))>>
    BY <2>1 DEF sink
  <2>4. Wrote(us, known) /\ Range(us) = {SinkWrite(f, s), FuncWrite(f), CallEdge(f, s, SinkID(f, s))}
    BY <2>2, <2>3, SinkWrites, Zenon
  <2>5. seqs[i] = IF <<f, s>> \in DetectedSinks(code) THEN us ELSE <<>>
    BY <1>3, <2>1
  <2>6. s \in Detected(f) => <<f, s>> \in DetectedSinks(code)
    BY DEF Detected
  <2>7. QED
    BY <2>1, <2>4, <2>5, <2>6, WroteNone
<1>a. \A i \in 1..Len(sites) : Wrote(seqs[i], known)
  BY <1>4
<1>b. /\ Wrote(FlattenSeq(seqs), known)
      /\ Range(FlattenSeq(seqs)) = UNION {Range(seqs[i]) : i \in 1..Len(sites)}
  BY <1>2, <1>3, <1>a, WroteFlat
<1>5. Wrote(ws, known) /\ Range(ws) = UNION {Range(seqs[i]) : i \in 1..Len(sites)}
  BY <1>1, <1>3, <1>b
<1>6. ASSUME NEW s \in Detected(f)
      PROVE  SinkWrite(f, s) \in Range(ws) /\ CallEdge(f, s, SinkID(f, s)) \in Range(ws)
  <2>1. PICK i \in 1..Len(sites) : s = sites[i]
    BY <1>2 DEF Range, Detected
  <2>2. QED
    BY <1>4, <1>5, <2>1
<1>7. QED
  BY <1>5, <1>6

\* The ends of what sinks query: sinks and tables of the migrations.
SinkIDs(f) == {SinkID(f, s) : s \in Detected(f)}

UsesShown(W, f, s) ==
  \A u \in Range(UsesAt(program.queries, CallAt(code[f], s))) : QueryEdge(SinkID(f, s), u) \in W

LEMMA QueriesAtSink ==
  ASSUME program \in Programs, NEW f \in DOMAIN code, NEW s \in Sites(code[f]), NEW ws,
         ws = AddTableUses(SinkID(f, s), UsesAt(program.queries, CallAt(code[f], s)))
  PROVE  Wrote(ws, {SinkID(f, s)} \cup Tables(Schema)) /\ UsesShown(Range(ws), f, s)
<1>1. PICK sink, uses : sink = SinkID(f, s) /\ uses = UsesAt(program.queries, CallAt(code[f], s))
  OBVIOUS
<1>2. IsSeq(uses)
  <2>1. \A g \in DOMAIN program.queries : IsSeq(program.queries[g])
    BY ServedAssumption DEF IsUses
  <2>2. QED
    BY <1>1, <2>1, NoWrites DEF UsesAt
<1>3. ws = AddTableUses(sink, uses)
  BY <1>1
<1>4. /\ IsSeq(ws) /\ Fits(ws, {sink} \cup Tables(Schema))
      /\ \A w \in Range(ws) : IsUseWrite(w, sink, uses)
      /\ \A u \in Range(uses) : QueryEdge(sink, u) \in Range(ws)
  BY <1>2, <1>3, TableUses
<1>5. ASSUME NEW w \in Range(ws) PROVE OfProgram(w)
  <2>1. CASE \E t : w = TableWrite(t)
    BY <2>1 DEF OfProgram, NodeOfProgram
  <2>2. CASE \E u \in Range(uses) : w = QueryEdge(sink, u)
    BY <1>1, <2>2 DEF OfProgram, EdgeOfProgram, IsQueryWrite
  <2>3. QED
    BY <1>4, <2>1, <2>2 DEF IsUseWrite
<1>6. QED
  BY <1>1, <1>4, <1>5 DEF Wrote, UsesShown

LEMMA QueriesWrites ==
  ASSUME program \in Programs, NEW f \in DOMAIN code, NEW ws, ws = AddQueries(code, program.queries, f)
  PROVE  /\ Wrote(ws, SinkIDs(f) \cup Tables(Schema))
         /\ \A s \in Detected(f) : UsesShown(Range(ws), f, s)
<1> DEFINE sites == SitesInOrder(code[f])
           uses(s) == AddTableUses(SinkID(f, s), UsesAt(program.queries, CallAt(code[f], s)))
           seqs == [i \in DOMAIN sites |->
                     IF <<f, sites[i]>> \in DetectedSinks(code) THEN uses(sites[i]) ELSE <<>>]
           known == SinkIDs(f) \cup Tables(Schema)
<1>1. ws = FlattenSeq(seqs)
  BY DEF AddQueries
<1>2. Range(sites) = Sites(code[f]) /\ Len(sites) \in Nat /\ DOMAIN sites = 1..Len(sites)
  BY SitesOrdered
<1> HIDE DEF sites, uses
<1>3. /\ DOMAIN seqs = 1..Len(sites) /\ seqs = [i \in DOMAIN seqs |-> seqs[i]]
      /\ \A i \in 1..Len(sites) :
           seqs[i] = IF <<f, sites[i]>> \in DetectedSinks(code) THEN uses(sites[i]) ELSE <<>>
  BY <1>2
<1> HIDE DEF seqs
<1>4. ASSUME NEW i \in 1..Len(sites)
      PROVE  /\ Wrote(seqs[i], known)
             /\ sites[i] \in Detected(f) => UsesShown(Range(seqs[i]), f, sites[i])
  <2>1. PICK s, us : s = sites[i] /\ us = uses(s)
    OBVIOUS
  <2>2. s \in Sites(code[f])
    BY <1>2, <2>1 DEF Range
  <2>3. us = AddTableUses(SinkID(f, s), UsesAt(program.queries, CallAt(code[f], s)))
    BY <2>1 DEF uses
  <2>4. Wrote(us, {SinkID(f, s)} \cup Tables(Schema)) /\ UsesShown(Range(us), f, s)
    BY <2>2, <2>3, QueriesAtSink
  <2>5. seqs[i] = IF <<f, s>> \in DetectedSinks(code) THEN us ELSE <<>>
    BY <1>3, <2>1
  <2>6. CASE s \in Detected(f)
    <3>1. seqs[i] = us /\ {SinkID(f, s)} \cup Tables(Schema) \subseteq known
      BY <2>5, <2>6 DEF Detected, SinkIDs
    <3>2. Wrote(us, known)
      BY <2>4, <3>1, WroteMore
    <3>3. QED
      BY <2>1, <2>4, <3>1, <3>2
  <2>7. CASE s \notin Detected(f)
    <3>1. seqs[i] = <<>>
      BY <2>2, <2>5, <2>7 DEF Detected
    <3>2. QED
      BY <2>1, <2>7, <3>1, WroteNone
  <2>8. QED
    BY <2>6, <2>7
<1>a. \A i \in 1..Len(sites) : Wrote(seqs[i], known)
  BY <1>4
<1>b. /\ Wrote(FlattenSeq(seqs), known)
      /\ Range(FlattenSeq(seqs)) = UNION {Range(seqs[i]) : i \in 1..Len(sites)}
  BY <1>2, <1>3, <1>a, WroteFlat
<1>5. Wrote(ws, known) /\ Range(ws) = UNION {Range(seqs[i]) : i \in 1..Len(sites)}
  BY <1>1, <1>3, <1>b
<1>6. ASSUME NEW s \in Detected(f)
      PROVE  UsesShown(Range(ws), f, s)
  <2>1. PICK i \in 1..Len(sites) : s = sites[i]
    BY <1>2 DEF Range, Detected
  <2>2. UsesShown(Range(seqs[i]), f, s) /\ Range(seqs[i]) \subseteq Range(ws)
    BY <1>4, <1>5, <2>1
  <2>3. QED
    BY <2>2 DEF UsesShown
<1>7. QED
  BY <1>5, <1>6

LEMMA TablesWritten ==
  /\ \A known : Wrote(AddSchema, known)
  /\ Ids(AddSchema) = Tables(Schema)
<1>1. ASSUME NEW t PROVE OfProgram(TableWrite(t)) /\ IsNodeWrite(TableWrite(t)) /\ TableWrite(t).id = TableID(t)
  BY NodeWritten DEF TableWrite, OfProgram, NodeOfProgram
<1>2. \A known : Wrote(AddSchema, known)
  BY <1>1, SchemaWrites DEF Wrote
<1>3. ASSUME NEW x \in Ids(AddSchema) PROVE x \in Tables(Schema)
  <2>1. PICK w \in Range(AddSchema) : x = w.id
    BY DEF Ids
  <2>2. PICK t \in Schema : w = TableWrite(t)
    BY <2>1, SchemaWrites
  <2>3. QED
    BY <1>1, <2>1, <2>2 DEF Tables
<1>4. ASSUME NEW x \in Tables(Schema) PROVE x \in Ids(AddSchema)
  <2>1. PICK t \in Schema : x = TableID(t)
    BY DEF Tables
  <2>2. TableWrite(t) \in Range(AddSchema)
    BY <2>1, SchemaWrites
  <2>3. QED
    BY <1>1, <2>1, <2>2 DEF Ids
<1>5. QED
  BY <1>2, <1>3, <1>4

LEMMA RouteEdgeWritten ==
  ASSUME NEW f, NEW k \in {"handled_by", "guarded_by"}
  PROVE  LET e == RouteEdge(f, k)
         IN  /\ OfProgram(e) /\ ~IsNodeWrite(e) /\ e.from = RouteID /\ e.to = FuncID(f) /\ e.kind = k
             /\ e.methods = {}
<1>1. OfProgram(RouteEdge(f, k))
  BY DEF OfProgram, EdgeOfProgram, IsRouteWrite
<1>2. QED
  BY <1>1, EdgeWritten DEF RouteEdge

LEMMA RouteFuncWrites ==
  ASSUME NEW f, NEW k \in {"handled_by", "guarded_by"}, NEW ws, ws = AddFunc(code, f) \o <<RouteEdge(f, k)>>
  PROVE  Wrote(ws, {RouteID}) /\ Range(ws) = {FuncWrite(f), RouteEdge(f, k)}
<1>1. PICK v, w : v = FuncWrite(f) /\ w = RouteEdge(f, k)
  OBVIOUS
<1>2. ws = <<v>> \o <<w>>
  BY <1>1, FuncWritten
<1>3. OfProgram(v) /\ IsNodeWrite(v) /\ v.id = FuncID(f)
  BY <1>1, FuncWritten
<1>4. OfProgram(w) /\ ~IsNodeWrite(w) /\ w.from = RouteID /\ w.to = FuncID(f)
  BY <1>1, RouteEdgeWritten
<1>5. Wrote(ws, {w.from}) /\ Range(ws) = {v, w} /\ Ids(ws) = {v.id}
  BY <1>2, <1>3, <1>4, WroteBoth, Zenon
<1>6. QED
  BY <1>1, <1>4, <1>5

LEMMA RouteWrites ==
  ASSUME NEW handler, NEW guards, IsFiniteSet(guards), NEW ws, NEW known, ws = AddRoute(code, handler, guards)
  PROVE  Wrote(ws, known) /\ RouteWrite \in Range(ws) /\ RouteEdge(handler, "handled_by") \in Range(ws)
<1> DEFINE uses == SetToSeq(guards)
           seqs == [i \in DOMAIN uses |-> AddFunc(code, uses[i]) \o <<RouteEdge(uses[i], "guarded_by")>>]
<1>1. Len(uses) \in Nat /\ DOMAIN uses = 1..Len(uses)
  BY SetInSeq, SeqRange, DomainOfSeq
<1>2. ws = <<RouteWrite>> \o AddFunc(code, handler) \o <<RouteEdge(handler, "handled_by")>> \o FlattenSeq(seqs)
  BY DEF AddRoute, RouteWrite, RouteEdge, NodeWrite
<1> HIDE DEF uses
<1>3. /\ DOMAIN seqs = 1..Len(uses) /\ seqs = [i \in DOMAIN seqs |-> seqs[i]]
      /\ \A i \in 1..Len(uses) : seqs[i] = AddFunc(code, uses[i]) \o <<RouteEdge(uses[i], "guarded_by")>>
  BY <1>1
<1> HIDE DEF seqs
<1>4. \A i \in 1..Len(uses) : Wrote(seqs[i], {RouteID})
  <2>1. ASSUME NEW i \in 1..Len(uses) PROVE Wrote(seqs[i], {RouteID})
    <3>1. PICK us : us = seqs[i]
      OBVIOUS
    <3>2. us = AddFunc(code, uses[i]) \o <<RouteEdge(uses[i], "guarded_by")>>
      BY <1>3, <3>1
    <3>3. QED
      BY <3>1, <3>2, RouteFuncWrites
  <2>2. QED
    BY <2>1
<1>5. Wrote(FlattenSeq(seqs), {RouteID})
  BY <1>1, <1>3, <1>4, WroteFlat
<1>6. PICK u, v, w, rest : /\ u = RouteWrite /\ v = FuncWrite(handler) /\ w = RouteEdge(handler, "handled_by")
                           /\ rest = FlattenSeq(seqs)
  OBVIOUS
<1>7. ws = <<u>> \o <<v>> \o <<w>> \o rest
  BY <1>2, <1>6, FuncWritten
<1>8. OfProgram(u) /\ IsNodeWrite(u) /\ u.id = RouteID
  BY <1>6, NodeWritten DEF RouteWrite, OfProgram, NodeOfProgram
<1>9. OfProgram(v) /\ IsNodeWrite(v) /\ v.id = FuncID(handler)
  BY <1>6, FuncWritten
<1>10. OfProgram(w) /\ ~IsNodeWrite(w) /\ w.from = RouteID /\ w.to = FuncID(handler)
  BY <1>6, RouteEdgeWritten
<1>11. Wrote(<<u>>, known) /\ Range(<<u>>) = {u} /\ Ids(<<u>>) = {u.id}
  BY <1>8, WroteOne
<1>12. \A some : Wrote(<<v>>, some)
  BY <1>9, WroteOne
<1>13. Range(<<v>>) = {v} /\ Ids(<<v>>) = {v.id}
  BY <1>9, WroteOne
<1>14. PICK uv : uv = <<u>> \o <<v>>
  OBVIOUS
<1>15. Wrote(uv, known) /\ Range(uv) = {u, v} /\ Ids(uv) = {u.id, v.id}
  <2>1. Wrote(<<v>>, known \cup Ids(<<u>>))
    BY <1>12
  <2>2. Wrote(uv, known) /\ Range(uv) = Range(<<u>>) \cup Range(<<v>>) /\ Ids(uv) = Ids(<<u>>) \cup Ids(<<v>>)
    BY <1>11, <1>14, <2>1, WroteConcat, Zenon
  <2>3. QED
    BY <1>11, <1>13, <2>2
<1>16. {w.from, w.to} \subseteq known \cup Ids(uv)
  BY <1>8, <1>9, <1>10, <1>15
<1>17. Wrote(<<w>>, known \cup Ids(uv)) /\ Range(<<w>>) = {w}
  BY <1>10, <1>16, WroteOne, Zenon
<1>18. PICK uvw : uvw = uv \o <<w>>
  OBVIOUS
<1>19. /\ Wrote(uvw, known) /\ Range(uvw) = Range(uv) \cup Range(<<w>>)
       /\ Ids(uvw) = Ids(uv) \cup Ids(<<w>>)
  BY <1>15, <1>17, <1>18, WroteConcat, Zenon
<1>20. {RouteID} \subseteq known \cup Ids(uvw)
  BY <1>8, <1>15, <1>19
<1>21. Wrote(rest, known \cup Ids(uvw))
  BY <1>5, <1>6, <1>20, WroteMore, Zenon
<1>22. Wrote(uvw \o rest, known) /\ Range(uvw \o rest) = Range(uvw) \cup Range(rest)
  BY <1>19, <1>21, WroteConcat, Zenon
<1>23. ws = uvw \o rest
  BY <1>7, <1>14, <1>18
<1>24. u \in Range(ws) /\ w \in Range(ws)
  BY <1>15, <1>17, <1>19, <1>22, <1>23
<1>25. QED
  BY <1>6, <1>22, <1>23, <1>24

\* The writes of all functions of the module.
LEMMA OwnWrites ==
  ASSUME program \in Programs, NEW ws, ws = FlattenSeq([i \in DOMAIN Own |-> AddFunc(code, Own[i])])
  PROVE  Wrote(ws, {}) /\ \A f \in DOMAIN code : FuncID(f) \in Ids(ws)
<1> DEFINE seqs == [i \in DOMAIN Own |-> AddFunc(code, Own[i])]
<1>1. Len(Own) \in Nat /\ DOMAIN Own = 1..Len(Own) /\ \A f \in DOMAIN code : f \in Range(Own)
  BY CodeShape, FunctionsAssumption
<1>2. /\ DOMAIN seqs = 1..Len(Own) /\ seqs = [i \in DOMAIN seqs |-> seqs[i]]
      /\ \A i \in 1..Len(Own) : seqs[i] = <<FuncWrite(Own[i])>>
  BY <1>1, FuncWritten
<1>3. ws = FlattenSeq(seqs)
  OBVIOUS
<1> HIDE DEF seqs
<1>4. ASSUME NEW i \in 1..Len(Own) PROVE Wrote(seqs[i], {}) /\ Range(seqs[i]) = {FuncWrite(Own[i])}
  <2>1. PICK w : w = FuncWrite(Own[i])
    OBVIOUS
  <2>2. OfProgram(w) /\ IsNodeWrite(w)
    BY <2>1, FuncWritten
  <2>3. QED
    BY <1>2, <2>1, <2>2, WroteOne
<1>a. \A i \in 1..Len(Own) : Wrote(seqs[i], {})
  BY <1>4
<1>b. /\ Wrote(FlattenSeq(seqs), {})
      /\ Range(FlattenSeq(seqs)) = UNION {Range(seqs[i]) : i \in 1..Len(Own)}
  BY <1>2, <1>3, <1>a, WroteFlat
<1>5. Wrote(ws, {}) /\ Range(ws) = UNION {Range(seqs[i]) : i \in 1..Len(Own)}
  BY <1>1, <1>3, <1>b
<1>6. ASSUME NEW f \in DOMAIN code PROVE FuncID(f) \in Ids(ws)
  <2>1. PICK i \in 1..Len(Own) : f = Own[i]
    BY <1>1 DEF Range
  <2>2. FuncWrite(f) \in Range(ws)
    BY <1>4, <1>5, <2>1
  <2>3. QED
    BY <2>2, FuncWritten DEF Ids
<1>7. QED
  BY <1>5, <1>6

CallsShownIn(W, f) ==
  \A s \in Sites(code[f]) : \A g \in Runnable(f, s) : CallShown(W, f, s, g)

LEMMA AllCallsWrites ==
  ASSUME program \in Programs, NEW ws, NEW known, \A f \in DOMAIN code : FuncID(f) \in known,
         ws = FlattenSeq([i \in DOMAIN Own |-> IF Own[i] \in DOMAIN code THEN AddCalls(code, Own[i]) ELSE <<>>])
  PROVE  /\ Wrote(ws, known)
         /\ \A f \in DOMAIN code : CallsShownIn(Range(ws), f)
<1> DEFINE seqs == [i \in DOMAIN Own |-> IF Own[i] \in DOMAIN code THEN AddCalls(code, Own[i]) ELSE <<>>]
<1>1. Len(Own) \in Nat /\ DOMAIN Own = 1..Len(Own) /\ \A f \in DOMAIN code : f \in Range(Own)
  BY CodeShape, FunctionsAssumption
<1>2. /\ DOMAIN seqs = 1..Len(Own) /\ seqs = [i \in DOMAIN seqs |-> seqs[i]]
      /\ \A i \in 1..Len(Own) : seqs[i] = IF Own[i] \in DOMAIN code THEN AddCalls(code, Own[i]) ELSE <<>>
  BY <1>1
<1>3. ws = FlattenSeq(seqs)
  OBVIOUS
<1> HIDE DEF seqs
<1>4. ASSUME NEW i \in 1..Len(Own)
      PROVE  /\ Wrote(seqs[i], known)
             /\ Own[i] \in DOMAIN code => CallsShownIn(Range(seqs[i]), Own[i])
  <2>1. PICK f, us : f = Own[i] /\ us = seqs[i]
    OBVIOUS
  <2>2. CASE f \in DOMAIN code
    <3>1. us = AddCalls(code, f)
      BY <1>2, <2>1, <2>2
    <3>2. Wrote(us, {FuncID(f)}) /\ CallsShownIn(Range(us), f)
      BY <2>2, <3>1, CallsWrites DEF CallsShownIn
    <3>3. {FuncID(f)} \subseteq known
      BY <2>2
    <3>4. Wrote(us, known)
      BY <3>2, <3>3, WroteMore
    <3>5. QED
      BY <2>1, <3>2, <3>4
  <2>3. CASE f \notin DOMAIN code
    <3>1. us = <<>>
      BY <1>2, <2>1, <2>3
    <3>2. QED
      BY <2>1, <2>3, <3>1, WroteNone
  <2>4. QED
    BY <2>2, <2>3
<1>a. \A i \in 1..Len(Own) : Wrote(seqs[i], known)
  BY <1>4
<1>b. /\ Wrote(FlattenSeq(seqs), known)
      /\ Range(FlattenSeq(seqs)) = UNION {Range(seqs[i]) : i \in 1..Len(Own)}
  BY <1>2, <1>3, <1>a, WroteFlat
<1>5. Wrote(ws, known) /\ Range(ws) = UNION {Range(seqs[i]) : i \in 1..Len(Own)}
  BY <1>1, <1>3, <1>b
<1>6. ASSUME NEW f \in DOMAIN code PROVE CallsShownIn(Range(ws), f)
  <2>1. PICK i \in 1..Len(Own) : f = Own[i]
    BY <1>1 DEF Range
  <2>2. CallsShownIn(Range(seqs[i]), f)
    BY <1>4, <2>1
  <2>3. Range(seqs[i]) \subseteq Range(ws)
    BY <1>5
  <2>4. QED
    BY <2>2, <2>3 DEF CallsShownIn, CallShown
<1>7. QED
  BY <1>5, <1>6

SinksShownIn(W, f) ==
  \A s \in Detected(f) : SinkWrite(f, s) \in W /\ CallEdge(f, s, SinkID(f, s)) \in W

LEMMA AllSinksWrites ==
  ASSUME program \in Programs, NEW ws, NEW known,
         ws = FlattenSeq([i \in DOMAIN Own |-> IF Own[i] \in DOMAIN code THEN AddSinks(code, Own[i]) ELSE <<>>])
  PROVE  /\ Wrote(ws, known)
         /\ \A f \in DOMAIN code : SinksShownIn(Range(ws), f)
<1> DEFINE seqs == [i \in DOMAIN Own |-> IF Own[i] \in DOMAIN code THEN AddSinks(code, Own[i]) ELSE <<>>]
<1>1. Len(Own) \in Nat /\ DOMAIN Own = 1..Len(Own) /\ \A f \in DOMAIN code : f \in Range(Own)
  BY CodeShape, FunctionsAssumption
<1>2. /\ DOMAIN seqs = 1..Len(Own) /\ seqs = [i \in DOMAIN seqs |-> seqs[i]]
      /\ \A i \in 1..Len(Own) : seqs[i] = IF Own[i] \in DOMAIN code THEN AddSinks(code, Own[i]) ELSE <<>>
  BY <1>1
<1>3. ws = FlattenSeq(seqs)
  OBVIOUS
<1> HIDE DEF seqs
<1>4. ASSUME NEW i \in 1..Len(Own)
      PROVE  /\ Wrote(seqs[i], known)
             /\ Own[i] \in DOMAIN code => SinksShownIn(Range(seqs[i]), Own[i])
  <2>1. PICK f, us : f = Own[i] /\ us = seqs[i]
    OBVIOUS
  <2>2. CASE f \in DOMAIN code
    <3>1. us = AddSinks(code, f)
      BY <1>2, <2>1, <2>2
    <3>2. Wrote(us, known) /\ SinksShownIn(Range(us), f)
      BY <2>2, <3>1, SinksWrites DEF SinksShownIn
    <3>3. QED
      BY <2>1, <3>2
  <2>3. CASE f \notin DOMAIN code
    <3>1. us = <<>>
      BY <1>2, <2>1, <2>3
    <3>2. QED
      BY <2>1, <2>3, <3>1, WroteNone
  <2>4. QED
    BY <2>2, <2>3
<1>a. \A i \in 1..Len(Own) : Wrote(seqs[i], known)
  BY <1>4
<1>b. /\ Wrote(FlattenSeq(seqs), known)
      /\ Range(FlattenSeq(seqs)) = UNION {Range(seqs[i]) : i \in 1..Len(Own)}
  BY <1>2, <1>3, <1>a, WroteFlat
<1>5. Wrote(ws, known) /\ Range(ws) = UNION {Range(seqs[i]) : i \in 1..Len(Own)}
  BY <1>1, <1>3, <1>b
<1>6. ASSUME NEW f \in DOMAIN code PROVE SinksShownIn(Range(ws), f)
  <2>1. PICK i \in 1..Len(Own) : f = Own[i]
    BY <1>1 DEF Range
  <2>2. SinksShownIn(Range(seqs[i]), f)
    BY <1>4, <2>1
  <2>3. Range(seqs[i]) \subseteq Range(ws)
    BY <1>5
  <2>4. QED
    BY <2>2, <2>3 DEF SinksShownIn
<1>7. QED
  BY <1>5, <1>6

LEMMA AllQueriesWrites ==
  ASSUME program \in Programs, NEW ws, NEW known,
         \A f \in DOMAIN code : SinkIDs(f) \subseteq known, Tables(Schema) \subseteq known,
         ws = FlattenSeq([i \in DOMAIN Own |->
                IF Own[i] \in DOMAIN code THEN AddQueries(code, program.queries, Own[i]) ELSE <<>>])
  PROVE  /\ Wrote(ws, known)
         /\ \A f \in DOMAIN code : \A s \in Detected(f) : UsesShown(Range(ws), f, s)
<1> DEFINE seqs == [i \in DOMAIN Own |->
                     IF Own[i] \in DOMAIN code THEN AddQueries(code, program.queries, Own[i]) ELSE <<>>]
<1>1. Len(Own) \in Nat /\ DOMAIN Own = 1..Len(Own) /\ \A f \in DOMAIN code : f \in Range(Own)
  BY CodeShape, FunctionsAssumption
<1>2. /\ DOMAIN seqs = 1..Len(Own) /\ seqs = [i \in DOMAIN seqs |-> seqs[i]]
      /\ \A i \in 1..Len(Own) :
           seqs[i] = IF Own[i] \in DOMAIN code THEN AddQueries(code, program.queries, Own[i]) ELSE <<>>
  BY <1>1
<1>3. ws = FlattenSeq(seqs)
  OBVIOUS
<1> HIDE DEF seqs
<1>4. ASSUME NEW i \in 1..Len(Own)
      PROVE  /\ Wrote(seqs[i], known)
             /\ Own[i] \in DOMAIN code => \A s \in Detected(Own[i]) : UsesShown(Range(seqs[i]), Own[i], s)
  <2>1. PICK f, us : f = Own[i] /\ us = seqs[i]
    OBVIOUS
  <2>2. CASE f \in DOMAIN code
    <3>1. us = AddQueries(code, program.queries, f)
      BY <1>2, <2>1, <2>2
    <3>2. Wrote(us, SinkIDs(f) \cup Tables(Schema)) /\ \A s \in Detected(f) : UsesShown(Range(us), f, s)
      BY <2>2, <3>1, QueriesWrites
    <3>3. SinkIDs(f) \cup Tables(Schema) \subseteq known
      BY <2>2
    <3>4. Wrote(us, known)
      BY <3>2, <3>3, WroteMore
    <3>5. QED
      BY <2>1, <3>2, <3>4
  <2>3. CASE f \notin DOMAIN code
    <3>1. us = <<>>
      BY <1>2, <2>1, <2>3
    <3>2. QED
      BY <2>1, <2>3, <3>1, WroteNone
  <2>4. QED
    BY <2>2, <2>3
<1>a. \A i \in 1..Len(Own) : Wrote(seqs[i], known)
  BY <1>4
<1>b. /\ Wrote(FlattenSeq(seqs), known)
      /\ Range(FlattenSeq(seqs)) = UNION {Range(seqs[i]) : i \in 1..Len(Own)}
  BY <1>2, <1>3, <1>a, WroteFlat
<1>5. Wrote(ws, known) /\ Range(ws) = UNION {Range(seqs[i]) : i \in 1..Len(Own)}
  BY <1>1, <1>3, <1>b
<1>6. ASSUME NEW f \in DOMAIN code, NEW s \in Detected(f) PROVE UsesShown(Range(ws), f, s)
  <2>1. PICK i \in 1..Len(Own) : f = Own[i]
    BY <1>1 DEF Range
  <2>2. UsesShown(Range(seqs[i]), f, s)
    BY <1>4, <2>1
  <2>3. Range(seqs[i]) \subseteq Range(ws)
    BY <1>5
  <2>4. QED
    BY <2>2, <2>3 DEF UsesShown
<1>7. QED
  BY <1>5, <1>6

LEMMA OfProgramIs ==
  ASSUME program \in Programs, NEW w
  PROVE  /\ NodeOfProgram(w) => IsNodeWrite(w) /\ w.node.kind \in NodeKinds
         /\ EdgeOfProgram(w) => ~IsNodeWrite(w) /\ w.kind \in EdgeKinds /\ w.pos \in Int /\ w.branch \in Int
<1>1. ASSUME w = RouteWrite PROVE IsNodeWrite(w) /\ w.node.kind \in NodeKinds
  <2>1. IsNodeWrite(w) /\ w.node = Node("route", FALSE, {})
    BY <1>1, NodeWritten DEF RouteWrite
  <2>2. QED
    BY <2>1 DEF Node, NodeKinds
<1>2. ASSUME NEW f, w = FuncWrite(f) PROVE IsNodeWrite(w) /\ w.node.kind \in NodeKinds
  <2>1. IsNodeWrite(w) /\ w.node = FuncNode(f)
    BY <1>2, NodeWritten DEF FuncWrite
  <2>2. FuncNode(f).kind = FuncKind(f)
    BY DEF FuncNode, Node
  <2>3. QED
    BY <2>1, <2>2 DEF FuncKind, NodeKinds
<1>3. ASSUME NEW t, w = TableWrite(t) PROVE IsNodeWrite(w) /\ w.node.kind \in NodeKinds
  <2>1. IsNodeWrite(w) /\ w.node = Node("sql_table", FALSE, {})
    BY <1>3, NodeWritten DEF TableWrite
  <2>2. QED
    BY <2>1 DEF Node, NodeKinds
<1>4. ASSUME NEW f, NEW s, w = SinkWrite(f, s) PROVE IsNodeWrite(w) /\ w.node.kind \in NodeKinds
  <2>1. IsNodeWrite(w) /\ w.node = Node("sink", FALSE, {})
    BY <1>4, NodeWritten DEF SinkWrite
  <2>2. QED
    BY <2>1 DEF Node, NodeKinds
<1>5. NodeOfProgram(w) => IsNodeWrite(w) /\ w.node.kind \in NodeKinds
  BY <1>1, <1>2, <1>3, <1>4 DEF NodeOfProgram
<1> DEFINE fine(e) == ~IsNodeWrite(e) /\ e.kind \in EdgeKinds /\ e.pos \in Int /\ e.branch \in Int
<1>6. ASSUME IsCallWrite(w) PROVE fine(w)
  <2>1. PICK f \in DOMAIN code : \E s \in Sites(code[f]) : \E to : w = CallEdge(f, s, to)
    BY <1>6 DEF IsCallWrite
  <2>2. PICK s \in Sites(code[f]) : \E to : w = CallEdge(f, s, to)
    BY <2>1
  <2>3. PICK to : w = CallEdge(f, s, to)
    BY <2>2
  <2>4. SitePos(code[f], s) \in Nat
    BY PositionsDiffer
  <2>5. ~IsNodeWrite(w) /\ w.kind = "calls" /\ w.pos = SitePos(code[f], s) /\ w.branch = 0
    BY <2>3, EdgeWritten DEF CallEdge
  <2>6. QED
    BY <2>4, <2>5 DEF EdgeKinds
<1>7. ASSUME NEW m, NEW g, w = DispatchEdge(m, g) PROVE fine(w)
  <2>1. ~IsNodeWrite(w) /\ w.kind = "dispatches_to" /\ w.pos = 0 /\ w.branch = 0
    BY <1>7, EdgeWritten DEF DispatchEdge
  <2>2. QED
    BY <2>1 DEF EdgeKinds
<1>8. ASSUME IsQueryWrite(w) PROVE fine(w)
  <2>1. PICK sink, u : w = QueryEdge(sink, u)
    BY <1>8 DEF IsQueryWrite
  <2>2. QED
    BY <2>1, QueryWritten DEF EdgeKinds
<1>9. ASSUME IsRouteWrite(w) PROVE fine(w)
  <2>1. PICK f, k : w = RouteEdge(f, k) /\ k \in {"handled_by", "guarded_by"}
    BY <1>9 DEF IsRouteWrite
  <2>2. ~IsNodeWrite(w) /\ w.kind = k /\ w.pos = 0 /\ w.branch = 0
    BY <2>1, EdgeWritten DEF RouteEdge
  <2>3. QED
    BY <2>1, <2>2 DEF EdgeKinds
<1>10. QED
  BY <1>5, <1>6, <1>7, <1>8, <1>9 DEF EdgeOfProgram

\* What the graph of a program shows of it.
InGraph(g, w) == \E e \in Range(g.edges) : SameEdge(e, w)

CallDrawn(g, f, s, h) ==
  LET m == CallAt(code[f], s)
  IN  /\ InGraph(g, CallEdge(f, s, FuncID(m)))
      /\ Functions[m].impls # {} => InGraph(g, DispatchEdge(m, h))

SinkDrawn(g, f, s) ==
  /\ InGraph(g, CallEdge(f, s, SinkID(f, s)))
  /\ \A u \in Range(UsesAt(program.queries, CallAt(code[f], s))) : InGraph(g, QueryEdge(SinkID(f, s), u))

Drawn(g, handler) ==
  /\ RouteID \in DOMAIN g.nodes
  /\ \A x \in DOMAIN g.nodes : \E w : NodeOfProgram(w) /\ w.id = x /\ w.node = g.nodes[x]
  /\ \A e \in Range(g.edges) : EdgeOfProgram(e)
  /\ InGraph(g, RouteEdge(handler, "handled_by"))
  /\ \A f \in DOMAIN code : \A s \in Sites(code[f]) : \A h \in Runnable(f, s) : CallDrawn(g, f, s, h)
  /\ \A f \in DOMAIN code : \A s \in Detected(f) : SinkDrawn(g, f, s)

\* The graph of a program has the calls that its functions may make, the
\* sinks they call, what those query, the route and its handler, and nothing
\* that is not of the program (BuildGraph).
THEOREM ProgramGraph ==
  ASSUME program \in Programs, NEW handler, NEW guards, IsFiniteSet(guards),
         NEW g, g = BuildGraph(code, program.queries, handler, guards)
  PROVE  WellFormed(g) /\ Drawn(g, handler)
<1>1. PICK a : a = FlattenSeq([i \in DOMAIN Own |-> AddFunc(code, Own[i])])
  OBVIOUS
<1>2. PICK b : b = FlattenSeq([i \in DOMAIN Own |-> IF Own[i] \in DOMAIN code THEN AddCalls(code, Own[i]) ELSE <<>>])
  OBVIOUS
<1>3. PICK c : c = FlattenSeq([i \in DOMAIN Own |-> IF Own[i] \in DOMAIN code THEN AddSinks(code, Own[i]) ELSE <<>>])
  OBVIOUS
<1>4. PICK d : d = AddSchema
  OBVIOUS
<1>5. PICK q : q = FlattenSeq([i \in DOMAIN Own |->
                     IF Own[i] \in DOMAIN code THEN AddQueries(code, program.queries, Own[i]) ELSE <<>>])
  OBVIOUS
<1>6. PICK r : r = AddRoute(code, handler, guards)
  OBVIOUS
<1>7. PICK ab, abc, abcd, abcdq, all :
        ab = a \o b /\ abc = ab \o c /\ abcd = abc \o d /\ abcdq = abcd \o q /\ all = abcdq \o r
  OBVIOUS
<1>8. g = Write(Open, all)
  BY <1>1, <1>2, <1>3, <1>4, <1>5, <1>6, <1>7 DEF BuildGraph
<1>9. Wrote(a, {}) /\ \A f \in DOMAIN code : FuncID(f) \in Ids(a)
  BY <1>1, OwnWrites
<1>10. Wrote(b, {} \cup Ids(a)) /\ \A f \in DOMAIN code : CallsShownIn(Range(b), f)
  <2>1. \A f \in DOMAIN code : FuncID(f) \in {} \cup Ids(a)
    BY <1>9
  <2>2. QED
    BY <1>2, <2>1, AllCallsWrites
<1>11. Wrote(ab, {}) /\ Range(ab) = Range(a) \cup Range(b) /\ Ids(ab) = Ids(a) \cup Ids(b)
  BY <1>7, <1>9, <1>10, WroteConcat, Zenon
<1>12. Wrote(c, {} \cup Ids(ab)) /\ \A f \in DOMAIN code : SinksShownIn(Range(c), f)
  BY <1>3, AllSinksWrites
<1>13. Wrote(abc, {}) /\ Range(abc) = Range(ab) \cup Range(c) /\ Ids(abc) = Ids(ab) \cup Ids(c)
  BY <1>7, <1>11, <1>12, WroteConcat, Zenon
<1>14. Wrote(d, {} \cup Ids(abc)) /\ Ids(d) = Tables(Schema)
  BY <1>4, TablesWritten
<1>15. Wrote(abcd, {}) /\ Range(abcd) = Range(abc) \cup Range(d) /\ Ids(abcd) = Ids(abc) \cup Ids(d)
  BY <1>7, <1>13, <1>14, WroteConcat, ZenonT(60)
<1>16. \A f \in DOMAIN code : SinkIDs(f) \subseteq Ids(c)
  <2>1. ASSUME NEW f \in DOMAIN code, NEW s \in Detected(f) PROVE SinkID(f, s) \in Ids(c)
    <3>1. SinkWrite(f, s) \in Range(c)
      BY <1>12 DEF SinksShownIn
    <3>2. QED
      BY <3>1, SinkWritten DEF Ids
  <2>2. QED
    BY <2>1 DEF SinkIDs
<1>17. Wrote(q, {} \cup Ids(abcd)) /\ \A f \in DOMAIN code : \A s \in Detected(f) : UsesShown(Range(q), f, s)
  <2>1. PICK known : known = {} \cup Ids(abcd)
    OBVIOUS
  <2>2. (\A f \in DOMAIN code : SinkIDs(f) \subseteq known) /\ Tables(Schema) \subseteq known
    BY <1>13, <1>14, <1>15, <1>16, <2>1
  <2>3. QED
    BY <1>5, <2>1, <2>2, AllQueriesWrites
<1>18. Wrote(abcdq, {}) /\ Range(abcdq) = Range(abcd) \cup Range(q)
  BY <1>7, <1>15, <1>17, WroteConcat, ZenonT(60)
<1>19. Wrote(r, {} \cup Ids(abcdq)) /\ RouteWrite \in Range(r) /\ RouteEdge(handler, "handled_by") \in Range(r)
  BY <1>6, RouteWrites
<1>20. Wrote(all, {}) /\ Range(all) = Range(abcdq) \cup Range(r)
  BY <1>7, <1>18, <1>19, WroteConcat, ZenonT(60)
<1>21. PICK W : W = Range(all)
  OBVIOUS
<1>22. Range(b) \subseteq W /\ Range(c) \subseteq W /\ Range(q) \subseteq W /\ Range(r) \subseteq W
  BY <1>11, <1>13, <1>15, <1>18, <1>20, <1>21
<1>23. \A w \in W : OfProgram(w) /\ Valid(w)
  BY <1>20, <1>21, OfProgramIs DEF Wrote, OfProgram, Valid
<1>24. WellFormed(g) /\ Has(g, Open, W)
  BY <1>8, <1>20, <1>21, <1>23, OpenFormed, WriteHas DEF Wrote
<1>25. /\ DOMAIN g.nodes = {w.id : w \in {v \in W : IsNodeWrite(v)}}
       /\ \A x \in DOMAIN g.nodes : \E w \in W : IsNodeWrite(w) /\ w.id = x /\ w.node = g.nodes[x]
       /\ \A w \in W : IsNodeWrite(w) \/ InGraph(g, w)
       /\ \A e \in Range(g.edges) : e \in W /\ ~IsNodeWrite(e)
  BY <1>24, OpenFormed DEF Has, InGraph
<1>26. \A w \in W : (IsNodeWrite(w) => NodeOfProgram(w)) /\ (~IsNodeWrite(w) => EdgeOfProgram(w))
  BY <1>23, OfProgramIs DEF OfProgram
<1>27. RouteID \in DOMAIN g.nodes
  <2>1. RouteWrite \in W
    BY <1>19, <1>22
  <2>2. IsNodeWrite(RouteWrite) /\ RouteWrite.id = RouteID
    BY NodeWritten DEF RouteWrite
  <2>3. QED
    BY <1>25, <2>1, <2>2
<1>28. InGraph(g, RouteEdge(handler, "handled_by"))
  BY <1>19, <1>22, <1>25, RouteEdgeWritten
<1>29. ASSUME NEW f \in DOMAIN code, NEW s \in Sites(code[f]), NEW h \in Runnable(f, s)
       PROVE  CallDrawn(g, f, s, h)
  <2>1. CallShown(Range(b), f, s, h)
    BY <1>10 DEF CallsShownIn
  <2>2. CallShown(W, f, s, h)
    BY <1>22, <2>1 DEF CallShown
  <2>3. ~IsNodeWrite(CallEdge(f, s, FuncID(CallAt(code[f], s)))) /\ ~IsNodeWrite(DispatchEdge(CallAt(code[f], s), h))
    BY CallEdgeWritten, DispatchWritten
  <2>4. QED
    BY <1>25, <2>2, <2>3 DEF CallShown, CallDrawn
<1>30. ASSUME NEW f \in DOMAIN code, NEW s \in Detected(f)
       PROVE  SinkDrawn(g, f, s)
  <2>1. CallEdge(f, s, SinkID(f, s)) \in W
    BY <1>12, <1>22 DEF SinksShownIn
  <2>2. ~IsNodeWrite(CallEdge(f, s, SinkID(f, s)))
    BY CallEdgeWritten DEF Detected
  <2>3. ASSUME NEW u \in Range(UsesAt(program.queries, CallAt(code[f], s)))
        PROVE  InGraph(g, QueryEdge(SinkID(f, s), u))
    <3>1. QueryEdge(SinkID(f, s), u) \in W
      BY <1>17, <1>22 DEF UsesShown
    <3>2. ~IsNodeWrite(QueryEdge(SinkID(f, s), u))
      BY QueryWritten
    <3>3. QED
      BY <1>25, <3>1, <3>2
  <2>4. QED
    BY <1>25, <2>1, <2>2, <2>3 DEF SinkDrawn
<1>31. QED
  BY <1>24, <1>25, <1>26, <1>27, <1>28, <1>29, <1>30 DEF Drawn

\* IDs of different nodes differ.
LEMMA IDsDiffer ==
  /\ \A f, g : FuncID(f) = FuncID(g) => f = g
  /\ \A f, g : \A s, t : FuncID(f) # SinkID(g, s) /\ FuncID(f) # TableID(t) /\ FuncID(f) # RouteID
                         /\ SinkID(g, s) # TableID(t) /\ SinkID(g, s) # RouteID /\ TableID(t) # RouteID
<1>1. ASSUME NEW f PROVE FuncID(f)[1] \in {"func", "interface_call"} /\ FuncID(f)[2] = f
  BY DEF FuncID, NodeID, FuncKind
<1>2. ASSUME NEW f, NEW s
      PROVE  SinkID(f, s)[1] = "sink" /\ SinkID(f, s)[2] = f /\ SinkID(f, s)[3] = s[1] /\ SinkID(f, s)[4] = s[2]
  BY DEF SinkID
<1>3. ASSUME NEW t PROVE TableID(t)[1] = "sql_table"
  BY DEF TableID, NodeID
<1>4. RouteID[1] = "route"
  BY DEF RouteID, NodeID
<1>5. \A f, g : FuncID(f) = FuncID(g) => f = g
  <2>1. ASSUME NEW f, NEW g, FuncID(f) = FuncID(g) PROVE f = g
    <3>1. FuncID(f)[2] = f /\ FuncID(g)[2] = g
      BY <1>1
    <3>2. QED
      BY <2>1, <3>1
  <2>2. QED
    BY <2>1
<1>6. ASSUME NEW f, NEW g, NEW s, NEW t
      PROVE  FuncID(f) # SinkID(g, s) /\ FuncID(f) # TableID(t) /\ FuncID(f) # RouteID
             /\ SinkID(g, s) # TableID(t) /\ SinkID(g, s) # RouteID /\ TableID(t) # RouteID
  <2>1. /\ FuncID(f)[1] \in {"func", "interface_call"} /\ SinkID(g, s)[1] = "sink"
        /\ TableID(t)[1] = "sql_table"
    BY <1>1, <1>2, <1>3
  <2>2. QED
    BY <1>4, <2>1
<1>7. QED
  BY <1>5, <1>6

LEMMA SinkIDsDiffer ==
  ASSUME NEW f, NEW s, NEW h, NEW t, SinkID(f, s) = SinkID(h, t)
  PROVE  f = h /\ s[1] = t[1] /\ s[2] = t[2]
<1>1. /\ SinkID(f, s)[2] = f /\ SinkID(f, s)[3] = s[1] /\ SinkID(f, s)[4] = s[2]
      /\ SinkID(h, t)[2] = h /\ SinkID(h, t)[3] = t[1] /\ SinkID(h, t)[4] = t[2]
  BY DEF SinkID
<1>2. QED
  BY <1>1

\* What the nodes of a program's graph are.
LEMMA NodesRead ==
  ASSUME program \in Programs, NEW handler, NEW g, Drawn(g, handler)
  PROVE  /\ \A f : FuncID(f) \in DOMAIN g.nodes => g.nodes[FuncID(f)] = FuncNode(f)
         /\ \A f, s : SinkID(f, s) \in DOMAIN g.nodes => g.nodes[SinkID(f, s)].kind = "sink"
         /\ g.nodes[RouteID].kind = "route"
<1>1. \A x \in DOMAIN g.nodes : \E w : NodeOfProgram(w) /\ w.id = x /\ w.node = g.nodes[x]
  BY DEF Drawn
<1>2. /\ RouteWrite.id = RouteID /\ RouteWrite.node = Node("route", FALSE, {})
      /\ \A f : FuncWrite(f).id = FuncID(f) /\ FuncWrite(f).node = FuncNode(f)
      /\ \A t : TableWrite(t).id = TableID(t)
      /\ \A f, s : SinkWrite(f, s).id = SinkID(f, s) /\ SinkWrite(f, s).node = Node("sink", FALSE, {})
  BY NodeWritten DEF RouteWrite, FuncWrite, TableWrite, SinkWrite
<1>3. ASSUME NEW f, FuncID(f) \in DOMAIN g.nodes PROVE g.nodes[FuncID(f)] = FuncNode(f)
  <2>1. PICK w : NodeOfProgram(w) /\ w.id = FuncID(f) /\ w.node = g.nodes[FuncID(f)]
    BY <1>1, <1>3
  <2>2. \E h : w = FuncWrite(h)
    BY <1>2, <2>1, IDsDiffer DEF NodeOfProgram
  <2>3. QED
    BY <1>2, <2>1, <2>2, IDsDiffer
<1>4. ASSUME NEW f, NEW s, SinkID(f, s) \in DOMAIN g.nodes PROVE g.nodes[SinkID(f, s)].kind = "sink"
  <2>1. PICK w : NodeOfProgram(w) /\ w.id = SinkID(f, s) /\ w.node = g.nodes[SinkID(f, s)]
    BY <1>1, <1>4
  <2>2. \E h, t : w = SinkWrite(h, t)
    BY <1>2, <2>1, IDsDiffer DEF NodeOfProgram
  <2>3. w.node = Node("sink", FALSE, {})
    BY <1>2, <2>2
  <2>4. QED
    BY <2>1, <2>3 DEF Node
<1>5. g.nodes[RouteID].kind = "route"
  <2>1. PICK w : NodeOfProgram(w) /\ w.id = RouteID /\ w.node = g.nodes[RouteID]
    BY <1>1 DEF Drawn
  <2>2. w = RouteWrite
    BY <1>2, <2>1, IDsDiffer DEF NodeOfProgram
  <2>3. w.node = Node("route", FALSE, {})
    BY <1>2, <2>2
  <2>4. QED
    BY <2>1, <2>3 DEF Node
<1>6. QED
  BY <1>3, <1>4, <1>5

\* What its edges are, which are stored once for each position.
LEMMA EdgesRead ==
  ASSUME program \in Programs, NEW handler, NEW g, Drawn(g, handler), NEW e \in Range(g.edges)
  PROVE  /\ \A f \in DOMAIN code : \A s \in Sites(code[f]) : \A to :
              SameEdge(e, CallEdge(f, s, to)) => e.methods = MethodsOf(code[f], s[1])
         /\ \A m, h : SameEdge(e, DispatchEdge(m, h)) => e.methods = {}
         /\ \A f \in DOMAIN code : \A s \in Sites(code[f]) : \A u :
              SameEdge(e, QueryEdge(SinkID(f, s), u)) =>
                \E v \in Range(UsesAt(program.queries, CallAt(code[f], s))) : e = QueryEdge(SinkID(f, s), v)
<1>1. EdgeOfProgram(e)
  BY DEF Drawn
<1>2. IsCallWrite(e) => e.kind = "calls"
  BY EdgeWritten DEF IsCallWrite, CallEdge
<1>3. (\E m, h : e = DispatchEdge(m, h)) => e.kind = "dispatches_to" /\ e.methods = {}
  BY DispatchWritten
<1>4. IsQueryWrite(e) => e.kind = "queries"
  BY QueryWritten DEF IsQueryWrite
<1>5. IsRouteWrite(e) => e.kind \in {"handled_by", "guarded_by"}
  BY RouteEdgeWritten DEF IsRouteWrite
<1>6. ASSUME NEW f \in DOMAIN code, NEW s \in Sites(code[f]), NEW to, SameEdge(e, CallEdge(f, s, to))
      PROVE  e.methods = MethodsOf(code[f], s[1])
  <2>1. e.from = FuncID(f) /\ e.kind = "calls" /\ e.pos = SitePos(code[f], s)
    BY <1>6, CallEdgeWritten DEF SameEdge
  <2>2. IsCallWrite(e)
    BY <1>1, <1>3, <1>4, <1>5, <2>1 DEF EdgeOfProgram
  <2>3. PICK h \in DOMAIN code : \E t \in Sites(code[h]) : \E x : e = CallEdge(h, t, x)
    BY <2>2 DEF IsCallWrite
  <2>4. PICK t \in Sites(code[h]) : \E x : e = CallEdge(h, t, x)
    BY <2>3
  <2>5. e.from = FuncID(h) /\ e.pos = SitePos(code[h], t) /\ e.methods = MethodsOf(code[h], t[1])
    BY <2>4, CallEdgeWritten
  <2>6. h = f
    BY <2>1, <2>5, IDsDiffer
  <2>7. t = s
    BY <2>1, <2>5, <2>6, PositionsDiffer
  <2>8. QED
    BY <2>5, <2>6, <2>7
<1>7. ASSUME NEW m, NEW h, SameEdge(e, DispatchEdge(m, h)) PROVE e.methods = {}
  <2>1. e.kind = "dispatches_to"
    BY <1>7, DispatchWritten DEF SameEdge
  <2>2. QED
    BY <1>1, <1>2, <1>3, <1>4, <1>5, <2>1 DEF EdgeOfProgram
<1>8. ASSUME NEW f \in DOMAIN code, NEW s \in Sites(code[f]), NEW u, SameEdge(e, QueryEdge(SinkID(f, s), u))
      PROVE  \E v \in Range(UsesAt(program.queries, CallAt(code[f], s))) : e = QueryEdge(SinkID(f, s), v)
  <2>1. e.from = SinkID(f, s) /\ e.kind = "queries"
    BY <1>8, QueryWritten DEF SameEdge
  <2>2. IsQueryWrite(e)
    BY <1>1, <1>2, <1>3, <1>5, <2>1 DEF EdgeOfProgram
  <2>3. PICK h \in DOMAIN code : \E t \in Sites(code[h]) :
               \E v \in Range(UsesAt(program.queries, CallAt(code[h], t))) : e = QueryEdge(SinkID(h, t), v)
    BY <2>2 DEF IsQueryWrite
  <2>4. PICK t \in Sites(code[h]) :
               \E v \in Range(UsesAt(program.queries, CallAt(code[h], t))) : e = QueryEdge(SinkID(h, t), v)
    BY <2>3
  <2>5. e.from = SinkID(h, t)
    BY <2>4, QueryWritten
  <2>6. h = f /\ t[1] = s[1] /\ t[2] = s[2]
    <3>1. SinkID(h, t) = SinkID(f, s)
      BY <2>1, <2>5
    <3>2. QED
      BY <3>1, SinkIDsDiffer
  <2>7. t = s
    BY <2>6, SitesFinite
  <2>8. QED
    BY <2>4, <2>6, <2>7
<1>9. QED
  BY <1>6, <1>7, <1>8

-----------------------------------------------------------------------------
(***************************************************************************)
(* The flow of a program's route, and of what was imported.                *)
(***************************************************************************)
LEMMA GuardsFinite ==
  ASSUME TypeOK
  PROVE  IsFiniteSet(Guards)
<1>1. IsFiniteSet(DOMAIN code)
  BY CodeShape, FunctionsAssumption, FS_Subset DEF TypeOK
<1>2. DOMAIN verdict.uses = DOMAIN code
  BY DEF TypeOK, Verdict, Classify
<1>3. Guards \subseteq DOMAIN code
  BY <1>2 DEF Guards
<1>4. QED
  BY <1>1, <1>3, FS_Subset

\* The graph of the request's program.
LEMMA AnalyzedGraph ==
  ASSUME TypeOK, NEW g, g = BuildGraph(code, program.queries, Last(program.route), Guards)
  PROVE  WellFormed(g) /\ Drawn(g, Last(program.route))
BY GuardsFinite, ProgramGraph DEF TypeOK

LEMMA AnalyzedStarts ==
  ASSUME InitAnalyzed
  PROVE  ServedInv
<1>0. PICK m : m = IF verdict.method = "ANY" THEN method ELSE verdict.method
  OBVIOUS
<1>1. PICK prune \in PruneLevels :
        Asked(BuildGraph(code, program.queries, Last(program.route), Guards), Options(m, prune, 16))
  BY <1>0 DEF InitAnalyzed
<1>2. IInv /\ TypeOK
  BY Starts DEF InitAnalyzed, IInv
<1>3. /\ graph = BuildGraph(code, program.queries, Last(program.route), Guards)
      /\ opts = Options(m, prune, 16) /\ tree = <<>>
  BY <1>1 DEF Asked
<1>4. opts.route = RouteID /\ opts.method = m /\ opts.prune = prune /\ opts.maxDepth = 16
  BY <1>3 DEF Options
<1>5. m = method
  <2>1. PICK r \in RouteMethods(method) : verdict = Verdict(r)
    BY <1>2 DEF TypeOK
  <2>2. verdict.method = r
    BY <1>2, <2>1, VerdictIs DEF TypeOK
  <2>3. r \in {method, "ANY"}
    BY <1>2, <2>1, MethodsAssumption DEF TypeOK
  <2>4. QED
    BY <1>0, <2>2, <2>3
<1>6. WellFormed(graph) /\ Drawn(graph, Last(program.route))
  BY <1>2, <1>3, AnalyzedGraph
<1>7. IsGraph(graph) /\ IsOptions(graph, opts)
  <2>1. RouteID \in DOMAIN graph.nodes /\ graph.nodes[RouteID].kind = "route"
    BY <1>2, <1>6, NodesRead DEF TypeOK, Drawn
  <2>2. IsOptions(graph, opts)
    BY <1>4, <2>1 DEF IsOptions
  <2>3. QED
    BY <1>6, <2>2 DEF WellFormed
<1>8. Asked(graph, opts)
  BY <1>1 DEF Asked
<1>9. FlowInv
  BY <1>7, <1>8, InitOK DEF FlowInit
<1>10. QED
  BY <1>2, <1>3, <1>4, <1>5, <1>9 DEF ServedInv, Analyzed, SinksInTree

LEMMA ImportedStarts ==
  ASSUME InitImported
  PROVE  ServedInv
<1>1. PICK doc \in Documents, prune \in PruneLevels, depth \in DepthLimits :
        LET imported == LinkSQL(Import(Open, doc), DocumentQueries)
            asked == Options("ANY", prune, depth)
        IN  IsOptions(imported, asked) /\ Asked(imported, asked)
  BY DEF InitImported
<1>2. PICK imported, asked : /\ imported = LinkSQL(Import(Open, doc), DocumentQueries)
                             /\ asked = Options("ANY", prune, depth)
  OBVIOUS
<1>3. IsOptions(imported, asked) /\ Asked(imported, asked)
  BY <1>1, <1>2
<1>4. graph = imported /\ opts = asked /\ tree = <<>> /\ stack = <<>>
  BY <1>3 DEF Asked, InitImported
<1>5. WellFormed(Import(Open, doc))
  BY OpenFormed, ImportWritesGraph, ServedAssumption
<1>6. WellFormed(imported)
  BY <1>2, <1>5, LinkSQLWritesGraph, ServedAssumption
<1>7. Asked(graph, opts)
  BY <1>3, <1>4
<1>8. FlowInv
  BY <1>3, <1>4, <1>6, <1>7, InitOK DEF FlowInit, WellFormed
<1>9. QED
  BY <1>4, <1>8 DEF ServedInv, SinksInTree

\* Build does not write the graph, and returns what is shown.
LEMMA FlowFixed ==
  ASSUME FlowNext
  PROVE  /\ graph' = graph /\ opts' = opts
         /\ tree' = tree \/ (Done /\ Finished /\ tree' = <<Inner.step>> /\ expanded' = expanded)
<1>1. CASE NotRun
  BY <1>1 DEF NotRun
<1>2. CASE Again
  BY <1>2 DEF Again
<1>3. CASE Cycle
  BY <1>3 DEF Cycle
<1>4. CASE Sink
  BY <1>4 DEF Sink
<1>5. CASE Leave
  BY <1>5 DEF Leave
<1>6. CASE Ref
  BY <1>6 DEF Ref
<1>7. CASE Truncate
  BY <1>7 DEF Truncate
<1>8. CASE Descend
  BY <1>8 DEF Descend
<1>9. CASE Finish
  BY <1>9 DEF Finish
<1>10. CASE Done
  BY <1>10 DEF Done, Finished
<1>11. QED
  BY <1>1, <1>2, <1>3, <1>4, <1>5, <1>6, <1>7, <1>8, <1>9, <1>10 DEF FlowNext

\* What a flow shows is said of it in the next state.
LEMMA ShownStays ==
  ASSUME Same, expanded' = expanded
  PROVE  /\ NothingCut' = NothingCut
         /\ \A t : (\A n \in ReachableFrom(opts.route) : IsSink(n) => \E s \in StepsUnder(t) : ShowsSink(s, n))'
                   = (\A n \in ReachableFrom(opts.route) : IsSink(n) => \E s \in StepsUnder(t) : ShowsSink(s, n))
<1>1. /\ \A n : Followed(n)' = Followed(n) /\ IsSink(n)' = IsSink(n) /\ StepsUnder(n)' = StepsUnder(n)
      /\ graph' = graph /\ opts' = opts
  BY Stays DEF Same
<1>2. \A s, n : ShowsSink(s, n)' = ShowsSink(s, n)
  BY CoversSink
<1>3. ReachableFrom(opts.route)' = ReachableFrom(opts.route)
  BY <1>1 DEF ReachableFrom
<1>4. QED
  BY <1>1, <1>2, <1>3 DEF NothingCut

LEMMA AnalyzedStays ==
  ASSUME Analyzed, Same, IInv', UNCHANGED <<program, method, verdict>>
  PROVE  Analyzed'
<1>1. code' = code /\ Guards' = Guards
  BY DEF code, Guards
<1>2. BuildGraph(code, program.queries, Last(program.route), Guards)'
        = BuildGraph(code, program.queries, Last(program.route), Guards)
  BY <1>1
<1>3. QED
  BY <1>2 DEF Analyzed, Same

LEMMA ServedStepKeeps ==
  ASSUME ServedInv, [Expand \/ Serve]_<<vars, flowVars>>
  PROVE  ServedInv'
<1>1. FlowInv /\ (Analyzed \/ stack = <<>>) /\ SinksInTree
  BY DEF ServedInv
<1>2. CASE Expand
  <2>1. tree = <<>> /\ FlowNext /\ UNCHANGED <<program, method, verdict>> /\ stack' = stack /\ UNCHANGED vars
    BY <1>2 DEF Expand, vars
  <2>2. FlowInv'
    BY <1>1, <2>1, FlowStepKeeps
  <2>3. Same
    BY <2>1, FlowFixed DEF Same
  <2>4. ASSUME Analyzed PROVE Analyzed'
    <3>1. IInv'
      BY <2>1, <2>4, StepKeeps DEF Analyzed
    <3>2. QED
      BY <2>1, <2>3, <2>4, <3>1, AnalyzedStays
  <2>5. SinksInTree'
    <3>1. CASE tree' = tree
      BY <2>1, <3>1 DEF SinksInTree
    <3>2. CASE Finished /\ tree' = <<Inner.step>> /\ expanded' = expanded
      <4>1. tree'[1] = Inner.step
        BY <3>2
      <4>2. NothingCut =>
              \A n \in ReachableFrom(opts.route) : IsSink(n) => \E s \in StepsUnder(Inner.step) : ShowsSink(s, n)
        BY <1>1, <3>2, ShowsSinks DEF SinksShown, Steps
      <4>3. PICK t : t = Inner.step
        OBVIOUS
      <4>4. NothingCut' =>
              (\A n \in ReachableFrom(opts.route) : IsSink(n) => \E s \in StepsUnder(t) : ShowsSink(s, n))'
        BY <2>3, <3>2, <4>2, <4>3, ShownStays
      <4>5. QED
        BY <4>1, <4>3, <4>4 DEF SinksInTree
    <3>3. QED
      BY <2>1, <3>1, <3>2, FlowFixed
  <2>6. QED
    BY <1>1, <2>1, <2>2, <2>4, <2>5 DEF ServedInv
<1>3. CASE Serve \/ UNCHANGED <<vars, flowVars>>
  <2>1. UNCHANGED flowVars /\ [Next]_vars
    BY <1>3 DEF Serve
  <2>2. FlowInv'
    BY <1>1, <2>1, FlowStepKeeps
  <2>3. Same /\ expanded' = expanded /\ tree' = tree
    BY <2>1 DEF flowVars, Same
  <2>4. Analyzed' \/ (stack = <<>>)'
    <3>1. CASE Analyzed
      <4>1. IInv'
        BY <2>1, <3>1, StepKeeps DEF Analyzed
      <4>2. UNCHANGED <<program, method, verdict>>
        BY <2>1 DEF Next, Enter, CallLeaf, Return, Branch, vars
      <4>3. QED
        BY <2>3, <3>1, <4>1, <4>2, AnalyzedStays
    <3>2. CASE stack = <<>>
      <4>1. UNCHANGED vars
        BY <2>1, <3>2 DEF Next, Enter, CallLeaf, Return, Branch, Calling, AtEnd
      <4>2. QED
        BY <3>2, <4>1 DEF vars
    <3>3. QED
      BY <1>1, <3>1, <3>2
  <2>5. SinksInTree'
    <3>1. PICK t : t = tree[1]
      OBVIOUS
    <3>2. tree'[1] = t
      BY <2>3, <3>1
    <3>3. tree' # <<>> /\ NothingCut' =>
            (\A n \in ReachableFrom(opts.route) : IsSink(n) => \E s \in StepsUnder(t) : ShowsSink(s, n))'
      BY <1>1, <2>3, <3>1, ShownStays DEF SinksInTree
    <3>4. QED
      BY <3>2, <3>3 DEF SinksInTree
  <2>6. QED
    BY <2>2, <2>4, <2>5 DEF ServedInv
<1>4. QED
  BY <1>2, <1>3

\* ServedInv holds while a flow is built and while requests run, for every
\* program and document.
THEOREM ServedInvariant == ServedSpec => []ServedInv
<1>1. InitAnalyzed \/ InitImported => ServedInv
  BY AnalyzedStarts, ImportedStarts
<1>2. ServedInv /\ [Expand \/ Serve]_<<vars, flowVars>> => ServedInv'
  BY ServedStepKeeps
<1>3. QED
  BY <1>1, <1>2, PTL DEF ServedSpec

\* What the flows of all graphs show and count, those of an analyzed program
\* and of an imported document do: Build is only given graphs (BuildGraph,
\* Import, LinkSQL).
THEOREM ServedFlows == ServedSpec => [](SinksShown /\ KeptLeadsToSink /\ RefsExpanded /\ CallsCounted)
<1>1. ServedInv => SinksShown /\ KeptLeadsToSink /\ RefsExpanded /\ CallsCounted
  BY ShowsSinks, KeepsWhatLeads, ExpandsRefs, CountsCalls DEF ServedInv
<1>2. QED
  BY <1>1, ServedInvariant, PTL


-----------------------------------------------------------------------------
(***************************************************************************)
(* A request's way to a sink is in the graph.                              *)
(***************************************************************************)
\* The analyzed program, in the graph that its flow is built from.
LEMMA AnalyzedIs ==
  ASSUME Analyzed, FlowInv
  PROVE  /\ GraphOK /\ TypeOK /\ program \in Programs /\ Drawn(graph, Last(program.route))
         /\ opts.route = RouteID /\ opts.method = method
         /\ RouteID \in DOMAIN graph.nodes /\ RouteID \in ReachableFrom(opts.route)
<1>1. GraphOK
  BY TypeGivesGraph DEF FlowInv
<1>2. TypeOK /\ program \in Programs /\ opts.route = RouteID /\ opts.method = method
  BY DEF Analyzed, IInv, TypeOK
<1>3. Drawn(graph, Last(program.route))
  BY <1>2, AnalyzedGraph DEF Analyzed
<1>4. RouteID \in DOMAIN graph.nodes
  BY <1>3 DEF Drawn
<1>5. RouteID \in ReachableFrom(opts.route)
  BY <1>1, <1>2, <1>4, ReachableSteps
<1>6. QED
  BY <1>1, <1>2, <1>3, <1>4, <1>5

\* Functions of the module and interface methods have their calls followed.
LEMMA FunctionFollowed ==
  ASSUME Analyzed, FlowInv, NEW f \in DOMAIN Functions, FuncID(f) \in DOMAIN graph.nodes,
         Functions[f].module \/ Functions[f].impls # {},
         NEW e \in Range(graph.edges), e.from = FuncID(f), e.kind \in {"calls", "dispatches_to"}, Runs(e)
  PROVE  e \in Followed(FuncID(f))
<1>1. program \in Programs /\ Drawn(graph, Last(program.route)) /\ opts.route = RouteID
  BY AnalyzedIs
<1>2. graph.nodes[FuncID(f)] = FuncNode(f)
  BY <1>1, NodesRead
<1>3. FuncNode(f).kind = FuncKind(f) /\ FuncNode(f).external = ~Functions[f].module
  BY DEF FuncNode, Node
<1>4. FuncKind(f) \in {"func", "interface_call"} /\ (Functions[f].impls # {} => FuncKind(f) = "interface_call")
  BY DEF FuncKind
<1>5. ~IsSink(FuncID(f)) /\ ~External(FuncID(f))
  BY <1>2, <1>3, <1>4 DEF IsSink, External, Kind
<1>6. FuncID(f) # opts.route
  BY <1>1, IDsDiffer
<1>7. QED
  BY <1>5, <1>6 DEF Followed

\* A call that an activation is at runs for the flow's method.
LEMMA CallRuns ==
  ASSUME Analyzed, FlowInv, NEW a \in Activations, Good(a), a.at <= Len(Calls(a)),
         FuncID(a.fn) \in DOMAIN graph.nodes,
         NEW e \in Range(graph.edges), NEW to, SameEdge(e, CallEdge(a.fn, Site(a), to))
  PROVE  e \in Followed(FuncID(a.fn)) /\ e.to = to
<1> DEFINE body == code[a.fn]
<1>1. TypeOK /\ program \in Programs /\ Drawn(graph, Last(program.route)) /\ opts.method = method
  BY AnalyzedIs
<1>2. /\ a.fn \in DOMAIN code /\ a.fn \in DOMAIN Functions /\ Functions[a.fn].module
      /\ Site(a) \in Sites(body) /\ Body(a) = body
  BY <1>1, BodiesAre, PlacedCalls, CodeShape DEF Good, Body
<1>3. e.from = FuncID(a.fn) /\ e.to = to /\ e.kind = "calls"
  BY <1>2, CallEdgeWritten DEF SameEdge
<1>4. e.methods = MethodsOf(body, a.block)
  <2>1. Site(a)[1] = a.block
    BY DEF Site
  <2>2. e.methods = MethodsOf(body, Site(a)[1])
    BY <1>1, <1>2, EdgesRead
  <2>3. QED
    BY <2>1, <2>2
<1>5. graph.nodes[e.from].branches = Compared(body)
  <2>1. graph.nodes[FuncID(a.fn)] = FuncNode(a.fn)
    BY <1>1, NodesRead
  <2>2. FuncNode(a.fn).branches = Compared(body)
    BY <1>2 DEF FuncNode, Node
  <2>3. QED
    BY <1>3, <2>1, <2>2
<1>6. a.block \in ReachableFor(body, method) /\ a.block \in Blocks(body)
  BY <1>1, <1>2, PlacedCalls DEF Good, Scoped
<1>7. Runs(e)
  <2>1. CASE MethodConditions(body) = {}
    <3>1. Compared(body) = {}
      BY <2>1 DEF Compared
    <3>2. MethodScope(body)[a.block] \subseteq {OtherMethod}
      BY <1>6, <3>1 DEF MethodScope
    <3>3. MethodScope(body)[a.block] = {} \/ MethodScope(body)[a.block] = Compared(body) \cup {OtherMethod}
      BY <3>1, <3>2
    <3>4. e.methods = {}
      BY <1>4, <3>3 DEF MethodsOf
    <3>5. QED
      BY <3>4 DEF Runs
  <2>2. CASE method = "ANY"
    BY <1>1, <2>2 DEF Runs
  <2>3. CASE MethodConditions(body) # {} /\ method # "ANY"
    <3>1. (IF method \in Compared(body) THEN method ELSE OtherMethod) \in MethodScope(body)[a.block]
      BY <1>6, <2>3 DEF ReachableFor
    <3>2. e.methods = {} \/ e.methods = MethodScope(body)[a.block]
      BY <1>4 DEF MethodsOf
    <3>3. CASE method \in Compared(body)
      BY <1>1, <3>1, <3>2, <3>3 DEF Runs
    <3>4. CASE method \notin Compared(body)
      BY <1>1, <1>5, <3>1, <3>2, <3>4 DEF Runs, OtherMethod
    <3>5. QED
      BY <3>3, <3>4
  <2>4. QED
    BY <2>1, <2>2, <2>3
<1>8. QED
  BY <1>2, <1>3, <1>7, FunctionFollowed

\* The call that runs the next activation leads to it.
LEMMA CallLeads ==
  ASSUME Analyzed, FlowInv, NEW a \in Activations, Good(a), a.at <= Len(Calls(a)),
         FuncID(a.fn) \in ReachableFrom(opts.route),
         NEW h \in DOMAIN code, h \in SiteCallees(Calls(a)[a.at]), ~Excluded(Calls(a)[a.at])
  PROVE  FuncID(h) \in ReachableFrom(opts.route)
<1> DEFINE m == Calls(a)[a.at]
           R == ReachableFrom(opts.route)
<1>1. /\ TypeOK /\ program \in Programs /\ Drawn(graph, Last(program.route)) /\ GraphOK
      /\ opts.route \in DOMAIN graph.nodes
  BY AnalyzedIs
<1>2. R \subseteq DOMAIN graph.nodes /\ \A b \in R : \A e \in Followed(b) : e.to \in R
  BY <1>1, ReachableSteps
<1>3. /\ a.fn \in DOMAIN code /\ Site(a) \in Sites(code[a.fn]) /\ CallAt(code[a.fn], Site(a)) = m
      /\ m \in DOMAIN Functions
  BY <1>1, BodiesAre, PlacedCalls DEF Good, Body
<1> HIDE DEF m, R
<1>4. Functions[h].module
  BY <1>1, CodeShape
<1>5. CallDrawn(graph, a.fn, Site(a), h)
  <2>1. h \in Runnable(a.fn, Site(a))
    BY <1>3, <1>4 DEF Runnable, m
  <2>2. QED
    BY <1>1, <1>3, <2>1 DEF Drawn
<1>6. PICK e \in Range(graph.edges) : SameEdge(e, CallEdge(a.fn, Site(a), FuncID(m)))
  BY <1>3, <1>5 DEF CallDrawn, InGraph
<1>7. FuncID(a.fn) \in R /\ FuncID(a.fn) \in DOMAIN graph.nodes
  BY <1>2 DEF R
<1>8. FuncID(m) \in R
  <2>1. e \in Followed(FuncID(a.fn)) /\ e.to = FuncID(m)
    BY <1>6, <1>7, CallRuns
  <2>2. QED
    BY <1>2, <1>7, <2>1
<1>9. CASE Functions[m].impls = {}
  <2>1. h = m
    BY <1>9 DEF SiteCallees, m
  <2>2. QED
    BY <1>8, <2>1 DEF R
<1>10. CASE Functions[m].impls # {}
  <2>1. PICK d \in Range(graph.edges) : SameEdge(d, DispatchEdge(m, h))
    BY <1>3, <1>5, <1>10 DEF CallDrawn, InGraph
  <2>2. d.from = FuncID(m) /\ d.to = FuncID(h) /\ d.kind = "dispatches_to"
    BY <2>1, DispatchWritten DEF SameEdge
  <2>3. Runs(d)
    BY <1>1, <2>1, EdgesRead DEF Runs
  <2>4. d \in Followed(FuncID(m))
    BY <1>2, <1>3, <1>8, <1>10, <2>2, <2>3, FunctionFollowed
  <2>5. QED
    BY <1>2, <1>8, <2>2, <2>4 DEF R
<1>11. QED
  BY <1>9, <1>10

LEMMA HandlerLeads ==
  ASSUME Analyzed, FlowInv
  PROVE  FuncID(Last(program.route)) \in ReachableFrom(opts.route)
<1>1. /\ Drawn(graph, Last(program.route)) /\ GraphOK /\ opts.route = RouteID
      /\ opts.route \in DOMAIN graph.nodes /\ RouteID \in ReachableFrom(opts.route)
  BY AnalyzedIs
<1>2. PICK e \in Range(graph.edges) : SameEdge(e, RouteEdge(Last(program.route), "handled_by"))
  BY <1>1 DEF Drawn, InGraph
<1>3. e.from = RouteID /\ e.to = FuncID(Last(program.route)) /\ e.kind = "handled_by"
  BY <1>2, RouteEdgeWritten DEF SameEdge
<1>4. e \in Followed(RouteID)
  BY <1>1, <1>3 DEF Followed
<1>5. QED
  BY <1>1, <1>3, <1>4, ReachableSteps

\* What runs, called by the handler through calls of the graph, is reached in
\* it: from the handler, an activation at a time.
LEMMA RunningReached ==
  ASSUME Analyzed, FlowInv, Direct, stack # <<>>
  PROVE  FuncID(Top.fn) \in ReachableFrom(opts.route)
<1> DEFINE n == Len(stack)
           T == {k \in Nat : k < n => FuncID(stack[n - k].fn) \in ReachableFrom(opts.route)}
<1>1. /\ IInv /\ TypeOK /\ program \in Programs /\ stack \in Seq(Activations) /\ n \in Nat /\ n # 0
      /\ DOMAIN stack = 1..n
  BY DEF Analyzed, IInv, TypeOK
<1>2. 0 \in T
  <2>1. stack[n].fn = program.route[1]
    BY <1>1 DEF IInv
  <2>2. Len(program.route) = 1 /\ Last(program.route) = program.route[1]
    BY DEF Direct, Last
  <2>3. FuncID(stack[n].fn) \in ReachableFrom(opts.route)
    BY <2>1, <2>2, HandlerLeads
  <2>4. n - 0 = n
    BY <1>1
  <2>5. QED
    BY <2>3, <2>4
<1>3. ASSUME NEW k \in T PROVE k + 1 \in T
  <2>1. k \in Nat
    OBVIOUS
  <2>2. SUFFICES ASSUME k + 1 < n PROVE FuncID(stack[n - (k + 1)].fn) \in ReachableFrom(opts.route)
    BY <2>1
  <2>3. PICK i : i = n - k
    OBVIOUS
  <2>4. i \in 2..n /\ i - 1 = n - (k + 1) /\ i \in DOMAIN stack /\ i - 1 \in DOMAIN stack
    BY <1>1, <2>1, <2>2, <2>3
  <2>5. FuncID(stack[i].fn) \in ReachableFrom(opts.route)
    BY <1>1, <2>1, <2>2, <2>3
  <2>6. stack[i] \in Activations /\ stack[i-1] \in Activations /\ Good(stack[i])
    BY <1>1, <2>4 DEF IInv
  <2>7. stack[i].at <= Len(Calls(stack[i]))
    BY <1>1, <2>4 DEF IInv, Above, Waits
  <2>8. /\ stack[i-1].fn \in SiteCallees(Calls(stack[i])[stack[i].at])
        /\ ~Excluded(Calls(stack[i])[stack[i].at])
    BY <2>4 DEF Direct, Above
  <2>9. stack[i-1].fn \in DOMAIN code
    BY <1>1, <2>6, BodiesAre
  <2>10. FuncID(stack[i-1].fn) \in ReachableFrom(opts.route)
    BY <2>5, <2>6, <2>7, <2>8, <2>9, CallLeads
  <2>11. QED
    BY <2>4, <2>10
<1>4. T = Nat
  <2>1. T \in SUBSET Nat
    OBVIOUS
  <2> HIDE DEF T
  <2>2. QED
    BY <1>2, <1>3, <2>1, Induction
<1>5. FuncID(stack[1].fn) \in ReachableFrom(opts.route)
  <2>1. n - 1 \in T /\ n - 1 < n /\ n - (n - 1) = 1
    BY <1>1, <1>4, SMTT(60)
  <2>2. QED
    BY <2>1
<1>6. Top = stack[1]
  BY <1>1 DEF Top
<1>7. QED
  BY <1>5, <1>6

-----------------------------------------------------------------------------
\* The uses found at a sink that is called cover what its SQL touches.
LEMMA TouchedIsFound ==
  ASSUME TouchesFound, program \in Programs, NEW f, Rule(f) \in DOMAIN program.touches,
         NEW u \in program.touches[Rule(f)]
  PROVE  Found(UsesAt(program.queries, f), u)
<1>1. Rule(f) \in DOMAIN program.queries /\ Found(program.queries[Rule(f)], u)
  BY DEF TouchesFound
<1>2. QED
  BY <1>1 DEF UsesAt

\* A step that shows a sink shows the uses that were found.
LEMMA UseIsShown ==
  ASSUME Analyzed, FlowInv, NEW f \in DOMAIN code, NEW s \in Detected(f), NEW t, ShowsSink(t, SinkID(f, s)),
         NEW u, Found(UsesAt(program.queries, CallAt(code[f], s)), u),
         IsSeq(UsesAt(program.queries, CallAt(code[f], s)))
  PROVE  ShowsUse(t, u)
<1>1. PICK uses : uses = UsesAt(program.queries, CallAt(code[f], s))
  OBVIOUS
<1>2. program \in Programs /\ Drawn(graph, Last(program.route)) /\ s \in Sites(code[f])
  BY AnalyzedIs DEF Detected
<1>3. PICK table \in {u.table, UnknownTable} :
        /\ \E i \in DOMAIN uses : uses[i].table = table
        /\ u.op # "select" => \A i \in DOMAIN uses : uses[i].table = table => uses[i].op # "select"
  BY <1>1 DEF Found
<1>4. PICK i \in DOMAIN uses : uses[i].table = table
  BY <1>3
<1>5. PICK v : v = uses[i]
  OBVIOUS
<1>6. v \in Range(uses) /\ v.table = table
  BY <1>4, <1>5 DEF Range
<1>7. SinkDrawn(graph, f, s)
  BY <1>2 DEF Drawn
<1>8. PICK e \in Range(graph.edges) : SameEdge(e, QueryEdge(SinkID(f, s), v))
  BY <1>1, <1>6, <1>7 DEF SinkDrawn, InGraph
<1>9. e.from = SinkID(f, s) /\ e.to = TableID(table) /\ e.kind = "queries"
  BY <1>6, <1>8, QueryWritten DEF SameEdge
<1>10. PICK w \in Range(uses) : e = QueryEdge(SinkID(f, s), w)
  BY <1>1, <1>2, <1>8, EdgesRead
<1>11. e.op = w.op /\ e.to = TableID(w.table)
  BY <1>10, QueryWritten
<1>12. w.table = table
  <2>1. TableID(w.table)[2] = w.table /\ TableID(table)[2] = table
    BY DEF TableID, NodeID
  <2>2. QED
    BY <1>9, <1>11, <2>1
<1>13. u.op # "select" => e.op # "select"
  <2>1. PICK j \in DOMAIN uses : uses[j] = w
    BY <1>10 DEF Range
  <2>2. QED
    BY <1>3, <1>11, <1>12, <2>1
<1>14. PICK c \in Range(t.children) : c.node = e.to /\ c.edge = e
  BY <1>9 DEF ShowsSink
<1>15. QED
  BY <1>9, <1>13, <1>14 DEF ShowsUse

LEMMA ExecutedShown ==
  ASSUME TouchesFound, ServedInv
  PROVE  ExecutedIsShown
<1>1. SUFFICES ASSUME tree # <<>>, Direct, Calling, IsSinkCall(Callee), NothingCut
               PROVE  \E t \in StepsUnder(tree[1]) :
                        /\ t.node = SinkID(Top.fn, Site(Top))
                        /\ Rule(Callee) \in DOMAIN program.touches =>
                             \A u \in program.touches[Rule(Callee)] : ShowsUse(t, u)
  BY DEF ExecutedIsShown
<1>2. FlowInv /\ Analyzed /\ IInv /\ SinksInTree
  BY <1>1 DEF ServedInv, Calling, Analyzed
<1>3. /\ TypeOK /\ program \in Programs /\ Drawn(graph, Last(program.route)) /\ GraphOK
      /\ opts.route \in DOMAIN graph.nodes
  BY <1>2, AnalyzedIs
<1>4. Top \in Activations /\ Good(Top) /\ stack # <<>> /\ Top.at <= Len(Calls(Top)) /\ Callee = Calls(Top)[Top.at]
  BY <1>1, <1>2, TopIs DEF Calling, Callee
<1>5. PICK f, s : f = Top.fn /\ s = Site(Top)
  OBVIOUS
<1>6. f \in DOMAIN code /\ s \in Sites(code[f]) /\ CallAt(code[f], s) = Callee
  BY <1>3, <1>4, <1>5, BodiesAre, PlacedCalls DEF Good, Body
<1>7. s \in Detected(f)
  <2>1. <<f, s>> \in {<<f, t>> : t \in {t \in Sites(code[f]) : IsSinkCall(CallAt(code[f], t))}}
    BY <1>1, <1>6
  <2>2. QED
    BY <1>6, <2>1 DEF Detected, DetectedSinks
<1>8. FuncID(f) \in ReachableFrom(opts.route)
  BY <1>1, <1>2, <1>4, <1>5, RunningReached
<1>9. /\ ReachableFrom(opts.route) \subseteq DOMAIN graph.nodes
      /\ \A b \in ReachableFrom(opts.route) : \A e \in Followed(b) : e.to \in ReachableFrom(opts.route)
  BY <1>3, ReachableSteps
<1>10. SinkID(f, s) \in ReachableFrom(opts.route)
  <2>1. SinkDrawn(graph, f, s)
    BY <1>3, <1>6, <1>7 DEF Drawn
  <2>2. PICK e \in Range(graph.edges) : SameEdge(e, CallEdge(f, s, SinkID(f, s)))
    BY <2>1 DEF SinkDrawn, InGraph
  <2>3. e \in Followed(FuncID(f)) /\ e.to = SinkID(f, s)
    BY <1>2, <1>4, <1>5, <1>8, <1>9, <2>2, CallRuns
  <2>4. QED
    BY <1>8, <1>9, <2>3
<1>11. IsSink(SinkID(f, s))
  BY <1>3, <1>9, <1>10, NodesRead DEF IsSink, Kind
<1>12. PICK t \in StepsUnder(tree[1]) : ShowsSink(t, SinkID(f, s))
  BY <1>1, <1>2, <1>10, <1>11 DEF SinksInTree
<1>13. t.node = SinkID(f, s)
  BY <1>12 DEF ShowsSink
<1>14. ASSUME Rule(Callee) \in DOMAIN program.touches, NEW u \in program.touches[Rule(Callee)]
       PROVE  ShowsUse(t, u)
  <2>1. Found(UsesAt(program.queries, Callee), u)
    BY <1>3, <1>14, TouchedIsFound
  <2>2. Rule(Callee) \in DOMAIN program.queries
    BY <1>3, <1>14 DEF TouchesFound
  <2>3. IsSeq(UsesAt(program.queries, Callee))
    BY <1>3, <2>2, ServedAssumption DEF UsesAt, IsUses
  <2>4. QED
    BY <1>2, <1>6, <1>7, <1>12, <2>1, <2>3, UseIsShown
<1>15. QED
  BY <1>5, <1>12, <1>13, <1>14

\* If the analysis of the sinks' SQL finds what it touches, then whatever a
\* request does outside the program, called by the handler through calls of
\* the graph, is shown in the flow of its route with the tables that are
\* touched, under every pruning, unless a call was cut off by MaxDepth
\* (BuildGraph, Flow.Build, MethodScope and Flow.Runs agree with execution).
THEOREM ServedExecutedIsShown ==
  ASSUME TouchesFound
  PROVE  ServedSpec => []ExecutedIsShown
<1>1. ServedInv => ExecutedIsShown
  BY ExecutedShown
<1>2. QED
  BY <1>1, ServedInvariant, PTL


-----------------------------------------------------------------------------
(***************************************************************************)
(* Path queries, in any graph: ids are the edges of the kinds asked for.   *)
(***************************************************************************)
\* The end of the walk w from from, the nodes it visits and the walks with
\* one edge more that Walks goes on to.
EndOf(g, from, w) == IF w = <<>> THEN from ELSE g.edges[Last(w)].to
VisitedBy(g, from, w) == {from} \cup {g.edges[w[i]].to : i \in DOMAIN w}
Onward(g, ids, from, to, depth, w) ==
  {j \in ids : /\ g.edges[j].from = EndOf(g, from, w) /\ g.edges[j].to \notin VisitedBy(g, from, w)
               /\ InReach(Back(g, ids, to, depth), g.edges[j].to, depth - Len(w) - 1)}
Longer(g, ids, from, to, depth, w) ==
  IF EndOf(g, from, w) = to THEN {} ELSE {Append(w, i) : i \in Onward(g, ids, from, to, depth, w)}

BackInTurn(after, g, ids, to) ==
  /\ after[0] = {<<to, 0>>}
  /\ \A n \in Nat :
       after[n+1] = after[n] \cup {<<g.edges[i].from, n+1>> : i \in {j \in ids : <<g.edges[j].to, n>> \in after[n]}}

WalksInTurn(walk, g, ids, from, to, depth) ==
  /\ walk[0] = {<<>>}
  /\ \A n \in Nat : walk[n+1] = walk[n] \cup UNION {Longer(g, ids, from, to, depth, w) : w \in walk[n]}

\* A recursive function whose values are in U is what its equation says.
Recurses(f, U, F, a) ==
  f \in [Nat -> U] /\ f = [n \in Nat |-> IF n = 0 THEN a ELSE F[<<n-1, f[n-1]>>]]

LEMMA RecursiveIs ==
  ASSUME NEW U, NEW F \in [Nat \X U -> U], NEW a \in U
  PROVE  \E f : Recurses(f, U, F, a)
<1>1. PICK f \in [Nat -> U] : f[0] = a /\ \A n \in Nat : f[n+1] = F[<<n, f[n]>>]
  <2>1. \E f : Iterates(f, U, F, a)
    BY Iterated
  <2>2. QED
    BY <2>1 DEF Iterates
<1>2. ASSUME NEW n \in Nat, n # 0 PROVE f[n] = F[<<n-1, f[n-1]>>]
  <2>1. n - 1 \in Nat /\ (n - 1) + 1 = n
    BY <1>2
  <2>2. QED
    BY <1>1, <2>1
<1>3. f = [n \in Nat |-> IF n = 0 THEN a ELSE F[<<n-1, f[n-1]>>]]
  BY <1>1, <1>2
<1>4. QED
  BY <1>1, <1>3 DEF Recurses

LEMMA BackIs ==
  ASSUME NEW g, NEW ids, NEW to, NEW depth
  PROVE  \E after : BackInTurn(after, g, ids, to) /\ Back(g, ids, to, depth) = after[depth]
<1> DEFINE starts == {to} \cup {g.edges[i].from : i \in ids}
           U == SUBSET (starts \X Nat)
           more(n, back) == {<<g.edges[i].from, n+1>> : i \in {j \in ids : <<g.edges[j].to, n>> \in back}}
           F == [p \in Nat \X U |-> p[2] \cup more(p[1], p[2])]
<1>1. {<<to, 0>>} \in U
  OBVIOUS
<1>2. ASSUME NEW n \in Nat, NEW back \in U PROVE back \cup more(n, back) \in U
  <2>1. \A i \in ids : <<g.edges[i].from, n+1>> \in starts \X Nat
    OBVIOUS
  <2> HIDE DEF starts
  <2>2. more(n, back) \subseteq starts \X Nat
    BY <2>1
  <2> HIDE DEF more
  <2>3. QED
    BY <2>2
<1> HIDE DEF U, more
<1>3. F \in [Nat \X U -> U] /\ \A n \in Nat, back \in U : F[<<n, back>>] = back \cup more(n, back)
  BY <1>2
<1> HIDE DEF F
<1>4. PICK f : Recurses(f, U, F, {<<to, 0>>})
  BY <1>1, <1>3, RecursiveIs
<1>f. f \in [Nat -> U]
  BY <1>4 DEF Recurses
<1>5. f = [n \in Nat |-> IF n = 0 THEN {<<to, 0>>} ELSE f[n-1] \cup more(n-1, f[n-1])]
  <2>1. ASSUME NEW n \in Nat, n # 0 PROVE f[n] = f[n-1] \cup more(n-1, f[n-1])
    <3>1. n - 1 \in Nat /\ f[n-1] \in U
      BY <1>f, <2>1
    <3>2. f[n] = F[<<n-1, f[n-1]>>]
      BY <1>4, <2>1 DEF Recurses
    <3>3. QED
      BY <1>3, <3>1, <3>2
  <2>2. f[0] = {<<to, 0>>}
    BY <1>4 DEF Recurses
  <2>3. f = [n \in Nat |-> f[n]]
    BY <1>4 DEF Recurses
  <2>4. QED
    BY <2>1, <2>2, <2>3
<1> DEFINE newer(n, back) == {<<g.edges[i].from, n>> : i \in {j \in ids : <<g.edges[j].to, n-1>> \in back}}
<1>6. f = [n \in Nat |-> IF n = 0 THEN {<<to, 0>>} ELSE f[n-1] \cup newer(n, f[n-1])]
  <2>1. ASSUME NEW n \in Nat, n # 0, NEW back PROVE newer(n, back) = more(n-1, back)
    <3>1. (n - 1) + 1 = n
      OBVIOUS
    <3>2. QED
      BY <3>1 DEF more
  <2> HIDE DEF newer
  <2>2. QED
    BY <1>5, <2>1
<1> DEFINE after[n \in Nat] ==
             IF n = 0 THEN {<<to, 0>>}
             ELSE after[n-1] \cup {<<g.edges[i].from, n>> : i \in {j \in ids : <<g.edges[j].to, n-1>> \in after[n-1]}}
<1>7. after = [n \in Nat |-> IF n = 0 THEN {<<to, 0>>} ELSE after[n-1] \cup newer(n, after[n-1])]
  BY <1>6
<1>8. Back(g, ids, to, depth) = after[depth]
  BY DEF Back
<1> HIDE DEF after
<1>9. BackInTurn(after, g, ids, to)
  <2>1. after[0] = {<<to, 0>>}
    BY <1>7
  <2>2. ASSUME NEW n \in Nat
        PROVE  after[n+1] = after[n] \cup {<<g.edges[i].from, n+1>> : i \in {j \in ids : <<g.edges[j].to, n>> \in after[n]}}
    <3>1. n + 1 \in Nat /\ n + 1 # 0 /\ (n + 1) - 1 = n
      OBVIOUS
    <3>2. after[n+1] = after[(n+1)-1] \cup newer(n+1, after[(n+1)-1])
      <4> HIDE DEF newer
      <4>1. QED
        BY <1>7, <3>1
    <3>3. QED
      BY <3>1, <3>2
  <2>3. QED
    BY <2>1, <2>2 DEF BackInTurn
<1>10. QED
  BY <1>8, <1>9

LEMMA LongerWalks ==
  ASSUME NEW g, NEW ids, NEW from, NEW to, NEW depth, NEW w \in Seq(ids)
  PROVE  Longer(g, ids, from, to, depth, w) \in SUBSET Seq(ids)
<1>1. \A i \in Onward(g, ids, from, to, depth, w) : Append(w, i) \in Seq(ids)
  BY DEF Onward
<1>2. QED
  BY <1>1 DEF Longer

WalksOf(walk, g, ids, from, to, depth) ==
  /\ WalksInTurn(walk, g, ids, from, to, depth)
  /\ Walks(g, ids, from, to, depth) = {w \in walk[depth] : w # <<>> /\ EndOf(g, from, w) = to}

LEMMA WalksAre ==
  ASSUME NEW g, NEW ids, NEW from, NEW to, NEW depth
  PROVE  \E walk : WalksOf(walk, g, ids, from, to, depth)
<1> DEFINE U == SUBSET Seq(ids)
           more(ws) == UNION {Longer(g, ids, from, to, depth, w) : w \in ws}
           F == [p \in Nat \X U |-> p[2] \cup more(p[2])]
<1>1. {<<>>} \in U
  OBVIOUS
<1>2. ASSUME NEW ws \in U PROVE ws \cup more(ws) \in U
  <2>1. \A w \in ws : Longer(g, ids, from, to, depth, w) \in SUBSET Seq(ids)
    BY LongerWalks
  <2>2. QED
    BY <2>1
<1> HIDE DEF U, more
<1>3. F \in [Nat \X U -> U] /\ \A n \in Nat, ws \in U : F[<<n, ws>>] = ws \cup more(ws)
  BY <1>2
<1> HIDE DEF F
<1>4. PICK f : Recurses(f, U, F, {<<>>})
  BY <1>1, <1>3, RecursiveIs
<1>5. f = [n \in Nat |-> IF n = 0 THEN {<<>>} ELSE f[n-1] \cup more(f[n-1])]
  <2>1. ASSUME NEW n \in Nat, n # 0 PROVE f[n] = f[n-1] \cup more(f[n-1])
    <3>1. n - 1 \in Nat /\ f[n-1] \in U
      BY <1>4, <2>1, SMTT(60) DEF Recurses
    <3>2. f[n] = F[<<n-1, f[n-1]>>]
      BY <1>4, <2>1 DEF Recurses
    <3>3. QED
      BY <1>3, <3>1, <3>2
  <2>2. f[0] = {<<>>}
    BY <1>4 DEF Recurses
  <2>3. f = [n \in Nat |-> f[n]]
    BY <1>4 DEF Recurses
  <2>4. QED
    BY <2>1, <2>2, <2>3
<1> USE DEF more
<1> DEFINE walk[n \in Nat] ==
             IF n = 0 THEN {<<>>}
             ELSE walk[n-1] \cup UNION {Longer(g, ids, from, to, depth, w) : w \in walk[n-1]}
<1>6. walk = [n \in Nat |-> IF n = 0 THEN {<<>>} ELSE walk[n-1] \cup more(walk[n-1])]
  BY <1>5
<1>7. Walks(g, ids, from, to, depth) = {w \in walk[depth] : w # <<>> /\ EndOf(g, from, w) = to}
  BY DEF Walks, Longer, Onward, EndOf, VisitedBy
<1> HIDE DEF walk, more
<1>8. WalksInTurn(walk, g, ids, from, to, depth)
  <2>1. walk[0] = {<<>>}
    BY <1>6
  <2>2. ASSUME NEW n \in Nat PROVE walk[n+1] = walk[n] \cup more(walk[n])
    <3>1. n + 1 \in Nat /\ n + 1 # 0 /\ (n + 1) - 1 = n
      OBVIOUS
    <3>2. QED
      BY <1>6, <3>1
  <2>3. QED
    BY <2>1, <2>2 DEF WalksInTurn, more
<1>9. QED
  BY <1>7, <1>8 DEF WalksOf


\* What Walks goes on with: no node is visited twice, nor the end passed.
Trail(g, ids, from, to, w) ==
  /\ w \in Seq(ids)
  /\ w # <<>> => g.edges[w[1]].from = from
  /\ \A i \in 2..Len(w) : g.edges[w[i]].from = g.edges[w[i-1]].to
  /\ \A i, j \in 1..Len(w) : i # j => g.edges[w[i]].from # g.edges[w[j]].from
  /\ \A i \in 1..Len(w) : g.edges[w[i]].from # EndOf(g, from, w)
  /\ \A i \in 1..Len(w) : i < Len(w) => g.edges[w[i]].to # to

\* An acyclic path from from to to.
PathIn(g, ids, from, to, w) ==
  /\ w \in Seq(ids) /\ w # <<>> /\ g.edges[w[1]].from = from
  /\ \A i \in 2..Len(w) : g.edges[w[i]].from = g.edges[w[i-1]].to
  /\ \A i, j \in 1..Len(w) : i # j => g.edges[w[i]].from # g.edges[w[j]].from
  /\ \A i \in 1..Len(w) : g.edges[w[i]].to = to <=> i = Len(w)

LEMMA EndIs ==
  ASSUME NEW g, NEW ids, NEW from, NEW w \in Seq(ids)
  PROVE  /\ EndOf(g, from, <<>>) = from
         /\ w # <<>> => Len(w) \in 1..Len(w) /\ EndOf(g, from, w) = g.edges[w[Len(w)]].to
         /\ VisitedBy(g, from, w) = {from} \cup {g.edges[w[i]].to : i \in 1..Len(w)}
BY DEF EndOf, VisitedBy, Last

LEMMA TrailGrows ==
  ASSUME NEW g, NEW ids, NEW from, NEW to, NEW w, Trail(g, ids, from, to, w), EndOf(g, from, w) # to,
         NEW j \in ids, g.edges[j].from = EndOf(g, from, w), g.edges[j].to \notin VisitedBy(g, from, w)
  PROVE  Trail(g, ids, from, to, Append(w, j)) /\ Len(Append(w, j)) = Len(w) + 1
<1>1. PICK v : v = Append(w, j)
  OBVIOUS
<1>2. PICK n : n = Len(w)
  OBVIOUS
<1>3. w \in Seq(ids) /\ n \in Nat
  BY <1>2 DEF Trail
<1>4. /\ v \in Seq(ids) /\ Len(v) = n + 1 /\ v # <<>> /\ v[n+1] = j
      /\ \A i \in 1..n : v[i] = w[i]
  BY <1>1, <1>2, <1>3
<1>5. EndOf(g, from, v) = g.edges[j].to
  BY <1>4, EndIs
<1>6. n # 0 => EndOf(g, from, w) = g.edges[w[n]].to
  BY <1>2, <1>3, EndIs
<1>e. n = 0 <=> w = <<>>
  BY <1>2, <1>3
<1>7. n = 0 => w = <<>> /\ EndOf(g, from, w) = from
  BY <1>3, <1>e, EndIs, ZenonT(60)
<1>8. /\ w # <<>> => g.edges[w[1]].from = from
      /\ \A i \in 2..n : g.edges[w[i]].from = g.edges[w[i-1]].to
      /\ \A i, k \in 1..n : i # k => g.edges[w[i]].from # g.edges[w[k]].from
      /\ \A i \in 1..n : g.edges[w[i]].from # EndOf(g, from, w)
      /\ \A i \in 1..n : i < n => g.edges[w[i]].to # to
  BY <1>2 DEF Trail
<1>9. g.edges[j].to # from /\ \A i \in 1..n : g.edges[j].to # g.edges[w[i]].to
  BY <1>2, <1>3, EndIs
<1>10. g.edges[v[1]].from = from
  <2>1. CASE n = 0
    BY <1>4, <1>7, <2>1
  <2>2. CASE n # 0
    <3>1. 1 \in 1..n /\ w # <<>>
      BY <1>3, <1>e, <2>2
    <3>2. QED
      BY <1>4, <1>8, <3>1
  <2>3. QED
    BY <2>1, <2>2
<1>11. \A i \in 2..(n+1) : g.edges[v[i]].from = g.edges[v[i-1]].to
  <2>1. ASSUME NEW i \in 2..n PROVE g.edges[v[i]].from = g.edges[v[i-1]].to
    <3>1. i \in 1..n /\ i - 1 \in 1..n
      BY <1>3
    <3>2. QED
      BY <1>4, <1>8, <3>1
  <2>2. ASSUME n # 0 PROVE g.edges[v[n+1]].from = g.edges[v[(n+1)-1]].to
    <3>1. n \in 1..n /\ (n + 1) - 1 = n
      BY <1>3, <2>2
    <3>2. QED
      BY <1>4, <1>6, <2>2, <3>1
  <2>3. ASSUME NEW i \in 2..(n+1) PROVE i \in 2..n \/ (i = n + 1 /\ n # 0)
    BY <1>3
  <2>4. QED
    BY <2>1, <2>2, <2>3
<1>12. \A i, k \in 1..(n+1) : i # k => g.edges[v[i]].from # g.edges[v[k]].from
  <2>1. ASSUME NEW i \in 1..(n+1) PROVE i \in 1..n \/ i = n + 1
    BY <1>3
  <2>2. QED
    BY <1>4, <1>8, <2>1
<1>13. \A i \in 1..(n+1) : g.edges[v[i]].from # g.edges[j].to
  <2>1. ASSUME NEW i \in 1..n PROVE g.edges[v[i]].from # g.edges[j].to
    <3>1. CASE i = 1
      BY <1>4, <1>9, <1>10, <3>1
    <3>2. CASE i # 1
      <4>1. i \in 2..n /\ i - 1 \in 1..n
        BY <1>3, <3>2
      <4>2. QED
        BY <1>4, <1>8, <1>9, <4>1
    <3>3. QED
      BY <3>1, <3>2
  <2>2. g.edges[v[n+1]].from # g.edges[j].to
    <3>1. CASE n = 0
      BY <1>4, <1>7, <1>9, <3>1
    <3>2. CASE n # 0
      <4>1. n \in 1..n
        BY <1>3, <3>2
      <4>2. QED
        BY <1>4, <1>6, <1>9, <3>2, <4>1
    <3>3. QED
      BY <3>1, <3>2
  <2>3. ASSUME NEW i \in 1..(n+1) PROVE i \in 1..n \/ i = n + 1
    BY <1>3
  <2>4. QED
    BY <2>1, <2>2, <2>3
<1>14. \A i \in 1..(n+1) : i < n + 1 => g.edges[v[i]].to # to
  <2>1. SUFFICES ASSUME NEW i \in 1..(n+1), i < n + 1 PROVE g.edges[v[i]].to # to
    OBVIOUS
  <2>2. i \in 1..n /\ v[i] = w[i]
    BY <1>3, <1>4, <2>1
  <2>3. CASE i = n
    BY <1>6, <2>2, <2>3
  <2>4. CASE i # n
    BY <1>3, <1>8, <2>2, <2>4
  <2>5. QED
    BY <2>3, <2>4
<1>15. Trail(g, ids, from, to, v)
  BY <1>4, <1>5, <1>10, <1>11, <1>12, <1>13, <1>14 DEF Trail
<1>16. QED
  BY <1>1, <1>2, <1>4, <1>15

\* Every walk that is gone on with is a trail.
LEMMA WalksTrail ==
  ASSUME NEW g, NEW ids, NEW from, NEW to, NEW depth, NEW walk, WalksInTurn(walk, g, ids, from, to, depth),
         NEW n \in Nat
  PROVE  \A w \in walk[n] : Trail(g, ids, from, to, w) /\ Len(w) <= n
<1> DEFINE Z == {k \in Nat : \A w \in walk[k] : Trail(g, ids, from, to, w) /\ Len(w) <= k}
<1>1. 0 \in Z
  <2>1. walk[0] = {<<>>}
    BY DEF WalksInTurn
  <2>2. Trail(g, ids, from, to, <<>>) /\ Len(<<>>) = 0
    BY DEF Trail
  <2>3. QED
    BY <2>1, <2>2
<1>2. ASSUME NEW k \in Z PROVE k + 1 \in Z
  <2>1. k \in Nat /\ \A w \in walk[k] : Trail(g, ids, from, to, w) /\ Len(w) <= k
    OBVIOUS
  <2>2. SUFFICES ASSUME NEW v \in walk[k+1] PROVE Trail(g, ids, from, to, v) /\ Len(v) <= k + 1
    BY <2>1
  <2>3. CASE v \in walk[k]
    <3>1. Trail(g, ids, from, to, v) /\ Len(v) <= k /\ Len(v) \in Nat
      BY <2>1, <2>3 DEF Trail
    <3>2. QED
      BY <2>1, <3>1
  <2>4. CASE v \notin walk[k]
    <3>1. PICK w \in walk[k] : v \in Longer(g, ids, from, to, depth, w)
      BY <2>1, <2>4 DEF WalksInTurn
    <3>2. EndOf(g, from, w) # to /\ \E j \in Onward(g, ids, from, to, depth, w) : v = Append(w, j)
      BY <3>1 DEF Longer
    <3>3. PICK j \in Onward(g, ids, from, to, depth, w) : v = Append(w, j)
      BY <3>2
    <3>4. j \in ids /\ g.edges[j].from = EndOf(g, from, w) /\ g.edges[j].to \notin VisitedBy(g, from, w)
      BY DEF Onward
    <3>5. Trail(g, ids, from, to, w) /\ Len(w) <= k /\ Len(w) \in Nat
      BY <2>1 DEF Trail
    <3>6. Trail(g, ids, from, to, v) /\ Len(v) = Len(w) + 1
      BY <3>2, <3>3, <3>4, <3>5, TrailGrows
    <3>7. QED
      BY <2>1, <3>5, <3>6
  <2>5. QED
    BY <2>3, <2>4
<1> HIDE DEF Z
<1>3. Z = Nat
  <2>1. Z \in SUBSET Nat
    BY DEF Z
  <2>2. QED
    BY <1>1, <1>2, <2>1, Induction
<1>4. QED
  BY <1>3 DEF Z

\* Both searches only grow.
LEMMA Grows ==
  ASSUME NEW f, \A n \in Nat : f[n] \subseteq f[n+1], NEW m \in Nat, NEW n \in Nat, m <= n
  PROVE  f[m] \subseteq f[n]
<1> DEFINE Z == {k \in Nat : m <= k => f[m] \subseteq f[k]}
<1>1. 0 \in Z
  OBVIOUS
<1>2. ASSUME NEW k \in Z PROVE k + 1 \in Z
  <2>1. k \in Nat /\ f[k] \subseteq f[k+1] /\ (m <= k => f[m] \subseteq f[k])
    OBVIOUS
  <2>2. m <= k + 1 => m <= k \/ m = k + 1
    BY <2>1
  <2>3. QED
    BY <2>1, <2>2
<1> HIDE DEF Z
<1>3. Z = Nat
  <2>1. Z \in SUBSET Nat
    BY DEF Z
  <2>2. QED
    BY <1>1, <1>2, <2>1, Induction
<1>4. QED
  BY <1>3 DEF Z

\* The search backwards finds the nodes of a path, with what is left of it.
LEMMA PathSeen ==
  ASSUME NEW g, NEW ids, NEW from, NEW to, NEW depth \in Nat, NEW w, PathIn(g, ids, from, to, w), Len(w) <= depth,
         NEW i \in 1..Len(w)
  PROVE  InReach(Back(g, ids, to, depth), g.edges[w[i]].to, depth - i)
<1>1. PICK n : n = Len(w)
  OBVIOUS
<1>2. n \in Nat /\ n # 0 /\ \A k \in 1..n : w[k] \in ids
  BY <1>1 DEF PathIn
<1>3. PICK after : BackInTurn(after, g, ids, to) /\ Back(g, ids, to, depth) = after[depth]
  BY BackIs
<1> DEFINE Z == {k \in Nat : k < n => <<g.edges[w[n - k]].to, k>> \in after[k]}
<1>4. 0 \in Z
  <2>1. g.edges[w[n]].to = to
    BY <1>1, <1>2 DEF PathIn
  <2>2. n - 0 = n
    BY <1>2
  <2>3. QED
    BY <1>3, <2>1, <2>2 DEF BackInTurn
<1>5. ASSUME NEW k \in Z PROVE k + 1 \in Z
  <2>1. k \in Nat /\ (k < n => <<g.edges[w[n - k]].to, k>> \in after[k])
    OBVIOUS
  <2>2. ASSUME k + 1 < n PROVE <<g.edges[w[n - (k+1)]].to, k+1>> \in after[k+1]
    <3>1. PICK j : j = n - k
      OBVIOUS
    <3>2. j \in 2..n /\ j \in 1..n /\ j - 1 = n - (k + 1)
      BY <1>2, <2>1, <2>2, <3>1
    <3>3. <<g.edges[w[j]].to, k>> \in after[k] /\ w[j] \in ids
      BY <1>2, <2>1, <2>2, <3>1, <3>2
    <3>4. <<g.edges[w[j]].from, k+1>> \in after[k+1]
      BY <1>3, <2>1, <3>3, ZenonT(60) DEF BackInTurn
    <3>5. g.edges[w[j]].from = g.edges[w[j-1]].to
      BY <1>1, <3>2 DEF PathIn
    <3>6. QED
      BY <3>2, <3>4, <3>5
  <2>3. QED
    BY <2>1, <2>2
<1> HIDE DEF Z
<1>6. Z = Nat
  <2>1. Z \in SUBSET Nat
    BY DEF Z
  <2>2. QED
    BY <1>4, <1>5, <2>1, Induction
<1>7. <<g.edges[w[i]].to, n - i>> \in after[n - i]
  <2>1. n - i \in Nat /\ n - i < n /\ n - (n - i) = i
    BY <1>1, <1>2
  <2>2. QED
    BY <1>6, <2>1 DEF Z
<1>8. n - i \in Nat /\ n - i <= depth /\ n - i <= depth - i
  BY <1>1, <1>2
<1>9. after[n - i] \subseteq after[depth]
  <2>1. \A k \in Nat : after[k] \subseteq after[k+1]
    BY <1>3 DEF BackInTurn
  <2>2. QED
    BY <1>8, <2>1, Grows
<1>10. PICK b : b = <<g.edges[w[i]].to, n - i>>
  OBVIOUS
<1>11. b \in after[depth] /\ b[1] = g.edges[w[i]].to /\ b[2] = n - i
  BY <1>7, <1>9, <1>10
<1>12. QED
  BY <1>3, <1>8, <1>11 DEF InReach


\* A path's beginnings are gone on with: it can be reached from each node
\* of it with the edges that are left.
LEMMA PathPrefix ==
  ASSUME NEW g, NEW ids, NEW from, NEW to, from # to, NEW depth \in Nat,
         NEW w, PathIn(g, ids, from, to, w), Len(w) <= depth, NEW k \in Nat, k < Len(w)
  PROVE  SubSeq(w, 1, k+1) \in Longer(g, ids, from, to, depth, SubSeq(w, 1, k))
<1>1. PICK n : n = Len(w)
  OBVIOUS
<1>2. /\ w \in Seq(ids) /\ n \in Nat /\ \A i \in 1..n : w[i] \in ids
      /\ g.edges[w[1]].from = from
      /\ \A i \in 2..n : g.edges[w[i]].from = g.edges[w[i-1]].to
      /\ \A i, j \in 1..n : i # j => g.edges[w[i]].from # g.edges[w[j]].from
      /\ \A i \in 1..n : g.edges[w[i]].to = to <=> i = n
  BY <1>1 DEF PathIn
<1>3. k + 1 \in 1..n /\ w[k+1] \in ids
  BY <1>1, <1>2
<1>4. PICK p : p = SubSeq(w, 1, k)
  OBVIOUS
<1>5. p \in Seq(ids) /\ Len(p) = k /\ \A i \in 1..k : p[i] = w[i]
  <2>1. \A i \in 1..k : w[i] \in ids /\ 1 + i - 1 = i
    BY <1>1, <1>2
  <2>2. k - 1 + 1 = k /\ (1 <= k \/ k = 0)
    OBVIOUS
  <2>3. QED
    BY <1>4, <2>1, <2>2, SubSeqProperties
<1>6. SubSeq(w, 1, k+1) = Append(p, w[k+1])
  <2>1. 1 \in 1..Len(w) /\ k + 1 \in 1..Len(w) /\ (k + 1) - 1 = k
    BY <1>1, <1>3
  <2>2. SubSeq(w, 1, k+1) = SubSeq(w, 1, (k+1)-1) \o <<w[k+1]>>
    BY <1>2, <2>1, SubSeqRecursiveSecond
  <2>3. SubSeq(w, 1, k+1) = p \o <<w[k+1]>>
    BY <1>4, <2>1, <2>2
  <2>4. p \o <<w[k+1]>> = Append(p, w[k+1])
    BY <1>3, <1>5
  <2>5. QED
    BY <2>3, <2>4
<1>7. EndOf(g, from, p) = g.edges[w[k+1]].from /\ EndOf(g, from, p) # to
  <2>1. CASE k = 0
    <3>1. p = <<>> /\ k + 1 = 1
      BY <1>5, <2>1
    <3>2. EndOf(g, from, p) = from
      BY <3>1 DEF EndOf
    <3>3. QED
      BY <1>2, <3>1, <3>2
  <2>2. CASE k # 0
    <3>1. p # <<>> /\ k \in 1..k /\ k \in 1..n /\ k + 1 \in 2..n /\ (k + 1) - 1 = k /\ k # n
      BY <1>1, <1>2, <1>5, <2>2
    <3>2. EndOf(g, from, p) = g.edges[w[k]].to
      BY <1>5, <3>1, EndIs
    <3>3. QED
      BY <1>2, <3>1, <3>2
  <2>3. QED
    BY <2>1, <2>2
<1>8. g.edges[w[k+1]].to # from
  <2>1. CASE k + 1 = n
    BY <1>2, <1>3, <2>1
  <2>2. CASE k + 1 # n
    <3>1. k + 2 \in 2..n /\ k + 2 \in 1..n /\ 1 \in 1..n /\ k + 2 # 1 /\ (k + 2) - 1 = k + 1
      BY <1>2, <1>3, <2>2
    <3>2. QED
      BY <1>2, <3>1, ZenonT(60)
  <2>3. QED
    BY <2>1, <2>2
<1>9. \A i \in 1..k : g.edges[w[k+1]].to # g.edges[w[i]].to
  <2>1. SUFFICES ASSUME NEW i \in 1..k PROVE g.edges[w[k+1]].to # g.edges[w[i]].to
    OBVIOUS
  <2>2. i \in 1..n /\ i # n
    BY <1>2, <1>3
  <2>3. CASE k + 1 = n
    BY <1>2, <1>3, <2>2, <2>3
  <2>4. CASE k + 1 # n
    <3>1. /\ k + 2 \in 2..n /\ k + 2 \in 1..n /\ (k + 2) - 1 = k + 1
          /\ i + 1 \in 2..n /\ i + 1 \in 1..n /\ (i + 1) - 1 = i /\ k + 2 # i + 1
      BY <1>2, <1>3, <2>4
    <3>2. PICK a, b : a = k + 2 /\ b = i + 1
      OBVIOUS
    <3>3. g.edges[w[a]].from = g.edges[w[k+1]].to /\ g.edges[w[b]].from = g.edges[w[i]].to
      BY <1>2, <3>1, <3>2
    <3>4. g.edges[w[a]].from # g.edges[w[b]].from
      BY <1>2, <3>1, <3>2
    <3>5. QED
      BY <3>3, <3>4
  <2>5. QED
    BY <2>3, <2>4
<1>10. g.edges[w[k+1]].to \notin VisitedBy(g, from, p)
  <2>1. VisitedBy(g, from, p) = {from} \cup {g.edges[p[i]].to : i \in 1..k}
    <3>1. DOMAIN p = 1..k
      BY <1>5
    <3>2. QED
      BY <3>1 DEF VisitedBy
  <2>2. QED
    BY <1>5, <1>8, <1>9, <2>1
<1>11. InReach(Back(g, ids, to, depth), g.edges[w[k+1]].to, depth - Len(p) - 1)
  <2>1. k + 1 \in 1..Len(w) /\ depth - Len(p) - 1 = depth - (k + 1)
    BY <1>1, <1>3, <1>5
  <2>2. InReach(Back(g, ids, to, depth), g.edges[w[k+1]].to, depth - (k + 1))
    BY <2>1, PathSeen
  <2>3. QED
    BY <2>1, <2>2
<1>12. w[k+1] \in Onward(g, ids, from, to, depth, p)
  BY <1>3, <1>7, <1>10, <1>11 DEF Onward
<1>13. Append(p, w[k+1]) \in Longer(g, ids, from, to, depth, p)
  BY <1>7, <1>12 DEF Longer
<1>14. QED
  BY <1>4, <1>6, <1>13

\* Walks finds the acyclic paths, and nothing else.
LEMMA WalksArePaths ==
  ASSUME NEW g, NEW ids, NEW from, NEW to, from # to, NEW depth \in Nat
  PROVE  \A w : w \in Walks(g, ids, from, to, depth) <=> PathIn(g, ids, from, to, w) /\ Len(w) <= depth
<1>0. PICK walk : WalksOf(walk, g, ids, from, to, depth)
  BY WalksAre
<1>1. /\ WalksInTurn(walk, g, ids, from, to, depth)
      /\ Walks(g, ids, from, to, depth) = {w \in walk[depth] : w # <<>> /\ EndOf(g, from, w) = to}
  BY <1>0 DEF WalksOf
<1>2. ASSUME NEW w \in Walks(g, ids, from, to, depth)
      PROVE  PathIn(g, ids, from, to, w) /\ Len(w) <= depth
  <2>1. w \in walk[depth] /\ w # <<>> /\ EndOf(g, from, w) = to
    BY <1>1
  <2>2. Trail(g, ids, from, to, w) /\ Len(w) <= depth
    BY <1>1, <2>1, WalksTrail
  <2>3. w \in Seq(ids) /\ g.edges[w[Len(w)]].to = to
    BY <2>1, <2>2, EndIs DEF Trail
  <2>4. \A i \in 1..Len(w) : g.edges[w[i]].to = to <=> i = Len(w)
    <3>1. \A i \in 1..Len(w) : i < Len(w) => g.edges[w[i]].to # to
      BY <2>2 DEF Trail
    <3>2. Len(w) \in Nat
      BY <2>3
    <3>3. QED
      BY <2>3, <3>1, <3>2
  <2>5. QED
    BY <2>1, <2>2, <2>4 DEF Trail, PathIn
<1>3. ASSUME NEW w, PathIn(g, ids, from, to, w), Len(w) <= depth
      PROVE  w \in Walks(g, ids, from, to, depth)
  <2>1. w \in Seq(ids) /\ Len(w) \in Nat /\ w # <<>>
    BY <1>3 DEF PathIn
  <2> DEFINE Z == {k \in Nat : k <= Len(w) => SubSeq(w, 1, k) \in walk[k]}
  <2>2. 0 \in Z
    <3>1. SubSeq(w, 1, 0) = <<>>
      BY SubSeqEmpty
    <3>2. QED
      BY <1>1, <3>1 DEF WalksInTurn
  <2>3. ASSUME NEW k \in Z PROVE k + 1 \in Z
    <3>1. k \in Nat /\ (k <= Len(w) => SubSeq(w, 1, k) \in walk[k])
      OBVIOUS
    <3>2. ASSUME k + 1 <= Len(w) PROVE SubSeq(w, 1, k+1) \in walk[k+1]
      <4>1. k < Len(w) /\ k <= Len(w)
        BY <2>1, <3>1, <3>2
      <4>2. SubSeq(w, 1, k+1) \in Longer(g, ids, from, to, depth, SubSeq(w, 1, k))
        BY <1>3, <3>1, <4>1, PathPrefix
      <4>3. walk[k+1] = walk[k] \cup UNION {Longer(g, ids, from, to, depth, v) : v \in walk[k]}
        BY <1>1, <3>1 DEF WalksInTurn
      <4>4. QED
        BY <3>1, <4>1, <4>2, <4>3
    <3>3. QED
      BY <3>1, <3>2
  <2> HIDE DEF Z
  <2>4. Z = Nat
    <3>1. Z \in SUBSET Nat
      BY DEF Z
    <3>2. QED
      BY <2>2, <2>3, <3>1, Induction
  <2>5. w \in walk[Len(w)]
    <3>1. SubSeq(w, 1, Len(w)) = w
      BY <2>1, SubSeqFull
    <3>2. SubSeq(w, 1, Len(w)) \in walk[Len(w)]
      BY <2>1, <2>4 DEF Z
    <3>3. QED
      BY <3>1, <3>2
  <2>6. walk[Len(w)] \subseteq walk[depth]
    <3>1. \A k \in Nat : walk[k] \subseteq walk[k+1]
      BY <1>1 DEF WalksInTurn
    <3>2. QED
      BY <1>3, <2>1, <3>1, Grows
  <2>7. EndOf(g, from, w) = to
    <3>1. Len(w) \in 1..Len(w) /\ EndOf(g, from, w) = g.edges[w[Len(w)]].to
      BY <2>1, EndIs
    <3>2. QED
      BY <1>3, <3>1 DEF PathIn
  <2>8. QED
    BY <1>1, <2>1, <2>5, <2>6, <2>7
<1>4. QED
  BY <1>2, <1>3


\* Paths are put in order by length, then by their edges.
InTurn(W) == {p \in W \X W : Before(p[1], p[2])}

\* Where v and w differ first, and where v comes before w.
DiffersAt(v, w, i) == v[i] # w[i] /\ \A j \in 1..(i-1) : v[j] = w[j]
AheadAt(v, w, i) == v[i] < w[i] /\ \A j \in 1..(i-1) : v[j] = w[j]

LEMMA DifferFirst ==
  ASSUME NEW n \in Nat, NEW v, NEW w, \E i \in 1..n : v[i] # w[i]
  PROVE  \E i \in 1..n : DiffersAt(v, w, i)
<1> DEFINE T == {i \in 1..n : v[i] # w[i]}
<1>1. T \in SUBSET Nat /\ T # {}
  OBVIOUS
<1>2. PICK i \in T : \A j \in T : i <= j
  BY <1>1, Least
<1>3. ASSUME NEW j \in 1..(i-1) PROVE v[j] = w[j]
  BY <1>2
<1>4. QED
  BY <1>3 DEF DiffersAt

LEMMA BeforeOrders ==
  ASSUME NEW W, W \subseteq Seq(Nat)
  PROVE  StrictOrder(W, InTurn(W))
<1>1. \A v, w \in W : <<v, w>> \in InTurn(W) <=> Before(v, w)
  BY DEF InTurn
<1>2. \A w \in W : /\ Len(w) \in Nat /\ DOMAIN w = 1..Len(w) /\ w = [i \in 1..Len(w) |-> w[i]]
                   /\ \A i \in 1..Len(w) : w[i] \in Nat
  OBVIOUS
<1>3. ASSUME NEW w \in W PROVE ~Before(w, w)
  BY <1>2 DEF Before
<1>4. ASSUME NEW v \in W, NEW w \in W, v # w PROVE Before(v, w) \/ Before(w, v)
  <2>1. CASE Len(v) # Len(w)
    BY <1>2, <2>1 DEF Before
  <2>2. CASE Len(v) = Len(w)
    <3>1. PICK n : n = Len(v) /\ n = Len(w)
      BY <2>2
    <3>2. n \in Nat /\ v = [i \in 1..n |-> v[i]] /\ w = [i \in 1..n |-> w[i]]
      BY <1>2, <3>1
    <3>3. \E i \in 1..n : v[i] # w[i]
      BY <1>4, <3>2
    <3>4. PICK i \in 1..n : DiffersAt(v, w, i)
      BY <3>2, <3>3, DifferFirst
    <3>n. v[i] \in Nat /\ w[i] \in Nat
      BY <1>2, <3>1
    <3>5. v[i] < w[i] \/ w[i] < v[i]
      BY <3>4, <3>n DEF DiffersAt
    <3>6. i \in DOMAIN v /\ i \in DOMAIN w
      BY <1>2, <3>1
    <3>7. QED
      BY <2>2, <3>4, <3>5, <3>6 DEF Before, DiffersAt
  <2>3. QED
    BY <2>1, <2>2
<1>5. ASSUME NEW v \in W, NEW w \in W, NEW x \in W, Before(v, w), Before(w, x) PROVE Before(v, x)
  <2>1. CASE Len(v) < Len(w) \/ Len(w) < Len(x)
    <3>1. Len(v) <= Len(w) /\ Len(w) <= Len(x)
      BY <1>2, <1>5 DEF Before
    <3>2. Len(v) < Len(x)
      BY <1>2, <2>1, <3>1
    <3>3. QED
      BY <3>2 DEF Before
  <2>2. CASE Len(v) = Len(w) /\ Len(w) = Len(x)
    <3>1. PICK n : n = Len(v) /\ n = Len(w) /\ n = Len(x)
      BY <2>2
    <3>2. n \in Nat /\ DOMAIN v = 1..n /\ DOMAIN w = 1..n
          /\ \A i \in 1..n : v[i] \in Nat /\ w[i] \in Nat /\ x[i] \in Nat
      BY <1>2, <3>1
    <3>b. \A y, z \in W : Before(y, z) /\ Len(y) = n /\ Len(z) = n => \E i \in 1..n : AheadAt(y, z, i)
      <4>1. SUFFICES ASSUME NEW y \in W, NEW z \in W, Before(y, z), Len(y) = n, Len(z) = n
                     PROVE  \E i \in DOMAIN y : AheadAt(y, z, i)
        BY <1>2
      <4>2. ~(Len(y) < Len(z))
        BY <3>2, <4>1
      <4>3. QED
        BY <4>1, <4>2 DEF Before, AheadAt
    <3>i. PICK i \in 1..n : AheadAt(v, w, i)
      BY <1>5, <3>1, <3>b
    <3>k. PICK k \in 1..n : AheadAt(w, x, k)
      BY <1>5, <3>1, <3>b
    <3>3. v[i] < w[i] /\ \A j \in 1..(i-1) : v[j] = w[j]
      BY <3>i DEF AheadAt
    <3>4. w[k] < x[k] /\ \A j \in 1..(k-1) : w[j] = x[j]
      BY <3>k DEF AheadAt
    <3>5. PICK m \in {i, k} : m <= i /\ m <= k
      OBVIOUS
    <3>6. v[m] < x[m]
      <4>1. CASE i < k
        <5>1. m = i /\ i \in 1..(k-1)
          BY <3>5, <4>1
        <5>2. QED
          BY <3>3, <3>4, <5>1
      <4>2. CASE k < i
        <5>1. m = k /\ k \in 1..(i-1)
          BY <3>5, <4>2
        <5>2. QED
          BY <3>3, <3>4, <5>1
      <4>3. CASE i = k
        <5>1. v[i] < w[i] /\ w[i] < x[i] /\ m = i
          BY <3>3, <3>4, <3>5, <4>3
        <5>2. v[i] \in Nat /\ w[i] \in Nat /\ x[i] \in Nat
          BY <3>2
        <5>3. QED
          BY <5>1, <5>2
      <4>4. QED
        BY <4>1, <4>2, <4>3
    <3>7. \A j \in 1..(m-1) : v[j] = x[j]
      <4>1. SUFFICES ASSUME NEW j \in 1..(m-1) PROVE v[j] = x[j]
        OBVIOUS
      <4>2. j \in 1..(i-1) /\ j \in 1..(k-1)
        BY <3>5
      <4>3. QED
        BY <3>3, <3>4, <4>2
    <3>8. Len(v) = Len(x) /\ m \in DOMAIN v
      BY <3>1, <3>2
    <3>9. QED
      BY <3>6, <3>7, <3>8 DEF Before
  <2>3. QED
    BY <1>2, <1>5, <2>1, <2>2 DEF Before
<1>6. QED
  BY <1>1, <1>3, <1>4, <1>5 DEF StrictOrder

\* The first limit elements of a finite set in an order.
LEMMA FirstOnes ==
  ASSUME NEW I, IsFiniteSet(I), NEW before, StrictOrder(I, before), NEW limit \in Nat,
         NEW P, P = {i \in I : Cardinality({j \in I : <<j, i>> \in before}) < limit}
  PROVE  /\ Cardinality(P) = Min({limit, Cardinality(I)})
         /\ \A i \in P : \A j \in I \ P : <<i, j>> \in before
<1> DEFINE n == Cardinality(I)
           order == InOrder(I, before)
           rank(i) == Cardinality({j \in I : <<j, i>> \in before})
<1>1. n \in Nat /\ order \in [1..n -> I] /\ Range(order) = I
      /\ (\A p, q \in 1..n : order[p] = order[q] => p = q)
      /\ \A p \in 1..n : rank(order[p]) = p - 1
  BY FS_CardinalityType, InOrderRanked DEF Permutes
<1>2. P = {i \in I : rank(i) < limit}
  OBVIOUS
<1>3. PICK m : m = IF limit <= n THEN limit ELSE n
  OBVIOUS
<1>4. m \in Nat /\ m <= n /\ \A p \in 1..n : p <= m <=> p - 1 < limit
  BY <1>1, <1>3
<1>5. Min({limit, n}) = m
  <2>1. m \in {limit, n} /\ \A y \in {limit, n} : m <= y
    BY <1>1, <1>3
  <2>2. \A x \in {limit, n} : (\A y \in {limit, n} : x <= y) => x = m
    BY <1>1, <2>1
  <2>3. QED
    BY <2>1, <2>2 DEF Min
<1> HIDE DEF order, rank, n
<1>6. \A i \in I : \E p \in 1..n : order[p] = i
  BY <1>1 DEF Range
<1>7. \A p \in 1..n : order[p] \in P <=> p <= m
  <2>1. SUFFICES ASSUME NEW p \in 1..n PROVE order[p] \in P <=> p <= m
    OBVIOUS
  <2>2. order[p] \in I /\ rank(order[p]) = p - 1
    BY <1>1
  <2>3. p <= m <=> p - 1 < limit
    BY <1>4
  <2>4. order[p] \in P <=> rank(order[p]) < limit
    BY <1>2, <2>2
  <2>5. QED
    BY <2>2, <2>3, <2>4
<1> DEFINE first == [p \in 1..m |-> order[p]]
<1>8. first \in Bijection(1..m, P)
  <2>1. \A p \in 1..m : p \in 1..n /\ first[p] = order[p] /\ first[p] \in P
    BY <1>1, <1>4, <1>7
  <2>2. \A i \in P : \E p \in 1..m : first[p] = i
    <3>1. SUFFICES ASSUME NEW i \in P PROVE \E p \in 1..m : first[p] = i
      OBVIOUS
    <3>2. PICK p \in 1..n : order[p] = i
      BY <1>2, <1>6
    <3>3. p \in 1..m
      BY <1>1, <1>4, <1>7, <3>2
    <3>4. QED
      BY <3>2, <3>3
  <2>3. \A p, q \in 1..m : first[p] = first[q] => p = q
    BY <1>1, <2>1
  <2>4. first \in [1..m -> P]
    BY <2>1
  <2>5. QED
    BY <2>2, <2>3, <2>4 DEF Bijection, Injection, Surjection, IsInjective
<1>9. Cardinality(P) = m
  <2>1. IsFiniteSet(1..m) /\ Cardinality(1..m) = m
    BY <1>4, FS_Interval
  <2>2. ExistsBijection(1..m, P)
    BY <1>8 DEF ExistsBijection
  <2>3. QED
    BY <2>1, <2>2, FS_Bijection
<1>10. ASSUME NEW i \in P, NEW j \in I \ P PROVE <<i, j>> \in before
  <2>1. i \in I /\ rank(i) < limit /\ ~(rank(j) < limit) /\ i # j
    BY <1>2
  <2>2. <<i, j>> \in before \/ <<j, i>> \in before
    BY <2>1 DEF StrictOrder
  <2>3. ASSUME <<j, i>> \in before PROVE FALSE
    <3> DEFINE pred(k) == {h \in I : <<h, k>> \in before}
    <3>1. pred(j) \in SUBSET pred(i)
      BY <2>1, <2>3 DEF StrictOrder
    <3>2. IsFiniteSet(pred(i)) /\ IsFiniteSet(pred(j))
      BY FS_Subset
    <3> HIDE DEF pred
    <3>3. Cardinality(pred(j)) <= Cardinality(pred(i)) /\ Cardinality(pred(j)) \in Nat /\ Cardinality(pred(i)) \in Nat
      BY <3>1, <3>2, FS_Subset, FS_CardinalityType
    <3>4. rank(i) = Cardinality(pred(i)) /\ rank(j) = Cardinality(pred(j))
      BY DEF rank, pred
    <3>5. QED
      BY <2>1, <3>3, <3>4
  <2>4. QED
    BY <2>2, <2>3
<1>11. QED
  BY <1>5, <1>9, <1>10 DEF n

\* There are finitely many sequences of so many of finitely many things.
LEMMA FewSequences ==
  ASSUME NEW S, IsFiniteSet(S), NEW depth \in Nat, NEW W, \A w \in W : w \in Seq(S) /\ Len(w) <= depth
  PROVE  IsFiniteSet(W)
<1> DEFINE T == SUBSET ((1..depth) \X S)
           f == [w \in W |-> {<<i, w[i]>> : i \in 1..Len(w)}]
<1>1. IsFiniteSet(T)
  <2>1. IsFiniteSet(1..depth)
    BY FS_Interval
  <2>2. IsFiniteSet((1..depth) \X S)
    BY <2>1, FS_Product
  <2>3. QED
    BY <2>2, FS_SUBSET
<1>2. ASSUME NEW w \in W PROVE {<<i, w[i]>> : i \in 1..Len(w)} \in T
  <2>1. w \in Seq(S) /\ Len(w) <= depth /\ Len(w) \in Nat
    OBVIOUS
  <2>2. \A i \in 1..Len(w) : i \in 1..depth /\ w[i] \in S
    BY <2>1
  <2>3. QED
    BY <2>2
<1>3. ASSUME NEW v \in W, NEW w \in W, f[v] = f[w] PROVE v = w
  <2>1. v \in Seq(S) /\ w \in Seq(S) /\ Len(v) \in Nat /\ Len(w) \in Nat
    OBVIOUS
  <2>2. \A i \in 1..Len(v) : <<i, v[i]>> \in f[v]
    OBVIOUS
  <2>3. \A i \in 1..Len(w) : <<i, w[i]>> \in f[w]
    OBVIOUS
  <2>4. \A i \in 1..Len(v) : i \in 1..Len(w) /\ v[i] = w[i]
    BY <1>3, <2>2
  <2>5. \A i \in 1..Len(w) : i \in 1..Len(v)
    BY <1>3, <2>3
  <2>6. Len(v) = Len(w)
    <3>1. CASE Len(v) < Len(w)
      <4>1. Len(w) \in 1..Len(w)
        BY <2>1, <3>1
      <4>2. QED
        BY <2>1, <2>5, <3>1, <4>1
    <3>2. CASE Len(w) < Len(v)
      <4>1. Len(v) \in 1..Len(v)
        BY <2>1, <3>2
      <4>2. QED
        BY <2>1, <2>4, <3>2, <4>1
    <3>3. QED
      BY <2>1, <3>1, <3>2
  <2>7. v = [i \in 1..Len(v) |-> v[i]] /\ w = [i \in 1..Len(w) |-> w[i]]
    BY <2>1
  <2>8. QED
    BY <2>4, <2>6, <2>7
<1>4. f \in Injection(W, T)
  <2>1. f \in [W -> T]
    BY <1>2
  <2>2. \A v, w \in W : f[v] = f[w] => v = w
    BY <1>3
  <2> HIDE DEF f, T
  <2>3. QED
    BY <2>1, <2>2 DEF Injection, IsInjective
<1>5. QED
  BY <1>1, <1>4, FS_Injection


\* The edges of some kinds, their paths between two nodes, and the shortest of
\* them, in one word each.
NumberedBy(g, kinds, ids) ==
  IsFiniteSet(ids) /\ ids \subseteq Nat /\ ids = {i \in DOMAIN g.edges : g.edges[i].kind \in kinds}

ArePaths(g, ids, from, to, depth, all) ==
  \A w : w \in all <=> PathIn(g, ids, from, to, w) /\ Len(w) <= depth

AreShortest(paths, all, limit) ==
  /\ paths \subseteq all /\ Cardinality(paths) = Min({limit, Cardinality(all)})
  /\ \A v \in all \ paths, w \in paths : Len(w) <= Len(v)

\* The paths that are returned are the shortest acyclic ones, in any graph
\* with numbered edges, between two different nodes.
LEMMA PathsAreShortest ==
  ASSUME NEW g, NEW kinds, NEW ids, NumberedBy(g, kinds, ids), NEW from, NEW to, from # to,
         NEW depth \in Nat, NEW limit \in Nat, NEW all, ArePaths(g, ids, from, to, depth, all)
  PROVE  AreShortest(Paths(g, from, to, kinds, depth, limit), all, limit)
<1>0. PICK paths : paths = Paths(g, from, to, kinds, depth, limit)
  OBVIOUS
<1>a. IsFiniteSet(ids) /\ ids \subseteq Nat /\ ids = {i \in DOMAIN g.edges : g.edges[i].kind \in kinds}
  BY DEF NumberedBy
<1>1. Walks(g, ids, from, to, depth) = all
  <2>1. \A w : w \in Walks(g, ids, from, to, depth) <=> w \in all
    BY <1>a, WalksArePaths DEF ArePaths
  <2>2. QED
    BY <2>1
<1>2. \A w \in all : w \in Seq(ids) /\ Len(w) <= depth
  BY DEF ArePaths, PathIn
<1>3. IsFiniteSet(all)
  BY <1>a, <1>2, FewSequences
<1>4. all \subseteq Seq(Nat)
  <2>1. Seq(ids) \subseteq Seq(Nat)
    BY <1>a, SeqMonotonic
  <2>2. QED
    BY <1>2, <2>1
<1>5. StrictOrder(all, InTurn(all))
  BY <1>4, BeforeOrders
<1>6. paths = {w \in all : Cardinality({v \in all : <<v, w>> \in InTurn(all)}) < limit}
  <2>1. paths = {w \in all : Cardinality({v \in all : Before(v, w)}) < limit}
    BY <1>0, <1>1, <1>a DEF Paths
  <2>2. ASSUME NEW w \in all PROVE {v \in all : Before(v, w)} = {v \in all : <<v, w>> \in InTurn(all)}
    BY DEF InTurn
  <2>3. QED
    BY <2>1, <2>2
<1>7. /\ Cardinality(paths) = Min({limit, Cardinality(all)})
      /\ \A w \in paths : \A v \in all \ paths : <<w, v>> \in InTurn(all)
  BY <1>3, <1>5, <1>6, FirstOnes
<1>8. ASSUME NEW v \in all \ paths, NEW w \in paths PROVE Len(w) <= Len(v)
  <2>1. Before(w, v)
    BY <1>6, <1>7 DEF InTurn
  <2>2. Len(v) \in Nat /\ Len(w) \in Nat
    BY <1>4, <1>6
  <2>3. QED
    BY <2>1, <2>2 DEF Before
<1>9. paths \subseteq all
  BY <1>6
<1>10. QED
  BY <1>0, <1>7, <1>8, <1>9 DEF AreShortest

LEMMA CompletesPaths == ServedInv => PathsComplete
<1> SUFFICES ASSUME ServedInv, Finished /\ opts.prune = "none",
                    NEW to \in {n \in DOMAIN graph.nodes : IsSink(n)}, NEW limit \in {1, 10}
             PROVE  LET ids == DOMAIN graph.edges
                        all == {w \in UNION {[1..n -> ids] : n \in 1..MaxPath} :
                                 graph.edges[w[1]].from = opts.route /\ Acyclic(to, w)}
                        paths == Paths(graph, opts.route, to, EdgeKinds, MaxPath, limit)
                    IN  /\ paths \subseteq all
                        /\ Cardinality(paths) = Min({limit, Cardinality(all)})
                        /\ \A v \in all \ paths, w \in paths : Len(w) <= Len(v)
  BY DEF PathsComplete
<1> DEFINE ids == DOMAIN graph.edges
           all == {w \in UNION {[1..n -> ids] : n \in 1..MaxPath} :
                    graph.edges[w[1]].from = opts.route /\ Acyclic(to, w)}
           paths == Paths(graph, opts.route, to, EdgeKinds, MaxPath, limit)
<1>a. /\ ids = DOMAIN graph.edges
      /\ paths = Paths(graph, opts.route, to, EdgeKinds, MaxPath, limit)
  OBVIOUS
<1>b. \A w : w \in all <=> /\ w \in UNION {[1..n -> ids] : n \in 1..MaxPath}
                           /\ graph.edges[w[1]].from = opts.route /\ Acyclic(to, w)
  OBVIOUS
<1>c. SUFFICES /\ paths \subseteq all
               /\ Cardinality(paths) = Min({limit, Cardinality(all)})
               /\ \A v \in all \ paths, w \in paths : Len(w) <= Len(v)
  OBVIOUS
<1> HIDE DEF ids, all, paths
<1>2. GraphOK
  BY TypeGivesGraph DEF ServedInv, FlowInv
<1>3. /\ IsFiniteSet(ids) /\ ids \subseteq Nat
      /\ ids = {i \in DOMAIN graph.edges : graph.edges[i].kind \in EdgeKinds}
  <2>1. IsSeq(graph.edges)
    BY <1>2 DEF GraphOK, IsGraph
  <2>2. ids = 1..Len(graph.edges) /\ Len(graph.edges) \in Nat /\ IsFiniteSet(ids)
    BY <1>a, <2>1, DomainOfSeq
  <2>3. \A i \in ids : graph.edges[i].kind \in EdgeKinds
    BY <1>a, <1>2 DEF GraphOK, IsGraph, Range
  <2>4. QED
    BY <1>a, <2>2, <2>3
<1>4. opts.route # to
  BY <1>2 DEF GraphOK, IsOptions, IsSink, Kind
<1>5. MaxPath \in Nat /\ limit \in Nat
  BY DEF MaxPath
<1>6. ASSUME NEW w
      PROVE  w \in all <=> PathIn(graph, ids, opts.route, to, w) /\ Len(w) <= MaxPath
  <2>1. w \in UNION {[1..n -> ids] : n \in 1..MaxPath} <=> w \in Seq(ids) /\ w # <<>> /\ Len(w) <= MaxPath
    <3>1. ASSUME NEW n \in 1..MaxPath, w \in [1..n -> ids] PROVE w \in Seq(ids) /\ w # <<>> /\ Len(w) <= MaxPath
      BY <1>5, <3>1
    <3>2. ASSUME w \in Seq(ids), w # <<>>, Len(w) <= MaxPath PROVE w \in UNION {[1..n -> ids] : n \in 1..MaxPath}
      <4>1. Len(w) \in Nat /\ Len(w) # 0 /\ w \in [1..Len(w) -> ids]
        BY <3>2
      <4>2. Len(w) \in 1..MaxPath
        BY <1>5, <3>2, <4>1
      <4>3. QED
        BY <4>1, <4>2
    <3>3. QED
      BY <3>1, <3>2
  <2>2. ASSUME w \in Seq(ids) PROVE DOMAIN w = 1..Len(w)
    BY <2>2
  <2>3. ASSUME w \in all PROVE PathIn(graph, ids, opts.route, to, w) /\ Len(w) <= MaxPath
    <3>1. w \in Seq(ids) /\ w # <<>> /\ Len(w) <= MaxPath /\ DOMAIN w = 1..Len(w)
      BY <1>b, <2>1, <2>2, <2>3
    <3>2. graph.edges[w[1]].from = opts.route /\ Acyclic(to, w)
      BY <1>b, <2>3
    <3>3. QED
      BY <3>1, <3>2 DEF Acyclic, PathIn
  <2>4. ASSUME PathIn(graph, ids, opts.route, to, w), Len(w) <= MaxPath PROVE w \in all
    <3>1. w \in Seq(ids) /\ w # <<>> /\ graph.edges[w[1]].from = opts.route
      BY <2>4 DEF PathIn
    <3>2. DOMAIN w = 1..Len(w)
      BY <2>2, <3>1
    <3>3. Acyclic(to, w)
      BY <2>4, <3>2 DEF Acyclic, PathIn
    <3>4. QED
      BY <1>b, <2>1, <2>4, <3>1, <3>3
  <2>5. QED
    BY <2>3, <2>4
<1>7. \A w : w \in all <=> PathIn(graph, ids, opts.route, to, w) /\ Len(w) <= MaxPath
  BY <1>6
<1>8. ArePaths(graph, ids, opts.route, to, MaxPath, all) /\ NumberedBy(graph, EdgeKinds, ids)
  BY <1>3, <1>7 DEF ArePaths, NumberedBy
<1>9. AreShortest(Paths(graph, opts.route, to, EdgeKinds, MaxPath, limit), all, limit)
  BY <1>4, <1>5, <1>8, PathsAreShortest, Zenon
<1>10. QED
  BY <1>a, <1>9 DEF AreShortest

\* "Paths returns up to opts.Limit acyclic paths from one node to another,
\* shortest first": between the route and the sinks of its flow's graph, the
\* search backwards that narrows the one forwards loses none (Store.Paths).
THEOREM ServedPathsComplete == ServedSpec => []PathsComplete
BY CompletesPaths, ServedInvariant, PTL
=============================================================================
