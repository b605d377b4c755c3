----------------------------- MODULE FlowProofs -----------------------------
(***************************************************************************)
(* Theorems about Flow, for every graph, pruning level and depth limit.    *)
(***************************************************************************)
EXTENDS Flow, ReachProofs, SequenceTheorems

-----------------------------------------------------------------------------
\* Sequences.
LEMMA SeqRange ==
  ASSUME NEW S, NEW s \in Seq(S)
  PROVE  IsSeq(s) /\ Range(s) \subseteq S
BY SeqOfRange, RangeOfSeq DEF IsSeq

LEMMA RangeAppend ==
  ASSUME NEW s, IsSeq(s), NEW e
  PROVE  IsSeq(Append(s, e)) /\ Range(Append(s, e)) = Range(s) \cup {e}
<1> DEFINE S == Range(s) \cup {e}
<1>1. s \in Seq(S) /\ e \in S
  BY DEF IsSeq
<1> HIDE DEF S
<1>2. /\ Append(s, e) \in Seq(S) /\ Len(Append(s, e)) = Len(s) + 1
      /\ \A i \in 1..Len(s) : Append(s, e)[i] = s[i]
      /\ Append(s, e)[Len(s)+1] = e
  BY <1>1
<1>3. Range(Append(s, e)) = Range(s) \cup {e}
  BY <1>1, <1>2 DEF Range
<1>4. QED
  <2>1. Append(s, e) \in Seq(S)
    BY <1>2
  <2>2. IsSeq(Append(s, e))
    BY <2>1, SeqRange DEF IsSeq
  <2>3. QED
    BY <1>3, <2>2

\* A strict order of a finite set puts its elements in a sequence.
StrictOrder(I, before) ==
  /\ \A i, j, k \in I : <<i, j>> \in before /\ <<j, k>> \in before => <<i, k>> \in before
  /\ \A i \in I : <<i, i>> \notin before
  /\ \A i, j \in I : i # j => <<i, j>> \in before \/ <<j, i>> \in before

Permutes(order, I) ==
  /\ order \in [1..Cardinality(I) -> I] /\ Range(order) = I
  /\ \A p, q \in 1..Cardinality(I) : order[p] = order[q] => p = q

LEMMA InOrderRanked ==
  ASSUME NEW I, IsFiniteSet(I), NEW before, StrictOrder(I, before)
  PROVE  /\ Permutes(InOrder(I, before), I)
         /\ \A p \in 1..Cardinality(I) : Cardinality({j \in I : <<j, InOrder(I, before)[p]>> \in before}) = p - 1
<1> DEFINE n == Cardinality(I)
           pred == [i \in I |-> {j \in I : <<j, i>> \in before}]
           rank == [i \in I |-> Cardinality(pred[i])]
<1>0. n \in Nat
  BY FS_CardinalityType
<1>p. \A i \in I : pred[i] = {j \in I : <<j, i>> \in before}
  OBVIOUS
<1>r. rank = [i \in I |-> Cardinality(pred[i])]
  OBVIOUS
<1> HIDE DEF pred, rank
<1>1. \A i \in I : IsFiniteSet(pred[i]) /\ Cardinality(pred[i]) \in Nat
  BY <1>p, FS_Subset, FS_CardinalityType
<1>2. ASSUME NEW i \in I PROVE Cardinality(pred[i]) < n
  <2>1. pred[i] \in SUBSET I /\ i \notin pred[i]
    BY <1>p DEF StrictOrder
  <2>2. Cardinality(pred[i]) <= n /\ (n = Cardinality(pred[i]) => I = pred[i])
    BY <2>1, FS_Subset
  <2>3. QED
    BY <1>0, <1>1, <2>1, <2>2
<1>3. ASSUME NEW i \in I, NEW j \in I, <<i, j>> \in before PROVE Cardinality(pred[i]) < Cardinality(pred[j])
  <2>1. pred[i] \in SUBSET pred[j] /\ i \in pred[j] /\ i \notin pred[i]
    BY <1>3, <1>p DEF StrictOrder
  <2>2. /\ Cardinality(pred[i]) <= Cardinality(pred[j])
        /\ Cardinality(pred[j]) = Cardinality(pred[i]) => pred[j] = pred[i]
    BY <1>1, <2>1, FS_Subset
  <2>3. QED
    BY <1>1, <2>1, <2>2
<1>4. ASSUME NEW i \in I, NEW j \in I, Cardinality(pred[i]) = Cardinality(pred[j]) PROVE i = j
  <2>1. <<i, j>> \notin before /\ <<j, i>> \notin before
    BY <1>1, <1>3, <1>4
  <2>2. QED
    BY <2>1 DEF StrictOrder
<1>5. rank \in Injection(I, 0..(n-1))
  <2>1. rank \in [I -> 0..(n-1)]
    BY <1>0, <1>1, <1>2, <1>r
  <2>2. \A i, j \in I : rank[i] = rank[j] => i = j
    BY <1>4, <1>r
  <2>3. QED
    BY <2>1, <2>2 DEF Injection, IsInjective
<1>6. IsFiniteSet(0..(n-1)) /\ Cardinality(0..(n-1)) = n
  BY <1>0, FS_Interval
<1>7. rank \in Surjection(I, 0..(n-1))
  BY <1>5, <1>6, FS_Injection
<1>8. \A p \in 1..n : \E i \in I : Cardinality(pred[i]) = p - 1
  <2>1. SUFFICES ASSUME NEW p \in 1..n PROVE \E i \in I : Cardinality(pred[i]) = p - 1
    OBVIOUS
  <2>2. p - 1 \in 0..(n-1)
    BY <1>0
  <2>3. \E i \in I : rank[i] = p - 1
    BY <1>7, <2>2 DEF Surjection
  <2>4. QED
    BY <2>3, <1>r
<1> DEFINE order == InOrder(I, before)
<1>9. /\ order = [p \in 1..n |-> order[p]]
      /\ \A p \in 1..n : order[p] \in I /\ Cardinality(pred[order[p]]) = p - 1
  <2> DEFINE P(i) == Cardinality({j \in I : <<j, i>> \in before})
  <2>1. \A i \in I : P(i) = Cardinality(pred[i])
    BY <1>p
  <2>2. order = [p \in 1..n |-> CHOOSE i \in I : P(i) = p - 1]
    BY DEF InOrder
  <2> HIDE DEF order, P
  <2>3. \A p \in 1..n : \E i \in I : P(i) = p - 1
    BY <1>8, <2>1
  <2>4. \A p \in 1..n : order[p] \in I /\ P(order[p]) = p - 1
    BY <2>2, <2>3
  <2>5. QED
    BY <2>1, <2>2, <2>4
<1> HIDE DEF order
<1>10. order \in [1..n -> I]
  BY <1>9
<1>11. \A p, q \in 1..n : order[p] = order[q] => p = q
  BY <1>0, <1>9
<1>12. ASSUME NEW i \in I PROVE \E p \in 1..n : order[p] = i
  <2>1. Cardinality(pred[i]) + 1 \in 1..n
    BY <1>0, <1>1, <1>2
  <2>2. order[Cardinality(pred[i]) + 1] \in I /\ Cardinality(pred[order[Cardinality(pred[i]) + 1]]) = Cardinality(pred[i])
    BY <1>1, <1>9, <2>1
  <2>3. QED
    BY <1>4, <2>1, <2>2
<1>13. Range(order) = I
  BY <1>10, <1>12 DEF Range
<1>14. \A p \in 1..n : Cardinality({j \in I : <<j, order[p]>> \in before}) = p - 1
  <2>1. SUFFICES ASSUME NEW p \in 1..n PROVE Cardinality({j \in I : <<j, order[p]>> \in before}) = p - 1
    OBVIOUS
  <2>2. order[p] \in I /\ Cardinality(pred[order[p]]) = p - 1
    BY <1>9
  <2>3. QED
    BY <1>p, <2>2
<1>15. QED
  BY <1>10, <1>11, <1>13, <1>14 DEF order, Permutes

LEMMA InOrderPermutes ==
  ASSUME NEW I, IsFiniteSet(I), NEW before, StrictOrder(I, before)
  PROVE  Permutes(InOrder(I, before), I)
BY InOrderRanked

\* The elements of xs at the positions I, in an order of them.
LEMMA Reordered ==
  ASSUME NEW xs, IsSeq(xs), NEW I \in SUBSET DOMAIN xs, IsFiniteSet(I), NEW order, Permutes(order, I),
         NEW ys, ys = [p \in DOMAIN order |-> xs[order[p]]]
  PROVE  /\ ys \in Seq(Range(xs)) /\ IsSeq(ys) /\ Range(ys) = {xs[i] : i \in I}
         /\ DOMAIN ys = DOMAIN order /\ \A p \in DOMAIN ys : order[p] \in I /\ ys[p] = xs[order[p]]
         /\ \A p, q \in DOMAIN ys : order[p] = order[q] => p = q
<1> DEFINE n == Cardinality(I)
<1>1. n \in Nat
  BY FS_CardinalityType
<1>2. DOMAIN order = 1..n /\ (\A p \in 1..n : order[p] \in I) /\ \A i \in I : \E p \in 1..n : order[p] = i
  BY DEF Permutes, Range
<1>3. ys \in [1..n -> Range(xs)]
  BY <1>2 DEF Range
<1>4. ys \in Seq(Range(xs))
  BY <1>1, <1>3
<1>5. Range(ys) = {xs[i] : i \in I}
  <2>1. Range(ys) \subseteq {xs[i] : i \in I}
    BY <1>2 DEF Range
  <2>2. ASSUME NEW i \in I PROVE xs[i] \in Range(ys)
    BY <1>2 DEF Range
  <2>3. QED
    BY <2>1, <2>2
<1>6. IsSeq(ys)
  BY <1>4, SeqRange DEF IsSeq
<1>7. \A p, q \in DOMAIN ys : order[p] = order[q] => p = q
  BY <1>2 DEF Permutes
<1>8. DOMAIN ys = DOMAIN order /\ \A p \in DOMAIN ys : order[p] \in I /\ ys[p] = xs[order[p]]
  BY <1>2
<1>9. QED
  BY <1>4, <1>5, <1>6, <1>7, <1>8

LEMMA DomainOfSeq ==
  ASSUME NEW s, IsSeq(s)
  PROVE  Len(s) \in Nat /\ DOMAIN s = 1..Len(s) /\ IsFiniteSet(DOMAIN s)
<1>1. Len(s) \in Nat /\ DOMAIN s = 1..Len(s)
  BY DEF IsSeq
<1>2. QED
  BY <1>1, FS_Interval

\* Neighbors returns each edge of these kinds from id, and no edge twice.
LEMMA NeighborsOnce ==
  ASSUME NEW g, IsGraph(g), NEW id, NEW kinds
  PROVE  LET es == Neighbors(g, id, kinds)
         IN  /\ es \in Seq(Range(g.edges)) /\ IsSeq(es)
             /\ Range(es) = {e \in Range(g.edges) : e.from = id /\ e.kind \in kinds}
             /\ \A i, j \in DOMAIN es : es[i] = es[j] => i = j
<1> DEFINE ids == {i \in DOMAIN g.edges : g.edges[i].from = id /\ g.edges[i].kind \in kinds}
           pos(i) == g.edges[i].pos
           before == {p \in ids \X ids : pos(p[1]) < pos(p[2]) \/ (pos(p[1]) = pos(p[2]) /\ p[1] < p[2])}
           order == InOrder(ids, before)
           es == [i \in DOMAIN order |-> g.edges[order[i]]]
<1>1. /\ IsSeq(g.edges) /\ Len(g.edges) \in Nat /\ DOMAIN g.edges = 1..Len(g.edges)
      /\ ids \in SUBSET DOMAIN g.edges /\ IsFiniteSet(ids)
  BY DomainOfSeq, FS_Subset DEF IsGraph
<1>2. \A i \in ids : i \in Nat /\ pos(i) \in Int
  BY <1>1 DEF IsGraph, Range
<1>3. Neighbors(g, id, kinds) = es
  BY DEF Neighbors, InCallOrder
<1>4. \A i, j \in ids : g.edges[i] = g.edges[j] => i = j
  BY <1>1 DEF IsGraph, SameEdge
<1>5. {g.edges[i] : i \in ids} = {e \in Range(g.edges) : e.from = id /\ e.kind \in kinds}
  BY DEF Range
<1> HIDE DEF ids
<1>6. StrictOrder(ids, before)
  <2>1. \A i, j \in ids : <<i, j>> \in before <=> pos(i) < pos(j) \/ (pos(i) = pos(j) /\ i < j)
    OBVIOUS
  <2> HIDE DEF before
  <2>2. QED
    BY <1>2, <2>1 DEF StrictOrder
<1> HIDE DEF before
<1>7. Permutes(order, ids)
  BY <1>1, <1>6, InOrderPermutes
<1> HIDE DEF order
<1>e. es = [p \in DOMAIN order |-> g.edges[order[p]]]
  OBVIOUS
<1> HIDE DEF es
<1>8. /\ es \in Seq(Range(g.edges)) /\ IsSeq(es) /\ Range(es) = {g.edges[i] : i \in ids}
      /\ \A p \in DOMAIN es : order[p] \in ids /\ es[p] = g.edges[order[p]]
      /\ \A p, q \in DOMAIN es : order[p] = order[q] => p = q
  <2>1. PICK xs : xs = g.edges
    OBVIOUS
  <2>2. IsSeq(xs) /\ ids \in SUBSET DOMAIN xs /\ es = [p \in DOMAIN order |-> xs[order[p]]]
    BY <1>1, <1>e, <2>1
  <2>3. /\ es \in Seq(Range(xs)) /\ IsSeq(es) /\ Range(es) = {xs[i] : i \in ids}
        /\ \A p \in DOMAIN es : order[p] \in ids /\ es[p] = xs[order[p]]
        /\ \A p, q \in DOMAIN es : order[p] = order[q] => p = q
    BY <1>1, <1>7, <2>2, Reordered
  <2>4. QED
    BY <2>1, <2>3
<1>9. \A p, q \in DOMAIN es : es[p] = es[q] => p = q
  BY <1>4, <1>8
<1>10. QED
  BY <1>3, <1>5, <1>8, <1>9

\* groupParallel loses no child and shows none twice.
LEMMA GroupParallelPermutes ==
  ASSUME NEW children, IsSeq(children), \A i \in DOMAIN children : children[i].edge.branch \in Int
  PROVE  LET grouped == GroupParallel(children)
         IN  /\ IsSeq(grouped) /\ Range(grouped) = Range(children)
             /\ \E order : /\ \A p \in DOMAIN grouped : order[p] \in DOMAIN children /\ grouped[p] = children[order[p]]
                           /\ \A p, q \in DOMAIN grouped : order[p] = order[q] => p = q
<1> DEFINE D == DOMAIN children
           group(i) == children[i].edge.group
           branch(i) == children[i].edge.branch
           others(i) == {j \in D : group(i) # NoGroup /\ group(j) = group(i)}
           first(i) == Min({i} \cup others(i))
           inBranch(i, j) == branch(i) < branch(j) \/ (branch(i) = branch(j) /\ i < j)
           before == {p \in D \X D :
                       \/ first(p[1]) < first(p[2])
                       \/ first(p[1]) = first(p[2]) /\ inBranch(p[1], p[2])}
           order == InOrder(D, before)
           grouped == [i \in DOMAIN order |-> children[order[i]]]
<1>1. Len(children) \in Nat /\ D = 1..Len(children) /\ IsFiniteSet(D)
  BY DomainOfSeq
<1>2. ASSUME NEW i \in D PROVE first(i) \in Nat
  <2>1. {i} \cup others(i) \in SUBSET Nat /\ {i} \cup others(i) # {}
    BY <1>1
  <2> HIDE DEF others
  <2>2. \E m \in {i} \cup others(i) : \A n \in {i} \cup others(i) : m <= n
    BY <2>1, Least
  <2>3. first(i) \in {i} \cup others(i)
    BY <2>2 DEF Min
  <2>4. QED
    BY <2>1, <2>3
<1>3. GroupParallel(children) = grouped
  BY DEF GroupParallel
<1> HIDE DEF first
<1>4. StrictOrder(D, before)
  <2>1. \A i, j \in D : <<i, j>> \in before <=> first(i) < first(j) \/ (first(i) = first(j) /\ inBranch(i, j))
    OBVIOUS
  <2>2. \A i \in D : i \in Nat /\ first(i) \in Nat /\ branch(i) \in Int
    BY <1>1, <1>2
  <2> HIDE DEF before, branch
  <2>3. QED
    BY <2>1, <2>2 DEF StrictOrder
<1> HIDE DEF before
<1>5. Permutes(order, D)
  BY <1>1, <1>4, InOrderPermutes
<1> HIDE DEF order
<1>g. grouped = [p \in DOMAIN order |-> children[order[p]]]
  OBVIOUS
<1> HIDE DEF grouped
<1>6. /\ IsSeq(grouped) /\ Range(grouped) = {children[i] : i \in D}
      /\ \A p \in DOMAIN grouped : order[p] \in D /\ grouped[p] = children[order[p]]
      /\ \A p, q \in DOMAIN grouped : order[p] = order[q] => p = q
  BY <1>1, <1>5, <1>g, Reordered
<1>7. {children[i] : i \in D} = Range(children)
  BY DEF Range
<1>8. QED
  BY <1>3, <1>6, <1>7

-----------------------------------------------------------------------------
\* Writing an edge to a graph leaves it one without dangling edges or the same
\* edge twice (Writer.AddEdge, insertEdgeSQL).
THEOREM EdgesStayUnique ==
  ASSUME NEW g, IsGraph(g), g = [nodes |-> g.nodes, edges |-> g.edges, ok |-> g.ok],
         NEW e, e.pos \in Int, e.branch \in Int
  PROVE  IsGraph(AddEdge(g, e))
<1>1. PICK ns, es, k, h : ns = g.nodes /\ es = g.edges /\ k = g.ok /\ h = AddEdge(g, e)
  OBVIOUS
<1>2. IsSeq(es)
  BY <1>1 DEF IsGraph
<1>3. ASSUME {e.from, e.to} \subseteq DOMAIN ns, e.kind \in EdgeKinds, \A i \in DOMAIN es : ~SameEdge(es[i], e),
             NEW fs, fs = Append(es, e), h = [nodes |-> ns, edges |-> fs, ok |-> k]
      PROVE  IsGraph(h)
  <2>1. IsSeq(fs) /\ Range(fs) = Range(es) \cup {e}
    BY <1>2, <1>3, RangeAppend
  <2>2. /\ Len(es) \in Nat /\ DOMAIN es = 1..Len(es) /\ DOMAIN fs = 1..(Len(es)+1) /\ fs[Len(es)+1] = e
        /\ \A i \in 1..Len(es) : fs[i] = es[i]
    <3>1. PICK S : S = Range(es) \cup {e}
      OBVIOUS
    <3>2. es \in Seq(S) /\ e \in S
      BY <1>2, <3>1 DEF IsSeq
    <3>3. QED
      BY <1>3, <3>2
  <2>3. ASSUME NEW i \in DOMAIN fs, NEW j \in DOMAIN fs, SameEdge(fs[i], fs[j]) PROVE i = j
    <3>1. \A l \in DOMAIN fs : l \in 1..Len(es) \/ l = Len(es) + 1
      BY <2>2
    <3>2. \A l \in 1..Len(es) : ~SameEdge(fs[l], e) /\ ~SameEdge(e, fs[l])
      BY <1>3, <2>2 DEF SameEdge
    <3>3. \A l, m \in 1..Len(es) : SameEdge(fs[l], fs[m]) => l = m
      BY <1>1, <2>2 DEF IsGraph
    <3>4. QED
      BY <2>2, <2>3, <3>1, <3>2, <3>3
  <2>4. h.nodes = ns /\ h.edges = fs
    BY <1>3
  <2>5. QED
    BY <1>1, <1>3, <2>1, <2>3, <2>4 DEF IsGraph
<1>4. CASE ~k
  BY <1>1, <1>4 DEF AddEdge
<1>5. CASE k /\ (e.kind \notin EdgeKinds \/ ~{e.from, e.to} \subseteq DOMAIN ns)
  <2>1. h = [g EXCEPT !.ok = FALSE]
    BY <1>1, <1>5 DEF AddEdge, Failed
  <2>2. h.nodes = g.nodes /\ h.edges = g.edges
    BY <2>1
  <2>3. QED
    BY <1>1, <2>2 DEF IsGraph
<1>6. CASE k /\ e.kind \in EdgeKinds /\ {e.from, e.to} \subseteq DOMAIN ns
  <2>1. CASE \E i \in DOMAIN es : SameEdge(es[i], e)
    BY <1>1, <1>6, <2>1 DEF AddEdge
  <2>2. CASE ~\E i \in DOMAIN es : SameEdge(es[i], e)
    <3>1. PICK fs : fs = Append(es, e)
      OBVIOUS
    <3>2. h = [g EXCEPT !.edges = fs]
      BY <1>1, <1>6, <2>2, <3>1 DEF AddEdge
    <3>3. h = [nodes |-> ns, edges |-> fs, ok |-> k]
      BY <1>1, <3>2
    <3>4. QED
      BY <1>1, <1>3, <1>6, <2>2, <3>1, <3>3
  <2>3. QED
    BY <2>1, <2>2
<1>7. QED
  BY <1>4, <1>5, <1>6

-----------------------------------------------------------------------------
\* Levels of a flow.  The function that Level takes them from is built from
\* those that are defined for the first n only.
Kids(S) == UNION {Range(s.children) : s \in S}

FirstLevels(g, root, n) ==
  /\ DOMAIN g = 0..n /\ g[0] = {root}
  /\ \A i \in 0..n : i < n => g[i+1] = Kids(g[i])

LEMMA FirstLevelsExist ==
  ASSUME NEW root
  PROVE  \A n \in Nat : \E g : FirstLevels(g, root, n)
<1> DEFINE T == {n \in Nat : \E g : FirstLevels(g, root, n)}
<1>1. 0 \in T
  <2>1. FirstLevels([i \in 0..0 |-> {root}], root, 0)
    BY DEF FirstLevels
  <2>2. QED
    BY <2>1
<1>2. ASSUME NEW n \in T PROVE n + 1 \in T
  <2>1. n \in Nat
    OBVIOUS
  <2>2. PICK g : FirstLevels(g, root, n)
    OBVIOUS
  <2>3. PICK K : K = Kids(g[n])
    OBVIOUS
  <2> DEFINE h == [i \in 0..(n + 1) |-> IF i = n + 1 THEN K ELSE g[i]]
  <2>4. DOMAIN h = 0..(n + 1) /\ h[0] = {root} /\ h[n+1] = K /\ \A i \in 0..n : h[i] = g[i]
    BY <2>1, <2>2 DEF FirstLevels
  <2> HIDE DEF h
  <2>5. ASSUME NEW i \in 0..(n + 1), i < n + 1 PROVE h[i+1] = Kids(h[i])
    <3>1. i \in 0..n /\ h[i] = g[i]
      BY <2>1, <2>4, <2>5
    <3>2. CASE i = n
      BY <2>3, <2>4, <3>1, <3>2
    <3>3. CASE i < n
      <4>1. i + 1 \in 0..n /\ g[i+1] = Kids(g[i])
        BY <2>1, <2>2, <3>1, <3>3 DEF FirstLevels
      <4>2. QED
        BY <2>4, <3>1, <4>1
    <3>4. QED
      BY <2>1, <3>1, <3>2, <3>3
  <2>6. FirstLevels(h, root, n + 1)
    BY <2>4, <2>5 DEF FirstLevels
  <2>7. QED
    BY <2>1, <2>6
<1> HIDE DEF T
<1>3. T = Nat
  <2>1. T \in SUBSET Nat
    BY DEF T
  <2>2. QED
    BY <1>1, <1>2, <2>1, Induction
<1>4. QED
  BY <1>3 DEF T

LEMMA FirstLevelsAgree ==
  ASSUME NEW root, NEW m \in Nat, NEW n \in Nat, m <= n,
         NEW g, FirstLevels(g, root, m), NEW h, FirstLevels(h, root, n)
  PROVE  g[m] = h[m]
<1> DEFINE T == {i \in Nat : i <= m => g[i] = h[i]}
<1>1. 0 \in T
  BY DEF FirstLevels
<1>2. ASSUME NEW i \in T PROVE i + 1 \in T
  <2>1. i \in Nat /\ (i <= m => g[i] = h[i])
    OBVIOUS
  <2>2. ASSUME i + 1 <= m PROVE g[i+1] = h[i+1]
    <3>1. i \in 0..m /\ i < m /\ i \in 0..n /\ i < n /\ g[i] = h[i]
      BY <2>1, <2>2
    <3>2. g[i+1] = Kids(g[i]) /\ h[i+1] = Kids(h[i])
      BY <3>1 DEF FirstLevels
    <3>3. QED
      BY <3>1, <3>2
  <2>3. QED
    BY <2>1, <2>2
<1> HIDE DEF T
<1>3. T = Nat
  <2>1. T \in SUBSET Nat
    BY DEF T
  <2>2. QED
    BY <1>1, <1>2, <2>1, Induction
<1>4. QED
  BY <1>3 DEF T

LEMMA LevelSteps ==
  ASSUME NEW root
  PROVE  Level(root, 0) = {root} /\ \A n \in Nat : Level(root, n + 1) = Kids(Level(root, n))
<1> DEFINE G(n) == CHOOSE g : FirstLevels(g, root, n)
           f == [n \in Nat |-> G(n)[n]]
<1>1. \A n \in Nat : FirstLevels(G(n), root, n)
  BY FirstLevelsExist
<1> HIDE DEF G
<1>2. f[0] = {root} /\ DOMAIN f = Nat /\ \A n \in Nat : f[n] = G(n)[n]
  BY <1>1 DEF FirstLevels
<1>3. ASSUME NEW n \in Nat PROVE f[n+1] = Kids(f[n])
  <2>1. G(n)[n] = G(n+1)[n]
    BY <1>1, FirstLevelsAgree
  <2>2. G(n+1)[n+1] = Kids(G(n+1)[n])
    BY <1>1 DEF FirstLevels
  <2>3. QED
    BY <1>2, <2>1, <2>2
<1> HIDE DEF f
<1>4. f = [m \in Nat |-> IF m = 0 THEN {root} ELSE UNION {Range(s.children) : s \in f[m-1]}]
  <2>1. \A m \in Nat : m # 0 => f[m] = Kids(f[m-1])
    <3>1. SUFFICES ASSUME NEW m \in Nat, m # 0 PROVE f[m] = Kids(f[m-1])
      OBVIOUS
    <3>2. m - 1 \in Nat /\ (m - 1) + 1 = m
      BY <3>1
    <3>3. QED
      BY <1>3, <3>2
  <2>2. f = [m \in Nat |-> f[m]]
    BY DEF f
  <2>3. f = [m \in Nat |-> IF m = 0 THEN {root} ELSE Kids(f[m-1])]
    BY <1>2, <2>1, <2>2
  <2>4. QED
    BY <2>3 DEF Kids
<1> DEFINE level[m \in Nat] == IF m = 0 THEN {root} ELSE UNION {Range(s.children) : s \in level[m-1]}
<1>5. level = [m \in Nat |-> IF m = 0 THEN {root} ELSE UNION {Range(s.children) : s \in level[m-1]}]
  BY <1>4
<1>6. \A n : Level(root, n) = level[n]
  BY DEF Level
<1> HIDE DEF level
<1>7. level[0] = {root}
  BY <1>5
<1>8. ASSUME NEW n \in Nat PROVE level[n+1] = Kids(level[n])
  <2>1. n + 1 \in Nat /\ n + 1 # 0 /\ (n + 1) - 1 = n
    OBVIOUS
  <2>2. level[n+1] = UNION {Range(s.children) : s \in level[(n+1)-1]}
    BY <1>5, <2>1
  <2>3. QED
    BY <2>1, <2>2 DEF Kids
<1>9. QED
  BY <1>6, <1>7, <1>8

LEMMA LevelUnder ==
  ASSUME NEW s
  PROVE  \A n \in Nat : Level(s, n + 1) = UNION {Level(c, n) : c \in Range(s.children)}
<1> DEFINE C == Range(s.children)
           T == {n \in Nat : Level(s, n + 1) = UNION {Level(c, n) : c \in C}}
<1>1. 0 \in T
  <2>1. Level(s, 0 + 1) = C
    <3>1. Level(s, 0) = {s} /\ Level(s, 0 + 1) = Kids(Level(s, 0))
      BY LevelSteps
    <3>2. Kids({s}) = C
      BY DEF Kids
    <3>3. QED
      BY <3>1, <3>2
  <2>2. \A c \in C : Level(c, 0) = {c}
    BY LevelSteps
  <2>3. UNION {Level(c, 0) : c \in C} = C
    BY <2>2
  <2>4. QED
    BY <2>1, <2>3
<1>2. ASSUME NEW n \in T PROVE n + 1 \in T
  <2>1. n \in Nat /\ Level(s, n + 1) = UNION {Level(c, n) : c \in C}
    OBVIOUS
  <2>2. Level(s, (n + 1) + 1) = Kids(Level(s, n + 1))
    <3>1. n + 1 \in Nat
      BY <2>1
    <3>2. QED
      BY <3>1, LevelSteps
  <2>3. \A c \in C : Level(c, n + 1) = Kids(Level(c, n))
    BY <2>1, LevelSteps
  <2>4. Kids(UNION {Level(c, n) : c \in C}) = UNION {Kids(Level(c, n)) : c \in C}
    BY DEF Kids
  <2>5. UNION {Kids(Level(c, n)) : c \in C} = UNION {Level(c, n + 1) : c \in C}
    BY <2>3
  <2>6. QED
    BY <2>1, <2>2, <2>4, <2>5
<1> HIDE DEF T
<1>3. T = Nat
  <2>1. T \in SUBSET Nat
    BY DEF T
  <2>2. QED
    BY <1>1, <1>2, <2>1, Induction
<1>4. QED
  BY <1>3 DEF T

\* Below the last level there are no steps.
LEMMA LevelsEnd ==
  ASSUME NEW s, NEW n \in Nat, Within(s, n)
  PROVE  \A m \in Nat : m > n => Level(s, m) = {} /\ Within(s, m)
<1> DEFINE T == {m \in Nat : m > n => Level(s, m) = {}}
<1>1. 0 \in T
  OBVIOUS
<1>2. ASSUME NEW m \in T PROVE m + 1 \in T
  <2>1. Level(s, m + 1) = Kids(Level(s, m))
    BY LevelSteps
  <2>2. CASE m > n
    BY <2>1, <2>2 DEF Kids
  <2>3. CASE m = n
    BY <2>3 DEF Within
  <2>4. QED
    BY <2>2, <2>3
<1> HIDE DEF T
<1>3. T = Nat
  <2>1. T \in SUBSET Nat
    BY DEF T
  <2>2. QED
    BY <1>1, <1>2, <2>1, Induction
<1>4. QED
  BY <1>3 DEF T, Within

DepthOK == opts.maxDepth \in Nat

\* A flow's steps are its root and those of its children, unless it is too
\* high for StepsUnder.
LEMMA Under ==
  ASSUME DepthOK, NEW s, NEW h \in Nat, h <= opts.maxDepth, \A c \in Range(s.children) : Within(c, h)
  PROVE  Within(s, h + 1) /\ StepsUnder(s) = {s} \cup UNION {StepsUnder(c) : c \in Range(s.children)}
<1> DEFINE C == Range(s.children)
           N1 == opts.maxDepth + 1
<1>0. opts.maxDepth \in Nat /\ N1 \in Nat /\ h < N1
  BY DEF DepthOK
<1>1. \A n \in Nat : Level(s, n + 1) = UNION {Level(c, n) : c \in C}
  BY LevelUnder
<1>2. Within(s, h + 1)
  <2>1. Level(s, (h + 1) + 1) = UNION {Level(c, h + 1) : c \in C}
    BY <1>1
  <2>2. QED
    BY <2>1 DEF Within
<1>3. \A c \in C : Level(c, N1) = {}
  BY <1>0, LevelsEnd
<1>4. Level(s, 0) = {s}
  BY LevelSteps
<1>5. ASSUME NEW t \in StepsUnder(s) PROVE t = s \/ \E c \in C : t \in StepsUnder(c)
  <2>1. PICK n \in 0..N1 : t \in Level(s, n)
    BY DEF StepsUnder
  <2>2. CASE n = 0
    BY <1>4, <2>1, <2>2
  <2>3. CASE n # 0
    <3>1. n - 1 \in 0..N1 /\ n - 1 \in Nat /\ (n - 1) + 1 = n
      BY <1>0, <2>3
    <3>2. PICK c \in C : t \in Level(c, n - 1)
      BY <1>1, <2>1, <3>1
    <3>3. QED
      BY <3>1, <3>2 DEF StepsUnder
  <2>4. QED
    BY <2>2, <2>3
<1>6. ASSUME NEW c \in C, NEW t \in StepsUnder(c) PROVE t \in StepsUnder(s)
  <2>1. PICK n \in 0..N1 : t \in Level(c, n)
    BY DEF StepsUnder
  <2>2. n # N1
    BY <1>3, <2>1
  <2>3. n \in Nat /\ n + 1 \in 0..N1
    BY <1>0, <2>2
  <2>4. t \in Level(s, n + 1)
    BY <1>1, <2>1, <2>3
  <2>5. QED
    BY <2>3, <2>4 DEF StepsUnder
<1>7. s \in StepsUnder(s)
  BY <1>0, <1>4 DEF StepsUnder
<1>8. QED
  BY <1>2, <1>5, <1>6, <1>7

LEMMA Leaf ==
  ASSUME DepthOK, NEW s, s.children = <<>>
  PROVE  Within(s, 0) /\ StepsUnder(s) = {s}
<1>1. Range(s.children) = {}
  BY DEF Range
<1>2. Level(s, 0 + 1) = {}
  BY <1>1, LevelUnder
<1>3. StepsUnder(s) = {s}
  <2>1. 0 <= opts.maxDepth /\ \A c \in Range(s.children) : Within(c, 0)
    BY <1>1 DEF DepthOK
  <2>2. StepsUnder(s) = {s} \cup UNION {StepsUnder(c) : c \in Range(s.children)}
    BY <2>1, Under
  <2>3. QED
    BY <1>1, <2>2
<1>4. QED
  BY <1>2, <1>3 DEF Within

\* Only the root of a flow changes.
LEMMA SameChildren ==
  ASSUME DepthOK, NEW s, NEW t, t.children = s.children, NEW h \in Nat, Within(s, h), h <= opts.maxDepth + 1
  PROVE  /\ Within(t, h)
         /\ StepsUnder(t) \subseteq {t} \cup StepsUnder(s) /\ StepsUnder(s) \subseteq {s} \cup StepsUnder(t)
         /\ s \in StepsUnder(s) /\ t \in StepsUnder(t)
<1>1. \A n \in Nat : Level(s, n + 1) = Level(t, n + 1)
  BY LevelUnder
<1>2. Level(s, 0) = {s} /\ Level(t, 0) = {t}
  BY LevelSteps
<1>3. \A n \in Nat : n # 0 => Level(s, n) = Level(t, n)
  <2>1. SUFFICES ASSUME NEW n \in Nat, n # 0 PROVE Level(s, n) = Level(t, n)
    OBVIOUS
  <2>2. n - 1 \in Nat /\ (n - 1) + 1 = n
    BY <2>1
  <2>3. QED
    BY <1>1, <2>2
<1>4. Within(t, h)
  BY <1>1 DEF Within
<1>5. \A n \in 0..(opts.maxDepth + 1) : Level(t, n) \subseteq {t} \cup Level(s, n) /\ Level(s, n) \subseteq {s} \cup Level(t, n)
  BY <1>2, <1>3
<1>6. 0 \in 0..(opts.maxDepth + 1)
  BY DEF DepthOK
<1>7. QED
  BY <1>2, <1>4, <1>5, <1>6 DEF StepsUnder

-----------------------------------------------------------------------------
\* The graph.
GraphOK == IsGraph(graph) /\ IsOptions(graph, opts)

Succ == [x \in DOMAIN graph.nodes |-> {e.to : e \in Followed(x)}]

LEMMA FollowedEdges ==
  ASSUME GraphOK, NEW n
  PROVE  /\ Followed(n) \subseteq Range(graph.edges) /\ IsFiniteSet(Range(graph.edges))
         /\ \A e \in Range(graph.edges) : e.from \in DOMAIN graph.nodes /\ e.to \in DOMAIN graph.nodes
         /\ \A e \in Followed(n) : e.from = n
<1>1. \A e \in Followed(n) : e \in Range(graph.edges) /\ e.from = n
  BY DEF Followed
<1>2. \A e \in Range(graph.edges) : e.from \in DOMAIN graph.nodes /\ e.to \in DOMAIN graph.nodes
  BY DEF GraphOK, IsGraph
<1>3. PICK es : es = graph.edges
  OBVIOUS
<1>4. IsSeq(es)
  BY <1>3 DEF GraphOK, IsGraph
<1>5. IsFiniteSet(DOMAIN es)
  BY <1>4, DomainOfSeq
<1>6. es \in Surjection(DOMAIN es, Range(es))
  BY <1>4 DEF Surjection, Range, IsSeq
<1>7. IsFiniteSet(Range(es))
  BY <1>5, <1>6, FS_Surjection
<1>8. QED
  BY <1>1, <1>2, <1>3, <1>7

LEMMA SuccLeads ==
  ASSUME GraphOK
  PROVE  Leads(Succ) /\ DOMAIN Succ = DOMAIN graph.nodes /\ \A n : ReachableFrom(n) = Closure({n}, Succ)
<1>1. DOMAIN Succ = DOMAIN graph.nodes
  BY DEF Succ
<1>2. IsFiniteSet(DOMAIN Succ)
  BY <1>1 DEF GraphOK, IsGraph
<1>3. \A x \in DOMAIN graph.nodes : Succ[x] = {e.to : e \in Followed(x)}
  BY DEF Succ
<1>4. \A x \in DOMAIN graph.nodes : Succ[x] \subseteq DOMAIN graph.nodes
  BY <1>3, FollowedEdges
<1>5. \A n : ReachableFrom(n) = Closure({n}, Succ)
  BY DEF ReachableFrom, Succ
<1>6. QED
  BY <1>1, <1>2, <1>4, <1>5 DEF Leads

LEMMA ReachableSteps ==
  ASSUME GraphOK, NEW n \in DOMAIN graph.nodes
  PROVE  /\ n \in ReachableFrom(n) /\ ReachableFrom(n) \subseteq DOMAIN graph.nodes
         /\ \A b \in ReachableFrom(n) : \A e \in Followed(b) : e.to \in ReachableFrom(n)
         /\ \A V : n \in V /\ (\A b \in V \cap DOMAIN graph.nodes : \A e \in Followed(b) : e.to \in V)
                     => ReachableFrom(n) \subseteq V
<1>1. Leads(Succ) /\ DOMAIN Succ = DOMAIN graph.nodes /\ ReachableFrom(n) = Closure({n}, Succ)
  BY SuccLeads
<1>2. \A x \in DOMAIN graph.nodes : Succ[x] = {e.to : e \in Followed(x)}
  BY DEF Succ
<1>3. {n} \in SUBSET DOMAIN Succ
  BY <1>1
<1>4. PICK f : f = Succ
  OBVIOUS
<1>5. {n} \subseteq Closure({n}, f) /\ Closure({n}, f) \subseteq DOMAIN f
  BY <1>1, <1>3, <1>4, ClosureStarts
<1>6. \A b \in Closure({n}, f) : f[b] \subseteq Closure({n}, f)
  BY <1>1, <1>3, <1>4, ClosureClosed
<1>7. ASSUME NEW V, n \in V, \A b \in V \cap DOMAIN graph.nodes : \A e \in Followed(b) : e.to \in V
      PROVE  ReachableFrom(n) \subseteq V
  <2>1. \A b \in V \cap DOMAIN f : f[b] \subseteq V
    BY <1>1, <1>2, <1>4, <1>7
  <2>2. {n} \subseteq V
    BY <1>7
  <2>3. Closure({n}, f) \subseteq V
    BY <1>1, <1>3, <1>4, <2>1, <2>2, ClosureLeast
  <2>4. QED
    BY <1>1, <1>4, <2>3
<1>8. ASSUME NEW b \in ReachableFrom(n), NEW e \in Followed(b) PROVE e.to \in ReachableFrom(n)
  <2>1. b \in Closure({n}, f) /\ b \in DOMAIN graph.nodes
    BY <1>1, <1>4, <1>5
  <2>2. e.to \in Succ[b] /\ Succ[b] \subseteq Closure({n}, f)
    BY <1>2, <1>4, <1>6, <2>1
  <2>3. QED
    BY <1>1, <1>4, <2>2
<1>9. QED
  BY <1>1, <1>4, <1>5, <1>7, <1>8

LEMMA LeadsBack ==
  ASSUME GraphOK, NEW n \in DOMAIN graph.nodes, NEW e \in Followed(n), LeadsToSink(e.to)
  PROVE  LeadsToSink(n)
<1>1. e.to \in DOMAIN graph.nodes
  BY FollowedEdges
<1>2. e.to \in ReachableFrom(n)
  BY ReachableSteps
<1>3. ReachableFrom(e.to) \subseteq ReachableFrom(n)
  BY <1>1, <1>2, ReachableSteps
<1>4. QED
  BY <1>3 DEF LeadsToSink

LEMMA SinkLeads ==
  ASSUME GraphOK, NEW n \in DOMAIN graph.nodes, IsSink(n)
  PROVE  LeadsToSink(n)
BY ReachableSteps DEF LeadsToSink

\* What only depends on the graph and the options.
Same == graph' = graph /\ opts' = opts

LEMMA Stays ==
  ASSUME Same, NEW n
  PROVE  /\ Followed(n)' = Followed(n) /\ IsSink(n)' = IsSink(n) /\ External(n)' = External(n)
         /\ Kind(n)' = Kind(n) /\ Runs(n)' = Runs(n) /\ GraphOK' = GraphOK /\ DepthOK' = DepthOK
         /\ LeadsToSink(n)' = LeadsToSink(n) /\ Kept(n)' = Kept(n) /\ Counted(n)' = Counted(n)
         /\ IsStep(n)' = IsStep(n) /\ StepsUnder(n)' = StepsUnder(n)
<1>1. graph' = graph /\ opts' = opts
  BY DEF Same
<1>2. ASSUME NEW x PROVE IsSink(x)' = IsSink(x) /\ External(x)' = External(x) /\ Kind(x)' = Kind(x) /\ Runs(x)' = Runs(x)
  BY <1>1 DEF IsSink, External, Kind, Runs
<1>3. ASSUME NEW x PROVE Followed(x)' = Followed(x)
  BY <1>1, <1>2 DEF Followed
<1>4. ASSUME NEW x PROVE ReachableFrom(x)' = ReachableFrom(x)
  BY <1>1, <1>3 DEF ReachableFrom
<1>5. ASSUME NEW x PROVE LeadsToSink(x)' = LeadsToSink(x)
  BY <1>2, <1>4 DEF LeadsToSink
<1>6. Kept(n)' = Kept(n)
  BY <1>5 DEF Kept
<1>7. Counted(n)' = Counted(n)
  BY <1>2, <1>3 DEF Counted, CallsTo
<1>8. IsStep(n)' = IsStep(n) /\ StepsUnder(n)' = StepsUnder(n)
  BY <1>1 DEF IsStep, StepsUnder
<1>9. GraphOK' = GraphOK /\ DepthOK' = DepthOK
  BY <1>1 DEF GraphOK, DepthOK
<1>10. QED
  BY <1>2, <1>3, <1>5, <1>6, <1>7, <1>8, <1>9

\* A step that has under it what another of its node and mark has.
Covers(t, s) ==
  /\ t.node = s.node /\ t.mark = s.mark
  /\ \A c \in Range(s.children) : \E r \in Range(t.children) : r.node = c.node /\ r.edge = c.edge

LEMMA CoversSink ==
  ASSUME Same, NEW t, NEW s
  PROVE  /\ Covers(s, s)
         /\ \A n : ShowsSink(s, n)' = ShowsSink(s, n)
         /\ Covers(t, s) => \A n : ShowsSink(s, n) => ShowsSink(t, n)
<1>1. Covers(s, s)
  BY DEF Covers
<1>2. \A n : ShowsSink(s, n)' = ShowsSink(s, n)
  BY DEF ShowsSink, Same
<1>3. ASSUME Covers(t, s), NEW n, ShowsSink(s, n) PROVE ShowsSink(t, n)
  <2>1. t.node = n
    BY <1>3 DEF ShowsSink, Covers
  <2>2. ASSUME NEW q \in Range(graph.edges), q.from = n, q.kind = "queries"
        PROVE  \E r \in Range(t.children) : r.node = q.to /\ r.edge = q
    <3>1. PICK c \in Range(s.children) : c.node = q.to /\ c.edge = q
      BY <1>3, <2>2 DEF ShowsSink
    <3>2. QED
      BY <1>3, <3>1 DEF Covers
  <2>3. QED
    BY <2>1, <2>2 DEF ShowsSink
<1>4. QED
  BY <1>1, <1>2, <1>3

-----------------------------------------------------------------------------
\* Frames.
LEMMA TypeGivesGraph == FlowTypeOK => GraphOK /\ DepthOK
BY DEF FlowTypeOK, GraphOK, DepthOK, IsOptions

\* The nodes that were expanded and lead nowhere.
Lost == expanded \ (leads \cup Path(1))

LEMMA ChildStays ==
  ASSUME Same, expanded \subseteq expanded', leads \subseteq leads', NEW c, NEW depth, ChildOK(c, depth)
  PROVE  ChildOK(c, depth)'
<1>1. graph' = graph /\ opts' = opts
  BY DEF Same
<1>2. /\ c.edge \in Range(graph.edges) /\ Within(c, opts.maxDepth - depth + 1)
      /\ \A s \in StepsUnder(c) : IsStep(s) /\ Counted(s) /\ RefKnown(s) /\ (opts.prune = "sinks" => Kept(s))
  BY DEF ChildOK
<1>3. StepsUnder(c)' = StepsUnder(c)
  BY Stays
<1>4. ASSUME NEW s \in StepsUnder(c)
      PROVE  IsStep(s)' /\ Counted(s)' /\ RefKnown(s)' /\ (opts.prune = "sinks" => Kept(s)')
  <2>1. IsStep(s)' /\ Counted(s)' /\ (opts.prune = "sinks" => Kept(s)')
    BY <1>2, Stays
  <2>2. RefKnown(s)'
    BY <1>1, <1>2 DEF RefKnown
  <2>3. QED
    BY <2>1, <2>2
<1>5. QED
  BY <1>1, <1>2, <1>3, <1>4 DEF ChildOK

\* A frame that is not worked on stays as it is.
LEMMA FrameStays ==
  ASSUME Same, expanded \subseteq expanded', leads \subseteq leads', Lost \subseteq Lost',
         NEW f, NEW depth, NEW path, FrameOK(f, depth, path)
  PROVE  FrameOK(f, depth, path)'
<1>1. graph' = graph /\ opts' = opts
  BY DEF Same
<1>2. LeftOK(f, depth)'
  BY <1>1 DEF FrameOK, LeftOK
<1>3. \A c \in Range(f.step.children) : ChildOK(c, depth)'
  BY ChildStays DEF FrameOK
<1>4. ASSUME NEW m, Dropped(m, path) PROVE Dropped(m, path)'
  <2>1. m \in expanded \ (leads \cup Path(1)) => m \in (expanded \ (leads \cup Path(1)))'
    BY DEF Lost
  <2>2. IsSink(m)' = IsSink(m) /\ External(m)' = External(m)
    BY Stays
  <2>3. QED
    BY <1>1, <1>4, <2>1, <2>2 DEF Dropped
<1>5. depth > 1 => Counts(f, path)'
  <2>1. SUFFICES ASSUME Counts(f, path) PROVE Counts(f, path)'
    BY DEF FrameOK
  <2>2. \A n : Followed(n)' = Followed(n) /\ Runs(n)' = Runs(n)
    BY Stays
  <2>3. QED
    BY <1>1, <1>4, <2>1, <2>2 DEF Counts, LeftTo, CallsTo
<1>6. SinksSeen(f)'
  <2>1. \A n : Followed(n)' = Followed(n) /\ IsSink(n)' = IsSink(n) /\ \A c : ShowsSink(c, n)' = ShowsSink(c, n)
    BY Stays, CoversSink
  <2>2. QED
    BY <2>1 DEF FrameOK, SinksSeen
<1>7. NothingLost(f)'
  <2>1. \A n : IsSink(n)' = IsSink(n)
    BY Stays
  <2>2. QED
    BY <1>1, <2>1 DEF FrameOK, NothingLost
<1>8. QED
  BY <1>2, <1>3, <1>5, <1>6, <1>7 DEF FrameOK

\* Frame b after a turn, and the innermost one.
Turn(b, ch) == [step |-> [b.step EXCEPT !.children = ch], left |-> Tail(b.left)]
Turned(ch) == Turn(Inner, ch)

\* The edges that are left, of a frame with one more.
LEMMA HeadAndTail ==
  ASSUME NEW S, NEW s \in Seq(S), s # <<>>
  PROVE  /\ Range(s) = {Head(s)} \cup Range(Tail(s)) /\ Tail(s) \in Seq(S) /\ Head(s) \in S
         /\ (\A i, j \in DOMAIN s : s[i] = s[j] => i = j)
              => /\ Head(s) \notin Range(Tail(s))
                 /\ \A i, j \in DOMAIN Tail(s) : Tail(s)[i] = Tail(s)[j] => i = j
<1>1. PICK h, t : h = Head(s) /\ t = Tail(s)
  OBVIOUS
<1>2. /\ h \in S /\ t \in Seq(S) /\ Len(s) \in Nat \ {0} /\ Len(t) = Len(s) - 1
      /\ \A i \in 1..Len(t) : t[i] = s[i+1]
  BY <1>1, HeadTailProperties, EmptySeq
<1>3. h = s[1] /\ DOMAIN s = 1..Len(s) /\ DOMAIN t = 1..Len(t)
  BY <1>1, <1>2
<1>4. Range(s) = {h} \cup Range(t)
  <2>1. ASSUME NEW i \in DOMAIN s PROVE s[i] = h \/ \E j \in DOMAIN t : t[j] = s[i]
    <3>1. CASE i = 1
      BY <1>3, <3>1
    <3>2. CASE i # 1
      <4>1. i - 1 \in DOMAIN t /\ (i - 1) + 1 = i
        BY <1>2, <1>3, <3>2
      <4>2. QED
        BY <1>2, <1>3, <4>1
    <3>3. QED
      BY <3>1, <3>2
  <2>2. ASSUME NEW j \in DOMAIN t PROVE j + 1 \in DOMAIN s /\ s[j+1] = t[j] /\ j + 1 # 1
    BY <1>2, <1>3
  <2>3. 1 \in DOMAIN s
    BY <1>2, <1>3
  <2>4. QED
    BY <1>3, <2>1, <2>2, <2>3, SMTT(60) DEF Range
<1>5. ASSUME \A i, j \in DOMAIN s : s[i] = s[j] => i = j
      PROVE  h \notin Range(t) /\ \A i, j \in DOMAIN t : t[i] = t[j] => i = j
  <2>1. \A j \in DOMAIN t : j \in Nat /\ j + 1 \in DOMAIN s /\ s[j+1] = t[j] /\ j + 1 # 1
    BY <1>2, <1>3
  <2>2. 1 \in DOMAIN s
    BY <1>2, <1>3
  <2>3. h \notin Range(t)
    BY <1>3, <1>5, <2>1, <2>2 DEF Range
  <2>4. ASSUME NEW i \in DOMAIN t, NEW j \in DOMAIN t, t[i] = t[j] PROVE i = j
    <3>1. i + 1 = j + 1
      BY <1>5, <2>1, <2>4
    <3>2. QED
      BY <2>1, <3>1
  <2>5. QED
    BY <2>3, <2>4
<1>6. QED
  BY <1>1, <1>2, <1>4, <1>5

\* What replacing the innermost frame does to the stack.
LEMMA TurnFrames ==
  ASSUME FlowTypeOK, Looking, NEW ch, NextEdge(ch)
  PROVE  /\ Len(frames) \in Nat \ {0} /\ DOMAIN frames = 1..Len(frames) /\ Inner = frames[1]
         /\ Len(frames') = Len(frames) /\ DOMAIN frames' = DOMAIN frames /\ IsSeq(frames')
         /\ frames'[1] = Turned(ch) /\ \A i \in 2..Len(frames) : frames'[i] = frames[i]
<1> DEFINE S == Range(frames)
           U == S \cup {Turned(ch)}
<1>1. frames \in Seq(S) /\ frames # <<>>
  BY DEF FlowTypeOK, IsSeq, Looking
<1>2. PICK new, rest : new = Turned(ch) /\ rest = Tail(frames)
  OBVIOUS
<1>3. frames' = <<new>> \o rest
  BY <1>2 DEF NextEdge, Turned, Turn
<1> HIDE DEF S
<1>4. Len(frames) \in Nat \ {0} /\ DOMAIN frames = 1..Len(frames)
  BY <1>1, EmptySeq
<1>5. rest \in Seq(S) /\ Len(rest) = Len(frames) - 1 /\ \A i \in 1..Len(rest) : rest[i] = frames[i+1]
  BY <1>1, <1>2, HeadTailProperties
<1>6. new \in U /\ rest \in Seq(U) /\ <<new>> \in Seq(U)
  BY <1>2, <1>5
<1> HIDE DEF U
<1>7. frames' \in Seq(U) /\ Len(frames') = 1 + Len(rest)
  BY <1>3, <1>6
<1>8. frames'[1] = new
  BY <1>3, <1>6
<1>9. ASSUME NEW i \in 2..Len(frames) PROVE frames'[i] = frames[i]
  <2>1. i - 1 \in 1..Len(rest) /\ (i - 1) + 1 = i
    BY <1>4, <1>5
  <2>2. frames'[i] = rest[i-1]
    BY <1>3, <1>6, <2>1
  <2>3. QED
    BY <1>5, <2>1, <2>2
<1>10. IsSeq(frames')
  BY <1>7, SeqRange DEF IsSeq
<1>11. Len(frames') = Len(frames) /\ DOMAIN frames' = 1..Len(frames)
  BY <1>4, <1>5, <1>7
<1>12. Inner = frames[1]
  BY <1>1, <1>4 DEF Inner
<1>13. QED
  BY <1>2, <1>4, <1>8, <1>9, <1>10, <1>11, <1>12

IsFrame(f) == IsStep(f.step) /\ f \in [step : {f.step}, left : Seq(Range(graph.edges))]

\* A step whose children are replaced.
LEMMA TurnFields ==
  ASSUME NEW b, IsFrame(b), b.left # <<>>, NEW ch, IsSeq(ch), NEW f, f = Turn(b, ch)
  PROVE  /\ IsFrame(f) /\ f.step.children = ch /\ f.left = Tail(b.left) /\ f.step.node = b.step.node
         /\ f.step.edge = b.step.edge /\ f.step.mark = b.step.mark /\ f.step.calls = b.step.calls
<1>1. PICK s, l, E0 : s = b.step /\ l = b.left /\ E0 = Range(graph.edges)
  OBVIOUS
<1>2. l \in Seq(E0) /\ l # <<>> /\ Tail(l) \in Seq(E0)
  BY <1>1, HeadTailProperties DEF IsFrame
<1>3. PICK D, G, M : /\ D = DOMAIN graph.nodes /\ G = Range(graph.edges) \cup {NoEdge}
                     /\ M = {Plain, "cycle", "ref", "cut"}
  OBVIOUS
<1>4. s \in [node : D, edge : G, mark : M, calls : Nat, children : {s.children}]
  BY <1>1, <1>3 DEF IsFrame, IsStep
<1>5. PICK t : t = [s EXCEPT !.children = ch]
  OBVIOUS
<1>6. /\ t.children = ch /\ t.node = s.node /\ t.edge = s.edge /\ t.mark = s.mark /\ t.calls = s.calls
      /\ t \in [node : D, edge : G, mark : M, calls : Nat, children : {t.children}]
  BY <1>4, <1>5
<1>7. IsStep(t)
  BY <1>3, <1>6 DEF IsStep
<1>8. f = [step |-> t, left |-> Tail(l)]
  BY <1>1, <1>5 DEF Turn
<1>9. f.step = t /\ f.left = Tail(l) /\ f \in [step : {t}, left : Seq(E0)]
  BY <1>2, <1>8
<1>10. QED
  BY <1>1, <1>6, <1>7, <1>9 DEF IsFrame

LEMMA TurnedFields ==
  ASSUME FlowTypeOK, Looking, NEW ch, IsSeq(ch), NEW f, f = Turned(ch)
  PROVE  /\ IsFrame(f) /\ f.step.children = ch /\ f.left = Tail(Inner.left) /\ f.step.node = Inner.step.node
         /\ f.step.edge = Inner.step.edge /\ f.step.mark = Inner.step.mark /\ f.step.calls = Inner.step.calls
<1>1. frames # <<>> /\ frames \in Seq(Range(frames)) /\ Inner.left # <<>>
  BY DEF Looking, FlowTypeOK, IsSeq
<1>2. Inner \in Range(frames)
  BY <1>1, HeadTailProperties DEF Inner
<1>3. IsFrame(Inner)
  BY <1>2 DEF FlowTypeOK, IsFrame
<1>4. PICK b : b = Inner
  OBVIOUS
<1>5. QED
  BY <1>1, <1>3, <1>4, TurnFields DEF Turned

LEMMA BuiltSteps ==
  \A s : s \in Built <=> \E i \in DOMAIN frames : \E c \in Range(frames[i].step.children) : s \in StepsUnder(c)
BY DEF Built, Range

\* Every step of S is there in T, unless it was cut off and is no sink.
Gone(s) == s.mark = "cut" /\ ~IsSink(s.node)
Shows(T, S) == \A s \in S : Gone(s) \/ \E t \in T : Covers(t, s)

LEMMA BuiltStays ==
  ASSUME Same, Shows(Built', Built), leads \subseteq leads', NEW n, n \in leads' => n \in leads, NodeBuilt(n)
  PROVE  NodeBuilt(n)'
<1>1. (opts.prune = "sinks" /\ n \notin leads) \/ \E s \in Built : s.node = n /\ s.mark = Plain
  BY DEF NodeBuilt
<1>2. \A e \in Followed(n) : IsSink(e.to) => \E s \in Built : ShowsSink(s, e.to)
  BY DEF NodeBuilt
<1>3. (opts.prune = "sinks" /\ n \notin leads') \/ \E s \in Built' : s.node = n /\ s.mark = Plain
  BY <1>1 DEF Shows, Gone, Plain, Covers
<1>4. \A x : Followed(x)' = Followed(x) /\ IsSink(x)' = IsSink(x) /\ \A s : ShowsSink(s, x)' = ShowsSink(s, x)
  BY Stays, CoversSink
<1>5. ASSUME NEW e \in Followed(n), IsSink(e.to) PROVE \E s \in Built' : ShowsSink(s, e.to)
  <2>1. PICK s \in Built : ShowsSink(s, e.to)
    BY <1>2, <1>5
  <2>2. ~Gone(s)
    BY <1>5, <2>1 DEF Gone, ShowsSink
  <2>3. PICK t \in Built' : Covers(t, s)
    BY <2>2 DEF Shows
  <2>4. QED
    BY <2>1, <2>3, CoversSink
<1>6. opts' = opts
  BY DEF Same
<1>7. QED
  BY <1>3, <1>4, <1>5, <1>6 DEF NodeBuilt

\* The stack with frame 1 + k replaced by f and the ones above it gone.
Replaces(f, k) ==
  /\ k < Len(frames) /\ IsSeq(frames') /\ Len(frames') = Len(frames) - k
  /\ f = frames'[1] /\ \A i \in 2..(Len(frames) - k) : frames'[i] = frames[i+k]
  /\ IsFrame(f)
  /\ f.step.node = frames[1+k].step.node /\ f.step.edge = frames[1+k].step.edge
  /\ f.step.mark = frames[1+k].step.mark /\ f.step.calls = frames[1+k].step.calls

Moved(k, n, L) ==
  /\ n \in Nat /\ L \in Nat /\ L > 0 /\ k \in Nat /\ n = L + k
  /\ DOMAIN frames = 1..n /\ DOMAIN frames' = 1..L /\ Len(frames') = L
  /\ \A i \in 2..L : frames'[i] = frames[i+k]
  /\ \A i \in 1..L : /\ Path(i)' = Path(i+k) /\ At(i)' = At(i+k)
                    /\ frames'[i].step.node = frames[i+k].step.node
                    /\ frames'[i].step.edge = frames[i+k].step.edge
                    /\ frames'[i].step.mark = frames[i+k].step.mark /\ frames'[i].step.calls = frames[i+k].step.calls

NodesOf(fs, I) == {fs[i].step.node : i \in I}

LEMMA SameNodes ==
  ASSUME NEW g, NEW I, NEW h, NEW J,
         \A i \in I : \E j \in J : g[i].step.node = h[j].step.node,
         \A j \in J : \E i \in I : h[j].step.node = g[i].step.node
  PROVE  NodesOf(g, I) = NodesOf(h, J)
BY DEF NodesOf

LEMMA ReplacedPaths ==
  ASSUME FlowTypeOK, NEW k \in 0..1, NEW f, Replaces(f, k), NEW n, n = Len(frames), NEW L, L = n - k
  PROVE  Moved(k, n, L)
<1>1. n \in Nat /\ DOMAIN frames = 1..n /\ k \in Nat
  BY DomainOfSeq DEF FlowTypeOK
<1>2. L \in Nat /\ L > 0 /\ n = L + k
  BY <1>1 DEF Replaces
<1>3. Len(frames') = L /\ DOMAIN frames' = 1..L /\ \A i \in 2..L : frames'[i] = frames[i+k]
  BY DomainOfSeq DEF Replaces
<1>4. \A i \in 1..L : /\ frames'[i].step.node = frames[i+k].step.node
                     /\ frames'[i].step.edge = frames[i+k].step.edge
                     /\ frames'[i].step.mark = frames[i+k].step.mark /\ frames'[i].step.calls = frames[i+k].step.calls
  <2>1. SUFFICES ASSUME NEW i \in 1..L
                 PROVE  /\ frames'[i].step.node = frames[i+k].step.node
                        /\ frames'[i].step.edge = frames[i+k].step.edge
                        /\ frames'[i].step.mark = frames[i+k].step.mark /\ frames'[i].step.calls = frames[i+k].step.calls
    OBVIOUS
  <2>2. CASE i = 1
    BY <2>2 DEF Replaces
  <2>3. CASE i # 1
    BY <1>2, <1>3, <2>3
  <2>4. QED
    BY <2>2, <2>3
<1>5. ASSUME NEW i \in 1..L PROVE Path(i)' = Path(i+k) /\ At(i)' = At(i+k)
  <2>1. \A m \in i..L : m + k \in (i+k)..n /\ frames'[m].step.node = frames[m+k].step.node
    BY <1>1, <1>2, <1>4
  <2>2. \A m \in (i+k)..n : m - k \in i..L /\ (m - k) + k = m
    BY <1>1, <1>2
  <2>3. Path(i)' = NodesOf(frames', i..L) /\ Path(i+k) = NodesOf(frames, (i+k)..n)
    BY <1>3 DEF Path, NodesOf
  <2>4. /\ \A m \in i..L : \E j \in (i+k)..n : frames'[m].step.node = frames[j].step.node
        /\ \A m \in (i+k)..n : \E j \in i..L : frames[m].step.node = frames'[j].step.node
    BY <2>1, <2>2, ZenonT(60)
  <2>5. Path(i)' = Path(i+k)
    <3>1. PICK g, I, h, J : g = frames' /\ I = i..L /\ h = frames /\ J = (i+k)..n
      OBVIOUS
    <3>2. /\ \A m \in I : \E j \in J : g[m].step.node = h[j].step.node
          /\ \A m \in J : \E j \in I : h[m].step.node = g[j].step.node
      BY <2>4, <3>1
    <3>3. NodesOf(g, I) = NodesOf(h, J)
      BY <3>2, SameNodes
    <3>4. QED
      BY <2>3, <3>1, <3>3
  <2>6. At(i)' = At(i+k)
    BY <1>1, <1>2, <1>3 DEF At
  <2>7. QED
    BY <2>5, <2>6
<1>6. QED
  BY <1>1, <1>2, <1>3, <1>4, <1>5 DEF Moved

LEMMA Replaced ==
  ASSUME FlowInv, Same, expanded' = expanded, NEW k \in 0..1, NEW f, Replaces(f, k),
         leads \subseteq leads', leads' \subseteq leads \cup {f.step.node}, \A n \in leads' : LeadsToSink(n),
         NEW d, d = At(1+k), NEW p, p = Path(1+k), FrameOK(f, d, p)', ExpandedBuilt'
  PROVE  FlowInv'
<1>0. PICK n, L : n = Len(frames) /\ L = n - k
  OBVIOUS
<1>1. FlowTypeOK /\ Stacked
  BY DEF FlowInv
<1>2. /\ n \in Nat /\ L \in Nat /\ L > 0 /\ k \in Nat /\ n = L + k
      /\ DOMAIN frames = 1..n /\ DOMAIN frames' = 1..L /\ Len(frames') = L
      /\ \A i \in 2..L : frames'[i] = frames[i+k]
      /\ \A i \in 1..L : /\ Path(i)' = Path(i+k) /\ At(i)' = At(i+k)
                        /\ frames'[i].step.node = frames[i+k].step.node
                        /\ frames'[i].step.edge = frames[i+k].step.edge
                        /\ frames'[i].step.mark = frames[i+k].step.mark /\ frames'[i].step.calls = frames[i+k].step.calls
  <2>1. Moved(k, n, L)
    BY <1>0, <1>1, ReplacedPaths
  <2>2. QED
    BY <2>1 DEF Moved
<1>3. f = frames'[1] /\ IsSeq(frames')
  BY DEF Replaces
<1>4. graph' = graph /\ opts' = opts
  BY DEF Same
<1>5. FlowTypeOK'
  <2>1. ASSUME NEW g \in Range(frames')
        PROVE  IsStep(g.step)' /\ g \in [step : {g.step}, left : Seq(Range(graph.edges))]
    <3>1. PICK i \in 1..L : g = frames'[i]
      BY <1>2 DEF Range
    <3>2. IsStep(g.step) /\ g \in [step : {g.step}, left : Seq(Range(graph.edges))]
      <4>1. CASE i = 1
        BY <1>3, <3>1, <4>1 DEF Replaces, IsFrame
      <4>2. CASE i # 1
        <5>1. g = frames[i+k] /\ i + k \in DOMAIN frames
          BY <1>2, <3>1, <4>2
        <5>2. g \in Range(frames)
          BY <5>1 DEF Range
        <5>3. QED
          BY <1>1, <5>2 DEF FlowTypeOK
      <4>3. QED
        BY <4>1, <4>2
    <3>3. QED
      BY <3>2, Stays
  <2>2. f.step.node \in DOMAIN graph.nodes
    BY DEF IsStep, IsFrame, Replaces
  <2>3. leads' \subseteq DOMAIN graph.nodes /\ expanded' \subseteq DOMAIN graph.nodes
    BY <1>1, <2>2 DEF FlowTypeOK
  <2>4. IsGraph(graph)' /\ IsOptions(graph, opts)' /\ Len(frames') <= opts.maxDepth
    BY <1>0, <1>1, <1>2, <1>4 DEF FlowTypeOK, IsOptions
  <2>5. QED
    BY <1>3, <1>4, <2>1, <2>3, <2>4 DEF FlowTypeOK
<1>6. Stacked'
  <2>1. frames'[L].step.node = opts.route /\ frames'[L].step.mark = Plain /\ opts.route \notin expanded
    <3>1. L \in 1..L /\ n \in DOMAIN frames
      BY <1>2
    <3>2. frames # <<>>
      BY <3>1
    <3>3. frames'[L].step.node = frames[n].step.node /\ frames'[L].step.mark = frames[n].step.mark
      BY <1>2, <3>1
    <3>4. QED
      BY <1>0, <1>1, <3>2, <3>3 DEF Stacked
  <2>2. ASSUME NEW i \in 1..L, i < L
        PROVE  Pending(frames[i].step, frames[i+1], At(i))' /\ (frames[i].step.node \notin Path(i+1))'
    <3>1. /\ i + 1 \in 2..L /\ i + k \in DOMAIN frames /\ i + k < Len(frames)
          /\ (i + 1) + k = (i + k) + 1
      BY <1>0, <1>2, <2>2
    <3>2. frames'[i+1] = frames[i+k+1] /\ At(i)' = At(i+k) /\ Pending(frames[i+k].step, frames[i+k+1], At(i+k))
      <4>1. frames'[i+1] = frames[i+k+1]
        BY <1>2, <3>1
      <4>2. Pending(frames[i+k].step, frames[i+k+1], At(i+k))
        BY <1>1, <3>1 DEF Stacked
      <4>3. QED
        BY <1>2, <4>1, <4>2
    <3>3. PICK s, t, g, a : s = frames[i+k].step /\ t = frames'[i].step /\ g = frames[i+k+1] /\ a = At(i+k)
      OBVIOUS
    <3>4. t.mark = s.mark /\ t.node = s.node /\ t.edge = s.edge /\ t.calls = s.calls
      BY <1>2, <3>3
    <3>5. Pending(s, g, a)
      BY <3>2, <3>3
    <3>6. Pending(t, g, a)'
      BY <3>4, <3>5, Stays DEF Pending
    <3>7. (frames[i].step.node \notin Path(i+1))'
      <4>1. i + 1 \in 1..L /\ i \in 1..L /\ frames[i+k].step.node \notin Path(i+k+1)
        <5>1. frames[i+k].step.node \notin Path(i+k+1)
          BY <1>1, <3>1 DEF Stacked
        <5>2. QED
          BY <1>2, <2>2, <5>1
      <4>2. Path(i+1)' = Path(i+1+k) /\ frames'[i].step.node = frames[i+k].step.node
        BY <1>2, <4>1
      <4>3. i + 1 + k = i + k + 1
        BY <1>2
      <4>4. QED
        BY <4>1, <4>2, <4>3
    <3>8. QED
      BY <3>2, <3>3, <3>6, <3>7
  <2>3. QED
    BY <1>2, <1>4, <2>1, <2>2 DEF Stacked
<1>7. \A i \in DOMAIN frames' : FrameOK(frames[i], At(i), Path(i))'
  <2>1. SUFFICES ASSUME NEW i \in 1..L, NEW g, g = frames'[i], NEW a, a = At(i+k), NEW q, q = Path(i+k)
                 PROVE  FrameOK(g, a, q)'
    BY <1>2
  <2>2. CASE i = 1
    BY <1>3, <2>1, <2>2
  <2>3. CASE i # 1
    <3>1. i + k \in DOMAIN frames /\ g = frames[i+k] /\ FrameOK(g, a, q)
      BY <1>2, <2>1, <2>3 DEF FlowInv
    <3>2. Path(1)' = Path(1+k)
      BY <1>2
    <3>3. Path(1+k) \subseteq Path(1) /\ f.step.node \in Path(1)
      BY <1>0, <1>2 DEF Path, Replaces
    <3>4. Lost \subseteq Lost'
      BY <3>2, <3>3 DEF Lost
    <3>5. QED
      BY <3>1, <3>4, FrameStays
  <2>4. QED
    BY <2>2, <2>3
<1>8. \A m \in leads' : LeadsToSink(m)'
  BY Stays
<1>9. QED
  BY <1>5, <1>6, <1>7, <1>8 DEF FlowInv

\* The nodes of the stack do not change with a turn.
LEMMA TurnPath ==
  ASSUME FlowTypeOK, Looking, NEW ch, IsSeq(ch), NextEdge(ch)
  PROVE  /\ Replaces(Turned(ch), 0) /\ Path(1)' = Path(1) /\ Inner.step.node \in Path(1)
         /\ Depth = At(1) /\ Inner = frames[1]
<1>1. PICK f : f = Turned(ch)
  OBVIOUS
<1>2. /\ Len(frames) \in Nat \ {0} /\ DOMAIN frames = 1..Len(frames) /\ Inner = frames[1]
      /\ Len(frames') = Len(frames) /\ DOMAIN frames' = DOMAIN frames /\ IsSeq(frames')
      /\ frames'[1] = f /\ \A i \in 2..Len(frames) : frames'[i] = frames[i]
  BY <1>1, TurnFrames
<1>3. /\ IsFrame(f) /\ f.step.node = Inner.step.node /\ f.step.edge = Inner.step.edge
      /\ f.step.mark = Inner.step.mark /\ f.step.calls = Inner.step.calls
  BY <1>1, TurnedFields
<1>4. Replaces(f, 0)
  BY <1>2, <1>3 DEF Replaces
<1>5. PICK k, n, L : k = 0 /\ n = Len(frames) /\ L = n - k
  OBVIOUS
<1>6. k \in 0..1 /\ Replaces(f, k) /\ 1 \in 1..L /\ 1 + k = 1
  BY <1>2, <1>4, <1>5
<1>7. Moved(k, n, L)
  BY <1>5, <1>6, ReplacedPaths
<1>8. Path(1)' = Path(1)
  BY <1>6, <1>7 DEF Moved
<1>9. Inner.step.node \in Path(1) /\ Depth = At(1)
  BY <1>2 DEF Path, At, Depth
<1>10. QED
  BY <1>1, <1>2, <1>4, <1>8, <1>9

LEMMA TurnKeeps ==
  ASSUME FlowInv, Looking, Same, expanded' = expanded, NEW ch, IsSeq(ch), NextEdge(ch),
         leads \subseteq leads', leads' \subseteq leads \cup {Inner.step.node}, \A n \in leads' : LeadsToSink(n),
         NEW f, f = Turned(ch), NEW d, d = Depth, NEW p, p = Path(1), FrameOK(f, d, p)',
         \A c \in Range(Inner.step.children) : Shows(UNION {StepsUnder(b) : b \in Range(ch)}, StepsUnder(c))
  PROVE  FlowInv'
<1>1. FlowTypeOK
  BY DEF FlowInv
<1>2. /\ Len(frames) \in Nat \ {0} /\ DOMAIN frames = 1..Len(frames) /\ Inner = frames[1]
      /\ Len(frames') = Len(frames) /\ DOMAIN frames' = DOMAIN frames /\ IsSeq(frames')
      /\ frames'[1] = f /\ \A i \in 2..Len(frames) : frames'[i] = frames[i]
  BY <1>1, TurnFrames
<1>3. f.step.children = ch /\ f.step.node = Inner.step.node
  BY <1>1, TurnedFields
<1>4. Replaces(f, 0) /\ Path(1)' = Path(1) /\ Inner.step.node \in Path(1)
  BY <1>1, TurnPath
<1>5. d = At(1 + 0) /\ p = Path(1 + 0)
  BY <1>2 DEF At, Depth
<1>6. Shows(Built', Built)
  <2>1. SUFFICES ASSUME NEW s \in Built, ~Gone(s) PROVE \E t \in Built' : Covers(t, s)
    BY DEF Shows
  <2>2. PICK i \in 1..Len(frames) : \E c \in Range(frames[i].step.children) : s \in StepsUnder(c)
    BY <1>2, BuiltSteps
  <2>3. PICK c \in Range(frames[i].step.children) : s \in StepsUnder(c)
    BY <2>2
  <2>4. \A x : StepsUnder(x)' = StepsUnder(x)
    BY Stays
  <2>5. \A t : t \in Built' <=> \E j \in DOMAIN frames' : \E b \in Range(frames'[j].step.children) : t \in StepsUnder(b)'
    BY DEF Built, Range
  <2>6. CASE i = 1
    <3>1. PICK b \in Range(ch) : \E t \in StepsUnder(b) : Covers(t, s)
      BY <1>2, <2>1, <2>3, <2>6 DEF Shows
    <3>2. frames'[1].step.children = ch /\ 1 \in DOMAIN frames'
      BY <1>2, <1>3
    <3>3. QED
      BY <2>4, <2>5, <3>1, <3>2
  <2>7. CASE i # 1
    <3>1. frames'[i] = frames[i] /\ i \in DOMAIN frames'
      BY <1>2, <2>7
    <3>2. s \in Built'
      BY <2>3, <2>4, <2>5, <3>1
    <3>3. QED
      BY <3>2, CoversSink
  <2>8. QED
    BY <2>6, <2>7
<1>7. ExpandedBuilt'
  <2>1. ASSUME NEW n \in expanded \ Path(1) PROVE NodeBuilt(n)'
    <3>1. NodeBuilt(n) /\ (n \in leads' => n \in leads)
      BY <1>4 DEF FlowInv, Looking, ExpandedBuilt
    <3>2. QED
      BY <1>6, <3>1, BuiltStays
  <2>2. QED
    BY <1>4, <2>1 DEF ExpandedBuilt
<1>8. QED
  BY <1>3, <1>4, <1>5, <1>7, Replaced

-----------------------------------------------------------------------------
\* A frame b with an edge to look at, at depth d and with the nodes p.
Facing(b, d, p) ==
  LET e == Head(b.left)
  IN  /\ GraphOK /\ DepthOK /\ d \in Nat /\ d > 0 /\ d <= opts.maxDepth
      /\ IsFrame(b) /\ FrameOK(b, d, p) /\ b.step.node \in p /\ b.step.node \in DOMAIN graph.nodes
      /\ IsSeq(b.step.children) /\ b.left \in Seq(Range(graph.edges)) /\ b.left # <<>>
      /\ Range(b.left) = {e} \cup Range(Tail(b.left)) /\ e \notin Range(Tail(b.left))
      /\ e \in Range(graph.edges) /\ e.to \in DOMAIN graph.nodes
      /\ e \in Followed(b.step.node) <=> (d > 1 => Runs(e))

LEMMA Faces ==
  ASSUME FlowInv, NEW i \in DOMAIN frames, NEW b, b = frames[i], b.left # <<>>, NEW d, d = At(i), NEW p, p = Path(i)
  PROVE  Facing(b, d, p)
<1>1. FlowTypeOK /\ Stacked /\ GraphOK /\ DepthOK
  BY TypeGivesGraph DEF FlowInv
<1>2. /\ Len(frames) \in Nat /\ DOMAIN frames = 1..Len(frames) /\ Len(frames) <= opts.maxDepth
      /\ frames # <<>>
  <2>1. IsSeq(frames) /\ Len(frames) <= opts.maxDepth
    BY <1>1 DEF FlowTypeOK
  <2>2. Len(frames) \in Nat /\ DOMAIN frames = 1..Len(frames)
    BY <2>1, DomainOfSeq
  <2>3. QED
    BY <2>1, <2>2
<1>3. d \in Nat /\ d > 0 /\ d <= opts.maxDepth /\ (d = 1 => i = Len(frames))
  BY <1>1, <1>2 DEF At, DepthOK
<1>4. IsFrame(b)
  <2>1. b \in Range(frames)
    BY DEF Range
  <2>2. QED
    BY <1>1, <2>1 DEF FlowTypeOK, IsFrame
<1>5. b.left \in Seq(Range(graph.edges)) /\ IsSeq(b.step.children) /\ b.step.node \in DOMAIN graph.nodes
  BY <1>4 DEF IsFrame, IsStep
<1>6. FrameOK(b, d, p)
  BY DEF FlowInv
<1>7. /\ \A e \in Range(b.left) :
           e.from = b.step.node /\ e.kind \in IF d = 1 THEN {"handled_by"} ELSE {"calls", "dispatches_to"}
      /\ \A j, k \in DOMAIN b.left : b.left[j] = b.left[k] => j = k
  BY <1>6 DEF FrameOK, LeftOK
<1>8. PICK e : e = Head(b.left)
  OBVIOUS
<1>9. Range(b.left) = {e} \cup Range(Tail(b.left)) /\ e \notin Range(Tail(b.left)) /\ e \in Range(graph.edges)
  <2>1. PICK l, S : l = b.left /\ S = Range(graph.edges)
    OBVIOUS
  <2>2. l \in Seq(S) /\ l # <<>> /\ \A j, k \in DOMAIN l : l[j] = l[k] => j = k
    BY <1>5, <1>7, <2>1
  <2>3. Range(l) = {Head(l)} \cup Range(Tail(l)) /\ Head(l) \in S /\ Head(l) \notin Range(Tail(l))
    BY <2>2, HeadAndTail
  <2>4. QED
    BY <1>8, <2>1, <2>3
<1>10. e.to \in DOMAIN graph.nodes
  BY <1>1, <1>9, FollowedEdges
<1>11. b.step.node \in p
  BY <1>2 DEF Path
<1>12. e \in Followed(b.step.node) <=> (d > 1 => Runs(e))
  <2>1. e.from = b.step.node /\ e.kind \in IF d = 1 THEN {"handled_by"} ELSE {"calls", "dispatches_to"}
    BY <1>7, <1>9
  <2>2. CASE d = 1
    <3>1. b.step.node = opts.route
      BY <1>1, <1>2, <1>3, <2>2 DEF Stacked
    <3>2. QED
      BY <1>9, <2>1, <2>2, <3>1 DEF Followed
  <2>3. CASE d # 1
    <3>1. i < Len(frames) /\ d > 1
      BY <1>2, <1>3, <2>3 DEF At
    <3>2. Pending(frames[i].step, frames[i+1], At(i)) /\ opts.route \notin expanded
      BY <1>1, <1>2, <3>1 DEF Stacked
    <3>3. b.step.node \in expanded /\ ~IsSink(b.step.node) /\ ~External(b.step.node)
      BY <3>2 DEF Pending
    <3>4. Followed(b.step.node) =
            {x \in {y \in Range(graph.edges) : y.from = b.step.node /\ y.kind \in {"calls", "dispatches_to"}} : Runs(x)}
      BY <3>2, <3>3 DEF Followed
    <3>5. QED
      BY <1>9, <2>1, <2>3, <3>1, <3>4
  <2>4. QED
    BY <2>2, <2>3
<1>13. QED
  BY <1>1, <1>3, <1>4, <1>5, <1>6, <1>8, <1>9, <1>10, <1>11, <1>12 DEF Facing

\* The innermost frame.
Here ==
  /\ Facing(Inner, Depth, Path(1)) /\ Inner = frames[1] /\ Depth = At(1)
  /\ opts.route \in Path(1) /\ (OnPath <=> N \in Path(1))
  /\ Depth > 1 => opts.route \notin expanded

LEMMA Innermost ==
  ASSUME FlowInv, Looking
  PROVE  Here
<1>1. FlowTypeOK /\ Stacked
  BY DEF FlowInv
<1>2. Len(frames) \in Nat /\ Len(frames) > 0 /\ DOMAIN frames = 1..Len(frames) /\ Inner = frames[1]
  <2>1. PICK fs, S : fs = frames /\ S = Range(frames)
    OBVIOUS
  <2>2. fs \in Seq(S) /\ fs # <<>>
    BY <1>1, <2>1 DEF IsSeq, FlowTypeOK, Looking
  <2>3. Len(fs) \in Nat \ {0} /\ Head(fs) = fs[1]
    BY <2>2, EmptySeq
  <2>4. QED
    BY <2>1, <2>2, <2>3 DEF Inner
<1>3. Depth = At(1)
  BY <1>2 DEF Depth, At
<1>4. Facing(Inner, Depth, Path(1))
  <2>1. PICK i, b, d, p : i = 1 /\ b = Inner /\ d = Depth /\ p = Path(1)
    OBVIOUS
  <2>2. i \in DOMAIN frames /\ b = frames[i] /\ b.left # <<>> /\ d = At(i) /\ p = Path(i)
    BY <1>2, <1>3, <2>1 DEF Looking
  <2>3. Facing(b, d, p)
    BY <2>2, Faces
  <2>4. QED
    BY <2>1, <2>3
<1>5. opts.route \in Path(1) /\ (OnPath <=> N \in Path(1)) /\ opts.route \notin expanded
  BY <1>1, <1>2 DEF Path, Stacked, OnPath, Looking
<1>6. QED
  BY <1>2, <1>3, <1>4, <1>5 DEF Here

-----------------------------------------------------------------------------
\* What a turn does to the frame whose turn it is.
LEMMA LeftAfter ==
  ASSUME NEW b, NEW d, NEW p, Facing(b, d, p), NEW f, f.left = Tail(b.left), NEW e, e = Head(b.left)
  PROVE  /\ Range(b.left) = {e} \cup Range(f.left)
         /\ \A m : m # e.to \/ ~Runs(e) => LeftTo(f, m) = LeftTo(b, m)
         /\ Runs(e) => LeftTo(b, e.to) # {} /\ Cardinality(LeftTo(b, e.to)) = Cardinality(LeftTo(f, e.to)) + 1
         /\ \A m : Cardinality(LeftTo(b, m)) \in Nat /\ Cardinality(LeftTo(f, m)) \in Nat
<1>1. Range(b.left) = {e} \cup Range(f.left) /\ e \notin Range(f.left) /\ Range(b.left) \subseteq Range(graph.edges)
  <2>1. b.left \in Seq(Range(graph.edges)) /\ Range(b.left) = {e} \cup Range(f.left) /\ e \notin Range(f.left)
    BY DEF Facing
  <2>2. QED
    BY <2>1, RangeOfSeq
<1>2. IsFiniteSet(Range(graph.edges))
  BY FollowedEdges DEF Facing
<1>3. \A m : m # e.to \/ ~Runs(e) => LeftTo(f, m) = LeftTo(b, m)
  BY <1>1 DEF LeftTo
<1>4. \A m : IsFiniteSet(LeftTo(b, m)) /\ IsFiniteSet(LeftTo(f, m))
  <2>1. \A m : LeftTo(b, m) \in SUBSET Range(graph.edges) /\ LeftTo(f, m) \in SUBSET Range(graph.edges)
    BY <1>1 DEF LeftTo
  <2>2. QED
    BY <1>2, <2>1, FS_Subset
<1>5. \A m : Cardinality(LeftTo(b, m)) \in Nat /\ Cardinality(LeftTo(f, m)) \in Nat
  BY <1>4, FS_CardinalityType
<1>6. ASSUME Runs(e)
      PROVE  LeftTo(b, e.to) # {} /\ Cardinality(LeftTo(b, e.to)) = Cardinality(LeftTo(f, e.to)) + 1
  <2>1. e \in LeftTo(b, e.to) /\ LeftTo(f, e.to) = LeftTo(b, e.to) \ {e}
    BY <1>1, <1>6 DEF LeftTo
  <2>2. Cardinality(LeftTo(f, e.to)) = Cardinality(LeftTo(b, e.to)) - 1
    BY <1>4, <2>1, FS_RemoveElement
  <2>3. QED
    BY <1>5, <2>1, <2>2
<1>7. QED
  BY <1>1, <1>3, <1>5, <1>6

LEMMA FrameTurns ==
  ASSUME NEW b, NEW d, NEW p, Facing(b, d, p), NEW f, f.left = Tail(b.left), f.step.node = b.step.node
  PROVE  LeftOK(f, d)
<1>1. LeftOK(b, d) /\ b.left \in Seq(Range(graph.edges)) /\ b.left # <<>>
  BY DEF Facing, FrameOK
<1>2. Range(f.left) \subseteq Range(b.left) /\ \A i, j \in DOMAIN f.left : f.left[i] = f.left[j] => i = j
  <2>1. PICK l, S : l = b.left /\ S = Range(graph.edges)
    OBVIOUS
  <2>2. l \in Seq(S) /\ l # <<>> /\ \A i, j \in DOMAIN l : l[i] = l[j] => i = j
    BY <1>1, <2>1 DEF LeftOK
  <2>3. /\ Range(l) = {Head(l)} \cup Range(Tail(l))
        /\ \A i, j \in DOMAIN Tail(l) : Tail(l)[i] = Tail(l)[j] => i = j
    BY <2>2, HeadAndTail
  <2>4. QED
    BY <2>1, <2>3
<1>3. QED
  BY <1>1, <1>2 DEF LeftOK

LEMMA TurnStays ==
  ASSUME Same, expanded \subseteq expanded', Lost \subseteq Lost', NEW f, NEW p
  PROVE  /\ \A d : LeftOK(f, d) => LeftOK(f, d)'
         /\ \A m : Dropped(m, p) => Dropped(m, p)'
         /\ \A m, n : LeftTo(f, m)' = LeftTo(f, m) /\ CallsTo(n, m)' = CallsTo(n, m)
<1>1. graph' = graph /\ opts' = opts
  BY DEF Same
<1>2. \A d : LeftOK(f, d) => LeftOK(f, d)'
  BY DEF LeftOK
<1>3. ASSUME NEW m, Dropped(m, p) PROVE Dropped(m, p)'
  <2>1. m \in expanded \ (leads \cup Path(1)) => m \in (expanded \ (leads \cup Path(1)))'
    BY DEF Lost
  <2>2. IsSink(m)' = IsSink(m) /\ External(m)' = External(m)
    BY Stays
  <2>3. QED
    BY <1>1, <1>3, <2>1, <2>2 DEF Dropped
<1>4. \A m, n : LeftTo(f, m)' = LeftTo(f, m) /\ CallsTo(n, m)' = CallsTo(n, m)
  <2>1. \A n : Followed(n)' = Followed(n) /\ Runs(n)' = Runs(n)
    BY Stays
  <2>2. QED
    BY <2>1 DEF LeftTo, CallsTo
<1>5. QED
  BY <1>2, <1>3, <1>4

\* A call that is dropped.
LEMMA FrameDrops ==
  ASSUME Same, expanded \subseteq expanded', leads \subseteq leads', Lost \subseteq Lost',
         NEW b, NEW d, NEW p, Facing(b, d, p), NEW e, e = Head(b.left), NEW f, f = Turn(b, b.step.children),
         d > 1 => ~Runs(e) \/ (Dropped(e.to, p)' /\ \A c \in Range(b.step.children) : c.node # e.to),
         IsSink(e.to) => d > 1 /\ ~Runs(e)
  PROVE  FrameOK(f, d, p)'
<1>1. /\ IsFrame(b) /\ FrameOK(b, d, p) /\ b.left # <<>> /\ IsSeq(b.step.children) /\ d \in Nat
      /\ e \in Followed(b.step.node) <=> (d > 1 => Runs(e))
  BY DEF Facing
<1>2. /\ f.step.children = b.step.children /\ f.left = Tail(b.left) /\ f.step.node = b.step.node
  BY <1>1, TurnFields
<1>3. LeftOK(f, d)'
  BY <1>2, FrameTurns, TurnStays
<1>4. /\ Range(b.left) = {e} \cup Range(f.left)
      /\ \A m : m # e.to \/ ~Runs(e) => LeftTo(f, m) = LeftTo(b, m)
  BY <1>2, LeftAfter
<1>5. graph' = graph /\ opts' = opts
  BY DEF Same
<1>6. \A c \in Range(f.step.children) : ChildOK(c, d)'
  BY <1>1, <1>2, ChildStays DEF FrameOK
<1>7. ASSUME d > 1 PROVE Counts(f, p)'
  <2>1. Counts(b, p)
    BY <1>1, <1>7 DEF FrameOK
  <2>2. \A c \in Range(b.step.children) : LeftTo(f, c.node) = LeftTo(b, c.node)
    BY <1>4, <1>7
  <2>3. /\ \A m : Dropped(m, p) => Dropped(m, p)'
        /\ \A m, n : LeftTo(f, m)' = LeftTo(f, m) /\ CallsTo(n, m)' = CallsTo(n, m)
    BY TurnStays
  <2>4. ASSUME NEW m PROVE LeftTo(f, m) = LeftTo(b, m) \/ Dropped(m, p)'
    BY <1>4, <1>7
  <2>5. QED
    BY <1>2, <1>5, <2>1, <2>2, <2>3, <2>4 DEF Counts
<1>8. SinksSeen(f)'
  <2>1. \A n : Followed(n)' = Followed(n) /\ IsSink(n)' = IsSink(n) /\ \A c : ShowsSink(c, n)' = ShowsSink(c, n)
    BY Stays, CoversSink
  <2>2. ASSUME NEW x \in Followed(b.step.node), x \notin Range(f.left), IsSink(x.to)
        PROVE  \E c \in Range(b.step.children) : ShowsSink(c, x.to)
    <3>1. x # e
      BY <1>1, <2>2
    <3>2. QED
      BY <1>1, <1>4, <2>2, <3>1 DEF FrameOK, SinksSeen
  <2>3. QED
    BY <1>2, <2>1, <2>2 DEF SinksSeen
<1>9. NothingLost(f)'
  <2>1. \A n : IsSink(n)' = IsSink(n)
    BY Stays
  <2>2. QED
    BY <1>1, <1>2, <1>5, <2>1 DEF FrameOK, NothingLost
<1>10. QED
  BY <1>3, <1>6, <1>7, <1>8, <1>9 DEF FrameOK

\* A step that stands for one more call.
LEMMA Recounted ==
  ASSUME DepthOK, NEW d \in Nat, d > 0, d <= opts.maxDepth, NEW c, ChildOK(c, d),
         NEW t, t = [c EXCEPT !.calls = CallsOf(c) + 1]
  PROVE  /\ ChildOK(t, d) /\ t.node = c.node /\ t.mark = c.mark /\ t.children = c.children
         /\ CallsOf(c) \in Nat \ {0} /\ CallsOf(t) = CallsOf(c) + 1
         /\ \A s \in StepsUnder(c) : \E r \in StepsUnder(t) : Covers(r, s)
<1>1. PICK h : h = opts.maxDepth - d + 1
  OBVIOUS
<1>2. /\ c.edge \in Range(graph.edges) /\ Within(c, h) /\ h \in Nat /\ h <= opts.maxDepth + 1
      /\ \A s \in StepsUnder(c) : IsStep(s) /\ Counted(s) /\ RefKnown(s) /\ (opts.prune = "sinks" => Kept(s))
  BY <1>1 DEF ChildOK, DepthOK
<1>3. c \in StepsUnder(c)
  BY <1>2, SameChildren
<1>4. PICK D, G, M : /\ D = DOMAIN graph.nodes /\ G = Range(graph.edges) \cup {NoEdge}
                     /\ M = {Plain, "cycle", "ref", "cut"}
  OBVIOUS
<1>5. c \in [node : D, edge : G, mark : M, calls : Nat, children : {c.children}] /\ IsSeq(c.children)
  BY <1>2, <1>3, <1>4 DEF IsStep
<1>6. CallsOf(c) \in Nat \ {0}
  BY <1>5 DEF CallsOf
<1>7. PICK k : k = CallsOf(c) + 1
  OBVIOUS
<1>8. k \in Nat /\ k # 0
  BY <1>6, <1>7
<1>9. /\ t.node = c.node /\ t.mark = c.mark /\ t.edge = c.edge /\ t.children = c.children /\ t.calls = k
      /\ t \in [node : D, edge : G, mark : M, calls : Nat, children : {t.children}]
  BY <1>5, <1>7, <1>8
<1>10. CallsOf(t) = CallsOf(c) + 1
  BY <1>7, <1>8, <1>9 DEF CallsOf
<1>11. IsStep(t)
  BY <1>4, <1>5, <1>9 DEF IsStep
<1>12. Counted(t) /\ RefKnown(t) /\ (opts.prune = "sinks" => Kept(t))
  <2>1. Counted(c) /\ RefKnown(c) /\ (opts.prune = "sinks" => Kept(c))
    BY <1>2, <1>3
  <2>2. QED
    BY <1>9, <2>1 DEF Counted, RefKnown, Kept
<1>13. Within(t, h) /\ StepsUnder(t) \subseteq {t} \cup StepsUnder(c) /\ StepsUnder(c) \subseteq {c} \cup StepsUnder(t)
      /\ t \in StepsUnder(t)
  BY <1>2, <1>9, SameChildren
<1>14. ChildOK(t, d)
  BY <1>1, <1>2, <1>9, <1>11, <1>12, <1>13 DEF ChildOK
<1>15. \A s \in StepsUnder(c) : \E r \in StepsUnder(t) : Covers(r, s)
  <2>1. Covers(t, c) /\ \A s : Covers(s, s)
    BY <1>9 DEF Covers
  <2>2. QED
    BY <1>13, <2>1
<1>16. QED
  BY <1>6, <1>9, <1>10, <1>14, <1>15

\* xs with the i-th child counted once more.
Recounts(xs, i, ch, d) ==
  /\ IsSeq(xs) /\ IsSeq(ch) /\ DOMAIN ch = DOMAIN xs /\ i \in DOMAIN xs
  /\ \A j \in DOMAIN xs : j # i => ch[j] = xs[j]
  /\ \A j \in DOMAIN xs : ch[j].node = xs[j].node /\ ch[j].mark = xs[j].mark /\ ch[j].children = xs[j].children
  /\ CallsOf(xs[i]) \in Nat \ {0} /\ CallsOf(ch[i]) = CallsOf(xs[i]) + 1
  /\ ChildOK(ch[i], d)
  /\ \A s \in StepsUnder(xs[i]) : \E r \in StepsUnder(ch[i]) : Covers(r, s)

LEMMA ChildRecounted ==
  ASSUME DepthOK, NEW d \in Nat, d > 0, d <= opts.maxDepth, NEW xs, IsSeq(xs), NEW i \in DOMAIN xs, ChildOK(xs[i], d)
  PROVE  Recounts(xs, i, [xs EXCEPT ![i].calls = CallsOf(xs[i]) + 1], d)
<1>1. PICK c, t, ch : c = xs[i] /\ t = [c EXCEPT !.calls = CallsOf(c) + 1] /\ ch = [xs EXCEPT ![i] = t]
  OBVIOUS
<1>2. /\ ChildOK(t, d) /\ t.node = c.node /\ t.mark = c.mark /\ t.children = c.children
      /\ CallsOf(c) \in Nat \ {0} /\ CallsOf(t) = CallsOf(c) + 1
      /\ \A s \in StepsUnder(c) : \E r \in StepsUnder(t) : Covers(r, s)
  BY <1>1, Recounted
<1>3. IsSeq(ch) /\ DOMAIN ch = DOMAIN xs /\ ch[i] = t /\ \A j \in DOMAIN xs : j # i => ch[j] = xs[j]
  <2>1. PICK S : S = Range(xs) \cup {t}
    OBVIOUS
  <2>2. xs \in Seq(S) /\ t \in S
    BY <2>1 DEF IsSeq
  <2>3. ch \in Seq(S)
    BY <1>1, <2>2
  <2>4. QED
    BY <1>1, <2>2, <2>3, SeqRange DEF IsSeq
<1>4. Recounts(xs, i, ch, d)
  BY <1>1, <1>2, <1>3 DEF Recounts
<1>5. [xs EXCEPT ![i].calls = CallsOf(xs[i]) + 1] = ch
  BY <1>1
<1>6. QED
  BY <1>4, <1>5

\* A sink that is called again was shown when it was called first.
LEMMA SinkSeenAgain ==
  ASSUME NEW b, NEW d, NEW p, Facing(b, d, p), NEW e, e = Head(b.left), Runs(e), d > 1,
         NEW x \in Range(b.step.children), x.node = e.to, CallsOf(x) \in Nat \ {0}, IsSink(e.to)
  PROVE  ShowsSink(x, e.to)
<1> DEFINE n == b.step.node
<1>1. /\ GraphOK /\ FrameOK(b, d, p) /\ e \in Followed(n) /\ e \in Range(b.left)
  BY DEF Facing
<1>2. Counts(b, p) /\ SinksSeen(b)
  BY <1>1 DEF FrameOK
<1>3. CallsOf(x) + Cardinality(LeftTo(b, e.to)) = Cardinality(CallsTo(n, e.to))
  BY <1>2 DEF Counts
<1>4. e.kind \in {"calls", "dispatches_to"}
  BY <1>1 DEF FrameOK, LeftOK
<1>5. \A q \in Followed(n) : Runs(q)
  <2>1. n # opts.route
    BY <1>1, <1>4 DEF Followed
  <2>2. QED
    BY <2>1 DEF Followed
<1>6. /\ IsFiniteSet(LeftTo(b, e.to)) /\ Cardinality(LeftTo(b, e.to)) \in Nat
  <2>1. LeftTo(b, e.to) \in SUBSET Range(graph.edges)
    <3>1. PICK S : S = Range(graph.edges)
      OBVIOUS
    <3>2. b.left \in Seq(S)
      BY <3>1 DEF Facing
    <3>3. Range(b.left) \subseteq S
      BY <3>2, RangeOfSeq
    <3>4. QED
      BY <3>1, <3>3 DEF LeftTo
  <2>2. IsFiniteSet(Range(graph.edges))
    BY <1>1, FollowedEdges
  <2>3. QED
    BY <2>1, <2>2, FS_Subset, FS_CardinalityType
<1>7. PICK q \in CallsTo(n, e.to) : q \notin LeftTo(b, e.to)
  <2>1. SUFFICES ASSUME CallsTo(n, e.to) \subseteq LeftTo(b, e.to) PROVE FALSE
    OBVIOUS
  <2>2. Cardinality(CallsTo(n, e.to)) <= Cardinality(LeftTo(b, e.to))
    BY <1>6, <2>1, FS_Subset
  <2>3. QED
    BY <1>3, <1>6, <2>2
<1>8. q \in Followed(n) /\ q.to = e.to /\ q \notin Range(b.left)
  BY <1>5, <1>7 DEF CallsTo, LeftTo
<1>9. PICK c \in Range(b.step.children) : ShowsSink(c, e.to)
  BY <1>2, <1>8 DEF SinksSeen
<1>10. c = x
  <2>1. PICK xs : xs = b.step.children
    OBVIOUS
  <2>2. \A i, j \in DOMAIN xs : xs[i].node = xs[j].node => i = j
    BY <1>2, <2>1 DEF Counts
  <2>3. PICK i, j \in DOMAIN xs : c = xs[i] /\ x = xs[j]
    BY <1>9, <2>1 DEF Range
  <2>4. QED
    BY <1>9, <2>2, <2>3 DEF ShowsSink
<1>11. QED
  BY <1>9, <1>10

\* A call of a child that is there already.
LEMMA FrameRecounts ==
  ASSUME NEW b, NEW d, NEW p, Facing(b, d, p), NEW e, e = Head(b.left), Runs(e), d > 1,
         NEW xs, xs = b.step.children, NEW i, NEW ch, Recounts(xs, i, ch, d), xs[i].node = e.to,
         NEW f, f = Turn(b, ch)
  PROVE  /\ FrameOK(f, d, p)
         /\ \A c \in Range(xs) : Shows(UNION {StepsUnder(s) : s \in Range(ch)}, StepsUnder(c))
<1>1. /\ IsFrame(b) /\ FrameOK(b, d, p) /\ b.left # <<>> /\ d \in Nat /\ e \in Followed(b.step.node)
  BY DEF Facing
<1>2. /\ IsSeq(xs) /\ IsSeq(ch) /\ DOMAIN ch = DOMAIN xs /\ i \in DOMAIN xs
      /\ \A j \in DOMAIN xs : j # i => ch[j] = xs[j]
      /\ \A j \in DOMAIN xs : ch[j].node = xs[j].node /\ ch[j].mark = xs[j].mark /\ ch[j].children = xs[j].children
  BY DEF Recounts
<1>3. CallsOf(xs[i]) \in Nat \ {0} /\ CallsOf(ch[i]) = CallsOf(xs[i]) + 1 /\ ChildOK(ch[i], d)
  BY DEF Recounts
<1>r. /\ \A x \in Range(ch) : \E j \in DOMAIN xs : x = ch[j]
      /\ \A y \in Range(xs) : \E j \in DOMAIN xs : y = xs[j]
      /\ \A j \in DOMAIN xs : xs[j] \in Range(xs) /\ ch[j] \in Range(ch)
  BY <1>2 DEF Range
<1>7. f.step.children = ch /\ f.left = Tail(b.left) /\ f.step.node = b.step.node
  BY <1>1, <1>2, TurnFields
<1>8. LeftOK(f, d)
  BY <1>7, FrameTurns
<1>9. /\ Range(b.left) = {e} \cup Range(f.left)
      /\ \A m : m # e.to => LeftTo(f, m) = LeftTo(b, m)
      /\ Cardinality(LeftTo(b, e.to)) = Cardinality(LeftTo(f, e.to)) + 1
      /\ \A m : Cardinality(LeftTo(b, m)) \in Nat /\ Cardinality(LeftTo(f, m)) \in Nat
  BY <1>7, LeftAfter
<1>11. \A x \in Range(ch) : ChildOK(x, d)
  BY <1>1, <1>2, <1>3, <1>r DEF FrameOK
<1>12. ASSUME d > 1 PROVE Counts(f, p)
  <2>1. Counts(b, p)
    BY <1>1, <1>12 DEF FrameOK
  <2>2. \A j, k \in DOMAIN ch : ch[j].node = ch[k].node => j = k
    BY <1>2, <2>1 DEF Counts
  <2>3. ASSUME NEW x \in Range(ch)
        PROVE  CallsOf(x) + Cardinality(LeftTo(f, x.node)) = Cardinality(CallsTo(f.step.node, x.node))
    <3>1. PICK j \in DOMAIN xs : x = ch[j]
      BY <1>r
    <3>2. CallsOf(xs[j]) + Cardinality(LeftTo(b, xs[j].node)) = Cardinality(CallsTo(b.step.node, xs[j].node))
      BY <1>r, <2>1 DEF Counts
    <3>3. CASE j = i
      <4>1. x.node = e.to /\ CallsOf(x) = CallsOf(xs[i]) + 1
        BY <1>2, <1>3, <3>1, <3>3
      <4>2. CallsOf(xs[i]) + Cardinality(LeftTo(b, e.to)) = Cardinality(CallsTo(b.step.node, e.to))
        BY <3>2, <3>3
      <4>3. QED
        BY <1>3, <1>7, <1>9, <4>1, <4>2
    <3>4. CASE j # i
      <4>1. x = xs[j] /\ x.node # e.to
        BY <1>2, <2>1, <3>1, <3>4 DEF Counts
      <4>2. QED
        BY <1>7, <1>9, <3>2, <4>1
    <3>5. QED
      BY <3>3, <3>4
  <2>4. ASSUME NEW m \in DOMAIN graph.nodes, \A x \in Range(ch) : x.node # m
        PROVE  LeftTo(f, m) = CallsTo(f.step.node, m) \/ Dropped(m, p)
    <3>1. \A x \in Range(xs) : x.node # m
      BY <1>2, <1>r, <2>4
    <3>2. LeftTo(b, m) = CallsTo(b.step.node, m) \/ Dropped(m, p)
      BY <2>1, <3>1 DEF Counts
    <3>3. m # e.to
      BY <1>2, <1>r, <3>1
    <3>4. QED
      BY <1>7, <1>9, <3>2, <3>3
  <2>5. QED
    BY <1>7, <2>2, <2>3, <2>4 DEF Counts
<1>13. SinksSeen(f)
  <2>1. ASSUME NEW x \in Followed(b.step.node), x \notin Range(f.left), IsSink(x.to)
        PROVE  \E s \in Range(ch) : ShowsSink(s, x.to)
    <3>1. \E s \in Range(xs) : ShowsSink(s, x.to)
      <4>1. CASE x = e
        BY <1>2, <1>3, <1>r, <2>1, <4>1, SinkSeenAgain
      <4>2. CASE x # e
        BY <1>1, <1>9, <2>1, <4>2 DEF FrameOK, SinksSeen
      <4>3. QED
        BY <4>1, <4>2
    <3>2. PICK j \in DOMAIN xs : ShowsSink(xs[j], x.to)
      BY <1>r, <3>1
    <3>3. ShowsSink(ch[j], x.to)
      BY <1>2, <3>2 DEF ShowsSink
    <3>4. QED
      BY <1>r, <3>2, <3>3
  <2>2. QED
    BY <1>7, <2>1 DEF SinksSeen
<1>14. NothingLost(f)
  <2>1. ASSUME opts.prune = "sinks", b.step.node \notin leads
        PROVE  \A x \in Range(ch) : x.mark = "cut" /\ ~IsSink(x.node) /\ x.children = <<>>
    <3>1. \A y \in Range(xs) : y.mark = "cut" /\ ~IsSink(y.node) /\ y.children = <<>>
      BY <1>1, <2>1 DEF FrameOK, NothingLost
    <3>2. QED
      BY <1>2, <1>r, <3>1
  <2>2. QED
    BY <1>7, <2>1 DEF NothingLost
<1>15. ASSUME NEW x \in Range(xs) PROVE Shows(UNION {StepsUnder(s) : s \in Range(ch)}, StepsUnder(x))
  <2>1. SUFFICES ASSUME NEW s \in StepsUnder(x)
                 PROVE  \E y \in Range(ch) : \E r \in StepsUnder(y) : Covers(r, s)
    BY DEF Shows
  <2>2. PICK j \in DOMAIN xs : x = xs[j]
    BY <1>r
  <2>3. CASE j = i
    BY <1>r, <2>2, <2>3 DEF Recounts
  <2>4. CASE j # i
    <3>1. Covers(s, s)
      BY DEF Covers
    <3>2. QED
      BY <1>2, <1>r, <2>2, <2>4, <3>1
  <2>5. QED
    BY <2>3, <2>4
<1>16. QED
  BY <1>7, <1>8, <1>11, <1>12, <1>13, <1>14, <1>15 DEF FrameOK

\* A child that shows nothing lost, when its caller leads nowhere.
Cut(c) == c.mark = "cut" /\ ~IsSink(c.node) /\ c.children = <<>>

With(b, c) == Append(b.step.children, c)

\* A call that becomes a child.
LEMMA FrameAdds ==
  ASSUME Same, expanded \subseteq expanded', leads \subseteq leads', Lost \subseteq Lost',
         NEW b, NEW d, NEW p, Facing(b, d, p), NEW e, e = Head(b.left), e \in Followed(b.step.node),
         NEW c, c.node = e.to, CallsOf(c) = 1, ChildOK(c, d), IsSink(e.to) => ShowsSink(c, e.to),
         d > 1 => ~Dropped(e.to, p) /\ \A x \in Range(b.step.children) : x.node # e.to,
         opts.prune = "sinks" /\ b.step.node \notin leads' => Cut(c),
         NEW ch, ch = With(b, c), NEW f, f = Turn(b, ch)
  PROVE  IsSeq(ch) /\ FrameOK(f, d, p)' /\ Range(ch) = Range(b.step.children) \cup {c}
<1>1. /\ IsFrame(b) /\ FrameOK(b, d, p) /\ b.left # <<>> /\ IsSeq(b.step.children) /\ d \in Nat
      /\ e.to \in DOMAIN graph.nodes /\ (d > 1 => Runs(e)) /\ GraphOK
  BY DEF Facing
<1>2. PICK xs : xs = b.step.children
  OBVIOUS
<1>3. IsSeq(ch) /\ Range(ch) = Range(xs) \cup {c}
  BY <1>1, <1>2, RangeAppend DEF With
<1>4. f.step.children = ch /\ f.left = Tail(b.left) /\ f.step.node = b.step.node
  BY <1>1, <1>3, TurnFields
<1>5. LeftOK(f, d)'
  BY <1>4, FrameTurns, TurnStays
<1>6. /\ Range(b.left) = {e} \cup Range(f.left)
      /\ \A m : m # e.to => LeftTo(f, m) = LeftTo(b, m)
      /\ Runs(e) => LeftTo(b, e.to) # {} /\ Cardinality(LeftTo(b, e.to)) = Cardinality(LeftTo(f, e.to)) + 1
      /\ \A m : Cardinality(LeftTo(b, m)) \in Nat /\ Cardinality(LeftTo(f, m)) \in Nat
  BY <1>4, LeftAfter
<1>7. graph' = graph /\ opts' = opts
  BY DEF Same
<1>8. \A x \in Range(ch) : ChildOK(x, d)'
  BY <1>1, <1>2, <1>3, ChildStays DEF FrameOK
<1>9. ASSUME d > 1 PROVE Counts(f, p)'
  <2>1. Counts(b, p) /\ \A x \in Range(xs) : x.node # e.to
    BY <1>1, <1>2, <1>9 DEF FrameOK
  <2>2. \A j, k \in DOMAIN ch : ch[j].node = ch[k].node => j = k
    <3>1. /\ Len(xs) \in Nat /\ DOMAIN xs = 1..Len(xs) /\ DOMAIN ch = 1..(Len(xs)+1) /\ ch[Len(xs)+1] = c
          /\ \A j \in 1..Len(xs) : ch[j] = xs[j]
      <4>1. PICK S : S = Range(xs) \cup {c}
        OBVIOUS
      <4>2. xs \in Seq(S) /\ c \in S /\ ch = Append(xs, c)
        BY <1>1, <1>2, <4>1 DEF IsSeq, With
      <4>3. QED
        BY <4>2
    <3>2. \A j \in 1..Len(xs) : xs[j].node # c.node
      BY <2>1, <3>1 DEF Range
    <3>3. \A j, k \in 1..Len(xs) : xs[j].node = xs[k].node => j = k
      BY <1>2, <2>1, <3>1 DEF Counts
    <3>4. \A j \in DOMAIN ch : j \in 1..Len(xs) \/ j = Len(xs) + 1
      BY <3>1
    <3>5. QED
      BY <3>1, <3>2, <3>3, <3>4
  <2>3. ASSUME NEW x \in Range(ch)
        PROVE  CallsOf(x) + Cardinality(LeftTo(f, x.node)) = Cardinality(CallsTo(f.step.node, x.node))
    <3>1. CASE x = c
      <4>1. LeftTo(b, e.to) = CallsTo(b.step.node, e.to)
        BY <1>1, <1>2, <1>9, <2>1 DEF Counts
      <4>2. QED
        BY <1>1, <1>4, <1>6, <1>9, <3>1, <4>1
    <3>2. CASE x \in Range(xs)
      <4>1. LeftTo(f, x.node) = LeftTo(b, x.node)
        BY <1>6, <2>1, <3>2
      <4>2. QED
        BY <1>2, <1>4, <2>1, <3>2, <4>1 DEF Counts
    <3>3. QED
      BY <1>3, <3>1, <3>2
  <2>4. ASSUME NEW m \in DOMAIN graph.nodes, \A x \in Range(ch) : x.node # m
        PROVE  LeftTo(f, m) = CallsTo(f.step.node, m) \/ Dropped(m, p)
    <3>1. (\A x \in Range(xs) : x.node # m) /\ m # e.to
      BY <1>3, <2>4
    <3>2. QED
      BY <1>2, <1>4, <1>6, <2>1, <3>1 DEF Counts
  <2>5. /\ \A m : Dropped(m, p) => Dropped(m, p)'
        /\ \A m, n : LeftTo(f, m)' = LeftTo(f, m) /\ CallsTo(n, m)' = CallsTo(n, m)
    BY TurnStays
  <2>6. QED
    BY <1>4, <1>7, <2>2, <2>3, <2>4, <2>5 DEF Counts
<1>10. SinksSeen(f)'
  <2>1. \A n : Followed(n)' = Followed(n) /\ IsSink(n)' = IsSink(n) /\ \A y : ShowsSink(y, n)' = ShowsSink(y, n)
    BY Stays, CoversSink
  <2>2. ASSUME NEW x \in Followed(b.step.node), x \notin Range(f.left), IsSink(x.to)
        PROVE  \E y \in Range(ch) : ShowsSink(y, x.to)
    <3>1. CASE x = e
      BY <1>3, <2>2, <3>1
    <3>2. CASE x # e
      BY <1>1, <1>2, <1>3, <1>6, <2>2, <3>2 DEF FrameOK, SinksSeen
    <3>3. QED
      BY <3>1, <3>2
  <2>3. QED
    BY <1>4, <2>1, <2>2 DEF SinksSeen
<1>11. NothingLost(f)'
  <2>1. \A n : IsSink(n)' = IsSink(n)
    BY Stays
  <2>2. ASSUME opts.prune = "sinks", b.step.node \notin leads'
        PROVE  \A x \in Range(ch) : x.mark = "cut" /\ ~IsSink(x.node) /\ x.children = <<>>
    BY <1>1, <1>2, <1>3, <2>2 DEF FrameOK, NothingLost, Cut
  <2>3. QED
    BY <1>4, <1>7, <2>1, <2>2 DEF NothingLost
<1>12. FrameOK(f, d, p)'
  BY <1>4, <1>5, <1>8, <1>9, <1>10, <1>11 DEF FrameOK
<1>13. QED
  BY <1>2, <1>3, <1>12

-----------------------------------------------------------------------------
\* Turns of the innermost frame.
LEMMA TurnLoses ==
  ASSUME FlowInv, Looking, expanded' = expanded, NEW ch, IsSeq(ch), NextEdge(ch),
         leads' \subseteq leads \cup {Inner.step.node}
  PROVE  Lost \subseteq Lost'
<1>1. Path(1)' = Path(1) /\ Inner.step.node \in Path(1)
  BY TurnPath DEF FlowInv
<1>2. QED
  BY <1>1 DEF Lost

LEMMA ShowsMore ==
  ASSUME NEW R, NEW S, R \subseteq S
  PROVE  \A c \in R : Shows(UNION {StepsUnder(s) : s \in S}, StepsUnder(c))
BY DEF Shows, Covers

LEMMA DropKeeps ==
  ASSUME FlowInv, Looking, Same, expanded' = expanded, Drop,
         Depth > 1 => ~Runs(E) \/ (Dropped(N, Path(1)) /\ Known = {}),
         IsSink(N) => Depth > 1 /\ ~Runs(E)
  PROVE  FlowInv'
<1>1. PICK b, d, p, e, ch : b = Inner /\ d = Depth /\ p = Path(1) /\ e = E /\ ch = Inner.step.children
  OBVIOUS
<1>2. Facing(b, d, p)
  BY <1>1, Innermost DEF Here
<1>3. e = Head(b.left) /\ IsSeq(ch) /\ NextEdge(ch) /\ leads' = leads
  BY <1>1, <1>2 DEF E, Facing, Drop
<1>4. Lost \subseteq Lost'
  BY <1>3, TurnLoses
<1>5. PICK f : f = Turn(b, b.step.children)
  OBVIOUS
<1>6. f = Turned(ch)
  BY <1>1, <1>5 DEF Turned
<1>7. d > 1 => ~Runs(e) \/ (Dropped(e.to, p)' /\ \A c \in Range(b.step.children) : c.node # e.to)
  <2>2. N = e.to
    BY <1>1 DEF N
  <2>3. Known = {} => \A c \in Range(b.step.children) : c.node # e.to
    BY <1>1, <2>2 DEF Known, Range
  <2>4. PICK m : m = N
    OBVIOUS
  <2>5. Dropped(m, p) => Dropped(m, p)'
    BY <1>4, TurnStays
  <2>6. QED
    BY <1>1, <2>2, <2>3, <2>4, <2>5
<1>8. IsSink(e.to) => d > 1 /\ ~Runs(e)
  BY <1>1 DEF N
<1>9. FrameOK(f, d, p)'
  BY <1>2, <1>3, <1>4, <1>5, <1>7, <1>8, FrameDrops
<1>10. \A c \in Range(Inner.step.children) : Shows(UNION {StepsUnder(s) : s \in Range(ch)}, StepsUnder(c))
  BY <1>1, ShowsMore
<1>11. \A n \in leads' : LeadsToSink(n)
  BY <1>3 DEF FlowInv
<1>12. leads \subseteq leads' /\ leads' \subseteq leads \cup {Inner.step.node}
  BY <1>3
<1>13. QED
  BY <1>1, <1>3, <1>6, <1>9, <1>10, <1>11, <1>12, TurnKeeps

LEMMA AgainKeeps ==
  ASSUME FlowInv, Again
  PROVE  FlowInv'
<1>1. PICK b, d, p, e, xs : b = Inner /\ d = Depth /\ p = Path(1) /\ e = E /\ xs = Inner.step.children
  OBVIOUS
<1>2. Looking /\ Depth > 1 /\ Runs(E) /\ Known # {} /\ Same /\ expanded' = expanded /\ leads' = leads
  BY DEF Again, Same
<1>3. PICK i : i = CHOOSE j \in Known : \A k \in Known : j <= k
  OBVIOUS
<1>4. Facing(b, d, p)
  BY <1>1, <1>2, Innermost DEF Here
<1>5. i \in Known
  <2>1. Known \in SUBSET Nat
    <3>1. IsSeq(xs)
      BY <1>1, <1>4 DEF Facing
    <3>2. Known \subseteq DOMAIN xs
      BY <1>1 DEF Known
    <3>3. QED
      BY <3>1, <3>2, DomainOfSeq
  <2>2. \E j \in Known : \A k \in Known : j <= k
    BY <1>2, <2>1, Least
  <2>3. QED
    BY <1>3, <2>2
<1>6. PICK ch : ch = [xs EXCEPT ![i].calls = CallsOf(xs[i]) + 1]
  OBVIOUS
<1>7. NextEdge(ch)
  BY <1>1, <1>3, <1>6 DEF Again
<1>8. i \in DOMAIN xs /\ xs[i].node = e.to /\ e = Head(b.left) /\ Runs(e) /\ xs = b.step.children
  BY <1>1, <1>2, <1>5 DEF Known, N, E
<1>9. Recounts(xs, i, ch, d)
  <2>1. DepthOK /\ d \in Nat /\ d > 0 /\ d <= opts.maxDepth /\ IsSeq(xs)
    BY <1>4, <1>8 DEF Facing
  <2>2. ChildOK(xs[i], d)
    BY <1>4, <1>8 DEF Facing, FrameOK, Range
  <2>3. QED
    BY <1>6, <1>8, <2>1, <2>2, ChildRecounted
<1>10. PICK f : f = Turn(b, ch)
  OBVIOUS
<1>11. /\ FrameOK(f, d, p)
       /\ \A c \in Range(xs) : Shows(UNION {StepsUnder(s) : s \in Range(ch)}, StepsUnder(c))
  BY <1>1, <1>2, <1>4, <1>8, <1>9, <1>10, FrameRecounts
<1>12. IsSeq(ch) /\ f = Turned(ch)
  BY <1>1, <1>9, <1>10 DEF Recounts, Turned
<1>13. Lost \subseteq Lost'
  BY <1>2, <1>7, <1>12, TurnLoses
<1>14. FrameOK(f, d, p)'
  BY <1>2, <1>11, <1>13, FrameStays
<1>15. \A n \in leads' : LeadsToSink(n)
  BY <1>2 DEF FlowInv
<1>16. leads \subseteq leads' /\ leads' \subseteq leads \cup {Inner.step.node}
  BY <1>2
<1>17. QED
  BY <1>1, <1>2, <1>7, <1>11, <1>12, <1>14, <1>15, <1>16, TurnKeeps

LEMMA AddKeeps ==
  ASSUME FlowInv, Expanding, Same, expanded' = expanded, NEW c, Add(c),
         c.node = N, CallsOf(c) = 1, ChildOK(c, Depth), Depth > 1 => ~Dropped(N, Path(1)),
         IsSink(N) => ShowsSink(c, N),
         opts.prune = "sinks" /\ ~IsSink(N) /\ N \notin leads => Cut(c)
  PROVE  FlowInv'
<1>1. PICK b, d, p, e, ch : b = Inner /\ d = Depth /\ p = Path(1) /\ e = E /\ ch = With(Inner, c)
  OBVIOUS
<1>2. Looking /\ (Depth > 1 => Runs(E) /\ Known = {})
  BY DEF Expanding
<1>3. Facing(b, d, p)
  BY <1>1, <1>2, Innermost DEF Here
<1>4. /\ e = Head(b.left) /\ e.to = N /\ e \in Followed(b.step.node) /\ NextEdge(ch)
      /\ leads' = IF IsSink(N) \/ N \in leads THEN leads \cup {b.step.node} ELSE leads
  BY <1>1, <1>2, <1>3 DEF E, N, Facing, Add, With
<1>5. IsSeq(ch)
  <2>1. IsSeq(b.step.children)
    BY <1>3 DEF Facing
  <2>2. PICK xs : xs = b.step.children
    OBVIOUS
  <2>3. IsSeq(Append(xs, c))
    BY <2>1, <2>2, RangeAppend
  <2>4. QED
    BY <1>1, <2>2, <2>3 DEF With
<1>6. leads \subseteq leads' /\ leads' \subseteq leads \cup {Inner.step.node}
  BY <1>1, <1>4
<1>7. Lost \subseteq Lost'
  BY <1>2, <1>4, <1>5, <1>6, TurnLoses
<1>8. PICK f : f = Turn(b, ch)
  OBVIOUS
<1>9. IsSeq(ch) /\ FrameOK(f, d, p)' /\ Range(ch) = Range(b.step.children) \cup {c}
  <2>1. d > 1 => ~Dropped(e.to, p) /\ \A x \in Range(b.step.children) : x.node # e.to
    BY <1>1, <1>2, <1>4 DEF Known, Range
  <2>2. opts.prune = "sinks" /\ b.step.node \notin leads' => Cut(c)
    BY <1>4
  <2>3. CallsOf(c) = 1 /\ ChildOK(c, d) /\ c.node = e.to /\ (IsSink(e.to) => ShowsSink(c, e.to))
    BY <1>1, <1>4
  <2>4. ch = With(b, c)
    BY <1>1
  <2>5. QED
    BY <1>3, <1>4, <1>6, <1>7, <1>8, <2>1, <2>2, <2>3, <2>4, FrameAdds
<1>10. \A x \in Range(Inner.step.children) : Shows(UNION {StepsUnder(s) : s \in Range(ch)}, StepsUnder(x))
  BY <1>1, <1>9, ShowsMore
<1>11. \A n \in leads' : LeadsToSink(n)
  <2>1. \A n \in leads : LeadsToSink(n)
    BY DEF FlowInv
  <2>2. GraphOK /\ b.step.node \in DOMAIN graph.nodes /\ e.to \in DOMAIN graph.nodes
    BY <1>3, <1>4 DEF Facing
  <2>3. IsSink(N) \/ N \in leads => LeadsToSink(e.to)
    BY <1>4, <2>1, <2>2, SinkLeads
  <2>4. IsSink(N) \/ N \in leads => LeadsToSink(b.step.node)
    BY <1>4, <2>2, <2>3, LeadsBack
  <2>5. QED
    BY <1>4, <2>1, <2>4
<1>12. f = Turned(ch)
  BY <1>1, <1>8 DEF Turned
<1>13. QED
  BY <1>1, <1>2, <1>4, <1>6, <1>9, <1>10, <1>11, <1>12, TurnKeeps

-----------------------------------------------------------------------------
\* The steps that the actions add.
LEMMA LeafOK ==
  ASSUME GraphOK, DepthOK, NEW d \in Nat, d > 0, d <= opts.maxDepth,
         NEW n \in DOMAIN graph.nodes, NEW e \in Range(graph.edges), NEW mark \in {Plain, "cycle", "ref", "cut"},
         mark = "ref" => n \in expanded /\ (opts.prune = "sinks" => n \in leads),
         opts.prune = "sinks" => mark = "cut" \/ LeadsToSink(n) \/ e.kind = "queries",
         NEW c, c = Step(n, e, mark)
  PROVE  /\ ChildOK(c, d) /\ Within(c, 0) /\ StepsUnder(c) = {c} /\ CallsOf(c) = 1
         /\ IsStep(c) /\ Counted(c) /\ RefKnown(c) /\ (opts.prune = "sinks" => Kept(c))
         /\ c.node = n /\ c.edge = e /\ c.mark = mark /\ c.children = <<>>
<1>1. c.node = n /\ c.edge = e /\ c.mark = mark /\ c.children = <<>> /\ c.calls = 0
  BY DEF Step
<1>2. Within(c, 0) /\ StepsUnder(c) = {c}
  BY <1>1, Leaf
<1>3. IsStep(c)
  <2>1. IsSeq(<<>>)
    BY DEF IsSeq
  <2>2. c \in [node : DOMAIN graph.nodes, edge : Range(graph.edges) \cup {NoEdge},
               mark : {Plain, "cycle", "ref", "cut"}, calls : Nat, children : {c.children}]
    <3>1. PICK D, G, M : /\ D = DOMAIN graph.nodes /\ G = Range(graph.edges) \cup {NoEdge}
                         /\ M = {Plain, "cycle", "ref", "cut"}
      OBVIOUS
    <3>2. n \in D /\ e \in G /\ mark \in M
      BY <3>1
    <3>3. c \in [node : D, edge : G, mark : M, calls : Nat, children : {c.children}]
      BY <3>2 DEF Step
    <3>4. QED
      BY <3>1, <3>3
  <2>3. QED
    BY <1>1, <2>1, <2>2 DEF IsStep
<1>4. Counted(c) /\ RefKnown(c) /\ (opts.prune = "sinks" => Kept(c))
  BY <1>1 DEF Counted, RefKnown, Kept
<1>5. Within(c, opts.maxDepth - d + 1)
  <2>1. opts.maxDepth - d + 1 \in Nat /\ opts.maxDepth - d + 1 > 0
    BY DEF DepthOK
  <2>2. \A m \in Nat : m > 0 => Within(c, m)
    BY <1>2, LevelsEnd
  <2>3. QED
    BY <2>1, <2>2
<1>6. ChildOK(c, d)
  BY <1>1, <1>2, <1>3, <1>4, <1>5 DEF ChildOK
<1>7. CallsOf(c) = 1
  BY <1>1 DEF CallsOf
<1>8. QED
  BY <1>1, <1>2, <1>3, <1>4, <1>6, <1>7

\* What the innermost frame knows about the edge it looks at.
LEMMA LookingAt ==
  ASSUME FlowInv, Looking
  PROVE  /\ GraphOK /\ DepthOK /\ Depth \in Nat /\ Depth > 0 /\ Depth <= opts.maxDepth
         /\ N \in DOMAIN graph.nodes /\ E \in Range(graph.edges)
         /\ (OnPath <=> N \in Path(1)) /\ (OnPath => ~IsSink(N))
<1>1. Here
  BY Innermost
<1>2. /\ GraphOK /\ DepthOK /\ Depth \in Nat /\ Depth > 0 /\ Depth <= opts.maxDepth
      /\ N \in DOMAIN graph.nodes /\ E \in Range(graph.edges) /\ (OnPath <=> N \in Path(1))
  <2>1. PICK b, d, p : b = Inner /\ d = Depth /\ p = Path(1)
    OBVIOUS
  <2>2. Facing(b, d, p)
    BY <1>1, <2>1 DEF Here
  <2>3. QED
    BY <1>1, <2>1, <2>2 DEF Facing, Here, E, N
<1>3. ASSUME OnPath PROVE ~IsSink(N)
  <2>1. PICK i \in DOMAIN frames : frames[i].step.node = N
    BY <1>3 DEF OnPath
  <2>2. FlowTypeOK /\ Stacked /\ DOMAIN frames = 1..Len(frames) /\ Len(frames) \in Nat
    BY DomainOfSeq DEF FlowInv, FlowTypeOK
  <2>3. CASE i = Len(frames)
    <3>1. N = opts.route /\ graph.nodes[opts.route].kind \in {"route", "entry"}
      BY <2>1, <2>2, <2>3 DEF Stacked, Looking, FlowTypeOK, IsOptions
    <3>2. QED
      BY <3>1 DEF IsSink, Kind
  <2>4. CASE i # Len(frames)
    BY <2>1, <2>2, <2>4 DEF Stacked, Pending
  <2>5. QED
    BY <2>3, <2>4
<1>4. QED
  BY <1>2, <1>3

LEMMA NotRunKeeps ==
  ASSUME FlowInv, NotRun
  PROVE  FlowInv'
<1>1. Looking /\ Depth > 1 /\ ~Runs(E) /\ Drop /\ Same /\ expanded' = expanded
  BY DEF NotRun, Same
<1>2. QED
  BY <1>1, DropKeeps

LEMMA CycleKeeps ==
  ASSUME FlowInv, Cycle
  PROVE  FlowInv'
<1>1. Expanding /\ Looking /\ (Depth > 1 => Known = {}) /\ OnPath /\ Same /\ expanded' = expanded
  BY DEF Cycle, Expanding, Same
<1>2. /\ GraphOK /\ DepthOK /\ Depth \in Nat /\ Depth > 0 /\ Depth <= opts.maxDepth
      /\ N \in DOMAIN graph.nodes /\ E \in Range(graph.edges) /\ N \in Path(1) /\ ~IsSink(N)
  BY <1>1, LookingAt
<1>3. Dropped(N, Path(1)) <=> opts.prune = "sinks"
  BY <1>2 DEF Dropped
<1>4. CASE opts.prune = "sinks"
  BY <1>1, <1>2, <1>3, <1>4, DropKeeps DEF Cycle
<1>5. CASE opts.prune # "sinks"
  <2>1. PICK c, d, n, e : c = Step(N, E, "cycle") /\ d = Depth /\ n = N /\ e = E
    OBVIOUS
  <2>2. ChildOK(c, d) /\ CallsOf(c) = 1 /\ c.node = n
    BY <1>2, <1>5, <2>1, LeafOK
  <2>3. Add(c)
    BY <1>5, <2>1 DEF Cycle
  <2>4. QED
    BY <1>1, <1>2, <1>3, <1>5, <2>1, <2>2, <2>3, AddKeeps
<1>6. QED
  BY <1>4, <1>5

LEMMA LeaveKeeps ==
  ASSUME FlowInv, Leave
  PROVE  FlowInv'
<1>1. /\ Expanding /\ Looking /\ (Depth > 1 => Known = {}) /\ Same /\ expanded' = expanded
      /\ ~OnPath /\ ~IsSink(N) /\ External(N)
  BY DEF Leave, Expanding, Same
<1>2. /\ GraphOK /\ DepthOK /\ Depth \in Nat /\ Depth > 0 /\ Depth <= opts.maxDepth
      /\ N \in DOMAIN graph.nodes /\ E \in Range(graph.edges) /\ N \notin Path(1)
  BY <1>1, LookingAt
<1>3. Dropped(N, Path(1)) <=> opts.prune # "none"
  BY <1>1, <1>2 DEF Dropped
<1>4. CASE opts.prune # "none"
  BY <1>1, <1>2, <1>3, <1>4, DropKeeps DEF Leave
<1>5. CASE opts.prune = "none"
  <2>1. PICK c, d, n, e : c = Step(N, E, Plain) /\ d = Depth /\ n = N /\ e = E
    OBVIOUS
  <2>2. ChildOK(c, d) /\ CallsOf(c) = 1 /\ c.node = n
    <3>1. Plain # "ref"
      BY DEF Plain
    <3>2. QED
      BY <1>2, <1>5, <2>1, <3>1, LeafOK
  <2>3. Add(c)
    BY <1>5, <2>1 DEF Leave
  <2>4. QED
    BY <1>1, <1>3, <1>5, <2>1, <2>2, <2>3, AddKeeps
<1>6. QED
  BY <1>4, <1>5

LEMMA RefKeeps ==
  ASSUME FlowInv, Ref
  PROVE  FlowInv'
<1>1. /\ Expanding /\ Looking /\ (Depth > 1 => Known = {}) /\ Same /\ expanded' = expanded
      /\ ~OnPath /\ ~IsSink(N) /\ ~External(N) /\ N \in expanded
  BY DEF Ref, Expandable, Expanding, Same
<1>2. /\ GraphOK /\ DepthOK /\ Depth \in Nat /\ Depth > 0 /\ Depth <= opts.maxDepth
      /\ N \in DOMAIN graph.nodes /\ E \in Range(graph.edges) /\ N \notin Path(1)
  BY <1>1, LookingAt
<1>3. Dropped(N, Path(1)) <=> opts.prune = "sinks" /\ N \notin leads
  BY <1>1, <1>2 DEF Dropped
<1>4. CASE opts.prune = "sinks" /\ N \notin leads
  BY <1>1, <1>2, <1>3, <1>4, DropKeeps DEF Ref
<1>5. CASE ~(opts.prune = "sinks" /\ N \notin leads)
  <2>1. PICK c, d, n, e : c = Step(N, E, "ref") /\ d = Depth /\ n = N /\ e = E
    OBVIOUS
  <2>2. N \in leads => LeadsToSink(n)
    BY <2>1 DEF FlowInv
  <2>3. ChildOK(c, d) /\ CallsOf(c) = 1 /\ c.node = n
    BY <1>1, <1>2, <1>5, <2>1, <2>2, LeafOK
  <2>4. Add(c)
    BY <1>5, <2>1 DEF Ref
  <2>5. QED
    BY <1>1, <1>3, <1>5, <2>1, <2>3, <2>4, AddKeeps
<1>6. QED
  BY <1>4, <1>5

LEMMA TruncateKeeps ==
  ASSUME FlowInv, Truncate
  PROVE  FlowInv'
<1>1. /\ Expanding /\ Looking /\ Same /\ expanded' = expanded
      /\ ~OnPath /\ ~IsSink(N) /\ ~External(N) /\ N \notin expanded
  BY DEF Truncate, Expandable, Expanding, Same
<1>2. /\ GraphOK /\ DepthOK /\ Depth \in Nat /\ Depth > 0 /\ Depth <= opts.maxDepth
      /\ N \in DOMAIN graph.nodes /\ E \in Range(graph.edges) /\ N \notin Path(1)
  BY <1>1, LookingAt
<1>3. ~Dropped(N, Path(1))
  BY <1>1, <1>2 DEF Dropped
<1>4. PICK c, d, n, e : c = Step(N, E, "cut") /\ d = Depth /\ n = N /\ e = E
  OBVIOUS
<1>5. ChildOK(c, d) /\ CallsOf(c) = 1 /\ c.node = n /\ c.mark = "cut" /\ c.children = <<>>
  BY <1>2, <1>4, LeafOK
<1>6. Add(c) /\ Cut(c)
  BY <1>1, <1>4, <1>5 DEF Truncate, Cut
<1>7. QED
  BY <1>1, <1>3, <1>4, <1>5, <1>6, AddKeeps

\* A sink with the tables qs that it queries.
Shown(n, e, qs) ==
  [Step(n, e, Plain) EXCEPT !.children = [i \in DOMAIN qs |-> Step(qs[i].to, qs[i], Plain)]]

LEMMA ShownOK ==
  ASSUME GraphOK, DepthOK, NEW d \in Nat, d > 0, d <= opts.maxDepth,
         NEW n \in DOMAIN graph.nodes, NEW e \in Range(graph.edges), IsSink(n),
         NEW qs, qs = Neighbors(graph, n, {"queries"}), NEW c, c = Shown(n, e, qs)
  PROVE  ChildOK(c, d) /\ CallsOf(c) = 1 /\ c.node = n /\ ShowsSink(c, n)
<1>1. /\ qs \in Seq(Range(graph.edges)) /\ IsSeq(qs)
      /\ \A x \in Range(qs) : x \in Range(graph.edges) /\ x.kind = "queries"
      /\ \A x \in Range(graph.edges) : x.from = n /\ x.kind = "queries" => x \in Range(qs)
  <2>1. PICK g : g = graph
    OBVIOUS
  <2>2. IsGraph(g) /\ qs = Neighbors(g, n, {"queries"})
    BY <2>1 DEF GraphOK
  <2>3. /\ qs \in Seq(Range(g.edges)) /\ IsSeq(qs)
        /\ Range(qs) = {x \in Range(g.edges) : x.from = n /\ x.kind \in {"queries"}}
    BY <2>2, NeighborsOnce
  <2>4. QED
    BY <2>1, <2>3
<1>2. PICK ks : ks = [i \in DOMAIN qs |-> Step(qs[i].to, qs[i], Plain)]
  OBVIOUS
<1>3. /\ c.node = n /\ c.edge = e /\ c.mark = Plain /\ c.children = ks /\ c.calls = 0
      /\ c = [node |-> n, edge |-> e, mark |-> Plain, calls |-> 0, children |-> ks]
  BY <1>2 DEF Shown, Step
<1>4. \A k \in Range(ks) : \E x \in Range(qs) : k = Step(x.to, x, Plain)
  BY <1>2 DEF Range
<1>5. ASSUME NEW k \in Range(ks)
      PROVE  /\ Within(k, 0) /\ StepsUnder(k) = {k}
             /\ IsStep(k) /\ Counted(k) /\ RefKnown(k) /\ (opts.prune = "sinks" => Kept(k))
  <2>1. PICK x \in Range(qs) : k = Step(x.to, x, Plain)
    BY <1>4
  <2>2. PICK m : m = x.to
    OBVIOUS
  <2>3. x \in Range(graph.edges) /\ x.kind = "queries" /\ m \in DOMAIN graph.nodes
    BY <1>1, <2>1, <2>2, FollowedEdges
  <2>4. k = Step(m, x, Plain) /\ Plain # "ref" /\ Plain \in {Plain, "cycle", "ref", "cut"}
    BY <2>1, <2>2 DEF Plain
  <2>5. QED
    BY <2>3, <2>4, LeafOK
<1>6. IsSeq(ks)
  <2>1. PICK S : S = Range(ks)
    OBVIOUS
  <2>2. Len(qs) \in Nat /\ DOMAIN qs = 1..Len(qs)
    BY <1>1, DomainOfSeq
  <2>3. ks \in [1..Len(qs) -> S]
    BY <1>2, <2>1, <2>2 DEF Range
  <2>4. ks \in Seq(S)
    BY <2>2, <2>3
  <2>5. QED
    BY <2>1, <2>4 DEF IsSeq
<1>7. IsStep(c)
  <2>1. PICK D, G, M : /\ D = DOMAIN graph.nodes /\ G = Range(graph.edges) \cup {NoEdge}
                       /\ M = {Plain, "cycle", "ref", "cut"}
    OBVIOUS
  <2>2. n \in D /\ e \in G /\ Plain \in M
    BY <2>1
  <2>3. c \in [node : D, edge : G, mark : M, calls : Nat, children : {c.children}]
    BY <1>3, <2>2
  <2>4. QED
    BY <1>3, <1>6, <2>1, <2>3 DEF IsStep
<1>8. Counted(c)
  BY <1>3 DEF Counted, IsSink
<1>9. RefKnown(c) /\ (opts.prune = "sinks" => Kept(c))
  <2>1. LeadsToSink(n)
    BY SinkLeads
  <2>2. QED
    BY <1>3, <2>1 DEF RefKnown, Kept, Plain
<1>10. Within(c, 0 + 1) /\ StepsUnder(c) = {c} \cup UNION {StepsUnder(k) : k \in Range(c.children)}
  <2>1. 0 <= opts.maxDepth /\ \A k \in Range(c.children) : Within(k, 0)
    BY <1>3, <1>5 DEF DepthOK
  <2>2. QED
    BY <2>1, Under
<1>11. Within(c, opts.maxDepth - d + 1)
  <2>1. PICK h : h = opts.maxDepth - d + 1
    OBVIOUS
  <2>2. h \in Nat /\ h >= 1
    BY <2>1 DEF DepthOK
  <2>3. \A m \in Nat : m > 1 => Within(c, m)
    BY <1>10, LevelsEnd
  <2>4. h = 1 \/ h > 1
    BY <2>2
  <2>5. QED
    BY <1>10, <2>1, <2>2, <2>3, <2>4
<1>12. \A s \in StepsUnder(c) : IsStep(s) /\ Counted(s) /\ RefKnown(s) /\ (opts.prune = "sinks" => Kept(s))
  <2>1. \A s \in StepsUnder(c) : s = c \/ s \in Range(ks)
    BY <1>3, <1>5, <1>10
  <2>2. QED
    BY <1>5, <1>7, <1>8, <1>9, <2>1
<1>13. ChildOK(c, d)
  BY <1>3, <1>11, <1>12 DEF ChildOK
<1>14. ShowsSink(c, n)
  <2>1. ASSUME NEW q \in Range(graph.edges), q.from = n, q.kind = "queries"
        PROVE  \E k \in Range(ks) : k.node = q.to /\ k.edge = q
    <3>1. PICK i \in DOMAIN qs : q = qs[i]
      BY <1>1, <2>1 DEF Range
    <3>2. ks[i].node = q.to /\ ks[i].edge = q /\ ks[i] \in Range(ks)
      BY <1>2, <3>1 DEF Step, Range
    <3>3. QED
      BY <3>2
  <2>2. QED
    BY <1>3, <2>1 DEF ShowsSink
<1>15. QED
  BY <1>3, <1>13, <1>14 DEF CallsOf

LEMMA SinkKeeps ==
  ASSUME FlowInv, Sink
  PROVE  FlowInv'
<1>1. Expanding /\ Looking /\ Same /\ expanded' = expanded /\ ~OnPath /\ IsSink(N)
  BY DEF Sink, Expanding, Same
<1>2. /\ GraphOK /\ DepthOK /\ Depth \in Nat /\ Depth > 0 /\ Depth <= opts.maxDepth
      /\ N \in DOMAIN graph.nodes /\ E \in Range(graph.edges)
  BY <1>1, LookingAt
<1>3. PICK c, d, n, e, qs : /\ c = Shown(N, E, qs) /\ d = Depth /\ n = N /\ e = E
                            /\ qs = Neighbors(graph, N, {"queries"})
  OBVIOUS
<1>4. ChildOK(c, d) /\ CallsOf(c) = 1 /\ c.node = n /\ ShowsSink(c, n)
  BY <1>1, <1>2, <1>3, ShownOK
<1>5. Add(c)
  BY <1>3 DEF Sink, Shown
<1>6. ~Dropped(N, Path(1))
  BY <1>1 DEF Dropped
<1>7. QED
  BY <1>1, <1>3, <1>4, <1>5, <1>6, AddKeeps

-----------------------------------------------------------------------------
\* expand goes into a node.
Pushes(new, n) ==
  /\ n \in Nat /\ n > 0 /\ DOMAIN frames = 1..n /\ DOMAIN frames' = 1..(n+1) /\ Len(frames') = n + 1
  /\ IsSeq(frames') /\ frames'[1] = new /\ Range(frames') = {new} \cup Range(frames)
  /\ \A i \in 1..n : frames'[i+1] = frames[i] /\ Path(i+1)' = Path(i) /\ At(i+1)' = At(i)
  /\ At(1)' = n + 1 /\ Path(1)' = Path(1) \cup {new.step.node}

Onto(a, s) == <<a>> \o s

IsOnto(t, a, s) ==
  /\ IsSeq(t) /\ Len(t) = Len(s) + 1 /\ DOMAIN t = 1..(Len(s)+1) /\ t[1] = a
  /\ \A i \in 1..Len(s) : t[i+1] = s[i]
  /\ Range(t) = {a} \cup Range(s)

LEMMA OntoProperties ==
  ASSUME NEW S, NEW a \in S, NEW s \in Seq(S), NEW t, t = Onto(a, s)
  PROVE  IsOnto(t, a, s)
<1> DEFINE u == <<a>>
<1>1. u \in Seq(S) /\ Len(u) = 1 /\ u[1] = a
  OBVIOUS
<1>u. t = u \o s
  BY DEF Onto
<1> HIDE DEF u
<1>2. /\ t \in Seq(S) /\ Len(t) = 1 + Len(s)
      /\ \A i \in 1..(1 + Len(s)) : t[i] = IF i <= 1 THEN u[i] ELSE s[i - 1]
  <2>1. /\ u \o s \in Seq(S) /\ Len(u \o s) = Len(u) + Len(s)
        /\ \A i \in 1..(Len(u) + Len(s)) : (u \o s)[i] = IF i <= Len(u) THEN u[i] ELSE s[i - Len(u)]
    BY <1>1, ConcatProperties
  <2>2. QED
    BY <1>1, <1>u, <2>1
<1>3. Len(s) \in Nat /\ DOMAIN s = 1..Len(s) /\ DOMAIN t = 1..(Len(s)+1)
  BY <1>2
<1>4. t[1] = a
  BY <1>1, <1>2, <1>3
<1>5. ASSUME NEW i \in 1..Len(s) PROVE t[i+1] = s[i]
  <2>1. i + 1 \in 1..(1 + Len(s)) /\ ~(i + 1 <= 1) /\ (i + 1) - 1 = i
    BY <1>3
  <2>2. QED
    BY <1>2, <2>1
<1>6. Range(t) = {a} \cup Range(s)
  <2>1. ASSUME NEW i \in DOMAIN t PROVE t[i] = a \/ \E j \in DOMAIN s : t[i] = s[j]
    <3>1. CASE i = 1
      BY <1>4, <3>1
    <3>2. CASE i # 1
      <4>1. i - 1 \in 1..Len(s) /\ (i - 1) + 1 = i
        BY <1>3, <3>2
      <4>2. QED
        BY <1>3, <1>5, <4>1
    <3>3. QED
      BY <3>1, <3>2
  <2>2. \A j \in DOMAIN s : j + 1 \in DOMAIN t /\ t[j+1] = s[j]
    BY <1>3, <1>5
  <2>3. 1 \in DOMAIN t /\ t[1] = a
    BY <1>3, <1>4
  <2>4. QED
    BY <2>1, <2>2, <2>3 DEF Range
<1>7. IsSeq(t)
  BY <1>2, SeqRange
<1>8. QED
  BY <1>2, <1>3, <1>4, <1>5, <1>6, <1>7 DEF IsOnto

LEMMA Pushed ==
  ASSUME FlowTypeOK, frames # <<>>, NEW new, frames' = Onto(new, frames), NEW n, n = Len(frames)
  PROVE  Pushes(new, n)
<1>1. PICK S, fs : fs = frames /\ S = Range(frames) \cup {new}
  OBVIOUS
<1>2. fs \in Seq(S) /\ fs # <<>> /\ new \in S /\ n = Len(fs) /\ frames' = Onto(new, fs)
  <2>1. frames \in Seq(Range(frames))
    BY DEF FlowTypeOK, IsSeq
  <2>2. QED
    BY <1>1, <2>1
<1>3. n \in Nat /\ n > 0 /\ DOMAIN fs = 1..n
  BY <1>2, EmptySeq
<1>4. /\ IsSeq(frames') /\ Len(frames') = n + 1 /\ DOMAIN frames' = 1..(n+1)
      /\ frames'[1] = new /\ \A i \in 1..n : frames'[i+1] = fs[i]
      /\ Range(frames') = {new} \cup Range(fs)
  <2>1. PICK gs : gs = frames'
    OBVIOUS
  <2>2. gs = Onto(new, fs)
    BY <1>2, <2>1
  <2>3. IsOnto(gs, new, fs)
    BY <1>2, <2>2, OntoProperties
  <2>4. QED
    BY <1>2, <2>1, <2>3 DEF IsOnto
<1>6. ASSUME NEW i \in 1..n PROVE Path(i+1)' = Path(i) /\ At(i+1)' = At(i)
  <2>1. Path(i+1)' = NodesOf(frames', (i+1)..(n+1)) /\ Path(i) = NodesOf(fs, i..n)
    BY <1>1, <1>2, <1>4 DEF Path, NodesOf
  <2>2. \A k \in (i+1)..(n+1) : k - 1 \in i..n /\ frames'[k] = fs[k-1]
    <3>1. ASSUME NEW k \in (i+1)..(n+1) PROVE k - 1 \in i..n /\ k - 1 \in 1..n /\ (k - 1) + 1 = k
      BY <1>3
    <3>2. QED
      BY <1>4, <3>1
  <2>3. \A k \in i..n : k + 1 \in (i+1)..(n+1) /\ frames'[k+1] = fs[k]
    BY <1>3, <1>4
  <2>4. PICK g, I, h, J : g = frames' /\ I = (i+1)..(n+1) /\ h = fs /\ J = i..n
    OBVIOUS
  <2>5. /\ \A k \in I : \E j \in J : g[k].step.node = h[j].step.node
        /\ \A j \in J : \E k \in I : h[j].step.node = g[k].step.node
    BY <2>2, <2>3, <2>4
  <2>6. NodesOf(g, I) = NodesOf(h, J)
    BY <2>5, SameNodes
  <2>7. At(i+1)' = At(i)
    BY <1>1, <1>2, <1>3, <1>4 DEF At
  <2>8. QED
    BY <2>1, <2>4, <2>6, <2>7
<1>7. Path(1)' = Path(1) \cup {new.step.node}
  <2>1. Path(1)' = NodesOf(frames', 1..(n+1)) /\ Path(1) = NodesOf(fs, 1..n)
    BY <1>1, <1>2, <1>4 DEF Path, NodesOf
  <2>2. \A k \in 1..(n+1) : k = 1 \/ (k - 1 \in 1..n /\ frames'[k] = fs[k-1])
    <3>1. ASSUME NEW k \in 1..(n+1), k # 1 PROVE k - 1 \in 1..n /\ (k - 1) + 1 = k
      BY <1>3, <3>1
    <3>2. QED
      BY <1>4, <3>1
  <2>3. \A k \in 1..n : k + 1 \in 1..(n+1) /\ frames'[k+1] = fs[k]
    BY <1>3, <1>4
  <2>4. PICK g, I, J : g = frames' /\ I = 1..(n+1) /\ J = 1..n
    OBVIOUS
  <2>5. /\ \A k \in I : g[k].step.node = new.step.node \/ \E j \in J : g[k].step.node = fs[j].step.node
        /\ \A j \in J : \E k \in I : fs[j].step.node = g[k].step.node
        /\ \E k \in I : g[k].step.node = new.step.node
    <3>1. \A k \in I : g[k].step.node = new.step.node \/ \E j \in J : g[k].step.node = fs[j].step.node
      BY <1>4, <2>2, <2>4
    <3>2. \A j \in J : \E k \in I : fs[j].step.node = g[k].step.node
      BY <2>3, <2>4
    <3>3. 1 \in I /\ g[1] = new
      BY <1>3, <1>4, <2>4
    <3>4. QED
      BY <3>1, <3>2, <3>3
  <2>6. NodesOf(g, I) = NodesOf(fs, J) \cup {new.step.node}
    BY <2>5 DEF NodesOf
  <2>7. QED
    BY <2>1, <2>4, <2>6
<1>9. At(1)' = n + 1
  BY <1>3, <1>4 DEF At
<1>10. QED
  BY <1>1, <1>3, <1>4, <1>6, <1>7, <1>9 DEF Pushes

\* The frame of a node that is expanded.
LEMMA NewFrame ==
  ASSUME GraphOK, DepthOK, NEW n \in DOMAIN graph.nodes, n # opts.route, ~IsSink(n), ~External(n),
         NEW e \in Range(graph.edges), NEW d, d > 1,
         NEW f, f = [step |-> Step(n, e, Plain), left |-> Neighbors(graph, n, {"calls", "dispatches_to"})]
  PROVE  IsFrame(f) /\ f.step = Step(n, e, Plain) /\ \A p : FrameOK(f, d, p)
<1>1. PICK s, l : s = Step(n, e, Plain) /\ l = Neighbors(graph, n, {"calls", "dispatches_to"})
  OBVIOUS
<1>2. f.step = s /\ f.left = l /\ f = [step |-> s, left |-> l]
  BY <1>1
<1>3. /\ l \in Seq(Range(graph.edges)) /\ \A i, j \in DOMAIN l : l[i] = l[j] => i = j
      /\ Range(l) = {x \in Range(graph.edges) : x.from = n /\ x.kind \in {"calls", "dispatches_to"}}
  <2>1. PICK g : g = graph
    OBVIOUS
  <2>2. IsGraph(g) /\ l = Neighbors(g, n, {"calls", "dispatches_to"})
    BY <1>1, <2>1 DEF GraphOK
  <2>3. /\ l \in Seq(Range(g.edges)) /\ \A i, j \in DOMAIN l : l[i] = l[j] => i = j
        /\ Range(l) = {x \in Range(g.edges) : x.from = n /\ x.kind \in {"calls", "dispatches_to"}}
    BY <2>2, NeighborsOnce
  <2>4. QED
    BY <2>1, <2>3
<1>4. IsStep(s) /\ s.node = n /\ s.children = <<>>
  <2>1. s.node = n /\ s.children = <<>>
    BY <1>1 DEF Step
  <2>2. PICK D, G, M : /\ D = DOMAIN graph.nodes /\ G = Range(graph.edges) \cup {NoEdge}
                       /\ M = {Plain, "cycle", "ref", "cut"}
    OBVIOUS
  <2>3. n \in D /\ e \in G /\ Plain \in M
    BY <2>2
  <2>4. s \in [node : D, edge : G, mark : M, calls : Nat, children : {s.children}]
    BY <1>1, <2>3 DEF Step
  <2>5. IsSeq(<<>>)
    BY DEF IsSeq
  <2>6. QED
    BY <2>1, <2>2, <2>4, <2>5 DEF IsStep
<1>5. IsFrame(f)
  BY <1>2, <1>3, <1>4 DEF IsFrame
<1>6. LeftOK(f, d)
  BY <1>2, <1>3, <1>4 DEF LeftOK
<1>7. Range(f.step.children) = {} /\ DOMAIN f.step.children = {}
  BY <1>2, <1>4 DEF Range
<1>8. Followed(n) = {x \in Range(l) : Runs(x)}
  BY <1>3 DEF Followed
<1>9. ASSUME NEW p PROVE Counts(f, p)
  <2>1. \A m : LeftTo(f, m) = CallsTo(n, m)
    BY <1>2, <1>8 DEF LeftTo, CallsTo
  <2>2. QED
    BY <1>2, <1>4, <1>7, <2>1 DEF Counts
<1>10. SinksSeen(f)
  BY <1>2, <1>4, <1>8 DEF SinksSeen
<1>11. NothingLost(f)
  BY <1>7 DEF NothingLost
<1>12. QED
  BY <1>1, <1>2, <1>5, <1>6, <1>7, <1>9, <1>10, <1>11 DEF FrameOK

LEMMA DescendKeeps ==
  ASSUME FlowInv, Descend
  PROVE  FlowInv'
<1>1. /\ Expanding /\ Looking /\ Same /\ expanded' = expanded \cup {N} /\ leads' = leads /\ frames # <<>>
      /\ ~OnPath /\ ~IsSink(N) /\ ~External(N) /\ N \notin expanded /\ Depth < opts.maxDepth
  BY DEF Descend, Expandable, Expanding, Looking, Same
<1>2. /\ GraphOK /\ DepthOK /\ Depth \in Nat /\ Depth > 0 /\ N \in DOMAIN graph.nodes
      /\ E \in Range(graph.edges) /\ N \notin Path(1) /\ Here
  BY <1>1, LookingAt, Innermost
<1>3. PICK n, new, m, e : /\ n = Len(frames) /\ m = N /\ e = E
                          /\ new = [step |-> Step(N, E, Plain), left |-> Neighbors(graph, N, {"calls", "dispatches_to"})]
  OBVIOUS
<1>4. frames' = Onto(new, frames)
  BY <1>3 DEF Descend, Onto
<1>5. FlowTypeOK /\ Stacked
  BY DEF FlowInv
<1>6. Pushes(new, n)
  BY <1>1, <1>3, <1>4, <1>5, Pushed
<1>7. /\ n \in Nat /\ n > 0 /\ DOMAIN frames = 1..n /\ DOMAIN frames' = 1..(n+1) /\ Len(frames') = n + 1
      /\ IsSeq(frames') /\ frames'[1] = new /\ Range(frames') = {new} \cup Range(frames)
      /\ \A i \in 1..n : frames'[i+1] = frames[i] /\ Path(i+1)' = Path(i) /\ At(i+1)' = At(i)
      /\ At(1)' = n + 1 /\ Path(1)' = Path(1) \cup {new.step.node}
  BY <1>6 DEF Pushes
<1>8. opts.route \in Path(1) /\ m # opts.route
  BY <1>2, <1>3 DEF Here
<1>9. /\ IsFrame(new) /\ new.step.node = m /\ new.step.mark = Plain /\ new.step.edge = e /\ new.step.calls = 0
      /\ new.step.children = <<>> /\ \A p : FrameOK(new, n + 1, p)
  <2>1. m \in DOMAIN graph.nodes /\ ~IsSink(m) /\ ~External(m) /\ e \in Range(graph.edges) /\ n + 1 > 1
    BY <1>1, <1>2, <1>3, <1>7
  <2>2. new = [step |-> Step(m, e, Plain), left |-> Neighbors(graph, m, {"calls", "dispatches_to"})]
    BY <1>3
  <2>3. IsFrame(new) /\ new.step = Step(m, e, Plain) /\ \A p : FrameOK(new, n + 1, p)
    BY <1>2, <1>8, <2>1, <2>2, NewFrame
  <2>4. QED
    BY <2>3 DEF Step
<1>10. graph' = graph /\ opts' = opts
  BY <1>1 DEF Same
<1>11. Lost \subseteq Lost'
  BY <1>1, <1>3, <1>7, <1>9 DEF Lost
<1>12. FlowTypeOK'
  <2>1. ASSUME NEW g \in Range(frames')
        PROVE  IsStep(g.step)' /\ g \in [step : {g.step}, left : Seq(Range(graph.edges))]
    <3>1. IsFrame(g)
      BY <1>5, <1>7, <1>9 DEF FlowTypeOK, IsFrame
    <3>2. QED
      BY <1>1, <3>1, Stays DEF IsFrame
  <2>2. expanded' \subseteq DOMAIN graph.nodes /\ leads' \subseteq DOMAIN graph.nodes
    BY <1>1, <1>2, <1>5 DEF FlowTypeOK
  <2>3. IsGraph(graph)' /\ IsOptions(graph, opts)' /\ Len(frames') <= opts.maxDepth
    BY <1>1, <1>2, <1>3, <1>5, <1>7, <1>10 DEF FlowTypeOK, IsOptions, Depth, DepthOK
  <2>4. QED
    BY <1>7, <1>10, <2>1, <2>2, <2>3 DEF FlowTypeOK
<1>13. Stacked'
  <2>1. frames'[n+1].step.node = opts.route /\ frames'[n+1].step.mark = Plain /\ opts.route \notin expanded'
    <3>1. frames[n].step.node = opts.route /\ frames[n].step.mark = Plain /\ opts.route \notin expanded
      BY <1>1, <1>3, <1>5 DEF Stacked
    <3>2. frames'[n+1] = frames[n]
      BY <1>7
    <3>3. QED
      BY <1>1, <1>3, <1>8, <3>1, <3>2
  <2>2. ASSUME NEW i \in 1..(n+1), i < n + 1
        PROVE  Pending(frames[i].step, frames[i+1], At(i))' /\ (frames[i].step.node \notin Path(i+1))'
    <3>1. CASE i = 1
      <4>1. frames'[1+1] = frames[1] /\ Path(1+1)' = Path(1) /\ Inner = frames[1]
        BY <1>2, <1>7 DEF Here
      <4>2. PICK s, b, a : s = new.step /\ b = frames[1] /\ a = n + 1
        OBVIOUS
      <4>3. b.left # <<>> /\ s.edge = Head(b.left) /\ s.edge.to = s.node
        BY <1>1, <1>3, <1>9, <4>1, <4>2 DEF Looking, E, N
      <4>4. a > 2 => Runs(s.edge) /\ \A c \in Range(b.step.children) : c.node # s.node
        <5>1. a > 2 => Depth > 1
          BY <1>3, <1>7, <4>2 DEF Depth
        <5>2. QED
          BY <1>1, <1>3, <1>9, <4>1, <4>2, <5>1 DEF Expanding, Known, Range
      <4>5. Pending(s, b, a)'
        <5>1. ~IsSink(s.node)' /\ ~External(s.node)' /\ (Runs(s.edge) => Runs(s.edge)')
          <6>1. PICK x, y : x = s.node /\ y = s.edge
            OBVIOUS
          <6>2. IsSink(x)' = IsSink(x) /\ External(x)' = External(x) /\ Runs(y)' = Runs(y)
            BY <1>1, Stays
          <6>3. QED
            BY <1>1, <1>3, <1>9, <4>2, <6>1, <6>2
        <5>2. s.mark = Plain /\ s.calls = 0 /\ s.node \in expanded'
          BY <1>1, <1>3, <1>9, <4>2
        <5>3. QED
          BY <4>3, <4>4, <5>1, <5>2 DEF Pending
      <4>6. m \notin Path(1)
        BY <1>2, <1>3
      <4>7. QED
        BY <1>7, <1>9, <3>1, <4>1, <4>2, <4>5, <4>6
    <3>2. CASE i # 1
      <4>1. PICK j : j = i - 1
        OBVIOUS
      <4>2. j \in 1..n /\ j + 1 \in 1..n /\ i = j + 1 /\ j < n
        BY <1>7, <2>2, <3>2, <4>1
      <4>3. Pending(frames[j].step, frames[j+1], At(j)) /\ frames[j].step.node \notin Path(j+1)
        BY <1>3, <1>5, <1>7, <4>2 DEF Stacked
      <4>4. frames'[i] = frames[j] /\ frames'[i+1] = frames[j+1] /\ At(i)' = At(j) /\ Path(i+1)' = Path(j+1)
        BY <1>7, <4>2
      <4>5. PICK s, b, a : s = frames[j].step /\ b = frames[j+1] /\ a = At(j)
        OBVIOUS
      <4>6. Pending(s, b, a)'
        <5>1. Pending(s, b, a)
          BY <4>3, <4>5
        <5>2. s.node \in expanded => s.node \in expanded'
          BY <1>1
        <5>3. QED
          BY <1>1, <5>1, <5>2, Stays DEF Pending
      <4>7. QED
        BY <4>3, <4>4, <4>5, <4>6
    <3>3. QED
      BY <3>1, <3>2
  <2>3. QED
    BY <1>7, <1>10, <2>1, <2>2 DEF Stacked
<1>14. \A i \in DOMAIN frames' : FrameOK(frames[i], At(i), Path(i))'
  <2>1. SUFFICES ASSUME NEW i \in 1..(n+1), NEW g, g = frames'[i], NEW a, a = At(i)', NEW q, q = Path(i)'
                 PROVE  FrameOK(g, a, q)'
    BY <1>7
  <2>2. FrameOK(g, a, q)
    <3>1. CASE i = 1
      BY <1>7, <1>9, <2>1, <3>1
    <3>2. CASE i # 1
      <4>1. PICK j : j = i - 1
        OBVIOUS
      <4>2. j \in 1..n /\ i = j + 1
        BY <1>7, <2>1, <3>2, <4>1
      <4>3. g = frames[j] /\ a = At(j) /\ q = Path(j)
        BY <1>7, <2>1, <4>2
      <4>4. QED
        BY <1>7, <4>2, <4>3 DEF FlowInv
    <3>3. QED
      BY <3>1, <3>2
  <2>3. QED
    BY <1>1, <1>11, <2>2, FrameStays
<1>15. \A x \in leads' : LeadsToSink(x)'
  BY <1>1, Stays DEF FlowInv
<1>16. ExpandedBuilt'
  <2>1. Shows(Built', Built)
    <3>1. ASSUME NEW s \in Built PROVE s \in Built'
      <4>1. PICK i \in 1..n : \E c \in Range(frames[i].step.children) : s \in StepsUnder(c)
        BY <1>7, BuiltSteps
      <4>2. PICK c \in Range(frames[i].step.children) : s \in StepsUnder(c)
        BY <4>1
      <4>3. i + 1 \in DOMAIN frames' /\ frames'[i+1] = frames[i]
        BY <1>7
      <4>4. StepsUnder(c)' = StepsUnder(c)
        BY <1>1, Stays
      <4>5. QED
        BY <4>2, <4>3, <4>4 DEF Built, Range
    <3>2. QED
      BY <3>1 DEF Shows, Covers
  <2>2. ASSUME NEW x \in expanded' \ Path(1)' PROVE NodeBuilt(x)'
    <3>1. x \in expanded \ Path(1)
      BY <1>1, <1>3, <1>7, <1>9
    <3>2. NodeBuilt(x) /\ (x \in leads' => x \in leads)
      BY <1>1, <3>1 DEF FlowInv, ExpandedBuilt
    <3>3. QED
      BY <1>1, <2>1, <3>2, BuiltStays
  <2>3. QED
    BY <2>2 DEF ExpandedBuilt
<1>17. QED
  BY <1>12, <1>13, <1>14, <1>15, <1>16 DEF FlowInv

-----------------------------------------------------------------------------
\* expand returns from frame a to frame b, which waits at edge e.
Returns(a, b, e, n, d, p) ==
  /\ n \in Nat /\ n > 1 /\ d = n - 1 /\ DOMAIN frames = 1..n /\ Len(frames) = n
  /\ a = frames[1] /\ b = frames[2] /\ a = Inner /\ e = Head(b.left) /\ d = At(2) /\ p = Path(2)
  /\ a.left = <<>> /\ IsFrame(a) /\ FrameOK(a, n, Path(1)) /\ Facing(b, d, p)
  /\ a.step.node = e.to /\ a.step.edge = e /\ a.step.mark = Plain /\ a.step.calls = 0
  /\ Path(1) = p \cup {e.to} /\ e.to \notin p
  /\ e \in Followed(b.step.node) /\ e.to \in expanded /\ ~IsSink(e.to) /\ ~External(e.to)
  /\ d > 1 => \A x \in Range(b.step.children) : x.node # e.to

LEMMA Returning ==
  ASSUME FlowInv, Depth > 1, Inner.left = <<>>, NEW n, n = Depth, NEW a, a = Inner, NEW b, b = frames[2],
         NEW e, e = Head(b.left), NEW d, d = At(2), NEW p, p = Path(2)
  PROVE  Returns(a, b, e, n, d, p)
<1>1. FlowTypeOK /\ Stacked
  BY DEF FlowInv
<1>2. n = Len(frames) /\ n \in Nat /\ DOMAIN frames = 1..n /\ n > 1
  BY <1>1, DomainOfSeq DEF FlowTypeOK, Depth
<1>3. a = frames[1]
  BY <1>2 DEF Inner
<1>4. d = n - 1 /\ At(1) = n
  BY <1>2 DEF At
<1>5. /\ Pending(frames[1].step, frames[1+1], At(1)) /\ frames[1].step.node \notin Path(1+1)
  BY <1>1, <1>2 DEF Stacked
<1>6. /\ a.step.node = e.to /\ a.step.edge = e /\ a.step.mark = Plain /\ a.step.calls = 0
      /\ b.left # <<>> /\ e.to \notin p /\ e.to \in expanded /\ ~IsSink(e.to) /\ ~External(e.to)
      /\ n > 2 => Runs(e) /\ \A x \in Range(b.step.children) : x.node # e.to
  BY <1>3, <1>4, <1>5 DEF Pending
<1>7. Facing(b, d, p)
  <2>1. 2 \in DOMAIN frames
    BY <1>2
  <2>2. PICK i : i = 2
    OBVIOUS
  <2>3. i \in DOMAIN frames /\ b = frames[i] /\ d = At(i) /\ p = Path(i)
    BY <2>1, <2>2
  <2>4. QED
    BY <1>6, <2>3, Faces
<1>8. e \in Followed(b.step.node)
  BY <1>2, <1>4, <1>6, <1>7 DEF Facing
<1>9. IsFrame(a) /\ FrameOK(a, n, Path(1))
  <2>1. 1 \in DOMAIN frames /\ a \in Range(frames)
    BY <1>2, <1>3 DEF Range
  <2>2. IsFrame(a)
    BY <1>1, <2>1 DEF FlowTypeOK, IsFrame
  <2>3. FrameOK(frames[1], At(1), Path(1))
    BY <2>1 DEF FlowInv
  <2>4. QED
    BY <1>3, <1>4, <2>2, <2>3
<1>10. Path(1) = p \cup {e.to}
  <2>1. 1..n = {1} \cup 2..n
    BY <1>2
  <2>2. Path(1) = {frames[k].step.node : k \in {1} \cup 2..n} /\ p = {frames[k].step.node : k \in 2..n}
    BY <1>2, <2>1 DEF Path
  <2>3. QED
    BY <1>3, <1>6, <2>2
<1>11. d > 1 => \A x \in Range(b.step.children) : x.node # e.to
  BY <1>2, <1>4, <1>6
<1>12. QED
  BY <1>2, <1>3, <1>4, <1>6, <1>7, <1>8, <1>9, <1>10, <1>11 DEF Returns

\* The step that a call of expand returns.
Grouped(a) == [a.step EXCEPT !.children = GroupParallel(@)]

LEMMA GroupedOK ==
  ASSUME NEW a, NEW b, NEW e, NEW n, NEW d, NEW p, Returns(a, b, e, n, d, p), \A x \in leads : LeadsToSink(x),
         opts.prune = "sinks" => e.to \in leads, NEW c, c = Grouped(a)
  PROVE  /\ ChildOK(c, d) /\ CallsOf(c) = 1 /\ c.node = e.to /\ c.mark = Plain /\ c \in StepsUnder(c)
         /\ \A x \in Range(a.step.children) : StepsUnder(x) \subseteq StepsUnder(c)
<1>1. /\ n \in Nat /\ n > 1 /\ d = n - 1 /\ a.left = <<>> /\ IsFrame(a) /\ FrameOK(a, n, Path(1)) /\ Facing(b, d, p)
      /\ a.step.node = e.to /\ a.step.edge = e /\ a.step.mark = Plain /\ a.step.calls = 0
      /\ e \in Followed(b.step.node)
  BY DEF Returns
<1>2. GraphOK /\ DepthOK /\ d \in Nat /\ d > 0 /\ d <= opts.maxDepth
  BY <1>1 DEF Facing
<1>3. PICK xs : xs = a.step.children
  OBVIOUS
<1>4. IsStep(a.step) /\ IsSeq(xs)
  BY <1>1, <1>3 DEF IsFrame, IsStep
<1>5. \A x \in Range(xs) : ChildOK(x, n)
  BY <1>1, <1>3 DEF FrameOK
<1>6. \A i \in DOMAIN xs : xs[i].edge.branch \in Int
  <2>1. \A i \in DOMAIN xs : xs[i].edge \in Range(graph.edges)
    BY <1>5 DEF ChildOK, Range
  <2>2. QED
    BY <1>2, <2>1 DEF GraphOK, IsGraph
<1>7. PICK ys : ys = GroupParallel(xs)
  OBVIOUS
<1>8. IsSeq(ys) /\ Range(ys) = Range(xs)
  BY <1>4, <1>6, <1>7, GroupParallelPermutes
<1>9. PICK order : /\ \A i \in DOMAIN ys : order[i] \in DOMAIN xs /\ ys[i] = xs[order[i]]
                   /\ \A i, j \in DOMAIN ys : order[i] = order[j] => i = j
  BY <1>4, <1>6, <1>7, GroupParallelPermutes
<1>10. c.node = e.to /\ c.edge = e /\ c.mark = Plain /\ c.calls = 0 /\ c.children = ys /\ IsStep(c)
  <2>1. PICK D, G, M : /\ D = DOMAIN graph.nodes /\ G = Range(graph.edges) \cup {NoEdge}
                       /\ M = {Plain, "cycle", "ref", "cut"}
    OBVIOUS
  <2>2. PICK s : s = a.step
    OBVIOUS
  <2>3. s \in [node : D, edge : G, mark : M, calls : Nat, children : {s.children}]
    BY <1>4, <2>1, <2>2 DEF IsStep
  <2>4. c = [s EXCEPT !.children = ys]
    BY <1>3, <1>7, <2>2, <2>3 DEF Grouped
  <2>5. /\ c \in [node : D, edge : G, mark : M, calls : Nat, children : {c.children}] /\ c.children = ys
        /\ c.node = s.node /\ c.edge = s.edge /\ c.mark = s.mark /\ c.calls = s.calls
    BY <2>3, <2>4
  <2>6. QED
    BY <1>1, <1>8, <2>1, <2>2, <2>5 DEF IsStep
<1>11. PICK h : h = opts.maxDepth - d
  OBVIOUS
<1>12. h \in Nat /\ h <= opts.maxDepth /\ h = opts.maxDepth - n + 1 /\ h + 1 = opts.maxDepth - d + 1
  BY <1>1, <1>2, <1>11 DEF DepthOK
<1>13. Within(c, h + 1) /\ StepsUnder(c) = {c} \cup UNION {StepsUnder(x) : x \in Range(xs)}
  <2>1. \A x \in Range(c.children) : Within(x, h)
    BY <1>5, <1>8, <1>10, <1>12 DEF ChildOK
  <2>2. Within(c, h + 1) /\ StepsUnder(c) = {c} \cup UNION {StepsUnder(x) : x \in Range(c.children)}
    BY <1>2, <1>12, <2>1, Under
  <2>3. QED
    BY <1>8, <1>10, <2>2
<1>14. Counted(c)
  <2>1. Counts(a, Path(1))
    BY <1>1 DEF FrameOK
  <2>2. \A m : LeftTo(a, m) = {}
    BY <1>1 DEF LeftTo, Range
  <2>3. \A x \in Range(xs) : CallsOf(x) \in Nat
    <3>1. \A x \in Range(xs) : x \in StepsUnder(x)
      <4>1. SUFFICES ASSUME NEW x \in Range(xs) PROVE x \in StepsUnder(x)
        OBVIOUS
      <4>2. Within(x, h) /\ h <= opts.maxDepth + 1
        BY <1>2, <1>5, <1>12 DEF ChildOK, DepthOK
      <4>3. QED
        BY <1>2, <1>12, <4>2, SameChildren
    <3>2. \A x \in Range(xs) : IsStep(x)
      BY <1>5, <3>1 DEF ChildOK
    <3>3. QED
      BY <3>2 DEF IsStep, CallsOf
  <2>4. \A x \in Range(xs) : CallsOf(x) = Cardinality(CallsTo(e.to, x.node))
    <3>1. SUFFICES ASSUME NEW x \in Range(xs) PROVE CallsOf(x) = Cardinality(CallsTo(e.to, x.node))
      OBVIOUS
    <3>2. CallsOf(x) + Cardinality(LeftTo(a, x.node)) = Cardinality(CallsTo(e.to, x.node))
      BY <1>1, <1>3, <2>1 DEF Counts
    <3>3. Cardinality(LeftTo(a, x.node)) = 0
      BY <2>2, FS_EmptySet
    <3>4. QED
      BY <2>3, <3>2, <3>3
  <2>5. ASSUME NEW i \in DOMAIN ys, NEW j \in DOMAIN ys
        PROVE  /\ i # j => ys[i].node # ys[j].node
               /\ CallsOf(ys[i]) = Cardinality(CallsTo(e.to, ys[i].node))
    <3>1. \A k, l \in DOMAIN xs : xs[k].node = xs[l].node => k = l
      BY <1>3, <2>1 DEF Counts
    <3>2. i # j => ys[i].node # ys[j].node
      BY <1>9, <3>1
    <3>3. ys[i] \in Range(xs)
      BY <1>9 DEF Range
    <3>4. QED
      BY <2>4, <3>2, <3>3
  <2>6. QED
    BY <1>10, <2>5 DEF Counted
<1>15. RefKnown(c) /\ (opts.prune = "sinks" => Kept(c))
  BY <1>10 DEF RefKnown, Kept, Plain
<1>16. \A s \in StepsUnder(c) : IsStep(s) /\ Counted(s) /\ RefKnown(s) /\ (opts.prune = "sinks" => Kept(s))
  <2>1. \A x \in Range(xs) : \A s \in StepsUnder(x) :
          IsStep(s) /\ Counted(s) /\ RefKnown(s) /\ (opts.prune = "sinks" => Kept(s))
    BY <1>5 DEF ChildOK
  <2>2. QED
    BY <1>10, <1>13, <1>14, <1>15, <2>1
<1>17. e \in Range(graph.edges)
  BY <1>2, <1>1, FollowedEdges
<1>18. ChildOK(c, d)
  BY <1>10, <1>12, <1>13, <1>16, <1>17 DEF ChildOK
<1>19. CallsOf(c) = 1
  BY <1>10 DEF CallsOf
<1>20. QED
  BY <1>3, <1>10, <1>13, <1>18, <1>19

\* The stack without its two innermost frames, below f.
LEMMA FinishFrames ==
  ASSUME FlowTypeOK, NEW n, n = Len(frames), n > 1, NEW f, frames' = Onto(f, Tail(Tail(frames)))
  PROVE  /\ IsSeq(frames') /\ Len(frames') = n - 1 /\ DOMAIN frames' = 1..(n-1) /\ frames'[1] = f
         /\ \A i \in 2..(n-1) : frames'[i] = frames[i+1]
<1>1. PICK S, fs : fs = frames /\ S = Range(frames) \cup {f}
  OBVIOUS
<1>2. fs \in Seq(S) /\ f \in S /\ n = Len(fs) /\ n \in Nat /\ n > 1 /\ fs # <<>>
  <2>1. frames \in Seq(Range(frames))
    BY DEF FlowTypeOK, IsSeq
  <2>2. fs \in Seq(S) /\ f \in S /\ n = Len(fs)
    BY <1>1, <2>1
  <2>3. n \in Nat /\ n > 1
    BY <2>2
  <2>4. fs # <<>>
    BY <2>2, <2>3, EmptySeq
  <2>5. QED
    BY <2>2, <2>3, <2>4
<1>3. PICK t : t = Tail(fs)
  OBVIOUS
<1>4. t \in Seq(S) /\ Len(t) = n - 1 /\ \A i \in 1..(n-1) : t[i] = fs[i+1]
  BY <1>2, <1>3, HeadTailProperties
<1>5. t # <<>>
  BY <1>2, <1>4, EmptySeq
<1>6. PICK u : u = Tail(t)
  OBVIOUS
<1>7. u \in Seq(S) /\ Len(u) = n - 2 /\ \A i \in 1..(n-2) : u[i] = t[i+1]
  <2>1. u \in Seq(S) /\ Len(u) = Len(t) - 1 /\ \A i \in 1..Len(u) : u[i] = t[i+1]
    BY <1>4, <1>5, <1>6, HeadTailProperties
  <2>2. Len(u) = n - 2
    BY <1>2, <1>4, <2>1
  <2>3. QED
    BY <2>1, <2>2
<1>8. PICK gs : gs = frames'
  OBVIOUS
<1>9. IsOnto(gs, f, u)
  <2>1. gs = Onto(f, u)
    BY <1>1, <1>3, <1>6, <1>8
  <2>2. QED
    BY <1>2, <1>7, <2>1, OntoProperties
<1>10. /\ IsSeq(gs) /\ Len(gs) = n - 1 /\ DOMAIN gs = 1..(n-1) /\ gs[1] = f
       /\ \A i \in 1..(n-2) : gs[i+1] = u[i]
  <2>1. Len(u) + 1 = n - 1
    BY <1>2, <1>7
  <2>2. QED
    BY <1>7, <1>9, <2>1 DEF IsOnto
<1>11. ASSUME NEW i \in 2..(n-1) PROVE gs[i] = fs[i+1]
  <2>1. PICK j : j = i - 1
    OBVIOUS
  <2>2. j \in 1..(n-2) /\ j + 1 = i /\ i \in 1..(n-1)
    BY <1>2, <2>1
  <2>3. gs[i] = u[j] /\ u[j] = t[i] /\ t[i] = fs[i+1]
    BY <1>4, <1>7, <1>10, <2>2
  <2>4. QED
    BY <2>3
<1>12. QED
  BY <1>1, <1>8, <1>10, <1>11

LEMMA SelfUnder ==
  ASSUME DepthOK, NEW d \in Nat, d > 0, d <= opts.maxDepth, NEW x, ChildOK(x, d)
  PROVE  x \in StepsUnder(x)
<1>1. PICK h : h = opts.maxDepth - d + 1
  OBVIOUS
<1>2. h \in Nat /\ h <= opts.maxDepth + 1 /\ Within(x, h)
  BY <1>1 DEF DepthOK, ChildOK
<1>3. QED
  BY <1>2, SameChildren

LEMMA FinishPath ==
  ASSUME FlowTypeOK, NEW a, NEW b, NEW e, NEW n, NEW d, NEW p, Returns(a, b, e, n, d, p),
         NEW ch, IsSeq(ch), NEW f, f = Turn(b, ch), frames' = Onto(f, Tail(Tail(frames)))
  PROVE  Replaces(f, 1) /\ Path(1)' = p
<1>1. n \in Nat /\ n > 1 /\ Len(frames) = n /\ b = frames[2] /\ p = Path(2) /\ IsFrame(b) /\ b.left # <<>>
  BY DEF Returns, Facing
<1>2. /\ IsSeq(frames') /\ Len(frames') = n - 1 /\ frames'[1] = f
      /\ \A i \in 2..(n-1) : frames'[i] = frames[i+1]
  BY <1>1, FinishFrames
<1>3. /\ IsFrame(f) /\ f.step.node = b.step.node /\ f.step.edge = b.step.edge
      /\ f.step.mark = b.step.mark /\ f.step.calls = b.step.calls
  BY <1>1, TurnFields
<1>4. PICK k, L : k = 1 /\ L = n - k
  OBVIOUS
<1>5. k \in 0..1 /\ 1 + k = 2 /\ L = n - 1 /\ 1 \in 1..L
  BY <1>1, <1>4
<1>6. Replaces(f, k)
  BY <1>1, <1>2, <1>3, <1>4, <1>5 DEF Replaces
<1>7. Moved(k, n, L)
  BY <1>1, <1>4, <1>5, <1>6, ReplacedPaths
<1>8. Path(1)' = Path(1+k)
  BY <1>5, <1>7 DEF Moved
<1>9. QED
  BY <1>1, <1>4, <1>5, <1>6, <1>8

\* The end of a call of expand, with what frame b becomes.
LEMMA FinishWith ==
  ASSUME FlowInv, Same, expanded' = expanded,
         NEW a, NEW b, NEW e, NEW n, NEW d, NEW p, Returns(a, b, e, n, d, p),
         NEW ch, IsSeq(ch), NEW f, f = Turn(b, ch), frames' = Onto(f, Tail(Tail(frames))),
         leads \subseteq leads', leads' \subseteq leads \cup {b.step.node}, \A x \in leads' : LeadsToSink(x),
         FrameOK(f, d, p)',
         \A x \in Range(a.step.children) \cup Range(b.step.children) : Shows(UNION {StepsUnder(s) : s \in Range(ch)}, StepsUnder(x)),
         (opts.prune = "sinks" /\ e.to \notin leads') \/ \E s \in UNION {StepsUnder(x) : x \in Range(ch)} : s.node = e.to /\ s.mark = Plain
  PROVE  FlowInv'
<1>1. /\ n \in Nat /\ n > 1 /\ d = n - 1 /\ DOMAIN frames = 1..n /\ Len(frames) = n
      /\ a = frames[1] /\ b = frames[2] /\ d = At(2) /\ p = Path(2)
      /\ a.left = <<>> /\ IsFrame(a) /\ FrameOK(a, n, Path(1)) /\ Facing(b, d, p)
      /\ a.step.node = e.to /\ Path(1) = p \cup {e.to} /\ e.to \notin p
  BY DEF Returns
<1>2. FlowTypeOK
  BY DEF FlowInv
<1>3. /\ IsSeq(frames') /\ Len(frames') = n - 1 /\ DOMAIN frames' = 1..(n-1) /\ frames'[1] = f
      /\ \A i \in 2..(n-1) : frames'[i] = frames[i+1]
  BY <1>1, <1>2, FinishFrames
<1>4. /\ IsFrame(f) /\ f.step.children = ch /\ f.step.node = b.step.node /\ f.step.edge = b.step.edge
      /\ f.step.mark = b.step.mark /\ f.step.calls = b.step.calls
  BY <1>1, TurnFields DEF Facing
<1>5. PICK k : k = 1
  OBVIOUS
<1>6. k \in 0..1 /\ 1 + k = 2 /\ 1 \in 1..(n-1)
  BY <1>1, <1>5
<1>7. Replaces(f, k)
  BY <1>2, <1>5, FinishPath
<1>8. Path(1)' = p
  BY <1>2, FinishPath
<1>9. \A t : t \in Built' <=> \E j \in DOMAIN frames' : \E x \in Range(frames'[j].step.children) : t \in StepsUnder(x)
  <2>1. \A x : StepsUnder(x)' = StepsUnder(x)
    BY Stays
  <2>2. \A t : t \in Built' <=> \E j \in DOMAIN frames' : \E x \in Range(frames'[j].step.children) : t \in StepsUnder(x)'
    BY DEF Built, Range
  <2>3. QED
    BY <2>1, <2>2
<1>10. \A t \in UNION {StepsUnder(x) : x \in Range(ch)} : t \in Built'
  <2>1. 1 \in DOMAIN frames' /\ frames'[1].step.children = ch
    BY <1>3, <1>4, <1>6
  <2>2. QED
    BY <1>9, <2>1
<1>11. Shows(Built', Built)
  <2>1. SUFFICES ASSUME NEW s \in Built, ~Gone(s) PROVE \E t \in Built' : Covers(t, s)
    BY DEF Shows
  <2>2. PICK i \in 1..n : \E x \in Range(frames[i].step.children) : s \in StepsUnder(x)
    BY <1>1, BuiltSteps
  <2>3. PICK x \in Range(frames[i].step.children) : s \in StepsUnder(x)
    BY <2>2
  <2>4. CASE i \in {1, 2}
    <3>1. x \in Range(a.step.children) \cup Range(b.step.children)
      BY <1>1, <2>3, <2>4
    <3>2. PICK t \in UNION {StepsUnder(y) : y \in Range(ch)} : Covers(t, s)
      BY <2>1, <2>3, <3>1 DEF Shows
    <3>3. QED
      BY <1>10, <3>2
  <2>5. CASE i \notin {1, 2}
    <3>1. PICK j : j = i - 1
      OBVIOUS
    <3>2. j \in 2..(n-1) /\ j + 1 = i /\ j \in DOMAIN frames'
      BY <1>1, <1>3, <2>5, <3>1
    <3>3. frames'[j] = frames[i]
      BY <1>3, <3>2
    <3>4. s \in Built'
      BY <1>9, <2>3, <3>2, <3>3
    <3>5. QED
      BY <3>4, CoversSink
  <2>6. QED
    BY <2>4, <2>5
<1>12. ExpandedBuilt'
  <2>1. ASSUME NEW x \in expanded \ Path(1)' PROVE NodeBuilt(x)'
    <3>1. CASE x # e.to
      <4>1. x \in expanded \ Path(1) /\ frames # <<>>
        BY <1>1, <1>8, <2>1, <3>1
      <4>2. NodeBuilt(x)
        BY <4>1 DEF FlowInv, ExpandedBuilt
      <4>3. x \in leads' => x \in leads
        <5>1. b.step.node \in Path(1)
          BY <1>1 DEF Facing
        <5>2. QED
          BY <4>1, <5>1
      <4>4. QED
        BY <1>11, <4>2, <4>3, BuiltStays
    <3>2. CASE x = e.to
      <4>1. opts' = opts
        BY DEF Same
      <4>2. (opts.prune = "sinks" /\ x \notin leads') \/ \E s \in Built' : s.node = x /\ s.mark = Plain
        BY <1>10, <3>2
      <4>3. \A y : Followed(y)' = Followed(y) /\ IsSink(y)' = IsSink(y)
        BY Stays
      <4>4. ASSUME NEW q \in Followed(x), IsSink(q.to) PROVE \E s \in Built' : ShowsSink(s, q.to)'
        <5>1. PICK y \in Range(a.step.children) : ShowsSink(y, q.to)
          <6>1. Range(a.left) = {}
            BY <1>1 DEF Range
          <6>2. SinksSeen(a)
            BY <1>1 DEF FrameOK
          <6>3. QED
            BY <1>1, <3>2, <4>4, <6>1, <6>2 DEF SinksSeen
        <5>2. y \in StepsUnder(y)
          <6>1. ChildOK(y, n) /\ DepthOK /\ n \in Nat /\ n > 0 /\ n <= opts.maxDepth
            BY <1>1, <1>2, TypeGivesGraph DEF FrameOK, FlowTypeOK
          <6>2. QED
            BY <6>1, SelfUnder
        <5>3. ~Gone(y)
          BY <4>4, <5>1 DEF Gone, ShowsSink
        <5>4. PICK s \in UNION {StepsUnder(z) : z \in Range(ch)} : Covers(s, y)
          BY <5>2, <5>3 DEF Shows
        <5>5. ShowsSink(s, q.to)'
          BY <5>1, <5>4, CoversSink
        <5>6. QED
          BY <1>10, <5>5
      <4>5. QED
        BY <4>1, <4>2, <4>3, <4>4 DEF NodeBuilt
    <3>3. QED
      BY <3>1, <3>2
  <2>2. QED
    BY <2>1 DEF ExpandedBuilt
<1>13. d = At(1+k) /\ p = Path(1+k)
  BY <1>1, <1>6
<1>14. leads' \subseteq leads \cup {f.step.node}
  BY <1>4
<1>15. QED
  BY <1>6, <1>7, <1>12, <1>13, <1>14, Replaced

LEMMA FinishKeeps ==
  ASSUME FlowInv, Finish
  PROVE  FlowInv'
<1>1. Depth > 1 /\ Inner.left = <<>> /\ Same /\ expanded' = expanded
  BY DEF Finish, Same
<1>2. PICK n, a, b, e, d, p : /\ n = Depth /\ a = Inner /\ b = frames[2] /\ e = Head(frames[2].left)
                              /\ d = At(2) /\ p = Path(2)
  OBVIOUS
<1>3. Returns(a, b, e, n, d, p)
  BY <1>1, <1>2, Returning
<1>4. /\ n \in Nat /\ n > 1 /\ d = n - 1 /\ a = Inner /\ e = Head(b.left) /\ p = Path(2)
      /\ a.step.node = e.to /\ FrameOK(a, n, Path(1)) /\ Facing(b, d, p)
      /\ Path(1) = p \cup {e.to} /\ e.to \notin p
      /\ e \in Followed(b.step.node) /\ e.to \in expanded /\ ~IsSink(e.to) /\ ~External(e.to)
      /\ d > 1 => \A x \in Range(b.step.children) : x.node # e.to
  BY <1>3 DEF Returns
<1>5. IsSeq(b.step.children) /\ b.step.node \in DOMAIN graph.nodes /\ b.step.node \in p /\ GraphOK /\ DepthOK
  BY <1>4 DEF Facing
<1>6. \A x \in leads : LeadsToSink(x)
  BY DEF FlowInv
<1>7. PICK c, kept, f, ch, xs :
        /\ c = Grouped(Inner) /\ kept = IF Pruned(Inner.step) THEN <<>> ELSE <<c>>
        /\ xs = b.step.children /\ ch = xs \o kept /\ f = Turn(b, ch)
  OBVIOUS
<1>8. frames' = Onto(f, Tail(Tail(frames)))
  BY <1>2, <1>7 DEF Finish, Onto, Turn, Grouped
<1>9. leads' = IF kept # <<>> /\ c.node \in leads THEN leads \cup {b.step.node} ELSE leads
  BY <1>2, <1>7 DEF Finish, Grouped
<1>n. Inner.step.node = e.to
  BY <1>4
<1>10. CASE Pruned(Inner.step)
  <2>1. opts.prune = "sinks" /\ e.to \notin leads /\ leads' = leads /\ kept = <<>>
    BY <1>7, <1>9, <1>10, <1>n DEF Pruned
  <2>2. ch = xs /\ IsSeq(xs) /\ xs = b.step.children
    <3>1. xs \in Seq(Range(xs))
      BY <1>5, <1>7 DEF IsSeq
    <3>2. xs \o <<>> = xs
      BY <3>1, ConcatEmptySeq
    <3>3. QED
      BY <1>5, <1>7, <2>1, <3>2
  <2>3. IsSeq(ch) /\ f = Turn(b, ch)
    BY <1>7, <2>2
  <2>4. Path(1)' = p
    BY <1>3, <1>8, <2>3, FinishPath DEF FlowInv
  <2>5. Lost \subseteq Lost'
    BY <1>1, <1>4, <2>1, <2>4 DEF Lost
  <2>6. Dropped(e.to, p)'
    <3>1. PICK m : m = e.to
      OBVIOUS
    <3>2. IsSink(m)' = IsSink(m) /\ External(m)' = External(m) /\ opts' = opts
      BY <1>1, Stays DEF Same
    <3>3. m \notin p /\ m \in expanded /\ ~IsSink(m) /\ ~External(m)
      BY <1>4, <3>1
    <3>4. Dropped(m, p)'
      BY <1>1, <2>1, <2>4, <3>1, <3>2, <3>3 DEF Dropped
    <3>5. QED
      BY <3>1, <3>4
  <2>7. FrameOK(f, d, p)'
    <3>1. f = Turn(b, b.step.children)
      BY <2>2, <2>3
    <3>2. expanded \subseteq expanded' /\ leads \subseteq leads'
      BY <1>1, <2>1
    <3>3. QED
      BY <1>1, <1>4, <2>5, <2>6, <3>1, <3>2, FrameDrops
  <2>8. ASSUME NEW x \in Range(a.step.children) \cup Range(b.step.children)
        PROVE  Shows(UNION {StepsUnder(s) : s \in Range(ch)}, StepsUnder(x))
    <3>1. CASE x \in Range(b.step.children)
      BY <2>2, <3>1, ShowsMore
    <3>2. CASE x \in Range(a.step.children)
      <4>1. NothingLost(a)
        BY <1>4 DEF FrameOK
      <4>2. Cut(x)
        BY <1>4, <2>1, <3>2, <4>1 DEF NothingLost, Cut
      <4>3. StepsUnder(x) = {x}
        BY <1>5, <4>2, Leaf DEF Cut
      <4>4. QED
        BY <4>2, <4>3 DEF Shows, Gone, Cut
    <3>3. QED
      BY <3>1, <3>2
  <2>9. QED
    BY <1>1, <1>3, <1>6, <1>8, <2>1, <2>3, <2>7, <2>8, FinishWith
<1>11. CASE ~Pruned(Inner.step)
  <2>1. (opts.prune = "sinks" => e.to \in leads) /\ kept = <<c>>
    BY <1>7, <1>11, <1>n DEF Pruned
  <2>2. c = Grouped(a)
    BY <1>4, <1>7
  <2>3. /\ ChildOK(c, d) /\ CallsOf(c) = 1 /\ c.node = e.to /\ c.mark = Plain /\ c \in StepsUnder(c)
        /\ \A x \in Range(a.step.children) : StepsUnder(x) \subseteq StepsUnder(c)
    BY <1>3, <1>6, <2>1, <2>2, GroupedOK
  <2>4. ch = With(b, c)
    <3>1. PICK S : S = Range(xs) \cup {c}
      OBVIOUS
    <3>2. xs \in Seq(S) /\ c \in S
      BY <1>5, <1>7, <3>1 DEF IsSeq
    <3>3. xs \o <<c>> = Append(xs, c)
      BY <3>2
    <3>4. QED
      BY <1>7, <2>1, <3>3 DEF With
  <2>5. IsSeq(ch) /\ Range(ch) = Range(b.step.children) \cup {c} /\ f = Turn(b, ch)
    BY <1>5, <1>7, <2>4, RangeAppend DEF With
  <2>6. leads' = IF e.to \in leads THEN leads \cup {b.step.node} ELSE leads
    BY <1>9, <2>1, <2>3
  <2>7. leads \subseteq leads' /\ leads' \subseteq leads \cup {b.step.node}
    BY <2>6
  <2>8. \A x \in leads' : LeadsToSink(x)
    <3>1. e.to \in leads => LeadsToSink(b.step.node)
      BY <1>4, <1>5, <1>6, LeadsBack
    <3>2. QED
      BY <1>6, <2>6, <3>1
  <2>9. Path(1)' = p
    BY <1>3, <1>8, <2>5, FinishPath DEF FlowInv
  <2>10. Lost \subseteq Lost'
    BY <1>1, <1>4, <1>5, <2>7, <2>9 DEF Lost
  <2>11. FrameOK(f, d, p)'
    <3>1. e.to \in Path(1)
      BY <1>4
    <3>2. ~Dropped(e.to, p)
      BY <1>4, <3>1 DEF Dropped
    <3>3. opts.prune = "sinks" => b.step.node \in leads'
      BY <2>1, <2>6
    <3>4. QED
      BY <1>1, <1>4, <2>3, <2>4, <2>5, <2>7, <2>10, <3>2, <3>3, FrameAdds
  <2>12. ASSUME NEW x \in Range(a.step.children) \cup Range(b.step.children)
         PROVE  Shows(UNION {StepsUnder(s) : s \in Range(ch)}, StepsUnder(x))
    <3>1. CASE x \in Range(b.step.children)
      BY <2>5, <3>1, ShowsMore
    <3>2. CASE x \in Range(a.step.children)
      <4>1. StepsUnder(x) \subseteq UNION {StepsUnder(s) : s \in Range(ch)}
        BY <2>3, <2>5, <3>2
      <4>2. QED
        BY <4>1 DEF Shows, Covers
    <3>3. QED
      BY <3>1, <3>2
  <2>13. \E s \in UNION {StepsUnder(x) : x \in Range(ch)} : s.node = e.to /\ s.mark = Plain
    BY <2>3, <2>5
  <2>14. QED
    BY <1>1, <1>3, <1>8, <2>5, <2>7, <2>8, <2>11, <2>12, <2>13, FinishWith
<1>12. QED
  BY <1>10, <1>11

-----------------------------------------------------------------------------
LEMMA DoneKeeps ==
  ASSUME FlowInv, Done
  PROVE  FlowInv'
<1>1. graph' = graph /\ opts' = opts /\ expanded' = expanded /\ leads' = leads /\ frames' = <<>>
  BY DEF Done
<1>2. FlowTypeOK
  BY DEF FlowInv
<1>3. Range(frames') = {} /\ DOMAIN frames' = {} /\ IsSeq(frames') /\ Len(frames') = 0
  BY <1>1 DEF Range, IsSeq
<1>4. FlowTypeOK'
  BY <1>1, <1>2, <1>3 DEF FlowTypeOK, IsOptions
<1>5. Stacked' /\ ExpandedBuilt'
  BY <1>1, <1>3 DEF Stacked, ExpandedBuilt
<1>6. \A x \in leads' : LeadsToSink(x)'
  BY <1>1, Stays DEF FlowInv, Same
<1>7. QED
  BY <1>3, <1>4, <1>5, <1>6 DEF FlowInv

\* No call of expand that is counted here has started: only the handlers of
\* the route are looked at.
LEMMA InitOK == FlowInit => FlowInv
<1>1. SUFFICES ASSUME FlowInit PROVE FlowInv
  OBVIOUS
<1>2. GraphOK /\ DepthOK /\ opts.route \in DOMAIN graph.nodes /\ opts.maxDepth >= 1
  <2>1. IsGraph(graph) /\ IsOptions(graph, opts)
    BY <1>1 DEF FlowInit
  <2>2. opts.route \in DOMAIN graph.nodes /\ opts.maxDepth \in Nat \ {0}
    BY <2>1 DEF IsOptions
  <2>3. QED
    BY <2>1, <2>2 DEF GraphOK, DepthOK
<1>3. PICK s, l, f : /\ s = Step(opts.route, NoEdge, Plain)
                     /\ l = Neighbors(graph, opts.route, {"handled_by"}) /\ f = [step |-> s, left |-> l]
  OBVIOUS
<1>4. frames = <<f>> /\ expanded = {} /\ leads = {}
  <2>1. Asked(graph, opts)
    BY <1>1 DEF FlowInit
  <2>2. QED
    BY <1>3, <2>1, Zenon DEF Asked
<1>5. /\ l \in Seq(Range(graph.edges)) /\ \A i, j \in DOMAIN l : l[i] = l[j] => i = j
      /\ Range(l) = {x \in Range(graph.edges) : x.from = opts.route /\ x.kind \in {"handled_by"}}
  <2>1. PICK g, r : g = graph /\ r = opts.route
    OBVIOUS
  <2>2. IsGraph(g) /\ l = Neighbors(g, r, {"handled_by"})
    BY <1>2, <1>3, <2>1 DEF GraphOK
  <2>3. /\ l \in Seq(Range(g.edges)) /\ \A i, j \in DOMAIN l : l[i] = l[j] => i = j
        /\ Range(l) = {x \in Range(g.edges) : x.from = r /\ x.kind \in {"handled_by"}}
    BY <2>2, NeighborsOnce
  <2>4. QED
    BY <2>1, <2>3
<1>6. IsStep(s) /\ s.node = opts.route /\ s.mark = Plain /\ s.children = <<>>
  <2>1. s.node = opts.route /\ s.mark = Plain /\ s.children = <<>>
    BY <1>3 DEF Step
  <2>2. PICK D, G, M, r : /\ D = DOMAIN graph.nodes /\ G = Range(graph.edges) \cup {NoEdge}
                          /\ M = {Plain, "cycle", "ref", "cut"} /\ r = opts.route
    OBVIOUS
  <2>3. r \in D /\ NoEdge \in G /\ Plain \in M
    BY <1>2, <2>2
  <2>4. s = [node |-> r, edge |-> NoEdge, mark |-> Plain, calls |-> 0, children |-> <<>>]
    BY <1>3, <2>2 DEF Step
  <2>5. PICK x : x = NoEdge
    OBVIOUS
  <2>6. s \in [node : D, edge : G, mark : M, calls : Nat, children : {s.children}]
    BY <2>1, <2>3, <2>4, <2>5
  <2>7. IsSeq(<<>>)
    BY DEF IsSeq
  <2>8. QED
    BY <2>1, <2>2, <2>6, <2>7 DEF IsStep
<1>7. IsFrame(f) /\ f.step = s /\ f.left = l
  <2>1. f.step = s /\ f.left = l
    BY <1>3
  <2>2. PICK S : S = Seq(Range(graph.edges))
    OBVIOUS
  <2>3. f \in [step : {s}, left : S]
    BY <1>3, <1>5, <2>2
  <2>4. QED
    BY <1>6, <2>1, <2>2, <2>3 DEF IsFrame
<1>8. Len(frames) = 1 /\ DOMAIN frames = {1} /\ frames[1] = f /\ Range(frames) = {f} /\ frames # <<>> /\ IsSeq(frames)
  <2>1. frames \in Seq({f}) /\ Len(frames) = 1 /\ DOMAIN frames = {1} /\ frames[1] = f /\ frames # <<>>
    BY <1>4
  <2>2. QED
    BY <2>1, SeqRange DEF Range
<1>9. FlowTypeOK
  BY <1>2, <1>4, <1>7, <1>8 DEF FlowTypeOK, GraphOK, IsFrame, IsOptions
<1>10. At(1) = 1 /\ Path(1) = {opts.route}
  <2>1. 1..1 = {1}
    OBVIOUS
  <2>2. QED
    BY <1>6, <1>7, <1>8, <2>1 DEF At, Path
<1>11. Stacked
  BY <1>4, <1>6, <1>7, <1>8 DEF Stacked
<1>12. FrameOK(f, 1, Path(1))
  <2>1. LeftOK(f, 1)
    BY <1>5, <1>6, <1>7 DEF LeftOK
  <2>2. Range(f.step.children) = {}
    BY <1>6, <1>7 DEF Range
  <2>3. SinksSeen(f)
    BY <1>5, <1>6, <1>7 DEF SinksSeen, Followed
  <2>4. NothingLost(f)
    BY <2>2 DEF NothingLost
  <2>5. QED
    BY <2>1, <2>2, <2>3, <2>4 DEF FrameOK
<1>13. ExpandedBuilt
  BY <1>4 DEF ExpandedBuilt
<1>14. QED
  BY <1>4, <1>8, <1>9, <1>10, <1>11, <1>12, <1>13 DEF FlowInv

LEMMA StutterKeeps ==
  ASSUME FlowInv, UNCHANGED flowVars
  PROVE  FlowInv'
<1>1. /\ graph' = graph /\ opts' = opts /\ frames' = frames /\ expanded' = expanded /\ leads' = leads
      /\ Same
  BY DEF flowVars, Same
<1>2. \A i : Path(i)' = Path(i) /\ At(i)' = At(i)
  BY <1>1 DEF Path, At
<1>3. FlowTypeOK'
  <2>1. \A s : IsStep(s)' = IsStep(s)
    BY <1>1, Stays
  <2>2. QED
    BY <1>1, <2>1 DEF FlowInv, FlowTypeOK, IsOptions
<1>4. Stacked'
  <2>1. \A x : IsSink(x)' = IsSink(x) /\ External(x)' = External(x) /\ Runs(x)' = Runs(x)
    BY <1>1, Stays
  <2>2. \A s, b, d : Pending(s, b, d)' = Pending(s, b, d)
    BY <1>1, <2>1 DEF Pending
  <2>3. QED
    BY <1>1, <1>2, <2>2 DEF FlowInv, Stacked
<1>5. ASSUME NEW i \in DOMAIN frames' PROVE FrameOK(frames[i], At(i), Path(i))'
  <2>1. PICK f, d, p : f = frames[i] /\ d = At(i) /\ p = Path(i)
    OBVIOUS
  <2>2. Lost \subseteq Lost'
    BY <1>1, <1>2 DEF Lost
  <2>3. FrameOK(f, d, p)
    BY <1>1, <2>1 DEF FlowInv
  <2>4. FrameOK(f, d, p)'
    BY <1>1, <2>2, <2>3, FrameStays
  <2>5. QED
    BY <1>1, <1>2, <2>1, <2>4
<1>6. \A x \in leads' : LeadsToSink(x)'
  BY <1>1, Stays DEF FlowInv
<1>7. ExpandedBuilt'
  <2>1. Built' = Built
    <3>1. \A s : StepsUnder(s)' = StepsUnder(s)
      BY <1>1, Stays
    <3>2. QED
      BY <1>1, <3>1 DEF Built
  <2>2. Shows(Built', Built)
    BY <2>1 DEF Shows, Covers
  <2>3. ASSUME NEW n \in expanded \ Path(1), frames # <<>> PROVE NodeBuilt(n)'
    <3>1. NodeBuilt(n)
      BY <2>3 DEF FlowInv, ExpandedBuilt
    <3>2. QED
      BY <1>1, <2>2, <3>1, BuiltStays
  <2>4. QED
    BY <1>1, <1>2, <2>3 DEF ExpandedBuilt
<1>8. QED
  BY <1>3, <1>4, <1>5, <1>6, <1>7 DEF FlowInv

LEMMA FlowStepKeeps ==
  ASSUME FlowInv, [FlowNext]_flowVars
  PROVE  FlowInv'
<1>1. CASE NotRun
  BY <1>1, NotRunKeeps
<1>2. CASE Again
  BY <1>2, AgainKeeps
<1>3. CASE Cycle
  BY <1>3, CycleKeeps
<1>4. CASE Sink
  BY <1>4, SinkKeeps
<1>5. CASE Leave
  BY <1>5, LeaveKeeps
<1>6. CASE Ref
  BY <1>6, RefKeeps
<1>7. CASE Truncate
  BY <1>7, TruncateKeeps
<1>8. CASE Descend
  BY <1>8, DescendKeeps
<1>9. CASE Finish
  BY <1>9, FinishKeeps
<1>10. CASE Done
  BY <1>10, DoneKeeps
<1>11. CASE UNCHANGED flowVars
  BY <1>11, StutterKeeps
<1>12. QED
  BY <1>1, <1>2, <1>3, <1>4, <1>5, <1>6, <1>7, <1>8, <1>9, <1>10, <1>11 DEF FlowNext

\* FlowInv holds from the call of Build to its return, for every graph, route,
\* method, pruning level and depth.
THEOREM FlowInvariant == FlowSpec => []FlowInv
<1>1. FlowInit => FlowInv
  BY InitOK
<1>2. FlowInv /\ [FlowNext]_flowVars => FlowInv'
  BY FlowStepKeeps
<1>3. QED
  BY <1>1, <1>2, PTL DEF FlowSpec

\* The frames, steps and sets of a flow keep their form, and no more calls of
\* expand are open than MaxDepth.
THEOREM FlowTypeCorrect == FlowSpec => []FlowTypeOK
<1>1. FlowInv => FlowTypeOK
  BY DEF FlowInv
<1>2. QED
  BY <1>1, FlowInvariant, PTL

-----------------------------------------------------------------------------
\* The flow as Build returns it: its root and what has been built.
LEMMA AtTheEnd ==
  ASSUME FlowInv, Finished
  PROVE  /\ GraphOK /\ Steps = {Inner.step} \cup Built /\ Inner.step.node = opts.route /\ Inner.step.mark = Plain
         /\ \A s \in Built : Counted(s) /\ RefKnown(s) /\ (opts.prune = "sinks" => Kept(s))
         /\ opts.route \notin expanded /\ \A n \in expanded : NodeBuilt(n)
         /\ \A e \in Followed(opts.route) : IsSink(e.to) => \E s \in Built : ShowsSink(s, e.to)
<1>1. FlowTypeOK /\ Stacked /\ GraphOK /\ DepthOK /\ Len(frames) = 1 /\ Inner.left = <<>> /\ IsSeq(frames)
  BY TypeGivesGraph DEF FlowInv, Finished, FlowTypeOK, Depth
<1>2. DOMAIN frames = {1} /\ Inner = frames[1] /\ frames # <<>>
  <2>1. DOMAIN frames = 1..1 /\ 1..1 = {1}
    BY <1>1, DomainOfSeq
  <2>2. QED
    BY <1>1, <2>1 DEF Inner
<1>3. At(1) = 1 /\ Path(1) = {Inner.step.node}
  <2>1. 1..1 = {1}
    OBVIOUS
  <2>2. QED
    BY <1>1, <1>2, <2>1 DEF At, Path
<1>4. Inner.step.node = opts.route /\ Inner.step.mark = Plain /\ opts.route \notin expanded
  BY <1>1, <1>2 DEF Stacked
<1>5. PICK a : a = Inner
  OBVIOUS
<1>6. FrameOK(a, 1, Path(1))
  BY <1>2, <1>3, <1>5 DEF FlowInv
<1>7. Built = UNION {StepsUnder(c) : c \in Range(a.step.children)}
  <2>1. \A s : s \in Built <=> \E c \in Range(a.step.children) : s \in StepsUnder(c)
    BY <1>2, <1>5, BuiltSteps
  <2>2. QED
    BY <2>1
<1>8. Steps = {a.step} \cup Built
  <2>1. PICK r, h : r = a.step /\ h = opts.maxDepth
    OBVIOUS
  <2>2. h \in Nat /\ h <= opts.maxDepth /\ opts.maxDepth - 1 + 1 = h
    BY <1>1, <2>1 DEF DepthOK
  <2>3. \A c \in Range(r.children) : Within(c, h)
    BY <1>6, <2>1, <2>2 DEF FrameOK, ChildOK
  <2>4. StepsUnder(r) = {r} \cup UNION {StepsUnder(c) : c \in Range(r.children)}
    BY <1>1, <2>2, <2>3, Under
  <2>5. QED
    BY <1>5, <1>7, <2>1, <2>4 DEF Steps
<1>9. \A s \in Built : Counted(s) /\ RefKnown(s) /\ (opts.prune = "sinks" => Kept(s))
  BY <1>6, <1>7 DEF FrameOK, ChildOK
<1>10. \A n \in expanded : NodeBuilt(n)
  BY <1>2, <1>3, <1>4 DEF FlowInv, ExpandedBuilt
<1>11. ASSUME NEW e \in Followed(opts.route), IsSink(e.to) PROVE \E s \in Built : ShowsSink(s, e.to)
  <2>1. Range(a.left) = {}
    BY <1>1, <1>5 DEF Range
  <2>2. PICK c \in Range(a.step.children) : ShowsSink(c, e.to)
    BY <1>4, <1>5, <1>6, <1>11, <2>1 DEF FrameOK, SinksSeen
  <2>3. c \in StepsUnder(c)
    <3>1. PICK d : d = 1
      OBVIOUS
    <3>2. d \in Nat /\ d > 0 /\ d <= opts.maxDepth /\ ChildOK(c, d)
      BY <1>1, <1>6, <2>2, <3>1 DEF FrameOK, FlowTypeOK, IsOptions
    <3>3. QED
      BY <1>1, <3>2, SelfUnder
  <2>4. QED
    BY <1>7, <2>2, <2>3
<1>12. QED
  BY <1>1, <1>4, <1>5, <1>8, <1>9, <1>10, <1>11

LEMMA ShowsSinks == FlowInv => SinksShown
<1>1. SUFFICES ASSUME FlowInv, Finished, NEW reached, reached = ReachableFrom(opts.route),
                      \A n \in reached : Followed(n) = {} \/ n \in expanded \cup {opts.route},
                      NEW n \in reached, IsSink(n)
               PROVE  \E s \in Steps : ShowsSink(s, n)
  BY DEF SinksShown, NothingCut
<1>2. /\ GraphOK /\ Built \subseteq Steps /\ \A x \in expanded : NodeBuilt(x)
      /\ \A e \in Followed(opts.route) : IsSink(e.to) => \E s \in Built : ShowsSink(s, e.to)
  BY <1>1, AtTheEnd
<1>3. PICK r : r = opts.route
  OBVIOUS
<1>4. r \in DOMAIN graph.nodes /\ ~IsSink(r)
  BY <1>2, <1>3 DEF GraphOK, IsOptions, IsSink, Kind
<1>5. PICK V : V = {x \in reached : IsSink(x) => \E s \in Steps : ShowsSink(s, x)}
  OBVIOUS
<1>6. /\ r \in reached /\ \A b \in reached : \A e \in Followed(b) : e.to \in reached
      /\ r \in V /\ (\A b \in V \cap DOMAIN graph.nodes : \A e \in Followed(b) : e.to \in V) => reached \subseteq V
  <2>1. /\ r \in reached /\ \A b \in reached : \A e \in Followed(b) : e.to \in reached
        /\ r \in V /\ (\A b \in V \cap DOMAIN graph.nodes : \A e \in Followed(b) : e.to \in V) => reached \subseteq V
    BY <1>1, <1>2, <1>3, <1>4, <1>5, ReachableSteps
  <2>2. QED
    BY <2>1
<1>7. ASSUME NEW b \in V, NEW e \in Followed(b) PROVE e.to \in V
  <2>1. b \in reached /\ e.to \in reached /\ (b = r \/ b \in expanded)
    BY <1>1, <1>3, <1>5, <1>6, <1>7
  <2>2. IsSink(e.to) => \E s \in Steps : ShowsSink(s, e.to)
    BY <1>2, <1>3, <1>7, <2>1 DEF NodeBuilt
  <2>3. QED
    BY <1>5, <2>1, <2>2
<1>8. n \in V
  <2>1. r \in V
    BY <1>4, <1>5, <1>6
  <2>2. reached \subseteq V
    BY <1>6, <1>7, <2>1
  <2>3. QED
    BY <1>1, <2>2
<1>9. QED
  BY <1>1, <1>5, <1>8

\* Unless a call was cut off, a flow shows every sink its route can reach,
\* with what it queries, whatever was pruned, seen before or recursive
\* (expand, addTables).
THEOREM FlowShowsSinks == FlowSpec => []SinksShown
BY ShowsSinks, FlowInvariant, PTL

LEMMA KeepsWhatLeads == FlowInv => KeptLeadsToSink
BY AtTheEnd DEF KeptLeadsToSink

\* Under PruneSinks a flow shows only what leads to a sink or was cut off
\* (Options.Prune).
THEOREM FlowKeepsWhatLeads == FlowSpec => []KeptLeadsToSink
BY KeepsWhatLeads, FlowInvariant, PTL

LEMMA ExpandsRefs == FlowInv => RefsExpanded
<1>1. SUFFICES ASSUME FlowInv, Finished, NEW s \in Steps, s.mark = "ref"
               PROVE  \E t \in Steps : t.node = s.node /\ t.mark = Plain
  BY DEF RefsExpanded
<1>2. /\ Steps = {Inner.step} \cup Built /\ Inner.step.mark = Plain /\ \A x \in Built : RefKnown(x)
      /\ \A n \in expanded : NodeBuilt(n)
  BY <1>1, AtTheEnd
<1>3. s \in Built
  BY <1>1, <1>2 DEF Plain
<1>4. s.node \in expanded /\ (opts.prune = "sinks" => s.node \in leads)
  BY <1>1, <1>2, <1>3 DEF RefKnown
<1>5. QED
  BY <1>2, <1>4 DEF NodeBuilt

\* What is shown as a reference is expanded elsewhere in the flow that is
\* returned (expand's expanded, leads).
THEOREM FlowExpandsRefs == FlowSpec => []RefsExpanded
BY ExpandsRefs, FlowInvariant, PTL

LEMMA CountsCalls == FlowInv => CallsCounted
<1>1. SUFFICES ASSUME FlowInv, Finished, NEW s \in Steps PROVE Counted(s)
  BY DEF CallsCounted
<1>2. /\ GraphOK /\ Steps = {Inner.step} \cup Built /\ Inner.step.node = opts.route
      /\ \A x \in Built : Counted(x)
  BY <1>1, AtTheEnd
<1>3. Kind(opts.route) \in {"route", "entry"}
  BY <1>2 DEF GraphOK, IsOptions, Kind
<1>4. CASE s = Inner.step
  BY <1>2, <1>3, <1>4 DEF Counted
<1>5. QED
  BY <1>1, <1>2, <1>4

\* A step of a flow stands for as many calls as its caller makes of it
\* (expand's counting, groupParallel).
THEOREM FlowCountsCalls == FlowSpec => []CallsCounted
BY CountsCalls, FlowInvariant, PTL
=============================================================================
