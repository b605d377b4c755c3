------------------------------- MODULE Store -------------------------------
(***************************************************************************)
(* internal/graph: the code graph, a database of nodes and edges that an   *)
(* analysis writes in transactions and the views query.                    *)
(*                                                                         *)
(* A graph has nodes, a function from IDs, and edges, a sequence whose     *)
(* positions are the edge IDs.  pos orders the call sites of a node in its *)
(* source, 0 if unknown.  ok is FALSE once a write has failed.             *)
(***************************************************************************)
EXTENDS Integers, Sequences, FiniteSets, SequencesExt

NodeKinds == {"route", "entry", "func", "interface_call", "sink", "sql_table", "type"}
EdgeKinds == {"handled_by", "guarded_by", "calls", "dispatches_to", "queries", "implements", "runs"}

\* The parallel group of a sequential call.
NoGroup == "none"

Open == [nodes |-> <<>>, edges |-> <<>>, ok |-> TRUE]

Failed(g) == [g EXCEPT !.ok = FALSE]

\* A node replaces the one with its ID.
AddNode(g, id, n) ==
  IF ~g.ok THEN g
  ELSE IF n.kind \notin NodeKinds THEN Failed(g)
  ELSE [g EXCEPT !.nodes = [x \in DOMAIN g.nodes \cup {id} |-> IF x = id THEN n ELSE g.nodes[x]]]

SameEdge(d, e) == d.from = e.from /\ d.to = e.to /\ d.kind = e.kind /\ d.pos = e.pos

\* An edge needs both ends; one between the same ends, of the same kind and
\* at the same position is there already.
AddEdge(g, e) ==
  IF ~g.ok THEN g
  ELSE IF e.kind \notin EdgeKinds \/ ~{e.from, e.to} \subseteq DOMAIN g.nodes THEN Failed(g)
  ELSE IF \E i \in DOMAIN g.edges : SameEdge(g.edges[i], e) THEN g
  ELSE [g EXCEPT !.edges = Append(@, e)]

\* What a writer adds: a node, as [id, node], or an edge.
IsNodeWrite(w) == "id" \in DOMAIN w
Put(g, w) == IF IsNodeWrite(w) THEN AddNode(g, w.id, w.node) ELSE AddEdge(g, w)

\* g after a sequence of writes.
Written(g, writes) ==
  LET after[n \in Nat] == IF n = 0 THEN g ELSE Put(after[n-1], writes[n])
  IN  after[Len(writes)]

\* A transaction: what the writes make of g, or g if one failed.
Write(g, writes) == IF Written(g, writes).ok THEN Written(g, writes) ELSE g

\* Adds a document [version, nodes: a sequence of [id, node], edges].
Import(g, doc) ==
  LET known == {doc.nodes[i].id : i \in DOMAIN doc.nodes} \cup DOMAIN g.nodes
  IN  IF \/ doc.version \notin {0, 1}
         \/ \E i \in DOMAIN doc.edges : ~{doc.edges[i].from, doc.edges[i].to} \subseteq known
      THEN g
      ELSE Write(g, doc.nodes \o doc.edges)

-----------------------------------------------------------------------------
\* The elements of I in the order before, a set of pairs.
InOrder(I, before) ==
  [p \in 1..Cardinality(I) |->
    CHOOSE i \in I : Cardinality({j \in I : <<j, i>> \in before}) = p - 1]

\* The edges ids by source position, those at one position as they are.
InCallOrder(g, ids) ==
  LET pos(i) == g.edges[i].pos
      before == {p \in ids \X ids : pos(p[1]) < pos(p[2]) \/ (pos(p[1]) = pos(p[2]) /\ p[1] < p[2])}
      order == InOrder(ids, before)
  IN  [i \in DOMAIN order |-> g.edges[order[i]]]

\* The edges of kinds that start at id.
Neighbors(g, id, kinds) ==
  InCallOrder(g, {i \in DOMAIN g.edges : g.edges[i].from = id /\ g.edges[i].kind \in kinds})

\* The edges of kinds that end at id.
Callers(g, id, kinds) ==
  InCallOrder(g, {i \in DOMAIN g.edges : g.edges[i].to = id /\ g.edges[i].kind \in kinds})

-----------------------------------------------------------------------------
\* <<node, n>> for each walk of n <= maxDepth edges of ids from node to to.
Back(g, ids, to, maxDepth) ==
  LET after[n \in Nat] ==
        IF n = 0 THEN {<<to, 0>>}
        ELSE LET back == after[n-1]
             IN  back \cup {<<g.edges[i].from, n>> : i \in {j \in ids : <<g.edges[j].to, n-1>> \in back}}
  IN  after[maxDepth]

\* Faulty variant of InReach: one edge short.
InReachShort(back, node, left) == \E b \in back : b[1] = node /\ b[2] < left

\* to can be reached from node with left edges.
InReach(back, node, left) == \E b \in back : b[1] = node /\ b[2] <= left

\* The walks from from to to, as sequences of edges, that visit no node
\* twice, stop at to and have at most maxDepth edges; only walks from which
\* to can still be reached are continued.
Walks(g, ids, from, to, maxDepth) ==
  LET back == Back(g, ids, to, maxDepth)
      end(w) == IF w = <<>> THEN from ELSE g.edges[Last(w)].to
      visited(w) == {from} \cup {g.edges[w[i]].to : i \in DOMAIN w}
      longer(w) ==
        IF end(w) = to THEN {}
        ELSE {Append(w, i) : i \in
               {j \in ids : /\ g.edges[j].from = end(w) /\ g.edges[j].to \notin visited(w)
                            /\ InReach(back, g.edges[j].to, maxDepth - Len(w) - 1)}}
      walk[n \in Nat] == IF n = 0 THEN {<<>>} ELSE walk[n-1] \cup UNION {longer(w) : w \in walk[n-1]}
  IN  {w \in walk[maxDepth] : w # <<>> /\ end(w) = to}

\* Whether path v comes before path w: by length, then by its edges.
Before(v, w) ==
  \/ Len(v) < Len(w)
  \/ /\ Len(v) = Len(w)
     /\ \E i \in DOMAIN v : v[i] < w[i] /\ \A j \in 1..(i-1) : v[j] = w[j]

\* The first limit paths over edges of kinds.
Paths(g, from, to, kinds, maxDepth, limit) ==
  LET ids == {i \in DOMAIN g.edges : g.edges[i].kind \in kinds}
      walks == Walks(g, ids, from, to, maxDepth)
  IN  {w \in walks : Cardinality({v \in walks : Before(v, w)}) < limit}
=============================================================================
