-------------------------------- MODULE Flow --------------------------------
(***************************************************************************)
(* internal/flow: the flow tree of a route, built by a depth-first walk of *)
(* the code graph.  The walk is one action per call of expand that ends    *)
(* and one per loop turn: frames are the expands in progress, the          *)
(* innermost first.                                                        *)
(*                                                                         *)
(* A graph node is [kind, external, branches: the methods its function     *)
(* compares r.Method with], an edge [from, to, kind, pos, methods: those   *)
(* it is limited to, {} for all, op, group and branch: the parallel group  *)
(* and the branch of it that makes the call].  A branch is a number,       *)
(* "each" counts as Each.                                                  *)
(***************************************************************************)
EXTENDS Store, Reach

VARIABLES graph,     \* not written while a flow is built
          opts,      \* Options: method, maxDepth, prune; and the route
          frames,    \* [step, left: the edges not yet looked at]
          expanded,  \* nodes expanded in this tree
          leads,     \* those whose subtree reaches a sink
          tree       \* the finished flow in a sequence, <<>> until then

flowVars == <<graph, opts, frames, expanded, leads, tree>>

Each == 9
PruneLevels == {"sinks", "module", "none"}

\* The mark of a step that is neither a cycle, a reference nor cut off.
Plain == "plain"

Step(node, edge, mark) == [node |-> node, edge |-> edge, mark |-> mark, calls |-> 0, children |-> <<>>]
NoEdge == [from |-> <<>>, to |-> <<>>, kind |-> "none", pos |-> 0, methods |-> {}, op |-> "none", group |-> NoGroup, branch |-> 0]

Kind(n) == graph.nodes[n].kind
IsSink(n) == Kind(n) = "sink"
External(n) == graph.nodes[n].external /\ Kind(n) # "interface_call"
Inner == Head(frames)
Depth == Len(frames)

\* The flow of route is asked for.  Its handlers are expanded.
Asked(g, o) ==
  /\ graph = g /\ opts = o
  /\ frames = <<[step |-> Step(o.route, NoEdge, Plain),
                 left |-> Neighbors(graph, o.route, {"handled_by"})]>>
  /\ expanded = {} /\ leads = {} /\ tree = <<>>

\* Faulty variant of Runs: calls in the branch for the other methods are
\* taken to run for none.
RunsIfNamed(e) == e.methods = {} \/ opts.method \in {"", "ANY"} \/ opts.method \in e.methods

\* Whether the call of edge e runs for the flow's method.
Runs(e) ==
  \/ e.methods = {}
  \/ opts.method \in {"", "ANY"}
  \/ opts.method \in e.methods
  \/ "*" \in e.methods /\ opts.method \notin graph.nodes[e.from].branches

-----------------------------------------------------------------------------
\* The next edge of the innermost expand and where it leads.
Looking == frames # <<>> /\ Inner.left # <<>>
E == Head(Inner.left)
N == E.to
OnPath == \E i \in DOMAIN frames : frames[i].step.node = N
Known == {i \in DOMAIN Inner.step.children : Inner.step.children[i].node = N}

\* A turn of the loop that goes on to the edge after E with these children.
NextEdge(children) ==
  frames' = <<[step |-> [Inner.step EXCEPT !.children = children], left |-> Tail(Inner.left)]>> \o Tail(frames)

\* E has become child, which leads to a sink or not.
Add(child) ==
  /\ NextEdge(Append(Inner.step.children, child))
  /\ leads' = IF IsSink(child.node) \/ child.node \in leads THEN leads \cup {Inner.step.node} ELSE leads

Drop == NextEdge(Inner.step.children) /\ UNCHANGED leads

\* The call does not run for the method.
NotRun ==
  /\ Looking /\ Depth > 1 /\ ~Runs(E)
  /\ Drop /\ UNCHANGED <<graph, opts, expanded, tree>>

\* How many calls a step stands for.
CallsOf(step) == IF step.calls = 0 THEN 1 ELSE step.calls

\* Faulty variant of Again: the first call is not counted.
AgainFromZero ==
  /\ Looking /\ Depth > 1 /\ Runs(E) /\ Known # {}
  /\ LET i == CHOOSE j \in Known : \A k \in Known : j <= k
     IN  NextEdge([Inner.step.children EXCEPT ![i].calls = @ + 1])
  /\ UNCHANGED <<graph, opts, expanded, leads, tree>>

\* Another call of a step that is already there.
Again ==
  /\ Looking /\ Depth > 1 /\ Runs(E) /\ Known # {}
  /\ LET i == CHOOSE j \in Known : \A k \in Known : j <= k
     IN  NextEdge([Inner.step.children EXCEPT ![i].calls = CallsOf(Inner.step.children[i]) + 1])
  /\ UNCHANGED <<graph, opts, expanded, leads, tree>>

\* E is expanded.
Expanding == Looking /\ (Depth > 1 => Runs(E) /\ Known = {})

Cycle ==
  /\ Expanding /\ OnPath
  /\ IF opts.prune = "sinks" THEN Drop ELSE Add(Step(N, E, "cycle"))
  /\ UNCHANGED <<graph, opts, expanded, tree>>

\* A sink, with the tables it queries.
Sink ==
  /\ Expanding /\ ~OnPath /\ IsSink(N)
  /\ LET queries == Neighbors(graph, N, {"queries"})
     IN  Add([Step(N, E, Plain) EXCEPT !.children = [i \in DOMAIN queries |-> Step(queries[i].to, queries[i], Plain)]])
  /\ UNCHANGED <<graph, opts, expanded, tree>>

Leave ==
  /\ Expanding /\ ~OnPath /\ ~IsSink(N) /\ External(N)
  /\ IF opts.prune = "none" THEN Add(Step(N, E, Plain)) ELSE Drop
  /\ UNCHANGED <<graph, opts, expanded, tree>>

Expandable == Expanding /\ ~OnPath /\ ~IsSink(N) /\ ~External(N)

\* Faulty variant of Ref: the reference is kept whatever it leads to.
RefAlways ==
  /\ Expandable /\ N \in expanded
  /\ Add(Step(N, E, "ref"))
  /\ UNCHANGED <<graph, opts, expanded, tree>>

\* Expanded elsewhere in the tree.
Ref ==
  /\ Expandable /\ N \in expanded
  /\ IF opts.prune = "sinks" /\ N \notin leads THEN Drop ELSE Add(Step(N, E, "ref"))
  /\ UNCHANGED <<graph, opts, expanded, tree>>

\* Faulty variant of Truncate: the node counts as expanded.
TruncateExpanded ==
  /\ Expandable /\ N \notin expanded /\ Depth >= opts.maxDepth
  /\ Add(Step(N, E, "cut"))
  /\ expanded' = expanded \cup {N}
  /\ UNCHANGED <<graph, opts, tree>>

Truncate ==
  /\ Expandable /\ N \notin expanded /\ Depth >= opts.maxDepth
  /\ Add(Step(N, E, "cut"))
  /\ UNCHANGED <<graph, opts, expanded, tree>>

\* expand goes into N; E stays the caller's until it returns.
Descend ==
  /\ Expandable /\ N \notin expanded /\ Depth < opts.maxDepth
  /\ expanded' = expanded \cup {N}
  /\ frames' = <<[step |-> Step(N, E, Plain), left |-> Neighbors(graph, N, {"calls", "dispatches_to"})]>> \o frames
  /\ UNCHANGED <<graph, opts, leads, tree>>

-----------------------------------------------------------------------------
\* children with the steps of each parallel group next to its first one, in
\* the order of their branches.
GroupParallel(children) ==
  LET group(i) == children[i].edge.group
      branch(i) == children[i].edge.branch
      first(i) == Min({i} \cup {j \in DOMAIN children : group(i) # NoGroup /\ group(j) = group(i)})
      inBranch(i, j) == branch(i) < branch(j) \/ (branch(i) = branch(j) /\ i < j)
      before == {p \in (DOMAIN children) \X (DOMAIN children) :
                  \/ first(p[1]) < first(p[2])
                  \/ first(p[1]) = first(p[2]) /\ inBranch(p[1], p[2])}
      order == InOrder(DOMAIN children, before)
  IN  [i \in DOMAIN order |-> children[order[i]]]

\* Faulty variant of Pruned: only a step with a sink among its own children
\* is kept.
PrunedUnlessCaller(step) ==
  opts.prune = "sinks" /\ ~\E i \in DOMAIN step.children : IsSink(step.children[i].node)

\* Under PruneSinks only what leads to a sink is kept.
Pruned(step) == opts.prune = "sinks" /\ step.node \notin leads

\* expand returns: its step becomes a child of the caller's, or nothing.
Finish ==
  /\ Depth > 1 /\ Inner.left = <<>>
  /\ LET step == [Inner.step EXCEPT !.children = GroupParallel(@)]
         caller == frames[2]
         kept == IF Pruned(Inner.step) THEN <<>> ELSE <<step>>
     IN  /\ frames' = <<[step |-> [caller.step EXCEPT !.children = @ \o kept], left |-> Tail(caller.left)]>>
                        \o Tail(Tail(frames))
         /\ leads' = IF kept # <<>> /\ step.node \in leads THEN leads \cup {caller.step.node} ELSE leads
  /\ UNCHANGED <<graph, opts, expanded, tree>>

\* Build returns.
Done ==
  /\ Depth = 1 /\ Inner.left = <<>>
  /\ tree' = <<Inner.step>> /\ frames' = <<>>
  /\ UNCHANGED <<graph, opts, expanded, leads>>

FlowNext == NotRun \/ Again \/ Cycle \/ Sink \/ Leave \/ Ref \/ Truncate \/ Descend \/ Finish \/ Done

-----------------------------------------------------------------------------
\* The steps n levels below root.
Level(root, n) ==
  LET level[m \in Nat] == IF m = 0 THEN {root} ELSE UNION {Range(s.children) : s \in level[m-1]}
  IN  level[n]

\* The steps of a flow with this root.
StepsUnder(root) == UNION {Level(root, n) : n \in 0..(opts.maxDepth + 1)}

\* Build is about to return Inner.step.
Finished == Depth = 1 /\ Inner.left = <<>>
Steps == StepsUnder(Inner.step)

\* The edges that run when n does, for the flow's method: the handlers of
\* the route, the calls of a function of the module.
Followed(n) ==
  LET out(kinds) == {e \in Range(graph.edges) : e.from = n /\ e.kind \in kinds}
  IN  IF n = opts.route THEN out({"handled_by"})
      ELSE IF IsSink(n) \/ External(n) THEN {}
      ELSE {e \in out({"calls", "dispatches_to"}) : Runs(e)}

ReachableFrom(n) ==
  Closure({n}, [x \in DOMAIN graph.nodes |-> {e.to : e \in Followed(x)}])

LeadsToSink(n) == \E m \in ReachableFrom(n) : IsSink(m)

\* No call that the route can reach was cut off by MaxDepth.
NothingCut == \A n \in ReachableFrom(opts.route) : Followed(n) = {} \/ n \in expanded \cup {opts.route}

\* Step s is of node n and has what n queries under it.
ShowsSink(s, n) ==
  /\ s.node = n
  /\ \A q \in Range(graph.edges) :
       q.from = n /\ q.kind = "queries" => \E c \in Range(s.children) : c.node = q.to /\ c.edge = q

\* Unless a call was cut off by MaxDepth, the flow shows every sink the route
\* can reach through the code graph, with its tables, whatever was pruned,
\* seen before or recursive (expand, addTables).
SinksShown ==
  Finished /\ NothingCut =>
    \A n \in ReachableFrom(opts.route) : IsSink(n) => \E s \in Steps : ShowsSink(s, n)

Kept(s) == s.mark = "cut" \/ s.edge.kind = "queries" \/ LeadsToSink(s.node)

\* Under PruneSinks every step that is shown, and not cut off, can reach a
\* sink: "PruneSinks keeps only paths that end in a sink" (flow.go:23).
KeptLeadsToSink ==
  Finished /\ opts.prune = "sinks" => \A s \in Steps : s.node = opts.route \/ Kept(s)

\* A function shown as already expanded is expanded in the tree that is
\* returned, not in a part of it that was pruned or cut off.
RefsExpanded ==
  Finished => \A s \in Steps : s.mark = "ref" => \E t \in Steps : t.node = s.node /\ t.mark = Plain

\* The calls of m that n makes.
CallsTo(n, m) == {e \in Followed(n) : e.to = m}

\* The calls of each child of s are those its function makes.
Counted(s) ==
  s.mark = Plain /\ Kind(s.node) \in {"func", "interface_call"} =>
    \A i, j \in DOMAIN s.children :
      LET c == s.children[i]
      IN  /\ i # j => c.node # s.children[j].node
          /\ CallsOf(c) = Cardinality(CallsTo(s.node, c.node))

\* No call site is lost: a step stands for as many calls as its caller makes
\* of it under the flow's method, grouped in parallel or not.
CallsCounted == Finished => \A s \in Steps : Counted(s)

-----------------------------------------------------------------------------
\* The flow of any route or entry point of any graph that Import or an
\* analysis writes: without an edge to nowhere or one that is there twice.
IsSeq(s) == s \in Seq(Range(s))

IsGraph(g) ==
  /\ IsFiniteSet(DOMAIN g.nodes) /\ IsSeq(g.edges)
  /\ \A e \in Range(g.edges) :
       {e.from, e.to} \subseteq DOMAIN g.nodes /\ e.kind \in EdgeKinds /\ e.pos \in Int /\ e.branch \in Int
  /\ \A i, j \in DOMAIN g.edges : SameEdge(g.edges[i], g.edges[j]) => i = j

IsOptions(g, o) ==
  /\ o.prune \in PruneLevels /\ o.maxDepth \in Nat \ {0}
  /\ o.route \in DOMAIN g.nodes /\ g.nodes[o.route].kind \in {"route", "entry"}

FlowInit == IsGraph(graph) /\ IsOptions(graph, opts) /\ Asked(graph, opts)
FlowSpec == FlowInit /\ [][FlowNext]_flowVars

-----------------------------------------------------------------------------
\* The inductive invariant.
IsStep(s) ==
  /\ s \in [node : DOMAIN graph.nodes, edge : Range(graph.edges) \cup {NoEdge},
            mark : {Plain, "cycle", "ref", "cut"}, calls : Nat, children : {s.children}]
  /\ IsSeq(s.children)

FlowTypeOK ==
  /\ IsGraph(graph) /\ IsOptions(graph, opts)
  /\ IsSeq(frames) /\ Len(frames) <= opts.maxDepth
  /\ \A f \in Range(frames) : IsStep(f.step) /\ f \in [step : {f.step}, left : Seq(Range(graph.edges))]
  /\ expanded \subseteq DOMAIN graph.nodes /\ leads \subseteq DOMAIN graph.nodes

\* The depth of frame i, and the nodes from there to the route.
At(i) == Len(frames) - i + 1
Path(i) == {frames[k].step.node : k \in i..Len(frames)}

\* The expand of step is that of the next edge of the frame below it.
Pending(step, below, depth) ==
  /\ step.mark = Plain /\ step.calls = 0 /\ step.node \in expanded /\ ~IsSink(step.node) /\ ~External(step.node)
  /\ below.left # <<>> /\ step.edge = Head(below.left) /\ step.edge.to = step.node
  /\ depth > 2 => Runs(step.edge) /\ \A c \in Range(below.step.children) : c.node # step.node

Stacked ==
  /\ frames # <<>> =>
       LET root == frames[Len(frames)].step
       IN  root.node = opts.route /\ root.mark = Plain /\ opts.route \notin expanded
  /\ \A i \in DOMAIN frames :
       i < Len(frames) => Pending(frames[i].step, frames[i+1], At(i)) /\ frames[i].step.node \notin Path(i+1)

\* The edges a frame has left start at its node and are left once.
LeftOK(f, depth) ==
  /\ \A e \in Range(f.left) :
       e.from = f.step.node /\ e.kind \in IF depth = 1 THEN {"handled_by"} ELSE {"calls", "dispatches_to"}
  /\ \A i, j \in DOMAIN f.left : f.left[i] = f.left[j] => i = j

\* No step is more than n levels below s.
Within(s, n) == Level(s, n + 1) = {}

RefKnown(s) == s.mark = "ref" => s.node \in expanded /\ (opts.prune = "sinks" => s.node \in leads)

ChildOK(c, depth) ==
  /\ c.edge \in Range(graph.edges) /\ Within(c, opts.maxDepth - depth + 1)
  /\ \A s \in StepsUnder(c) : IsStep(s) /\ Counted(s) /\ RefKnown(s) /\ (opts.prune = "sinks" => Kept(s))

\* Calls of m from a frame with this path are dropped, now and later.
Dropped(m, path) ==
  /\ ~IsSink(m)
  /\ IF m \in path THEN opts.prune = "sinks"
     ELSE IF External(m) THEN opts.prune # "none"
     ELSE opts.prune = "sinks" /\ m \in expanded \ (leads \cup Path(1))

\* The calls of m that frame f has left.
LeftTo(f, m) == {e \in Range(f.left) : e.to = m /\ Runs(e)}

\* Of the calls of a node some are left, the others are counted or dropped.
Counts(f, path) ==
  LET children == f.step.children
  IN  /\ \A i, j \in DOMAIN children : children[i].node = children[j].node => i = j
      /\ \A c \in Range(children) :
           CallsOf(c) + Cardinality(LeftTo(f, c.node)) = Cardinality(CallsTo(f.step.node, c.node))
      /\ \A m \in DOMAIN graph.nodes :
           (\A c \in Range(children) : c.node # m) => LeftTo(f, m) = CallsTo(f.step.node, m) \/ Dropped(m, path)

\* The sinks among the edges that were looked at are children.
SinksSeen(f) ==
  \A e \in Followed(f.step.node) \ Range(f.left) :
    IsSink(e.to) => \E c \in Range(f.step.children) : ShowsSink(c, e.to)

\* What leads nowhere yet has nothing under it that pruning it would lose.
NothingLost(f) ==
  opts.prune = "sinks" /\ f.step.node \notin leads =>
    \A c \in Range(f.step.children) : c.mark = "cut" /\ ~IsSink(c.node) /\ c.children = <<>>

\* The steps that have been built, without those of frames.
Built == UNION {StepsUnder(c) : c \in UNION {Range(f.step.children) : f \in Range(frames)}}

\* n is built, unless it leads nowhere, and so are the sinks that it calls.
NodeBuilt(n) ==
  /\ (opts.prune = "sinks" /\ n \notin leads) \/ \E s \in Built : s.node = n /\ s.mark = Plain
  /\ \A e \in Followed(n) : IsSink(e.to) => \E s \in Built : ShowsSink(s, e.to)

\* What was expanded is in progress or built.
ExpandedBuilt == frames # <<>> => \A n \in expanded \ Path(1) : NodeBuilt(n)

FrameOK(f, depth, path) ==
  /\ LeftOK(f, depth) /\ \A c \in Range(f.step.children) : ChildOK(c, depth)
  /\ depth > 1 => Counts(f, path)
  /\ SinksSeen(f) /\ NothingLost(f)

FlowInv ==
  /\ FlowTypeOK /\ Stacked
  /\ \A i \in DOMAIN frames : FrameOK(frames[i], At(i), Path(i))
  /\ \A n \in leads : LeadsToSink(n)
  /\ ExpandedBuilt
=============================================================================
