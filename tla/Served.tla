------------------------------- MODULE Served -------------------------------
(***************************************************************************)
(* A route as icb shows it and requests as the analyzed program serves     *)
(* them: the program is analyzed (Auth, Build), the flow of its route is   *)
(* built (Flow), and then a request is executed (Requests).  Graphs that   *)
(* another extractor wrote are imported and their flows built, without a   *)
(* program to execute.                                                     *)
(*                                                                         *)
(* A program also has, for its sinks, queries, the uses of tables that the *)
(* analysis finds in what they are given, and touches, those that running  *)
(* them may come to (see Queries).                                         *)
(***************************************************************************)
EXTENDS Requests, Flow, Build

CONSTANTS Documents,       \* what other extractors write
          DocumentQueries, \* the uses found in the SQL of their sinks
          DepthLimits      \* Options.MaxDepth

IsUses(uses) == \A f \in DOMAIN uses : IsSeq(uses[f])

\* What the fields of a document are that the model looks at.
IsDocument(doc) ==
  /\ IsSeq(doc.nodes) /\ IsSeq(doc.edges)
  /\ \A n \in Range(doc.nodes) : IsNodeWrite(n)
  /\ \A e \in Range(doc.edges) : ~IsNodeWrite(e) /\ e.pos \in Int /\ e.branch \in Int

ASSUME ServedAssumption ==
  /\ \A p \in Programs : IsUses(p.queries)
  /\ IsUses(DocumentQueries) /\ \A doc \in Documents : IsDocument(doc)
  /\ DepthLimits \subseteq Nat \ {0}

MaxPath == 3  \* of the path queries that are checked

NoProgram == [code |-> <<>>, queries |-> <<>>, touches |-> <<>>, route |-> <<>>]
Options(m, prune, depth) == [method |-> m, prune |-> prune, maxDepth |-> depth, route |-> RouteID]

\* The functions a route is said to be guarded by.
Guards == {f \in DOMAIN verdict.uses : verdict.uses[f] # {}}

InitAnalyzed ==
  /\ Init
  /\ \E prune \in PruneLevels :
       Asked(BuildGraph(code, program.queries, Last(program.route), Guards),
             Options(IF verdict.method = "ANY" THEN method ELSE verdict.method, prune, 16))

\* Build only answers for a route that is in the graph.
InitImported ==
  /\ program = NoProgram /\ method = "ANY" /\ verdict = <<>> /\ stack = <<>>
  /\ \E doc \in Documents, prune \in PruneLevels, depth \in DepthLimits :
       LET imported == LinkSQL(Import(Open, doc), DocumentQueries)
           asked == Options("ANY", prune, depth)
       IN  IsOptions(imported, asked) /\ Asked(imported, asked)

Expand == tree = <<>> /\ FlowNext /\ UNCHANGED vars
Serve == tree # <<>> /\ Next /\ UNCHANGED flowVars

ServedSpec == (InitAnalyzed \/ InitImported) /\ [][Expand \/ Serve]_<<vars, flowVars>>

-----------------------------------------------------------------------------
\* Whether the running function was called by the handler through calls that
\* are in the graph: in the module only, and not of an interface that is
\* excluded.
Direct ==
  /\ Len(program.route) = 1
  /\ \A i \in Above :
       LET called == Calls(stack[i])[stack[i].at]
       IN  stack[i-1].fn \in SiteCallees(called) /\ ~Excluded(called)

\* A name of a table that is not known (sqlparse's unknownIdent).
UnknownTable == "icb_unknown"

\* Step s shows use u: its table, or a name that is not known, and a write
\* as a write.
ShowsUse(s, u) ==
  \E c \in Range(s.children) :
    /\ c.node \in {TableID(u.table), TableID(UnknownTable)}
    /\ u.op # "select" => c.edge.op # "select"

\* Unless a call was cut off, what a request of the flow's method does
\* outside the program, reached without a library calling back, is shown in
\* the flow (Build, Flow.Runs), and so is every table that its SQL then
\* touches (Queries).
ExecutedIsShown ==
  tree # <<>> /\ Direct /\ Calling /\ IsSinkCall(Callee) /\ NothingCut =>
    \E s \in StepsUnder(tree[1]) :
      /\ s.node = SinkID(Top.fn, Site(Top))
      /\ Rule(Callee) \in DOMAIN program.touches =>
           \A u \in program.touches[Rule(Callee)] : ShowsUse(s, u)

\* Use u is among those found: every find of its table, or of a name that is
\* not known, is one of a write if u is.
Found(uses, u) ==
  \E table \in {u.table, UnknownTable} :
    /\ \E i \in DOMAIN uses : uses[i].table = table
    /\ u.op # "select" => \A i \in DOMAIN uses : uses[i].table = table => uses[i].op # "select"

\* What the analysis of the sinks' SQL finds covers what it touches.
TouchesFound ==
  \A p \in Programs : \A f \in DOMAIN p.touches :
    f \in DOMAIN p.queries /\ \A u \in p.touches[f] : Found(p.queries[f], u)

\* What Paths promises: "up to opts.Limit acyclic paths from one node to
\* another, shortest first", of at most maxDepth edges.
Acyclic(to, w) ==
  /\ \A i \in 2..Len(w) : graph.edges[w[i]].from = graph.edges[w[i-1]].to
  /\ \A i, j \in DOMAIN w : i # j => graph.edges[w[i]].from # graph.edges[w[j]].from
  /\ \A i \in DOMAIN w : graph.edges[w[i]].to = to <=> i = Len(w)

\* The search backwards from the end, which keeps Paths from walking the
\* whole graph, loses none (near).
PathsComplete ==
  Finished /\ opts.prune = "none" =>
    \A to \in {n \in DOMAIN graph.nodes : IsSink(n)}, limit \in {1, 10} :
      LET ids == DOMAIN graph.edges
          all == {w \in UNION {[1..n -> ids] : n \in 1..MaxPath} :
                   graph.edges[w[1]].from = opts.route /\ Acyclic(to, w)}
          paths == Paths(graph, opts.route, to, EdgeKinds, MaxPath, limit)
      IN  /\ paths \subseteq all
          /\ Cardinality(paths) = Min({limit, Cardinality(all)})
          /\ \A v \in all \ paths, w \in paths : Len(w) <= Len(v)

-----------------------------------------------------------------------------
(***************************************************************************)
(* Why they hold: an inductive invariant, of what is in progress and of    *)
(* the flow that was returned.                                             *)
(***************************************************************************)
\* The request is one of the flow's, in the program whose graph it shows.
Analyzed ==
  /\ IInv
  /\ graph = BuildGraph(code, program.queries, Last(program.route), Guards)
  /\ opts.route = RouteID /\ opts.method = method

SinksInTree ==
  tree # <<>> /\ NothingCut =>
    \A n \in ReachableFrom(opts.route) : IsSink(n) => \E s \in StepsUnder(tree[1]) : ShowsSink(s, n)

ServedInv == FlowInv /\ (Analyzed \/ stack = <<>>) /\ SinksInTree
=============================================================================
