------------------------------- MODULE Build -------------------------------
(***************************************************************************)
(* internal/analysis/build.go: the code graph of an analyzed program.  An  *)
(* operator gives the writes of the method of builder with its name, in    *)
(* their order; a node that was added already is written again, as it is.  *)
(* Functions also says of a function outside the module whether its        *)
(* package is excluded; queries has for each sink the uses of tables       *)
(* [table, op] that its SQL was found to make.                             *)
(***************************************************************************)
EXTENDS Auth, Store

CONSTANT Schema  \* the tables that the migrations create

ASSUME SchemaAssumption == IsFiniteSet(Schema)

NodeID(kind, name) == <<kind, name>>
FuncKind(f) == IF Functions[f].impls = {} THEN "func" ELSE "interface_call"
FuncID(f) == NodeID(FuncKind(f), f)
SinkID(f, site) == <<"sink", f, site[1], site[2]>>
TableID(t) == NodeID("sql_table", t)
RouteID == NodeID("route", "the route")

Node(kind, external, branches) == [kind |-> kind, external |-> external, branches |-> branches]
Edge(from, to, kind, pos, methods) ==
  [from |-> from, to |-> to, kind |-> kind, pos |-> pos, methods |-> methods,
   op |-> "", group |-> NoGroup, branch |-> 0]

\* The call sites of a body in source order, and the place of one.
SitesInOrder(body) ==
  FlattenSeq([b \in Blocks(body) |-> [i \in DOMAIN body[b].calls |-> <<b, i>>]])
SitePos(body, site) ==
  Cardinality({s \in Sites(body) : s[1] < site[1] \/ (s[1] = site[1] /\ s[2] <= site[2])})

Excluded(f) == ~Functions[f].module /\ Functions[f].excluded

\* f, a function or a method of an interface.
AddFunc(code, f) ==
  <<[id |-> FuncID(f),
     node |-> Node(FuncKind(f), ~Functions[f].module, IF f \in DOMAIN code THEN Compared(code[f]) ELSE {})]>>

\* A table, of the migrations or inferred.
AddTable(t) == <<[id |-> TableID(t), node |-> Node("sql_table", FALSE, {})]>>

\* Faulty variant of AddInvoke: an interface of another module is taken to
\* be implemented there.
AddInvokeInside(code, f, m, callee, pos, methods) ==
  LET called == AddFunc(code, m) \o <<Edge(FuncID(f), FuncID(m), "calls", pos, methods)>>
  IN  IF Excluded(m) THEN <<>>
      ELSE IF Excluded(callee) \/ ~Functions[m].module THEN called
      ELSE called \o AddFunc(code, callee) \o <<Edge(FuncID(m), FuncID(callee), "dispatches_to", 0, {})>>

\* f calls interface method m, which may be callee.  Interfaces of other
\* modules only dispatch to implementations in this one.
AddInvoke(code, f, m, callee, pos, methods) ==
  LET called == AddFunc(code, m) \o <<Edge(FuncID(f), FuncID(m), "calls", pos, methods)>>
  IN  IF Excluded(m) THEN <<>>
      ELSE IF Excluded(callee) \/ ~(Functions[m].module \/ Functions[callee].module) THEN called
      ELSE called \o AddFunc(code, callee) \o <<Edge(FuncID(m), FuncID(callee), "dispatches_to", 0, {})>>

\* The call of f at site.
AddCall(code, f, site) ==
  LET callee == CallAt(code[f], site)
      pos == SitePos(code[f], site)
      methods == MethodsOf(code[f], site[1])
      impls == SetToSeq(Functions[callee].impls)
  IN  IF Functions[callee].impls # {}
      THEN FlattenSeq([i \in DOMAIN impls |-> AddInvoke(code, f, callee, impls[i], pos, methods)])
      ELSE IF Excluded(callee) THEN <<>>
      ELSE AddFunc(code, callee) \o <<Edge(FuncID(f), FuncID(callee), "calls", pos, methods)>>

AddCalls(code, f) ==
  LET sites == SitesInOrder(code[f])
  IN  FlattenSeq([i \in DOMAIN sites |-> AddCall(code, f, sites[i])])

\* The tables that a sink uses; those that no migration creates are inferred.
AddTableUses(sink, uses) ==
  FlattenSeq([i \in DOMAIN uses |->
    (IF uses[i].table \in Schema THEN <<>> ELSE AddTable(uses[i].table))
      \o <<[Edge(sink, TableID(uses[i].table), "queries", 0, {}) EXCEPT !.op = uses[i].op]>>])

\* The function whose rule makes a call of f a sink, of an interface call the
\* first callee that a rule names; and the uses found for it.
Rule(f) == IF Functions[f].sink THEN f ELSE CHOOSE i \in SiteCallees(f) : Functions[i].sink
UsesAt(queries, f) == IF Rule(f) \in DOMAIN queries THEN queries[Rule(f)] ELSE <<>>

\* The sink call sites of f, each called by f.
AddSinks(code, f) ==
  LET sites == SitesInOrder(code[f])
      sink(s) ==
        <<[id |-> SinkID(f, s), node |-> Node("sink", FALSE, {})]>> \o AddFunc(code, f)
          \o <<Edge(FuncID(f), SinkID(f, s), "calls", SitePos(code[f], s), MethodsOf(code[f], s[1]))>>
  IN  FlattenSeq([i \in DOMAIN sites |-> IF <<f, sites[i]>> \in DetectedSinks(code) THEN sink(sites[i]) ELSE <<>>])

\* What the sinks of f query.
AddQueries(code, queries, f) ==
  LET sites == SitesInOrder(code[f])
      uses(s) == AddTableUses(SinkID(f, s), UsesAt(queries, CallAt(code[f], s)))
  IN  FlattenSeq([i \in DOMAIN sites |-> IF <<f, sites[i]>> \in DetectedSinks(code) THEN uses(sites[i]) ELSE <<>>])

AddSchema ==
  LET tables == SetToSeq(Schema) IN FlattenSeq([i \in DOMAIN tables |-> AddTable(tables[i])])

\* The route, its handler and the guards it uses (a set of functions).
AddRoute(code, handler, guards) ==
  LET uses == SetToSeq(guards)
  IN  <<[id |-> RouteID, node |-> Node("route", FALSE, {})]>> \o AddFunc(code, handler)
        \o <<Edge(RouteID, FuncID(handler), "handled_by", 0, {})>>
        \o FlattenSeq([i \in DOMAIN uses |->
             AddFunc(code, uses[i]) \o <<Edge(RouteID, FuncID(uses[i]), "guarded_by", 0, {})>>])

\* What LinkSQL adds to an imported graph: the tables, and what those of its
\* sinks query whose SQL is known.
LinkSQL(g, queries) ==
  LET sinks == SetToSeq({id \in DOMAIN queries \cap DOMAIN g.nodes : g.nodes[id].kind = "sink"})
  IN  Write(g, AddSchema \o FlattenSeq([i \in DOMAIN sinks |-> AddTableUses(sinks[i], queries[sinks[i]])]))

\* The graph of code with one route.
BuildGraph(code, queries, handler, guards) ==
  Write(Open,
        FlattenSeq([i \in DOMAIN Own |-> AddFunc(code, Own[i])])
          \o FlattenSeq([i \in DOMAIN Own |-> IF Own[i] \in DOMAIN code THEN AddCalls(code, Own[i]) ELSE <<>>])
          \o FlattenSeq([i \in DOMAIN Own |-> IF Own[i] \in DOMAIN code THEN AddSinks(code, Own[i]) ELSE <<>>])
          \o AddSchema
          \o FlattenSeq([i \in DOMAIN Own |-> IF Own[i] \in DOMAIN code THEN AddQueries(code, queries, Own[i]) ELSE <<>>])
          \o AddRoute(code, handler, guards))
=============================================================================
