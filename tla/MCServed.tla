------------------------------ MODULE MCServed ------------------------------
(***************************************************************************)
(* Small instances of Served.  The imported documents are all graphs of a  *)
(* handler, two functions, an external one and a sink with up to four      *)
(* calls besides the handler's first, and some with parallel groups.  The  *)
(* programs branch on the method, call through interfaces of the module    *)
(* and of a library, twice, recursively and back from a library.           *)
(***************************************************************************)
EXTENDS Served, Queries

Leaf == [module |-> FALSE, request |-> FALSE, ok |-> FALSE, authName |-> FALSE,
         denialName |-> FALSE, sink |-> FALSE, chain |-> FALSE, calls |-> {}, impls |-> {},
         excluded |-> FALSE]
Own1 == [Leaf EXCEPT !.module = TRUE]

MCFunctions ==
  [authenticate |-> [Own1 EXCEPT !.request = TRUE, !.ok = TRUE, !.authName = TRUE],
   handler |-> [Own1 EXCEPT !.request = TRUE],
   list |-> Own1, save |-> Own1,
   Store |-> [Own1 EXCEPT !.impls = {"list", "save"}],
   Runner |-> [Leaf EXCEPT !.impls = {"save", "Run"}],
   DBTX |-> [Own1 EXCEPT !.impls = {"Query", "Run"}],
   Run |-> Leaf,
   Each |-> [Leaf EXCEPT !.calls = {"list"}],
   Sprint |-> [Leaf EXCEPT !.excluded = TRUE],
   Query |-> [Leaf EXCEPT !.sink = TRUE, !.excluded = TRUE],
   Exec |-> [Leaf EXCEPT !.sink = TRUE]]
MCAuthRoles == [f \in {} |-> ""]
MCOwn == <<"Store", "DBTX", "authenticate", "handler", "list", "save">>

None == [kind |-> "none"]
GET(equal) == [kind |-> "method", method |-> "GET", equal |-> equal]
POST == [kind |-> "method", method |-> "POST", equal |-> TRUE]
Opaque == [kind |-> "opaque"]
Ret(calls) == [calls |-> calls, cond |-> None, succs |-> <<>>]
If(calls, cond, b, c) == [calls |-> calls, cond |-> cond, succs |-> <<b, c>>]

Called == {<<>>, <<"list">>, <<"Store">>, <<"Runner", "list">>, <<"list", "list">>, <<"Exec">>, <<"Each">>}
Handlers ==
  {<<If(<<>>, k, 2, 3), Ret(d), If(<<>>, l, 4, 2), Ret(e)>> :
    d \in Called, e \in {<<"save">>, <<"DBTX">>},
    k \in {GET(TRUE), GET(FALSE), Opaque}, l \in {POST, GET(FALSE)}}
Lists == {<<Ret(<<"Query">>)>>, <<If(<<>>, Opaque, 2, 3), Ret(<<"Sprint", "Runner">>), Ret(<<>>)>>}
Saves == {<<Ret(<<"Exec", "list">>)>>, <<If(<<"Store">>, POST, 2, 3), Ret(<<"Run">>), Ret(<<"Exec">>)>>}

-----------------------------------------------------------------------------
\* SQL: the operations on two tables of which the migrations create one,
\* with other tables, CTEs and statements in them.
Users == Table("users")
Log == Table("log")
SQL(op, target, from) ==
  [op |-> op, target |-> target, from |-> from, ctes |-> <<>>, recursive |-> FALSE, subs |-> <<>>]
Select(from) == SQL("select", NoTable, from)
Heads == {<<"select", NoTable>>, <<"insert", Users>>, <<"update", Users>>, <<"delete", Log>>, <<"merge", Log>>}
Froms == {<<>>, <<Users>>, <<Users, Log>>, <<[schema |-> "app", name |-> "users"]>>, <<Table(UnknownIdent)>>}
Recent == Table("recent")
Withs ==
  {[SQL(h[1], h[2], f) EXCEPT !.ctes = <<[name |-> "recent", stmt |-> c]>>, !.recursive = TRUE] :
     h \in Heads, f \in {<<Recent>>, <<Log, Recent>>},
     c \in {Select(<<Users>>), Select(<<Log, Recent>>), SQL("delete", Users, <<>>)}}
    \cup {[Select(<<Table("last")>>) EXCEPT !.ctes = <<[name |-> "recent", stmt |-> Select(<<Users>>)],
                                                     [name |-> "last", stmt |-> Select(<<Recent>>)]>>]}
Statements1 == {SQL(h[1], h[2], f) : h \in Heads, f \in Froms} \cup Withs
Nested == {[SQL(h[1], h[2], <<>>) EXCEPT !.subs = <<s>>] : h \in Heads, s \in {Select(<<Log>>)} \cup Withs}
Text(stmts) == [parsed |-> TRUE, stmts |-> stmts]
Word(w, t) == [word |-> w, table |-> t]
Unparsed(op, words, stmt) == [parsed |-> FALSE, op |-> op, words |-> words, stmts |-> <<stmt>>]

OneText == {<<Text(<<s>>)>> : s \in Statements1 \cup Nested}
Texts ==
  OneText
    \cup {<<Text(<<Select(<<Users>>), s>>)>> : s \in Withs}
    \cup {<<Text(<<Select(<<Users>>)>>), UnknownText, Text(<<SQL(h[1], h[2], f)>>)>> : h \in Heads, f \in Froms}
    \cup {<<Unparsed("delete", <<Word("from", "log")>>, SQL("delete", Log, <<>>))>>,
          <<Unparsed("insert", <<Word("into", "log"), Word("from", "users")>>, SQL("insert", Log, <<Users>>))>>,
          <<Unparsed("update", <<Word("update", "log")>>, SQL("update", Log, <<>>))>>,
          <<Unparsed("ddl", <<Word("table", "log")>>, SQL("ddl", Log, <<>>))>>,
          <<Unparsed("select", <<Word("from", "log"), Word("join", UnknownIdent)>>, Select(<<Log>>))>>}

On(call, table, db) == [call |-> call, table |-> table, on |-> db]
DB == [call |-> "Open"]
Chains ==
  {On("Where", "", DB), On("Model", "users", DB), On("Where", "", On("Table", "log", DB)), On("Table", "log", On("Model", "users", DB)),
   [call |-> "phi", of |-> <<On("Model", "users", DB), On("Where", "", On("Table", "log", DB))>>]}
\* Some table is named.  FirstOrCreate's insert is not shown.
Gorm == {f \in [call : DOMAIN GormFinishers \ {"FirstOrCreate"}, on : Chains, dest : {"users"}] :
           f.on = On("Where", "", DB) => f.call \in GormDestArg \cup {"Updates"}}

\* A program whose sinks are given this: [texts] or [gorm: a finisher].
Given(bodies, given) ==
  [code |-> bodies, queries |-> [f \in DOMAIN given |-> UsesOf(given[f])],
   touches |-> [f \in DOMAIN given |-> Executed(given[f])], route |-> <<"handler">>]

MCGiven ==
  [Query |-> [texts |-> <<Text(<<Select(<<Users>>)>>)>>],
   Exec |-> [texts |-> <<Text(<<SQL("insert", Users, <<>>), SQL("insert", Log, <<>>)>>)>>]]

MCPrograms ==
  {Given([handler |-> h, list |-> l, save |-> s], MCGiven) : h \in Handlers, l \in Lists, s \in Saves}
  \cup
  {Given([handler |-> <<Ret(<<"list">>)>>, list |-> <<Ret(<<"Query">>)>>], [Query |-> given]) :
    given \in [texts : Texts] \cup [gorm : Gorm]}

\* The hypothesis of ServedProofs on what SQL is found to touch.
ASSUME AllFound == TouchesFound /\ UnknownTable = UnknownIdent

-----------------------------------------------------------------------------
H == <<"func", "h">>
A == <<"func", "a">>
B == <<"func", "b">>
X == <<"func", "x">>
S == <<"sink", "s", 1, 1>>
DocNodes ==
  <<[id |-> RouteID, node |-> Node("route", FALSE, {})], [id |-> H, node |-> Node("func", FALSE, {})],
    [id |-> A, node |-> Node("func", FALSE, {})], [id |-> B, node |-> Node("func", FALSE, {})],
    [id |-> X, node |-> Node("func", TRUE, {})], [id |-> S, node |-> Node("sink", FALSE, {})]>>
Doc(edges) ==
  [version |-> 1, nodes |-> DocNodes,
   edges |-> <<Edge(RouteID, H, "handled_by", 0, {}), Edge(H, A, "calls", 2, {})>> \o edges]

\* The calls that a document may have, in source order.
Sites1 ==
  {Edge(H, B, "calls", 1, {}), Edge(H, B, "calls", 3, {}), Edge(H, S, "calls", 4, {}),
   Edge(A, B, "calls", 1, {}), Edge(A, S, "calls", 2, {}), Edge(A, H, "calls", 3, {}),
   Edge(A, A, "calls", 4, {}), Edge(A, X, "calls", 5, {}),
   Edge(B, A, "calls", 1, {}), Edge(B, S, "calls", 2, {}), Edge(B, H, "calls", 3, {}), Edge(B, B, "calls", 4, {})}
Parallel(g, b, e) == [e EXCEPT !.group = g, !.branch = b]
MCDocuments ==
  {Doc(SetToSeq(es)) : es \in UNION {kSubset(n, Sites1) : n \in 0..4}}
    \cup {Doc(<<Parallel("1", b, Edge(H, B, "calls", 3, {})), Parallel(g, c, Edge(H, X, "calls", 4, {})),
                Parallel("1", d, Edge(H, S, "calls", 5, {})), Edge(B, S, "calls", 1, {})>>) :
          g \in {NoGroup, "2", "1"}, b, c, d \in {1, 2, Each}}

MCDocumentQueries == [id \in {S} |-> AnalyzeQueries(<<Text(<<SQL("insert", Log, <<Users>>)>>)>>)]

MCRouteMethods(m) == IF m = "GET" THEN {m, "ANY"} ELSE {m}
=============================================================================
