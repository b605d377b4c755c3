---------------------------- MODULE Entrypoints ----------------------------
(***************************************************************************)
(* internal/analysis/entrypoints.go: the ways into a program other than    *)
(* its routes, and how build.go puts them into the graph.                  *)
(*                                                                         *)
(* Instructions: "go" starts fn; "row" is a literal of a struct type with  *)
(* a function and strings, args; "callfield" calls the function of a row   *)
(* of the type; "subscribe" has a subject and a callback; "command" is a   *)
(* cobra.Command with a Use and, if it runs anything, a function;          *)
(* "addcommand" has a parent and a slice of commands; "rpc" registers an   *)
(* object for a service with methods.  Queue groups are left out, and so   *)
(* are goroutines that are started from function values.                   *)
(***************************************************************************)
EXTENDS Routers, Reach

CONSTANTS MainPackage,  \* functions of package main, literals in them included
          Literals,     \* function literals
          StringFields  \* struct type -> the names of its string fields, in order

NameFields == {"Name", "ID", "Kind", "Use"}

\* An entry point; names are what it may be called.  pos orders entries as
\* their places in the source do.
EntryPoint(kind, names, fn, parent, pos) ==
  [kind |-> kind, names |-> names, fn |-> fn, parent |-> parent, pos |-> pos]

Pos(v) == Position(v)
FuncPos(f) == Position(<<f, 0>>)

Sites(code, f) == InOrder({v \in AllValues(code) : v[1] = f})

\* The functions a function value resolves to.
RECURSIVE ValueFuncs(_, _, _)
ValueFuncs(code, v, depth) ==
  LET i == Instr(code, v)
      returns == InOrder(Returns(code, i.fn))
  IN  IF depth > 4 THEN <<>>
      ELSE CASE i.op = "func" -> <<i.fn>>
             [] i.op = "closure" -> <<i.fn, ClosureTarget(code, i.fn)>>
             [] i.op = "convert" -> ValueFuncs(code, i.args[1], depth + 1)
             [] i.op = "call" -> FlattenSeq([n \in DOMAIN returns |-> ValueFuncs(code, returns[n], depth + 1)])
             [] OTHER -> <<>>

\* The first of fs that is written in the module.
FirstOwn(code, fs) == SelectInSeq(fs, LAMBDA f : f \in DOMAIN code /\ f \notin Wrappers)

-----------------------------------------------------------------------------
\* The call graph's callees of a call through a field of a type.
RECURSIVE PointsTo(_, _, _)
PointsTo(code, v, depth) ==
  LET i == Instr(code, v)
      of(ws) == UNION {PointsTo(code, w, depth + 1) : w \in ws}
  IN  IF depth > MaxEvalDepth THEN {}
      ELSE CASE i.op \in {"func", "closure"} -> {i.fn}
             [] i.op = "convert" -> of(Range(i.args))
             [] i.op = "load" -> of(Stored(code, i.var))
             [] i.op = "param" -> of({Instr(code, c).args[i.num] : c \in CallsOf(code, v[1])})
             [] i.op = "call" /\ i.fn \in DOMAIN code -> of(Returns(code, i.fn))
             [] OTHER -> {}

RowsOf(code, type) == {v \in Instrs(code, "row") : Instr(code, v).type = type}

\* What a call may run, methods without their wrappers.
Callees(code, v) ==
  LET i == Instr(code, v)
  IN  CASE i.op \in {"call", "go"} -> {ClosureTarget(code, i.fn)}
        [] i.op = "callfield" -> UNION {PointsTo(code, Instr(code, r).args[1], 0) : r \in RowsOf(code, i.type)}
        [] OTHER -> {}

FirstFunc(fs) == CHOOSE f \in fs : \A g \in fs : FuncPos(f) <= FuncPos(g)

\* What a go statement runs: of a literal, the first function of the module
\* that it calls.
GoTarget(code, v) ==
  LET f == Instr(code, v).fn
      own(w) == Callees(code, w) \cap DOMAIN code
      first == SelectInSeq(Sites(code, f), LAMBDA w : own(w) # {})
  IN  IF f \notin Literals THEN ClosureTarget(code, f)
      ELSE IF first = 0 THEN f ELSE FirstFunc(own(Sites(code, f)[first]))

Certain(names) == IF Unknown \in names THEN {} ELSE names

\* The name that a row's literal gives it: its name-like field, or else the
\* first string.  {} if it is not known.
LiteralName(code, row) ==
  LET i == Instr(code, row)
      fields == StringFields[i.type]
      like == SelectInSeq(fields, LAMBDA f : f \in NameFields)
  IN  IF fields = <<>> THEN {} ELSE Certain(Strings(code, i.args[1 + (IF like = 0 THEN 1 ELSE like)]))

FirstOr(seq, none) == IF seq = <<>> THEN none ELSE Head(seq)

\* The name of the first row of the type that f is in and that has one.
JobName(code, f, type) ==
  LET rows == InOrder({r \in RowsOf(code, type) : f \in Range(ValueFuncs(code, Instr(code, r).args[1], 0))})
  IN  FirstOr(SelectSeq([n \in DOMAIN rows |-> LiteralName(code, rows[n])], LAMBDA names : names # {}), {})

\* Faulty variant of Runs: only what the worker itself calls.
RunsItself(code, worker) == {worker} \cap DOMAIN code

\* The functions of the module that a worker runs, jobs apart.
Runs(code, worker) ==
  LET next == [f \in DOMAIN code |->
                 UNION {Callees(code, v) : v \in {w \in AllValues(code) : w[1] = f /\ Instr(code, w).op # "callfield"}}
                   \cap DOMAIN code]
  IN  Closure({worker} \cap DOMAIN code, next)

JobEntry(worker, f, names) ==
  EntryPoint("job", IF names = {} THEN {<<f>>} ELSE names, f, <<worker>>, FuncPos(f))

\* The jobs of a worker: what it calls through fields.
Jobs(code, worker) ==
  UNION {LET type == Instr(code, v).type
         IN  {JobEntry(worker, ClosureTarget(code, f), JobName(code, f, type)) : f \in Callees(code, v) \cap DOMAIN code}
         : v \in {w \in Instrs(code, "callfield") : w[1] \in Runs(code, worker)}}

Workers(code) ==
  UNION {LET f == GoTarget(code, v)
         IN  {EntryPoint("worker", {<<f>>}, f, <<>>, Pos(v))} \cup Jobs(code, f)
         : v \in {w \in Instrs(code, "go") : w[1] \in MainPackage}}

-----------------------------------------------------------------------------
Consumers(code) ==
  UNION {LET i == Instr(code, v)
             fs == ValueFuncs(code, i.args[2], 0)
             n == FirstOwn(code, fs)
         IN  IF n = 0 THEN {} ELSE {EntryPoint("consumer", Strings(code, i.args[1]), fs[n], <<>>, Pos(v))}
         : v \in Instrs(code, "subscribe")}

\* The methods of services that the registered object's own type has; that
\* of an interface is not known.
Services(code) ==
  UNION {LET i == Instr(code, v)
             given == Instr(code, i.args[1])
             impl == IF given.op = "convert" THEN Instr(code, given.args[1]) ELSE given
             set == IF impl.op = "object" THEN MethodSets[impl.type] ELSE <<>>
         IN  {EntryPoint("rpc", {<<i.service, "/", m>>}, set[m], <<>>, Pos(v))
                : m \in {x \in i.methods \cap DOMAIN set : set[x] \in DOMAIN code \ Wrappers}}
         : v \in Instrs(code, "rpc")}

\* The command that a value is: a literal or what a constructor returns.
CommandOf(code, v) ==
  LET i == Instr(code, v)
  IN  IF i.op = "command" THEN v
      ELSE IF i.op # "call" THEN <<>>
      ELSE FirstOr(InOrder({r \in Returns(code, i.fn) : Instr(code, r).op = "command"}), <<>>)

\* A command's parent is what it was added to last.
ParentOf(code, c) ==
  LET adds == SelectSeq(InOrder(Instrs(code, "addcommand")), LAMBDA v :
                \E w \in Range(SliceValues(code, Instr(code, v), 2)) : CommandOf(code, w) = c)
      parents == [n \in DOMAIN adds |-> CommandOf(code, Instr(code, adds[n]).args[1])]
  IN  FirstOr(Reverse(SelectSeq(parents, LAMBDA p : p \notin {<<>>, c})), <<>>)

\* The first word of a command's Use.
FirstWord(use) ==
  LET spaces == {n \in DOMAIN use : use[n] = " "}
  IN  IF use = <<>> THEN Unknown ELSE IF spaces = {} THEN use ELSE SubSeq(use, 1, Min(spaces) - 1)
CommandName(code, c) == FirstWord(CHOOSE s \in Strings(code, Instr(code, c).args[1]) : TRUE)

\* The name of the n-th command above c, after that of its parents, up to 8.
RECURSIVE CommandPath(_, _, _)
Above(code, parent, n) == IF parent = <<>> \/ n > 8 THEN <<>> ELSE CommandPath(code, parent, n) \o <<" ">>
CommandPath(code, c, n) == Above(code, ParentOf(code, c), n + 1) \o CommandName(code, c)

CommandEntry(code, c, fs, parent) ==
  IF FirstOwn(code, fs) = 0 THEN {}
  ELSE {EntryPoint("command", {CommandPath(code, c, 1)}, fs[FirstOwn(code, fs)],
                   IF parent = <<>> THEN <<>> ELSE CommandPath(code, parent, 2), Pos(c))}

Commands(code) ==
  UNION {LET i == Instr(code, c)
         IN  CommandEntry(code, c, IF Len(i.args) = 1 THEN <<>> ELSE ValueFuncs(code, i.args[2], 0), ParentOf(code, c))
         : c \in Instrs(code, "command")}

-----------------------------------------------------------------------------
\* In source order.  Of entries that differ in their parent only one is kept.
Sorted(all) ==
  LET same(e) == {d \in all : [d EXCEPT !.parent = e.parent] = e}
  IN  SetToSortSeq({CHOOSE d \in same(e) : TRUE : e \in all}, LAMBDA d, e : d.pos < e.pos)
DiscoverEntryPoints(code) == Sorted(Workers(code) \cup Consumers(code) \cup Services(code) \cup Commands(code))

\* The edges from workers to their jobs: a worker that is not yet in the
\* graph has none.
RunsEdges(entries) ==
  FoldLeft(LAMBDA acc, e :
             CASE e.kind = "worker" -> [acc EXCEPT !.workers = @ \cup {e.fn}]
               [] e.kind = "job" /\ e.parent[1] \in acc.workers -> [acc EXCEPT !.edges = @ \cup {<<e.parent[1], e.fn>>}]
               [] OTHER -> acc,
           [workers |-> {}, edges |-> {}], entries).edges
=============================================================================
