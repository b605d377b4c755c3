------------------------------ MODULE Routing ------------------------------
(***************************************************************************)
(* Programs that set up their routes, executed against what analysis       *)
(* (Values, Routers) says of them.  The libraries are external: chi's Use  *)
(* panics once a router has routes; gin's groups, and echo's, give routes  *)
(* and groups the middleware they have at that time; gorilla's routers and *)
(* echo's root apply theirs when they serve.                               *)
(***************************************************************************)
EXTENDS Routers

CONSTANTS Programs,  \* function -> instructions
          Outside,   \* what functions outside the module may return
          MaxBranches

VARIABLES code, found, frames, globals,
          routers,   \* the libraries' routers, groups and routes
          served,    \* what has been registered
          branches,  \* branches taken so far
          ran, again, late, \* library calls made, made twice, Use after use
          blind     \* a library was given a string that analysis does not see

vars == <<code, found, frames, globals, routers, served, branches, ran, again, late, blind>>
libraries == <<routers, served, ran, again, late>>

\* A string of the program, made of strings that analysis sees or not.
Text(s) == [kind |-> "text", text |-> s, seen |-> TRUE]
Router(id) == [kind |-> "router", id |-> id]
List(elems) == [kind |-> "list", elems |-> elems]
Func(fn, mws) == [kind |-> "func", fn |-> fn, mws |-> mws]

\* Whether analysis sees a value, and one that it does not see.
Seen(v) ==
  CASE v.kind = "text" -> v.seen
    [] v.kind = "list" -> \A e \in Range(v.elems) : e.kind = "text" => e.seen
    [] OTHER -> TRUE
AllSeen(vs) == \A v \in Range(vs) : Seen(v)
Unseen(v) ==
  CASE v.kind = "text" -> [v EXCEPT !.seen = FALSE]
    [] v.kind = "list" -> List([n \in DOMAIN v.elems |-> IF v.elems[n].kind = "text" THEN [v.elems[n] EXCEPT !.seen = FALSE]
                                                         ELSE v.elems[n]])
    [] OTHER -> v
Made(s, vs) == [Text(s) EXCEPT !.seen = AllSeen(vs)]

\* A running function; role says what it was called as.
Frame(role, f, args) == [fn |-> f, role |-> role, at |-> 1, jumped |-> FALSE, args |-> args, env |-> <<>>]

TextOps == {"const", "concat", "convert", "phi", "load", "get", "index", "field", "param", "call", "extract", "join", "sprintf"}

\* What analysis finds in program p.
FoundIn(p, registered) ==
  [registered |-> registered,
   routes |-> DiscoverRoutes(registered),
   strings |-> [v \in UNION {Instrs(p, op) : op \in TextOps} |-> Strings(p, v)]]

Analyzed == {[code |-> p, found |-> FoundIn(p, Registrations(p))] : p \in Programs}

Init ==
  /\ \E a \in Analyzed : code = a.code /\ found = a.found
  /\ frames = IF "init" \in DOMAIN code THEN <<Frame("init", "init", <<>>), Frame("main", "main", <<>>)>>
              ELSE <<Frame("main", "main", <<>>)>>
  /\ globals = <<>> /\ routers = <<>> /\ served = {}
  /\ branches = 0 /\ ran = {} /\ again = FALSE /\ late = FALSE /\ blind = FALSE

Running == frames # <<>>
Top == Head(frames)
AtEnd == Running /\ Top.at > Len(code[Top.fn])
I == code[Top.fn][Top.at]
Here == <<Top.fn, Top.at>>
Is(op) == Running /\ ~AtEnd /\ I.op = op

Get(v) == Top.env[v[2]]
Args == [n \in DOMAIN I.args |-> Get(I.args[n])]

\* The running function after its instruction gave value.
Given(value) == [Top EXCEPT !.at = @ + 1, !.jumped = @ /\ I.op = "phi", !.env = (Top.at :> value) @@ @]
Continue(value) == frames' = <<Given(value)>> \o Tail(frames)

-----------------------------------------------------------------------------
\* path.Clean, and path.Join.
Clean(s) ==
  LET once == {n \in DOMAIN s : s[n] # "/" \/ n = 1 \/ s[n-1] # "/"}
      single == FoldLeft(LAMBDA acc, n : IF n \in once THEN Append(acc, s[n]) ELSE acc, <<>>, [n \in DOMAIN s |-> n])
  IN  IF Len(single) > 1 THEN TrimSlash(single) ELSE single

PathJoin(elems) ==
  Clean(FoldLeft(LAMBDA out, e : IF out = <<>> \/ e = <<>> THEN out \o e ELSE out \o <<"/">> \o e, <<>>, elems))

Printed(format, elems) ==
  FoldLeft(LAMBDA acc, t : CASE t = "%%" -> [acc EXCEPT !.out = Append(@, "%")]
                             [] t = "%s" -> [out |-> acc.out \o elems[acc.arg].text, arg |-> acc.arg + 1]
                             [] OTHER -> [acc EXCEPT !.out = Append(@, t)],
           [out |-> <<>>, arg |-> 1], format).out

\* The newest frame of the function that the running closure is in.
Enclosing(f) == frames[Min({n \in DOMAIN frames : frames[n].fn = f})]

\* What the instruction may come to, if it changes nothing else.
Computed ==
  CASE I.op = "const" -> {Text(I.str)}
    [] I.op = "concat" -> {Made(Args[1].text \o Args[2].text, Args)}
    [] I.op = "convert" -> {Args[1]}
    [] I.op = "phi" -> {Get(I.args[IF Top.jumped THEN 2 ELSE 1])}
    [] I.op = "load" -> {globals[I.var]}
    [] I.op = "param" -> {Top.args[I.num]}
    [] I.op = "cell" -> {Unseen(Text(<<>>))}
    [] I.op = "get" -> {Enclosing(I.cell[1]).env[I.cell[2]]}
    [] I.op = "free" -> {Enclosing(I.of[1]).env[I.of[2]]}
    [] I.op = "slice" -> {List(Args)}
    [] I.op = "append" -> {List(Args[1].elems \o Args[2].elems)}
    [] I.op = "index" -> IF I.at = 0 THEN Range(Args[1].elems) ELSE {Args[1].elems[I.at]}
    [] I.op = "field" -> Range(Args[1].elems)
    [] I.op = "extract" -> {Args[1].elems[I.num]}
    [] I.op = "join" -> {Made(PathJoin([n \in DOMAIN Args[1].elems |-> Args[1].elems[n].text]), Args)}
    [] I.op = "sprintf" -> {Made(Printed(Args[1].text, Args[2].elems), Args)}
    [] I.op \in {"func", "factory", "closure"} -> {Func(I.fn, <<>>)}
    [] I.op = "object" -> {[kind |-> "object", type |-> I.type, mws |-> <<>>,
                            fn |-> IF "ServeHTTP" \in DOMAIN MethodSets[I.type] THEN MethodSets[I.type].ServeHTTP ELSE ""]}
    [] I.op = "row" -> {[kind |-> "row", fn |-> Args[1].fn, strs |-> [n \in 1..(Len(Args) - 1) |-> Args[n+1].text]]}
    [] I.op = "wrap" -> {Func(Args[1].fn, <<I.fn>> \o Args[1].mws)}
    [] I.op = "call" /\ I.fn \in DOMAIN Configured -> {List([n \in DOMAIN Configured[I.fn] |-> Text(Configured[I.fn][n])])}
    [] I.op = "call" /\ I.fn \notin DOMAIN code \cup DOMAIN Configured -> {Text(s) : s \in Outside}
    [] OTHER -> {}

Compute ==
  /\ Running /\ ~AtEnd
  /\ \E value \in Computed : Continue(value)
  /\ UNCHANGED <<code, found, globals, branches, libraries>>

\* Of a variable with an initializer, analysis sees only what that stores.
Store ==
  /\ Is("store")
  /\ globals' = (I.var :> IF Top.fn = "init" \/ GlobalStores(code, I.var) = {} THEN Args[1] ELSE Unseen(Args[1]))
                  @@ globals
  /\ Continue(Args[1])
  /\ UNCHANGED <<code, found, branches, libraries>>

\* Of a variable that closures capture, not what these store in it, nor that
\* it is empty at first.
Set ==
  /\ Is("set")
  /\ LET n == Min({m \in DOMAIN frames : frames[m].fn = I.cell[1]})
         next == <<Given(Text(<<>>))>> \o Tail(frames)
     IN  frames' = [next EXCEPT ![n].env = (I.cell[2] :> IF n = 1 THEN Args[1] ELSE Unseen(Args[1])) @@ @]
  /\ UNCHANGED <<code, found, globals, branches, libraries>>

Call ==
  /\ Is("call") /\ I.fn \in DOMAIN code
  /\ frames' = <<Frame("call", I.fn, Args)>> \o frames
  /\ UNCHANGED <<code, found, globals, branches, libraries>>

\* An empty result is taken for that of an error path: analysis does not see it.
Result(v) == IF v.kind = "text" /\ v.text = <<>> THEN Unseen(v) ELSE v

\* A return, or the end of a function without results.  The caller of a
\* callback, say, has gone on already.
Return ==
  /\ AtEnd \/ Is("ret")
  /\ LET rest == Tail(frames)
         by == Head(rest)
         value == IF AtEnd THEN Text(<<>>) ELSE IF Len(Args) = 1 THEN Result(Args[1])
                  ELSE List([n \in DOMAIN Args |-> Result(Args[n])])
         called == rest # <<>> /\ Top.role = "call"
     IN  frames' = IF called
                   THEN <<[by EXCEPT !.at = @ + 1, !.jumped = FALSE, !.env = (by.at :> value) @@ @]>> \o Tail(rest)
                   ELSE rest
  /\ UNCHANGED <<code, found, globals, branches, libraries>>

\* An if, or the end of a loop's body: either way.
Branch ==
  /\ Is("branch")
  /\ \/ Continue(Text(<<>>)) /\ UNCHANGED branches
     \/ /\ branches < MaxBranches
        /\ branches' = branches + 1
        /\ frames' = <<[Top EXCEPT !.at = I.to, !.jumped = TRUE]>> \o Tail(frames)
  /\ UNCHANGED <<code, found, globals, libraries>>

-----------------------------------------------------------------------------
\* A router, group or route of a library.  up says under which ones, and at
\* which prefix, it is; base is the prefix of one that is under none; left
\* that something was registered on it or derived from it.
Entry(fw, up, base, mws, inline) ==
  [fw |-> fw, up |-> up, base |-> base, mws |-> mws, methods |-> {}, inline |-> inline, left |-> FALSE]
Under(id, prefix) == {[id |-> id, prefix |-> prefix]}

\* A path under a prefix, as the library serves it.
LibPath(fw, prefix, path) ==
  CASE fw = "chi" -> IF path = <<"/">> /\ prefix # <<>> THEN prefix ELSE TrimSlash(prefix) \o path
    [] fw = "gin" -> IF path = <<>> THEN prefix
                     ELSE LET joined == Clean(<<"/">> \o prefix \o <<"/">> \o path)
                          IN  IF Last(path) = "/" /\ Last(joined) # "/" THEN Append(joined, "/") ELSE joined
    [] OTHER -> prefix \o path

\* Its middleware is what it has now, whatever is added later.
Fixed(e) == e.fw = "gin" \/ (e.fw = "echo" /\ e.up # {}) \/ (e.fw = "chi" /\ e.inline)

\* Where an entry's routes are served, and what wraps them there.
RECURSIVE Places(_)
Places(e) ==
  IF e.up = {} THEN {[prefix |-> e.base, methods |-> e.methods, mws |-> e.mws]}
  ELSE UNION {{[prefix |-> IF u.prefix = <<>> THEN p.prefix ELSE LibPath(e.fw, p.prefix, u.prefix),
                methods |-> IF e.methods = {} THEN p.methods ELSE e.methods,
                mws |-> p.mws \o e.mws] : p \in Places(routers[u.id])} : u \in e.up}

\* What derive or scope operation name of entry id gives: [new, entry].
Derived(id, e, name, prefix, methods, mws) ==
  CASE e.fw = "chi" ->
         IF name # "Route" /\ e.inline THEN [new |-> TRUE, entry |-> Entry("chi", e.up, <<>>, e.mws \o mws, TRUE)]
         ELSE [new |-> TRUE, entry |-> Entry("chi", Under(id, prefix), <<>>, mws, name # "Route")]
    [] e.fw = "gin" ->
         [new |-> TRUE, entry |-> Entry("gin", {}, LibPath("gin", e.base, prefix), e.mws \o mws, FALSE)]
    [] e.fw = "echo" ->
         [new |-> TRUE,
          entry |-> IF e.up = {} THEN Entry("echo", Under(id, prefix), <<>>, mws, FALSE)
                    ELSE Entry("echo", {[u EXCEPT !.prefix = @ \o prefix] : u \in e.up}, <<>>, e.mws \o mws, FALSE)]
    [] name = "Subrouter" -> [new |-> TRUE, entry |-> Entry("gorilla", Under(id, <<>>), <<>>, <<>>, FALSE)]
    \* A method of a gorilla route changes the route, one of a router makes one.
    [] e.inline -> [new |-> FALSE, entry |-> [e EXCEPT !.methods = IF methods = {} THEN @ ELSE methods,
                                                       !.up = {[u EXCEPT !.prefix = @ \o prefix] : u \in @}]]
    [] OTHER -> [new |-> TRUE, entry |-> [Entry("gorilla", Under(id, prefix), <<>>, <<>>, TRUE) EXCEPT !.methods = methods]]

TextArg(n) == IF n = 0 THEN <<>> ELSE Args[n].text
FuncsArg(n) == IF n = 0 THEN <<>> ELSE [k \in DOMAIN Args[n].elems |-> Args[n].elems[k].fn]

Counted ==
  /\ ran' = ran \cup {Here}
  /\ again' = (again \/ Here \in ran)

New ==
  /\ Is("new")
  /\ routers' = Append(routers, Entry(I.fw, {}, <<>>, <<>>, FALSE))
  /\ Continue(Router(Len(routers) + 1))
  /\ Counted
  /\ UNCHANGED <<code, found, globals, branches, served, late>>

\* A library operation of kind on the router id.
On(kind) == Is("on") /\ SpecOf(I).kind = kind
Recv == Get(I.recv).id

Left(rs, id) == [rs EXCEPT ![id].left = TRUE]

Derivation ==
  /\ On("derive") \/ On("scope")
  /\ LET o == SpecOf(I)
         methods == IF o.methodsArg = 0 THEN {} ELSE {e.text : e \in Range(Args[o.methodsArg].elems)}
         d == Derived(Recv, routers[Recv], I.name, TextArg(o.patternArg), methods, FuncsArg(o.mwArg))
         id == IF d.new THEN Len(routers) + 1 ELSE Recv
         next == <<Given(Router(id))>> \o Tail(frames)
     IN  /\ routers' = IF d.new THEN Append(Left(routers, Recv), d.entry) ELSE [routers EXCEPT ![id] = d.entry]
         /\ frames' = IF o.kind = "scope" THEN <<Frame("callback", Args[o.fnArg].fn, <<Router(id)>>)>> \o next ELSE next
  /\ Counted
  /\ UNCHANGED <<code, found, globals, branches, served, late>>

Mount ==
  /\ On("mount")
  /\ LET o == SpecOf(I)
     IN  routers' = [Left(routers, Recv) EXCEPT ![Args[o.subArg].id].up = @ \cup Under(Recv, TextArg(o.patternArg))]
  /\ Continue(Text(<<>>))
  /\ Counted
  /\ UNCHANGED <<code, found, globals, branches, served, late>>

\* chi panics when routes were registered before; then nothing is served.
Use ==
  /\ On("use")
  /\ LET e == routers[Recv]
     IN  /\ e.fw = "chi" /\ e.left => e.inline /\ \A s \in served : s.home # Recv
         /\ late' = (late \/ (Fixed(e) /\ e.left))
         /\ routers' = [routers EXCEPT ![Recv].mws = @ \o FuncsArg(SpecOf(I).mwArg)]
  /\ Continue(Text(<<>>))
  /\ Counted
  /\ UNCHANGED <<code, found, globals, branches, served>>

\* A route of gorilla is an entry of its own; others keep their router, or
\* what it is now.  gin panics when a route is there already.
Registration ==
  /\ On("register")
  /\ LET o == SpecOf(I)
         e == routers[Recv]
         path == TextArg(o.patternArg)
         method == IF o.methodArg = 0 THEN <<o.method>> ELSE TextArg(o.methodArg)
         list == IF o.handlersArg = 0 THEN <<>> ELSE Args[o.handlersArg].elems
         handler == IF list # <<>> THEN Last(list)
                    ELSE IF o.handlerArg = 0 THEN Func("files", <<>>) ELSE Args[o.handlerArg]
         before == IF list = <<>> THEN <<>> ELSE [k \in 1..(Len(list) - 1) |-> list[k].fn]
         route == Derived(Recv, e, "Path", path, {}, <<>>)
         id == IF e.fw = "gorilla" /\ route.new THEN Len(routers) + 1 ELSE Recv
         taken(s) == s.fw = "gin" /\ s.path = path /\ s.entry.base = e.base
     IN  /\ e.fw = "gin" => ~\E s \in served : taken(s) /\ s.method = method
         /\ routers' = IF e.fw # "gorilla" THEN Left(routers, Recv)
                       ELSE IF route.new THEN Append(routers, route.entry) ELSE [routers EXCEPT ![id] = route.entry]
         /\ served' = served \cup
              {[home |-> id, entry |-> e, fixed |-> Fixed(e), fw |-> e.fw,
                path |-> IF e.fw = "gorilla" THEN <<>> ELSE path, suffix |-> o.suffix,
                method |-> method,
                fn |-> handler.fn, mws |-> before \o FuncsArg(o.mwArg) \o handler.mws]}
         /\ Continue(Router(id))
  /\ Counted
  /\ UNCHANGED <<code, found, globals, branches, late>>

\* A registration on net/http's ServeMux, which panics when the pattern is
\* empty or there already.
Handle ==
  /\ Is("handle")
  /\ LET s == SplitPattern(Args[1].text)
     IN  /\ s.path # <<>>
         /\ \A r \in served : <<r.method, r.path>> # <<s.method, s.path>>
         /\ served' = served \cup {[home |-> 0, entry |-> Entry("mux", {}, <<>>, <<>>, FALSE), fixed |-> TRUE, fw |-> "mux",
                                     path |-> s.path, suffix |-> <<>>, method |-> s.method,
                                     fn |-> Args[2].fn, mws |-> Args[2].mws]}
  /\ Continue(Text(<<>>))
  /\ UNCHANGED <<code, found, globals, branches, routers, ran, again, late>>

\* Patterns, methods, names and subjects are given to libraries.
Blinded ==
  blind' = (blind \/ (/\ Running /\ ~AtEnd
                      /\ I.op \in {"on", "handle", "row", "subscribe", "command"} /\ ~AllSeen(Args)))

Next ==
  /\ \/ Compute \/ Store \/ Set \/ Call \/ Return \/ Branch
     \/ New \/ Derivation \/ Mount \/ Use \/ Registration \/ Handle
  /\ Blinded

Spec == Init /\ [][Next]_vars

-----------------------------------------------------------------------------
\* The routes the program serves once it is set up.
Routes(s) ==
  LET at(p) == (IF s.path = <<>> THEN p.prefix ELSE LibPath(s.fw, p.prefix, s.path)) \o s.suffix
      route(m, p) == [method |-> m, pattern |-> IF at(p) = <<>> THEN <<"/">> ELSE at(p), fn |-> s.fn, mws |-> p.mws \o s.mws]
  IN  UNION {{route(m, p) : m \in IF p.methods = {} THEN {s.method} ELSE p.methods}
             : p \in Places(IF s.fixed THEN s.entry ELSE routers[s.home])}
Serving == IF frames = <<>> THEN UNION {Routes(s) : s \in served} ELSE {}

\* Shown route r stands for s.
Fits(r, s) ==
  /\ r.method = <<"ANY">> \/ Matches(r.method, s.method)
  /\ s.pattern \in r.variants \/ Matches(r.pattern, s.pattern)

\* Every string the program computes is one of those found for it, unknown
\* parts standing for anything (evaluator): but for those made of an empty
\* result of a function (dropEmpty), of what is stored in a variable outside its
\* initializer (globalStores), and of what a closure stores in a captured
\* variable or that one's zero value.
StringsCovered ==
  Running => \A i \in DOMAIN Top.env :
    <<Top.fn, i>> \in DOMAIN found.strings /\ Top.env[i].kind = "text" /\ Top.env[i].seen =>
      \E p \in found.strings[<<Top.fn, i>>] : Matches(p, Top.env[i].text)

\* Every route the program serves is shown (discoverRoutes), if it was set up
\* with strings that analysis sees.
RoutesFound == ~blind => \A s \in Serving : \E r \in found.routes : Fits(r, s)

\* The one registration that stands for s, if there is one.
Single(s) == {r \in found.registered : Fits(r, s) /\ \A q \in found.registered : Fits(q, s) => q = r}

Subsequence(s, t) ==
  \E f \in [DOMAIN s -> DOMAIN t] :
    /\ \A i, j \in DOMAIN s : i < j => f[i] < f[j]
    /\ \A i \in DOMAIN s : t[f[i]] = s[i]

\* f and what it calls.
Behind(f) == {f} \cup {Instr(code, v).fn : v \in {w \in Instrs(code, "call") : w[1] = f}}

\* The route is shown with its handler and with all middleware it runs
\* behind, in order (scopeMiddleware).
MiddlewareShown ==
  \A s \in Serving : \A r \in Single(s) :
    /\ r.handler \in Behind(s.fn) \cup {"{?}"}
    /\ Subsequence(s.mws, r.middleware)

\* The middleware shown for a route does run, in a program that makes each
\* library call once and adds no middleware to a group that is in use.
GuardsRun ==
  ~late /\ ~again /\ Instrs(code, "branch") = {} =>
    \A s \in Serving : \A r \in Single(s) : Subsequence(r.middleware, s.mws)
=============================================================================
