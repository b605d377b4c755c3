------------------------------ MODULE Routers ------------------------------
(***************************************************************************)
(* internal/analysis/routers.go and routes.go: the routes a program        *)
(* registers on net/http's ServeMux and on router libraries, found by      *)
(* tracing each registration's receiver back to the router it comes from.  *)
(*                                                                         *)
(* An instruction of kind "on" calls method name of library fw on router   *)
(* recv with args; variadic arguments are one slice.  "handle" registers   *)
(* on a ServeMux, "new" creates a router.                                  *)
(***************************************************************************)
EXTENDS Values

CONSTANTS Order,  \* the functions of programs, in the order they are looked at
          Langs,  \* tokens that look like a language code
          Wrappers,   \* functions that the compiler makes for method values
          MethodSets  \* type -> method -> function

HttpMethods == {"GET", "HEAD", "POST", "PUT", "PATCH", "DELETE", "CONNECT", "OPTIONS", "TRACE"}

\* What a method of a library does; arguments are numbered from 1, 0 is none.
OpSpec(kind) ==
  [kind |-> kind, method |-> "", methodArg |-> 0, patternArg |-> 0, handlerArg |-> 0, handlersArg |-> 0,
   mwArg |-> 0, methodsArg |-> 0, fnArg |-> 0, subArg |-> 0, suffix |-> <<>>]
Register == OpSpec("register")

\* A registration for each method, under the method's name.
MethodOps(methods, reg) == [m \in methods |-> [reg EXCEPT !.method = m]]
Using == [OpSpec("use") EXCEPT !.mwArg = 1]

ChiOps ==
  LET reg == [Register EXCEPT !.patternArg = 1, !.handlerArg = 2]
  IN  MethodOps(HttpMethods, reg) @@
      [Handle |-> [reg EXCEPT !.method = "ANY"],
       Method |-> [Register EXCEPT !.methodArg = 1, !.patternArg = 2, !.handlerArg = 3],
       Route |-> [OpSpec("scope") EXCEPT !.patternArg = 1, !.fnArg = 2],
       Group |-> [OpSpec("scope") EXCEPT !.fnArg = 1],
       With |-> [OpSpec("derive") EXCEPT !.mwArg = 1],
       Use |-> Using,
       Mount |-> [OpSpec("mount") EXCEPT !.patternArg = 1, !.subArg = 2]]

GinOps ==
  LET reg == [Register EXCEPT !.patternArg = 1, !.handlersArg = 2]
      static == [Register EXCEPT !.method = "GET", !.patternArg = 1]
  IN  MethodOps(HttpMethods \ {"CONNECT", "TRACE"}, reg) @@
      [Any |-> [reg EXCEPT !.method = "ANY"],
       Handle |-> [Register EXCEPT !.methodArg = 1, !.patternArg = 2, !.handlersArg = 3],
       Static |-> [static EXCEPT !.suffix = <<"/", "*filepath">>],
       StaticFile |-> static,
       Group |-> [OpSpec("derive") EXCEPT !.patternArg = 1, !.mwArg = 2],
       Use |-> Using]

EchoOps ==
  LET reg == [Register EXCEPT !.patternArg = 1, !.handlerArg = 2, !.mwArg = 3]
      static == [Register EXCEPT !.method = "GET", !.patternArg = 1]
  IN  MethodOps(HttpMethods, reg) @@
      [Any |-> [reg EXCEPT !.method = "ANY"],
       Add |-> [Register EXCEPT !.methodArg = 1, !.patternArg = 2, !.handlerArg = 3, !.mwArg = 4],
       Static |-> [static EXCEPT !.suffix = <<"/", "*">>],
       File |-> static,
       Group |-> [OpSpec("derive") EXCEPT !.patternArg = 1, !.mwArg = 2],
       Use |-> Using]

\* On a Router and on a Route alike; a route's handler is set by Handler.
GorillaOps ==
  LET path == [OpSpec("derive") EXCEPT !.patternArg = 1]
  IN  [Handle |-> [Register EXCEPT !.method = "ANY", !.patternArg = 1, !.handlerArg = 2],
       Handler |-> [Register EXCEPT !.method = "ANY", !.handlerArg = 1],
       PathPrefix |-> path, Path |-> path,
       Methods |-> [OpSpec("derive") EXCEPT !.methodsArg = 1],
       Subrouter |-> OpSpec("derive"), NewRoute |-> OpSpec("derive"), Name |-> OpSpec("derive"),
       Use |-> Using]

Frameworks == [chi |-> ChiOps, gin |-> GinOps, echo |-> EchoOps, gorilla |-> GorillaOps]

TrimSlash(s) == IF s # <<>> /\ Last(s) = "/" THEN Front(s) ELSE s
CutSlash(s) == IF s # <<>> /\ Head(s) = "/" THEN Tail(s) ELSE s

\* pattern under prefix, joined as the library does.
Join(fw, prefix, pattern) ==
  CASE fw = "chi" -> IF pattern = <<"/">> /\ prefix # <<>> THEN prefix ELSE TrimSlash(prefix) \o pattern
    [] fw = "gin" -> IF pattern # <<>> THEN TrimSlash(prefix) \o <<"/">> \o CutSlash(pattern)
                     ELSE IF prefix = <<>> THEN <<"/">> ELSE prefix
    [] OTHER -> prefix \o pattern

-----------------------------------------------------------------------------
Place == [f \in Range(Order) |-> CHOOSE n \in DOMAIN Order : Order[n] = f]
Position(v) == 100 * Place[v[1]] + v[2]
InOrder(vs) == SetToSortSeq(vs, LAMBDA v, w : Position(v) < Position(w))

\* The program's calls of library methods, in order.
Ops(code) ==
  LET own == SelectSeq(Order, LAMBDA f : f \in DOMAIN code)
      on(f) == SelectSeq([i \in DOMAIN code[f] |-> <<f, i>>], LAMBDA v : Instr(code, v).op = "on")
  IN  FlattenSeq([n \in DOMAIN own |-> on(own[n])])

SpecOf(i) == Frameworks[i.fw][i.name]
OpsOf(code, kind) == SelectSeq(Ops(code), LAMBDA v : SpecOf(Instr(code, v)).kind = kind)

Arg(i, n) == i.args[n]
StringsArg(code, i, n, none) == IF n = 0 THEN none ELSE Strings(code, Arg(i, n))

\* The elements of a variadic argument.
SliceValues(code, i, n) ==
  LET allocs == SetToSeq(SliceAllocs(code, Arg(i, n), 0))
  IN  IF n = 0 THEN <<>> ELSE FlattenSeq([k \in DOMAIN allocs |-> Instr(code, allocs[k]).args])

\* The function behind a middleware value: itself or what makes it.
MiddlewareFuncs(code, v) ==
  CASE Instr(code, v).op \in {"func", "factory"} -> <<Instr(code, v).fn>>
    [] Instr(code, v).op = "convert" /\ Instr(code, Instr(code, v).args[1]).op \in {"func", "factory"}
         -> <<Instr(code, Instr(code, v).args[1]).fn>>
    [] OTHER -> <<>>

MiddlewareOf(code, vs) == FlattenSeq([k \in DOMAIN vs |-> MiddlewareFuncs(code, vs[k])])

NoHandler == [handler |-> "{?}", middleware |-> <<>>]

\* What is a call in the program's code.
CallOps == {"call", "go", "callfield", "on", "handle", "new", "factory", "wrap", "sprintf", "join", "append", "subscribe"}

\* The method behind a method value, and the function to which a closure
\* forwards its two parameters; else the function itself.
ClosureTarget(code, f) ==
  LET calls == {v \in AllValues(code) : v[1] = f /\ Instr(code, v).op \in CallOps}
      call == Instr(code, CHOOSE v \in calls : TRUE)
      params == {v \in Instrs(code, "param") : v[1] = f}
      forwards == Cardinality(params) = 2 /\ params \subseteq Range(call.args)
  IN  IF Cardinality(calls) = 1 /\ call.op = "call" /\ (f \in Wrappers \/ forwards) THEN call.fn ELSE f

\* The ServeHTTP of a value of a type that has it.
ServeHTTPMethod(i) ==
  IF i.op = "object" /\ "ServeHTTP" \in DOMAIN MethodSets[i.type]
  THEN [NoHandler EXCEPT !.handler = MethodSets[i.type].ServeHTTP] ELSE NoHandler

\* The function behind a handler: a function, a closure, a method of an
\* object, what a factory returns, or what middleware wraps.
RECURSIVE ResolveHandler(_, _, _)
ResolveHandler(code, v, depth) ==
  LET i == Instr(code, v)
      resolve(w) == ResolveHandler(code, w, depth + 1)
  IN  IF depth > MaxEvalDepth THEN NoHandler
      ELSE CASE i.op = "func" -> [handler |-> i.fn, middleware |-> <<>>]
             [] i.op = "closure" -> [handler |-> ClosureTarget(code, i.fn), middleware |-> <<>>]
             [] i.op = "convert" -> IF resolve(i.args[1]).handler # "{?}" THEN resolve(i.args[1])
                                    ELSE ServeHTTPMethod(Instr(code, i.args[1]))
             [] i.op = "wrap" ->
                  LET inner == resolve(i.args[1])
                  IN  IF inner.handler = "{?}" THEN inner
                      ELSE [inner EXCEPT !.middleware = <<i.fn>> \o @]
             [] i.op = "call" /\ i.fn \in DOMAIN code ->
                  LET found == {h \in {resolve(r) : r \in Returns(code, i.fn)} : h.handler # "{?}"}
                  IN  IF found = {} THEN NoHandler ELSE CHOOSE h \in found : TRUE
             [] OTHER -> NoHandler

\* The methods set on the route that registration v returns.
RECURSIVE FollowMethods(_, _)
FollowMethods(code, v) ==
  LET next == SelectSeq(OpsOf(code, "derive"), LAMBDA w : Instr(code, w).recv = v)
      methods == SelectSeq(next, LAMBDA w : SpecOf(Instr(code, w)).methodsArg # 0)
      set == Instr(code, methods[1])
  IN  IF methods # <<>>
      THEN UNION {Strings(code, w) : w \in Range(SliceValues(code, set, SpecOf(set).methodsArg))}
      ELSE IF next = <<>> THEN {} ELSE FollowMethods(code, Last(next))

-----------------------------------------------------------------------------
\* One way to reach a router: the prefix and methods of its routes, and the
\* values from the root down to it with the middleware added at each.
Scope(fw, prefix, methods, chain, middleware) ==
  [fw |-> fw, prefix |-> prefix, methods |-> methods, chain |-> chain, middleware |-> middleware]

Derive(s, prefix, methods, mw, id) ==
  Scope(s.fw, IF prefix = <<>> THEN s.prefix ELSE Join(s.fw, s.prefix, prefix),
        IF methods = {} THEN s.methods ELSE methods, Append(s.chain, id), Append(s.middleware, mw))

\* What derive or scope operation i makes of a scope of its receiver.
DeriveAll(code, i, s, id) ==
  LET o == SpecOf(i)
      methods == UNION {Strings(code, w) : w \in Range(SliceValues(code, i, o.methodsArg))}
  IN  IF s.fw # i.fw THEN {}
      ELSE {Derive(s, p, methods, MiddlewareOf(code, SliceValues(code, i, o.mwArg)), id) :
             p \in StringsArg(code, i, o.patternArg, {<<>>})}

\* Whether router v comes from the constructor call root; mounts, parameters
\* and variables are not followed.
RECURSIVE CreatedBy(_, _, _, _)
CreatedBy(code, v, root, depth) ==
  LET i == Instr(code, v)
      created(ws) == \E w \in ws : CreatedBy(code, w, root, depth + 1)
  IN  /\ depth <= 2 * MaxEvalDepth
      /\ CASE i.op = "new" -> v = root
           [] i.op = "call" -> i.fn \in DOMAIN code /\ created(Returns(code, i.fn))
           [] i.op \in {"convert", "phi"} -> created(Range(i.args))
           [] OTHER -> FALSE

\* The operations that call f with a router.
Scoped(code, f) ==
  SelectSeq(OpsOf(code, "scope"),
            LAMBDA o : Instr(code, Arg(Instr(code, o), SpecOf(Instr(code, o)).fnArg)).fn = f)

\* The values that v's router is one of, in the order they are looked at.
From(code, v) ==
  LET i == Instr(code, v)
      calls == InOrder(CallsOf(code, v[1]))
  IN  CASE i.op \in {"phi", "convert"} -> i.args
        [] i.op = "load" -> InOrder(Stored(code, i.var))
        [] i.op = "free" -> <<i.of>>
        [] i.op = "param" -> [n \in DOMAIN calls |-> Instr(code, calls[n]).args[i.num]]
        [] i.op = "call" /\ i.fn \in DOMAIN code -> InOrder(Returns(code, i.fn))
        [] OTHER -> <<>>

\* Tracing remembers the scopes of each value, and the values at work.
Fresh == [memo |-> <<>>, busy |-> {}]

RECURSIVE Scopes(_, _, _, _)

\* What acc has and then r.
Both(acc, r) == [r EXCEPT !.out = acc.out \cup @]
None(st) == [out |-> {}, st |-> st]

\* The scopes of several values together.
EachScope(code, vs, depth, st) ==
  FoldLeft(LAMBDA acc, v : Both(acc, Scopes(code, v, depth, acc.st)), None(st), vs)

\* Several operations' results, each made by derived from its receiver's.
EachOp(code, os, depth, st, derived(_, _)) ==
  FoldLeft(LAMBDA acc, o : Both(acc, [Scopes(code, Instr(code, o).recv, depth, acc.st) EXCEPT
                                        !.out = UNION {derived(Instr(code, o), s) : s \in @}]),
           None(st), os)

\* A created router: at the top, or where it is mounted.
Root(code, v, depth, st) ==
  LET mounts == SelectSeq(OpsOf(code, "mount"), LAMBDA o :
                  CreatedBy(code, Arg(Instr(code, o), SpecOf(Instr(code, o)).subArg), v, depth))
      mounted(i, s) == {Derive(s, p, {}, <<>>, v) : p \in Strings(code, Arg(i, SpecOf(i).patternArg))}
  IN  [EachOp(code, mounts, depth + 1, st, mounted) EXCEPT
         !.out = IF @ # {} THEN @ ELSE {Scope(Instr(code, v).fw, <<>>, {}, <<v>>, << <<>> >>)}]

Trace(code, v, depth, st) ==
  LET i == Instr(code, v)
      uses == Scoped(code, v[1])
      derived(o, s) == DeriveAll(code, o, s, v)
  IN  CASE i.op = "new" -> Root(code, v, depth, st)
        [] i.op = "on" -> IF SpecOf(i).kind \in {"derive", "scope"}
                          THEN EachOp(code, <<v>>, depth + 1, st, derived)
                          ELSE None(st)
        [] i.op = "param" /\ i.num = 1 /\ uses # <<>> -> EachOp(code, uses, depth + 1, st, derived)
        [] OTHER -> EachScope(code, From(code, v), depth + 1, st)

\* r for v, remembered; no longer at work on more than was before.
FirstScopes(out) ==
  IF Cardinality(out) <= MaxEvalValues THEN out ELSE CHOOSE s \in SUBSET out : Cardinality(s) = MaxEvalValues
Remember(v, out, memo, busy) == [out |-> out, st |-> [memo |-> (v :> out) @@ memo, busy |-> busy]]
Traced(v, r, busy) == Remember(v, FirstScopes(r.out), r.st.memo, busy)

\* The scopes of router v: [out, st].
Scopes(code, v, depth, st) ==
  IF v \in DOMAIN st.memo THEN [out |-> st.memo[v], st |-> st]
  ELSE IF depth > 2 * MaxEvalDepth \/ v \in st.busy THEN None(st)
  ELSE Traced(v, Trace(code, v, depth, [st EXCEPT !.busy = @ \cup {v}]), st.busy)

\* Faulty variant of ScopeMiddleware: what the routers above use is left out.
OwnMiddleware(code, s, st) ==
  LET uses == SelectSeq(OpsOf(code, "use"), LAMBDA o : Instr(code, o).recv = Last(s.chain))
      used(o) == MiddlewareOf(code, SliceValues(code, Instr(code, o), SpecOf(Instr(code, o)).mwArg))
  IN  FlattenSeq(s.middleware) \o FlattenSeq([k \in DOMAIN uses |-> used(uses[k])])

\* Faulty variant of ScopeMiddleware: every Use of the library counts.
AnyMiddleware(code, s, st) ==
  LET uses == SelectSeq(OpsOf(code, "use"), LAMBDA o : Instr(code, o).fw = s.fw)
      used(o) == MiddlewareOf(code, SliceValues(code, Instr(code, o), SpecOf(Instr(code, o)).mwArg))
  IN  FlattenSeq(s.middleware) \o FlattenSeq([k \in DOMAIN uses |-> used(uses[k])])

\* The middleware of a scope, outermost first: at each value of its chain,
\* what it was derived with and then what any Use on it adds.
ScopeMiddleware(code, s, st) ==
  LET uses == SelectSeq(OpsOf(code, "use"), LAMBDA o : Instr(code, o).fw = s.fw)
      on(o, id) == \E u \in Scopes(code, Instr(code, o).recv, 0, st).out : Last(u.chain) = id
      used(o) == MiddlewareOf(code, SliceValues(code, Instr(code, o), SpecOf(Instr(code, o)).mwArg))
      at(n) == s.middleware[n] \o
               FlattenSeq([k \in DOMAIN uses |-> IF on(uses[k], s.chain[n]) THEN used(uses[k]) ELSE <<>>])
  IN  FlattenSeq([n \in DOMAIN s.chain |-> at(n)])

NewRoute(method, pattern, handler, middleware, at) ==
  [method |-> method, pattern |-> pattern, variants |-> {}, handler |-> handler, middleware |-> middleware, at |-> at]

\* The handler of registration i and the middleware passed with it.
HandlerOf(code, i) ==
  LET o == SpecOf(i)
      hs == SliceValues(code, i, o.handlersArg)
      h == IF hs # <<>> THEN ResolveHandler(code, Last(hs), 0)
           ELSE IF o.handlerArg # 0 THEN ResolveHandler(code, Arg(i, o.handlerArg), 0) ELSE NoHandler
      before == IF hs = <<>> THEN <<>> ELSE MiddlewareOf(code, Front(hs))
  IN  [h EXCEPT !.middleware = before \o MiddlewareOf(code, SliceValues(code, i, o.mwArg)) \o @]

\* The methods a registration is for.
MethodsOf(code, v) ==
  LET i == Instr(code, v)
      set == IF i.fw = "gorilla" THEN FollowMethods(code, v) ELSE {}
      o == SpecOf(i)
  IN  IF set # {} THEN set ELSE StringsArg(code, i, o.methodArg, {<<o.method>>})

\* The path of a registration in a scope.
PathIn(s, p, suffix) ==
  LET path == (IF p = <<>> THEN s.prefix ELSE Join(s.fw, s.prefix, p)) \o suffix
  IN  IF path = <<>> THEN <<"/">> ELSE path

\* The routes of the registration at v: one per scope, pattern and method.
RoutesIn(code, v, methods, h, r) ==
  LET i == Instr(code, v)
      o == SpecOf(i)
      of(s) == IF s.methods # {} /\ methods = {<<"ANY">>} THEN s.methods ELSE methods
      routes(s, mws) == {NewRoute(m, PathIn(s, p, o.suffix), h.handler, mws \o h.middleware, v) :
                           p \in StringsArg(code, i, o.patternArg, {<<>>}), m \in of(s)}
  IN  [r EXCEPT !.out = UNION {routes(s, ScopeMiddleware(code, s, r.st)) : s \in @}]

\* Use is only looked for if there are scopes; all are then remembered.
WithUses(code, fw, r) ==
  LET uses == SelectSeq(OpsOf(code, "use"), LAMBDA w : Instr(code, w).fw = fw)
  IN  IF r.out = {} THEN r
      ELSE [r EXCEPT !.st = EachScope(code, [n \in DOMAIN uses |-> Instr(code, uses[n]).recv], 0, @).st]

RegisterRoutes(code, v, st) ==
  LET i == Instr(code, v)
  IN  RoutesIn(code, v, MethodsOf(code, v), HandlerOf(code, i), WithUses(code, i.fw, Scopes(code, i.recv, 0, st)))

\* The routes of router libraries.
FrameworkRoutes(code) ==
  FoldLeft(LAMBDA acc, v : Both(acc, RegisterRoutes(code, v, acc.st)), None(Fresh), OpsOf(code, "register")).out

-----------------------------------------------------------------------------
\* "GET /path" as its method and path.
SplitPattern(p) ==
  LET spaces == {i \in DOMAIN p : p[i] = " "}
      n == Min(spaces)
  IN  IF spaces # {} /\ n > 1 /\ p[1] # "/"
      THEN [method |-> SubSeq(p, 1, n - 1), path |-> SubSeq(p, n + 1, Len(p))]
      ELSE [method |-> <<"ANY">>, path |-> p]

\* A language code as the first segment.
IsLang(path) == Len(path) >= 2 /\ path[1] = "/" /\ path[2] \in Langs /\ (Len(path) > 2 => path[3] = "/")
CollapseLang(path) == [path EXCEPT ![2] = "{lang}"]

\* The routes of a registration on a ServeMux: patterns that differ in a
\* language code only are one route.
RegistrationRoutes(code, v) ==
  LET i == Instr(code, v)
      h == ResolveHandler(code, Arg(i, 2), 0)
      split == {SplitPattern(p) : p \in Strings(code, Arg(i, 1))}
      group(s) == [method |-> s.method, pattern |-> IF IsLang(s.path) THEN CollapseLang(s.path) ELSE s.path]
      variants(g) == {s.path : s \in {x \in split : group(x) = g /\ IsLang(x.path)}}
      route(g) == NewRoute(g.method, g.pattern, h.handler, h.middleware, v)
  IN  {LET vs == variants(g)
       IN  IF Cardinality(vs) > 1 THEN [route(g) EXCEPT !.variants = vs]
           ELSE IF vs # {} THEN [route(g) EXCEPT !.pattern = CHOOSE x \in vs : TRUE]
           ELSE route(g) : g \in {group(s) : s \in split}}

NetHTTPRoutes(code) == UNION {RegistrationRoutes(code, v) : v \in Instrs(code, "handle")}

\* The first registered of routes.
First(routes) == CHOOSE r \in routes : \A q \in routes : Position(r.at) <= Position(q.at)

\* Faulty variant of MergeDuplicates: the variants of later ones are lost.
MergeToFirst(routes) ==
  {First({q \in routes : q.method = r.method /\ q.pattern = r.pattern}) : r \in routes}

\* Routes with the same key are one, the first registered, with the variants
\* of all.
MergeDuplicates(routes) ==
  LET same(r) == {q \in routes : q.method = r.method /\ q.pattern = r.pattern}
  IN  {[First(same(r)) EXCEPT !.variants = UNION {q.variants : q \in same(r)}] : r \in routes}

\* What every registration gives; the routes are what is left of it.
Registrations(code) == NetHTTPRoutes(code) \cup FrameworkRoutes(code)
DiscoverRoutes(registrations) == MergeDuplicates(registrations)
=============================================================================
