----------------------------- MODULE MCRequests -----------------------------
(***************************************************************************)
(* Small programs for Requests: every handler of up to four blocks that    *)
(* calls one function asking who is there (an authentication primitive, a  *)
(* module function that answers for one, a module function that returns    *)
(* nothing), tests its result, the method, a role or something else, and   *)
(* works, denies or returns; alone and behind four kinds of middleware.    *)
(* Besides: handlers that compare the method three times, one comparison   *)
(* after or within the other; handlers that ask through interfaces, whose  *)
(* methods guards or other functions implement; and handlers that ask only *)
(* through functions further below than consults looks.                    *)
(***************************************************************************)
EXTENDS Requests

CONSTANTS Handlers

Leaf == [module |-> FALSE, request |-> FALSE, ok |-> FALSE, authName |-> FALSE,
         denialName |-> FALSE, sink |-> FALSE, chain |-> FALSE, calls |-> {}, impls |-> {}]
Helper == [Leaf EXCEPT !.module = TRUE, !.request = TRUE]

MCFunctions ==
  [authenticate |-> [Helper EXCEPT !.ok = TRUE, !.authName = TRUE],
   check |-> Helper, handler |-> Helper, mw |-> Helper,
   load |-> [Leaf EXCEPT !.module = TRUE],
   require |-> [Helper EXCEPT !.ok = TRUE],
   Session |-> [Leaf EXCEPT !.impls = {"authenticate", "require"}],
   Finder |-> [Leaf EXCEPT !.impls = {"check", "load"}],
   Exec |-> [Leaf EXCEPT !.sink = TRUE],
   Error |-> [Leaf EXCEPT !.denialName = TRUE],
   ServeHTTP |-> [Leaf EXCEPT !.calls = {"handler"}]]
MCAuthRoles == [f \in {} |-> ""]
MCOwn == <<"authenticate", "check", "handler", "load", "mw", "require">>

None == [kind |-> "none"]
Ok(site, op) == [kind |-> "ok", call |-> site, op |-> op]
Method(m, equal) == [kind |-> "method", method |-> m, equal |-> equal]
GET(equal) == Method("GET", equal)
Opaque == [kind |-> "opaque"]
Role == [kind |-> "role", role |-> "admin"]

Ret(calls) == [calls |-> calls, cond |-> None, succs |-> <<>>]
Go(calls, b) == [calls |-> calls, cond |-> None, succs |-> <<b>>]
If(calls, cond, b, c) == [calls |-> calls, cond |-> cond, succs |-> <<b, c>>]

\* if !authenticate(r) { Error; return }
CheckBody == <<If(<<"authenticate">>, Ok(<<1, 1>>, "not"), 2, 3), Ret(<<"Error">>), Ret(<<>>)>>
\* err := authenticate(r); if err != nil || !user.Admin { Error; return } ...
RequireBody == <<If(<<"authenticate">>, Ok(<<1, 1>>, "neq"), 3, 2),
                 If(<<>>, Role, 4, 3), Ret(<<"Error">>), Ret(<<>>)>>
Middlewares ==
  {<<Ret(<<"ServeHTTP">>)>>,
   <<If(<<"authenticate">>, Ok(<<1, 1>>, "value"), 3, 2), Ret(<<"Error">>), Ret(<<"ServeHTTP">>)>>,
   <<If(<<"authenticate">>, Ok(<<1, 1>>, "eq"), 2, 2), Ret(<<"ServeHTTP">>)>>,
   <<If(<<>>, Opaque, 3, 2), Go(<<"check">>, 3), Ret(<<"ServeHTTP">>)>>}

-----------------------------------------------------------------------------
Askers == {"authenticate", "check", "require"}
Asks(calls) == \E i \in DOMAIN calls : calls[i] \in Askers

\* The conditions a block of these calls may end with.
Conds(calls, b) ==
  {Opaque, GET(TRUE), GET(FALSE)}
    \cup {Ok(<<b, i>>, op) : i \in {j \in DOMAIN calls : calls[j] \in {"authenticate", "require"}},
                             op \in {"value", "not"}}

FirstBlocks(g) ==
  UNION {{Go(c, 2)} \cup {If(c, k, p[1], p[2]) : k \in Conds(c, 1), p \in {<<2, 3>>, <<4, 2>>}}
         : c \in {<<>>, <<g>>, <<g, "load">>, <<"load", g>>}}
SecondBlocks(g, first) ==
  {s \in UNION {{Ret(c), Go(c, 4)}
                 \cup {If(c, k, 3, 4) : k \in {l \in Conds(c, 2) \cup Conds(first, 1) : l.kind = "ok"}}
                : c \in {<<>>, <<g>>, <<"load">>}} :
     Asks(first) # Asks(s.calls)}
ThirdBlocks == {Ret(<<"load">>), Ret(<<"Error">>), Go(<<"Error">>, 4)}

AllHandlers ==
  UNION {UNION {{<<x, y, z, Ret(<<"load">>)>> : y \in SecondBlocks(g, x.calls), z \in ThirdBlocks}
                : x \in FirstBlocks(g)}
         : g \in Askers}

\* A handler that calls itself, on behalf of whom it asked.
Recursive ==
  <<If(<<"authenticate">>, Ok(<<1, 1>>, "not"), 2, 3), Ret(<<"Error">>),
    Ret(<<"load", "handler", "load">>), Ret(<<>>)>>

\* Handlers that compare the method three times.
Comparing ==
  {<<If(<<>>, k[1], 2, 3), If(c[1], k[2], p[1], p[2]), If(c[2], k[3], p[3], 5),
     Ret(<<"load">>), Ret(<<>>)>> :
    k \in [1..3 -> {Method(m, equal) : m \in Requested, equal \in BOOLEAN}],
    c \in {<<<<>>, <<"authenticate">>>>, <<<<"authenticate">>, <<>>>>},
    p \in {<<3, 4, 4>>, <<4, 5, 4>>, <<3, 5, 2>>}}

\* Handlers that ask through an interface.
Interfaced ==
  {<<If(<<"Session">>, Ok(<<1, 1>>, "not"), 2, 3), Ret(<<"Error">>), Ret(<<"load">>)>>,
   <<If(<<"Session">>, Opaque, 2, 3), Ret(<<"Error">>), Ret(<<"load">>)>>,
   <<Ret(<<"Finder">>)>>, <<If(<<>>, GET(TRUE), 2, 3), Ret(<<"Finder">>), Ret(<<"load">>)>>}

Program(handler, mw, route) ==
  [code |-> [handler |-> handler, mw |-> mw, check |-> CheckBody,
            require |-> RequireBody, load |-> <<Ret(<<"Exec">>)>>],
   route |-> route]

\* Programs whose handler asks only through functions that call each other:
\* check calls mw, which calls load.
DeepProgram(calls) ==
  [Program(<<Ret(calls)>>, <<Ret(<<"load">>)>>, <<"handler">>) EXCEPT
     !.code.check = <<Ret(<<"mw">>)>>, !.code.load = <<Ret(<<"authenticate">>)>>]
Deep == {DeepProgram(calls) : calls \in {<<"mw">>, <<"check">>, <<"mw", "check">>, <<"check", "mw">>}}

MCPrograms ==
  {Program(h, CheckBody, <<"handler">>) :
     h \in Handlers \cup {Recursive} \cup Comparing \cup Interfaced}
    \cup Deep \cup {Program(h, m, <<"mw", "handler">>) : h \in {CheckBody, <<Ret(<<"load">>)>>}, m \in Middlewares}

\* The methods of the routes that serve a request.
MCRouteMethods(m) == {m, "ANY"}

\* What the proof of GuardedFirst asks of the programs.
ASSUME ProgramsUnmixed == Unmixed

\* The chains of n calls that start at f, through different functions.
Chains(c, m, f, n) ==
  {w \in [0..n -> DOMAIN c.code] :
     /\ w[0] = f /\ \A i, j \in 0..n : w[i] = w[j] => i = j
     /\ \A i \in 1..n : w[i] \in UNION {Through(c, h) : h \in Ran(c, m, w[i-1])}}

\* consults gives up only where a chain of calls is longer than it looks, and
\* of these programs on those that call check before they call mw.
ASSUME GivesUp ==
  \A p \in Deep \cup {Program(h, CheckBody, <<"handler">>) : h \in Interfaced \cup {Recursive}} :
    LET c == Classifier(p.code)
        complete == LookedEverywhere(c, "ANY", "handler")
    IN  /\ complete \/ Chains(c, "ANY", "handler", MaxConsults + 1) # {}
        /\ complete <=> p \notin {DeepProgram(<<"check">>), DeepProgram(<<"check", "mw">>)}
=============================================================================
