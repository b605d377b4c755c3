------------------------------ MODULE Requests ------------------------------
(***************************************************************************)
(* Requests executed by the analyzed program, against what analysis says   *)
(* of the route.  A request runs the route's first function; every call    *)
(* that has a body is entered, a guard passes or fails, a condition the    *)
(* analysis does not read goes either way.                                 *)
(***************************************************************************)
EXTENDS Auth

CONSTANTS Programs,   \* what is analyzed: code and the functions of a route
          Requested,  \* the methods of requests
          RouteMethods(_), \* the methods of the routes a request is served by
          MaxStack    \* how deep the program's recursion is followed

VARIABLES program,  \* [code, route: its functions, outermost first]
          method,   \* the request's
          verdict,  \* Classify of the route
          stack     \* activations of functions, the running one first

vars == <<program, method, verdict, stack>>

\* What a program is: bodies of the module's functions, the functions of the
\* route among them.  What runs the rest of the route only calls those.
ASSUME ProgramsAssumption ==
  \A p \in Programs :
    /\ DOMAIN p.code \subseteq {f \in DOMAIN Functions : Functions[f].module}
    /\ \A f \in DOMAIN p.code : IsBody(p.code[f], DOMAIN Functions)
    /\ p.route \in Seq(DOMAIN p.code) /\ p.route # <<>>
    /\ \A h \in DOMAIN Functions :
         DispatchesChain(h) => Functions[h].calls \cap DOMAIN p.code \subseteq Range(p.route)

ASSUME MethodsAssumption == \A m \in Requested : RouteMethods(m) \subseteq {m, "ANY"}

code == program.code

\* An activation: where it is, the sites of the calls it has made and those
\* whose last call failed.
Frame(f) == [fn |-> f, block |-> 1, at |-> 1, called |-> {}, failed |-> {}]

Top == Head(stack)
Body(frame) == code[frame.fn]
Calls(frame) == Body(frame)[frame.block].calls

\* The call the running function is about to make.
Calling == stack # <<>> /\ Top.at <= Len(Calls(Top))
Callee == Calls(Top)[Top.at]
AtEnd == stack # <<>> /\ Top.at > Len(Calls(Top))
Block == Body(Top)[Top.block]

Site(frame) == <<frame.block, frame.at>>

\* What frame is after its call returned, with success or not.
Answered(frame, passed) ==
  [frame EXCEPT !.at = @ + 1, !.called = @ \cup {Site(frame)},
                !.failed = IF passed THEN @ \ {Site(frame)} ELSE @ \cup {Site(frame)}]

Jump(i) == <<[Top EXCEPT !.block = Block.succs[i], !.at = 1]>> \o Tail(stack)

\* What analysis says of the route when it is one for method m.
Verdict(m) == Classify(code, m, Range(program.route))

Init ==
  /\ program \in Programs
  /\ method \in Requested
  /\ \E m \in RouteMethods(method) : verdict = Verdict(m)
  /\ stack = <<Frame(program.route[1])>>

\* The bodies that run when g is called: its own, or of what it calls back.
Entered(g) == IF g \in DOMAIN code THEN {g} ELSE Functions[g].calls \cap DOMAIN code

Enter ==
  /\ Calling /\ Len(stack) < MaxStack
  /\ \E g \in SiteCallees(Callee) : \E f \in Entered(g) : stack' = <<Frame(f)>> \o stack
  /\ UNCHANGED <<program, method, verdict>>

\* A call of a leaf: it may pass or fail.
CallLeaf ==
  /\ Calling
  /\ \E g \in SiteCallees(Callee) : Entered(g) = {}
  /\ \E passed \in BOOLEAN : stack' = <<Answered(Top, passed)>> \o Tail(stack)
  /\ UNCHANGED <<program, method, verdict>>

\* The running function returns, and the call it was made by has a result.
Return ==
  /\ AtEnd /\ Block.succs = <<>>
  /\ IF Len(stack) = 1 THEN stack' = <<>>
     ELSE \E passed \in BOOLEAN : stack' = <<Answered(stack[2], passed)>> \o Tail(Tail(stack))
  /\ UNCHANGED <<program, method, verdict>>

\* What a condition comes to; both where it is not known.
Holds(cond) ==
  CASE cond.kind = "method" -> {(method = cond.method) = cond.equal}
    [] cond.kind = "ok" -> {(cond.call \notin Top.failed) = (cond.op \in {"value", "eq"})}
    [] OTHER -> BOOLEAN

Branch ==
  /\ AtEnd /\ Block.succs # <<>>
  /\ IF Block.cond.kind = "none" THEN stack' = Jump(1)
     ELSE \E h \in Holds(Block.cond) : stack' = Jump(IF h THEN 1 ELSE 2)
  /\ UNCHANGED <<program, method, verdict>>

Next == Enter \/ CallLeaf \/ Return \/ Branch
Spec == Init /\ [][Next]_vars

-----------------------------------------------------------------------------
Running == {stack[i].fn : i \in DOMAIN stack}

\* About to call a sink for something other than finding out who asks.
AtSink == Calling /\ IsSinkCall(Callee) /\ Running \cap verdict.guards = {}

\* The activations that called their way to the sink.
Above == 2..Len(stack)
Uses(a) == verdict.uses[a.fn]

\* A request of some method only runs blocks that the analysis says run for
\* it, whatever the function branches on besides the method (methods.go).
RunsAsScoped ==
  \A i \in DOMAIN stack : stack[i].block \in ReachableFor(Body(stack[i]), verdict.method)

\* Where a function requires a guard by calling it itself, nothing it calls
\* reaches a sink before the guard was called (dominatesWork).
GuardedFirst ==
  AtSink => \A i \in Above : \A u \in Uses(stack[i]) : u.site \in stack[i].called

\* The result of the call at site is tested right after it and only there.
TestedAtOnce(body, site) ==
  /\ site[2] = Len(body[site[1]].calls)
  /\ {b \in Branches(body) : body[b].cond.kind = "ok" /\ body[b].cond.call = site} = {site[1]}

\* When the result is tested at once and the guard failed, nothing the
\* function calls reaches a sink (denySuccessor, exitRegion, hasWork).
DeniedWithoutWork ==
  AtSink => \A i \in Above : \A u \in Uses(stack[i]) :
              TestedAtOnce(Body(stack[i]), u.site) => u.site \notin stack[i].failed

\* No interface method of a program has guards and other implementations.
\* A call of one is the guard's own for dominatesWork, which does not look at
\* the other implementations' work: only without such methods is GuardedFirst
\* what the code achieves.
Unmixed ==
  \A p \in Programs :
    LET guards == DOMAIN FindGuards(p.code)
    IN  \A f \in DOMAIN Functions : SiteCallees(f) \cap guards = {} \/ SiteCallees(f) \subseteq guards

\* The functions that f's calls for method m lead to, f included.  What runs
\* the rest of the route leads nowhere (Through).
Below(c, m, f) ==
  Closure({f}, [g \in DOMAIN Functions |-> UNION {Through(c, h) : h \in Ran(c, m, g)}])

\* consults gave up nowhere below f: whatever a function it looked at calls it
\* looked at too.
LookedEverywhere(c, m, f) ==
  LET searched == Searched(c, m, f)
  IN  /\ f \in searched
      /\ \A g \in searched : \A h \in Ran(c, m, g) :
           Through(c, h) \cap DOMAIN c.code \subseteq searched

\* A public route that is not said to consult the session never calls what
\* may be a guard (consults), unless the search for one was cut off at its
\* depth.
PublicAsksNobody ==
  (/\ verdict.access = "public" /\ ~verdict.optionalAuth
   /\ Calling /\ SiteCallees(Callee) \cap verdict.guards # {})
    => \E f \in Range(program.route) : ~LookedEverywhere(Classifier(code), verdict.method, f)

-----------------------------------------------------------------------------
(***************************************************************************)
(* Why they hold: an inductive invariant.                                  *)
(***************************************************************************)
\* The variables have their types.
Activations ==
  [fn : DOMAIN code, block : Nat, at : Nat,
   called : SUBSET (Nat \X Nat), failed : SUBSET (Nat \X Nat)]

TypeOK ==
  /\ program \in Programs /\ method \in Requested
  /\ \E m \in RouteMethods(method) : verdict = Verdict(m)
  /\ stack \in Seq(Activations)

\* An activation is somewhere in its function, in a block that the analysis
\* says runs for the request's method.
Placed(a) == a.block \in Blocks(Body(a)) /\ a.at \in 1..(Len(Calls(a)) + 1)
Scoped(a) == a.block \in ReachableFor(Body(a), method)

\* A call it has not made is still ahead in its block, or was not on the way.
CalledOnTheWay(a) ==
  \A s \in Sites(Body(a)) :
    \/ s \in a.called \/ a.block \in Avoiding(Body(a), s[1])
    \/ a.block = s[1] /\ a.at <= s[2]

\* After a guard failed its result is about to be tested, or the denial runs.
Denied(a) ==
  \A u \in Uses(a) : TestedAtOnce(Body(a), u.site) /\ u.site \in a.failed =>
    \/ a.block \in Denial(Body(a), u.site[1])
    \/ a.block = u.site[1] /\ a.at > u.site[2]

\* What runs is below a function of the route.
OnRoute(a) ==
  \E f \in Range(program.route) : a.fn \in Below(Classifier(code), verdict.method, f)

Good(a) == Placed(a) /\ Scoped(a) /\ CalledOnTheWay(a) /\ Denied(a) /\ OnRoute(a)

\* Activation by is at the call that runs a.
Waits(by, a) ==
  /\ by.at <= Len(Calls(by))
  /\ \E g \in SiteCallees(Calls(by)[by.at]) : a.fn \in Entered(g)

IInv ==
  /\ TypeOK
  /\ \A i \in DOMAIN stack : Good(stack[i])
  /\ stack # <<>> => stack[Len(stack)].fn = program.route[1]
  /\ \A i \in Above : Waits(stack[i], stack[i-1])
=============================================================================
