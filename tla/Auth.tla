-------------------------------- MODULE Auth --------------------------------
(***************************************************************************)
(* internal/analysis/auth.go: the access level of a route, decided from    *)
(* the bodies of its handler and middleware.                               *)
(*                                                                         *)
(* Functions gives for each function what its name, package and signature  *)
(* say: module (of the analyzed module), request (it takes the request),   *)
(* ok (its last bool or error result says whether it passed), authName and *)
(* denialName (its name matches authNameRE or denialNameRE), sink (a sink  *)
(* rule names it), impls (of an interface method, the methods it may call, *)
(* {} for functions).  code has the bodies of the module's functions; a    *)
(* function without one is a leaf.  calls has the functions an external    *)
(* function calls back, chain says that it is a router's Next, which runs  *)
(* the later handlers of the route.  A call passes the request on where    *)
(* its callee takes one.                                                   *)
(***************************************************************************)
EXTENDS Methods

CONSTANTS Functions,  \* function -> what is known of it
          Own,        \* the module's functions, in the order of their names
          AuthFuncs,  \* Options.AuthFuncs
          AuthRoles,  \* Options.AuthRoles: some functions -> role
          MaxConsults \* how many calls below a function consults looks, 6

Roles == {"authenticated", "guest", "admin"}

ASSUME FunctionsAssumption ==
  /\ IsFiniteSet(DOMAIN Functions)
  /\ Own \in Seq({f \in DOMAIN Functions : Functions[f].module})
  /\ \A f \in DOMAIN Functions :
       /\ Functions[f].impls \cup Functions[f].calls \subseteq DOMAIN Functions
       /\ Functions[f].module => f \in Range(Own) /\ Functions[f].calls = {}
  /\ AuthFuncs \subseteq DOMAIN Functions
  /\ DOMAIN AuthRoles \subseteq DOMAIN Functions /\ Range(AuthRoles) \subseteq Roles

ASSUME ConsultsAssumption == MaxConsults \in Nat

\* The role of nothing, "" in the code.
NoRole == "none"

\* From weakest to strongest.
Rank(role) == CASE role = "authenticated" -> 1 [] role = "guest" -> 2
                [] role = "admin" -> 3 [] OTHER -> 0
MaxRole(a, b) == IF Rank(b) > Rank(a) THEN b ELSE a
Strongest(roles) ==
  CHOOSE role \in roles \cup {NoRole} : \A other \in roles : Rank(other) <= Rank(role)

\* The functions a call of f may run.
SiteCallees(f) == IF Functions[f].impls = {} THEN {f} ELSE Functions[f].impls

\* The functions the body of f calls, or calls back if f is external.
Callees(code, f) ==
  IF f \in DOMAIN code THEN UNION {SiteCallees(CallAt(code[f], s)) : s \in Sites(code[f])}
  ELSE Functions[f].calls

\* f takes the request: an *http.Request or a framework's context.  Bodies
\* here pass it on to every call that takes one.
TakesRequest(f) == Functions[f].request

\* The last bool or error among f's results says whether it passed.
SaysOk(f) == Functions[f].ok

\* f is a framework's way to run the rest of the route, like gin's c.Next.
DispatchesChain(f) == Functions[f].chain /\ ~Functions[f].module

FieldRole(cond) == IF cond.kind = "role" THEN cond.role ELSE NoRole

\* Raises role when f branches on an admin or guest field.
RoleOf(code, f, role) ==
  IF f \notin DOMAIN code THEN role
  ELSE MaxRole(role, Strongest({FieldRole(code[f][b].cond) : b \in Branches(code[f])}))

-----------------------------------------------------------------------------
\* Authentication primitives, by name or by configuration.
Primitive(f) ==
  (Functions[f].authName /\ TakesRequest(f)) \/ f \in AuthFuncs

SeedGuards(code) ==
  [f \in {g \in Range(Own) : g \in DOMAIN AuthRoles \/ Primitive(g)} |->
    RoleOf(code, f, IF f \in DOMAIN AuthRoles THEN AuthRoles[f] ELSE "authenticated")]

\* f becomes a guard if it takes the request, says whether it passed and
\* calls a guard.
AddGuard(code, guards, f) ==
  LET role == Strongest({guards[g] : g \in Callees(code, f) \cap DOMAIN guards})
  IN  IF f \notin DOMAIN guards /\ TakesRequest(f) /\ SaysOk(f) /\ role # NoRole
      THEN [g \in DOMAIN guards \cup {f} |-> IF g = f THEN RoleOf(code, f, role) ELSE guards[g]]
      ELSE guards

\* The guards, with the role each enforces: as many passes over the module's
\* functions as there are functions, since every pass but the last adds one.
FindGuards(code) ==
  LET n == Len(Own)
      after[i \in Nat] ==
        IF i = 0 THEN SeedGuards(code) ELSE AddGuard(code, after[i-1], Own[((i-1) % n) + 1])
  IN  after[n * n]

\* A call that a sink rule names, itself or through an interface.
IsSinkCall(f) == \E g \in {f} \cup SiteCallees(f) : Functions[g].sink

\* The call sites that reach outside the program: <<caller, site>>.
DetectedSinks(code) ==
  UNION {{<<f, s>> : s \in {t \in Sites(code[f]) : IsSinkCall(CallAt(code[f], t))}} : f \in DOMAIN code}

\* The functions that can reach a sink call.
ReachesSink(code) ==
  Closure({s[1] : s \in DetectedSinks(code)},
          [f \in DOMAIN Functions |-> {g \in DOMAIN Functions : f \in Callees(code, g)}])

-----------------------------------------------------------------------------
\* A classifier: the code, its guards and the functions that do the work.
Classifier(code) ==
  [code |-> code, guards |-> FindGuards(code), work |-> ReachesSink(code)]

IsWork(c, f) == \E g \in SiteCallees(f) : g \in c.work /\ g \notin DOMAIN c.guards

HasWork(c, body, region) ==
  \E s \in Sites(body) : s[1] \in region /\ IsWork(c, CallAt(body, s))

\* Faulty variant of DominatesWork: work in the guard's own block is not
\* looked at.
DominatesOtherBlocks(c, body, blocks, site, exclude) ==
  \A s \in Sites(body) :
    (s[1] \in blocks \ exclude /\ s # site /\ IsWork(c, CallAt(body, s)))
      => Dominates(body, site[1], s[1])

\* Every call in blocks, other than those excluded, that can reach a sink
\* runs after the call at site.
DominatesWork(c, body, blocks, site, exclude) ==
  \A s \in Sites(body) :
    (s[1] \in blocks \ exclude /\ s # site /\ IsWork(c, CallAt(body, s)))
      => IF s[1] = site[1] THEN s[2] > site[2] ELSE Dominates(body, site[1], s[1])

\* The successor taken when the tested call failed.
DenySuccessor(cond) == IF cond.op \in {"not", "neq"} THEN 1 ELSE 2

\* Faulty variant of Exits: a region that rejoins the allowed path will do.
ExitsSomewhere(body, deny, allow) == TRUE

\* What runs from allow without passing through deny.
Allowed(body, deny, allow) ==
  Closure({allow} \ {deny}, [b \in Blocks(body) |-> Range(body[b].succs) \ {deny}])

\* The denial does not rejoin the allowed path.
Exits(body, deny, allow) ==
  Closure({deny}, [b \in Blocks(body) |-> Range(body[b].succs)])
    \cap Allowed(body, deny, allow) = {}

\* The blocks of the denial, up to where it rejoins the allowed path.
ExitRegion(body, deny, allow) ==
  LET allowed == Allowed(body, deny, allow)
  IN  Closure({deny}, [b \in Blocks(body) |-> Range(body[b].succs) \ allowed])

\* The region only returns, or answers that the request is rejected.
IsDenial(body, region) ==
  LET calls == {CallAt(body, s) : s \in {t \in Sites(body) : t[1] \in region}}
  IN  calls = {} \/ \E f \in calls : Functions[f].denialName

\* Where the condition of block b leads when the tested call failed, where
\* when it passed, and what runs of the denial.
Deny(body, b)   == body[b].succs[DenySuccessor(body[b].cond)]
Allow(body, b)  == body[b].succs[3 - DenySuccessor(body[b].cond)]
Denial(body, b) == ExitRegion(body, Deny(body, b), Allow(body, b))

\* Block b tests the result of the call at site and rejects the request.
Enforces(c, body, blocks, site, b) ==
  /\ body[b].cond.kind = "ok" /\ body[b].cond.call = site
  /\ Exits(body, Deny(body, b), Allow(body, b))
  /\ IsDenial(body, Denial(body, b)) /\ ~HasWork(c, body, Denial(body, b))
  /\ DominatesWork(c, body, blocks, site, Denial(body, b))

\* The role enforced by the first if that tests the result of guard's call at
\* site and whose failing branch denies the request; {} if there is none.
GuardEnforced(c, body, blocks, site, guard) ==
  LET tests == {b \in blocks \cap Branches(body) : Enforces(c, body, blocks, site, b)}
      \* Other conditions leading to the same denial may check a role.
      others(b) == {FieldRole(body[o].cond) :
                     o \in {p \in blocks \cap Branches(body) : Deny(body, b) \in Range(body[p].succs)}}
  IN  IF tests = {} THEN {}
      ELSE {MaxRole(c.guards[guard], Strongest(others(Min(tests))))}

\* The calls of f that reject the request unless a guard passes, with the
\* role each enforces; the code keeps the strongest of them.  inner has those
\* of the functions that the request is passed on to.
GuardUses(c, m, inner, f) ==
  LET body == c.code[f]
      blocks == ReachableFor(body, m)
      called(s) == SiteCallees(CallAt(body, s))
      own(s) ==
        UNION {{[site |-> s, role |-> r, direct |-> TRUE] : r \in GuardEnforced(c, body, blocks, s, g)} :
                 g \in called(s) \cap DOMAIN c.guards}
      passes(s, g) == /\ Functions[g].module /\ TakesRequest(g) /\ inner[g] # {}
                      /\ DominatesWork(c, body, blocks, s, {})
      passed(s) ==
        {[site |-> s, role |-> Strongest({u.role : u \in inner[g]}), direct |-> FALSE] :
           g \in {h \in called(s) \ DOMAIN c.guards : passes(s, h)}}
  IN  IF f \notin DOMAIN c.code THEN {}
      ELSE UNION {own(s) \cup passed(s) : s \in {t \in Sites(body) : t[1] \in blocks}}

\* The request is passed on at most 3 times.
Required(c, m) ==
  LET outer(inner) == [f \in DOMAIN Functions |-> GuardUses(c, m, inner, f)]
  IN  outer(outer(outer(outer([f \in DOMAIN Functions |-> {}]))))

\* The functions that g's body may call for method m.
Ran(c, m, g) ==
  IF g \notin DOMAIN c.code THEN {}
  ELSE UNION {SiteCallees(CallAt(c.code[g], s)) :
                s \in {t \in Sites(c.code[g]) : t[1] \in ReachableFor(c.code[g], m)}}

\* h, or the functions of the module that it calls back if it is external.
Through(c, h) ==
  IF Functions[h].module THEN {h}
  ELSE {k \in Callees(c.code, h) : Functions[k].module /\ ~DispatchesChain(h)}

\* The module's functions that g's calls for method m run, in the order of
\* the calls.  Those of one call are ordered by name.
Targets(c, m, g) ==
  LET body == c.code[g]
      blocks == ReachableFor(body, m)
      calls == FlattenSeq([b \in Blocks(body) |-> IF b \in blocks THEN body[b].calls ELSE <<>>])
      targets(f) == UNION {Through(c, h) : h \in SiteCallees(f)}
  IN  FlattenSeq([i \in DOMAIN calls |->
        LET found == targets(calls[i]) IN SelectSeq(Own, LAMBDA t : t \in found)])

\* The functions that are looked at for guards below f: depth first, each once,
\* MaxConsults calls deep.  One that is first met at that depth counts as seen,
\* though what it calls is not looked at, not even when it is met again nearer
\* to f.  (The search ends at the first guard, which finds one all the same.)
Searched(c, m, f) ==
  LET search[depth \in Nat, seen \in SUBSET DOMAIN Functions, g \in DOMAIN Functions] ==
        IF depth > MaxConsults \/ g \in seen \/ g \notin DOMAIN c.code THEN seen
        ELSE FoldLeft(LAMBDA s, t : search[depth + 1, s, t], seen \cup {g}, Targets(c, m, g))
  IN  search[0, {}, f]

\* Faulty variant of Consults: only f's own calls count.
ConsultsItself(c, m, f) == Ran(c, m, f) \cap DOMAIN c.guards # {}

\* f calls a guard for method m, itself or through what is searched below it.
Consults(c, m, f) == \E g \in Searched(c, m, f) : Ran(c, m, g) \cap DOMAIN c.guards # {}

\* The access level of a route with method m served by fns, its middleware
\* and its handler: the strongest any of them requires.
Classify(code, m, fns) ==
  LET c == Classifier(code)
      required == Required(c, m)
      role == Strongest({u.role : u \in UNION {required[f] : f \in fns}})
      access == IF role = NoRole THEN "public" ELSE role
  IN  [method |-> m, guards |-> DOMAIN c.guards, access |-> access,
       uses |-> [f \in DOMAIN code |-> IF f \in fns THEN {u \in required[f] : u.direct} ELSE {}],
       optionalAuth |-> access = "public" /\ \E f \in fns : Consults(c, m, f)]
=============================================================================
