--------------------------- MODULE RequestsProofs ---------------------------
(***************************************************************************)
(* What the access levels of routes promise holds for every program: the   *)
(* requests it serves run where the analysis looked.  The first part says  *)
(* what the closures that methods.go and auth.go compute are good for, the *)
(* second what the classifier finds, the third what is true of a single    *)
(* activation, the last that the steps of a request keep it.               *)
(***************************************************************************)
EXTENDS Requests, ReachProofs, SequenceTheorems

LEMMA BodyShape ==
  ASSUME NEW fs, NEW body, IsBody(body, fs)
  PROVE  /\ Len(body) \in Nat /\ Blocks(body) = 1..Len(body) /\ 1 \in Blocks(body)
         /\ IsFiniteSet(Blocks(body))
         /\ \A b \in Blocks(body) :
              /\ body[b].calls \in Seq(fs) /\ body[b].cond \in Conditions
              /\ body[b].succs \in Seq(Blocks(body))
              /\ Range(body[b].succs) \subseteq Blocks(body)
              /\ b \in Branches(body) => Len(body[b].succs) = 2
              /\ b \notin Branches(body) => Len(body[b].succs) <= 1
<1>0. PICK R : R = [calls : Seq(fs), cond : Conditions, succs : Seq(1..Len(body))]
  OBVIOUS
<1>1. body \in Seq(R) /\ body # <<>>
  BY <1>0 DEF IsBody
<1>2. Len(body) \in Nat /\ Blocks(body) = 1..Len(body)
  BY <1>1 DEF Blocks
<1>3. 1 \in Blocks(body)
  BY <1>1, <1>2
<1>4. IsFiniteSet(Blocks(body))
  BY <1>2, FS_Interval
<1>5. ASSUME NEW b \in Blocks(body)
      PROVE  /\ body[b].calls \in Seq(fs) /\ body[b].cond \in Conditions
             /\ body[b].succs \in Seq(Blocks(body))
             /\ Range(body[b].succs) \subseteq Blocks(body)
             /\ b \in Branches(body) => Len(body[b].succs) = 2
             /\ b \notin Branches(body) => Len(body[b].succs) <= 1
  <2>1. body[b] \in [calls : Seq(fs), cond : Conditions, succs : Seq(1..Len(body))]
    <3>1. body[b] \in R
      BY <1>1, <1>2
    <3>2. QED
      BY <1>0, <3>1
  <2>2. body[b].succs \in Seq(Blocks(body))
    BY <1>2, <2>1
  <2>3. Range(body[b].succs) \subseteq Blocks(body)
    BY <2>2 DEF Range
  <2>4. Len(body[b].succs) \in Nat
    BY <2>2
  <2>5. IF b \in Branches(body) THEN Len(body[b].succs) = 2 ELSE Len(body[b].succs) <= 1
    BY DEF IsBody
  <2>6. body[b].calls \in Seq(fs) /\ body[b].cond \in Conditions
    BY <2>1
  <2>7. b \notin Branches(body) => Len(body[b].succs) <= 1
    BY <2>5
  <2>8. QED
    BY <2>2, <2>3, <2>5, <2>6, <2>7
<1>6. QED
  BY <1>2, <1>3, <1>4, <1>5

\* Ways through a body.
LEMMA BodyLeads ==
  ASSUME NEW fs, NEW body, IsBody(body, fs), NEW next, DOMAIN next = Blocks(body),
         \A b \in Blocks(body) : next[b] \subseteq Range(body[b].succs)
  PROVE  Leads(next)
BY BodyShape DEF Leads

LEMMA AvoidingStarts ==
  ASSUME NEW fs, NEW body, IsBody(body, fs), NEW b, b # 1
  PROVE  1 \in Avoiding(body, b)
<1> DEFINE next == [x \in Blocks(body) |-> Range(body[x].succs) \ {b}]
<1>1. Leads(next)
  BY BodyLeads
<1>2. {1} \ {b} \in SUBSET DOMAIN next
  BY BodyShape
<1>3. QED
  BY <1>1, <1>2, ClosureStarts DEF Avoiding

LEMMA AvoidingStep ==
  ASSUME NEW fs, NEW body, IsBody(body, fs), NEW b,
         NEW c \in Avoiding(body, b), NEW d \in Range(body[c].succs), d # b
  PROVE  d \in Avoiding(body, b)
<1> DEFINE next == [x \in Blocks(body) |-> Range(body[x].succs) \ {b}]
<1>1. Leads(next)
  BY BodyLeads
<1>2. {1} \ {b} \in SUBSET DOMAIN next
  BY BodyShape
<1>3. c \in Closure({1} \ {b}, next) /\ c \in Blocks(body)
  BY <1>1, <1>2, ClosureStarts DEF Avoiding
<1>4. next[c] \subseteq Closure({1} \ {b}, next)
  BY <1>1, <1>2, <1>3, ClosureClosed
<1>5. d \in next[c]
  BY <1>3
<1>6. QED
  BY <1>4, <1>5 DEF Avoiding

\* Nothing leads out of a denial that does not rejoin the allowed path.
LEMMA DenialIsClosed ==
  ASSUME NEW fs, NEW body, IsBody(body, fs),
         NEW deny \in Blocks(body), NEW allow \in Blocks(body), Exits(body, deny, allow)
  PROVE  /\ deny \in ExitRegion(body, deny, allow)
         /\ ExitRegion(body, deny, allow) \subseteq Blocks(body)
         /\ \A c \in ExitRegion(body, deny, allow) :
              Range(body[c].succs) \subseteq ExitRegion(body, deny, allow)
<1> DEFINE allowed == Allowed(body, deny, allow)
           all     == [b \in Blocks(body) |-> Range(body[b].succs)]
           next    == [b \in Blocks(body) |-> Range(body[b].succs) \ allowed]
           after   == Closure({deny}, all)
           region  == Closure({deny}, next)
<1>1. Leads(all) /\ Leads(next)
  BY BodyLeads
<1>2. {deny} \in SUBSET DOMAIN all /\ {deny} \in SUBSET DOMAIN next
  OBVIOUS
<1> HIDE DEF allowed
<1>3. deny \in after /\ \A b \in after : all[b] \subseteq after
  BY <1>1, <1>2, ClosureStarts, ClosureClosed
<1>4. deny \in region /\ region \subseteq Blocks(body) /\ \A b \in region : next[b] \subseteq region
  <2>1. {deny} \subseteq region /\ region \subseteq DOMAIN next
    BY <1>1, <1>2, ClosureStarts
  <2>2. \A b \in region : next[b] \subseteq region
    BY <1>1, <1>2, ClosureClosed
  <2>3. QED
    BY <2>1, <2>2
<1>5. after \cap allowed = {}
  BY DEF Exits, allowed
<1>6. region \subseteq after
  <2>1. \A b \in after \cap DOMAIN next : next[b] \subseteq after
    BY <1>3
  <2> HIDE DEF after
  <2>2. {deny} \subseteq after
    BY <1>3
  <2>3. QED
    BY <1>1, <1>2, <2>1, <2>2, ClosureLeast
<1>7. ASSUME NEW c \in region PROVE Range(body[c].succs) \subseteq region
  <2>1. c \in Blocks(body) /\ c \in after
    BY <1>4, <1>6
  <2>2. all[c] \cap allowed = {}
    BY <1>3, <1>5, <2>1
  <2>3. next[c] = Range(body[c].succs)
    BY <2>1, <2>2
  <2>4. QED
    BY <1>4, <2>3
<1>8. region = ExitRegion(body, deny, allow)
  BY DEF ExitRegion, allowed
<1>9. QED
  BY <1>4, <1>7, <1>8

LEMMA ReachableLeads ==
  ASSUME NEW fs, NEW body, IsBody(body, fs), NEW k
  PROVE  Leads([b \in Blocks(body) |->
                 IF b \in MethodConditions(body) THEN {body[b].succs[Decided(body, b, k)]}
                 ELSE Range(body[b].succs)])
<1>1. ASSUME NEW b \in Blocks(body), b \in MethodConditions(body)
      PROVE  body[b].succs[Decided(body, b, k)] \in Range(body[b].succs)
  <2>1. b \in Branches(body)
    BY <1>1 DEF MethodConditions, Branches
  <2>2. body[b].succs \in Seq(Blocks(body)) /\ Len(body[b].succs) = 2
    BY <2>1, BodyShape
  <2>3. Decided(body, b, k) \in {1, 2}
    BY DEF Decided
  <2>4. QED
    BY <2>2, <2>3 DEF Range
<1>2. QED
  BY <1>1, BodyLeads

\* A step of a body for method m stays in what runs for it: the method
\* conditions are decided as m decides them.
LEMMA ReachableForStarts ==
  ASSUME NEW fs, NEW body, IsBody(body, fs), NEW m
  PROVE  1 \in ReachableFor(body, m)
<1>1. 1 \in Blocks(body)
  BY BodyShape
<1>2. ASSUME NEW k PROVE 1 \in ReachableBlocks(body, k)
  <2> DEFINE next == [b \in Blocks(body) |->
                       IF b \in MethodConditions(body) THEN {body[b].succs[Decided(body, b, k)]}
                       ELSE Range(body[b].succs)]
  <2>1. Leads(next)
    BY ReachableLeads
  <2>2. QED
    BY <1>1, <2>1, ClosureStarts DEF ReachableBlocks
<1>3. QED
  BY <1>1, <1>2 DEF ReachableFor, MethodScope

LEMMA ReachableForStep ==
  ASSUME NEW fs, NEW body, IsBody(body, fs), NEW m, NEW b \in Blocks(body),
         b \in ReachableFor(body, m), NEW i \in DOMAIN body[b].succs,
         b \in MethodConditions(body) /\ m # "ANY" => i = Decided(body, b, m)
  PROVE  body[b].succs[i] \in ReachableFor(body, m)
<1> DEFINE d == body[b].succs[i]
<1>1. d \in Range(body[b].succs) /\ d \in Blocks(body)
  BY BodyShape DEF Range
<1>2. CASE MethodConditions(body) = {} \/ m = "ANY"
  BY <1>1, <1>2 DEF ReachableFor
<1>3. CASE MethodConditions(body) # {} /\ m # "ANY"
  <2>1. PICK k : k = IF m \in Compared(body) THEN m ELSE OtherMethod
    OBVIOUS
  <2> DEFINE next == [x \in Blocks(body) |->
                       IF x \in MethodConditions(body) THEN {body[x].succs[Decided(body, x, k)]}
                       ELSE Range(body[x].succs)]
  <2>2. Leads(next) /\ {1} \in SUBSET DOMAIN next
    BY ReachableLeads, BodyShape
  <2>3. k \in Compared(body) \cup {OtherMethod} /\ b \in ReachableBlocks(body, k)
    BY <1>3, <2>1 DEF ReachableFor, MethodScope
  <2>4. b \in MethodConditions(body) => Decided(body, b, k) = Decided(body, b, m)
    <3>1. ASSUME b \in MethodConditions(body)
          PROVE  (body[b].cond.method = k) = (body[b].cond.method = m)
      <4>1. body[b].cond.method \in Compared(body)
        BY <3>1 DEF Compared
      <4>2. body[b].cond \in Conditions /\ body[b].cond.kind = "method"
        BY <3>1, BodyShape DEF MethodConditions
      <4>3. body[b].cond.method # OtherMethod
        BY <4>2 DEF Conditions
      <4>4. QED
        BY <2>1, <4>1, <4>3
    <3>2. QED
      BY <3>1 DEF Decided
  <2>5. d \in next[b]
    BY <1>1, <1>3, <2>4
  <2>6. next[b] \subseteq ReachableBlocks(body, k)
    BY <2>2, <2>3, ClosureClosed DEF ReachableBlocks
  <2>7. QED
    BY <1>1, <1>3, <2>1, <2>3, <2>5, <2>6 DEF ReachableFor, MethodScope
<1>4. QED
  BY <1>2, <1>3

-----------------------------------------------------------------------------
(***************************************************************************)
(* What the classifier finds.                                              *)
(***************************************************************************)
LEMMA CodeShape ==
  ASSUME program \in Programs
  PROVE  /\ \A f \in DOMAIN code :
              /\ f \in DOMAIN Functions /\ Functions[f].module /\ f \in Range(Own)
              /\ Functions[f].calls = {} /\ IsBody(code[f], DOMAIN Functions)
         /\ program.route \in Seq(DOMAIN code) /\ program.route # <<>>
         /\ Range(program.route) \subseteq DOMAIN code
         /\ program.route[1] \in Range(program.route)
         /\ Own # <<>>
<1>1. /\ \A f \in DOMAIN code :
           /\ f \in DOMAIN Functions /\ Functions[f].module
           /\ IsBody(code[f], DOMAIN Functions)
      /\ program.route \in Seq(DOMAIN code) /\ program.route # <<>>
  BY ProgramsAssumption DEF code
<1>2. \A f \in DOMAIN code : f \in Range(Own) /\ Functions[f].calls = {}
  BY <1>1, FunctionsAssumption
<1>3. program.route[1] \in Range(program.route) /\ Range(program.route) \subseteq DOMAIN code
  BY <1>1 DEF Range
<1>4. Own # <<>>
  <2>1. program.route[1] \in Range(Own)
    BY <1>2, <1>3
  <2>2. PICK i \in DOMAIN Own : TRUE
    BY <2>1 DEF Range
  <2>3. QED
    BY <2>2, FunctionsAssumption
<1>5. QED
  BY <1>1, <1>2, <1>3, <1>4

LEMMA SiteCalls ==
  ASSUME program \in Programs, NEW f \in DOMAIN code, NEW s \in Sites(code[f])
  PROVE  /\ s = <<s[1], s[2]>> /\ s[1] \in Blocks(code[f]) /\ s[2] \in 1..Len(code[f][s[1]].calls)
         /\ CallAt(code[f], s) \in DOMAIN Functions
<1>1. PICK b \in Blocks(code[f]) : \E i \in DOMAIN code[f][b].calls : s = <<b, i>>
  BY DEF Sites
<1>2. PICK i \in DOMAIN code[f][b].calls : s = <<b, i>>
  BY <1>1
<1>3. code[f][b].calls \in Seq(DOMAIN Functions)
  BY CodeShape, BodyShape
<1>4. i \in 1..Len(code[f][b].calls) /\ code[f][b].calls[i] \in DOMAIN Functions
  BY <1>2, <1>3
<1>5. s[1] = b /\ s[2] = i
  BY <1>2
<1>6. QED
  BY <1>2, <1>4, <1>5 DEF CallAt

LEMMA SitesAre ==
  ASSUME program \in Programs, NEW f \in DOMAIN code,
         NEW b \in Blocks(code[f]), NEW i \in 1..Len(code[f][b].calls)
  PROVE  <<b, i>> \in Sites(code[f]) /\ CallAt(code[f], <<b, i>>) = code[f][b].calls[i]
<1>1. code[f][b].calls \in Seq(DOMAIN Functions)
  BY CodeShape, BodyShape
<1>2. i \in DOMAIN code[f][b].calls
  BY <1>1
<1>3. <<b, i>> \in {<<b, j>> : j \in DOMAIN code[f][b].calls}
  BY <1>2
<1>4. QED
  BY <1>3 DEF Sites, CallAt

LEMMA Called ==
  ASSUME program \in Programs, NEW h \in DOMAIN Functions
  PROVE  SiteCallees(h) \subseteq DOMAIN Functions
BY FunctionsAssumption DEF SiteCallees

\* What the work of a program is: functions that call a sink and those that
\* call them.
LEMMA WorkLeads ==
  Leads([f \in DOMAIN Functions |-> {g \in DOMAIN Functions : f \in Callees(code, g)}])
BY FunctionsAssumption DEF Leads

LEMMA SinkCallers ==
  ASSUME program \in Programs
  PROVE  {s[1] : s \in DetectedSinks(code)} \in SUBSET DOMAIN Functions
<1>1. ASSUME NEW s \in DetectedSinks(code) PROVE s[1] \in DOMAIN Functions
  <2>1. PICK f \in DOMAIN code : \E t \in Sites(code[f]) : s = <<f, t>>
    BY DEF DetectedSinks
  <2>2. QED
    BY <2>1, CodeShape
<1>2. QED
  BY <1>1

LEMMA SinkCallersWork ==
  ASSUME program \in Programs, NEW f \in DOMAIN code,
         NEW s \in Sites(code[f]), IsSinkCall(CallAt(code[f], s))
  PROVE  f \in ReachesSink(code)
<1>1. <<f, s>> \in DetectedSinks(code)
  <2>1. <<f, s>> \in {<<f, t>> : t \in {t \in Sites(code[f]) : IsSinkCall(CallAt(code[f], t))}}
    OBVIOUS
  <2>2. QED
    BY <2>1 DEF DetectedSinks
<1>2. PICK p : p = <<f, s>>
  OBVIOUS
<1>3. p[1] = f
  BY <1>2
<1>4. f \in {q[1] : q \in DetectedSinks(code)}
  BY <1>1, <1>2, <1>3
<1>5. QED
  BY <1>4, WorkLeads, SinkCallers, ClosureStarts DEF ReachesSink

LEMMA CallersWork ==
  ASSUME program \in Programs, NEW f \in ReachesSink(code),
         NEW g \in DOMAIN Functions, f \in Callees(code, g)
  PROVE  g \in ReachesSink(code)
<1> DEFINE next == [h \in DOMAIN Functions |-> {k \in DOMAIN Functions : h \in Callees(code, k)}]
           S == {s[1] : s \in DetectedSinks(code)}
<1>1. Leads(next) /\ S \in SUBSET DOMAIN next
  BY WorkLeads, SinkCallers
<1>2. f \in Closure(S, next) /\ f \in DOMAIN Functions
  BY <1>1, ClosureStarts DEF ReachesSink
<1>3. next[f] \subseteq Closure(S, next)
  BY <1>1, <1>2, ClosureClosed
<1>4. g \in next[f]
  BY <1>2
<1>5. QED
  BY <1>3, <1>4 DEF ReachesSink

-----------------------------------------------------------------------------
\* Guards are functions of the module, with a role.
Partial == UNION {[D -> Roles] : D \in SUBSET Range(Own)}

LEMMA Ranks ==
  ASSUME NEW q \in Roles \cup {NoRole}
  PROVE  \/ q = "admin" /\ Rank(q) = 3
         \/ q = "guest" /\ Rank(q) = 2
         \/ q = "authenticated" /\ Rank(q) = 1
         \/ q = NoRole /\ Rank(q) = 0
<1>1. /\ Rank(NoRole) = 0 /\ Rank("authenticated") = 1
      /\ Rank("guest") = 2 /\ Rank("admin") = 3
  BY DEF Rank, NoRole
<1>2. QED
  BY <1>1 DEF Roles

LEMMA StrongestType ==
  ASSUME NEW roles, roles \subseteq Roles \cup {NoRole}
  PROVE  Strongest(roles) \in roles \cup {NoRole}
<1> DEFINE all == roles \cup {NoRole}
<1>1. ASSUME NEW k \in {1, 2, 3},
             \A q \in all : Rank(q) <= k, ~\E q \in all : Rank(q) = k
      PROVE  \A q \in all : Rank(q) <= k - 1
  BY <1>1, Ranks
<1>2. \E r \in all : \A q \in all : Rank(q) <= Rank(r)
  <2>1. CASE \E q \in all : Rank(q) = 3
    BY <2>1, Ranks
  <2>2. CASE \A q \in all : Rank(q) <= 2
    <3>1. CASE \E q \in all : Rank(q) = 2
      BY <2>2, <3>1
    <3>2. CASE \A q \in all : Rank(q) <= 1
      <4>1. CASE \E q \in all : Rank(q) = 1
        BY <3>2, <4>1
      <4>2. CASE \A q \in all : Rank(q) <= 0
        BY <4>2, Ranks
      <4>3. QED
        BY <1>1, <3>2, <4>1, <4>2
    <3>3. QED
      BY <1>1, <2>2, <3>1, <3>2
  <2>3. \A q \in all : Rank(q) <= 3
    BY Ranks
  <2>4. QED
    BY <1>1, <2>1, <2>2, <2>3
<1>3. QED
  BY <1>2 DEF Strongest

LEMMA RoleOfType ==
  ASSUME program \in Programs, NEW f \in DOMAIN Functions, NEW role \in Roles
  PROVE  RoleOf(code, f, role) \in Roles
<1>1. CASE f \notin DOMAIN code
  BY <1>1 DEF RoleOf
<1>2. CASE f \in DOMAIN code
  <2> DEFINE roles == {FieldRole(code[f][b].cond) : b \in Branches(code[f])}
  <2>1. ASSUME NEW b \in Branches(code[f]) PROVE FieldRole(code[f][b].cond) \in Roles \cup {NoRole}
    <3>1. code[f][b].cond \in Conditions
      BY <1>2, CodeShape, BodyShape DEF Branches
    <3>2. QED
      BY <3>1 DEF FieldRole, Conditions, Roles, NoRole
  <2>2. roles \subseteq Roles \cup {NoRole}
    BY <2>1
  <2> HIDE DEF roles
  <2>3. Strongest(roles) \in Roles \cup {NoRole}
    BY <2>2, StrongestType
  <2>4. MaxRole(role, Strongest(roles)) \in Roles
    <3>1. CASE Strongest(roles) \in Roles
      BY <3>1 DEF MaxRole
    <3>2. CASE Strongest(roles) = NoRole
      <4>1. Rank(NoRole) = 0
        BY DEF Rank, NoRole
      <4>2. Rank(role) = 1 \/ Rank(role) = 2 \/ Rank(role) = 3
        BY Ranks DEF Roles, NoRole
      <4>3. QED
        BY <3>2, <4>1, <4>2 DEF MaxRole
    <3>3. QED
      BY <2>3, <3>1, <3>2
  <2>5. QED
    BY <1>2, <2>4 DEF RoleOf, roles
<1>3. QED
  BY <1>1, <1>2

LEMMA SeedType ==
  ASSUME program \in Programs
  PROVE  SeedGuards(code) \in Partial
<1> DEFINE D == {g \in Range(Own) : g \in DOMAIN AuthRoles \/ Primitive(g)}
<1>1. Range(Own) \subseteq DOMAIN Functions
  BY FunctionsAssumption DEF Range
<1>2. ASSUME NEW f \in D
      PROVE  RoleOf(code, f, IF f \in DOMAIN AuthRoles THEN AuthRoles[f] ELSE "authenticated") \in Roles
  <2>1. (IF f \in DOMAIN AuthRoles THEN AuthRoles[f] ELSE "authenticated") \in Roles
    BY FunctionsAssumption DEF Range, Roles
  <2>2. f \in DOMAIN Functions
    BY <1>1
  <2>3. QED
    BY <2>1, <2>2, RoleOfType
<1>3. SeedGuards(code) \in [D -> Roles]
  BY <1>2 DEF SeedGuards
<1>4. D \in SUBSET Range(Own)
  OBVIOUS
<1> HIDE DEF D
<1>5. QED
  BY <1>3, <1>4 DEF Partial

LEMMA AddType ==
  ASSUME program \in Programs, NEW guards \in Partial, NEW f \in Range(Own)
  PROVE  AddGuard(code, guards, f) \in Partial
<1>1. PICK D \in SUBSET Range(Own) : guards \in [D -> Roles]
  BY DEF Partial
<1> DEFINE roles == {guards[g] : g \in Callees(code, f) \cap DOMAIN guards}
           role == Strongest(roles)
<1>2. roles \subseteq Roles
  BY <1>1
<1> HIDE DEF roles
<1>3. role \in Roles \cup {NoRole}
  BY <1>2, StrongestType
<1>4. CASE f \notin DOMAIN guards /\ TakesRequest(f) /\ SaysOk(f) /\ role # NoRole
  <2>1. f \in DOMAIN Functions
    BY FunctionsAssumption DEF Range
  <2>2. RoleOf(code, f, role) \in Roles
    BY <1>3, <1>4, <2>1, RoleOfType
  <2>3. PICK r \in Roles : r = RoleOf(code, f, role)
    BY <2>2
  <2>4. [g \in DOMAIN guards \cup {f} |-> IF g = f THEN r ELSE guards[g]] \in [D \cup {f} -> Roles]
    BY <1>1, <2>3
  <2>5. D \cup {f} \in SUBSET Range(Own)
    OBVIOUS
  <2>6. AddGuard(code, guards, f) = [g \in DOMAIN guards \cup {f} |-> IF g = f THEN r ELSE guards[g]]
    BY <1>4, <2>3 DEF AddGuard, roles
  <2>7. QED
    BY <2>4, <2>5, <2>6 DEF Partial
<1>5. CASE ~ (f \notin DOMAIN guards /\ TakesRequest(f) /\ SaysOk(f) /\ role # NoRole)
  BY <1>5 DEF AddGuard, roles
<1>6. QED
  BY <1>4, <1>5

LEMMA GuardsAreOwn ==
  ASSUME program \in Programs
  PROVE  FindGuards(code) \in Partial
<1> DEFINE n == Len(Own)
           F == [p \in Nat \X Partial |-> AddGuard(code, p[2], Own[(p[1] % n) + 1])]
<1>1. n \in Nat \ {0}
  BY CodeShape, FunctionsAssumption
<1>2. ASSUME NEW i \in Nat PROVE Own[(i % n) + 1] \in Range(Own)
  <2>1. (i % n) + 1 \in 1..n
    BY <1>1
  <2>2. QED
    BY <2>1, FunctionsAssumption DEF Range
<1> HIDE DEF n
<1>3. F \in [Nat \X Partial -> Partial]
  BY <1>2, AddType
<1>4. \A i \in Nat, guards \in Partial :
        F[<<i, guards>>] = AddGuard(code, guards, Own[(i % n) + 1])
  OBVIOUS
<1> HIDE DEF F
<1>5. PICK f \in [Nat -> Partial] : f[0] = SeedGuards(code) /\ \A i \in Nat : f[i+1] = F[<<i, f[i]>>]
  <2>1. \E f : Iterates(f, Partial, F, SeedGuards(code))
    BY <1>3, SeedType, Iterated
  <2>2. QED
    BY <2>1 DEF Iterates
<1>6. \A i \in Nat : f[i+1] = AddGuard(code, f[i], Own[(i % n) + 1])
  BY <1>4, <1>5
<1>7. \A i \in Nat : i # 0 => f[i] = AddGuard(code, f[i-1], Own[((i-1) % n) + 1])
  <2>1. SUFFICES ASSUME NEW i \in Nat, i # 0
                 PROVE  f[i] = AddGuard(code, f[i-1], Own[((i-1) % n) + 1])
    OBVIOUS
  <2>2. i - 1 \in Nat /\ (i - 1) + 1 = i
    BY <2>1
  <2>3. QED
    BY <1>6, <2>2
<1>8. f = [i \in Nat |-> IF i = 0 THEN SeedGuards(code)
                         ELSE AddGuard(code, f[i-1], Own[((i-1) % n) + 1])]
  BY <1>5, <1>7
<1> DEFINE after[i \in Nat] ==
        IF i = 0 THEN SeedGuards(code) ELSE AddGuard(code, after[i-1], Own[((i-1) % n) + 1])
<1>9. after = [i \in Nat |-> IF i = 0 THEN SeedGuards(code)
                             ELSE AddGuard(code, after[i-1], Own[((i-1) % n) + 1])]
  BY <1>8
<1>10. FindGuards(code) = after[n * n]
  BY DEF FindGuards, n
<1> HIDE DEF after
<1>11. \A i \in Nat : after[i] \in Partial
  <2> DEFINE T == {i \in Nat : after[i] \in Partial}
  <2>1. 0 \in T
    BY <1>9, SeedType
  <2>2. ASSUME NEW i \in T PROVE i + 1 \in T
    <3>1. i \in Nat /\ after[i] \in Partial
      OBVIOUS
    <3>2. after[i+1] = AddGuard(code, after[i], Own[(i % n) + 1])
      BY <1>9, <3>1
    <3>3. QED
      BY <1>2, <3>1, <3>2, AddType
  <2> HIDE DEF T
  <2>3. T = Nat
    <3>1. T \in SUBSET Nat
      BY DEF T
    <3>2. QED
      BY <2>1, <2>2, <3>1, Induction
  <2>4. QED
    BY <2>3 DEF T
<1>12. n * n \in Nat
  BY <1>1
<1>13. QED
  BY <1>10, <1>11, <1>12

\* What the verdict has of the classifier.
LEMMA VerdictIs ==
  ASSUME program \in Programs, NEW m, verdict = Verdict(m)
  PROVE  /\ verdict.method = m
         /\ verdict.guards = DOMAIN FindGuards(code)
         /\ verdict.guards \subseteq Range(Own)
         /\ \A f \in DOMAIN code :
              verdict.uses[f] = IF f \in Range(program.route)
                                THEN {u \in Required(Classifier(code), m)[f] : u.direct} ELSE {}
<1>1. verdict.guards = DOMAIN FindGuards(code) /\ verdict.method = m
  BY DEF Verdict, Classify, Classifier
<1>2. \A f \in DOMAIN code :
              verdict.uses[f] = IF f \in Range(program.route)
                                THEN {u \in Required(Classifier(code), m)[f] : u.direct} ELSE {}
  BY DEF Verdict, Classify
<1>3. DOMAIN FindGuards(code) \subseteq Range(Own)
  BY GuardsAreOwn DEF Partial
<1>4. QED
  BY <1>1, <1>2, <1>3

LEMMA PublicConsults ==
  ASSUME program \in Programs, NEW m, verdict = Verdict(m),
         verdict.access = "public", ~verdict.optionalAuth,
         NEW f \in Range(program.route)
  PROVE  ~Consults(Classifier(code), m, f)
BY DEF Verdict, Classify

-----------------------------------------------------------------------------
(***************************************************************************)
(* A direct use of a guard: the block that tests its result.               *)
(***************************************************************************)
LEMMA UseOfGuard ==
  ASSUME NEW c, NEW m, NEW inner, NEW f, NEW u \in GuardUses(c, m, inner, f), u.direct
  PROVE  /\ u.site \in Sites(c.code[f]) /\ u.site[1] \in ReachableFor(c.code[f], m)
         /\ SiteCallees(CallAt(c.code[f], u.site)) \cap DOMAIN c.guards # {}
         /\ \E b \in ReachableFor(c.code[f], m) \cap Branches(c.code[f]) :
              Enforces(c, c.code[f], ReachableFor(c.code[f], m), u.site, b)
<1> DEFINE body == c.code[f]
           blocks == ReachableFor(body, m)
           called(s) == SiteCallees(CallAt(body, s))
           own(s) ==
             UNION {{[site |-> s, role |-> r, direct |-> TRUE] : r \in GuardEnforced(c, body, blocks, s, g)} :
                      g \in called(s) \cap DOMAIN c.guards}
           passes(s, g) == /\ Functions[g].module /\ TakesRequest(g) /\ inner[g] # {}
                           /\ DominatesWork(c, body, blocks, s, {})
           passed(s) ==
             {[site |-> s, role |-> Strongest({v.role : v \in inner[g]}), direct |-> FALSE] :
                g \in {h \in called(s) \ DOMAIN c.guards : passes(s, h)}}
<1>1. u \in UNION {own(s) \cup passed(s) : s \in {t \in Sites(body) : t[1] \in blocks}}
  <2>1. f \in DOMAIN c.code
    BY Zenon DEF GuardUses
  <2>2. QED
    BY <2>1, Zenon DEF GuardUses
<1>2. PICK s \in Sites(body) : s[1] \in blocks /\ u \in own(s) \cup passed(s)
  <2> HIDE DEF own, passed, blocks, body
  <2>1. QED
    BY <1>1
<1>3. u \notin passed(s)
  <2>1. ASSUME NEW h, u = [site |-> s, role |-> Strongest({v.role : v \in inner[h]}), direct |-> FALSE]
        PROVE  FALSE
    <3>1. PICK r : r = Strongest({v.role : v \in inner[h]})
      OBVIOUS
    <3>2. u = [site |-> s, role |-> r, direct |-> FALSE]
      BY <2>1, <3>1
    <3>3. QED
      BY <3>2
  <2>2. QED
    BY <2>1, Zenon
<1> HIDE DEF passed, called
<1>4. PICK g \in called(s) \cap DOMAIN c.guards :
        u \in {[site |-> s, role |-> r, direct |-> TRUE] : r \in GuardEnforced(c, body, blocks, s, g)}
  BY <1>2, <1>3
<1> HIDE DEF own
<1>5. PICK r \in GuardEnforced(c, body, blocks, s, g) : u = [site |-> s, role |-> r, direct |-> TRUE]
  BY <1>4
<1>6. u.site = s
  BY <1>5
<1>7. \E b \in blocks \cap Branches(body) : Enforces(c, body, blocks, s, b)
  <2>1. {b \in blocks \cap Branches(body) : Enforces(c, body, blocks, s, b)} # {}
    BY Zenon DEF GuardEnforced
  <2> HIDE DEF blocks, body
  <2>2. QED
    BY <2>1
<1>8. SiteCallees(CallAt(body, s)) \cap DOMAIN c.guards # {}
  BY <1>4 DEF called
<1> HIDE DEF body, blocks
<1>9. /\ u.site \in Sites(body) /\ u.site[1] \in blocks
      /\ SiteCallees(CallAt(body, u.site)) \cap DOMAIN c.guards # {}
      /\ \E b \in blocks \cap Branches(body) : Enforces(c, body, blocks, u.site, b)
  BY <1>2, <1>6, <1>7, <1>8
<1>10. QED
  BY <1>9 DEF body, blocks

LEMMA DirectUse ==
  ASSUME program \in Programs, NEW m, verdict = Verdict(m),
         NEW f \in DOMAIN code, NEW u \in verdict.uses[f]
  PROVE  /\ f \in Range(program.route)
         /\ u.site \in Sites(code[f]) /\ u.site[1] \in ReachableFor(code[f], m)
         /\ SiteCallees(CallAt(code[f], u.site)) \cap verdict.guards # {}
         /\ \E b \in ReachableFor(code[f], m) \cap Branches(code[f]) :
              Enforces(Classifier(code), code[f], ReachableFor(code[f], m), u.site, b)
<1> DEFINE c == Classifier(code)
           outer(inner) == [g \in DOMAIN Functions |-> GuardUses(c, m, inner, g)]
<1>1. f \in Range(program.route) /\ u \in Required(c, m)[f] /\ u.direct
  BY VerdictIs
<1>2. \E inner : Required(c, m) = outer(inner)
  BY DEF Required
<1>3. PICK inner : Required(c, m) = outer(inner)
  BY <1>2
<1>4. u \in GuardUses(c, m, inner, f)
  BY <1>1, <1>3, CodeShape
<1>5. c.code = code /\ DOMAIN c.guards = verdict.guards
  BY VerdictIs DEF Classifier
<1> HIDE DEF c
<1>6. /\ u.site \in Sites(c.code[f]) /\ u.site[1] \in ReachableFor(c.code[f], m)
      /\ SiteCallees(CallAt(c.code[f], u.site)) \cap DOMAIN c.guards # {}
      /\ \E b \in ReachableFor(c.code[f], m) \cap Branches(c.code[f]) :
           Enforces(c, c.code[f], ReachableFor(c.code[f], m), u.site, b)
  BY <1>1, <1>4, UseOfGuard
<1>7. QED
  BY <1>1, <1>5, <1>6 DEF c

-----------------------------------------------------------------------------
(***************************************************************************)
(* One activation: what the invariant says of it holds when its function   *)
(* is entered, after a call of it returned and after a branch.             *)
(***************************************************************************)
LEMMA BodiesAre ==
  ASSUME TypeOK, NEW a \in Activations
  PROVE  /\ a.fn \in DOMAIN code /\ a.fn \in DOMAIN Functions
         /\ a.block \in Nat /\ a.at \in Nat
         /\ a.called \in SUBSET (Nat \X Nat) /\ a.failed \in SUBSET (Nat \X Nat)
         /\ IsBody(Body(a), DOMAIN Functions)
BY CodeShape DEF TypeOK, Activations, Body

LEMMA PlacedCalls ==
  ASSUME TypeOK, NEW a \in Activations, Placed(a)
  PROVE  /\ a.block \in Blocks(Body(a))
         /\ Calls(a) \in Seq(DOMAIN Functions) /\ Len(Calls(a)) \in Nat
         /\ a.at <= Len(Calls(a)) =>
              /\ Site(a) \in Sites(Body(a)) /\ CallAt(Body(a), Site(a)) = Calls(a)[a.at]
              /\ Calls(a)[a.at] \in DOMAIN Functions
<1>1. IsBody(Body(a), DOMAIN Functions) /\ a.fn \in DOMAIN code
  BY BodiesAre
<1>2. a.block \in Blocks(Body(a)) /\ a.at \in 1..(Len(Calls(a)) + 1)
  BY DEF Placed
<1>3. Calls(a) \in Seq(DOMAIN Functions)
  BY <1>1, <1>2, BodyShape DEF Calls
<1>4. ASSUME a.at <= Len(Calls(a))
      PROVE  /\ Site(a) \in Sites(Body(a)) /\ CallAt(Body(a), Site(a)) = Calls(a)[a.at]
             /\ Calls(a)[a.at] \in DOMAIN Functions
  <2>1. a.at \in 1..Len(Calls(a))
    BY <1>2, <1>3, <1>4
  <2>2. Site(a) \in Sites(Body(a)) /\ CallAt(Body(a), Site(a)) = Calls(a)[a.at]
    BY <1>1, <1>2, <2>1, SitesAre DEF Site, Body, Calls, TypeOK
  <2>3. QED
    BY <1>3, <2>1, <2>2
<1>5. QED
  BY <1>2, <1>3, <1>4

LEMMA FreshGood ==
  ASSUME TypeOK, NEW f \in DOMAIN code, OnRoute(Frame(f))
  PROVE  Frame(f) \in Activations /\ Good(Frame(f))
<1> DEFINE a == Frame(f)
<1>1. a \in Activations /\ a.fn = f /\ a.block = 1 /\ a.at = 1 /\ a.called = {} /\ a.failed = {}
  BY DEF Frame, Activations
<1> HIDE DEF a
<1>2. IsBody(Body(a), DOMAIN Functions) /\ Body(a) = code[f]
  BY <1>1, BodiesAre DEF Body
<1>3. Placed(a)
  <2>1. 1 \in Blocks(Body(a)) /\ Body(a)[1].calls \in Seq(DOMAIN Functions)
    BY <1>2, BodyShape
  <2>2. Calls(a) = Body(a)[1].calls /\ Len(Calls(a)) \in Nat
    BY <1>1, <2>1 DEF Calls
  <2>3. QED
    BY <1>1, <2>1, <2>2 DEF Placed
<1>4. Scoped(a)
  BY <1>1, <1>2, ReachableForStarts DEF Scoped
<1>5. CalledOnTheWay(a)
  <2>1. ASSUME NEW s \in Sites(Body(a)), s[1] = 1
        PROVE  a.block = s[1] /\ a.at <= s[2]
    <3>1. s[2] \in 1..Len(code[f][s[1]].calls)
      BY <1>2, SiteCalls DEF TypeOK
    <3>2. code[f][s[1]].calls \in Seq(DOMAIN Functions)
      BY <1>2, <2>1, BodyShape
    <3>3. QED
      BY <1>1, <2>1, <3>1, <3>2
  <2>2. ASSUME NEW s \in Sites(Body(a)), s[1] # 1
        PROVE  a.block \in Avoiding(Body(a), s[1])
    BY <1>1, <1>2, <2>2, AvoidingStarts
  <2>3. QED
    BY <2>1, <2>2 DEF CalledOnTheWay
<1>6. Denied(a)
  BY <1>1 DEF Denied
<1>7. QED
  BY <1>1, <1>3, <1>4, <1>5, <1>6 DEF Good, a

LEMMA AnsweredGood ==
  ASSUME TypeOK, NEW a \in Activations, Good(a), a.at <= Len(Calls(a)), NEW passed \in BOOLEAN
  PROVE  Answered(a, passed) \in Activations /\ Good(Answered(a, passed))
<1> DEFINE b == Answered(a, passed)
<1>1. a.block \in Nat /\ a.at \in Nat /\ a.called \in SUBSET (Nat \X Nat) /\ a.failed \in SUBSET (Nat \X Nat)
  BY BodiesAre
<1>2. /\ b.fn = a.fn /\ b.block = a.block /\ b.at = a.at + 1
      /\ b.called = a.called \cup {Site(a)}
      /\ b.failed = IF passed THEN a.failed \ {Site(a)} ELSE a.failed \cup {Site(a)}
  BY DEF Answered, Activations
<1>3. Site(a) \in Nat \X Nat
  BY <1>1 DEF Site
<1>4. b \in Activations
  <2>1. a.called \cup {Site(a)} \in SUBSET (Nat \X Nat)
    BY <1>1, <1>3
  <2>2. (IF passed THEN a.failed \ {Site(a)} ELSE a.failed \cup {Site(a)}) \in SUBSET (Nat \X Nat)
    BY <1>1, <1>3
  <2>3. PICK c \in SUBSET (Nat \X Nat), d \in SUBSET (Nat \X Nat) :
          /\ c = a.called \cup {Site(a)}
          /\ d = IF passed THEN a.failed \ {Site(a)} ELSE a.failed \cup {Site(a)}
    BY <2>1, <2>2
  <2>4. b = [a EXCEPT !.at = a.at + 1, !.called = c, !.failed = d]
    BY <2>3, Zenon DEF Answered
  <2>5. PICK D, P : D = DOMAIN code /\ P = SUBSET (Nat \X Nat)
    OBVIOUS
  <2>6. a \in [fn : D, block : Nat, at : Nat, called : P, failed : P] /\ c \in P /\ d \in P
    BY <2>5 DEF Activations
  <2>7. a.at + 1 \in Nat
    BY <1>1
  <2>8. [a EXCEPT !.at = a.at + 1, !.called = c, !.failed = d]
          \in [fn : D, block : Nat, at : Nat, called : P, failed : P]
    BY <2>6, <2>7
  <2>9. QED
    BY <2>4, <2>5, <2>8 DEF Activations
<1>5. Body(b) = Body(a) /\ Calls(b) = Calls(a) /\ Uses(b) = Uses(a)
  BY <1>2 DEF Body, Calls, Uses
<1> HIDE DEF b
<1>6. Placed(b)
  BY <1>2, <1>5, PlacedCalls DEF Good, Placed
<1>7. Scoped(b) /\ OnRoute(b)
  BY <1>2, <1>5 DEF Good, Scoped, OnRoute
<1>8. CalledOnTheWay(b)
  <2>1. ASSUME NEW s \in Sites(Body(b)), s \notin b.called, b.block \notin Avoiding(Body(b), s[1])
        PROVE  b.block = s[1] /\ b.at <= s[2]
    <3>1. s \in Sites(Body(a)) /\ s \notin a.called /\ a.block \notin Avoiding(Body(a), s[1])
      BY <1>2, <1>5, <2>1
    <3>2. a.block = s[1] /\ a.at <= s[2]
      BY <3>1 DEF Good, CalledOnTheWay
    <3>3. s = <<s[1], s[2]>> /\ s[2] \in Nat
      BY <3>1, BodiesAre, SiteCalls DEF Body, TypeOK
    <3>4. s[2] # a.at
      BY <1>2, <2>1, <3>2, <3>3 DEF Site
    <3>5. QED
      BY <1>1, <1>2, <3>2, <3>3, <3>4
  <2>2. QED
    BY <2>1 DEF CalledOnTheWay
<1>9. Denied(b)
  <2>1. ASSUME NEW u \in Uses(b), TestedAtOnce(Body(b), u.site), u.site \in b.failed
        PROVE  b.block \in Denial(Body(b), u.site[1]) \/ (b.block = u.site[1] /\ b.at > u.site[2])
    <3>1. CASE u.site \in a.failed
      <4>1. a.block \in Denial(Body(a), u.site[1]) \/ (a.block = u.site[1] /\ a.at > u.site[2])
        BY <1>5, <2>1, <3>1 DEF Good, Denied
      <4>2. u.site[2] \in Nat
        BY <1>1, <3>1
      <4>3. QED
        BY <1>1, <1>2, <1>5, <4>1, <4>2
    <3>2. CASE u.site = Site(a)
      BY <1>1, <1>2, <3>2 DEF Site
    <3>3. QED
      BY <1>2, <2>1, <3>1, <3>2
  <2>2. QED
    BY <2>1 DEF Denied
<1>10. QED
  BY <1>4, <1>6, <1>7, <1>8, <1>9 DEF Good, b

\* The successor that a failed result leads to is the one that denies.
LEMMA FailedIsDenied ==
  ASSUME TypeOK, NEW a \in Activations, Placed(a), NEW u \in Uses(a),
         TestedAtOnce(Body(a), u.site)
  PROVE  LET body == Body(a)  b == u.site[1]
         IN  /\ b \in Branches(body) /\ body[b].cond.kind = "ok" /\ body[b].cond.call = u.site
             /\ body[b].cond.op \in {"value", "not", "eq", "neq"}
             /\ Deny(body, b) = body[b].succs[IF body[b].cond.op \in {"value", "eq"} THEN 2 ELSE 1]
             /\ Deny(body, b) \in Denial(body, b)
             /\ \A c \in Denial(body, b) : Range(body[c].succs) \subseteq Denial(body, b)
<1> DEFINE body == Body(a)
<1>1. IsBody(body, DOMAIN Functions) /\ a.fn \in DOMAIN code
  BY BodiesAre
<1>2. PICK m : verdict = Verdict(m)
  BY DEF TypeOK
<1>3. \E b \in ReachableFor(body, m) \cap Branches(body) :
        Enforces(Classifier(code), body, ReachableFor(body, m), u.site, b)
  <2>1. u \in verdict.uses[a.fn]
    BY DEF Uses
  <2>2. QED
    BY <1>1, <1>2, <2>1, DirectUse DEF Body, TypeOK
<1> HIDE DEF body
<1>4. PICK b \in Branches(body) :
        /\ body[b].cond.kind = "ok" /\ body[b].cond.call = u.site
        /\ Exits(body, Deny(body, b), Allow(body, b))
  BY <1>3 DEF Enforces
<1>5. b = u.site[1]
  BY <1>4 DEF TestedAtOnce, body
<1>6. /\ b \in Blocks(body) /\ body[b].cond \in Conditions
      /\ body[b].succs \in Seq(Blocks(body)) /\ Len(body[b].succs) = 2
  BY <1>1, <1>4, BodyShape DEF Branches
<1>7. body[b].cond.op \in {"value", "not", "eq", "neq"}
  BY <1>4, <1>6 DEF Conditions
<1>8. DenySuccessor(body[b].cond) = (IF body[b].cond.op \in {"value", "eq"} THEN 2 ELSE 1)
  BY <1>7 DEF DenySuccessor
<1>9. Deny(body, b) \in Blocks(body) /\ Allow(body, b) \in Blocks(body)
  BY <1>6, <1>8 DEF Deny, Allow
<1>10. /\ Deny(body, b) \in Denial(body, b)
       /\ \A c \in Denial(body, b) : Range(body[c].succs) \subseteq Denial(body, b)
  BY <1>1, <1>4, <1>9, DenialIsClosed DEF Denial
<1>11. Deny(body, b) = body[b].succs[IF body[b].cond.op \in {"value", "eq"} THEN 2 ELSE 1]
  BY <1>8 DEF Deny
<1>12. QED
  BY <1>4, <1>5, <1>7, <1>10, <1>11 DEF body

LEMMA JumpedGood ==
  ASSUME TypeOK, NEW a \in Activations, Good(a), a.at > Len(Calls(a)),
         NEW i \in DOMAIN Body(a)[a.block].succs,
         Body(a)[a.block].cond.kind = "method" => i = Decided(Body(a), a.block, method),
         Body(a)[a.block].cond.kind = "ok"
           => i = IF (Body(a)[a.block].cond.call \notin a.failed)
                     = (Body(a)[a.block].cond.op \in {"value", "eq"}) THEN 1 ELSE 2
  PROVE  LET b == [a EXCEPT !.block = Body(a)[a.block].succs[i], !.at = 1]
         IN  b \in Activations /\ Good(b)
<1> DEFINE body == Body(a)
           d == body[a.block].succs[i]
<1>1. IsBody(body, DOMAIN Functions) /\ a.fn \in DOMAIN code /\ body = code[a.fn]
  BY BodiesAre DEF Body
<1>2. a.block \in Blocks(body) /\ Len(Calls(a)) \in Nat /\ a.at \in Nat
  BY BodiesAre, PlacedCalls DEF Good
<1>3. d \in Blocks(body) /\ d \in Range(body[a.block].succs) /\ d \in Nat
  BY <1>1, <1>2, BodyShape, SMTT(60) DEF Range
<1>4. PICK e : e = d
  OBVIOUS
<1>5. PICK b : b = [a EXCEPT !.block = e, !.at = 1]
  OBVIOUS
<1>6. b \in Activations
  <2>1. PICK D, P : D = DOMAIN code /\ P = SUBSET (Nat \X Nat)
    OBVIOUS
  <2>2. a \in [fn : D, block : Nat, at : Nat, called : P, failed : P] /\ e \in Nat
    BY <1>3, <1>4, <2>1 DEF Activations
  <2>3. b \in [fn : D, block : Nat, at : Nat, called : P, failed : P]
    BY <1>5, <2>2
  <2>4. QED
    BY <2>1, <2>3 DEF Activations
<1>7. b.fn = a.fn /\ b.block = d /\ b.at = 1 /\ b.called = a.called /\ b.failed = a.failed
  BY <1>4, <1>5 DEF Activations
<1>8. Body(b) = body /\ Uses(b) = Uses(a)
  BY <1>7 DEF Body, Uses
<1> HIDE DEF d
<1>9. Placed(b)
  <2>1. body[d].calls \in Seq(DOMAIN Functions)
    BY <1>1, <1>3, BodyShape
  <2>2. Calls(b) = body[d].calls /\ Len(Calls(b)) \in Nat
    BY <1>7, <1>8, <2>1 DEF Calls
  <2>3. QED
    BY <1>3, <1>7, <1>8, <2>2 DEF Placed
<1>10. Scoped(b)
  <2>1. a.block \in ReachableFor(body, method)
    BY DEF Good, Scoped
  <2>2. a.block \in MethodConditions(body) /\ method # "ANY" => i = Decided(body, a.block, method)
    BY DEF MethodConditions
  <2> HIDE DEF body
  <2>3. body[a.block].succs[i] \in ReachableFor(body, method)
    BY <1>1, <1>2, <2>1, <2>2, ReachableForStep DEF body
  <2>4. QED
    BY <1>7, <1>8, <2>3 DEF Scoped, d
<1>11. OnRoute(b)
  BY <1>7 DEF Good, OnRoute
<1>12. CalledOnTheWay(b)
  <2>1. ASSUME NEW s \in Sites(body), s \notin a.called
        PROVE  d \in Avoiding(body, s[1]) \/ (d = s[1] /\ 1 <= s[2])
    <3>1. s[2] \in 1..Len(code[a.fn][s[1]].calls) /\ s[1] \in Blocks(body)
      BY <1>1, SiteCalls DEF TypeOK
    <3>2. body[s[1]].calls \in Seq(DOMAIN Functions)
      BY <1>1, <3>1, BodyShape
    <3>3. s[2] \in Nat /\ 1 <= s[2] /\ s[2] <= Len(body[s[1]].calls)
      BY <1>1, <3>1, <3>2
    <3>4. a.block \in Avoiding(body, s[1]) \/ (a.block = s[1] /\ a.at <= s[2])
      BY <2>1 DEF Good, CalledOnTheWay
    <3>5. a.block # s[1] \/ a.at > s[2]
      <4>1. CASE a.block = s[1]
        <5>1. Len(body[s[1]].calls) = Len(Calls(a))
          BY <4>1 DEF Calls
        <5>2. QED
          BY <1>2, <3>3, <5>1
      <4>2. QED
        BY <4>1
    <3>6. a.block \in Avoiding(body, s[1])
      BY <1>2, <3>3, <3>4, <3>5
    <3>7. QED
      BY <1>1, <1>3, <3>3, <3>6, AvoidingStep
  <2>2. QED
    BY <1>7, <1>8, <2>1 DEF CalledOnTheWay
<1>13. Denied(b)
  <2>1. ASSUME NEW u \in Uses(a), TestedAtOnce(body, u.site), u.site \in a.failed
        PROVE  d \in Denial(body, u.site[1])
    <3>1. Placed(a)
      BY DEF Good
    <3> DEFINE q == u.site[1]
    <3>2. /\ body[q].cond.kind = "ok" /\ body[q].cond.call = u.site
          /\ body[q].cond.op \in {"value", "not", "eq", "neq"}
          /\ Deny(body, q) = body[q].succs[IF body[q].cond.op \in {"value", "eq"} THEN 2 ELSE 1]
          /\ Deny(body, q) \in Denial(body, q)
          /\ \A c \in Denial(body, q) : Range(body[c].succs) \subseteq Denial(body, q)
      BY <2>1, <3>1, FailedIsDenied
    <3>3. a.block \in Denial(body, q) \/ a.block = q
      BY <2>1 DEF Good, Denied
    <3>4. CASE a.block \in Denial(body, q)
      BY <1>3, <3>2, <3>4
    <3>5. CASE a.block = q
      <4>1. i = IF (body[q].cond.call \notin a.failed) = (body[q].cond.op \in {"value", "eq"}) THEN 1 ELSE 2
        BY <3>2, <3>5
      <4>2. i = IF body[q].cond.op \in {"value", "eq"} THEN 2 ELSE 1
        BY <2>1, <3>2, <4>1
      <4>3. d = Deny(body, q)
        BY <3>2, <3>5, <4>2 DEF d
      <4>4. QED
        BY <3>2, <4>3
    <3>6. QED
      BY <3>3, <3>4, <3>5
  <2>2. QED
    BY <1>7, <1>8, <2>1 DEF Denied
<1>14. Good(b)
  BY <1>9, <1>10, <1>11, <1>12, <1>13 DEF Good
<1>15. QED
  BY <1>4, <1>5, <1>6, <1>14 DEF d

-----------------------------------------------------------------------------
\* What a function runs leads to functions.
LEMMA BelowLeads ==
  ASSUME TypeOK, NEW m
  PROVE  Leads([g \in DOMAIN Functions |->
                 UNION {Through(Classifier(code), h) : h \in Ran(Classifier(code), m, g)}])
<1> DEFINE c == Classifier(code)
<1>1. c.code = code
  BY DEF Classifier
<1> HIDE DEF c
<1>2. ASSUME NEW g \in DOMAIN Functions PROVE Ran(c, m, g) \subseteq DOMAIN Functions
  <2>1. CASE g \notin DOMAIN code
    BY <1>1, <2>1 DEF Ran
  <2>2. CASE g \in DOMAIN code
    <3>1. \A s \in Sites(code[g]) : SiteCallees(CallAt(code[g], s)) \subseteq DOMAIN Functions
      BY <2>2, SiteCalls, Called DEF TypeOK
    <3>2. QED
      BY <1>1, <2>2, <3>1 DEF Ran
  <2>3. QED
    BY <2>1, <2>2
<1>3. ASSUME NEW h \in DOMAIN Functions PROVE Through(c, h) \subseteq DOMAIN Functions
  <2>1. CASE Functions[h].module
    BY <2>1 DEF Through
  <2>2. CASE ~Functions[h].module
    <3>1. h \notin DOMAIN code
      BY <2>2, CodeShape DEF TypeOK
    <3>2. Callees(code, h) = Functions[h].calls
      BY <3>1 DEF Callees
    <3>3. Functions[h].calls \subseteq DOMAIN Functions
      BY FunctionsAssumption
    <3>4. QED
      BY <1>1, <2>2, <3>2, <3>3 DEF Through
  <2>3. QED
    BY <2>1, <2>2
<1>4. IsFiniteSet(DOMAIN Functions)
  BY FunctionsAssumption
<1>5. QED
  BY <1>2, <1>3, <1>4 DEF Leads, c

LEMMA RouteBelow ==
  ASSUME TypeOK, NEW f \in Range(program.route), NEW m
  PROVE  f \in Below(Classifier(code), m, f)
<1>1. f \in DOMAIN Functions
  BY CodeShape DEF TypeOK
<1>2. QED
  BY <1>1, BelowLeads, ClosureStarts DEF Below

LEMMA RanBelow ==
  ASSUME TypeOK, NEW m, NEW f \in Range(program.route), NEW g \in Below(Classifier(code), m, f),
         NEW h \in Ran(Classifier(code), m, g)
  PROVE  Through(Classifier(code), h) \subseteq Below(Classifier(code), m, f)
<1> DEFINE c == Classifier(code)
           next == [k \in DOMAIN Functions |-> UNION {Through(c, j) : j \in Ran(c, m, k)}]
<1>1. Leads(next) /\ {f} \in SUBSET DOMAIN next
  BY BelowLeads, CodeShape DEF TypeOK
<1> HIDE DEF c
<1>2. g \in Closure({f}, next) /\ g \in DOMAIN Functions
  BY <1>1, ClosureStarts DEF Below, c
<1>3. next[g] \subseteq Closure({f}, next)
  BY <1>1, <1>2, ClosureClosed
<1>4. Through(c, h) \subseteq next[g]
  BY <1>2 DEF c
<1>5. QED
  BY <1>3, <1>4 DEF Below, c

\* What runs for the request's method runs for its route's.
LEMMA RunsForRoute ==
  ASSUME TypeOK, NEW a \in Activations, Placed(a), Scoped(a)
  PROVE  a.block \in ReachableFor(Body(a), verdict.method)
<1>1. PICK m \in RouteMethods(method) : verdict = Verdict(m)
  BY DEF TypeOK
<1>2. verdict.method \in {method, "ANY"}
  BY <1>1, VerdictIs, MethodsAssumption DEF TypeOK
<1>3. a.block \in ReachableFor(Body(a), "ANY")
  BY DEF Placed, ReachableFor
<1>4. QED
  BY <1>2, <1>3 DEF Scoped

LEMMA CallsRun ==
  ASSUME TypeOK, NEW a \in Activations, Good(a), a.at <= Len(Calls(a))
  PROVE  SiteCallees(Calls(a)[a.at]) \subseteq Ran(Classifier(code), verdict.method, a.fn)
<1> DEFINE m == verdict.method
           s == Site(a)
<1>1. /\ s \in Sites(Body(a)) /\ CallAt(Body(a), s) = Calls(a)[a.at]
      /\ a.fn \in DOMAIN code /\ Body(a) = code[a.fn]
  BY PlacedCalls, BodiesAre DEF Good, Body
<1>2. s[1] \in ReachableFor(code[a.fn], m)
  BY <1>1, RunsForRoute DEF Good, Site
<1> HIDE DEF s, m
<1>3. s \in {t \in Sites(code[a.fn]) : t[1] \in ReachableFor(code[a.fn], m)}
  BY <1>1, <1>2
<1>4. Ran(Classifier(code), m, a.fn) =
        UNION {SiteCallees(CallAt(code[a.fn], t)) :
                 t \in {t \in Sites(code[a.fn]) : t[1] \in ReachableFor(code[a.fn], m)}}
  BY <1>1 DEF Ran, Classifier
<1>5. QED
  BY <1>1, <1>3, <1>4 DEF m

LEMMA EnteredOnRoute ==
  ASSUME TypeOK, NEW a \in Activations, Good(a), a.at <= Len(Calls(a)),
         NEW g \in SiteCallees(Calls(a)[a.at]), NEW f \in Entered(g)
  PROVE  f \in DOMAIN code /\ OnRoute(Frame(f))
<1> DEFINE m == verdict.method
           c == Classifier(code)
<1>1. f \in DOMAIN code /\ Frame(f).fn = f
  BY DEF Entered, Frame
<1>2. g \in Ran(c, m, a.fn)
  BY CallsRun
<1>3. PICK r \in Range(program.route) : a.fn \in Below(c, m, r)
  BY DEF Good, OnRoute
<1>4. Through(c, g) \subseteq Below(c, m, r)
  BY <1>2, <1>3, RanBelow
<1>5. g \in DOMAIN Functions
  BY PlacedCalls, Called DEF Good, TypeOK
<1>6. \E q \in Range(program.route) : f \in Below(c, m, q)
  <2>1. CASE g \in DOMAIN code
    <3>1. f = g /\ Functions[g].module
      BY <2>1, CodeShape DEF Entered, TypeOK
    <3>2. f \in Through(c, g)
      BY <3>1 DEF Through
    <3>3. QED
      BY <1>4, <3>2
  <2>2. CASE g \notin DOMAIN code
    <3>1. f \in Functions[g].calls
      BY <2>2 DEF Entered
    <3>2. Functions[f].module
      BY <1>1, CodeShape DEF TypeOK
    <3>3. ~Functions[g].module
      BY <1>5, <3>1, FunctionsAssumption
    <3>4. CASE DispatchesChain(g)
      <4>1. f \in Range(program.route)
        BY <1>1, <1>5, <3>1, <3>4, ProgramsAssumption DEF TypeOK, code
      <4>2. QED
        BY <4>1, RouteBelow
    <3>5. CASE ~DispatchesChain(g)
      <4>1. c.code = code
        BY DEF Classifier
      <4>2. f \in Callees(c.code, g)
        BY <2>2, <3>1, <4>1 DEF Callees
      <4>3. f \in Through(c, g)
        BY <3>2, <3>3, <3>5, <4>2 DEF Through
      <4>4. QED
        BY <1>4, <4>3
    <3>6. QED
      BY <3>4, <3>5
  <2>3. QED
    BY <2>1, <2>2
<1>7. QED
  BY <1>1, <1>6 DEF OnRoute

-----------------------------------------------------------------------------
(***************************************************************************)
(* The invariant is inductive.                                             *)
(***************************************************************************)
LEMMA Unchanged ==
  ASSUME UNCHANGED <<program, method, verdict>>, NEW a, NEW by
  PROVE  /\ Good(a)' = Good(a) /\ Waits(by, a)' = Waits(by, a)
         /\ Activations' = Activations
<1>1. code' = code
  BY DEF code
<1>2. Body(a)' = Body(a) /\ Calls(a)' = Calls(a) /\ Uses(a)' = Uses(a) /\ Calls(by)' = Calls(by)
  BY <1>1 DEF Body, Calls, Uses
<1>3. Placed(a)' = Placed(a) /\ Scoped(a)' = Scoped(a)
  BY <1>2 DEF Placed, Scoped
<1>4. CalledOnTheWay(a)' = CalledOnTheWay(a)
  BY <1>2 DEF CalledOnTheWay
<1>5. Denied(a)' = Denied(a)
  BY <1>2 DEF Denied, TestedAtOnce
<1>6. OnRoute(a)' = OnRoute(a)
  BY <1>1 DEF OnRoute
<1>7. Waits(by, a)' = Waits(by, a)
  BY <1>1, <1>2 DEF Waits, Entered
<1>8. Activations' = Activations
  BY <1>1 DEF Activations
<1>9. QED
  BY <1>3, <1>4, <1>5, <1>6, <1>7, <1>8 DEF Good

\* A stack of good activations, each at the call that runs the one above it,
\* the route's first function at the bottom.
Chained(s) ==
  /\ s \in Seq(Activations)
  /\ \A i \in DOMAIN s : Good(s[i])
  /\ s # <<>> => s[Len(s)].fn = program.route[1]
  /\ \A i \in 2..Len(s) : Waits(s[i], s[i-1])

LEMMA StepsStack ==
  ASSUME TypeOK, UNCHANGED <<program, method, verdict>>, NEW s, Chained(s), stack' = s
  PROVE  IInv'
<1>1. s \in Seq(Activations) /\ \A i \in DOMAIN s : s[i] \in Activations
  BY DEF Chained
<1>2. TypeOK'
  <2>1. \A m : Verdict(m)' = Verdict(m)
    BY DEF Verdict, code
  <2>2. (stack \in Seq(Activations))'
    BY <1>1, Unchanged
  <2>3. QED
    BY <2>1, <2>2 DEF TypeOK
<1>3. (\A i \in DOMAIN stack : Good(stack[i]))'
  <2>1. \A a : Good(a)' = Good(a)
    BY Unchanged
  <2>2. \A i \in DOMAIN s : Good(s[i])'
    BY <2>1 DEF Chained
  <2>3. QED
    BY <2>2
<1>4. (\A i \in Above : Waits(stack[i], stack[i-1]))'
  <2>1. \A a, by : Waits(by, a)' = Waits(by, a)
    BY Unchanged
  <2>2. \A i \in 2..Len(s) : Waits(s[i], s[i-1])'
    BY <2>1 DEF Chained
  <2>3. QED
    BY <2>2 DEF Above
<1>5. (stack # <<>> => stack[Len(stack)].fn = program.route[1])'
  BY DEF Chained
<1>6. QED
  BY <1>2, <1>3, <1>4, <1>5 DEF IInv

LEMMA TailChained ==
  ASSUME NEW s, Chained(s), s # <<>>
  PROVE  Chained(Tail(s))
<1>1. s \in Seq(Activations)
  BY DEF Chained
<1>2. /\ Tail(s) \in Seq(Activations) /\ Len(Tail(s)) = Len(s) - 1 /\ Len(s) \in Nat
      /\ \A i \in 1..Len(Tail(s)) : Tail(s)[i] = s[i+1] /\ i + 1 \in 1..Len(s)
  BY <1>1
<1>3. \A i \in DOMAIN Tail(s) : Good(Tail(s)[i])
  BY <1>1, <1>2 DEF Chained
<1>4. ASSUME NEW i \in 2..Len(Tail(s)) PROVE Waits(Tail(s)[i], Tail(s)[i-1])
  <2>1. Tail(s)[i] = s[i+1] /\ Tail(s)[i-1] = s[i] /\ i + 1 \in 2..Len(s) /\ (i + 1) - 1 = i
    BY <1>2
  <2>2. Waits(s[i+1], s[(i+1)-1])
    BY <2>1 DEF Chained
  <2>3. QED
    BY <2>1, <2>2
<1>5. ASSUME Tail(s) # <<>> PROVE Tail(s)[Len(Tail(s))].fn = program.route[1]
  <2>1. Len(Tail(s)) \in 1..Len(Tail(s)) /\ Len(Tail(s)) + 1 = Len(s)
    BY <1>2, <1>5
  <2>2. QED
    BY <1>2, <2>1 DEF Chained
<1>6. QED
  BY <1>2, <1>3, <1>4, <1>5 DEF Chained

LEMMA PushChained ==
  ASSUME NEW s, Chained(s), NEW a \in Activations, Good(a), s # <<>> => Waits(s[1], a),
         s = <<>> => a.fn = program.route[1]
  PROVE  Chained(<<a>> \o s)
<1> DEFINE t == <<a>> \o s
<1>1. s \in Seq(Activations) /\ Len(s) \in Nat
  BY DEF Chained
<1>2. /\ t \in Seq(Activations) /\ Len(t) = Len(s) + 1 /\ t[1] = a
      /\ \A i \in 2..Len(t) : t[i] = s[i-1] /\ i - 1 \in 1..Len(s)
  BY <1>1
<1> HIDE DEF t
<1>3. ASSUME NEW i \in DOMAIN t PROVE Good(t[i])
  <2>1. i = 1 \/ i \in 2..Len(t)
    BY <1>2
  <2>2. QED
    BY <1>1, <1>2, <2>1 DEF Chained
<1>4. ASSUME NEW i \in 2..Len(t) PROVE Waits(t[i], t[i-1])
  <2>1. CASE i = 2
    <3>1. s # <<>> /\ t[2] = s[1]
      BY <1>1, <1>2, <2>1
    <3>2. QED
      BY <1>2, <2>1, <3>1
  <2>2. CASE i # 2
    <3>1. i - 1 \in 2..Len(t) /\ i - 1 \in 2..Len(s)
      BY <1>1, <1>2, <2>2
    <3>2. t[i] = s[i-1] /\ t[i-1] = s[(i-1)-1]
      BY <1>2, <3>1
    <3>3. QED
      BY <3>1, <3>2 DEF Chained
  <2>3. QED
    BY <2>1, <2>2
<1>5. t[Len(t)].fn = program.route[1]
  <2>1. CASE s = <<>>
    BY <1>2, <2>1
  <2>2. CASE s # <<>>
    <3>1. Len(t) \in 2..Len(t) /\ Len(t) - 1 = Len(s)
      BY <1>1, <1>2, <2>2
    <3>2. QED
      BY <1>2, <2>2, <3>1 DEF Chained
  <2>3. QED
    BY <2>1, <2>2
<1>6. QED
  BY <1>2, <1>3, <1>4, <1>5 DEF Chained, t

LEMMA CallerIs ==
  ASSUME NEW S, NEW s \in Seq(S), s # <<>>, Len(s) # 1
  PROVE  Tail(s) # <<>> /\ Tail(s)[1] = s[2] /\ 2 \in 2..Len(s) /\ 2 \in DOMAIN s
<1>1. Tail(s) \in Seq(S) /\ Len(Tail(s)) = Len(s) - 1
  BY HeadTailProperties
<1>2. Len(s) \in Nat /\ Len(s) # 0 /\ DOMAIN s = 1..Len(s)
  BY EmptySeq
<1>3. \A i \in 1..Len(Tail(s)) : Tail(s)[i] = s[i+1]
  BY HeadTailProperties
<1>4. PICK n \in Nat : n = Len(s)
  BY <1>2
<1>5. n >= 2
  BY <1>2, <1>4
<1>6. 1 \in 1..Len(Tail(s)) /\ 1 + 1 = 2
  BY <1>1, <1>4, <1>5
<1>7. Tail(s)[1] = s[2]
  BY <1>3, <1>6
<1>8. Tail(s) # <<>>
  <2>1. Tail(s) = <<>> <=> Len(Tail(s)) = 0
    BY <1>1, EmptySeq
  <2>2. Len(Tail(s)) # 0
    BY <1>1, <1>4, <1>5
  <2>3. QED
    BY <2>1, <2>2
<1>9. 2 \in 2..n /\ 2 \in 1..n
  BY <1>5
<1>10. QED
  BY <1>2, <1>4, <1>7, <1>8, <1>9

\* The activation on top goes on.
LEMMA TopChained ==
  ASSUME NEW s, Chained(s), s # <<>>, NEW a \in Activations, Good(a), a.fn = s[1].fn
  PROVE  Chained(<<a>> \o Tail(s))
<1>1. s \in Seq(Activations)
  BY DEF Chained
<1>2. Chained(Tail(s))
  BY TailChained
<1>3. ASSUME Tail(s) # <<>> PROVE Waits(Tail(s)[1], a)
  <2>1. Tail(s)[1] = s[2] /\ 2 \in 2..Len(s) /\ 2 - 1 = 1
    BY <1>1, <1>3
  <2>2. Waits(s[2], s[1])
    BY <2>1 DEF Chained
  <2>3. QED
    BY <2>1, <2>2 DEF Waits
<1>4. Tail(s) = <<>> => a.fn = program.route[1]
  <2>1. Tail(s) = <<>> => Len(s) = 1
    <3>1. Len(s) \in Nat /\ Len(s) # 1 => Tail(s) # <<>>
      BY <1>1, CallerIs
    <3>2. QED
      BY <1>1, <3>1
  <2>2. QED
    BY <2>1 DEF Chained
<1>5. QED
  BY <1>2, <1>3, <1>4, PushChained

LEMMA TopIs ==
  ASSUME IInv, stack # <<>>
  PROVE  /\ Chained(stack) /\ Top = stack[1] /\ Top \in Activations /\ Good(Top)
         /\ Len(Calls(Top)) \in Nat /\ Top.at \in Nat
<1>1. Chained(stack)
  BY DEF IInv, TypeOK, Chained, Above
<1>2. Top = stack[1] /\ Top \in Activations /\ 1 \in DOMAIN stack
  BY DEF IInv, TypeOK, Top
<1>3. Good(Top)
  BY <1>2 DEF IInv
<1>4. Len(Calls(Top)) \in Nat /\ Top.at \in Nat
  BY <1>2, <1>3, PlacedCalls, BodiesAre DEF Good, IInv
<1>5. QED
  BY <1>1, <1>2, <1>3, <1>4

LEMMA EnterKeeps ==
  ASSUME IInv, Enter
  PROVE  IInv'
<1>1. PICK g \in SiteCallees(Callee) : \E f \in Entered(g) : stack' = <<Frame(f)>> \o stack
  BY DEF Enter
<1>2. PICK f \in Entered(g) : stack' = <<Frame(f)>> \o stack
  BY <1>1
<1>3. stack # <<>> /\ Top.at <= Len(Calls(Top)) /\ Callee = Calls(Top)[Top.at]
  BY DEF Enter, Calling, Callee
<1>4. f \in DOMAIN code /\ OnRoute(Frame(f))
  BY <1>3, TopIs, EnteredOnRoute DEF IInv
<1>5. Frame(f) \in Activations /\ Good(Frame(f))
  BY <1>4, FreshGood DEF IInv
<1>6. Waits(stack[1], Frame(f))
  <2>1. Frame(f).fn = f
    BY DEF Frame
  <2>2. QED
    BY <1>3, <2>1, TopIs DEF Waits
<1>7. Chained(<<Frame(f)>> \o stack)
  BY <1>3, <1>5, <1>6, TopIs, PushChained
<1>8. QED
  BY <1>2, <1>7, StepsStack DEF IInv, Enter

LEMMA CallLeafKeeps ==
  ASSUME IInv, CallLeaf
  PROVE  IInv'
<1>1. PICK passed \in BOOLEAN : stack' = <<Answered(Top, passed)>> \o Tail(stack)
  BY DEF CallLeaf
<1>2. stack # <<>> /\ Top.at <= Len(Calls(Top))
  BY DEF CallLeaf, Calling
<1>3. Answered(Top, passed) \in Activations /\ Good(Answered(Top, passed))
  BY <1>2, TopIs, AnsweredGood DEF IInv
<1>4. Answered(Top, passed).fn = stack[1].fn
  BY <1>2, TopIs DEF Answered, Activations
<1>5. Chained(<<Answered(Top, passed)>> \o Tail(stack))
  BY <1>2, <1>3, <1>4, TopIs, TopChained
<1>6. QED
  BY <1>1, <1>5, StepsStack DEF IInv, CallLeaf

LEMMA ReturnKeeps ==
  ASSUME IInv, Return
  PROVE  IInv'
<1>1. stack # <<>>
  BY DEF Return, AtEnd
<1>2. Chained(stack) /\ stack \in Seq(Activations)
  BY <1>1, TopIs DEF Chained
<1>3. CASE Len(stack) = 1
  <2>1. stack' = <<>>
    BY <1>3 DEF Return
  <2>2. Chained(<<>>)
    BY DEF Chained
  <2>3. QED
    BY <2>1, <2>2, StepsStack DEF IInv, Return
<1>4. CASE Len(stack) # 1
  <2>1. PICK passed \in BOOLEAN : stack' = <<Answered(stack[2], passed)>> \o Tail(Tail(stack))
    BY <1>4 DEF Return
  <2>2. PICK t : t = Tail(stack)
    OBVIOUS
  <2>3. Chained(t) /\ t # <<>> /\ t[1] = stack[2] /\ 2 \in 2..Len(stack) /\ 2 \in DOMAIN stack
    <3>1. Chained(t)
      BY <1>1, <1>2, <2>2, TailChained
    <3>2. QED
      BY <1>1, <1>2, <1>4, <2>2, <3>1, CallerIs
  <2>4. stack[2] \in Activations /\ Good(stack[2]) /\ Waits(stack[2], stack[1])
    BY <1>2, <2>3 DEF Chained
  <2>5. /\ Answered(stack[2], passed) \in Activations /\ Good(Answered(stack[2], passed))
        /\ Answered(stack[2], passed).fn = t[1].fn
    <3>1. stack[2].at <= Len(Calls(stack[2]))
      BY <2>4 DEF Waits
    <3>2. Answered(stack[2], passed).fn = stack[2].fn
      BY <2>4 DEF Answered, Activations
    <3>3. QED
      BY <2>3, <2>4, <3>1, <3>2, AnsweredGood DEF IInv
  <2>6. Chained(<<Answered(stack[2], passed)>> \o Tail(t))
    BY <2>3, <2>5, TopChained
  <2>7. QED
    BY <2>1, <2>2, <2>6, StepsStack DEF IInv, Return
<1>5. QED
  BY <1>3, <1>4

LEMMA BranchKeeps ==
  ASSUME IInv, Branch
  PROVE  IInv'
<1>1. stack # <<>> /\ Top.at > Len(Calls(Top)) /\ Block.succs # <<>>
  BY DEF Branch, AtEnd
<1>2. Top \in Activations /\ Good(Top) /\ TypeOK
  BY <1>1, TopIs DEF IInv
<1>3. /\ IsBody(Body(Top), DOMAIN Functions) /\ Top.block \in Blocks(Body(Top))
      /\ Block = Body(Top)[Top.block]
  BY <1>2, BodiesAre, PlacedCalls DEF Good, Block
<1>4. Block.succs \in Seq(Blocks(Body(Top))) /\ Block.cond \in Conditions
  BY <1>3, BodyShape
<1>5. PICK i \in {1, 2} :
        /\ stack' = Jump(i)
        /\ Block.cond.kind = "none" => i = 1
        /\ Block.cond.kind # "none" => \E h \in Holds(Block.cond) : i = IF h THEN 1 ELSE 2
  BY DEF Branch
<1>6. i \in DOMAIN Block.succs
  <2>1. CASE Block.cond.kind = "none"
    BY <1>1, <1>4, <1>5, <2>1
  <2>2. CASE Block.cond.kind # "none"
    <3>1. Top.block \in Branches(Body(Top))
      BY <1>3, <2>2 DEF Branches
    <3>2. Len(Block.succs) = 2
      BY <1>3, <3>1, BodyShape
    <3>3. QED
      BY <1>4, <3>2
  <2>3. QED
    BY <2>1, <2>2
<1>7. ASSUME Block.cond.kind = "method"
      PROVE  i = Decided(Body(Top), Top.block, method)
  <2>1. i = IF (method = Block.cond.method) = Block.cond.equal THEN 1 ELSE 2
    BY <1>5, <1>7 DEF Holds
  <2>2. QED
    BY <1>3, <2>1 DEF Decided
<1>8. ASSUME Block.cond.kind = "ok"
      PROVE  i = IF (Block.cond.call \notin Top.failed) = (Block.cond.op \in {"value", "eq"})
                 THEN 1 ELSE 2
  BY <1>5, <1>8 DEF Holds
<1>9. PICK b : b = [Top EXCEPT !.block = Body(Top)[Top.block].succs[i], !.at = 1]
  OBVIOUS
<1>10. b \in Activations /\ Good(b)
  BY <1>1, <1>2, <1>3, <1>6, <1>7, <1>8, <1>9, JumpedGood
<1>11. b.fn = stack[1].fn
  BY <1>1, <1>2, <1>9, TopIs DEF Activations
<1>12. Chained(<<b>> \o Tail(stack))
  BY <1>1, <1>10, <1>11, TopIs, TopChained
<1>13. stack' = <<b>> \o Tail(stack)
  BY <1>3, <1>5, <1>9 DEF Jump
<1>14. QED
  BY <1>2, <1>12, <1>13, StepsStack DEF Branch

LEMMA Starts ==
  ASSUME Init
  PROVE  IInv
<1>1. program \in Programs /\ method \in Requested /\ \E m \in RouteMethods(method) : verdict = Verdict(m)
  BY DEF Init
<1> DEFINE f == program.route[1]
<1>2. f \in Range(program.route) /\ f \in DOMAIN code
  BY <1>1, CodeShape
<1>3. stack = <<Frame(f)>> /\ Frame(f) \in Activations
  BY <1>2 DEF Init, Frame, Activations
<1>4. TypeOK
  BY <1>1, <1>3 DEF TypeOK
<1>5. OnRoute(Frame(f))
  <2>1. Frame(f).fn = f
    BY DEF Frame
  <2>2. QED
    BY <1>2, <1>4, <2>1, RouteBelow DEF OnRoute
<1>6. Good(Frame(f))
  BY <1>2, <1>4, <1>5, FreshGood
<1> HIDE DEF f
<1>7. \A i \in DOMAIN stack : Good(stack[i])
  BY <1>3, <1>6
<1>8. Above = {}
  BY <1>3 DEF Above
<1>9. stack # <<>> => stack[Len(stack)].fn = program.route[1]
  BY <1>3 DEF Frame, f
<1>10. QED
  BY <1>4, <1>7, <1>8, <1>9 DEF IInv

LEMMA StepKeeps ==
  ASSUME IInv, [Next]_vars
  PROVE  IInv'
<1>1. CASE Enter
  BY <1>1, EnterKeeps
<1>2. CASE CallLeaf
  BY <1>2, CallLeafKeeps
<1>3. CASE Return
  BY <1>3, ReturnKeeps
<1>4. CASE Branch
  BY <1>4, BranchKeeps
<1>5. CASE UNCHANGED vars
  <2>1. UNCHANGED <<program, method, verdict>> /\ stack' = stack
    BY <1>5 DEF vars
  <2>2. Chained(stack)
    BY DEF IInv, TypeOK, Chained, Above
  <2>3. QED
    BY <2>1, <2>2, StepsStack DEF IInv
<1>6. QED
  BY <1>1, <1>2, <1>3, <1>4, <1>5 DEF Next

\* The activations of a request stay where the analysis looked, whatever the
\* program calls, returns and branches on (Enter, CallLeaf, Return, Branch).
THEOREM Invariant == Spec => []IInv
<1>1. Init => IInv
  BY Starts
<1>2. IInv /\ [Next]_vars => IInv'
  BY StepKeeps
<1>3. QED
  BY <1>1, <1>2, PTL DEF Spec

\* The variables of a request have their types.
THEOREM TypeCorrect == Spec => []TypeOK
<1>1. IInv => TypeOK
  BY DEF IInv
<1>2. QED
  BY <1>1, Invariant, PTL

\* Whatever the program: a request only runs blocks that methods.go says run
\* for its method.
THEOREM RequestsRunAsScoped == Spec => []RunsAsScoped
<1>1. ASSUME IInv PROVE RunsAsScoped
  <2>1. \A i \in DOMAIN stack : stack[i] \in Activations /\ Good(stack[i]) /\ TypeOK
    BY <1>1 DEF IInv, TypeOK
  <2>2. QED
    BY <2>1, RunsForRoute DEF Good, RunsAsScoped
<1>2. QED
  BY <1>1, Invariant, PTL

\* Where consults gave up nowhere, it looked at all that is below a function.
LEMMA AllLookedAt ==
  ASSUME TypeOK, NEW m, NEW f \in Range(program.route),
         LookedEverywhere(Classifier(code), m, f)
  PROVE  Below(Classifier(code), m, f) \cap DOMAIN code \subseteq Searched(Classifier(code), m, f)
<1> DEFINE c == Classifier(code)
           next == [g \in DOMAIN Functions |-> UNION {Through(c, h) : h \in Ran(c, m, g)}]
           searched == Searched(c, m, f)
           closed == searched \cup (DOMAIN Functions \ DOMAIN code)
<1>1. c.code = code
  BY DEF Classifier
<1>2. Leads(next) /\ {f} \in SUBSET DOMAIN next
  BY BelowLeads, CodeShape DEF TypeOK
<1>3. /\ f \in searched
      /\ \A g \in searched : \A h \in Ran(c, m, g) : Through(c, h) \cap DOMAIN code \subseteq searched
  BY <1>1 DEF LookedEverywhere
<1> HIDE DEF c, searched
<1>4. ASSUME NEW g \in closed \cap DOMAIN next PROVE next[g] \subseteq closed
  <2>1. g \in DOMAIN Functions /\ next[g] = UNION {Through(c, h) : h \in Ran(c, m, g)}
    OBVIOUS
  <2>2. next[g] \subseteq DOMAIN Functions
    BY <1>2, <2>1 DEF Leads
  <2>3. CASE g \in searched
    <3>1. \A h \in Ran(c, m, g) : Through(c, h) \cap DOMAIN code \subseteq searched
      BY <1>3, <2>3
    <3>2. QED
      BY <2>1, <2>2, <3>1
  <2>4. CASE g \notin DOMAIN code
    <3>1. Ran(c, m, g) = {}
      BY <1>1, <2>4 DEF Ran
    <3>2. QED
      BY <2>1, <3>1
  <2>5. QED
    BY <2>3, <2>4
<1>5. {f} \subseteq closed
  BY <1>3
<1>6. Closure({f}, next) \subseteq closed
  <2> HIDE DEF next, closed
  <2>1. QED
    BY <1>2, <1>4, <1>5, ClosureLeast
<1>7. QED
  BY <1>6 DEF Below, c, searched

\* Whatever the program: a request on a public route without optionalAuth
\* calls nothing that may be a guard, where consults was not cut off at its
\* depth below a function of the route.
THEOREM PublicRoutesAskNobody == Spec => []PublicAsksNobody
<1>1. ASSUME IInv PROVE PublicAsksNobody
  <2>1. SUFFICES ASSUME verdict.access = "public", ~verdict.optionalAuth, Calling,
                        \A f \in Range(program.route) :
                          LookedEverywhere(Classifier(code), verdict.method, f)
                 PROVE  SiteCallees(Callee) \cap verdict.guards = {}
    BY DEF PublicAsksNobody
  <2>2. stack # <<>> /\ Top.at <= Len(Calls(Top)) /\ Callee = Calls(Top)[Top.at]
    BY <2>1 DEF Calling, Callee
  <2>3. Top \in Activations /\ Good(Top) /\ TypeOK
    BY <1>1, <2>2, TopIs DEF IInv
  <2>4. PICK m : verdict = Verdict(m)
    BY <2>3 DEF TypeOK
  <2>5. verdict.method = m /\ verdict.guards = DOMAIN FindGuards(code)
    BY <2>3, <2>4, VerdictIs DEF TypeOK
  <2>6. PICK f \in Range(program.route) : Top.fn \in Below(Classifier(code), m, f)
    BY <2>3, <2>5 DEF Good, OnRoute
  <2>7. Top.fn \in Searched(Classifier(code), m, f)
    BY <2>1, <2>3, <2>5, <2>6, AllLookedAt DEF Activations
  <2>8. Ran(Classifier(code), m, Top.fn) \cap DOMAIN Classifier(code).guards = {}
    BY <2>1, <2>3, <2>4, <2>6, <2>7, PublicConsults DEF Consults, TypeOK
  <2>9. SiteCallees(Callee) \subseteq Ran(Classifier(code), m, Top.fn)
    BY <2>2, <2>3, <2>5, CallsRun
  <2>10. QED
    BY <2>5, <2>8, <2>9 DEF Classifier
<1>2. QED
  BY <1>1, Invariant, PTL

-----------------------------------------------------------------------------
(***************************************************************************)
(* Reaching a sink is work for every activation that called its way there. *)
(***************************************************************************)
LEMMA AvoidingAvoids ==
  ASSUME NEW fs, NEW body, IsBody(body, fs), NEW b
  PROVE  b \notin Avoiding(body, b)
<1> DEFINE next == [x \in Blocks(body) |-> Range(body[x].succs) \ {b}]
           V == Blocks(body) \ {b}
<1>1. Leads(next)
  BY BodyLeads
<1>2. {1} \ {b} \in SUBSET DOMAIN next /\ {1} \ {b} \subseteq V
  BY BodyShape
<1>3. \A x \in V \cap DOMAIN next : next[x] \subseteq V
  BY BodyShape
<1>4. b \notin V
  OBVIOUS
<1> HIDE DEF V
<1>5. Closure({1} \ {b}, next) \subseteq V
  BY <1>1, <1>2, <1>3, ClosureLeast
<1>6. QED
  BY <1>4, <1>5 DEF Avoiding

\* The calls that led to an activation of a function that works and is no
\* guard are work: also a call of the external function that called it back.
LEMMA WaitingWorks ==
  ASSUME IInv, NEW i \in Above,
         stack[i-1].fn \in ReachesSink(code), stack[i-1].fn \notin verdict.guards
  PROVE  /\ stack[i].fn \in ReachesSink(code)
         /\ Site(stack[i]) \in Sites(Body(stack[i]))
         /\ \E g \in SiteCallees(CallAt(Body(stack[i]), Site(stack[i]))) :
              g \in ReachesSink(code) /\ g \notin verdict.guards
<1> DEFINE a == stack[i]
           f == stack[i-1].fn
<1>1. a \in Activations /\ i \in DOMAIN stack /\ TypeOK
  BY DEF IInv, TypeOK, Above
<1>2. Good(a) /\ Waits(a, stack[i-1])
  BY <1>1 DEF IInv
<1>3. a.at <= Len(Calls(a))
  BY <1>2 DEF Waits
<1> HIDE DEF a
<1>4. /\ Site(a) \in Sites(Body(a)) /\ CallAt(Body(a), Site(a)) = Calls(a)[a.at]
      /\ Calls(a)[a.at] \in DOMAIN Functions /\ a.fn \in DOMAIN code /\ Body(a) = code[a.fn]
      /\ a.fn \in DOMAIN Functions
  BY <1>1, <1>2, <1>3, PlacedCalls, BodiesAre DEF Good, Body
<1>5. PICK g \in SiteCallees(Calls(a)[a.at]) : f \in Entered(g)
  BY <1>2 DEF Waits
<1>6. g \in DOMAIN Functions
  BY <1>1, <1>4, <1>5, Called DEF TypeOK
<1>7. g \in ReachesSink(code) /\ g \notin verdict.guards
  <2>1. CASE g \in DOMAIN code
    BY <1>5, <2>1 DEF Entered
  <2>2. CASE g \notin DOMAIN code
    <3>1. f \in Functions[g].calls
      BY <1>5, <2>2 DEF Entered
    <3>2. f \in Callees(code, g)
      BY <2>2, <3>1 DEF Callees
    <3>3. g \in ReachesSink(code)
      BY <1>1, <1>6, <3>2, CallersWork DEF TypeOK
    <3>4. ~Functions[g].module
      BY <1>6, <3>1, FunctionsAssumption
    <3>5. PICK m : verdict = Verdict(m)
      BY <1>1 DEF TypeOK
    <3>6. verdict.guards \subseteq Range(Own)
      BY <1>1, <3>5, VerdictIs DEF TypeOK
    <3>7. \A h \in Range(Own) : Functions[h].module
      BY FunctionsAssumption DEF Range
    <3>8. QED
      BY <3>3, <3>4, <3>6, <3>7
  <2>3. QED
    BY <2>1, <2>2
<1>8. g \in Callees(code, a.fn)
  <2>1. g \in UNION {SiteCallees(CallAt(code[a.fn], s)) : s \in Sites(code[a.fn])}
    BY <1>4, <1>5
  <2>2. QED
    BY <1>4, <2>1 DEF Callees
<1>9. a.fn \in ReachesSink(code)
  BY <1>1, <1>4, <1>7, <1>8, CallersWork DEF TypeOK
<1>10. QED
  BY <1>4, <1>5, <1>7, <1>9 DEF a

LEMMA SinkIsWork ==
  ASSUME IInv, AtSink
  PROVE  \A i \in Above :
           /\ Site(stack[i]) \in Sites(Body(stack[i]))
           /\ \E g \in SiteCallees(CallAt(Body(stack[i]), Site(stack[i]))) :
                g \in ReachesSink(code) /\ g \notin verdict.guards
<1>1. /\ stack # <<>> /\ Top.at <= Len(Calls(Top)) /\ IsSinkCall(Calls(Top)[Top.at])
      /\ \A i \in DOMAIN stack : stack[i].fn \notin verdict.guards
  BY DEF AtSink, Calling, Callee, Running
<1>2. stack \in Seq(Activations) /\ TypeOK
  BY DEF IInv, TypeOK
<1>3. stack[1].fn \in ReachesSink(code)
  <2>1. Top \in Activations /\ Good(Top) /\ Top = stack[1]
    BY <1>1, TopIs
  <2>2. /\ Site(Top) \in Sites(Body(Top)) /\ CallAt(Body(Top), Site(Top)) = Calls(Top)[Top.at]
        /\ Top.fn \in DOMAIN code /\ Body(Top) = code[Top.fn]
    BY <1>1, <1>2, <2>1, PlacedCalls, BodiesAre DEF Good, Body
  <2>3. Top.fn \in ReachesSink(code)
    BY <1>1, <1>2, <2>2, SinkCallersWork DEF TypeOK
  <2>4. QED
    BY <2>1, <2>3
<1> DEFINE T == {n \in Nat : n + 1 \in DOMAIN stack => stack[n+1].fn \in ReachesSink(code)}
<1>4. 0 \in T
  BY <1>3
<1>5. ASSUME NEW n \in T PROVE n + 1 \in T
  <2>1. SUFFICES ASSUME (n + 1) + 1 \in DOMAIN stack
                 PROVE  stack[(n+1)+1].fn \in ReachesSink(code)
    OBVIOUS
  <2>2. PICK i : i = (n + 1) + 1
    OBVIOUS
  <2>3. i \in Above /\ i - 1 = n + 1 /\ n + 1 \in DOMAIN stack
    BY <1>2, <2>1, <2>2 DEF Above
  <2>4. stack[i-1].fn \in ReachesSink(code) /\ stack[i-1].fn \notin verdict.guards
    BY <1>1, <2>3
  <2> HIDE DEF T
  <2>5. stack[i].fn \in ReachesSink(code)
    BY <2>3, <2>4, WaitingWorks
  <2>6. QED
    BY <2>2, <2>5
<1> HIDE DEF T
<1>6. T = Nat
  <2>1. T \in SUBSET Nat
    BY DEF T
  <2>2. QED
    BY <1>4, <1>5, <2>1, Induction
<1>7. ASSUME NEW i \in Above
      PROVE  stack[i-1].fn \in ReachesSink(code) /\ stack[i-1].fn \notin verdict.guards
  <2>1. i - 2 \in Nat /\ (i - 2) + 1 = i - 1 /\ i - 1 \in DOMAIN stack
    BY <1>2 DEF Above
  <2>2. i - 2 \in T
    BY <1>6, <2>1
  <2>3. stack[(i-2)+1].fn \in ReachesSink(code)
    BY <2>1, <2>2 DEF T
  <2>4. QED
    BY <1>1, <2>1, <2>3
<1>8. QED
  BY <1>7, WaitingWorks

\* What a use of a guard says when its function is on the way to a sink.
LEMMA UseAtSink ==
  ASSUME IInv, AtSink, NEW i \in Above, NEW u \in Uses(stack[i])
  PROVE  LET a == stack[i]  body == Body(stack[i])
         IN  \E b \in Branches(body) :
               /\ body[b].cond.kind = "ok" /\ body[b].cond.call = u.site
               /\ a.block \notin Denial(body, b)
               /\ Site(a) # u.site =>
                    IF a.block = u.site[1] THEN a.at > u.site[2]
                    ELSE Dominates(body, u.site[1], a.block)
<1> DEFINE a == stack[i]
           body == Body(a)
           c == Classifier(code)
<1>1. a \in Activations /\ i \in DOMAIN stack /\ TypeOK
  BY DEF IInv, TypeOK, Above
<1>2. Good(a)
  BY <1>1 DEF IInv
<1>3. PICK m : verdict = Verdict(m)
  BY <1>1 DEF TypeOK
<1>4. verdict.method = m /\ verdict.guards = DOMAIN c.guards /\ ReachesSink(code) = c.work
  BY <1>1, <1>3, VerdictIs DEF TypeOK, Classifier
<1>5. Site(a) \in Sites(body) /\ IsWork(c, CallAt(body, Site(a)))
  BY <1>4, SinkIsWork DEF IsWork
<1> DEFINE blocks == ReachableFor(body, m)
<1>6. Site(a)[1] = a.block /\ Site(a)[2] = a.at /\ a.block \in blocks
  BY <1>1, <1>2, <1>4, RunsForRoute DEF Site, Good
<1>7. \E b \in blocks \cap Branches(body) : Enforces(c, body, blocks, u.site, b)
  <2>1. u \in verdict.uses[a.fn] /\ a.fn \in DOMAIN code
    BY <1>1, BodiesAre DEF Uses
  <2>2. QED
    BY <1>1, <1>3, <2>1, DirectUse DEF Body, TypeOK
<1> HIDE DEF body, c, blocks, a
<1>8. PICK b \in Branches(body) : Enforces(c, body, blocks, u.site, b)
  BY <1>7
<1>9. a.block \notin Denial(body, b)
  BY <1>5, <1>6, <1>8 DEF Enforces, HasWork
<1>10. Site(a) # u.site =>
         IF a.block = u.site[1] THEN a.at > u.site[2] ELSE Dominates(body, u.site[1], a.block)
  BY <1>5, <1>6, <1>8, <1>9 DEF Enforces, DominatesWork
<1>11. QED
  BY <1>8, <1>9, <1>10 DEF Enforces, body, a

\* Whatever the program: where the result of a guard is tested at once, no
\* sink is reached from its function after it failed (Enforces).
THEOREM DeniedDoNoWork == Spec => []DeniedWithoutWork
<1>1. ASSUME IInv PROVE DeniedWithoutWork
  <2>1. SUFFICES ASSUME AtSink, NEW i \in Above, NEW u \in Uses(stack[i]),
                        TestedAtOnce(Body(stack[i]), u.site), u.site \in stack[i].failed
                 PROVE  FALSE
    BY DEF DeniedWithoutWork
  <2> DEFINE a == stack[i]
             body == Body(a)
  <2>2. PICK b \in Branches(body) :
          /\ body[b].cond.kind = "ok" /\ body[b].cond.call = u.site
          /\ a.block \notin Denial(body, b)
    BY <1>1, <2>1, UseAtSink
  <2>3. b = u.site[1]
    BY <2>1, <2>2 DEF TestedAtOnce
  <2>4. a \in Activations /\ i \in DOMAIN stack /\ TypeOK
    BY <1>1 DEF IInv, TypeOK, Above
  <2>5. Good(a) /\ a.at <= Len(Calls(a))
    BY <1>1, <2>4 DEF IInv, Waits
  <2>6. a.block = u.site[1] /\ a.at > u.site[2]
    BY <2>1, <2>2, <2>3, <2>5 DEF Good, Denied
  <2>7. u.site[2] = Len(Calls(a))
    BY <2>1, <2>6 DEF TestedAtOnce, Calls
  <2>8. Len(Calls(a)) \in Nat /\ a.at \in Nat
    BY <2>4, <2>5, PlacedCalls, BodiesAre DEF Good
  <2> HIDE DEF a
  <2>9. QED
    BY <2>5, <2>6, <2>7, <2>8
<1>2. QED
  BY <1>1, Invariant, PTL

\* Where the programs are Unmixed, no sink is reached from a function that
\* uses a guard before the guard was called (DominatesWork).  A call that may
\* run a guard or something else is not looked at by dominatesWork: it is the
\* guard's own.
THEOREM GuardsComeFirst ==
  ASSUME Unmixed
  PROVE  Spec => []GuardedFirst
<1>1. ASSUME IInv PROVE GuardedFirst
  <2>1. SUFFICES ASSUME AtSink, NEW i \in Above, NEW u \in Uses(stack[i])
                 PROVE  u.site \in stack[i].called
    BY DEF GuardedFirst
  <2> DEFINE a == stack[i]
             body == Body(a)
  <2>2. /\ Site(a) # u.site =>
             IF a.block = u.site[1] THEN a.at > u.site[2]
             ELSE Dominates(body, u.site[1], a.block)
    BY <1>1, <2>1, UseAtSink
  <2>3. a \in Activations /\ i \in DOMAIN stack /\ TypeOK
    BY <1>1 DEF IInv, TypeOK, Above
  <2>4. Good(a) /\ a.fn \in DOMAIN code /\ body = code[a.fn] /\ u \in verdict.uses[a.fn]
    BY <1>1, <2>3, BodiesAre DEF IInv, Body, Uses
  <2>5. PICK m : verdict = Verdict(m)
    BY <2>3 DEF TypeOK
  <2>6. /\ u.site \in Sites(body)
        /\ SiteCallees(CallAt(body, u.site)) \cap verdict.guards # {}
    BY <2>3, <2>4, <2>5, DirectUse DEF TypeOK
  <2>7. Site(a) # u.site
    <3>1. SUFFICES ASSUME Site(a) = u.site PROVE FALSE
      OBVIOUS
    <3>2. PICK g \in SiteCallees(CallAt(body, u.site)) : g \notin verdict.guards
      BY <1>1, <2>1, <3>1, SinkIsWork
    <3>3. verdict.guards = DOMAIN FindGuards(program.code) /\ program \in Programs
      BY <2>3, <2>5, VerdictIs DEF TypeOK, code
    <3>4. CallAt(body, u.site) \in DOMAIN Functions
      BY <2>3, <2>4, <2>6, SiteCalls DEF TypeOK
    <3>5. \A f \in DOMAIN Functions :
            SiteCallees(f) \cap verdict.guards = {} \/ SiteCallees(f) \subseteq verdict.guards
      BY <3>3 DEF Unmixed
    <3>6. QED
      BY <2>6, <3>2, <3>4, <3>5
  <2>8. u.site[2] \in Nat /\ a.at \in Nat /\ IsBody(body, DOMAIN Functions)
    <3>1. a.at \in Nat /\ IsBody(body, DOMAIN Functions)
      BY <2>3, BodiesAre
    <3>2. u.site[1] \in Blocks(body) /\ u.site[2] \in 1..Len(body[u.site[1]].calls)
      BY <2>3, <2>4, <2>6, SiteCalls DEF TypeOK
    <3>3. body[u.site[1]].calls \in Seq(DOMAIN Functions)
      BY <3>1, <3>2, BodyShape
    <3>4. QED
      BY <3>1, <3>2, <3>3
  <2>9. \/ u.site \in a.called \/ a.block \in Avoiding(body, u.site[1])
        \/ a.block = u.site[1] /\ a.at <= u.site[2]
    BY <2>4, <2>6 DEF Good, CalledOnTheWay
  <2>10. a.block \notin Avoiding(body, u.site[1])
    <3>1. CASE a.block = u.site[1]
      BY <2>8, <3>1, AvoidingAvoids
    <3>2. CASE a.block # u.site[1]
      BY <2>2, <2>7, <3>2 DEF Dominates
    <3>3. QED
      BY <3>1, <3>2
  <2> HIDE DEF a, body
  <2>11. u.site \in a.called
    BY <2>2, <2>7, <2>8, <2>9, <2>10
  <2>12. QED
    BY <2>11 DEF a
<1>2. QED
  BY <1>1, Invariant, PTL
=============================================================================
