------------------------------ MODULE Methods ------------------------------
(***************************************************************************)
(* Function bodies as internal/analysis sees them, and methods.go: which   *)
(* blocks of a function run for which request method.                      *)
(*                                                                         *)
(* A body is a sequence of blocks, the first one its entry.  A block has   *)
(* instructions (only calls matter here), the successors it may continue   *)
(* with and the condition that decides between two of them:                *)
(*   "method"  r.Method == method, or # if not equal                       *)
(*   "ok"      the result of the call at <<block, position>>; op says how  *)
(*             it is tested: "value" if ok, "not" if !ok, "eq" if err ==   *)
(*             nil, "neq" if err # nil                                     *)
(*   "role"    a field whose name mentions role                            *)
(*   "opaque"  anything else                                               *)
(***************************************************************************)
EXTENDS Reach, Sequences, SequencesExt

\* Stands for every method a function does not compare against.
OtherMethod == "*"

Blocks(body) == DOMAIN body
Branches(body) == {b \in Blocks(body) : body[b].cond.kind # "none"}

\* The sites of a body's calls.
Sites(body) == UNION {{<<b, i>> : i \in DOMAIN body[b].calls} : b \in Blocks(body)}
CallAt(body, site) == body[site[1]].calls[site[2]]

\* What a body consists of when it calls functions of fs.
Conditions ==
  [kind : {"none", "opaque"}] \cup [kind : {"role"}, role : {"admin", "guest"}]
    \cup [kind : {"method"}, method : STRING \ {OtherMethod}, equal : BOOLEAN]
    \cup [kind : {"ok"}, call : Nat \X Nat, op : {"value", "not", "eq", "neq"}]

IsBody(body, fs) ==
  /\ body \in Seq([calls : Seq(fs), cond : Conditions, succs : Seq(1..Len(body))])
  /\ body # <<>>
  /\ \A b \in Blocks(body) :
       IF b \in Branches(body) THEN Len(body[b].succs) = 2 ELSE Len(body[b].succs) <= 1

\* What can be reached from the entry without passing through b.
Avoiding(body, b) ==
  Closure({1} \ {b}, [x \in Blocks(body) |-> Range(body[x].succs) \ {b}])

\* b dominates c: every way from the entry to c passes through b.
Dominates(body, b, c) == b = c \/ c \notin Avoiding(body, b)

-----------------------------------------------------------------------------
\* The ifs of body whose condition compares r.Method.
MethodConditions(body) == {b \in Blocks(body) : body[b].cond.kind = "method"}

Compared(body) == {body[b].cond.method : b \in MethodConditions(body)}

\* The successor taken at the method condition of b.
Decided(body, b, m) ==
  IF (body[b].cond.method = m) = body[b].cond.equal THEN 1 ELSE 2

\* Faulty variant of ReachableBlocks: != is decided as if it were ==.
ReachableIfEqual(body, m) ==
  Closure({1}, [b \in Blocks(body) |->
    IF b \in MethodConditions(body)
    THEN {body[b].succs[IF body[b].cond.method = m THEN 1 ELSE 2]}
    ELSE Range(body[b].succs)])

\* The blocks that run when every method condition is decided for m.
ReachableBlocks(body, m) ==
  Closure({1}, [b \in Blocks(body) |->
    IF b \in MethodConditions(body) THEN {body[b].succs[Decided(body, b, m)]}
    ELSE Range(body[b].succs)])

\* The methods, compared ones and OtherMethod, under which each block can run.
MethodScope(body) ==
  [b \in Blocks(body) |->
    {m \in Compared(body) \cup {OtherMethod} : b \in ReachableBlocks(body, m)}]

\* The methods a call in block b is annotated with in the graph; {} is all.
MethodsOf(body, b) ==
  LET ms == MethodScope(body)[b]
  IN  IF ms = Compared(body) \cup {OtherMethod} THEN {} ELSE ms

\* The blocks that run for method m, as the classifier asks: all of them in
\* a function that does not look at the method and for routes of any method.
ReachableFor(body, m) ==
  IF MethodConditions(body) = {} \/ m = "ANY" THEN Blocks(body)
  ELSE {b \in Blocks(body) :
         (IF m \in Compared(body) THEN m ELSE OtherMethod) \in MethodScope(body)[b]}
=============================================================================
