------------------------------- MODULE Values -------------------------------
(***************************************************************************)
(* internal/analysis/values.go: the strings that a value of the analyzed   *)
(* program can be, found without running it.                               *)
(*                                                                         *)
(* code gives each function of the module its instructions.  The value of  *)
(* the i-th instruction of f is <<f, i>>; args are the values it uses.  A  *)
(* string is a sequence of tokens, of which "/" and " " are two.           *)
(***************************************************************************)
EXTENDS Integers, Sequences, FiniteSets, SequencesExt

CONSTANTS MaxEvalDepth, MaxEvalValues,
          Configured  \* Options.Values: function or variable -> strings

ASSUME BoundsAssumption == {MaxEvalDepth, MaxEvalValues} \subseteq Nat \ {0}

Unknown == <<"{?}">>

Instr(code, v) == code[v[1]][v[2]]
AllValues(code) == UNION {{<<f, i>> : i \in DOMAIN code[f]} : f \in DOMAIN code}

\* The values whose instructions are of kind op.
Instrs(code, op) == UNION {{<<f, i>> : i \in {j \in DOMAIN code[f] : code[f][j].op = op}} : f \in DOMAIN code}

\* The calls of f, and the results its returns give.
CallsOf(code, f) ==
  UNION {{<<g, i>> : i \in {j \in DOMAIN code[g] : code[g][j].op \in {"call", "go"} /\ code[g][j].fn = f}} : g \in DOMAIN code}
Returns(code, f) == {Instr(code, v).args[1] : v \in {w \in Instrs(code, "ret") : w[1] = f}}
Results(code, f, n) == {Instr(code, v).args[n] : v \in {w \in Instrs(code, "ret") : w[1] = f}}

\* What is stored in variable x, by package initializers only or by anyone.
Stored(code, x) == {Instr(code, v).args[1] : v \in {w \in Instrs(code, "store") : Instr(code, w).var = x}}
GlobalStores(code, x) ==
  {Instr(code, v).args[1] : v \in {w \in Instrs(code, "store") : w[1] = "init" /\ Instr(code, w).var = x}}

\* What is stored in a local variable in a heap cell, which closures capture, by
\* the function that it is of.
CellStores(code, cell) ==
  {Instr(code, v).args[1] : v \in {w \in Instrs(code, "set") : w[1] = cell[1] /\ Instr(code, w).cell = cell}}

-----------------------------------------------------------------------------
\* Faulty variant of Limit: the first values are kept.
LimitToFirst(xs) ==
  IF Cardinality(xs) > MaxEvalValues THEN CHOOSE s \in SUBSET xs : Cardinality(s) = MaxEvalValues ELSE xs

\* Too many possible values are one unknown one.
Limit(xs) == IF Cardinality(xs) > MaxEvalValues THEN {Unknown} ELSE xs

Concat(xs, ys) ==
  IF Cardinality(xs) * Cardinality(ys) > MaxEvalValues THEN {Unknown}
  ELSE {x \o y : x \in xs, y \in ys}

\* An empty result is taken for that of an error path.
DropEmpty(xs) == IF Cardinality(xs) < 2 THEN xs ELSE xs \ {<<>>}

OrUnknown(xs) == IF xs = {} THEN {Unknown} ELSE xs

\* The literals that a slice's elements are in, through phi and append.
RECURSIVE SliceAllocs(_, _, _)
SliceAllocs(code, v, depth) ==
  LET i == Instr(code, v)
  IN  IF depth > MaxEvalDepth THEN {}
      ELSE IF i.op = "slice" THEN {v}
      ELSE IF i.op \in {"phi", "append"}
           THEN UNION {SliceAllocs(code, w, depth + 1) : w \in Range(i.args) \ {v}}
      ELSE {}

\* The format's tokens with each verb replaced by the next argument, the
\* strings that it can be.
Formatted(format, elems) ==
  LET add(acc, t) ==
        CASE t = "%%" -> [acc EXCEPT !.out = Concat(@, {<<"%">>})]
          [] t = "%s" -> [out |-> Concat(acc.out, IF acc.arg <= Len(elems) THEN elems[acc.arg] ELSE {Unknown}),
                          arg |-> acc.arg + 1]
          [] OTHER -> [acc EXCEPT !.out = Concat(@, {<<t>>})]
  IN  FoldLeft(add, [out |-> {<<>>}, arg |-> 1], format).out

RECURSIVE Str(_, _, _, _), Elems(_, _, _, _)

\* A parameter is what the function's callers pass.
Param(code, v, depth, visited) ==
  Limit(OrUnknown(UNION {Str(code, Instr(code, c).args[Instr(code, v).num], depth + 1, visited)
                         : c \in CallsOf(code, v[1])}))

\* The strings of each element of slice v, whose elements are in one literal or
\* configured list; <<>> if there is none or if they may be in several.
Elems(code, v, depth, visited) ==
  LET i == Instr(code, v)
      only(vs) == IF Cardinality(vs) = 1 THEN Elems(code, CHOOSE w \in vs : TRUE, depth + 1, visited) ELSE <<>>
  IN  IF depth > MaxEvalDepth THEN <<>>
      ELSE CASE i.op = "slice" -> [n \in DOMAIN i.args |-> Str(code, i.args[n], depth + 2, visited)]
             [] i.op = "call" /\ i.fn \in DOMAIN Configured ->
                  [n \in DOMAIN Configured[i.fn] |-> {Configured[i.fn][n]}]
             [] i.op = "convert" -> only(Range(i.args))
             [] i.op = "call" /\ i.fn \in DOMAIN code -> only(Returns(code, i.fn))
             [] i.op = "load" -> only(GlobalStores(code, i.var))
             [] OTHER -> <<>>

\* An element of a slice; at is its index if that is constant, or else 0.
Element(elems, at) == IF at \in DOMAIN elems THEN elems[at] ELSE Limit(OrUnknown(UNION Range(elems)))

\* A field of an element of a slice of structs.
ElemField(code, slice, depth, visited) ==
  Limit(OrUnknown(UNION {UNION {Str(code, w, depth + 1, visited) : w \in Range(Instr(code, a).args)}
                         : a \in SliceAllocs(code, slice, 0)}))

\* path.Join, by putting "/" between the elements.
Joined(elems) ==
  IF elems = <<>> THEN {Unknown}
  ELSE FoldLeft(LAMBDA out, e : Concat(Concat(out, {<<"/">>}), e), elems[1], Tail(elems))

\* The n-th result of a call of f, if f is of the module.
CallResult(code, f, n, depth, visited) ==
  IF f \notin DOMAIN code THEN {Unknown}
  ELSE Limit(DropEmpty(OrUnknown(UNION {Str(code, r, depth, visited) : r \in Results(code, f, n)})))

\* The strings that v can be.
Str(code, v, depth, visited) ==
  LET i == Instr(code, v)
      seen == visited \cup {v}
      str(w) == Str(code, w, depth + 1, seen)
  IN  IF depth > MaxEvalDepth \/ v \in visited THEN {Unknown}
      ELSE CASE i.op = "const" -> {i.str}
             [] i.op = "concat" -> Concat(str(i.args[1]), str(i.args[2]))
             [] i.op = "convert" -> str(i.args[1])
             [] i.op = "phi" -> Limit(UNION {str(w) : w \in Range(i.args)})
             [] i.op = "load" -> IF i.var \in DOMAIN Configured THEN Range(Configured[i.var])
                                 ELSE Limit(OrUnknown(UNION {Str(code, w, depth + 2, seen)
                                                             : w \in GlobalStores(code, i.var)}))
             [] i.op = "get" /\ i.cell[1] = v[1] ->
                  Limit(OrUnknown(UNION {Str(code, w, depth + 2, seen) : w \in CellStores(code, i.cell)}))
             [] i.op = "index" -> Element(Elems(code, i.args[1], depth + 2, seen), i.at)
             [] i.op = "field" -> ElemField(code, i.args[1], depth + 1, seen)
             [] i.op = "param" -> Param(code, v, depth + 1, seen)
             [] i.op = "extract" -> CallResult(code, Instr(code, i.args[1]).fn, i.num, depth + 1, seen)
             [] i.op = "call" -> IF i.fn \in DOMAIN Configured THEN Range(Configured[i.fn])
                                 ELSE CallResult(code, i.fn, 1, depth + 1, seen)
             [] i.op = "join" -> Joined(Elems(code, i.args[1], depth + 1, seen))
             [] i.op = "sprintf" ->
                  Limit(UNION {Formatted(f, Elems(code, i.args[2], depth + 1, seen)) : f \in str(i.args[1])})
             [] OTHER -> {Unknown}

\* The strings that v can be; parts that are not known are Unknown.
Strings(code, v) == Str(code, v, 0, {})

\* Whether s is one of the strings that pattern stands for.
RECURSIVE Matches(_, _)
Matches(pattern, s) ==
  IF pattern = <<>> THEN s = <<>>
  ELSE IF Head(pattern) = "{?}"
       THEN \E n \in 0..Len(s) : Matches(Tail(pattern), SubSeq(s, n + 1, Len(s)))
  ELSE s # <<>> /\ Head(s) = Head(pattern) /\ Matches(Tail(pattern), Tail(s))
=============================================================================
