------------------------------ MODULE Queries ------------------------------
(***************************************************************************)
(* The tables that SQL touches: internal/sqlparse/query.go for SQL text,   *)
(* internal/analysis/dataaccess.go for gorm's calls, and how sinks.go puts *)
(* together what one call may be given.                                    *)
(*                                                                         *)
(* A text is [parsed |-> TRUE, stmts] or, if it cannot be parsed, [parsed  *)
(* |-> FALSE, op: its first word, words: what follows FROM, INTO, ...].  A *)
(* statement is [op, target, from: tables, ctes: [name, stmt] in order,    *)
(* recursive: whether WITH is, subs: nested statements].  The parser, and  *)
(* the rewriting of placeholders before it, are external; columns and      *)
(* aliases are left out.                                                   *)
(***************************************************************************)
EXTENDS Integers, Sequences, FiniteSets, SequencesExt

UnknownText == [parsed |-> FALSE]
UnknownName == "{?}"           \* a text or a name that is not known
UnknownIdent == "icb_unknown"  \* for an unknown part of a text

Table(name) == [schema |-> "", name |-> name]
NoTable == Table("")

RelName(v) == IF v.schema # "" THEN v.schema \o "." \o v.name ELSE v.name

TableUse(name, op) == [table |-> name, op |-> op]

\* One more use; a write replaces an earlier select of the table.
Use(uses, name, op) ==
  IF \E i \in DOMAIN uses : uses[i].table = name
  THEN [i \in DOMAIN uses |-> IF uses[i].table = name /\ uses[i].op = "select" THEN TableUse(name, op) ELSE uses[i]]
  ELSE Append(uses, TableUse(name, op))

\* A statement and all those in it.
RECURSIVE Walk(_)
Walk(s) ==
  <<s>> \o FlattenSeq([i \in DOMAIN s.subs |-> Walk(s.subs[i])])
        \o FlattenSeq([i \in DOMAIN s.ctes |-> Walk(s.ctes[i].stmt)])

\* The tables that statement s names itself: [var, op].
Named(s) ==
  (IF s.target = NoTable THEN <<>> ELSE <<[var |-> s.target, op |-> s.op]>>)
    \o [i \in DOMAIN s.from |-> [var |-> s.from[i], op |-> "select"]]

\* uses and those of a statement.  Names of CTEs are no tables, wherever in
\* the statement they are.
AnalyzeStmt(uses, root) ==
  LET all == Walk(root)
      ctes == UNION {{c.name : c \in Range(s.ctes)} : s \in Range(all)}
      rels == FlattenSeq([i \in DOMAIN all |-> Named(all[i])])
      real(r) == r.var.schema # "" \/ r.var.name \notin ctes
  IN  FoldLeft(LAMBDA us, r : IF real(r) THEN Use(us, RelName(r.var), r.op) ELSE us, uses, rels)

\* What a word before a table says of its use in a statement of kind op.
WordOp(word, op) ==
  CASE word = "into" -> op
    [] word = "update" -> "update"
    [] word = "table" -> "ddl"
    [] word = "from" /\ op = "delete" -> "delete"
    [] OTHER -> "select"

ScanTables(text) ==
  FoldLeft(LAMBDA us, w : IF w.table = UnknownIdent THEN us ELSE Use(us, w.table, WordOp(w.word, text.op)),
           <<>>, text.words)

Query(text) ==
  IF text.parsed THEN FoldLeft(AnalyzeStmt, <<>>, text.stmts) ELSE ScanTables(text)

\* All texts that a call may be given, together.
AnalyzeQueries(texts) ==
  LET known == SelectSeq(texts, LAMBDA t : t # UnknownText)
  IN  FoldLeft(LAMBDA us, u : Use(us, u.table, u.op), <<>>, FlattenSeq([i \in DOMAIN known |-> Query(known[i])]))

-----------------------------------------------------------------------------
\* gorm.  A finisher is [call, on: the *gorm.DB it is called on, dest: the
\* table of the model it is given, "" if there is none].  A *gorm.DB is
\* [call |-> "Open"], what a call makes of another, [call, on, table], or
\* one of several, [call |-> "phi", of: a sequence].  Chains from Raw and
\* Exec, which are sinks by their own rules, are left out.
GormFinishers ==
  [First |-> <<"select">>, Find |-> <<"select">>, Count |-> <<"select">>, Pluck |-> <<"select">>,
   Create |-> <<"insert">>, Save |-> <<"insert", "update">>, FirstOrCreate |-> <<"select", "insert">>,
   Update |-> <<"update">>, Updates |-> <<"update">>, Delete |-> <<"delete">>]
GormDestArg == {"First", "Find", "Create", "Save", "FirstOrCreate", "Delete"}

Union(xs, ys) == xs \o SelectSeq(ys, LAMBDA y : y \notin Range(xs))

\* The tables that the calls a *gorm.DB went through name.
RECURSIVE GormChain(_)
GormChain(db) ==
  CASE db.call = "Open" -> <<>>
    [] db.call = "phi" -> FoldLeft(LAMBDA ts, on : Union(ts, GormChain(on)), <<>>, db.of)
    [] db.call \in {"Table", "Model"} /\ db.table # UnknownName -> <<db.table>>
    [] OTHER -> GormChain(db.on)

GormSink(f) ==
  LET chain == GormChain(f.on)
      tables == IF chain = <<>> /\ f.dest # "" /\ f.call \in GormDestArg \cup {"Updates"} THEN <<f.dest>> ELSE chain
      ops == GormFinishers[f.call]
  IN  FlattenSeq([t \in DOMAIN tables |-> [o \in DOMAIN ops |-> TableUse(tables[t], ops[o])]])

\* The uses of what a sink call is given: [texts] or [gorm: a finisher].
UsesOf(given) == IF "gorm" \in DOMAIN given THEN GormSink(given.gorm) ELSE AnalyzeQueries(given.texts)

-----------------------------------------------------------------------------
\* What PostgreSQL touches when it runs s where these CTEs are visible.
RECURSIVE Touched(_, _)
Touched(s, visible) ==
  LET before(n) == visible \cup {s.ctes[k].name : k \in {j \in DOMAIN s.ctes : j < n \/ (s.recursive /\ j = n)}}
      inside == before(Len(s.ctes) + 1)
  IN  (IF s.target = NoTable THEN {} ELSE {TableUse(RelName(s.target), s.op)})
        \cup {TableUse(RelName(v), "select") : v \in {w \in Range(s.from) : w.schema # "" \/ w.name \notin inside}}
        \cup UNION {Touched(s.subs[i], inside) : i \in DOMAIN s.subs}
        \cup UNION {Touched(s.ctes[i].stmt, before(i)) : i \in DOMAIN s.ctes}

\* The tables gorm uses: Table goes before Model, Model before the model
\* that the finisher is given.
RECURSIVE Statements(_)
Statements(db) ==
  CASE db.call = "Open" -> {[table |-> "", model |-> ""]}
    [] db.call = "phi" -> UNION {Statements(on) : on \in Range(db.of)}
    [] db.call = "Table" -> {[st EXCEPT !.table = db.table] : st \in Statements(db.on)}
    [] db.call = "Model" -> {[st EXCEPT !.model = db.table] : st \in Statements(db.on)}
    [] OTHER -> Statements(db.on)

\* The uses that running a sink call may come to.
Executed(given) ==
  IF "gorm" \in DOMAIN given
  THEN LET table(st) == IF st.table # "" THEN st.table ELSE IF st.model # "" THEN st.model ELSE given.gorm.dest
       IN  {TableUse(table(st), op) : st \in Statements(given.gorm.on), op \in Range(GormFinishers[given.gorm.call])}
  ELSE UNION {UNION {Touched(s, {}) : s \in Range(t.stmts)} : t \in {x \in Range(given.texts) : x # UnknownText}}
=============================================================================
