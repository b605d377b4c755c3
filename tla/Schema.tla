------------------------------- MODULE Schema -------------------------------
(***************************************************************************)
(* The database schema of internal/sqlparse/schema.go: what is known of    *)
(* the database from parsing its migrations, and what the graph then shows *)
(* of it (writeSchema of internal/analysis/build.go).  Each statement is   *)
(* executed by PostgreSQL and applied to the Schema; migrations are        *)
(* statements that PostgreSQL accepts.  A step is one statement, or one    *)
(* command of an ALTER TABLE that has several: these stand on one line, as *)
(* statements may that are written on one line.                            *)
(*                                                                         *)
(* A table of the slice Schema.Tables is known by the number of the        *)
(* statement that appended it.                                             *)
(***************************************************************************)
EXTENDS Postgres, FiniteSetsExt

CONSTANTS
  MaxStatements,   \* bound: how many steps are taken
  MaxKeys,         \* bound: how many foreign keys a CREATE TABLE has
  CreateNames      \* bound: the names they are given, or none

\* The name of a constraint as the migration gives it, if it does.
Names == {NoName} \cup {Given(n) : n \in ConstraintNames}

ASSUME StatementsAssumption ==
  MaxStatements \in Nat /\ MaxKeys \in Nat /\ CreateNames \subseteq Names

VARIABLES
  line,      \* where the last foreign key was added: pos, a file and line
  tables,    \* Schema.Tables: name, columns, primaryKey, foreignKeys
  beyond     \* history: what the statements so far did that Schema ignores

vars == <<db, steps, line, tables, beyond>>

Init ==
  /\ db = [i \in {} |-> {}] /\ tables = [i \in {} |-> {}]
  /\ steps = 0 /\ line = 1 /\ beyond = {}

-----------------------------------------------------------------------------
(***************************************************************************)
(* Schema's operations.                                                    *)
(***************************************************************************)
\* Table: the first of that name.
Known(t) == \E i \in DOMAIN tables : tables[i].name = t
Table(t) == CHOOSE i \in DOMAIN tables :
              /\ tables[i].name = t
              /\ \A j \in DOMAIN tables : tables[j].name = t => i <= j

\* A foreign key, at the position of its statement.
Reference(n, c, r, l) == [name |-> n, column |-> c, refTable |-> r, line |-> l]

\* Faulty variants of the operations below.
renameTableOnly(t, u) ==
  IF Known(t) THEN tables' = [tables EXCEPT ![Table(t)].name = u] ELSE UNCHANGED tables

dropColumnOnly(t, c) ==
  IF Known(t) THEN tables' = [tables EXCEPT ![Table(t)].columns = @ \ {c}]
              ELSE UNCHANGED tables

createAnew(t, cols, key, refs) ==
  tables' = [i \in DOMAIN tables \cup {steps + 1} |->
    IF i \in DOMAIN tables THEN tables[i]
    ELSE [name |-> t, columns |-> cols, primaryKey |-> key,
          foreignKeys |-> {Reference(ref.name, ref.column, ref.table, line') : ref \in refs}]]

create(t, cols, key, refs) ==
  IF Known(t) THEN UNCHANGED tables
  ELSE tables' = [i \in DOMAIN tables \cup {steps + 1} |->
         IF i \in DOMAIN tables THEN tables[i]
         ELSE [name |-> t, columns |-> cols, primaryKey |-> key,
               foreignKeys |-> {Reference(ref.name, ref.column, ref.table, line') : ref \in refs}]]

addColumn(t, c, n, key, refs) ==
  IF Known(t) /\ c \notin tables[Table(t)].columns
  THEN tables' = [tables EXCEPT ![Table(t)].columns = @ \cup {c},
                    ![Table(t)].primaryKey = IF key THEN {c} ELSE @,
                    ![Table(t)].foreignKeys = @ \cup {Reference(n, c, r, line') : r \in refs}]
  ELSE UNCHANGED tables

dropColumn(t, c) ==
  IF Known(t)
  THEN tables' = [tables EXCEPT ![Table(t)].columns = @ \ {c},
                                ![Table(t)].foreignKeys = {fk \in @ : fk.column # c}]
  ELSE UNCHANGED tables

addForeignKey(t, n, c, r) ==
  IF Known(t)
  THEN tables' = [tables EXCEPT ![Table(t)].foreignKeys = @ \cup {Reference(n, c, r, line')}]
  ELSE UNCHANGED tables

addPrimaryKey(t, c) ==
  IF Known(t) THEN tables' = [tables EXCEPT ![Table(t)].primaryKey = {c}]
              ELSE UNCHANGED tables

\* Foreign keys go by the name the migration gave them; primary keys stay.
dropConstraint(t, n) ==
  IF Known(t)
  THEN tables' = [tables EXCEPT ![Table(t)].foreignKeys = {fk \in @ : fk.name # n}]
  ELSE UNCHANGED tables

renameTable(t, u) ==
  IF Known(t)
  THEN tables' = [i \in DOMAIN tables |->
         [tables[i] EXCEPT
            !.name = IF i = Table(t) THEN u ELSE @,
            !.foreignKeys = {[fk EXCEPT !.refTable = IF @ = t THEN u ELSE @] : fk \in @}]]
  ELSE UNCHANGED tables

\* Only the column: keys keep the name it had.
renameColumn(t, c, d) ==
  IF Known(t) /\ c \in tables[Table(t)].columns
  THEN tables' = [tables EXCEPT ![Table(t)].columns = (@ \ {c}) \cup {d}]
  ELSE UNCHANGED tables

dropTable(t) ==
  tables' = [i \in {j \in DOMAIN tables : tables[j].name # t} |-> tables[i]]

-----------------------------------------------------------------------------
(***************************************************************************)
(* A statement of a migration.                                             *)
(***************************************************************************)
\* The statement stands where the last foreign key was added, or further on;
\* its place is only kept if it adds one.
Place(refs) == line' \in IF refs = {} THEN {line} ELSE {line, steps + 1}

Keys(cols) == [name : CreateNames, column : cols, table : TableNames]

Create(t) ==
  \E cols \in SUBSET ColumnNames : \E key \in {{}} \cup {{c} : c \in cols} :
  \E refs \in UNION {kSubset(n, Keys(cols)) : n \in 0..MaxKeys} :
    /\ cols # {} /\ Place(refs)
    /\ CreateTable(t, cols, key, refs, line') /\ create(t, cols, key, refs)
    /\ UNCHANGED beyond

CreateAgain(t) ==
  \E cols \in SUBSET ColumnNames :
    /\ CreateExisting(t) /\ create(t, cols, {}, {})
    /\ UNCHANGED <<line, beyond>>

Add(t, c) ==
  \E n \in Names, key \in BOOLEAN, refs \in {{}} \cup {{r} : r \in TableNames} :
    /\ \/ Place(refs) /\ AddColumn(t, c, n, key, refs, line')
       \/ AddExisting(t, c) /\ UNCHANGED line
    /\ addColumn(t, c, n, key, refs)
    /\ UNCHANGED beyond

AddForeign(t, c) ==
  \E n \in Names, r \in TableNames :
    /\ Place({r})
    /\ AddForeignKey(t, n, c, r, line') /\ addForeignKey(t, n, c, r)
    /\ UNCHANGED beyond

AddPrimary(t, c) ==
  \E n \in Names :
    /\ AddPrimaryKey(t, n, c) /\ addPrimaryKey(t, c)
    /\ UNCHANGED <<line, beyond>>

\* What a statement took away that Schema does not look at.
LosesKey(t)      == db'[TheTable(t)].key # db[TheTable(t)].key
Unnamed(t, n)    == n \notin Names /\ \E fk \in db[TheTable(t)].foreignKeys : fk.name = n
Ignored(kind, b) == IF b THEN {kind} ELSE {}

Drop(t, c) ==
  \E cascade \in BOOLEAN :
    /\ DropColumn(t, c, cascade) /\ dropColumn(t, c)
    /\ UNCHANGED line
    /\ beyond' = beyond \cup Ignored("keyDropped", LosesKey(t))
                        \cup Ignored("cascade", LosesKey(t) /\ Referring(TheTable(t)) # {})

DropConstr(t) ==
  \E n \in ConstraintName, cascade \in BOOLEAN :
    /\ DropConstraint(t, n, cascade) /\ dropConstraint(t, n)
    /\ UNCHANGED line
    /\ beyond' = beyond \cup Ignored("keyDropped", LosesKey(t))
                        \cup Ignored("cascade", LosesKey(t) /\ Referring(TheTable(t)) # {})
                        \cup Ignored("generatedName", Unnamed(t, n))

Rename(t) ==
  /\ \E u \in TableNames : RenameTable(t, u) /\ renameTable(t, u)
  /\ UNCHANGED <<line, beyond>>

RenameCol(t, c) ==
  /\ \E d \in ColumnNames : RenameColumn(t, c, d) /\ renameColumn(t, c, d)
  /\ UNCHANGED line /\ beyond' = beyond \cup {"columnRenamed"}

\* rename does nothing about a constraint.
RenameConstr(t) ==
  /\ \E n \in ConstraintName, m \in ConstraintNames : RenameConstraint(t, n, Given(m))
  /\ UNCHANGED <<line, tables>> /\ beyond' = beyond \cup {"constraintRenamed"}

DropTab(t) ==
  \E cascade \in BOOLEAN :
    /\ DropTable(t, cascade) /\ dropTable(t)
    /\ UNCHANGED line
    /\ beyond' = beyond \cup Ignored("cascade", \E p \in Referring(TheTable(t)) : p[1] # TheTable(t))

Next ==
  /\ steps < MaxStatements /\ steps' = steps + 1
  /\ \E t \in TableNames :
       \/ Create(t) \/ CreateAgain(t) \/ DropConstr(t) \/ Rename(t) \/ RenameConstr(t) \/ DropTab(t)
       \/ \E c \in ColumnNames : \/ Add(t, c) \/ AddForeign(t, c) \/ AddPrimary(t, c)
                                 \/ Drop(t, c) \/ RenameCol(t, c)

Spec == Init /\ [][Next]_vars

-----------------------------------------------------------------------------
(***************************************************************************)
(* Properties.                                                             *)
(***************************************************************************)
\* The variables of Schema have their types.
Ignorable == {"columnRenamed", "constraintRenamed", "keyDropped", "cascade", "generatedName"}

TypeOK ==
  /\ steps \in 0..MaxStatements /\ line \in Nat
  /\ beyond \subseteq Ignorable
  /\ DOMAIN tables \subseteq 1..MaxStatements
  /\ \A i \in DOMAIN tables :
       tables[i] \in [name : TableNames, columns : SUBSET ColumnNames,
                      primaryKey : SUBSET ColumnNames,
                      foreignKeys : SUBSET [name : Names, column : ColumnNames,
                                            refTable : TableNames, line : Nat]]

Columns(i) == {db[i].columns[k] : k \in DOMAIN db[i].columns}

\* "Schema is the database schema that results from applying DDL in order"
\* (schema.go:11), of tables and columns: the same, in the same order, by the
\* same names, each name once.
TablesAgree ==
  /\ DOMAIN tables = DOMAIN db
  /\ \A i \in DOMAIN tables : tables[i].name = db[i].name /\ tables[i].columns = Columns(i)
  /\ \A i, j \in DOMAIN tables : tables[i].name = tables[j].name => i = j

\* The foreign keys writeSchema adds to the graph: not those to a table that the
\* migrations do not create.
Added ==
  {[from |-> tables[p[1]].name, column |-> p[2].column, to |-> p[2].refTable, line |-> p[2].line] :
     p \in {q \in UNION {{i} \X tables[i].foreignKeys : i \in DOMAIN tables} :
              Known(q[2].refTable)}}

\* The edges: AddEdge ignores one that has the ends and the position of another,
\* whatever its columns, so the keys of one statement to one table are one edge.
Edge(key) == [from |-> key.from, to |-> key.to, line |-> key.line]
Shown     == {Edge(key) : key \in Added}

\* The columns that an edge may show: those of the first of its keys.
Shows(e) == {key.column : key \in {k \in Added : Edge(k) = e}}

\* The same of the database.
Actual ==
  {[from |-> db[p[1]].name, column |-> db[p[1]].columns[p[2].column], to |-> db[p[2].ref].name,
    line |-> p[2].line] : p \in UNION {{i} \X db[i].foreignKeys : i \in DOMAIN db}}

NothingRenamed == "columnRenamed" \notin beyond /\ "constraintRenamed" \notin beyond

\* As long as no column or constraint is renamed, every foreign key of the
\* database has an edge from its table to the one it refers to, at its statement.
NoForeignKeyLost ==
  NothingRenamed => {Edge(key) : key \in Actual} \subseteq Shown

\* Migrations that also drop no primary key, cascade to no foreign key and drop
\* none by a generated name have no other edges, and each edge, whichever of its
\* keys it got the columns of, shows columns of a key of the database; primary
\* keys are the database's.
KeysAgree ==
  beyond = {} =>
    /\ Shown = {Edge(key) : key \in Actual}
    /\ \A e \in Shown : Shows(e) = {key.column : key \in {k \in Actual : Edge(k) = e}}
    /\ \A i \in DOMAIN tables : tables[i].primaryKey = {db[i].columns[k] : k \in db[i].key}

-----------------------------------------------------------------------------
(***************************************************************************)
(* Why they hold: an inductive invariant.                                  *)
(***************************************************************************)
\* What PostgreSQL keeps true of its tables: their numbers are those of
\* statements executed, and so are the columns'; keys are on columns the table
\* has and refer to tables there are; no two tables have the same name, nor
\* two columns of a table; a named primary key is there.
Rows(i) ==
  [name : TableNames,
   columns : [DOMAIN db[i].columns -> ColumnNames],
   key : SUBSET DOMAIN db[i].columns,
   keyName : {NoName} \cup ConstraintName,
   foreignKeys : SUBSET [name : ConstraintName, column : DOMAIN db[i].columns,
                         ref : DOMAIN db, line : Nat]]

RowOK(i) ==
  /\ db[i] \in Rows(i)
  /\ DOMAIN db[i].columns \subseteq (1..steps) \X ColumnNames
  /\ \A k, l \in DOMAIN db[i].columns : db[i].columns[k] = db[i].columns[l] => k = l
  /\ db[i].keyName # NoName => db[i].key # {}

DbOK ==
  /\ DOMAIN db \subseteq 1..steps
  /\ \A i \in DOMAIN db : RowOK(i)
  /\ \A i, j \in DOMAIN db : db[i].name = db[j].name => i = j

\* A foreign key of table i as Schema has it: a generated name it does not know.
Entry(i, fk) ==
  Reference(IF fk.name \in Names THEN fk.name ELSE NoName,
            db[i].columns[fk.column], db[fk.ref].name, fk.line)

\* Schema has an entry for every foreign key, as long as no column or constraint
\* is renamed; it has no others, and the primary key, while it ignored nothing.
EntriesKept ==
  NothingRenamed =>
    \A i \in DOMAIN db : \A fk \in db[i].foreignKeys : Entry(i, fk) \in tables[i].foreignKeys

EntriesExact ==
  beyond = {} =>
    \A i \in DOMAIN db :
      /\ \A e \in tables[i].foreignKeys : \E fk \in db[i].foreignKeys : e = Entry(i, fk)
      /\ tables[i].primaryKey = {db[i].columns[k] : k \in db[i].key}

IInv == TypeOK /\ DbOK /\ TablesAgree /\ EntriesKept /\ EntriesExact

=============================================================================
