------------------------------ MODULE Postgres ------------------------------
(***************************************************************************)
(* What PostgreSQL makes of the DDL of migrations: what the Schema of      *)
(* internal/sqlparse is to agree with.                                     *)
(*                                                                         *)
(* A table keeps its identity, the number of the statement that created    *)
(* it, when it is renamed, and so do its columns.  Keys have one column.   *)
(* Types, indexes and the order of columns are left out.  A constraint has *)
(* the name it is given, or one generated from its table and column.  Of a *)
(* foreign key is kept, as history, on which line the migrations add it.   *)
(***************************************************************************)
EXTENDS Integers

CONSTANTS
  TableNames, ColumnNames, ConstraintNames,
  PKey             \* stands for the column in a primary key's generated name

ASSUME PKeyAssumption == PKey \notin ColumnNames

VARIABLES
  db,      \* the tables by number: name, columns, key, keyName, foreignKeys
  steps    \* how many statements were executed

NoName          == <<>>
Given(n)        == <<n>>
Generated(t, c) == <<t, c>>
ConstraintName  == {Given(n) : n \in ConstraintNames}
                     \cup {Generated(t, c) : t \in TableNames, c \in ColumnNames \cup {PKey}}

-----------------------------------------------------------------------------
Exists(t)       == \E i \in DOMAIN db : db[i].name = t
TheTable(t)     == CHOOSE i \in DOMAIN db : db[i].name = t
HasColumn(i, c) == \E k \in DOMAIN db[i].columns : db[i].columns[k] = c
TheColumn(i, c) == CHOOSE k \in DOMAIN db[i].columns : db[i].columns[k] = c
HasKey(t)       == Exists(t) /\ db[TheTable(t)].key # {}

\* A constraint's name, and whether table i has no other of that name.
NameOr(n, t, c) == IF n = NoName THEN Generated(t, c) ELSE n
Free(i, n)      == db[i].keyName # n /\ \A fk \in db[i].foreignKeys : fk.name # n

ForeignKey(n, k, i, l) == [name |-> n, column |-> k, ref |-> i, line |-> l]

\* The foreign keys, with their tables, that refer to table i.
Referring(i) ==
  {p \in UNION {{j} \X db[j].foreignKeys : j \in DOMAIN db} : p[2].ref = i}

\* The tables with table i become T, and the foreign keys gone left out.
Altered(i, T, gone) ==
  [j \in DOMAIN db |->
     [(IF j = i THEN T ELSE db[j]) EXCEPT
        !.foreignKeys = {fk \in @ : <<j, fk>> \notin gone}]]

-----------------------------------------------------------------------------
\* CREATE TABLE t, on line l, with a primary key on the columns of key (at most
\* one) and the foreign keys refs, also to itself.
CreateTable(t, cols, key, refs, l) ==
  /\ ~ Exists(t) /\ key \subseteq cols
  /\ \A ref \in refs : ref.column \in cols /\ (HasKey(ref.table) \/ (ref.table = t /\ key # {}))
  /\ \A r, q \in refs : NameOr(r.name, t, r.column) = NameOr(q.name, t, q.column) => r = q
  /\ LET new == steps + 1
         To(r) == IF r = t THEN new ELSE TheTable(r)
     IN db' = [i \in DOMAIN db \cup {new} |->
          IF i # new THEN db[i]
          ELSE [name    |-> t,
                columns |-> [k \in {<<new, c>> : c \in cols} |-> k[2]],
                key     |-> {<<new, c>> : c \in key},
                keyName |-> IF key = {} THEN NoName ELSE Generated(t, PKey),
                foreignKeys |->
                  {ForeignKey(NameOr(ref.name, t, ref.column), <<new, ref.column>>,
                              To(ref.table), l) : ref \in refs}]]

\* CREATE TABLE IF NOT EXISTS and ADD COLUMN IF NOT EXISTS, when it does.
CreateExisting(t)    == Exists(t) /\ UNCHANGED db
AddExisting(t, c)    == Exists(t) /\ HasColumn(TheTable(t), c) /\ UNCHANGED db

\* ALTER TABLE t ADD COLUMN c [PRIMARY KEY] [[CONSTRAINT n] REFERENCES ref], on
\* line l, refs at most one, with a primary key if key says so.
AddColumn(t, c, n, key, refs, l) ==
  /\ Exists(t)
  /\ LET i == TheTable(t)
         k == <<steps + 1, c>>
     IN /\ ~ HasColumn(i, c) /\ (key => db[i].key = {})
        /\ \A r \in refs : HasKey(r) /\ Free(i, NameOr(n, t, c))
        /\ db' = [db EXCEPT
             ![i].columns = [x \in DOMAIN @ \cup {k} |-> IF x = k THEN c ELSE @[x]],
             ![i].key = IF key THEN {k} ELSE @,
             ![i].keyName = IF key THEN Generated(t, PKey) ELSE @,
             ![i].foreignKeys =
               @ \cup {ForeignKey(NameOr(n, t, c), k, TheTable(r), l) : r \in refs}]

\* ALTER TABLE t DROP COLUMN c: with CASCADE also the foreign keys of others
\* that refer to the key it was.
DropColumn(t, c, cascade) ==
  /\ Exists(t)
  /\ LET i == TheTable(t)
         k == TheColumn(i, c)
         isKey == k \in db[i].key
         gone == IF isKey THEN Referring(i) ELSE {}
     IN /\ HasColumn(i, c) /\ (cascade \/ \A p \in gone : p[1] = i /\ p[2].column = k)
        /\ db' = Altered(i, [db[i] EXCEPT
             !.columns = [x \in DOMAIN @ \ {k} |-> @[x]],
             !.key = @ \ {k}, !.keyName = IF isKey THEN NoName ELSE @,
             !.foreignKeys = {fk \in @ : fk.column # k}], gone)

\* ALTER TABLE t ADD [CONSTRAINT n] FOREIGN KEY (c) REFERENCES r, on line l.
AddForeignKey(t, n, c, r, l) ==
  /\ Exists(t) /\ HasColumn(TheTable(t), c) /\ HasKey(r)
  /\ Free(TheTable(t), NameOr(n, t, c))
  /\ db' = [db EXCEPT ![TheTable(t)].foreignKeys =
              @ \cup {ForeignKey(NameOr(n, t, c), TheColumn(TheTable(t), c), TheTable(r), l)}]

\* ALTER TABLE t ADD [CONSTRAINT n] PRIMARY KEY (c).
AddPrimaryKey(t, n, c) ==
  /\ Exists(t) /\ HasColumn(TheTable(t), c)
  /\ db[TheTable(t)].key = {} /\ Free(TheTable(t), NameOr(n, t, PKey))
  /\ db' = [db EXCEPT ![TheTable(t)].key = {TheColumn(TheTable(t), c)},
                      ![TheTable(t)].keyName = NameOr(n, t, PKey)]

\* ALTER TABLE t DROP CONSTRAINT n, a foreign key or the primary key.
DropConstraint(t, n, cascade) ==
  /\ Exists(t) /\ ~ Free(TheTable(t), n)
  /\ LET i == TheTable(t)
         isKey == db[i].keyName = n
         gone == IF isKey THEN Referring(i) ELSE {}
     IN /\ cascade \/ gone = {}
        /\ db' = Altered(i, [db[i] EXCEPT
             !.key = IF isKey THEN {} ELSE @, !.keyName = IF isKey THEN NoName ELSE @,
             !.foreignKeys = {fk \in @ : fk.name # n}], gone)

\* ALTER TABLE t RENAME CONSTRAINT n TO m.
RenameConstraint(t, n, m) ==
  /\ Exists(t) /\ ~ Free(TheTable(t), n) /\ Free(TheTable(t), m)
  /\ db' = [db EXCEPT
       ![TheTable(t)].keyName = IF @ = n THEN m ELSE @,
       ![TheTable(t)].foreignKeys =
         {[fk EXCEPT !.name = IF @ = n THEN m ELSE @] : fk \in @}]

RenameTable(t, u) ==
  /\ Exists(t) /\ ~ Exists(u)
  /\ db' = [db EXCEPT ![TheTable(t)].name = u]

RenameColumn(t, c, d) ==
  /\ Exists(t) /\ HasColumn(TheTable(t), c) /\ ~ HasColumn(TheTable(t), d)
  /\ db' = [db EXCEPT ![TheTable(t)].columns[TheColumn(TheTable(t), c)] = d]

\* DROP TABLE t: with CASCADE also the foreign keys of others to it.
DropTable(t, cascade) ==
  /\ Exists(t)
  /\ LET i == TheTable(t)
     IN /\ cascade \/ \A p \in Referring(i) : p[1] = i
        /\ db' = [j \in DOMAIN db \ {i} |-> Altered(i, db[i], Referring(i))[j]]

=============================================================================
