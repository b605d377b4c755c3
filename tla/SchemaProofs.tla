---------------------------- MODULE SchemaProofs ----------------------------
(***************************************************************************)
(* Proofs that Schema knows the tables and columns of the database, and    *)
(* its foreign keys as far as Schema's properties say.                     *)
(*                                                                         *)
(* Every statement is looked at the same way: what it makes of db and of   *)
(* tables is stated field by field, and the conjuncts of the inductive     *)
(* invariant follow from that.                                             *)
(***************************************************************************)
EXTENDS Schema, TLAPS

USE DEF NothingRenamed

-----------------------------------------------------------------------------
(***************************************************************************)
(* Names of constraints: given, generated and missing ones differ.         *)
(***************************************************************************)
LEMMA NamesApart ==
  /\ NoName \notin ConstraintName
  /\ \A t, c : Generated(t, c) \notin Names
  /\ \A n \in ConstraintName, m \in Names : n \in Names \/ n # m
<1>1. \A n : Given(n) # NoName
  BY DEF Given, NoName
<1>2. \A t, c : Generated(t, c) # NoName /\ \A n : Generated(t, c) # Given(n)
  BY DEF Generated, NoName, Given
<1>3. QED
  BY <1>1, <1>2 DEF ConstraintName, Names

-----------------------------------------------------------------------------
(***************************************************************************)
(* What is found by its name.                                              *)
(***************************************************************************)
LEMMA TableOfName ==
  ASSUME NEW t, Exists(t)
  PROVE  TheTable(t) \in DOMAIN db /\ db[TheTable(t)].name = t
BY DEF Exists, TheTable

LEMMA ColumnOfName ==
  ASSUME NEW i, NEW c, HasColumn(i, c)
  PROVE  TheColumn(i, c) \in DOMAIN db[i].columns /\ db[i].columns[TheColumn(i, c)] = c
BY DEF HasColumn, TheColumn

\* Schema finds a table where the database has it.
LEMMA SameTable ==
  ASSUME DbOK, TablesAgree, steps \in Nat, NEW t
  PROVE  /\ Known(t) <=> Exists(t)
         /\ Exists(t) => Table(t) = TheTable(t)
<1>1. Known(t) <=> Exists(t)
  BY DEF TablesAgree, Known, Exists
<1>2. ASSUME Exists(t) PROVE Table(t) = TheTable(t)
  <2>1. TheTable(t) \in DOMAIN tables /\ tables[TheTable(t)].name = t
    BY <1>2, TableOfName DEF TablesAgree
  <2>2. \A j \in DOMAIN tables : tables[j].name = t => j = TheTable(t)
    BY <2>1 DEF TablesAgree
  <2>3. TheTable(t) \in Nat
    BY <2>1 DEF TablesAgree, DbOK
  <2>4. \E i \in DOMAIN tables :
          /\ tables[i].name = t
          /\ \A j \in DOMAIN tables : tables[j].name = t => i <= j
    BY <2>1, <2>2, <2>3
  <2>5. QED
    BY <2>2, <2>4 DEF Table
<1>3. QED
  BY <1>1, <1>2

-----------------------------------------------------------------------------
(***************************************************************************)
(* Records field by field.                                                 *)
(***************************************************************************)
Row(n, cols, key, kn, fks) ==
  [name |-> n, columns |-> cols, key |-> key, keyName |-> kn, foreignKeys |-> fks]

Entries(n, cols, key, fks) ==
  [name |-> n, columns |-> cols, primaryKey |-> key, foreignKeys |-> fks]

IsRow(r)     == r = Row(r.name, r.columns, r.key, r.keyName, r.foreignKeys)
IsEntries(e) == e = Entries(e.name, e.columns, e.primaryKey, e.foreignKeys)

LEMMA RowChanges ==
  ASSUME NEW r, IsRow(r), NEW new
  PROVE  /\ [r EXCEPT !.name = new] = Row(new, r.columns, r.key, r.keyName, r.foreignKeys)
         /\ [r EXCEPT !.columns = new] = Row(r.name, new, r.key, r.keyName, r.foreignKeys)
         /\ [r EXCEPT !.key = new] = Row(r.name, r.columns, new, r.keyName, r.foreignKeys)
         /\ [r EXCEPT !.keyName = new] = Row(r.name, r.columns, r.key, new, r.foreignKeys)
         /\ [r EXCEPT !.foreignKeys = new] = Row(r.name, r.columns, r.key, r.keyName, new)
BY DEF IsRow, Row

LEMMA EntriesChanges ==
  ASSUME NEW e, IsEntries(e), NEW new
  PROVE  /\ [e EXCEPT !.name = new] = Entries(new, e.columns, e.primaryKey, e.foreignKeys)
         /\ [e EXCEPT !.columns = new] = Entries(e.name, new, e.primaryKey, e.foreignKeys)
         /\ [e EXCEPT !.primaryKey = new] = Entries(e.name, e.columns, new, e.foreignKeys)
         /\ [e EXCEPT !.foreignKeys = new] = Entries(e.name, e.columns, e.primaryKey, new)
BY DEF IsEntries, Entries

LEMMA Fields ==
  ASSUME NEW n, NEW cols, NEW key, NEW kn, NEW fks
  PROVE  /\ IsRow(Row(n, cols, key, kn, fks))
         /\ Row(n, cols, key, kn, fks).name = n
         /\ Row(n, cols, key, kn, fks).columns = cols
         /\ Row(n, cols, key, kn, fks).key = key
         /\ Row(n, cols, key, kn, fks).keyName = kn
         /\ Row(n, cols, key, kn, fks).foreignKeys = fks
         /\ IsEntries(Entries(n, cols, key, fks))
         /\ Entries(n, cols, key, fks).name = n
         /\ Entries(n, cols, key, fks).columns = cols
         /\ Entries(n, cols, key, fks).primaryKey = key
         /\ Entries(n, cols, key, fks).foreignKeys = fks
BY DEF IsRow, Row, IsEntries, Entries

\* Fields assigned together.
LEMMA KeyOfRow ==
  ASSUME NEW r, IsRow(r), NEW new, NEW newer
  PROVE  [r EXCEPT !.key = new, !.keyName = newer]
           = Row(r.name, r.columns, new, newer, r.foreignKeys)
<1>1. PICK r1 : r1 = [r EXCEPT !.key = new]
  OBVIOUS
<1>2. r1 = Row(r.name, r.columns, new, r.keyName, r.foreignKeys)
  BY <1>1, RowChanges
<1>3. /\ IsRow(r1) /\ r1.name = r.name /\ r1.columns = r.columns /\ r1.key = new
      /\ r1.foreignKeys = r.foreignKeys
  BY <1>2, Fields
<1>4. [r1 EXCEPT !.keyName = newer] = Row(r.name, r.columns, new, newer, r.foreignKeys)
  BY <1>3 DEF IsRow, Row
<1>5. QED
  BY <1>1, <1>4

LEMMA ColumnsOfEntries ==
  ASSUME NEW e, IsEntries(e), NEW new, NEW newer
  PROVE  [e EXCEPT !.columns = new, !.foreignKeys = newer]
           = Entries(e.name, new, e.primaryKey, newer)
<1>1. PICK e1 : e1 = [e EXCEPT !.columns = new]
  OBVIOUS
<1>2. IsEntries(e1) /\ e1.name = e.name /\ e1.columns = new /\ e1.primaryKey = e.primaryKey
  <2>1. e1 = Entries(e.name, new, e.primaryKey, e.foreignKeys)
    BY <1>1, EntriesChanges
  <2>2. QED
    BY <2>1, Fields
<1>3. [e1 EXCEPT !.foreignKeys = newer] = Entries(e.name, new, e.primaryKey, newer)
  BY <1>2 DEF IsEntries, Entries
<1>4. QED
  BY <1>1, <1>3

SetFour(r, cols, key, kn, fks) ==
  [r EXCEPT !.columns = cols, !.key = key, !.keyName = kn, !.foreignKeys = fks]

LEMMA FourOfRow ==
  ASSUME NEW r, IsRow(r), NEW cols, NEW key, NEW kn, NEW fks
  PROVE  SetFour(r, cols, key, kn, fks) = Row(r.name, cols, key, kn, fks)
<1>1. PICK r1 : r1 = [r EXCEPT !.columns = cols]
  OBVIOUS
<1>2. /\ IsRow(r1) /\ r1.name = r.name /\ r1.columns = cols /\ r1.key = r.key
      /\ r1.keyName = r.keyName /\ r1.foreignKeys = r.foreignKeys
  <2>1. r1 = Row(r.name, cols, r.key, r.keyName, r.foreignKeys)
    BY <1>1, RowChanges
  <2>2. QED
    BY <2>1, Fields
<1>3. PICK r2 : r2 = [r1 EXCEPT !.key = key, !.keyName = kn]
  OBVIOUS
<1>4. /\ IsRow(r2) /\ r2.name = r.name /\ r2.columns = cols /\ r2.key = key
      /\ r2.keyName = kn /\ r2.foreignKeys = r.foreignKeys
  <2>1. r2 = Row(r1.name, r1.columns, key, kn, r1.foreignKeys)
    BY <1>2, <1>3, KeyOfRow
  <2>2. QED
    BY <1>2, <2>1, Fields
<1>5. [r2 EXCEPT !.foreignKeys = fks] = Row(r.name, cols, key, kn, fks)
  BY <1>4 DEF IsRow, Row
<1>6. QED
  BY <1>1, <1>3, <1>5 DEF SetFour

SetThree(r, key, kn, fks) == [r EXCEPT !.key = key, !.keyName = kn, !.foreignKeys = fks]

LEMMA ThreeOfRow ==
  ASSUME NEW r, IsRow(r), NEW key, NEW kn, NEW fks
  PROVE  SetThree(r, key, kn, fks) = Row(r.name, r.columns, key, kn, fks)
<1>1. PICK r1 : r1 = [r EXCEPT !.key = key, !.keyName = kn]
  OBVIOUS
<1>2. /\ IsRow(r1) /\ r1.name = r.name /\ r1.columns = r.columns /\ r1.key = key
      /\ r1.keyName = kn
  <2>1. r1 = Row(r.name, r.columns, key, kn, r.foreignKeys)
    BY <1>1, KeyOfRow
  <2>2. QED
    BY <2>1, Fields
<1>3. [r1 EXCEPT !.foreignKeys = fks] = Row(r.name, r.columns, key, kn, fks)
  BY <1>2 DEF IsRow, Row
<1>4. QED
  BY <1>1, <1>3 DEF SetThree

SetEntries(e, cols, pk, fks) ==
  [e EXCEPT !.columns = cols, !.primaryKey = pk, !.foreignKeys = fks]

LEMMA ThreeOfEntries ==
  ASSUME NEW e, IsEntries(e), NEW cols, NEW pk, NEW fks
  PROVE  SetEntries(e, cols, pk, fks) = Entries(e.name, cols, pk, fks)
<1>1. PICK e1 : e1 = [e EXCEPT !.columns = cols]
  OBVIOUS
<1>2. IsEntries(e1) /\ e1.name = e.name /\ e1.columns = cols
  <2>1. e1 = Entries(e.name, cols, e.primaryKey, e.foreignKeys)
    BY <1>1, EntriesChanges
  <2>2. QED
    BY <2>1, Fields
<1>3. PICK e2 : e2 = [e1 EXCEPT !.primaryKey = pk]
  OBVIOUS
<1>4. IsEntries(e2) /\ e2.name = e.name /\ e2.columns = cols /\ e2.primaryKey = pk
  <2>1. e2 = Entries(e1.name, e1.columns, pk, e1.foreignKeys)
    BY <1>2, <1>3, EntriesChanges
  <2>2. QED
    BY <1>2, <2>1, Fields
<1>5. [e2 EXCEPT !.foreignKeys = fks] = Entries(e.name, cols, pk, fks)
  BY <1>4 DEF IsEntries, Entries
<1>6. QED
  BY <1>1, <1>3, <1>5 DEF SetEntries

LEMMA RowShape ==
  ASSUME DbOK, NEW j \in DOMAIN db
  PROVE  /\ IsRow(db[j])
         /\ db[j].name \in TableNames
         /\ db[j].columns \in [DOMAIN db[j].columns -> ColumnNames]
         /\ db[j].key \subseteq DOMAIN db[j].columns
         /\ db[j].keyName \in {NoName} \cup ConstraintName
         /\ \A fk \in db[j].foreignKeys :
              /\ fk.name \in ConstraintName
              /\ fk.column \in DOMAIN db[j].columns
              /\ fk.ref \in DOMAIN db
         /\ db[j].foreignKeys \subseteq
              [name : ConstraintName, column : DOMAIN db[j].columns, ref : DOMAIN db, line : Nat]
<1>1. db[j] \in Rows(j)
  BY DEF DbOK, RowOK
<1>2. QED
  BY <1>1 DEF Rows, Row, IsRow

LEMMA EntriesShape ==
  ASSUME TypeOK, NEW j \in DOMAIN tables
  PROVE  /\ IsEntries(tables[j])
         /\ tables[j].name \in TableNames
         /\ tables[j].columns \subseteq ColumnNames
         /\ tables[j].primaryKey \subseteq ColumnNames
         /\ tables[j].foreignKeys \subseteq
              [name : Names, column : ColumnNames, refTable : TableNames, line : Nat]
BY DEF TypeOK, Entries, IsEntries

\* A table that keeps all but some of its foreign keys, and maybe its name.
LEMMA RowKept ==
  ASSUME NEW j \in DOMAIN db, DbOK, steps \in Nat, steps' = steps + 1,
         NEW n \in TableNames, NEW fks,
         db'[j] = Row(n, db[j].columns, db[j].key, db[j].keyName, fks),
         fks \subseteq [name : ConstraintName, column : DOMAIN db[j].columns, ref : DOMAIN db', line : Nat]
  PROVE  RowOK(j)'
<1>1. /\ db'[j].name = n /\ db'[j].columns = db[j].columns /\ db'[j].key = db[j].key
      /\ db'[j].keyName = db[j].keyName /\ db'[j].foreignKeys = fks
  BY DEF Row
<1>2. db'[j] \in Rows(j)'
  BY <1>1, RowShape DEF Rows, Row
<1>3. QED
  BY <1>1, <1>2 DEF RowOK, DbOK

-----------------------------------------------------------------------------
(***************************************************************************)
(* Statements that alter one table and keep its name; others may lose      *)
(* foreign keys by it.                                                     *)
(***************************************************************************)
Kept(n) == IF n \in Names THEN n ELSE NoName

References(cols) == [name : ConstraintName, column : DOMAIN cols, ref : DOMAIN db, line : Nat]

\* What such a statement does: table i gets these fields in db and in tables.
Alters(i, cols, key, kn, fks, pk, es) ==
  /\ DOMAIN db' = DOMAIN db
  /\ db'[i] = Row(db[i].name, cols, key, kn, fks)
  /\ \A j \in DOMAIN db \ {i} : \E F \in SUBSET db[j].foreignKeys :
       db'[j] = Row(db[j].name, db[j].columns, db[j].key, db[j].keyName, F)
  /\ DOMAIN tables' = DOMAIN tables
  /\ tables'[i] = Entries(tables[i].name, {cols[k] : k \in DOMAIN cols}, pk, es)
  /\ \A j \in DOMAIN tables \ {i} : tables'[j] = tables[j]
  /\ beyond \subseteq beyond'
  /\ beyond' \subseteq Ignorable

\* They have the types they should have.
GoodRow(cols, key, kn, fks) ==
  /\ cols \in [DOMAIN cols -> ColumnNames]
  /\ DOMAIN cols \subseteq (1..(steps + 1)) \X ColumnNames
  /\ \A k, l \in DOMAIN cols : cols[k] = cols[l] => k = l
  /\ key \subseteq DOMAIN cols
  /\ kn \in {NoName} \cup ConstraintName
  /\ kn # NoName => key # {}
  /\ fks \subseteq References(cols)

GoodEntries(pk, es) ==
  /\ pk \subseteq ColumnNames
  /\ es \subseteq [name : Names, column : ColumnNames, refTable : TableNames, line : Nat]

\* The entries are those of the foreign keys, if Schema saw all that was done.
Matched(i, cols, key, fks, pk, es) ==
  /\ NothingRenamed' =>
       \A fk \in fks : Reference(Kept(fk.name), cols[fk.column], db[fk.ref].name, fk.line) \in es
  /\ beyond' = {} =>
       /\ \A j \in DOMAIN db \ {i} : db'[j].foreignKeys = db[j].foreignKeys
       /\ \A e \in es : \E fk \in fks :
            e = Reference(Kept(fk.name), cols[fk.column], db[fk.ref].name, fk.line)
       /\ pk = {cols[k] : k \in key}

LEMMA Altering ==
  ASSUME IInv, steps < MaxStatements, steps' = steps + 1, line' \in Nat,
         NEW i \in DOMAIN db,
         NEW cols, NEW key, NEW kn, NEW fks, NEW pk, NEW es,
         Alters(i, cols, key, kn, fks, pk, es),
         GoodRow(cols, key, kn, fks), GoodEntries(pk, es),
         Matched(i, cols, key, fks, pk, es)
  PROVE  IInv'
<1> USE DEF Alters, GoodRow, GoodEntries, Matched
<1>1. steps \in Nat /\ steps + 1 \in 0..MaxStatements /\ i \in DOMAIN tables
  BY StatementsAssumption DEF IInv, TypeOK, TablesAgree
<1>2. /\ db'[i].name = db[i].name /\ db'[i].columns = cols /\ db'[i].key = key
      /\ db'[i].keyName = kn /\ db'[i].foreignKeys = fks
  BY DEF Row
<1>3. ASSUME NEW j \in DOMAIN db \ {i}
      PROVE  /\ db'[j].name = db[j].name /\ db'[j].columns = db[j].columns
             /\ db'[j].key = db[j].key /\ db'[j].keyName = db[j].keyName
             /\ db'[j].foreignKeys \subseteq db[j].foreignKeys
             /\ RowOK(j)'
  <2>1. PICK F \in SUBSET db[j].foreignKeys :
          db'[j] = Row(db[j].name, db[j].columns, db[j].key, db[j].keyName, F)
    OBVIOUS
  <2>2. db[j].name \in TableNames
        /\ F \subseteq [name : ConstraintName, column : DOMAIN db[j].columns, ref : DOMAIN db', line : Nat]
    BY RowShape DEF IInv
  <2>3. RowOK(j)'
    BY <1>1, <2>1, <2>2, RowKept DEF IInv
  <2>4. QED
    BY <2>1, <2>3 DEF Row
<1>4. /\ tables'[i].name = tables[i].name /\ tables'[i].columns = {cols[k] : k \in DOMAIN cols}
      /\ tables'[i].primaryKey = pk /\ tables'[i].foreignKeys = es
  BY DEF Entries
<1>5. DbOK'
  <2>1. db'[i] \in Rows(i)'
    BY <1>2, RowShape DEF Rows, Row, References, IInv
  <2>2. RowOK(i)'
    BY <1>1, <1>2, <2>1 DEF RowOK
  <2>3. \A j \in DOMAIN db' : RowOK(j)'
    BY <1>3, <2>2
  <2>4. \A j, l \in DOMAIN db' : db'[j].name = db'[l].name => j = l
    BY <1>2, <1>3 DEF IInv, DbOK
  <2>5. DOMAIN db' \subseteq 1..steps'
    BY <1>1 DEF IInv, DbOK
  <2>6. QED
    BY <2>3, <2>4, <2>5 DEF DbOK
<1>6. TypeOK'
  <2>1. ASSUME NEW j \in DOMAIN tables
        PROVE  tables'[j] \in [name : TableNames, columns : SUBSET ColumnNames,
                               primaryKey : SUBSET ColumnNames,
                               foreignKeys : SUBSET [name : Names, column : ColumnNames,
                                                     refTable : TableNames, line : Nat]]
    <3>1. CASE j = i
      <4>1. {cols[k] : k \in DOMAIN cols} \subseteq ColumnNames /\ tables[i].name \in TableNames
        BY <1>1, EntriesShape DEF IInv
      <4>2. QED
        BY <3>1, <4>1 DEF Entries
    <3>2. CASE j # i
      BY <3>2 DEF IInv, TypeOK
    <3>3. QED
      BY <3>1, <3>2
  <2>2. QED
    BY <1>1, <2>1 DEF IInv, TypeOK
<1>7. TablesAgree'
  <2>1. ASSUME NEW j \in DOMAIN tables
        PROVE  tables'[j].name = db'[j].name /\ tables'[j].columns = Columns(j)'
    <3>1. CASE j = i
      BY <1>2, <1>4, <3>1 DEF Columns, IInv, TablesAgree
    <3>2. CASE j # i
      BY <1>3, <3>2 DEF Columns, IInv, TablesAgree
    <3>3. QED
      BY <3>1, <3>2
  <2>2. \A j \in DOMAIN tables : tables'[j].name = tables[j].name
    BY <1>4
  <2>3. QED
    BY <2>1, <2>2 DEF IInv, TablesAgree
<1>8. \A fk \in fks : Entry(i, fk)' = Reference(Kept(fk.name), cols[fk.column], db[fk.ref].name, fk.line)
  <2>1. \A fk \in fks : fk.ref \in DOMAIN db
    BY DEF References
  <2>2. \A fk \in fks : db'[fk.ref].name = db[fk.ref].name
    BY <1>2, <1>3, <2>1
  <2>3. QED
    BY <1>2, <2>2 DEF Entry, Kept
<1>9. \A j \in DOMAIN db \ {i} : \A fk \in db[j].foreignKeys : Entry(j, fk)' = Entry(j, fk)
  <2>1. \A j \in DOMAIN db : \A fk \in db[j].foreignKeys : fk.ref \in DOMAIN db
    BY RowShape DEF IInv
  <2>2. \A j \in DOMAIN db : \A fk \in db[j].foreignKeys : db'[fk.ref].name = db[fk.ref].name
    BY <1>2, <1>3, <2>1
  <2>3. QED
    BY <1>3, <2>2 DEF Entry
<1>10. EntriesKept'
  <2>1. SUFFICES ASSUME NothingRenamed', NEW j \in DOMAIN db,
                        NEW fk \in db'[j].foreignKeys
                 PROVE  Entry(j, fk)' \in tables'[j].foreignKeys
    BY DEF EntriesKept
  <2>2. CASE j = i
    BY <1>2, <1>4, <1>8, <2>1, <2>2
  <2>3. CASE j # i
    BY <1>3, <1>9, <2>1, <2>3 DEF IInv, EntriesKept, TablesAgree
  <2>4. QED
    BY <2>2, <2>3
<1>11. EntriesExact'
  <2>1. SUFFICES ASSUME beyond' = {}, NEW j \in DOMAIN db
                 PROVE  /\ \A e \in tables'[j].foreignKeys :
                             \E fk \in db'[j].foreignKeys : e = Entry(j, fk)'
                        /\ tables'[j].primaryKey = {db'[j].columns[k] : k \in db'[j].key}
    BY DEF EntriesExact
  <2>2. CASE j = i
    BY <1>2, <1>4, <1>8, <2>1, <2>2
  <2>3. CASE j # i
    <3>1. beyond = {} /\ db'[j].foreignKeys = db[j].foreignKeys /\ tables'[j] = tables[j]
      BY <2>1, <2>3 DEF IInv, TablesAgree
    <3>2. QED
      BY <1>3, <1>9, <2>1, <2>3, <3>1 DEF IInv, EntriesExact
  <2>4. QED
    BY <2>2, <2>3
<1>12. QED
  BY <1>5, <1>6, <1>7, <1>10, <1>11 DEF IInv

\* What both hold of a table that is there, all that Altering asks for.
LEMMA Found ==
  ASSUME IInv, NEW t, Exists(t), NEW i, i = TheTable(t)
  PROVE  /\ i \in DOMAIN db /\ i \in DOMAIN tables /\ Known(t) /\ Table(t) = i
         /\ db[i].name = t /\ tables[i].name = t
         /\ tables[i].columns = {db[i].columns[k] : k \in DOMAIN db[i].columns}
         /\ IsRow(db[i]) /\ IsEntries(tables[i])
         /\ GoodRow(db[i].columns, db[i].key, db[i].keyName, db[i].foreignKeys)
         /\ GoodEntries(tables[i].primaryKey, tables[i].foreignKeys)
<1>1. i \in DOMAIN db /\ db[i].name = t /\ steps \in Nat
  BY TableOfName DEF IInv, TypeOK
<1>2. Known(t) /\ Table(t) = i
  BY <1>1, SameTable DEF IInv
<1>3. i \in DOMAIN tables /\ tables[i].name = t /\ tables[i].columns = Columns(i)
  BY <1>1 DEF IInv, TablesAgree
<1>4. RowOK(i)
  BY <1>1 DEF IInv, DbOK
<1>5. DOMAIN db[i].columns \subseteq (1..(steps + 1)) \X ColumnNames
  BY <1>1, <1>4 DEF RowOK
<1>6. GoodRow(db[i].columns, db[i].key, db[i].keyName, db[i].foreignKeys)
  BY <1>1, <1>4, <1>5, RowShape DEF IInv, References, GoodRow, RowOK
<1>7. GoodEntries(tables[i].primaryKey, tables[i].foreignKeys)
  BY <1>3, EntriesShape DEF IInv, GoodEntries
<1>8. IsRow(db[i]) /\ IsEntries(tables[i])
  BY <1>1, <1>3, RowShape, EntriesShape DEF IInv
<1>9. QED
  BY <1>1, <1>2, <1>3, <1>6, <1>7, <1>8 DEF Columns

\* The invariant on the foreign keys of a table, in the words of Matched.
LEMMA KeysFound ==
  ASSUME IInv, NEW i \in DOMAIN db
  PROVE  /\ NothingRenamed =>
              \A fk \in db[i].foreignKeys :
                Reference(Kept(fk.name), db[i].columns[fk.column], db[fk.ref].name, fk.line)
                  \in tables[i].foreignKeys
         /\ beyond = {} =>
              /\ \A e \in tables[i].foreignKeys : \E fk \in db[i].foreignKeys :
                   e = Reference(Kept(fk.name), db[i].columns[fk.column], db[fk.ref].name, fk.line)
              /\ tables[i].primaryKey = {db[i].columns[k] : k \in db[i].key}
BY DEF IInv, EntriesKept, EntriesExact, Entry, Kept

\* A statement that changes one table in the database and in Schema.
LEMMA AltersOne ==
  ASSUME IInv, NEW i \in DOMAIN db, i \in DOMAIN tables,
         NEW cols, NEW key, NEW kn, NEW fks, NEW pk, NEW es, NEW names,
         db' = [db EXCEPT ![i] = Row(db[i].name, cols, key, kn, fks)],
         tables' = [tables EXCEPT ![i] = Entries(tables[i].name, names, pk, es)],
         names = {cols[k] : k \in DOMAIN cols},
         beyond' \subseteq Ignorable,
         beyond \subseteq beyond'
  PROVE  Alters(i, cols, key, kn, fks, pk, es)
<1>1. \A j \in DOMAIN db \ {i} : \E F \in SUBSET db[j].foreignKeys :
        db'[j] = Row(db[j].name, db[j].columns, db[j].key, db[j].keyName, F)
  BY RowShape DEF IInv, IsRow
<1>2. QED
  BY <1>1 DEF Alters

\* What a statement leaves in beyond.
LEMMA SameBeyond ==
  ASSUME IInv, UNCHANGED beyond
  PROVE  /\ beyond' \subseteq Ignorable
         /\ beyond \subseteq beyond'
BY DEF IInv, TypeOK

-----------------------------------------------------------------------------
LEMMA AddForeignStep ==
  ASSUME IInv, steps < MaxStatements, steps' = steps + 1, line' \in Nat,
         NEW t \in TableNames, NEW c \in ColumnNames, AddForeign(t, c)
  PROVE  IInv'
<1> DEFINE i == TheTable(t)
           k == TheColumn(i, c)
<1>1. PICK n \in Names, r \in TableNames :
        /\ AddForeignKey(t, n, c, r, line') /\ addForeignKey(t, n, c, r)
        /\ UNCHANGED beyond
  BY DEF AddForeign
<1> DEFINE fk  == ForeignKey(NameOr(n, t, c), k, TheTable(r), line')
           fks == db[i].foreignKeys \cup {fk}
           es  == tables[i].foreignKeys \cup {Reference(n, c, r, line')}
<1>2. /\ Exists(t) /\ k \in DOMAIN db[i].columns /\ db[i].columns[k] = c
      /\ TheTable(r) \in DOMAIN db /\ db[TheTable(r)].name = r
  BY <1>1, TableOfName, ColumnOfName DEF AddForeignKey, HasKey
<1>3. /\ i \in DOMAIN db /\ i \in DOMAIN tables /\ Known(t) /\ Table(t) = i
      /\ db[i].name = t /\ tables[i].name = t
      /\ tables[i].columns = {db[i].columns[x] : x \in DOMAIN db[i].columns}
      /\ IsRow(db[i]) /\ IsEntries(tables[i])
      /\ GoodRow(db[i].columns, db[i].key, db[i].keyName, db[i].foreignKeys)
      /\ GoodEntries(tables[i].primaryKey, tables[i].foreignKeys)
  BY <1>2, Found
<1>rows. IsRow(db[i]) /\ IsEntries(tables[i])
  BY <1>3
<1>4. /\ fk \in References(db[i].columns)
      /\ Reference(Kept(fk.name), db[i].columns[fk.column], db[fk.ref].name, fk.line) = Reference(n, c, r, line')
  <2>1. NameOr(n, t, c) \in ConstraintName
    BY DEF NameOr, ConstraintName, Names
  <2>2. Kept(NameOr(n, t, c)) = n
    BY NamesApart DEF NameOr, Kept
  <2>3. QED
    BY <1>2, <2>1, <2>2 DEF ForeignKey, References
<1>5. Alters(i, db[i].columns, db[i].key, db[i].keyName, fks, tables[i].primaryKey, es)
  <2>1. db' = [db EXCEPT ![i] = [db[i] EXCEPT !.foreignKeys = fks]]
    BY <1>1, <1>3 DEF AddForeignKey
  <2>2. tables' = [tables EXCEPT ![i] = [tables[i] EXCEPT !.foreignKeys = es]]
    BY <1>1, <1>3 DEF addForeignKey
  <2> HIDE DEF i, fks, es
  <2>3. [db[i] EXCEPT !.foreignKeys = fks]
          = Row(db[i].name, db[i].columns, db[i].key, db[i].keyName, fks)
    BY <1>rows, RowChanges
  <2>4. [tables[i] EXCEPT !.foreignKeys = es]
          = Entries(tables[i].name, tables[i].columns, tables[i].primaryKey, es)
    BY <1>rows, EntriesChanges
  <2>5. UNCHANGED beyond
    BY DEF AddForeign
  <2>6. /\ db' = [db EXCEPT ![i] = Row(db[i].name, db[i].columns, db[i].key, db[i].keyName, fks)]
        /\ tables' = [tables EXCEPT ![i] = Entries(tables[i].name, tables[i].columns,
                                                   tables[i].primaryKey, es)]
    BY <2>1, <2>2, <2>3, <2>4
  <2>7. QED
    BY <1>3, <2>5, <2>6, AltersOne, SameBeyond
<1>6. Reference(n, c, r, line') \in [name : Names, column : ColumnNames, refTable : TableNames, line : Nat]
  BY DEF Reference
<1>7. GoodRow(db[i].columns, db[i].key, db[i].keyName, fks)
  BY <1>3, <1>4 DEF GoodRow
<1>8. GoodEntries(tables[i].primaryKey, es)
  BY <1>3, <1>6 DEF GoodEntries
<1>9. Matched(i, db[i].columns, db[i].key, fks, tables[i].primaryKey, es)
  <2>1. UNCHANGED beyond /\ \A j \in DOMAIN db \ {i} : db'[j] = db[j]
    BY <1>1 DEF AddForeign, AddForeignKey
  <2>2. QED
    BY <1>3, <1>4, <2>1, KeysFound DEF Matched
<1> HIDE DEF fks, es, fk, k, i
<1>10. QED
  BY <1>3, <1>5, <1>7, <1>8, <1>9, Altering

LEMMA AddPrimaryStep ==
  ASSUME IInv, steps < MaxStatements, steps' = steps + 1, line' \in Nat,
         NEW t \in TableNames, NEW c \in ColumnNames, AddPrimary(t, c)
  PROVE  IInv'
<1> DEFINE i == TheTable(t)
           k == TheColumn(i, c)
<1>1. PICK n \in Names : AddPrimaryKey(t, n, c) /\ addPrimaryKey(t, c)
  BY DEF AddPrimary
<1> DEFINE kn == NameOr(n, t, PKey)
<1>2. Exists(t) /\ k \in DOMAIN db[i].columns /\ db[i].columns[k] = c
  BY <1>1, ColumnOfName DEF AddPrimaryKey
<1>3. /\ i \in DOMAIN db /\ i \in DOMAIN tables /\ Known(t) /\ Table(t) = i
      /\ db[i].name = t /\ tables[i].name = t
      /\ tables[i].columns = {db[i].columns[x] : x \in DOMAIN db[i].columns}
      /\ IsRow(db[i]) /\ IsEntries(tables[i])
      /\ GoodRow(db[i].columns, db[i].key, db[i].keyName, db[i].foreignKeys)
      /\ GoodEntries(tables[i].primaryKey, tables[i].foreignKeys)
  BY <1>2, Found
<1>rows. IsRow(db[i]) /\ IsEntries(tables[i])
  BY <1>3
<1>4. kn \in ConstraintName
  BY DEF NameOr, ConstraintName, Names
<1>5. Alters(i, db[i].columns, {k}, kn, db[i].foreignKeys, {c}, tables[i].foreignKeys)
  <2>1. db' = [db EXCEPT ![i] = [db[i] EXCEPT !.key = {k}, !.keyName = kn]]
    BY <1>1, <1>3 DEF AddPrimaryKey
  <2>2. [db[i] EXCEPT !.key = {k}, !.keyName = kn]
          = Row(db[i].name, db[i].columns, {k}, kn, db[i].foreignKeys)
    BY <1>rows, KeyOfRow
  <2>3. tables' = [tables EXCEPT ![i] = [tables[i] EXCEPT !.primaryKey = {c}]]
    BY <1>1, <1>3 DEF addPrimaryKey
  <2>4. [tables[i] EXCEPT !.primaryKey = {c}]
          = Entries(tables[i].name, tables[i].columns, {c}, tables[i].foreignKeys)
    BY <1>rows, EntriesChanges
  <2>5. UNCHANGED beyond
    BY DEF AddPrimary
  <2> HIDE DEF i, k, kn
  <2>6. /\ db' = [db EXCEPT ![i] = Row(db[i].name, db[i].columns, {k}, kn, db[i].foreignKeys)]
        /\ tables' = [tables EXCEPT ![i] = Entries(tables[i].name, tables[i].columns, {c},
                                                   tables[i].foreignKeys)]
    BY <2>1, <2>2, <2>3, <2>4
  <2>7. QED
    BY <1>3, <2>5, <2>6, AltersOne, SameBeyond
<1>6. GoodRow(db[i].columns, {k}, kn, db[i].foreignKeys)
  BY <1>2, <1>3, <1>4 DEF GoodRow
<1>7. GoodEntries({c}, tables[i].foreignKeys)
  BY <1>3 DEF GoodEntries
<1>8. Matched(i, db[i].columns, {k}, db[i].foreignKeys, {c}, tables[i].foreignKeys)
  <2>1. UNCHANGED beyond /\ \A j \in DOMAIN db \ {i} : db'[j] = db[j]
    BY <1>1 DEF AddPrimary, AddPrimaryKey
  <2>2. QED
    BY <1>2, <1>3, <2>1, KeysFound DEF Matched
<1> HIDE DEF kn, k, i
<1>9. QED
  BY <1>3, <1>5, <1>6, <1>7, <1>8, Altering

LEMMA RenameColStep ==
  ASSUME IInv, steps < MaxStatements, steps' = steps + 1, line' \in Nat,
         NEW t \in TableNames, NEW c \in ColumnNames, RenameCol(t, c)
  PROVE  IInv'
<1> DEFINE i == TheTable(t)
           k == TheColumn(i, c)
<1>1. PICK d \in ColumnNames : RenameColumn(t, c, d) /\ renameColumn(t, c, d)
  BY DEF RenameCol
<1> DEFINE old  == db[i].columns
           cols == [old EXCEPT ![k] = d]
<1>2. Exists(t) /\ k \in DOMAIN old /\ old[k] = c
  BY <1>1, ColumnOfName DEF RenameColumn
<1>3. /\ i \in DOMAIN db /\ i \in DOMAIN tables /\ Known(t) /\ Table(t) = i
      /\ db[i].name = t /\ tables[i].name = t
      /\ tables[i].columns = {db[i].columns[x] : x \in DOMAIN db[i].columns}
      /\ IsRow(db[i]) /\ IsEntries(tables[i])
      /\ GoodRow(db[i].columns, db[i].key, db[i].keyName, db[i].foreignKeys)
      /\ GoodEntries(tables[i].primaryKey, tables[i].foreignKeys)
  BY <1>2, Found
<1>rows. IsRow(db[i]) /\ IsEntries(tables[i])
  BY <1>3
<1>4. /\ DOMAIN cols = DOMAIN old /\ cols[k] = d
      /\ \A x \in DOMAIN old \ {k} : cols[x] = old[x] /\ old[x] # d /\ old[x] # c
      /\ old \in [DOMAIN old -> ColumnNames]
  BY <1>1, <1>2, <1>3 DEF RenameColumn, HasColumn, GoodRow
<1>5. Alters(i, cols, db[i].key, db[i].keyName, db[i].foreignKeys,
             tables[i].primaryKey, tables[i].foreignKeys)
  <2>1. db' = [db EXCEPT ![i] = [db[i] EXCEPT !.columns = cols]]
    BY <1>1, <1>3 DEF RenameColumn
  <2>2. c \in tables[i].columns
    BY <1>2, <1>3
  <2> DEFINE names == (tables[i].columns \ {c}) \cup {d}
  <2>3. tables' = [tables EXCEPT ![i] = [tables[i] EXCEPT !.columns = names]]
    BY <1>1, <1>3, <2>2 DEF renameColumn
  <2> HIDE DEF cols
  <2>4. names = {cols[x] : x \in DOMAIN cols}
    BY <1>2, <1>3, <1>4
  <2> HIDE DEF i, k, old, names
  <2>5. [db[i] EXCEPT !.columns = cols]
          = Row(db[i].name, cols, db[i].key, db[i].keyName, db[i].foreignKeys)
    BY <1>rows, RowChanges
  <2>6. [tables[i] EXCEPT !.columns = names]
          = Entries(tables[i].name, names, tables[i].primaryKey, tables[i].foreignKeys)
    BY <1>rows, EntriesChanges
  <2>7. /\ beyond' \subseteq Ignorable
        /\ beyond \subseteq beyond'
    BY DEF RenameCol, IInv, TypeOK, Ignorable
  <2>8. /\ db' = [db EXCEPT ![i] = Row(db[i].name, cols, db[i].key, db[i].keyName,
                                       db[i].foreignKeys)]
        /\ tables' = [tables EXCEPT ![i] = Entries(tables[i].name, names, tables[i].primaryKey,
                                                   tables[i].foreignKeys)]
    BY <2>1, <2>3, <2>5, <2>6
  <2>9. QED
    BY <1>3, <2>4, <2>7, <2>8, AltersOne
<1>6. GoodRow(cols, db[i].key, db[i].keyName, db[i].foreignKeys)
  <2> HIDE DEF cols, k
  <2>1. \A x, y \in DOMAIN cols : cols[x] = cols[y] => x = y
    BY <1>3, <1>4 DEF GoodRow
  <2>2. \A x \in DOMAIN cols : cols[x] \in ColumnNames
    BY <1>4
  <2>3. cols \in [DOMAIN cols -> ColumnNames]
    BY <1>4, <2>2 DEF cols
  <2>4. QED
    BY <1>3, <1>4, <2>1, <2>3 DEF GoodRow, References
<1>7. Matched(i, cols, db[i].key, db[i].foreignKeys,
              tables[i].primaryKey, tables[i].foreignKeys)
  BY DEF RenameCol, Matched
<1> HIDE DEF cols, old, k, i
<1>8. QED
  BY <1>3, <1>5, <1>6, <1>7, Altering

\* RENAME CONSTRAINT: the keys of the database get another name, Schema's do not.
LEMMA RenameConstrStep ==
  ASSUME IInv, steps < MaxStatements, steps' = steps + 1, line' \in Nat,
         NEW t \in TableNames, RenameConstr(t)
  PROVE  IInv'
<1> DEFINE i == TheTable(t)
<1>1. PICK n \in ConstraintName, m \in ConstraintNames : RenameConstraint(t, n, Given(m))
  BY DEF RenameConstr
<1> DEFINE kn  == IF db[i].keyName = n THEN Given(m) ELSE db[i].keyName
           other(fk) == [fk EXCEPT !.name = IF fk.name = n THEN Given(m) ELSE fk.name]
           fks == {other(fk) : fk \in db[i].foreignKeys}
<1>2. Exists(t)
  BY <1>1 DEF RenameConstraint
<1>3. /\ i \in DOMAIN db /\ i \in DOMAIN tables /\ Known(t) /\ Table(t) = i
      /\ tables[i].columns = {db[i].columns[x] : x \in DOMAIN db[i].columns}
      /\ IsRow(db[i]) /\ IsEntries(tables[i])
      /\ GoodRow(db[i].columns, db[i].key, db[i].keyName, db[i].foreignKeys)
      /\ GoodEntries(tables[i].primaryKey, tables[i].foreignKeys)
  BY <1>2, Found
<1>rows. IsRow(db[i]) /\ IsEntries(tables[i])
  BY <1>3
<1>4. beyond \subseteq beyond' /\ beyond' \subseteq Ignorable
      /\ "constraintRenamed" \in beyond' /\ UNCHANGED tables
  BY DEF RenameConstr, IInv, TypeOK, Ignorable
<1>5. n # NoName /\ Given(m) \in ConstraintName
  BY NamesApart DEF ConstraintName
<1>6. Alters(i, db[i].columns, db[i].key, kn, fks, tables[i].primaryKey, tables[i].foreignKeys)
  <2>1. db' = [db EXCEPT ![i] = [db[i] EXCEPT !.keyName = kn, !.foreignKeys = fks]]
    BY <1>1, <1>3 DEF RenameConstraint
  <2>2. db' = [db EXCEPT ![i] = SetThree(db[i], db[i].key, kn, fks)]
    BY <1>3, <2>1 DEF SetThree, IsRow, Row
  <2> HIDE DEF i, kn, fks
  <2>3. SetThree(db[i], db[i].key, kn, fks) = Row(db[i].name, db[i].columns, db[i].key, kn, fks)
    BY <1>rows, ThreeOfRow
  <2>4. /\ DOMAIN db' = DOMAIN db
        /\ db'[i] = Row(db[i].name, db[i].columns, db[i].key, kn, fks)
        /\ \A j \in DOMAIN db \ {i} : db'[j] = db[j]
    BY <1>3, <2>2, <2>3
  <2>5. \A j \in DOMAIN db \ {i} : \E F \in SUBSET db[j].foreignKeys :
          db'[j] = Row(db[j].name, db[j].columns, db[j].key, db[j].keyName, F)
    BY <2>4, RowShape DEF IInv, IsRow
  <2>6. tables[i] = Entries(tables[i].name, {db[i].columns[k] : k \in DOMAIN db[i].columns},
                            tables[i].primaryKey, tables[i].foreignKeys)
    BY <1>3 DEF IsEntries
  <2>7. QED
    BY <1>4, <2>4, <2>5, <2>6 DEF Alters
<1>7. GoodRow(db[i].columns, db[i].key, kn, fks)
  <2>1. \A fk \in db[i].foreignKeys : other(fk) \in References(db[i].columns)
    BY <1>3, <1>5 DEF GoodRow, References
  <2>2. QED
    BY <1>3, <1>5, <2>1 DEF GoodRow
<1>8. Matched(i, db[i].columns, db[i].key, fks, tables[i].primaryKey, tables[i].foreignKeys)
  BY <1>4 DEF Matched
<1> HIDE DEF kn, fks, i
<1>9. QED
  BY <1>3, <1>4, <1>6, <1>7, <1>8, Altering

\* A statement that changes nothing, IF NOT EXISTS.
LEMMA NothingStep ==
  ASSUME IInv, steps < MaxStatements, steps' = steps + 1, line' \in Nat,
         UNCHANGED <<db, tables, beyond>>
  PROVE  IInv'
<1>1. steps \in Nat /\ steps + 1 \in 0..MaxStatements
  BY StatementsAssumption DEF IInv, TypeOK
<1>2. TypeOK'
  BY <1>1 DEF IInv, TypeOK
<1>3. DbOK'
  <2>1. ASSUME NEW j \in DOMAIN db PROVE RowOK(j)'
    BY <1>1 DEF IInv, DbOK, RowOK, Rows
  <2>2. QED
    BY <1>1, <2>1 DEF IInv, DbOK
<1>4. TablesAgree'
  BY DEF IInv, TablesAgree, Columns
<1>5. EntriesKept' /\ EntriesExact'
  BY DEF IInv, EntriesKept, EntriesExact, Entry
<1>6. QED
  BY <1>2, <1>3, <1>4, <1>5 DEF IInv

LEMMA AddStep ==
  ASSUME IInv, steps < MaxStatements, steps' = steps + 1, line' \in Nat,
         NEW t \in TableNames, NEW c \in ColumnNames, Add(t, c)
  PROVE  IInv'
<1> DEFINE i == TheTable(t)
           k == <<steps + 1, c>>
<1>1. PICK n \in Names, pk \in BOOLEAN, refs \in {{}} \cup {{r} : r \in TableNames} :
        /\ AddColumn(t, c, n, pk, refs, line') \/ AddExisting(t, c)
        /\ addColumn(t, c, n, pk, refs)
        /\ UNCHANGED beyond
  BY DEF Add
<1> DEFINE old  == db[i].columns
           cols == [x \in DOMAIN old \cup {k} |-> IF x = k THEN c ELSE old[x]]
           fks  == db[i].foreignKeys \cup {ForeignKey(NameOr(n, t, c), k, TheTable(r), line') : r \in refs}
           key  == IF pk THEN {k} ELSE db[i].key
           kn   == IF pk THEN Generated(t, PKey) ELSE db[i].keyName
           pks  == IF pk THEN {c} ELSE tables[i].primaryKey
           es   == tables[i].foreignKeys \cup {Reference(n, c, r, line') : r \in refs}
<1>2. Exists(t) /\ refs \subseteq TableNames
  BY <1>1 DEF AddColumn, AddExisting
<1>3. /\ i \in DOMAIN db /\ i \in DOMAIN tables /\ Known(t) /\ Table(t) = i
      /\ db[i].name = t /\ tables[i].name = t
      /\ tables[i].columns = {db[i].columns[x] : x \in DOMAIN db[i].columns}
      /\ IsRow(db[i]) /\ IsEntries(tables[i])
      /\ GoodRow(db[i].columns, db[i].key, db[i].keyName, db[i].foreignKeys)
      /\ GoodEntries(tables[i].primaryKey, tables[i].foreignKeys)
  BY <1>2, Found
<1>rows. IsRow(db[i]) /\ IsEntries(tables[i])
  BY <1>3
<1>4. CASE AddExisting(t, c)
  <2>1. c \in tables[i].columns
    BY <1>3, <1>4 DEF AddExisting, HasColumn
  <2>2. UNCHANGED <<db, tables, beyond>>
    BY <1>1, <1>3, <1>4, <2>1 DEF AddExisting, addColumn
  <2>3. QED
    BY <2>2, NothingStep
<1>5. CASE AddColumn(t, c, n, pk, refs, line')
  <2>1. /\ \A x \in DOMAIN old : old[x] # c
        /\ c \notin tables[i].columns
        /\ k \notin DOMAIN old
    <3>1. \A x \in DOMAIN old : old[x] # c
      BY <1>5 DEF AddColumn, HasColumn
    <3>2. DOMAIN old \subseteq (1..steps) \X ColumnNames /\ steps \in Nat
      BY <1>3 DEF IInv, TypeOK, DbOK, RowOK
    <3>3. QED
      BY <1>3, <3>1, <3>2
  <2>2. /\ DOMAIN cols = DOMAIN old \cup {k} /\ cols[k] = c
        /\ \A x \in DOMAIN old : cols[x] = old[x]
        /\ old \in [DOMAIN old -> ColumnNames]
    BY <1>3, <2>1 DEF GoodRow
  <2>3. \A r \in refs : TheTable(r) \in DOMAIN db /\ db[TheTable(r)].name = r
    BY <1>5, TableOfName DEF AddColumn, HasKey
  <2>4. /\ \A r \in refs : ForeignKey(NameOr(n, t, c), k, TheTable(r), line') \in References(cols)
        /\ \A r \in refs : LET fk == ForeignKey(NameOr(n, t, c), k, TheTable(r), line')
                           IN Reference(Kept(fk.name), cols[fk.column], db[fk.ref].name, fk.line)
                                = Reference(n, c, r, line')
    <3>1. NameOr(n, t, c) \in ConstraintName
      BY DEF NameOr, ConstraintName, Names
    <3>2. Kept(NameOr(n, t, c)) = n
      BY NamesApart DEF NameOr, Kept
    <3> HIDE DEF cols
    <3>3. QED
      BY <2>2, <2>3, <3>1, <3>2 DEF ForeignKey, References
  <2>5. Alters(i, cols, key, kn, fks, pks, es)
    <3>1. db' = [db EXCEPT ![i] = SetFour(db[i], cols, key, kn, fks)]
      BY <1>3, <1>5 DEF AddColumn, SetFour
    <3> DEFINE names == tables[i].columns \cup {c}
    <3>2. tables' = [tables EXCEPT ![i] = SetEntries(tables[i], names, pks, es)]
      BY <1>1, <1>3, <2>1 DEF addColumn, SetEntries
    <3> HIDE DEF cols
    <3>3. names = {cols[x] : x \in DOMAIN cols}
      BY <1>3, <2>2
    <3> HIDE DEF i, k, old, es, fks, names, key, kn, pks
    <3>4. SetFour(db[i], cols, key, kn, fks) = Row(db[i].name, cols, key, kn, fks)
      BY <1>rows, FourOfRow
    <3>5. SetEntries(tables[i], names, pks, es) = Entries(tables[i].name, names, pks, es)
      BY <1>rows, ThreeOfEntries
    <3>6. /\ db' = [db EXCEPT ![i] = Row(db[i].name, cols, key, kn, fks)]
          /\ tables' = [tables EXCEPT ![i] = Entries(tables[i].name, names, pks, es)]
      BY <3>1, <3>2, <3>4, <3>5
    <3>7. QED
      BY <1>1, <1>3, <3>3, <3>6, AltersOne, SameBeyond
  <2>6. GoodRow(cols, key, kn, fks)
    <3>1. k \in (1..(steps + 1)) \X ColumnNames
      BY DEF IInv, TypeOK
    <3> HIDE DEF cols, k
    <3>2. \A x, y \in DOMAIN cols : cols[x] = cols[y] => x = y
      BY <1>3, <2>1, <2>2 DEF GoodRow
    <3>3. \A x \in DOMAIN cols : cols[x] \in ColumnNames
      BY <2>2
    <3>4. cols \in [DOMAIN cols -> ColumnNames]
      BY <3>3 DEF cols
    <3>5. fks \subseteq References(cols)
      BY <1>3, <2>2, <2>4 DEF GoodRow, References
    <3>6. key \subseteq DOMAIN cols
      BY <1>3, <2>2 DEF GoodRow
    <3>7. kn \in {NoName} \cup ConstraintName /\ (kn # NoName => key # {})
      BY <1>3 DEF GoodRow, ConstraintName
    <3> HIDE DEF key, kn, fks
    <3>8. QED
      BY <1>3, <2>2, <3>1, <3>2, <3>4, <3>5, <3>6, <3>7 DEF GoodRow
  <2>7. GoodEntries(pks, es)
    <3>1. \A r \in refs : Reference(n, c, r, line') \in
                            [name : Names, column : ColumnNames, refTable : TableNames, line : Nat]
      BY <1>2 DEF Reference
    <3>2. QED
      BY <1>3, <3>1 DEF GoodEntries
  <2>8. Matched(i, cols, key, fks, pks, es)
    <3>1. \A j \in DOMAIN db \ {i} : db'[j] = db[j]
      BY <1>5 DEF AddColumn
    <3>2. \A fk \in db[i].foreignKeys : cols[fk.column] = db[i].columns[fk.column]
      BY <1>3, <2>2 DEF GoodRow, References
    <3>3. {cols[x] : x \in db[i].key} = {old[x] : x \in db[i].key}
      <4>1. \A x \in db[i].key : cols[x] = old[x]
        BY <1>3, <2>2 DEF GoodRow
      <4> HIDE DEF cols, old
      <4>2. QED
        BY <4>1
    <3> HIDE DEF cols, old, k
    <3>4. ASSUME NothingRenamed', NEW fk \in fks
          PROVE  Reference(Kept(fk.name), cols[fk.column], db[fk.ref].name, fk.line) \in es
      <4>1. CASE fk \in db[i].foreignKeys
        BY <1>1, <1>3, <3>2, <3>4, <4>1, KeysFound
      <4>2. CASE fk \notin db[i].foreignKeys
        BY <2>4, <3>4, <4>2
      <4>3. QED
        BY <4>1, <4>2
    <3>5. ASSUME beyond' = {}, NEW e \in es
          PROVE  \E fk \in fks : e = Reference(Kept(fk.name), cols[fk.column], db[fk.ref].name, fk.line)
      <4>1. CASE e \in tables[i].foreignKeys
        BY <1>1, <1>3, <3>2, <3>5, <4>1, KeysFound
      <4>2. CASE e \notin tables[i].foreignKeys
        BY <2>4, <3>5, <4>2
      <4>3. QED
        BY <4>1, <4>2
    <3>6. beyond' = {} => pks = {cols[x] : x \in key}
      <4>1. CASE pk
        BY <2>2, <4>1
      <4>2. CASE ~ pk
        BY <1>1, <1>3, <3>3, <4>2, KeysFound DEF old
      <4>3. QED
        BY <4>1, <4>2
    <3> HIDE DEF pks, key
    <3>7. QED
      BY <3>1, <3>4, <3>5, <3>6 DEF Matched
  <2> HIDE DEF fks, es, cols, old, k, i, key, kn, pks
  <2>9. QED
    BY <1>3, <2>5, <2>6, <2>7, <2>8, Altering
<1>6. QED
  BY <1>1, <1>4, <1>5

-----------------------------------------------------------------------------
(***************************************************************************)
(* Statements that drop something.                                         *)
(***************************************************************************)
Left(j, fks, gone) == {fk \in fks : <<j, fk>> \notin gone}

\* Altered, table by table.
LEMMA AlteredRows ==
  ASSUME DbOK, NEW i \in DOMAIN db, NEW T, IsRow(T), NEW gone
  PROVE  /\ DOMAIN Altered(i, T, gone) = DOMAIN db
         /\ Altered(i, T, gone)[i]
              = Row(T.name, T.columns, T.key, T.keyName, Left(i, T.foreignKeys, gone))
         /\ \A j \in DOMAIN db \ {i} :
              Altered(i, T, gone)[j]
                = Row(db[j].name, db[j].columns, db[j].key, db[j].keyName,
                      Left(j, db[j].foreignKeys, gone))
<1>1. DOMAIN Altered(i, T, gone) = DOMAIN db
  BY DEF Altered
<1>2. Altered(i, T, gone)[i] = [T EXCEPT !.foreignKeys = Left(i, T.foreignKeys, gone)]
  BY DEF Altered, Left
<1>3. ASSUME NEW j \in DOMAIN db \ {i}
      PROVE  Altered(i, T, gone)[j]
               = [db[j] EXCEPT !.foreignKeys = Left(j, db[j].foreignKeys, gone)]
  BY DEF Altered, Left
<1>4. ASSUME NEW r, IsRow(r), NEW fks
      PROVE  [r EXCEPT !.foreignKeys = fks] = Row(r.name, r.columns, r.key, r.keyName, fks)
  BY <1>4, RowChanges
<1>5. \A j \in DOMAIN db : IsRow(db[j])
  BY RowShape
<1>6. QED
  BY <1>1, <1>2, <1>3, <1>4, <1>5

\* A statement that alters one table so, in both.
LEMMA DropsFromOne ==
  ASSUME IInv, NEW i \in DOMAIN db, i \in DOMAIN tables,
         NEW T, NEW gone, NEW pk, NEW es, NEW names,
         IsRow(T), T.name = db[i].name, db' = Altered(i, T, gone),
         tables' = [tables EXCEPT ![i] = Entries(tables[i].name, names, pk, es)],
         names = {T.columns[k] : k \in DOMAIN T.columns},
         beyond' \subseteq Ignorable,
         beyond \subseteq beyond'
  PROVE  /\ Alters(i, T.columns, T.key, T.keyName, Left(i, T.foreignKeys, gone), pk, es)
         /\ gone = {} => \A j \in DOMAIN db \ {i} : db'[j].foreignKeys = db[j].foreignKeys
<1>1. /\ DOMAIN db' = DOMAIN db
      /\ db'[i] = Row(T.name, T.columns, T.key, T.keyName, Left(i, T.foreignKeys, gone))
      /\ \A j \in DOMAIN db \ {i} :
           db'[j] = Row(db[j].name, db[j].columns, db[j].key, db[j].keyName,
                        Left(j, db[j].foreignKeys, gone))
  BY AlteredRows DEF IInv
<1>2. db'[i] = Row(db[i].name, T.columns, T.key, T.keyName, Left(i, T.foreignKeys, gone))
  BY <1>1
<1>3. \A j \in DOMAIN db \ {i} : \E F \in SUBSET db[j].foreignKeys :
        db'[j] = Row(db[j].name, db[j].columns, db[j].key, db[j].keyName, F)
  <2>1. \A j \in DOMAIN db : Left(j, db[j].foreignKeys, gone) \subseteq db[j].foreignKeys
    BY DEF Left
  <2>2. QED
    BY <1>1, <2>1
<1>4. ASSUME gone = {}, NEW j \in DOMAIN db \ {i}
      PROVE  db'[j].foreignKeys = db[j].foreignKeys
  <2>1. Left(j, db[j].foreignKeys, gone) = db[j].foreignKeys
    BY <1>4 DEF Left
  <2>2. db'[j] = Row(db[j].name, db[j].columns, db[j].key, db[j].keyName, db[j].foreignKeys)
    BY <1>1, <2>1
  <2>3. QED
    BY <2>2, Fields
<1>5. QED
  BY <1>1, <1>2, <1>3, <1>4 DEF Alters

LEMMA DropConstrStep ==
  ASSUME IInv, steps < MaxStatements, steps' = steps + 1, line' \in Nat,
         NEW t \in TableNames, DropConstr(t)
  PROVE  IInv'
<1> DEFINE i == TheTable(t)
<1>1. PICK n \in ConstraintName, cascade \in BOOLEAN :
        /\ DropConstraint(t, n, cascade) /\ dropConstraint(t, n)
        /\ beyond' = beyond \cup Ignored("keyDropped", LosesKey(t))
                            \cup Ignored("cascade", LosesKey(t) /\ Referring(TheTable(t)) # {})
                            \cup Ignored("generatedName", Unnamed(t, n))
  BY DEF DropConstr
<1> DEFINE isKey == db[i].keyName = n
           gone  == IF isKey THEN Referring(i) ELSE {}
           key   == IF isKey THEN {} ELSE db[i].key
           kn    == IF isKey THEN NoName ELSE db[i].keyName
           kept  == {fk \in db[i].foreignKeys : fk.name # n}
           fks   == Left(i, kept, gone)
           es    == {e \in tables[i].foreignKeys : e.name # n}
<1>2. Exists(t)
  BY <1>1 DEF DropConstraint
<1>3. /\ i \in DOMAIN db /\ i \in DOMAIN tables /\ Known(t) /\ Table(t) = i
      /\ db[i].name = t /\ tables[i].name = t
      /\ tables[i].columns = {db[i].columns[x] : x \in DOMAIN db[i].columns}
      /\ IsRow(db[i]) /\ IsEntries(tables[i])
      /\ GoodRow(db[i].columns, db[i].key, db[i].keyName, db[i].foreignKeys)
      /\ GoodEntries(tables[i].primaryKey, tables[i].foreignKeys)
  BY <1>2, Found
<1>rows. IsRow(db[i]) /\ IsEntries(tables[i])
  BY <1>3
<1>4. n # NoName
  BY NamesApart
<1>5. beyond \subseteq beyond'
      /\ beyond' \subseteq Ignorable
  BY <1>1 DEF IInv, TypeOK, Ignored, Ignorable
<1>6. /\ Alters(i, db[i].columns, key, kn, fks, tables[i].primaryKey, es)
      /\ gone = {} => \A j \in DOMAIN db \ {i} : db'[j].foreignKeys = db[j].foreignKeys
  <2> DEFINE T == [db[i] EXCEPT !.key = key, !.keyName = kn, !.foreignKeys = kept]
  <2>1. db' = Altered(i, T, gone)
    BY <1>1 DEF DropConstraint
  <2>2. tables' = [tables EXCEPT ![i] = [tables[i] EXCEPT !.foreignKeys = es]]
    BY <1>1, <1>3 DEF dropConstraint
  <2>3. T = SetThree(db[i], key, kn, kept)
    BY DEF SetThree
  <2> HIDE DEF i, kept, es, key, kn, gone, T
  <2>4. T = Row(db[i].name, db[i].columns, key, kn, kept)
    BY <1>rows, <2>3, ThreeOfRow
  <2>5. /\ IsRow(T) /\ T.name = db[i].name /\ T.columns = db[i].columns /\ T.key = key
        /\ T.keyName = kn /\ T.foreignKeys = kept
    BY <2>4, Fields
  <2>6. [tables[i] EXCEPT !.foreignKeys = es]
          = Entries(tables[i].name, tables[i].columns, tables[i].primaryKey, es)
    BY <1>rows, EntriesChanges
  <2>7. tables' = [tables EXCEPT ![i] = Entries(tables[i].name, tables[i].columns,
                                                tables[i].primaryKey, es)]
    BY <2>2, <2>6
  <2>8. /\ i \in DOMAIN db /\ i \in DOMAIN tables
        /\ tables[i].columns = {T.columns[x] : x \in DOMAIN T.columns}
    BY <1>3, <2>5
  <2>9. /\ Alters(i, T.columns, T.key, T.keyName, Left(i, T.foreignKeys, gone),
                  tables[i].primaryKey, es)
        /\ gone = {} => \A j \in DOMAIN db \ {i} : db'[j].foreignKeys = db[j].foreignKeys
    <3>1. IsRow(T) /\ T.name = db[i].name
      BY <2>5
    <3>2. QED
      BY <1>5, <2>1, <2>7, <2>8, <3>1, DropsFromOne
  <2>10. QED
    BY <2>5, <2>9
<1>7. GoodRow(db[i].columns, key, kn, fks)
  BY <1>3 DEF GoodRow, Left
<1>8. GoodEntries(tables[i].primaryKey, es)
  BY <1>3 DEF GoodEntries
<1>9. Matched(i, db[i].columns, key, fks, tables[i].primaryKey, es)
  <2>1. ASSUME NothingRenamed', NEW fk \in fks
        PROVE  Reference(Kept(fk.name), db[i].columns[fk.column], db[fk.ref].name, fk.line) \in es
    <3>1. Reference(Kept(fk.name), db[i].columns[fk.column], db[fk.ref].name, fk.line)
            \in tables[i].foreignKeys
      BY <1>3, <1>5, <2>1, KeysFound DEF Left
    <3>2. Kept(fk.name) # n
      BY <1>4, <2>1 DEF Kept, Left
    <3>3. QED
      BY <3>1, <3>2 DEF Reference
  <2>2. ASSUME beyond' = {}
        PROVE  /\ ~ isKey /\ beyond = {}
               /\ n \in Names \/ \A fk \in db[i].foreignKeys : fk.name # n
    <3>1. ~ LosesKey(t) /\ ~ Unnamed(t, n) /\ beyond = {}
      BY <1>1, <2>2 DEF Ignored
    <3>2. key = db[i].key
      BY <1>6, <3>1, Fields DEF LosesKey, Alters
    <3>3. ~ isKey
      BY <1>3, <1>4, <3>2 DEF GoodRow
    <3>4. QED
      BY <3>1, <3>3 DEF Unnamed
  <2>3. ASSUME beyond' = {}, NEW e \in es
        PROVE  \E fk \in fks :
                 e = Reference(Kept(fk.name), db[i].columns[fk.column], db[fk.ref].name, fk.line)
    <3>1. PICK fk \in db[i].foreignKeys :
            e = Reference(Kept(fk.name), db[i].columns[fk.column], db[fk.ref].name, fk.line)
      BY <1>3, <2>2, <2>3, KeysFound
    <3>2. fk.name # n
      BY <2>2, <2>3, <3>1 DEF Reference, Kept
    <3>3. QED
      BY <2>2, <2>3, <3>1, <3>2 DEF Left
  <2>4. beyond' = {} => tables[i].primaryKey = {db[i].columns[x] : x \in key}
    BY <1>3, <2>2, KeysFound
  <2>5. beyond' = {} => gone = {}
    BY <2>2
  <2> HIDE DEF fks, es, key, gone, i
  <2>6. QED
    BY <1>6, <2>1, <2>3, <2>4, <2>5 DEF Matched
<1> HIDE DEF isKey, gone, key, kn, kept, fks, es, i
<1>10. QED
  BY <1>3, <1>6, <1>7, <1>8, <1>9, Altering

LEMMA DropStep ==
  ASSUME IInv, steps < MaxStatements, steps' = steps + 1, line' \in Nat,
         NEW t \in TableNames, NEW c \in ColumnNames, Drop(t, c)
  PROVE  IInv'
<1> DEFINE i == TheTable(t)
           k == TheColumn(i, c)
<1>1. PICK cascade \in BOOLEAN :
        /\ DropColumn(t, c, cascade) /\ dropColumn(t, c)
        /\ beyond' = beyond \cup Ignored("keyDropped", LosesKey(t))
                            \cup Ignored("cascade", LosesKey(t) /\ Referring(TheTable(t)) # {})
  BY DEF Drop
<1> DEFINE old   == db[i].columns
           isKey == k \in db[i].key
           gone  == IF isKey THEN Referring(i) ELSE {}
           cols  == [x \in DOMAIN old \ {k} |-> old[x]]
           key   == db[i].key \ {k}
           kn    == IF isKey THEN NoName ELSE db[i].keyName
           kept  == {fk \in db[i].foreignKeys : fk.column # k}
           fks   == Left(i, kept, gone)
           names == tables[i].columns \ {c}
           es    == {e \in tables[i].foreignKeys : e.column # c}
<1>2. Exists(t) /\ k \in DOMAIN old /\ old[k] = c
  BY <1>1, ColumnOfName DEF DropColumn
<1>3. /\ i \in DOMAIN db /\ i \in DOMAIN tables /\ Known(t) /\ Table(t) = i
      /\ db[i].name = t /\ tables[i].name = t
      /\ tables[i].columns = {db[i].columns[x] : x \in DOMAIN db[i].columns}
      /\ IsRow(db[i]) /\ IsEntries(tables[i])
      /\ GoodRow(db[i].columns, db[i].key, db[i].keyName, db[i].foreignKeys)
      /\ GoodEntries(tables[i].primaryKey, tables[i].foreignKeys)
  BY <1>2, Found
<1>rows. IsRow(db[i]) /\ IsEntries(tables[i])
  BY <1>3
<1>4. beyond \subseteq beyond'
      /\ beyond' \subseteq Ignorable
  BY <1>1 DEF IInv, TypeOK, Ignored, Ignorable
<1>5. /\ DOMAIN cols = DOMAIN old \ {k}
      /\ \A x \in DOMAIN cols : cols[x] = old[x] /\ old[x] # c
      /\ old \in [DOMAIN old -> ColumnNames]
  BY <1>2, <1>3 DEF GoodRow
<1>6. /\ Alters(i, cols, key, kn, fks, tables[i].primaryKey, es)
      /\ gone = {} => \A j \in DOMAIN db \ {i} : db'[j].foreignKeys = db[j].foreignKeys
  <2> DEFINE T == SetFour(db[i], cols, key, kn, kept)
  <2>1. db' = Altered(i, T, gone)
    BY <1>1 DEF DropColumn, SetFour
  <2>2. tables' = [tables EXCEPT ![i] = [tables[i] EXCEPT !.columns = names,
                                                          !.foreignKeys = es]]
    BY <1>1, <1>3 DEF dropColumn
  <2> HIDE DEF cols
  <2>3. names = {cols[x] : x \in DOMAIN cols}
    BY <1>2, <1>3, <1>5
  <2> HIDE DEF i, k, kept, es, key, kn, gone, T, old, names
  <2>4. T = Row(db[i].name, cols, key, kn, kept)
    BY <1>rows, FourOfRow DEF T
  <2>5. /\ IsRow(T) /\ T.name = db[i].name /\ T.columns = cols /\ T.key = key
        /\ T.keyName = kn /\ T.foreignKeys = kept
    BY <2>4, Fields
  <2>6. [tables[i] EXCEPT !.columns = names, !.foreignKeys = es]
          = Entries(tables[i].name, names, tables[i].primaryKey, es)
    BY <1>rows, ColumnsOfEntries
  <2>7. tables' = [tables EXCEPT ![i] = Entries(tables[i].name, names,
                                                tables[i].primaryKey, es)]
    BY <2>2, <2>6
  <2>8. /\ i \in DOMAIN db /\ i \in DOMAIN tables
        /\ names = {T.columns[x] : x \in DOMAIN T.columns}
    BY <1>3, <2>3, <2>5
  <2>9. /\ Alters(i, T.columns, T.key, T.keyName, Left(i, T.foreignKeys, gone),
                  tables[i].primaryKey, es)
        /\ gone = {} => \A j \in DOMAIN db \ {i} : db'[j].foreignKeys = db[j].foreignKeys
    <3>1. IsRow(T) /\ T.name = db[i].name
      BY <2>5
    <3>2. QED
      BY <1>4, <2>1, <2>7, <2>8, <3>1, DropsFromOne
  <2>10. QED
    BY <2>5, <2>9
<1>7. GoodRow(cols, key, kn, fks)
  <2>1. cols \in [DOMAIN cols -> ColumnNames]
    BY <1>5
  <2> HIDE DEF cols
  <2>2. fks \subseteq References(cols)
    BY <1>3, <1>5 DEF GoodRow, References, Left
  <2>3. kn # NoName => key # {}
    BY <1>3 DEF GoodRow
  <2>4. QED
    BY <1>3, <1>5, <2>1, <2>2, <2>3 DEF GoodRow
<1>8. GoodEntries(tables[i].primaryKey, es)
  BY <1>3 DEF GoodEntries
<1>9. Matched(i, cols, key, fks, tables[i].primaryKey, es)
  <2> HIDE DEF cols
  <2>1. \A fk \in kept : cols[fk.column] = old[fk.column] /\ old[fk.column] # c
    BY <1>3, <1>5 DEF GoodRow, References
  <2>2. ASSUME NothingRenamed', NEW fk \in fks
        PROVE  Reference(Kept(fk.name), cols[fk.column], db[fk.ref].name, fk.line) \in es
    <3>1. Reference(Kept(fk.name), old[fk.column], db[fk.ref].name, fk.line) \in tables[i].foreignKeys
      BY <1>3, <1>4, <2>2, KeysFound DEF Left
    <3>2. fk \in kept
      BY <2>2 DEF Left
    <3>3. QED
      BY <2>1, <3>1, <3>2 DEF Reference
  <2>3. ASSUME beyond' = {} PROVE ~ isKey /\ beyond = {}
    <3>1. ~ LosesKey(t) /\ beyond = {}
      BY <1>1, <2>3 DEF Ignored
    <3>2. key = db[i].key
      BY <1>6, <3>1, Fields DEF LosesKey, Alters
    <3>3. QED
      BY <3>1, <3>2
  <2>4. ASSUME beyond' = {}, NEW e \in es
        PROVE  \E fk \in fks : e = Reference(Kept(fk.name), cols[fk.column], db[fk.ref].name, fk.line)
    <3>1. PICK fk \in db[i].foreignKeys :
            e = Reference(Kept(fk.name), old[fk.column], db[fk.ref].name, fk.line)
      BY <1>3, <2>3, <2>4, KeysFound
    <3>2. fk.column # k
      BY <1>2, <2>4, <3>1 DEF Reference
    <3>3. fk \in kept /\ fk \in fks
      BY <2>3, <2>4, <3>2 DEF Left
    <3>4. QED
      BY <2>1, <3>1, <3>3
  <2>5. ASSUME beyond' = {} PROVE tables[i].primaryKey = {cols[x] : x \in key}
    <3>1. tables[i].primaryKey = {old[x] : x \in db[i].key}
      BY <1>3, <2>3, <2>5, KeysFound
    <3>2. key = db[i].key /\ \A x \in key : cols[x] = old[x]
      BY <1>3, <1>5, <2>3, <2>5 DEF GoodRow
    <3> HIDE DEF key, old
    <3>3. QED
      BY <3>1, <3>2
  <2>6. beyond' = {} => gone = {}
    BY <2>3
  <2> HIDE DEF fks, es, key, gone, i
  <2>7. QED
    BY <1>6, <2>2, <2>4, <2>5, <2>6 DEF Matched
<1> HIDE DEF isKey, gone, cols, key, kn, kept, fks, es, names, old, k, i
<1>10. QED
  BY <1>3, <1>6, <1>7, <1>8, <1>9, Altering

\* DROP TABLE: the table is gone, and with it or before it the foreign keys to it.
LEMMA DropTabStep ==
  ASSUME IInv, steps < MaxStatements, steps' = steps + 1, line' \in Nat,
         NEW t \in TableNames, DropTab(t)
  PROVE  IInv'
<1> DEFINE i == TheTable(t)
<1>1. PICK cascade \in BOOLEAN :
        /\ DropTable(t, cascade) /\ dropTable(t)
        /\ beyond' = beyond \cup Ignored("cascade", \E p \in Referring(i) : p[1] # i)
  BY DEF DropTab
<1>2. Exists(t)
  BY <1>1 DEF DropTable
<1>3. /\ i \in DOMAIN db /\ i \in DOMAIN tables /\ Known(t) /\ Table(t) = i
      /\ db[i].name = t /\ tables[i].name = t
      /\ tables[i].columns = {db[i].columns[x] : x \in DOMAIN db[i].columns}
      /\ IsRow(db[i]) /\ IsEntries(tables[i])
      /\ GoodRow(db[i].columns, db[i].key, db[i].keyName, db[i].foreignKeys)
      /\ GoodEntries(tables[i].primaryKey, tables[i].foreignKeys)
  BY <1>2, Found
<1>rows. IsRow(db[i]) /\ IsEntries(tables[i])
  BY <1>3
<1>4. beyond \subseteq beyond'
      /\ beyond' \subseteq Ignorable
  BY <1>1 DEF IInv, TypeOK, Ignored, Ignorable
<1>5. steps \in Nat /\ steps + 1 \in 0..MaxStatements
  BY StatementsAssumption DEF IInv, TypeOK
<1> DEFINE fks(j) == Left(j, db[j].foreignKeys, Referring(i))
<1>6. /\ DOMAIN db' = DOMAIN db \ {i}
      /\ \A j \in DOMAIN db' :
           db'[j] = Row(db[j].name, db[j].columns, db[j].key, db[j].keyName, fks(j))
  <2>1. db' = [j \in DOMAIN db \ {i} |-> Altered(i, db[i], Referring(i))[j]]
    BY <1>1 DEF DropTable
  <2>2. \A j \in DOMAIN db \ {i} :
          Altered(i, db[i], Referring(i))[j]
            = Row(db[j].name, db[j].columns, db[j].key, db[j].keyName, fks(j))
    BY <1>3, AlteredRows DEF IInv
  <2>3. QED
    BY <2>1, <2>2
<1>7. \A j \in DOMAIN db' : fks(j) = {fk \in db[j].foreignKeys : fk.ref # i}
  BY <1>6 DEF Left, Referring
<1>8. /\ \A j \in DOMAIN db' : db'[j].name = db[j].name /\ db'[j].columns = db[j].columns
      /\ \A j \in DOMAIN db' : db'[j].key = db[j].key
      /\ \A j \in DOMAIN db' :
           db'[j].foreignKeys = {fk \in db[j].foreignKeys : fk.ref # i}
  BY <1>6, <1>7, Fields
<1>9. /\ DOMAIN tables' = DOMAIN tables \ {i}
      /\ \A j \in DOMAIN tables' : tables'[j] = tables[j]
  <2>1. \A j \in DOMAIN tables : tables[j].name = t <=> j = i
    BY <1>3 DEF IInv, TablesAgree
  <2>2. QED
    BY <1>1, <2>1 DEF dropTable
<1>10. DbOK'
  <2>1. ASSUME NEW j \in DOMAIN db' PROVE RowOK(j)'
    <3>1. j \in DOMAIN db /\ db[j].name \in TableNames
      BY <1>6, RowShape DEF IInv
    <3>2. fks(j) \subseteq [name : ConstraintName, column : DOMAIN db[j].columns, ref : DOMAIN db', line : Nat]
      BY <1>6, <1>7, <3>1, RowShape DEF IInv
    <3>3. QED
      BY <1>5, <1>6, <3>1, <3>2, RowKept DEF IInv
  <2>2. DOMAIN db' \subseteq 1..steps'
    BY <1>5, <1>6 DEF IInv, DbOK
  <2>3. \A j, l \in DOMAIN db' : db'[j].name = db'[l].name => j = l
    BY <1>6, <1>8 DEF IInv, DbOK
  <2>4. QED
    BY <2>1, <2>2, <2>3 DEF DbOK
<1>11. TypeOK'
  BY <1>4, <1>5, <1>9 DEF IInv, TypeOK
<1>12. TablesAgree'
  BY <1>6, <1>8, <1>9 DEF IInv, TablesAgree, Columns
<1>13. \A j \in DOMAIN db' : \A fk \in db'[j].foreignKeys :
         fk \in db[j].foreignKeys /\ Entry(j, fk)' = Entry(j, fk)
  <2>1. \A j \in DOMAIN db' : \A fk \in db'[j].foreignKeys :
          fk \in db[j].foreignKeys /\ fk.ref \in DOMAIN db'
    BY <1>6, <1>8, RowShape DEF IInv
  <2>2. QED
    BY <1>8, <2>1 DEF Entry
<1>14. EntriesKept'
  BY <1>4, <1>6, <1>9, <1>13 DEF IInv, EntriesKept, TablesAgree
<1>15. EntriesExact'
  <2>1. SUFFICES ASSUME beyond' = {}, NEW j \in DOMAIN db'
                 PROVE  /\ \A e \in tables'[j].foreignKeys :
                             \E fk \in db'[j].foreignKeys : e = Entry(j, fk)'
                        /\ tables'[j].primaryKey = {db'[j].columns[k] : k \in db'[j].key}
    BY DEF EntriesExact
  <2>2. beyond = {} /\ \A p \in Referring(i) : p[1] = i
    BY <1>1, <2>1 DEF Ignored
  <2>3. \A fk \in db[j].foreignKeys : fk.ref # i
    <3>1. j \in DOMAIN db /\ j # i
      BY <1>6, <2>1
    <3>2. \A fk \in db[j].foreignKeys : fk.ref = i => <<j, fk>> \in Referring(i)
      BY <3>1 DEF Referring
    <3>3. \A fk : <<j, fk>>[1] # i
      BY <3>1
    <3>4. QED
      BY <2>2, <3>2, <3>3
  <2>4. db'[j].foreignKeys = db[j].foreignKeys
    BY <1>8, <2>1, <2>3
  <2>5. j \in DOMAIN db /\ tables'[j] = tables[j]
    BY <1>6, <1>9, <2>1 DEF IInv, TablesAgree
  <2>6. QED
    BY <1>8, <1>13, <2>1, <2>2, <2>4, <2>5 DEF IInv, EntriesExact
<1>16. QED
  BY <1>10, <1>11, <1>12, <1>14, <1>15 DEF IInv

-----------------------------------------------------------------------------
(***************************************************************************)
(* A table created, and a table renamed.                                   *)
(***************************************************************************)
LEMMA CreateTableStep ==
  ASSUME IInv, steps < MaxStatements, steps' = steps + 1, line' \in Nat,
         NEW t \in TableNames, NEW cols, NEW key, NEW refs,
         cols \subseteq ColumnNames, refs \subseteq Keys(cols),
         CreateTable(t, cols, key, refs, line'), create(t, cols, key, refs), UNCHANGED beyond
  PROVE  IInv'
<1>nat. steps \in Nat /\ steps + 1 \in 0..MaxStatements
  BY StatementsAssumption DEF IInv, TypeOK
<1>new. PICK new : new = steps + 1
  OBVIOUS
<1> DEFINE columns == [k \in {<<new, c>> : c \in cols} |-> k[2]]
           keys    == {<<new, c>> : c \in key}
           kn      == IF key = {} THEN NoName ELSE Generated(t, PKey)
           to(ref) == IF ref.table = t THEN new ELSE TheTable(ref.table)
           key1(ref) == ForeignKey(NameOr(ref.name, t, ref.column), <<new, ref.column>>,
                                   to(ref), line')
           entry(ref) == Reference(ref.name, ref.column, ref.table, line')
           fks     == {key1(ref) : ref \in refs}
           es      == {entry(ref) : ref \in refs}
<1>1. /\ ~ Exists(t) /\ ~ Known(t) /\ key \subseteq cols
      /\ \A ref \in refs : ref.column \in cols /\ (HasKey(ref.table) \/ ref.table = t)
      /\ \A ref \in refs : ref.name \in Names /\ ref.table \in TableNames
      /\ new \notin DOMAIN db
  <2>1. ~ Known(t)
    BY <1>nat, SameTable DEF CreateTable, IInv
  <2>2. new \notin DOMAIN db
    BY <1>nat, <1>new DEF IInv, DbOK
  <2>3. \A ref \in refs : ref.name \in Names /\ ref.table \in TableNames
    BY StatementsAssumption DEF Keys
  <2>4. QED
    BY <2>1, <2>2, <2>3 DEF CreateTable
<1>2. /\ DOMAIN db' = DOMAIN db \cup {new}
      /\ \A j \in DOMAIN db : db'[j] = db[j]
      /\ db'[new] = Row(t, columns, keys, kn, fks)
  <2>1. db' = [j \in DOMAIN db \cup {new} |->
                 IF j # new THEN db[j] ELSE Row(t, columns, keys, kn, fks)]
    BY <1>new DEF CreateTable, Row
  <2>2. QED
    BY <1>1, <2>1
<1>3. /\ DOMAIN tables' = DOMAIN db \cup {new}
      /\ \A j \in DOMAIN db : tables'[j] = tables[j]
      /\ tables'[new] = Entries(t, cols, key, es)
  <2>1. tables' = [j \in DOMAIN tables \cup {new} |->
                     IF j \in DOMAIN tables THEN tables[j] ELSE Entries(t, cols, key, es)]
    BY <1>new, <1>1 DEF create, Entries
  <2>2. QED
    BY <1>1, <2>1 DEF IInv, TablesAgree
<1>4. /\ DOMAIN columns = {<<new, c>> : c \in cols}
      /\ \A c \in cols : columns[<<new, c>>] = c
  OBVIOUS
<1>5. \A ref \in refs : to(ref) \in DOMAIN db' /\ db'[to(ref)].name = ref.table
  <2>1. db'[new].name = t
    BY <1>2, Fields
  <2>2. \A ref \in refs : ref.table # t =>
          TheTable(ref.table) \in DOMAIN db /\ db[TheTable(ref.table)].name = ref.table
    BY <1>1, TableOfName DEF HasKey
  <2>3. QED
    BY <1>2, <2>1, <2>2
<1>6. kn \in {NoName} \cup ConstraintName /\ (kn # NoName => key # {})
  BY DEF ConstraintName
<1> HIDE DEF to
<1>7. fks \subseteq [name : ConstraintName, column : DOMAIN columns, ref : DOMAIN db', line : Nat]
  <2>1. \A ref \in refs : NameOr(ref.name, t, ref.column) \in ConstraintName
    BY <1>1 DEF NameOr, ConstraintName, Names
  <2>2. \A ref \in refs : <<new, ref.column>> \in DOMAIN columns
    BY <1>1, <1>4
  <2> HIDE DEF columns
  <2>3. QED
    BY <1>5, <2>1, <2>2 DEF ForeignKey
<1>8. \A ref \in refs :
        LET fk == key1(ref)
        IN Reference(Kept(fk.name), columns[fk.column], db'[fk.ref].name, fk.line) = entry(ref)
  <2>1. \A ref \in refs : Kept(NameOr(ref.name, t, ref.column)) = ref.name
    BY <1>1, NamesApart DEF Kept, NameOr
  <2>2. \A ref \in refs : columns[<<new, ref.column>>] = ref.column
    BY <1>1, <1>4
  <2> HIDE DEF columns
  <2>3. QED
    BY <1>5, <2>1, <2>2 DEF ForeignKey
<1> HIDE DEF columns
<1>9. /\ db'[new].name = t /\ db'[new].columns = columns /\ db'[new].key = keys
      /\ db'[new].keyName = kn /\ db'[new].foreignKeys = fks
      /\ tables'[new].name = t /\ tables'[new].columns = cols
      /\ tables'[new].primaryKey = key /\ tables'[new].foreignKeys = es
  <2> HIDE DEF keys, kn, fks, es
  <2>1. QED
    BY <1>2, <1>3, Fields
<1>10. RowOK(new)'
  <2>1. keys \subseteq DOMAIN columns
    BY <1>1, <1>4
  <2>2. \A k \in DOMAIN columns : columns[k] \in ColumnNames
    BY <1>4
  <2>3. columns \in [DOMAIN columns -> ColumnNames]
    BY <2>2 DEF columns
  <2>4. /\ DOMAIN columns \subseteq (1..steps') \X ColumnNames
        /\ \A k, l \in DOMAIN columns : columns[k] = columns[l] => k = l
    BY <1>nat, <1>new, <1>4
  <2>5. kn # NoName => keys # {}
    <3>1. \A c \in key : <<new, c>> \in keys
      OBVIOUS
    <3> HIDE DEF kn, keys
    <3>2. QED
      BY <1>6, <3>1
  <2> HIDE DEF keys, kn, fks
  <2>6. fks \subseteq [name : ConstraintName, column : DOMAIN columns, ref : DOMAIN db', line : Nat]
    BY <1>2, <1>7
  <2>7. db'[new] \in Rows(new)'
    BY <1>2, <1>6, <1>9, <2>1, <2>3, <2>6 DEF Rows, Row
  <2>8. QED
    BY <1>9, <2>4, <2>5, <2>7 DEF RowOK
<1>11. DbOK'
  <2>1. ASSUME NEW j \in DOMAIN db PROVE RowOK(j)'
    <3>1. /\ IsRow(db[j]) /\ db[j].name \in TableNames
          /\ db[j].foreignKeys \subseteq
               [name : ConstraintName, column : DOMAIN db[j].columns, ref : DOMAIN db', line : Nat]
      BY <1>2, RowShape DEF IInv
    <3>2. db'[j] = Row(db[j].name, db[j].columns, db[j].key, db[j].keyName, db[j].foreignKeys)
      BY <1>2, <3>1 DEF IsRow
    <3>3. QED
      <4> HIDE DEF fks
      <4>1. DbOK
        BY DEF IInv
      <4>2. QED
        BY <1>nat, <3>1, <3>2, <4>1, RowKept
  <2>2. DOMAIN db' \subseteq 1..steps'
    BY <1>nat, <1>new, <1>2 DEF IInv, DbOK
  <2>3. \A j \in DOMAIN db : db'[j].name = db[j].name /\ db[j].name # t
    BY <1>1, <1>2 DEF Exists
  <2>4. \A j, l \in DOMAIN db' : db'[j].name = db'[l].name => j = l
    BY <1>2, <1>9, <2>3 DEF IInv, DbOK
  <2>5. QED
    BY <1>2, <1>10, <2>1, <2>2, <2>4 DEF DbOK
<1>12. TypeOK'
  <2>1. \A ref \in refs : entry(ref) \in
                            [name : Names, column : ColumnNames, refTable : TableNames, line : Nat]
    BY <1>1 DEF Reference, Names
  <2>2. Entries(t, cols, key, es) \in
          [name : TableNames, columns : SUBSET ColumnNames, primaryKey : SUBSET ColumnNames,
           foreignKeys : SUBSET [name : Names, column : ColumnNames, refTable : TableNames, line : Nat]]
    BY <1>1, <2>1 DEF Entries
  <2>3. DOMAIN tables' \subseteq 1..MaxStatements
    BY <1>nat, <1>new, <1>3 DEF IInv, TypeOK, TablesAgree
  <2>4. UNCHANGED beyond
    OBVIOUS
  <2> HIDE DEF es
  <2>5. \A j \in DOMAIN tables' :
          tables'[j] \in
            [name : TableNames, columns : SUBSET ColumnNames, primaryKey : SUBSET ColumnNames,
             foreignKeys : SUBSET [name : Names, column : ColumnNames, refTable : TableNames, line : Nat]]
    BY <1>3, <2>2 DEF IInv, TypeOK, TablesAgree
  <2>6. QED
    BY <1>nat, <2>3, <2>4, <2>5 DEF IInv, TypeOK
<1>13. TablesAgree'
  <2>1. Columns(new)' = cols
    <3>1. Columns(new)' = {columns[k] : k \in DOMAIN columns}
      <4> HIDE DEF keys, kn, fks, es
      <4>1. QED
        BY <1>9 DEF Columns
    <3>2. \A k \in DOMAIN columns : columns[k] \in cols
      BY <1>4
    <3>3. \A c \in cols : <<new, c>> \in DOMAIN columns /\ columns[<<new, c>>] = c
      BY <1>4
    <3>4. QED
      BY <3>1, <3>2, <3>3
  <2>2. \A j \in DOMAIN db : tables'[j].name = db'[j].name /\ tables'[j].columns = Columns(j)'
    BY <1>2, <1>3 DEF IInv, TablesAgree, Columns
  <2>3. \A j, l \in DOMAIN db' : db'[j].name = db'[l].name => j = l
    BY <1>11 DEF DbOK
  <2>4. QED
    BY <1>2, <1>3, <1>9, <2>1, <2>2, <2>3 DEF TablesAgree
<1>14. \A j \in DOMAIN db : \A fk \in db[j].foreignKeys : Entry(j, fk)' = Entry(j, fk)
  <2>1. \A j \in DOMAIN db : \A fk \in db[j].foreignKeys : fk.ref \in DOMAIN db
    BY RowShape DEF IInv
  <2>2. QED
    BY <1>2, <2>1 DEF Entry
<1>15. \A ref \in refs : \A fk : fk = key1(ref) => Entry(new, fk)' = entry(ref)
  <2>1. SUFFICES ASSUME NEW ref \in refs, NEW fk, fk = key1(ref)
                 PROVE  Entry(new, fk)' = entry(ref)
    OBVIOUS
  <2> HIDE DEF fks, entry
  <2>2. Entry(new, fk)' = Reference(Kept(fk.name), columns[fk.column], db'[fk.ref].name, fk.line)
    BY <1>9 DEF Entry, Kept
  <2>3. Reference(Kept(fk.name), columns[fk.column], db'[fk.ref].name, fk.line) = entry(ref)
    BY <1>8, <2>1
  <2>4. QED
    BY <2>2, <2>3
<1> HIDE DEF key1, entry
<1>16. EntriesKept'
  <2>1. ASSUME NothingRenamed', NEW fk \in db'[new].foreignKeys
        PROVE  Entry(new, fk)' \in tables'[new].foreignKeys
    <3>1. PICK ref \in refs : fk = key1(ref)
      BY <1>9, <2>1
    <3>2. Entry(new, fk)' = entry(ref)
      BY <1>15, <3>1
    <3>3. QED
      BY <1>9, <3>2
  <2>2. ASSUME NothingRenamed', NEW j \in DOMAIN db, NEW fk \in db'[j].foreignKeys
        PROVE  Entry(j, fk)' \in tables'[j].foreignKeys
    <3> HIDE DEF fks, es, keys, kn
    <3>1. QED
      BY <1>2, <1>3, <1>14, <2>2 DEF IInv, EntriesKept
  <2> HIDE DEF fks, es, keys, kn
  <2>3. QED
    BY <1>2, <2>1, <2>2 DEF EntriesKept
<1>17. EntriesExact'
  <2>1. {columns[k] : k \in keys} = key
    <3>1. \A c \in key : <<new, c>> \in keys /\ columns[<<new, c>>] = c
      BY <1>1, <1>4
    <3>2. \A k \in keys : \E c \in key : k = <<new, c>>
      OBVIOUS
    <3> HIDE DEF keys
    <3>3. QED
      BY <3>1, <3>2
  <2>2. ASSUME NEW e \in es PROVE \E fk \in fks : e = Entry(new, fk)'
    <3>1. PICK ref \in refs : e = entry(ref)
      OBVIOUS
    <3>2. PICK fk : fk = key1(ref)
      OBVIOUS
    <3>3. fk \in fks
      BY <3>2
    <3>4. e = Entry(new, fk)'
      BY <1>15, <3>1, <3>2
    <3>5. QED
      BY <3>3, <3>4
  <2>3. ASSUME beyond' = {}, NEW j \in DOMAIN db
        PROVE  /\ \A e \in tables'[j].foreignKeys :
                    \E fk \in db'[j].foreignKeys : e = Entry(j, fk)'
               /\ tables'[j].primaryKey = {db'[j].columns[k] : k \in db'[j].key}
    <3> HIDE DEF fks, es, keys, kn
    <3>1. QED
      BY <1>2, <1>3, <1>14, <2>3 DEF IInv, EntriesExact
  <2>4. /\ \A e \in tables'[new].foreignKeys :
             \E fk \in db'[new].foreignKeys : e = Entry(new, fk)'
        /\ tables'[new].primaryKey = {db'[new].columns[k] : k \in db'[new].key}
    <3> HIDE DEF fks, es, keys, kn
    <3>1. QED
      BY <1>9, <2>1, <2>2
  <2> HIDE DEF fks, es, keys, kn
  <2>5. QED
    BY <1>2, <2>3, <2>4 DEF EntriesExact
<1>18. QED
  BY <1>11, <1>12, <1>13, <1>16, <1>17 DEF IInv

LEMMA CreateStep ==
  ASSUME IInv, steps < MaxStatements, steps' = steps + 1, line' \in Nat,
         NEW t \in TableNames, Create(t)
  PROVE  IInv'
<1>1. PICK cols \in SUBSET ColumnNames : \E key \in {{}} \cup {{c} : c \in cols} :
      \E refs \in UNION {kSubset(n, Keys(cols)) : n \in 0..MaxKeys} :
        /\ CreateTable(t, cols, key, refs, line') /\ create(t, cols, key, refs)
        /\ UNCHANGED beyond
  BY DEF Create
<1>2. PICK key \in {{}} \cup {{c} : c \in cols},
           refs \in UNION {kSubset(n, Keys(cols)) : n \in 0..MaxKeys} :
        /\ CreateTable(t, cols, key, refs, line') /\ create(t, cols, key, refs)
        /\ UNCHANGED beyond
  BY <1>1
<1>3. refs \subseteq Keys(cols)
  BY DEF kSubset
<1>4. QED
  BY <1>2, <1>3, CreateTableStep

LEMMA CreateAgainStep ==
  ASSUME IInv, steps < MaxStatements, steps' = steps + 1, line' \in Nat,
         NEW t \in TableNames, CreateAgain(t)
  PROVE  IInv'
<1>1. PICK cols \in SUBSET ColumnNames :
        CreateExisting(t) /\ create(t, cols, {}, {}) /\ UNCHANGED beyond
  BY DEF CreateAgain
<1>2. steps \in Nat
  BY DEF IInv, TypeOK
<1>3. Known(t)
  BY <1>1, <1>2, SameTable DEF CreateExisting, IInv
<1>4. QED
  BY <1>1, <1>3, NothingStep DEF CreateExisting, create

\* The foreign keys that refer to the table renamed follow it.
Renamed(e, t, u) == [e EXCEPT !.refTable = IF e.refTable = t THEN u ELSE e.refTable]

SetNamed(e, n, fks) == [e EXCEPT !.name = n, !.foreignKeys = fks]

LEMMA RenamedReference ==
  ASSUME NEW n, NEW c, NEW r, NEW l, NEW t, NEW u
  PROVE  Renamed(Reference(n, c, r, l), t, u) = Reference(n, c, IF r = t THEN u ELSE r, l)
BY DEF Renamed, Reference

LEMMA RenameStep ==
  ASSUME IInv, steps < MaxStatements, steps' = steps + 1, line' \in Nat,
         NEW t \in TableNames, Rename(t)
  PROVE  IInv'
<1> DEFINE i == TheTable(t)
<1>1. PICK u \in TableNames : RenameTable(t, u) /\ renameTable(t, u)
  BY DEF Rename
<1>2. Exists(t) /\ ~ Exists(u)
  BY <1>1 DEF RenameTable
<1>3. /\ i \in DOMAIN db /\ i \in DOMAIN tables /\ Known(t) /\ Table(t) = i
      /\ db[i].name = t /\ tables[i].name = t
      /\ tables[i].columns = {db[i].columns[x] : x \in DOMAIN db[i].columns}
      /\ IsRow(db[i]) /\ IsEntries(tables[i])
      /\ GoodRow(db[i].columns, db[i].key, db[i].keyName, db[i].foreignKeys)
      /\ GoodEntries(tables[i].primaryKey, tables[i].foreignKeys)
  BY <1>2, Found
<1>rows. IsRow(db[i]) /\ IsEntries(tables[i])
  BY <1>3
<1>4. UNCHANGED beyond /\ steps \in Nat /\ steps + 1 \in 0..MaxStatements
  BY StatementsAssumption DEF Rename, IInv, TypeOK
<1> DEFINE name(j) == IF j = i THEN u ELSE db[j].name
           es(j)   == {Renamed(e, t, u) : e \in tables[j].foreignKeys}
<1>5. /\ DOMAIN db' = DOMAIN db
      /\ \A j \in DOMAIN db :
           db'[j] = Row(name(j), db[j].columns, db[j].key, db[j].keyName, db[j].foreignKeys)
  <2>1. db' = [db EXCEPT ![i] = [db[i] EXCEPT !.name = u]]
    BY <1>1 DEF RenameTable
  <2>2. [db[i] EXCEPT !.name = u]
          = Row(u, db[i].columns, db[i].key, db[i].keyName, db[i].foreignKeys)
    BY <1>rows, RowChanges
  <2>3. \A j \in DOMAIN db :
          db[j] = Row(db[j].name, db[j].columns, db[j].key, db[j].keyName, db[j].foreignKeys)
    BY RowShape DEF IInv, IsRow
  <2> HIDE DEF i
  <2>4. QED
    BY <1>3, <2>1, <2>2, <2>3
<1>6. /\ DOMAIN tables' = DOMAIN db
      /\ \A j \in DOMAIN db :
           tables'[j] = Entries(name(j), tables[j].columns, tables[j].primaryKey, es(j))
  <2>1. DOMAIN tables' = DOMAIN db /\ DOMAIN tables = DOMAIN db
    BY <1>1, <1>3 DEF renameTable, IInv, TablesAgree
  <2>2. ASSUME NEW j \in DOMAIN db
        PROVE  tables'[j] = Entries(name(j), tables[j].columns, tables[j].primaryKey, es(j))
    <3>1. PICK e : e = tables[j]
      OBVIOUS
    <3>2. IsEntries(e)
      BY <2>1, <3>1, EntriesShape DEF IInv
    <3>3. tables' = [x \in DOMAIN tables |->
                       SetNamed(tables[x], IF x = i THEN u ELSE tables[x].name, es(x))]
      <4>1. Known(t) /\ Table(t) = i
        BY <1>3
      <4>2. QED
        BY <1>1, <4>1 DEF renameTable, Renamed, SetNamed
    <3>4. tables[j].name = db[j].name
      BY DEF IInv, TablesAgree
    <3> HIDE DEF es
    <3>5. tables'[j] = SetNamed(e, name(j), es(j))
      BY <2>1, <3>1, <3>3, <3>4
    <3> HIDE DEF name
    <3>6. PICK e1 : e1 = [e EXCEPT !.name = name(j)]
      OBVIOUS
    <3>7. e1 = Entries(name(j), e.columns, e.primaryKey, e.foreignKeys)
      BY <3>2, <3>6, EntriesChanges
    <3>8. IsEntries(e1) /\ e1.name = name(j) /\ e1.columns = e.columns
          /\ e1.primaryKey = e.primaryKey
      BY <3>7, Fields
    <3>9. [e1 EXCEPT !.foreignKeys = es(j)] = Entries(name(j), e.columns, e.primaryKey, es(j))
      BY <3>8 DEF IsEntries, Entries
    <3>10. QED
      BY <3>1, <3>5, <3>6, <3>9 DEF SetNamed
  <2>3. QED
    BY <2>1, <2>2
<1>7. \A j \in DOMAIN db :
        /\ db'[j].name = name(j) /\ db'[j].columns = db[j].columns
        /\ db'[j].key = db[j].key /\ db'[j].foreignKeys = db[j].foreignKeys
        /\ tables'[j].name = name(j) /\ tables'[j].columns = tables[j].columns
        /\ tables'[j].primaryKey = tables[j].primaryKey /\ tables'[j].foreignKeys = es(j)
  <2> HIDE DEF name, es
  <2>1. \A j \in DOMAIN db :
          /\ db'[j].name = name(j) /\ db'[j].columns = db[j].columns
          /\ db'[j].key = db[j].key /\ db'[j].foreignKeys = db[j].foreignKeys
    BY <1>5 DEF Row
  <2>2. \A j \in DOMAIN db :
          /\ tables'[j].name = name(j) /\ tables'[j].columns = tables[j].columns
          /\ tables'[j].primaryKey = tables[j].primaryKey /\ tables'[j].foreignKeys = es(j)
    BY <1>6 DEF Entries
  <2>3. QED
    BY <2>1, <2>2
<1>8. \A j, l \in DOMAIN db : name(j) = name(l) => j = l
  BY <1>2, <1>3 DEF IInv, DbOK, Exists
<1>9. \A j \in DOMAIN db : name(j) = (IF db[j].name = t THEN u ELSE db[j].name)
  BY <1>3 DEF IInv, DbOK
<1>10. DbOK'
  <2>1. ASSUME NEW j \in DOMAIN db PROVE RowOK(j)'
    <3>1. name(j) \in TableNames
      BY RowShape DEF IInv
    <3>2. db[j].foreignKeys \subseteq
            [name : ConstraintName, column : DOMAIN db[j].columns, ref : DOMAIN db', line : Nat]
      BY <1>5, RowShape DEF IInv
    <3>3. DbOK
      BY DEF IInv
    <3> HIDE DEF name
    <3>4. QED
      BY <1>4, <1>5, <3>1, <3>2, <3>3, RowKept
  <2>2. DOMAIN db' \subseteq 1..steps'
    BY <1>4, <1>5 DEF IInv, DbOK
  <2> HIDE DEF name
  <2>3. \A j, l \in DOMAIN db' : db'[j].name = db'[l].name => j = l
    BY <1>5, <1>7, <1>8
  <2>4. QED
    BY <1>5, <2>1, <2>2, <2>3 DEF DbOK
<1>11. TypeOK'
  <2>1. ASSUME NEW j \in DOMAIN db
        PROVE  tables'[j] \in
                 [name : TableNames, columns : SUBSET ColumnNames, primaryKey : SUBSET ColumnNames,
                  foreignKeys : SUBSET [name : Names, column : ColumnNames, refTable : TableNames, line : Nat]]
    <3>1. j \in DOMAIN tables
      BY DEF IInv, TablesAgree
    <3>2. name(j) \in TableNames
      BY RowShape DEF IInv
    <3>3. \A e \in tables[j].foreignKeys :
            Renamed(e, t, u) \in [name : Names, column : ColumnNames, refTable : TableNames, line : Nat]
      BY <3>1, EntriesShape DEF IInv, Renamed
    <3>4. es(j) \subseteq [name : Names, column : ColumnNames, refTable : TableNames, line : Nat]
      BY <3>3
    <3>5. tables[j].columns \subseteq ColumnNames /\ tables[j].primaryKey \subseteq ColumnNames
      BY <3>1, EntriesShape DEF IInv
    <3> HIDE DEF name, es
    <3>6. QED
      BY <1>6, <3>2, <3>4, <3>5 DEF Entries
  <2>2. DOMAIN tables' \subseteq 1..MaxStatements
    BY <1>6 DEF IInv, TypeOK, TablesAgree
  <2> HIDE DEF name, es
  <2>3. QED
    BY <1>4, <1>6, <2>1, <2>2 DEF IInv, TypeOK
<1>12. TablesAgree'
  <2> HIDE DEF name, es
  <2>1. \A j \in DOMAIN db : tables'[j].name = db'[j].name /\ tables'[j].columns = Columns(j)'
    BY <1>7 DEF IInv, TablesAgree, Columns
  <2>2. \A j, l \in DOMAIN db : tables'[j].name = tables'[l].name => j = l
    BY <1>7, <1>8
  <2>3. QED
    BY <1>5, <1>6, <2>1, <2>2 DEF TablesAgree
<1>13. \A j \in DOMAIN db : \A fk \in db[j].foreignKeys :
         Entry(j, fk)' = Renamed(Entry(j, fk), t, u)
  <2>1. \A j \in DOMAIN db : \A fk \in db[j].foreignKeys : fk.ref \in DOMAIN db
    BY RowShape DEF IInv
  <2>2. \A k \in DOMAIN db : db'[k].name = (IF db[k].name = t THEN u ELSE db[k].name)
    BY <1>7, <1>9
  <2> HIDE DEF name, es
  <2>3. ASSUME NEW j \in DOMAIN db, NEW fk \in db[j].foreignKeys
        PROVE  Entry(j, fk)'
                 = Reference(Kept(fk.name), db[j].columns[fk.column],
                             IF db[fk.ref].name = t THEN u ELSE db[fk.ref].name, fk.line)
    BY <1>7, <2>1, <2>2 DEF Entry, Kept
  <2>4. \A j \in DOMAIN db : \A fk \in db[j].foreignKeys :
          Entry(j, fk) = Reference(Kept(fk.name), db[j].columns[fk.column], db[fk.ref].name, fk.line)
    BY DEF Entry, Kept
  <2>5. QED
    BY <2>3, <2>4, RenamedReference
<1>14. EntriesKept'
  <2>1. SUFFICES ASSUME NothingRenamed', NEW j \in DOMAIN db,
                        NEW fk \in db[j].foreignKeys
                 PROVE  Entry(j, fk)' \in tables'[j].foreignKeys
    BY <1>5, <1>7 DEF EntriesKept
  <2>2. Entry(j, fk) \in tables[j].foreignKeys
    BY <1>4, <2>1 DEF IInv, EntriesKept
  <2>3. Renamed(Entry(j, fk), t, u) \in es(j)
    BY <2>2
  <2>4. QED
    BY <1>7, <1>13, <2>3
<1>15. EntriesExact'
  <2>1. SUFFICES ASSUME beyond' = {}, NEW j \in DOMAIN db
                 PROVE  /\ \A e \in tables'[j].foreignKeys :
                             \E fk \in db'[j].foreignKeys : e = Entry(j, fk)'
                        /\ tables'[j].primaryKey = {db'[j].columns[k] : k \in db'[j].key}
    BY <1>5 DEF EntriesExact
  <2>2. /\ \A e \in tables[j].foreignKeys : \E fk \in db[j].foreignKeys : e = Entry(j, fk)
        /\ tables[j].primaryKey = {db[j].columns[k] : k \in db[j].key}
    BY <1>4, <2>1 DEF IInv, EntriesExact
  <2>3. ASSUME NEW e \in es(j) PROVE \E fk \in db[j].foreignKeys : e = Entry(j, fk)'
    <3>1. PICK o \in tables[j].foreignKeys : e = Renamed(o, t, u)
      OBVIOUS
    <3>2. PICK fk \in db[j].foreignKeys : o = Entry(j, fk)
      BY <2>2
    <3>3. QED
      BY <1>13, <3>1, <3>2
  <2> HIDE DEF name, es
  <2>4. QED
    BY <1>7, <2>2, <2>3
<1>16. QED
  BY <1>10, <1>11, <1>12, <1>14, <1>15 DEF IInv

-----------------------------------------------------------------------------
LEMMA InitIInv == Init => IInv
<1> SUFFICES ASSUME Init PROVE IInv
  OBVIOUS
<1>1. DOMAIN db = {} /\ DOMAIN tables = {} /\ steps = 0 /\ line = 1 /\ beyond = {}
  BY DEF Init
<1>2. QED
  BY <1>1, StatementsAssumption DEF IInv, TypeOK, DbOK, TablesAgree, EntriesKept, EntriesExact

LEMMA NextIInv == IInv /\ [Next]_vars => IInv'
<1> SUFFICES ASSUME IInv, [Next]_vars PROVE IInv'
  OBVIOUS
<1>1. CASE UNCHANGED vars
  <2>1. UNCHANGED <<db, steps, line, tables, beyond>>
    BY <1>1 DEF vars
  <2>2. TypeOK' /\ TablesAgree'
    BY <2>1 DEF IInv, TypeOK, TablesAgree, Columns
  <2>3. DbOK'
    BY <2>1 DEF IInv, DbOK, RowOK, Rows
  <2>4. EntriesKept' /\ EntriesExact'
    BY <2>1 DEF IInv, EntriesKept, EntriesExact, Entry
  <2>5. QED
    BY <2>2, <2>3, <2>4 DEF IInv
<1>2. CASE Next
  <2>1. steps < MaxStatements /\ steps' = steps + 1
    BY <1>2 DEF Next
  <2>2. PICK t \in TableNames :
          \/ Create(t) \/ CreateAgain(t) \/ DropConstr(t) \/ Rename(t)
          \/ RenameConstr(t) \/ DropTab(t)
          \/ \E c \in ColumnNames : \/ Add(t, c) \/ AddForeign(t, c) \/ AddPrimary(t, c)
                                    \/ Drop(t, c) \/ RenameCol(t, c)
    BY <1>2 DEF Next
  <2>3. line' \in Nat
    <3>1. line \in Nat /\ steps + 1 \in Nat
      BY DEF IInv, TypeOK
    <3>2. ASSUME NEW refs, Place(refs) PROVE line' \in Nat
      BY <3>1, <3>2 DEF Place
    <3>3. CASE \E c \in ColumnNames : \/ Add(t, c) \/ AddForeign(t, c) \/ AddPrimary(t, c)
                                       \/ Drop(t, c) \/ RenameCol(t, c)
      BY <3>1, <3>2, <3>3 DEF Add, AddForeign, AddPrimary, Drop, RenameCol
    <3>4. QED
      BY <2>2, <3>1, <3>2, <3>3
         DEF Create, CreateAgain, DropConstr, Rename, RenameConstr, DropTab
  <2>4. QED
    BY <2>1, <2>2, <2>3, CreateStep, CreateAgainStep, DropConstrStep, RenameStep, RenameConstrStep, DropTabStep, AddStep,
       AddForeignStep, AddPrimaryStep, DropStep, RenameColStep
<1>3. QED
  BY <1>1, <1>2

\* The inductive invariant holds in every state: whatever migrations PostgreSQL
\* accepts, Schema.Apply (schema.go) keeps step with the database.
THEOREM Invariant == Spec => []IInv
<1>1. QED
  BY InitIInv, NextIInv, PTL DEF Spec

\* The variables keep their types.
THEOREM TypeCorrect == Spec => []TypeOK
<1>1. IInv => TypeOK
  BY DEF IInv
<1>2. QED
  BY <1>1, Invariant, PTL

\* "Schema is the database schema that results from applying DDL in order"
\* (schema.go:11), of tables and columns.
THEOREM SchemaIsTheResult == Spec => []TablesAgree
<1>1. IInv => TablesAgree
  BY DEF IInv
<1>2. QED
  BY <1>1, Invariant, PTL

\* What is added to the graph for a foreign key whose entry Schema has.
LEMMA EntryIsAdded ==
  ASSUME IInv, NEW i \in DOMAIN db, NEW fk \in db[i].foreignKeys,
         Entry(i, fk) \in tables[i].foreignKeys
  PROVE  [from |-> db[i].name, column |-> db[i].columns[fk.column], to |-> db[fk.ref].name,
          line |-> fk.line] \in Added
<1> DEFINE e == Entry(i, fk)
<1>1. /\ e.column = db[i].columns[fk.column] /\ e.refTable = db[fk.ref].name
      /\ e.line = fk.line
  BY DEF Entry, Reference
<1>2. /\ i \in DOMAIN tables /\ tables[i].name = db[i].name
      /\ Known(e.refTable)
  <2>1. fk.ref \in DOMAIN db
    BY RowShape DEF IInv
  <2>2. QED
    BY <1>1, <2>1 DEF IInv, TablesAgree, Known
<1> HIDE DEF e
<1>3. <<i, e>> \in UNION {{j} \X tables[j].foreignKeys : j \in DOMAIN tables}
  <2>1. <<i, e>> \in {i} \X tables[i].foreignKeys
    BY DEF e
  <2>2. QED
    BY <1>2, <2>1
<1>4. PICK p : p = <<i, e>>
  OBVIOUS
<1>5. p[1] = i /\ p[2] = e
  BY <1>4
<1>6. QED
  BY <1>1, <1>2, <1>3, <1>4, <1>5 DEF Added

\* As long as no column or constraint is renamed, every foreign key of the
\* database is added.
LEMMA AllAdded ==
  ASSUME IInv, NothingRenamed
  PROVE  Actual \subseteq Added
<1>1. SUFFICES ASSUME NEW a \in Actual PROVE a \in Added
  OBVIOUS
<1>2. PICK p \in UNION {{i} \X db[i].foreignKeys : i \in DOMAIN db} :
        a = [from |-> db[p[1]].name, column |-> db[p[1]].columns[p[2].column],
             to |-> db[p[2].ref].name, line |-> p[2].line]
  BY <1>1 DEF Actual
<1>3. PICK i \in DOMAIN db : p \in {i} \X db[i].foreignKeys
  BY <1>2
<1>4. PICK fk \in db[i].foreignKeys : p[1] = i /\ p[2] = fk
  BY <1>3
<1>5. Entry(i, fk) \in tables[i].foreignKeys
  BY DEF IInv, EntriesKept
<1>6. QED
  BY <1>2, <1>4, <1>5, EntryIsAdded

\* As long as no column or constraint is renamed, every foreign key of the
\* database has an edge at its statement (writeSchema, build.go; AddEdge, graph.go).
THEOREM ForeignKeysShown == Spec => []NoForeignKeyLost
<1>1. IInv => NoForeignKeyLost
  <2>1. SUFFICES ASSUME IInv, NothingRenamed
                 PROVE  {Edge(key) : key \in Actual} \subseteq Shown
    BY DEF NoForeignKeyLost
  <2>2. Actual \subseteq Added
    BY <2>1, AllAdded
  <2>3. QED
    BY <2>2 DEF Shown
<1>2. QED
  BY <1>1, Invariant, PTL

\* What is added while Schema ignored nothing is a foreign key of the database.
LEMMA AddedIsActual ==
  ASSUME IInv, beyond = {}, NEW s \in Added
  PROVE  s \in Actual
<1>1. PICK p \in UNION {{i} \X tables[i].foreignKeys : i \in DOMAIN tables} :
        s = [from |-> tables[p[1]].name, column |-> p[2].column, to |-> p[2].refTable,
             line |-> p[2].line]
  BY DEF Added
<1>2. PICK i \in DOMAIN tables : p \in {i} \X tables[i].foreignKeys
  BY <1>1
<1>3. PICK e \in tables[i].foreignKeys : p[1] = i /\ p[2] = e
  BY <1>2
<1>4. i \in DOMAIN db /\ tables[i].name = db[i].name
  BY DEF IInv, TablesAgree
<1>5. PICK fk \in db[i].foreignKeys : e = Entry(i, fk)
  BY <1>4 DEF IInv, EntriesExact
<1>6. /\ e.column = db[i].columns[fk.column] /\ e.refTable = db[fk.ref].name
      /\ e.line = fk.line
  BY <1>5 DEF Entry, Reference
<1>7. s = [from |-> db[i].name, column |-> db[i].columns[fk.column], to |-> db[fk.ref].name,
           line |-> fk.line]
  BY <1>1, <1>3, <1>4, <1>6
<1>8. PICK q : q = <<i, fk>>
  OBVIOUS
<1>9. q \in UNION {{j} \X db[j].foreignKeys : j \in DOMAIN db}
  <2>1. q \in {i} \X db[i].foreignKeys
    BY <1>8
  <2>2. QED
    BY <1>4, <2>1
<1>10. q[1] = i /\ q[2] = fk
  BY <1>8
<1>11. QED
  BY <1>7, <1>9, <1>10 DEF Actual

\* While no statement did what Schema ignores, the edges are those of the foreign
\* keys of the database and show columns of theirs, and primary keys are the same.
THEOREM KeysShown == Spec => []KeysAgree
<1>1. IInv => KeysAgree
  <2>1. SUFFICES ASSUME IInv, beyond = {}
                 PROVE  /\ Shown = {Edge(key) : key \in Actual}
                        /\ \A e \in Shown :
                             Shows(e) = {key.column : key \in {k \in Actual : Edge(k) = e}}
                        /\ \A i \in DOMAIN tables :
                             tables[i].primaryKey = {db[i].columns[k] : k \in db[i].key}
    BY DEF KeysAgree
  <2>2. Added = Actual
    BY <2>1, AllAdded, AddedIsActual
  <2>3. Shown = {Edge(key) : key \in Actual}
    BY <2>2 DEF Shown
  <2>4. \A e \in Shown : Shows(e) = {key.column : key \in {k \in Actual : Edge(k) = e}}
    BY <2>2 DEF Shows
  <2>5. \A i \in DOMAIN tables : tables[i].primaryKey = {db[i].columns[k] : k \in db[i].key}
    BY <2>1 DEF IInv, EntriesExact, TablesAgree
  <2>6. QED
    BY <2>3, <2>4, <2>5
<1>2. QED
  BY <1>1, Invariant, PTL

=============================================================================
