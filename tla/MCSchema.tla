------------------------------ MODULE MCSchema ------------------------------
(* Small instances of Schema for TLC. *)
EXTENDS Schema, TLC

CONSTANTS users, posts, id, author, fk1

NoNames   == {NoName}
Renamings == Permutations(TableNames) \cup Permutations(ColumnNames)
=============================================================================
