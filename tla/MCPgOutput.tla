----------------------------- MODULE MCPgOutput -----------------------------
(***************************************************************************)
(* Small instances of PgOutput: one or two tables whose definition can be  *)
(* altered by renaming the table, a column, or changing a column's type.   *)
(***************************************************************************)
EXTENDS PgOutput

Table(name, second, type) ==
  [name |-> name,
   columns |-> <<[name |-> "id", type |-> "int"], [name |-> second, type |-> type]>>]

TwoSchemas == {Table("users", "body", "text"), Table("people", "note", "jsonb")}
ThreeSchemas == TwoSchemas \cup
  {[name |-> "users", columns |-> <<[name |-> "id", type |-> "int"]>>]}
=============================================================================
