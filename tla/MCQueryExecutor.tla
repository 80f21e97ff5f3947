--------------------------- MODULE MCQueryExecutor ---------------------------
(***************************************************************************)
(* QueryExecutor on a table of an INTEGER, a VARCHAR and a BOOLEAN column, *)
(* for a fixed set of statements.                                          *)
(***************************************************************************)
EXTENDS QueryExecutor

a == <<1>>
ab == <<1, 2>>      \* longer than an index key may be

MCSchema == <<Column("INTEGER", 4), Column("VARCHAR", 2), Column("BOOLEAN", 1)>>

Where(column, op, value) == [column |-> column, op |-> op, value |-> value]

InsertOf(values) == [op |-> "insert", values |-> values]
IndexOn(column) == [op |-> "create index", column |-> column]
SelectFrom(fields, where) ==
    [op |-> "select", phase |-> "", fields |-> fields, where |-> where]
UpdateOf(column, value, where) ==
    [op |-> "update", phase |-> "", column |-> column, value |-> value, where |-> where]
DeleteOf(where) == [op |-> "delete", phase |-> "", where |-> where]

(* A SELECT with a column that does not exist, a literal of the wrong      *)
(* type, NULL in a condition, a key that cannot be encoded; updates of the *)
(* column they search, to NULL, to a key that cannot be encoded.           *)
MCStatements ==
    {InsertOf(<<Number(1), String(a), Identifier("true")>>),
     InsertOf(<<Number(0), String(ab), NullLiteral>>),
     InsertOf(<<Number(1), String(a)>>),
     IndexOn(1), IndexOn(2),
     SelectFrom(<<>>, <<>>),
     SelectFrom(<<2>>, <<Where(1, "=", Number(1)), Where(2, "<", String(ab))>>),
     SelectFrom(<<1, 4>>, <<Where(1, "=", Number(1))>>),
     SelectFrom(<<>>, <<Where(1, ">=", Number(1)), Where(2, "=", String(a))>>),
     SelectFrom(<<>>, <<Where(2, "=", String(ab))>>),
     SelectFrom(<<>>, <<Where(1, "<", Number(1))>>),
     SelectFrom(<<>>, <<Where(3, "=", NullLiteral)>>),
     SelectFrom(<<>>, <<Where(3, "<=", Number(1))>>),
     UpdateOf(1, Number(0), <<Where(1, "=", Number(1))>>),
     UpdateOf(1, NullLiteral, <<Where(1, ">", Number(0))>>),
     UpdateOf(2, String(ab), <<Where(1, "=", Number(1))>>),
     UpdateOf(1, String(a), <<>>),
     DeleteOf(<<Where(1, "=", Number(1))>>),
     DeleteOf(<<Where(2, ">", String(a))>>)}
=============================================================================
