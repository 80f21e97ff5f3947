----------------------------- MODULE FieldValues -----------------------------
(***************************************************************************)
(* The typed values of a row, the columns of a schema, the literals of a   *)
(* statement, and the conversion from literal to value                     *)
(* (src/include/storage/record_codec.h, src/include/catalog/schema.h,      *)
(* src/src/query/literal.cpp).                                             *)
(*                                                                         *)
(* A byte has ByteBits bits, 8 in the program.  A smaller byte makes every *)
(* width shrink with it, so that the limits of the formats are within the  *)
(* reach of a small instance.                                              *)
(***************************************************************************)
EXTENDS Integers, Sequences

CONSTANT ByteBits

ASSUME ByteAssumption == ByteBits \in Nat \ {0, 1}

Base == 2 ^ ByteBits
Byte == 0 .. Base - 1
HalfWord == Base * Base               \* the values of uint16_t, and of uint32_t
Word == HalfWord * HalfWord
IntMin == -(Word \div 2)              \* numeric_limits<int32_t>
IntMax == Word \div 2 - 1

(* FieldValue.  The characters of a text are bytes.                        *)
Null == [type |-> "NULL"]
IntValue(n) == [type |-> "INTEGER", int |-> n]
TextValue(s) == [type |-> "VARCHAR", text |-> s]
BoolValue(b) == [type |-> "BOOLEAN", bool |-> b]
ValueType == [type : {"NULL"}] \cup [type : {"INTEGER"}, int : IntMin .. IntMax]
             \cup [type : {"VARCHAR"}, text : Seq(Byte)] \cup [type : {"BOOLEAN"}, bool : BOOLEAN]

(* Texts are compared like std::string.                                    *)
TextLess(s, t) == \E i \in 1 .. Len(t) :
                     /\ \A j \in 1 .. i - 1 : j <= Len(s) /\ s[j] = t[j]
                     /\ i <= Len(s) => s[i] < t[i]

(* length = 0: no declared length.                                         *)
Column(type, length) == [type |-> type, length |-> length]
SchemaType == Seq([type : {"INTEGER", "VARCHAR", "BOOLEAN"}, length : Nat])

(* SQLLiteral.  Of the text of a number its value matters, and whether it  *)
(* is spelled without leading zeroes; of an identifier, what it is in      *)
(* lower case.                                                             *)
Number(n) == [kind |-> "NUMBER", number |-> n, plain |-> TRUE]
PaddedNumber(n) == [kind |-> "NUMBER", number |-> n, plain |-> FALSE]
String(s) == [kind |-> "STRING", text |-> s]
Identifier(w) == [kind |-> "IDENTIFIER", word |-> w]
NullLiteral == [kind |-> "NULL"]

Literals == [kind : {"NUMBER"}, number : Int, plain : BOOLEAN]
            \cup [kind : {"STRING"}, text : Seq(Byte)]
            \cup [kind : {"IDENTIFIER"}, word : STRING]
            \cup {NullLiteral}

Invalid == [type |-> "INVALID"]

FitsColumn(s, column) == column.length = 0 \/ Len(s) <= column.length

(* A number out of the range of int32_t is refused, one out of the range   *)
(* of stoll by its exception.                                              *)
ConvertInteger(literal) ==
    IF literal.kind = "NUMBER" /\ literal.number \in IntMin .. IntMax
    THEN IntValue(literal.number) ELSE Invalid

ConvertText(column, literal) ==
    IF literal.kind = "STRING" /\ FitsColumn(literal.text, column)
    THEN TextValue(literal.text) ELSE Invalid

ConvertBoolean(literal) ==
    CASE literal \in {Identifier("true"), Number(1)}  -> BoolValue(TRUE)
      [] literal \in {Identifier("false"), Number(0)} -> BoolValue(FALSE)
      [] OTHER -> Invalid

ConvertLiteral(column, literal, allow_null) ==
    CASE literal.kind = "NULL" -> IF allow_null THEN Null ELSE Invalid
      [] literal.kind # "NULL" /\ column.type = "INTEGER" -> ConvertInteger(literal)
      [] literal.kind # "NULL" /\ column.type = "VARCHAR" -> ConvertText(column, literal)
      [] literal.kind # "NULL" /\ column.type = "BOOLEAN" -> ConvertBoolean(literal)
=============================================================================
