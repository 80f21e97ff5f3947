----------------------------- MODULE RecordCodec -----------------------------
(***************************************************************************)
(* The bytes of a row (src/src/storage/record_codec.cpp) and of an index   *)
(* key (src/src/index/index_key.cpp):                                      *)
(*   column count | null bitmap | one offset per column | fields           *)
(* Counts and offsets are two bytes wide, integers four, little-endian.    *)
(* A record is a sequence of bytes, byte 0 of the program at position 1.   *)
(***************************************************************************)
EXTENDS FieldValues, FiniteSets, SequencesExt

CONSTANTS MaxKeyLength,   \* HashIndexBucketPage::MAX_KEY_LENGTH
          Schemas,        \* the schemas to try, and for a schema
          RowsFor(_),     \*   the rows to write
          RecordsFor(_),  \*   the records to read, written by nobody
          MaxProjection   \* bound: columns of a projection

VARIABLES schema, values, record,
          stage    \* what the record is: not written yet, refused, written, ...

codecVars == <<schema, values, record, stage>>

ASSUME CodecAssumption ==
    /\ MaxKeyLength \in Nat /\ MaxKeyLength > 4 /\ MaxProjection \in Nat
    /\ \A s \in Schemas : /\ s \in SchemaType
                         /\ RowsFor(s) \subseteq Seq(ValueType)
                         /\ RecordsFor(s) \subseteq Seq(Byte)

U16Max == HalfWord - 1
U16(n) == <<n % Base, n \div Base>>
I32(n) == LET raw == n % Word IN U16(raw % HalfWord) \o U16(raw \div HalfWord)
ReadU16(r, at) == r[at] + Base * r[at + 1]
ReadI32(r, at) == LET raw == ReadU16(r, at) + HalfWord * ReadU16(r, at + 2)
                  IN IF raw > IntMax THEN raw - Word ELSE raw

NullBitmapSize(n) == (n + ByteBits - 1) \div ByteBits
HeaderLength(n) == 2 + NullBitmapSize(n) + 2 * n

(* Bit k of the bitmap, counted from 0, belongs to column k + 1.           *)
NullByte(vs, b) ==
    LET bits == {k \in 0 .. ByteBits - 1 :
                    b * ByteBits + k < Len(vs) /\ vs[b * ByteBits + k + 1] = Null}
    IN SumFunctionOnSet([k \in 0 .. ByteBits - 1 |-> 2 ^ k], bits)
IsNull(r, i) == (r[3 + (i - 1) \div ByteBits] \div (2 ^ ((i - 1) % ByteBits))) % 2 = 1

Field(value) == CASE value.type = "NULL"    -> <<>>
                  [] value.type = "INTEGER" -> I32(value.int)
                  [] value.type = "VARCHAR" -> value.text
                  [] value.type = "BOOLEAN" -> <<IF value.bool THEN 1 ELSE 0>>

(* Where the field of column i starts in the payload.                      *)
OffsetOf(vs, i) == SumFunctionOnSet([j \in DOMAIN vs |-> Len(Field(vs[j]))], 1 .. i - 1)
PayloadSize(vs) == OffsetOf(vs, Len(vs) + 1)

Compatible(column, value) ==
    \/ value = Null
    \/ /\ value.type = column.type
       /\ column.type = "VARCHAR" => FitsColumn(value.text, column)

(* The checks of Serialize.                                                *)
Serializable(s, vs) ==
    /\ Len(vs) = Len(s) /\ Len(s) <= U16Max /\ HeaderLength(Len(s)) <= U16Max
    /\ \A i \in 1 .. Len(s) : OffsetOf(vs, i) <= U16Max /\ Compatible(s[i], vs[i])
    /\ HeaderLength(Len(s)) + PayloadSize(vs) <= U16Max

(* A NULL has an offset too, the one of the next field.                    *)
BugSerialize(s, vs) ==
    U16(Len(s))
      \o [b \in 1 .. NullBitmapSize(Len(s)) |-> NullByte(vs, b - 1)]
      \o FlattenSeq([i \in 1 .. Len(s) |-> U16(IF vs[i] = Null THEN 0 ELSE OffsetOf(vs, i))])
      \o FlattenSeq([i \in 1 .. Len(s) |-> Field(vs[i])])
Serialize(s, vs) ==
    U16(Len(s))
      \o [b \in 1 .. NullBitmapSize(Len(s)) |-> NullByte(vs, b - 1)]
      \o FlattenSeq([i \in 1 .. Len(s) |-> U16(OffsetOf(vs, i))])
      \o FlattenSeq([i \in 1 .. Len(s) |-> Field(vs[i])])

-----------------------------------------------------------------------------
(* Deserialize: what it checks before it reads on.                         *)
HeaderComplete(s, r) == /\ Len(r) >= 2
                        /\ ReadU16(r, 1) = Len(s)
                        /\ HeaderLength(Len(s)) <= Len(r)

StoredOffset(s, r, i) == ReadU16(r, 3 + NullBitmapSize(Len(s)) + 2 * (i - 1))
StoredPayload(s, r) == Len(r) - HeaderLength(Len(s))
End(s, r, i) == IF i < Len(s) THEN StoredOffset(s, r, i + 1) ELSE StoredPayload(s, r)
FieldSize(s, r, i) == End(s, r, i) - StoredOffset(s, r, i)

BugOffsetsInOrder(s, r) ==
    \A i \in 1 .. Len(s) : i > 1 => StoredOffset(s, r, i - 1) <= StoredOffset(s, r, i)
OffsetsInOrder(s, r) ==
    \A i \in 1 .. Len(s) : /\ StoredOffset(s, r, i) <= StoredPayload(s, r)
                           /\ i > 1 => StoredOffset(s, r, i - 1) <= StoredOffset(s, r, i)

FieldSound(s, r, i) == CASE IsNull(r, i) -> TRUE
                         [] ~IsNull(r, i) /\ s[i].type = "INTEGER" -> FieldSize(s, r, i) = 4
                         [] ~IsNull(r, i) /\ s[i].type = "BOOLEAN" -> FieldSize(s, r, i) = 1
                         [] ~IsNull(r, i) /\ s[i].type = "VARCHAR" -> TRUE

Readable(s, r) == /\ HeaderComplete(s, r) /\ OffsetsInOrder(s, r)
                  /\ \A i \in 1 .. Len(s) : FieldSound(s, r, i)

ReadField(s, r, i) ==
    LET at == HeaderLength(Len(s)) + StoredOffset(s, r, i) + 1
    IN CASE IsNull(r, i) -> Null
         [] ~IsNull(r, i) /\ s[i].type = "INTEGER" -> IntValue(ReadI32(r, at))
         [] ~IsNull(r, i) /\ s[i].type = "BOOLEAN" -> BoolValue(r[at] # 0)
         [] ~IsNull(r, i) /\ s[i].type = "VARCHAR" ->
                TextValue(SubSeq(r, at, at + FieldSize(s, r, i) - 1))

Deserialize(s, r) == [i \in 1 .. Len(s) |-> ReadField(s, r, i)]

(* The positions of the fields Deserialize reads; it stops at the first    *)
(* field of a wrong size.                                                  *)
FieldsRead(s, r) ==
    IF ~HeaderComplete(s, r) \/ ~OffsetsInOrder(s, r) THEN {}
    ELSE UNION {LET from == HeaderLength(Len(s)) + StoredOffset(s, r, i)
                IN from + 1 .. from + FieldSize(s, r, i) :
                   i \in {j \in 1 .. Len(s) : /\ ~IsNull(r, j)
                                              /\ \A k \in 1 .. j : FieldSound(s, r, k)}}

(* The schema and the values of Project.                                   *)
Selected(seq, columns) == [i \in 1 .. Len(columns) |-> seq[columns[i]]]

-----------------------------------------------------------------------------
(* IndexKey::Encode; NULL has no key.                                      *)
Encodable(value) == /\ value # Null
                    /\ value.type = "VARCHAR" => Len(value.text) + 1 <= MaxKeyLength
BugEncode(value) == Field(value)
Encode(value) == <<CASE value.type = "INTEGER" -> 1
                     [] value.type = "VARCHAR" -> 2
                     [] value.type = "BOOLEAN" -> 3>> \o Field(value)

-----------------------------------------------------------------------------
(* A row is written, and what a query projects from it is written again.   *)
(* Records a damaged file may hold are read as well.                       *)
CodecInit == /\ schema \in Schemas
             /\ \/ values \in RowsFor(schema) /\ record = <<>> /\ stage = "row"
                \/ values = <<>> /\ record \in RecordsFor(schema) /\ stage = "foreign"

WriteRow == /\ stage = "row"
            /\ IF Serializable(schema, values)
               THEN record' = Serialize(schema, values) /\ stage' = "written"
               ELSE stage' = "refused" /\ UNCHANGED record
            /\ UNCHANGED <<schema, values>>

Project(columns) ==
    /\ stage = "written"
    /\ LET s == Selected(schema, columns)
           vs == Selected(Deserialize(schema, record), columns)
       IN /\ schema' = s /\ values' = Selected(values, columns)
          /\ IF Serializable(s, vs)
             THEN record' = Serialize(s, vs) /\ stage' = "projected"
             ELSE stage' = "refused" /\ UNCHANGED record

CodecNext == \/ WriteRow
             \/ \E n \in 1 .. MaxProjection : \E columns \in [1 .. n -> 1 .. Len(schema)] :
                   Project(columns)

CodecSpec == CodecInit /\ [][CodecNext]_codecVars

-----------------------------------------------------------------------------
(* Properties.                                                             *)

\* RecordCodec::Deserialize gives back the row RecordCodec::Serialize has written
\* and the columns RecordCodec::Project has selected, NULL and the empty text told
\* apart; a row is refused only for a value of the wrong type or length or for a
\* record longer than a 16 bit size can say (record_format.md).
RowsSurvive ==
    /\ stage \in {"written", "projected"} =>
          Readable(schema, record) /\ Deserialize(schema, record) = values
    /\ stage = "refused" =>
          \/ Len(values) # Len(schema)
          \/ \E i \in 1 .. Len(schema) : ~Compatible(schema[i], values[i])
          \/ HeaderLength(Len(schema)) + PayloadSize(values) > U16Max

\* Whatever bytes a record holds, RecordCodec::Deserialize reads no field beyond
\* its end: the offsets are checked against the record and against each other.
ReadsInBounds == FieldsRead(schema, record) \subseteq 1 .. Len(record)

\* IndexKey::Encode gives two values the same key only if they are the same value,
\* of the same type, and no key is longer than an entry of a bucket page can hold.
KeysTellValuesApart ==
    \A i, j \in 1 .. Len(values) :
       Encodable(values[i]) /\ Encodable(values[j]) =>
          /\ Encode(values[i]) = Encode(values[j]) <=> values[i] = values[j]
          /\ Len(Encode(values[i])) <= MaxKeyLength
=============================================================================
