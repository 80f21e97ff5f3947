------------------------- MODULE QueryExecutorProofs -------------------------
(***************************************************************************)
(* Machine-checked proofs about QueryExecutor, for every schema, every set *)
(* of record identifiers and every set of statements.                      *)
(***************************************************************************)
EXTENDS QueryExecutor, FiniteSetTheorems, WellFoundedInduction, TLAPS

(* FieldValue, and the rows of the schema.                                 *)
Values == [type : {"INTEGER"}, int : Int]
          \cup [type : {"VARCHAR"}, text : Seq(Byte)]
          \cup [type : {"BOOLEAN"}, bool : BOOLEAN]
          \cup {Null}
Typed(v, type) == v \in Values /\ v.type \in {"NULL", type}
Rows == {row \in [Columns -> Values] : \A c \in Columns : Typed(row[c], Schema[c].type)}
Tables == [RecordIDs -> Rows \cup {None}]

(* Every row is in the indexes, unless a rollback has failed; entries that *)
(* belong to no row do no harm.                                            *)
TableInv ==
    /\ heap \in Tables /\ indexed \subseteq Columns /\ damaged \in BOOLEAN
    /\ index = [c \in Columns |-> index[c]]
    /\ ~damaged => \A c \in indexed, rid \in RecordIDs :
                      Entries(c, rid, heap[rid]) \subseteq index[c]

(* A statement under way, and the rows it has found.                       *)
Opened ==
    [op : {"select"}, phase : {"scan"}, fields : Seq(Nat), where : Seq(Condition)]
    \cup [op : {"update"}, phase : {"scan", "apply"}, column : Nat, value : Literals,
          where : Seq(Condition)]
    \cup [op : {"delete"}, phase : {"scan", "apply"}, where : Seq(Condition)]
FoundInv ==
    /\ before.heap \in Tables /\ pending \in Seq(RecordIDs) /\ IsInjective(pending)
    /\ ToSet(pending) \subseteq AskedFor(before.heap, stmt) \ unread

(* A scan has found, or could not read, the rows asked for that its access *)
(* path has passed.                                                        *)
ScanInv ==
    /\ heap = before.heap /\ damaged = before.damaged /\ affected = 0
    /\ cursor \subseteq RecordIDs /\ cursor \cap (ToSet(pending) \cup unread) = {}
    /\ ~damaged => AskedFor(heap, stmt) \subseteq cursor \cup ToSet(pending) \cup unread

(* The rows changed so far, and only those, are as the statement wants.    *)
Changed == ToSet(SubSeq(pending, 1, affected))
ApplyInv ==
    /\ stmt.op # "select" /\ affected \in 0 .. Len(pending)
    /\ ~before.damaged => ToSet(pending) = AskedFor(before.heap, stmt) \ unread
    /\ heap = [rid \in RecordIDs |-> IF rid \in Changed THEN NewRow(stmt, before.heap[rid])
                                     ELSE before.heap[rid]]

StatementInv ==
    IF stmt = Idle THEN cursor = {} /\ pending = <<>> /\ affected = 0 /\ unread = {}
    ELSE /\ stmt \in Opened /\ Accepted(stmt) /\ FoundInv
         /\ IF stmt.phase = "scan" THEN ScanInv ELSE ApplyInv

QueryInv == TableInv /\ StatementInv

-----------------------------------------------------------------------------
(* Values.                                                                 *)

\* A set of natural numbers has a least one.
LEMMA LeastNatural ==
    ASSUME NEW T \in SUBSET Nat, T # {}
    PROVE  \E x \in T : \A y \in T : x <= y
  <1> DEFINE R == OpToRel(<, Nat)
  <1>1. IsWellFoundedOn(R, Nat)
    BY NatLessThanWellFounded
  <1>2. \A x, y \in Nat : <<x, y>> \in R <=> x < y
    BY DEF OpToRel
  <1> HIDE DEF R
  <1>3. PICK x \in T : \A y \in T : ~ (<<y, x>> \in R)
    BY <1>1, WFMin
  <1>4. ASSUME NEW y \in T PROVE x <= y
    <2>1. x \in Nat /\ y \in Nat
      OBVIOUS
    <2>2. ~ (y < x)
      BY <1>2, <1>3, <2>1
    <2>3. QED
      BY <2>1, <2>2
  <1>5. QED
    BY <1>4

\* Columns have a type.
LEMMA SchemaFacts ==
    /\ Columns = 1 .. Len(Schema) /\ Len(Schema) \in Nat
    /\ \A c \in Columns : Schema[c].type \in {"INTEGER", "VARCHAR", "BOOLEAN"}
  <1> DEFINE T == [type : {"INTEGER", "VARCHAR", "BOOLEAN"}, length : Nat]
  <1>1. Schema \in Seq(T)
    BY QueryAssumption DEF SchemaType
  <1>2. \A c \in T : c.type \in {"INTEGER", "VARCHAR", "BOOLEAN"}
    OBVIOUS
  <1> HIDE DEF T
  <1>3. \A c \in 1 .. Len(Schema) : Schema[c] \in T
    BY <1>1
  <1>4. QED
    BY <1>1, <1>2, <1>3 DEF Columns

\* What ConvertLiteral accepts is a value of the column.
LEMMA ConvertFacts ==
    ASSUME NEW c \in Columns, NEW literal \in Literals, NEW allow_null \in BOOLEAN,
           ConvertLiteral(Schema[c], literal, allow_null) # Invalid
    PROVE  /\ Typed(ConvertLiteral(Schema[c], literal, allow_null), Schema[c].type)
           /\ ~allow_null => ConvertLiteral(Schema[c], literal, allow_null) # Null
  <1> DEFINE v == ConvertLiteral(Schema[c], literal, allow_null)
  <1>1. CASE literal.kind = "NULL"
    BY <1>1 DEF ConvertLiteral, Typed, Values, Null
  <1>2. CASE literal.kind # "NULL" /\ Schema[c].type = "INTEGER"
    <2>1. v = ConvertInteger(literal)
      BY <1>2 DEF ConvertLiteral
    <2>2. literal.kind = "NUMBER" /\ v = IntValue(literal.number)
      BY <2>1 DEF ConvertInteger
    <2>3. literal.number \in Int
      BY <2>2 DEF Literals, NullLiteral
    <2>4. QED
      BY <1>2, <2>2, <2>3 DEF Typed, Values, IntValue, Null
  <1>3. CASE literal.kind # "NULL" /\ Schema[c].type = "VARCHAR"
    <2>1. v = ConvertText(Schema[c], literal)
      BY <1>3 DEF ConvertLiteral
    <2>2. literal.kind = "STRING" /\ v = TextValue(literal.text)
      BY <2>1 DEF ConvertText
    <2>3. literal.text \in Seq(Byte)
      BY <2>2 DEF Literals, NullLiteral
    <2>4. QED
      BY <1>3, <2>2, <2>3 DEF Typed, Values, TextValue, Null
  <1>4. CASE literal.kind # "NULL" /\ Schema[c].type = "BOOLEAN"
    <2>1. v = ConvertBoolean(literal)
      BY <1>4 DEF ConvertLiteral
    <2>2. v \in {BoolValue(TRUE), BoolValue(FALSE)}
      BY <2>1 DEF ConvertBoolean
    <2>3. \A b \in BOOLEAN : BoolValue(b) \in [type : {"BOOLEAN"}, bool : BOOLEAN]
      BY Zenon DEF BoolValue
    <2>4. v \in Values
      BY <2>2, <2>3 DEF Values
    <2>5. v.type = "BOOLEAN"
      BY <2>2 DEF BoolValue
    <2>6. QED
      BY <1>4, <2>4, <2>5 DEF Typed, Null
  <1>5. QED
    BY <1>1, <1>2, <1>3, <1>4, SchemaFacts

\* Texts are ordered: of two different texts one is less, and not both.
LEMMA TextOrder ==
    ASSUME NEW s \in Seq(Byte), NEW t \in Seq(Byte)
    PROVE  /\ ~TextLess(s, t) <=> s = t \/ TextLess(t, s)
           /\ ~TextLess(s, s)
  <1>1. \A i \in 1 .. Len(s) : s[i] \in Int
    <2>1. \A i \in 1 .. Len(s) : s[i] \in Byte
      OBVIOUS
    <2>2. QED
      BY <2>1 DEF Byte
  <1>2. \A i \in 1 .. Len(t) : t[i] \in Int
    <2>1. \A i \in 1 .. Len(t) : t[i] \in Byte
      OBVIOUS
    <2>2. QED
      BY <2>1 DEF Byte
  <1>3. Len(s) \in Nat /\ Len(t) \in Nat
    OBVIOUS
  <1>4. ~TextLess(s, s)
    BY <1>1, <1>3 DEF TextLess
  <1>5. ~(TextLess(s, t) /\ TextLess(t, s))
    <2>1. SUFFICES ASSUME NEW i \in 1 .. Len(t), NEW k \in 1 .. Len(s),
                          \A j \in 1 .. i - 1 : j <= Len(s) /\ s[j] = t[j],
                          i <= Len(s) => s[i] < t[i],
                          \A j \in 1 .. k - 1 : j <= Len(t) /\ t[j] = s[j],
                          k <= Len(t) => t[k] < s[k]
                   PROVE  FALSE
      BY DEF TextLess
    <2>2. CASE i < k
      <3>1. i \in 1 .. k - 1
        BY <2>2
      <3>2. i <= Len(s) /\ t[i] = s[i]
        BY <2>1, <2>2, <3>1
      <3>3. QED
        BY <1>1, <1>2, <2>1, <3>2
    <2>3. CASE k < i
      <3>1. k \in 1 .. i - 1
        BY <2>3
      <3>2. k <= Len(t) /\ t[k] = s[k]
        BY <2>1, <2>3, <3>1
      <3>3. QED
        BY <1>1, <1>2, <2>1, <3>2
    <2>4. CASE i = k
      BY <1>1, <1>2, <2>1, <2>4
    <2>5. QED
      BY <2>2, <2>3, <2>4
  <1>6. ASSUME s # t PROVE TextLess(s, t) \/ TextLess(t, s)
    <2> DEFINE Differ == {i \in Nat \ {0} : \/ i <= Len(s) /\ i <= Len(t) /\ s[i] # t[i]
                                            \/ i <= Len(s) /\ i > Len(t)
                                            \/ i > Len(s) /\ i <= Len(t)}
    <2>1. Differ # {}
      <3>1. SUFFICES ASSUME Differ = {} PROVE s = t
        BY <1>6
      <3>2. Len(s) = Len(t)
        <4>1. CASE Len(s) < Len(t)
          BY <1>3, <3>1, <4>1, Len(t) \in Differ
        <4>2. CASE Len(t) < Len(s)
          BY <1>3, <3>1, <4>2, Len(s) \in Differ
        <4>3. QED
          BY <1>3, <4>1, <4>2
      <3>3. \A i \in 1 .. Len(s) : s[i] = t[i]
        BY <1>3, <3>1, <3>2
      <3>4. QED
        BY <3>2, <3>3
    <2>2. PICK i \in Differ : \A j \in Differ : i <= j
      BY <2>1, LeastNatural
    <2>3. \A j \in 1 .. i - 1 : j <= Len(s) /\ j <= Len(t) /\ s[j] = t[j]
      BY <1>3, <2>2
    <2>4. CASE i <= Len(s) /\ i <= Len(t) /\ s[i] < t[i]
      BY <1>3, <2>3, <2>4 DEF TextLess
    <2>5. CASE i <= Len(s) /\ i <= Len(t) /\ t[i] < s[i]
      BY <1>3, <2>3, <2>5 DEF TextLess
    <2>6. CASE i <= Len(s) /\ i > Len(t)
      BY <1>3, <2>3, <2>6 DEF TextLess
    <2>7. CASE i > Len(s) /\ i <= Len(t)
      BY <1>3, <2>3, <2>7 DEF TextLess
    <2>8. QED
      BY <1>1, <1>2, <1>3, <2>2, <2>4, <2>5, <2>6, <2>7
  <1>7. QED
    BY <1>4, <1>5, <1>6

\* Values of the same type are equal when their contents are.
LEMMA EqualValues ==
    ASSUME NEW v \in Values, NEW w \in Values, v.type = w.type
    PROVE  /\ v.type = "INTEGER" => /\ v.int \in Int /\ w.int \in Int
                                    /\ v = w <=> v.int = w.int
           /\ v.type = "VARCHAR" => /\ v.text \in Seq(Byte) /\ w.text \in Seq(Byte)
                                    /\ v = w <=> v.text = w.text
  <1> DEFINE I == [type : {"INTEGER"}, int : Int]
             S == [type : {"VARCHAR"}, text : Seq(Byte)]
             B == [type : {"BOOLEAN"}, bool : BOOLEAN]
  <1>1. /\ \A x \in I : x.type = "INTEGER" /\ x = [type |-> "INTEGER", int |-> x.int] /\ x.int \in Int
        /\ \A x \in S : x.type = "VARCHAR" /\ x = [type |-> "VARCHAR", text |-> x.text]
                        /\ x.text \in Seq(Byte)
        /\ \A x \in B : x.type = "BOOLEAN"
    OBVIOUS
  <1>2. \A x \in Values : x \in I \/ x \in S \/ x \in B \/ x = Null
    BY DEF Values
  <1>3. Null.type = "NULL"
    BY DEF Null
  <1> HIDE DEF I, S, B
  <1>4. CASE v.type = "INTEGER"
    <2>1. v \in I /\ w \in I
      BY <1>1, <1>2, <1>3, <1>4
    <2>2. QED
      BY <1>1, <1>4, <2>1
  <1>5. CASE v.type = "VARCHAR"
    <2>1. v \in S /\ w \in S
      BY <1>1, <1>2, <1>3, <1>5
    <2>2. QED
      BY <1>1, <1>5, <2>1
  <1>6. QED
    BY <1>4, <1>5

-----------------------------------------------------------------------------
(* Filters.                                                                *)

\* A FilterOperator passes the rows that satisfy its condition.
LEMMA EvaluateFacts ==
    ASSUME NEW row \in Rows, NEW condition \in Condition,
           condition.column \in Columns, Target(condition) # Invalid
    PROVE  Evaluate(row, condition)
           <=> Satisfies(row[condition.column], condition.op, Target(condition))
  <1> DEFINE v == row[condition.column]
             w == Target(condition)
             type == Schema[condition.column].type
  <1>1. condition.op \in {"=", ">", "<", ">=", "<="} /\ condition.value \in Literals
    BY DEF Condition
  <1>2. Typed(v, type)
    BY DEF Rows
  <1>3. Typed(w, type) /\ w # Null
    BY <1>1, ConvertFacts DEF Target
  <1>4. v \in Values /\ w \in Values /\ w.type = type
    BY <1>2, <1>3 DEF Typed, Values, Null
  <1>5. w = ConvertLiteral(Schema[condition.column], condition.value, FALSE)
    BY DEF Target
  <1>6. CASE v.type = "NULL"
    <2>1. v = Null
      BY <1>4, <1>6 DEF Values
    <2>2. QED
      BY <1>6, <2>1 DEF Evaluate, Satisfies
  <1>7. CASE v.type = "INTEGER"
    <2>1. w.type = "INTEGER"
      BY <1>2, <1>4, <1>7 DEF Typed
    <2>2. v # Null
      BY <1>7 DEF Null
    <2>3. v.int \in Int /\ w.int \in Int /\ (v = w <=> v.int = w.int)
      BY <1>4, <1>7, <2>1, EqualValues
    <2>4. Evaluate(row, condition) <=> Compare(v.int < w.int, v = w, condition.op)
      BY <1>5, <1>7 DEF Evaluate
    <2>5. /\ Below(v, w) <=> v.int < w.int
          /\ Below(w, v) <=> w.int < v.int
      BY <1>7, <2>1 DEF Below
    <2> DEFINE less == v.int < w.int
               greater == w.int < v.int
    <2>6. (~less <=> v = w \/ greater) /\ (v = w => ~greater)
      BY <2>3
    <2>7. (Below(v, w) <=> less) /\ (Below(w, v) <=> greater)
      BY <2>5
    <2> HIDE DEF v, w, less, greater
    <2>8. Compare(less, v = w, condition.op) <=> Satisfies(v, condition.op, w)
      BY <1>1, <1>7, <2>2, <2>6, <2>7 DEF Compare, Satisfies
    <2>9. QED
      BY <2>4, <2>8 DEF v, w, less
  <1>8. CASE v.type = "VARCHAR"
    <2>1. w.type = "VARCHAR"
      BY <1>2, <1>4, <1>8 DEF Typed
    <2>2. v # Null
      BY <1>8 DEF Null
    <2>3. v.text \in Seq(Byte) /\ w.text \in Seq(Byte) /\ (v = w <=> v.text = w.text)
      BY <1>4, <1>8, <2>1, EqualValues
    <2>4. Evaluate(row, condition) <=> Compare(TextLess(v.text, w.text), v = w, condition.op)
      BY <1>5, <1>8 DEF Evaluate
    <2>5. /\ Below(v, w) <=> TextLess(v.text, w.text)
          /\ Below(w, v) <=> TextLess(w.text, v.text)
      BY <1>8, <2>1 DEF Below
    <2>6. /\ ~TextLess(v.text, w.text) <=> v = w \/ TextLess(w.text, v.text)
          /\ v = w => ~TextLess(w.text, v.text)
      BY <2>3, TextOrder
    <2> HIDE DEF v, w
    <2>7. Compare(TextLess(v.text, w.text), v = w, condition.op)
          <=> Satisfies(v, condition.op, w)
      BY <1>1, <1>8, <2>2, <2>5, <2>6 DEF Compare, Satisfies
    <2>8. QED
      BY <2>4, <2>7 DEF v, w
  <1>9. CASE v.type = "BOOLEAN"
    <2>1. w.type = "BOOLEAN" /\ v # Null
      BY <1>2, <1>4, <1>9 DEF Typed, Null
    <2>2. Evaluate(row, condition) <=> condition.op = "=" /\ v = w
      BY <1>5, <1>9 DEF Evaluate
    <2>3. ~Below(v, w) /\ ~Below(w, v)
      BY <1>9, <2>1 DEF Below
    <2> HIDE DEF v, w
    <2>4. Satisfies(v, condition.op, w) <=> condition.op = "=" /\ v = w
      BY <1>9, <2>1, <2>3 DEF Satisfies
    <2>5. QED
      BY <2>2, <2>4 DEF v, w
  <1>10. v.type \in {"NULL", "INTEGER", "VARCHAR", "BOOLEAN"}
    BY <1>4 DEF Values, Null
  <1>11. QED
    BY <1>6, <1>7, <1>8, <1>9, <1>10

\* The filters of a statement together pass the rows asked for.
LEMMA FiltersFacts ==
    ASSUME NEW s, s.where \in Seq(Condition), Accepted(s),
           NEW h \in Tables, NEW rid \in RecordIDs, h[rid] # None
    PROVE  PassesFilters(h[rid], s) <=> rid \in AskedFor(h, s)
  <1>1. h[rid] \in Rows
    BY DEF Tables
  <1>2. \A i \in 1 .. Len(s.where) : s.where[i] \in Condition
    OBVIOUS
  <1>3. \A i \in 1 .. Len(s.where) :
           Evaluate(h[rid], s.where[i])
           <=> Satisfies(h[rid][s.where[i].column], s.where[i].op, Target(s.where[i]))
    BY <1>1, <1>2, EvaluateFacts DEF Accepted
  <1>4. QED
    BY <1>3 DEF PassesFilters, AskedFor, RowIds

-----------------------------------------------------------------------------
(* Plans.                                                                  *)

\* BuildPlan chooses an index only for an equality on its column.
LEMMA IndexedConditionFacts ==
    ASSUME NEW s, s.where \in Seq(Condition), IndexedCondition(s) # 0
    PROVE  /\ IndexedCondition(s) \in 1 .. Len(s.where)
           /\ s.where[IndexedCondition(s)].op = "="
           /\ s.where[IndexedCondition(s)].column \in indexed
  <1> DEFINE C == {i \in 1 .. Len(s.where) :
                      s.where[i].op = "=" /\ s.where[i].column \in indexed}
  <1>1. IndexedCondition(s) = IF C # {} THEN Min(C) ELSE 0
    BY DEF IndexedCondition, SelectInSeq
  <1>2. C # {} /\ C \in SUBSET Nat
    BY <1>1
  <1>3. \E x \in C : \A y \in C : x <= y
    BY <1>2, LeastNatural
  <1>4. Min(C) \in C
    BY <1>3 DEF Min
  <1>5. QED
    BY <1>1, <1>2, <1>4

\* Either access path leads to every row asked for, as long as every row is in
\* the indexes.
LEMMA CandidatesFacts ==
    ASSUME TableInv, NEW s, s.where \in Seq(Condition)
    PROVE  /\ Candidates(s) \subseteq RecordIDs
           /\ ~damaged => AskedFor(heap, s) \subseteq Candidates(s)
  <1> DEFINE i == IndexedCondition(s)
  <1>1. Candidates(s) \subseteq RecordIDs
    BY DEF Candidates
  <1>2. ASSUME ~damaged, NEW rid \in AskedFor(heap, s), i # 0
        PROVE  rid \in Candidates(s)
    <2>1. /\ i \in 1 .. Len(s.where) /\ s.where[i].op = "=" /\ s.where[i].column \in indexed
      BY <1>2, IndexedConditionFacts
    <2> DEFINE c == s.where[i].column
    <2>2. rid \in RecordIDs /\ heap[rid] # None
      BY <1>2 DEF AskedFor, RowIds
    <2>3. Satisfies(heap[rid][c], "=", Target(s.where[i]))
      BY <1>2, <2>1 DEF AskedFor
    <2>4. heap[rid][c] # Null /\ heap[rid][c] = Target(s.where[i])
      BY <2>3 DEF Satisfies
    <2>5. <<heap[rid][c], rid>> \in index[c]
      BY <1>2, <2>1, <2>2, <2>4 DEF TableInv, Entries
    <2>6. QED
      BY <1>2, <2>2, <2>4, <2>5 DEF Candidates
  <1>3. ASSUME NEW rid \in AskedFor(heap, s), i = 0 PROVE rid \in Candidates(s)
    BY <1>3 DEF Candidates, AskedFor, RowIds
  <1>4. QED
    BY <1>1, <1>2, <1>3

-----------------------------------------------------------------------------
(* The rows found.                                                         *)

\* A row found by a scan comes last, and only once.
LEMMA AppendFacts ==
    ASSUME NEW S, NEW q \in Seq(S), NEW x \in S, IsInjective(q), x \notin ToSet(q)
    PROVE  /\ Append(q, x) \in Seq(S) /\ IsInjective(Append(q, x))
           /\ ToSet(Append(q, x)) = ToSet(q) \cup {x}
  BY DEF IsInjective, ToSet

\* The rows changed so far are the first ones found.
LEMMA PrefixFacts ==
    ASSUME NEW S, NEW q \in Seq(S), IsInjective(q), NEW n \in 0 .. Len(q)
    PROVE  /\ ToSet(SubSeq(q, 1, n)) = {q[i] : i \in 1 .. n}
           /\ ToSet(SubSeq(q, 1, n)) \subseteq ToSet(q)
           /\ n = Len(q) => ToSet(SubSeq(q, 1, n)) = ToSet(q)
           /\ n < Len(q) => /\ q[n + 1] \in ToSet(q)
                            /\ ToSet(SubSeq(q, 1, n + 1)) = ToSet(SubSeq(q, 1, n)) \cup {q[n + 1]}
           /\ Cardinality(ToSet(SubSeq(q, 1, n))) = n
  <1>1. \A k \in 0 .. Len(q) : ToSet(SubSeq(q, 1, k)) = {q[i] : i \in 1 .. k}
    <2>1. SUFFICES ASSUME NEW k \in 0 .. Len(q)
                   PROVE  ToSet(SubSeq(q, 1, k)) = {q[i] : i \in 1 .. k}
      OBVIOUS
    <2>2. Len(SubSeq(q, 1, k)) = k /\ \A i \in 1 .. k : SubSeq(q, 1, k)[i] = q[i]
      OBVIOUS
    <2>3. DOMAIN SubSeq(q, 1, k) = 1 .. k
      BY <2>2
    <2>4. QED
      BY <2>2, <2>3 DEF ToSet
  <1>2. ToSet(q) = {q[i] : i \in 1 .. Len(q)}
    BY DEF ToSet
  <1>3. Cardinality({q[i] : i \in 1 .. n}) = n
    <2> DEFINE R == {q[i] : i \in 1 .. n}
               f == [i \in 1 .. n |-> q[i]]
    <2>1. n \in Nat /\ 1 .. n \subseteq DOMAIN q
      OBVIOUS
    <2>2. f \in Bijection(1 .. n, R)
      BY <2>1 DEF Bijection, Injection, Surjection, IsInjective
    <2>3. QED
      BY <2>1, <2>2, FS_CountingElements DEF ExistsBijection
  <1>4. ToSet(SubSeq(q, 1, n)) = {q[i] : i \in 1 .. n}
    BY <1>1
  <1>5. ASSUME n < Len(q)
        PROVE  /\ q[n + 1] \in ToSet(q)
               /\ ToSet(SubSeq(q, 1, n + 1)) = ToSet(SubSeq(q, 1, n)) \cup {q[n + 1]}
    <2>1. n + 1 \in 1 .. Len(q)
      BY <1>5
    <2>2. ToSet(SubSeq(q, 1, n + 1)) = {q[i] : i \in 1 .. n + 1}
      BY <1>1, <2>1
    <2>3. {q[i] : i \in 1 .. n + 1} = {q[i] : i \in 1 .. n} \cup {q[n + 1]}
      BY <2>1
    <2>4. QED
      BY <1>2, <1>4, <2>1, <2>2, <2>3
  <1>6. {q[i] : i \in 1 .. n} \subseteq {q[i] : i \in 1 .. Len(q)}
    OBVIOUS
  <1>7. QED
    BY <1>2, <1>3, <1>4, <1>5, <1>6

-----------------------------------------------------------------------------
(* The table and its indexes.                                              *)

\* A row operation that succeeds leaves every row in the indexes.
LEMMA PutInv ==
    ASSUME TableInv, NEW rid \in RecordIDs, NEW new \in Rows \cup {None}, Put(rid, new)
    PROVE  TableInv'
  <1>1. heap' = [heap EXCEPT ![rid] = new] /\ heap' \in Tables
    BY DEF Put, TableInv, Tables
  <1>2. UNCHANGED <<indexed, damaged>> /\ index' = [c \in Columns |-> index'[c]]
    BY DEF Put
  <1>3. ASSUME ~damaged, NEW c \in indexed, NEW r \in RecordIDs
        PROVE  Entries(c, r, heap'[r]) \subseteq index'[c]
    <2>1. c \in Columns /\ Entries(c, r, heap[r]) \subseteq index[c]
      BY <1>3 DEF TableInv
    <2>2. index'[c] = (index[c] \ Entries(c, rid, heap[rid])) \cup Entries(c, rid, new)
      BY <1>3, <2>1 DEF Put
    <2>3. CASE r = rid
      BY <1>1, <2>2, <2>3 DEF TableInv, Tables
    <2>4. CASE r # rid
      <3>1. heap'[r] = heap[r]
        BY <1>1, <2>4 DEF TableInv, Tables
      <3>2. Entries(c, r, heap[r]) \cap Entries(c, rid, heap[rid]) = {}
        BY <2>4 DEF Entries
      <3>3. QED
        BY <2>1, <2>2, <3>1, <3>2
    <2>5. QED
      BY <2>3, <2>4
  <1>4. QED
    BY <1>1, <1>2, <1>3 DEF TableInv, Entries

\* One whose rollback fails leaves a row that is the old or the new one.
LEMMA DamageInv ==
    ASSUME TableInv, NEW rid \in RecordIDs, NEW new \in Rows \cup {None}, Damage(rid, new)
    PROVE  TableInv' /\ (heap' = heap \/ heap' = [heap EXCEPT ![rid] = new]) /\ damaged'
  <1>1. heap' = heap \/ heap' = [heap EXCEPT ![rid] = new]
    BY DEF Damage
  <1>2. damaged' = TRUE /\ indexed' = indexed
    BY DEF Damage
  <1>3. index' = [c \in Columns |-> index'[c]]
    BY DEF Damage
  <1>4. heap' \in Tables
    BY <1>1 DEF TableInv, Tables
  <1>5. QED
    BY <1>1, <1>2, <1>3, <1>4 DEF TableInv

\* CREATE INDEX enters the rows that are there.
LEMMA CreateIndexInv ==
    ASSUME TableInv, NEW s \in Statements, CreateIndex(s)
    PROVE  TableInv'
  <1>1. /\ s.column \in Columns /\ indexed' = indexed \cup {s.column}
        /\ index' = [index EXCEPT ![s.column] =
                        UNION {Entries(s.column, rid, heap[rid]) : rid \in RecordIDs}]
        /\ UNCHANGED <<heap, damaged>>
    BY DEF CreateIndex
  <1>2. index' = [c \in Columns |-> index'[c]]
    BY <1>1 DEF TableInv
  <1>3. ASSUME ~damaged, NEW c \in indexed', NEW rid \in RecordIDs
        PROVE  Entries(c, rid, heap[rid]) \subseteq index'[c]
    <2>1. CASE c = s.column
      BY <1>1, <2>1 DEF TableInv
    <2>2. CASE c # s.column
      BY <1>1, <1>3, <2>2 DEF TableInv
    <2>3. QED
      BY <2>1, <2>2
  <1>4. QED
    BY <1>1, <1>2, <1>3 DEF TableInv, Entries

\* Everything else leaves the table alone.
LEMMA TableKept ==
    ASSUME TableInv, UNCHANGED tablePart
    PROVE  TableInv'
  BY DEF TableInv, tablePart, Entries

\* INSERT builds a row of the schema.
LEMMA InsertedRowFacts ==
    ASSUME NEW s \in Statements, s.op = "insert", Convertible(s)
    PROVE  InsertedRow(s) \in Rows
  <1>1. s.values \in Seq(Literals)
    BY QueryAssumption DEF SQLStatements
  <1>2. Columns = 1 .. Len(s.values)
    BY SchemaFacts DEF Convertible
  <1>3. ASSUME NEW c \in Columns
        PROVE  Typed(InsertedRow(s)[c], Schema[c].type)
    <2>1. s.values[c] \in Literals
      BY <1>1, <1>2
    <2>2. InsertedRow(s)[c] = ConvertLiteral(Schema[c], s.values[c], TRUE)
      BY DEF InsertedRow
    <2>3. QED
      BY <2>1, <2>2, ConvertFacts DEF Convertible
  <1>4. InsertedRow(s) \in [Columns -> Values]
    BY <1>3 DEF InsertedRow, Typed
  <1>5. QED
    BY <1>3, <1>4 DEF Rows

\* UPDATE too, or DELETE removes the row.
LEMMA NewRowFacts ==
    ASSUME stmt \in Opened, Accepted(stmt), stmt.op # "select", NEW row \in Rows
    PROVE  NewRow(stmt, row) \in Rows \cup {None}
  <1>1. CASE stmt.op = "delete"
    BY <1>1 DEF NewRow
  <1>2. CASE stmt.op = "update"
    <2> DEFINE c == stmt.column
               v == ConvertLiteral(Schema[c], stmt.value, TRUE)
    <2>1. stmt.value \in Literals
      BY <1>2 DEF Opened
    <2>2. c \in Columns /\ v # Invalid
      BY <1>2 DEF Accepted
    <2>3. Typed(v, Schema[c].type)
      BY <2>1, <2>2, ConvertFacts
    <2>4. NewRow(stmt, row) = [row EXCEPT ![c] = v]
      BY <1>2 DEF NewRow
    <2> HIDE DEF c, v
    <2>5. [row EXCEPT ![c] = v] \in Rows
      BY <2>2, <2>3 DEF Rows, Typed
    <2>6. QED
      BY <2>4, <2>5
  <1>3. stmt.op \in {"select", "update", "delete"}
    BY DEF Opened
  <1>4. QED
    BY <1>1, <1>2, <1>3

-----------------------------------------------------------------------------
(* The statement in progress.                                              *)

\* A statement under way is one.
LEMMA OpenedFacts ==
    ASSUME stmt \in Opened
    PROVE  /\ stmt # Idle /\ stmt.op \in {"select", "update", "delete"}
           /\ stmt.phase \in {"scan", "apply"} /\ stmt.where \in Seq(Condition)
           /\ stmt.op = "select" => stmt.phase = "scan"
           /\ stmt.op # "select" => [stmt EXCEPT !.phase = "apply"] \in Opened
  BY DEF Opened, Idle

\* A statement that returns at once leaves nothing.
LEMMA EndsInv ==
    ASSUME StatementInv, stmt = Idle, NEW how, Ends(how)
    PROVE  StatementInv'
  BY DEF StatementInv, Ends, Running

\* Nor does one that has been under way.
LEMMA FinishInv ==
    ASSUME NEW how, Finish(how)
    PROVE  StatementInv'
  BY DEF StatementInv, Finish

\* The plan and the rows asked for stay while the table's indexes do.
LEMMA RequestKept ==
    ASSUME stmt \in Opened, Accepted(stmt), UNCHANGED indexed,
           stmt' = stmt \/ stmt' = [stmt EXCEPT !.phase = "apply"]
    PROVE  /\ Accepted(stmt)'
           /\ \A h : AskedFor(h, stmt') = AskedFor(h, stmt)
           /\ stmt.op # "select" => \A row : NewRow(stmt', row) = NewRow(stmt, row)
  <1>1. /\ stmt'.where = stmt.where /\ stmt'.op = stmt.op
        /\ stmt.op = "update" => stmt'.column = stmt.column /\ stmt'.value = stmt.value
        /\ stmt.op = "select" => stmt'.fields = stmt.fields
    BY DEF Opened
  <1>2. IndexedCondition(stmt)' = IndexedCondition(stmt)
    BY <1>1 DEF IndexedCondition, SelectInSeq
  <1>3. Accepted(stmt)'
    BY <1>1, <1>2 DEF Accepted
  <1>4. \A h : AskedFor(h, stmt') = AskedFor(h, stmt)
    BY <1>1 DEF AskedFor
  <1>5. stmt.op \in {"select", "update", "delete"}
    BY OpenedFacts
  <1>6. stmt.op # "select" => \A row : NewRow(stmt', row) = NewRow(stmt, row)
    BY <1>1, <1>5 DEF NewRow
  <1>7. QED
    BY <1>3, <1>4, <1>6

\* Open.
LEMMA OpenPlanInv ==
    ASSUME TableInv, StatementInv, NEW s \in Statements, OpenPlan(s)
    PROVE  StatementInv'
  <1>1. /\ stmt = Idle /\ Accepted(s) /\ s.op \in {"select", "update", "delete"}
        /\ stmt' = [s EXCEPT !.phase = "scan"] /\ cursor' = Candidates(s)
        /\ before' = [heap |-> heap, damaged |-> damaged]
        /\ UNCHANGED <<tablePart, pending, affected, unread, status>>
    BY DEF OpenPlan, Start, Scans
  <1>2. pending = <<>> /\ affected = 0 /\ unread = {}
    BY <1>1 DEF StatementInv
  <1>3. s \in SQLStatements
    BY QueryAssumption
  <1>4. /\ stmt' \in Opened /\ stmt'.phase = "scan"
        /\ stmt'.where = s.where /\ stmt'.op = s.op /\ s.where \in Seq(Condition)
        /\ s.op = "update" => stmt'.column = s.column /\ stmt'.value = s.value
        /\ s.op = "select" => stmt'.fields = s.fields
    BY <1>1, <1>3 DEF SQLStatements, Opened
  <1>5. stmt' # Idle
    BY <1>1, <1>4 DEF Idle
  <1>6. Accepted(stmt)'
    <2>1. IndexedCondition(stmt)' = IndexedCondition(s)
      BY <1>1, <1>4 DEF IndexedCondition, SelectInSeq, tablePart
    <2>2. QED
      BY <1>1, <1>4, <2>1 DEF Accepted
  <1>7. ToSet(pending') = {}
    BY <1>1, <1>2 DEF ToSet
  <1>8. FoundInv'
    BY <1>1, <1>2, <1>7 DEF FoundInv, TableInv, IsInjective
  <1>9. AskedFor(heap, stmt') = AskedFor(heap, s)
    BY <1>4 DEF AskedFor
  <1>10. ScanInv'
    BY <1>1, <1>2, <1>4, <1>7, <1>9, CandidatesFacts DEF ScanInv, tablePart
  <1>11. QED
    BY <1>4, <1>5, <1>6, <1>8, <1>10 DEF StatementInv

\* What is known while a scan is under way.
LEMMA ScanFacts ==
    ASSUME StatementInv, Scanning
    PROVE  /\ stmt \in Opened /\ Accepted(stmt) /\ stmt.where \in Seq(Condition)
           /\ FoundInv /\ ScanInv
  BY OpenedFacts DEF StatementInv, Scanning

\* A row that does not pass the filters is none that was asked for.
LEMMA ScanSkipsInv ==
    ASSUME TableInv, StatementInv, NEW rid \in RecordIDs, ScanSkips(rid)
    PROVE  StatementInv'
  <1>1. /\ Scanning /\ rid \in cursor /\ cursor' = cursor \ {rid}
        /\ ~(heap[rid] # None /\ PassesFilters(heap[rid], stmt))
        /\ UNCHANGED <<heap, indexed, damaged, stmt, pending, affected, before, unread>>
    BY DEF ScanSkips, tablePart
  <1>2. /\ stmt \in Opened /\ Accepted(stmt) /\ stmt.where \in Seq(Condition)
        /\ FoundInv /\ ScanInv
    BY <1>1, ScanFacts
  <1>3. rid \notin AskedFor(heap, stmt)
    BY <1>1, <1>2, FiltersFacts DEF TableInv, AskedFor, RowIds
  <1>4. Accepted(stmt)' /\ AskedFor(heap, stmt)' = AskedFor(heap, stmt)
    BY <1>1, <1>2, RequestKept
  <1>5. FoundInv'
    BY <1>1, <1>2, <1>4 DEF FoundInv, ScanInv
  <1>6. ScanInv'
    BY <1>1, <1>2, <1>3, <1>4 DEF ScanInv
  <1>7. QED
    BY <1>1, <1>2, <1>4, <1>5, <1>6 DEF StatementInv, Scanning

\* One that does is found.
LEMMA ScanFindsInv ==
    ASSUME TableInv, StatementInv, NEW rid \in RecordIDs, ScanFinds(rid)
    PROVE  StatementInv'
  <1>1. /\ Scanning /\ rid \in cursor /\ cursor' = cursor \ {rid}
        /\ heap[rid] # None /\ PassesFilters(heap[rid], stmt)
        /\ pending' = Append(pending, rid)
        /\ UNCHANGED <<heap, indexed, damaged, stmt, affected, before, unread>>
    BY DEF ScanFinds, tablePart
  <1>2. /\ stmt \in Opened /\ Accepted(stmt) /\ stmt.where \in Seq(Condition)
        /\ FoundInv /\ ScanInv
    BY <1>1, ScanFacts
  <1>3. rid \in AskedFor(heap, stmt)
    BY <1>1, <1>2, FiltersFacts DEF TableInv
  <1>4. Accepted(stmt)' /\ AskedFor(heap, stmt)' = AskedFor(heap, stmt)
    BY <1>1, <1>2, RequestKept
  <1>5. rid \notin ToSet(pending) /\ rid \notin unread
    BY <1>1, <1>2 DEF ScanInv
  <1>6. /\ pending' \in Seq(RecordIDs) /\ IsInjective(pending')
        /\ ToSet(pending') = ToSet(pending) \cup {rid}
    BY <1>1, <1>2, <1>5, AppendFacts DEF FoundInv
  <1>7. FoundInv'
    BY <1>1, <1>2, <1>3, <1>4, <1>5, <1>6 DEF FoundInv, ScanInv
  <1>8. ScanInv'
    BY <1>1, <1>2, <1>4, <1>6 DEF ScanInv
  <1>9. QED
    BY <1>1, <1>2, <1>4, <1>7, <1>8 DEF StatementInv, Scanning

\* One whose page cannot be read is remembered.
LEMMA ScanLosesInv ==
    ASSUME StatementInv, NEW rid \in RecordIDs, ScanLoses(rid)
    PROVE  StatementInv'
  <1>1. /\ Scanning /\ rid \in cursor /\ cursor' = cursor \ {rid}
        /\ unread' = unread \cup {rid}
        /\ UNCHANGED <<heap, indexed, damaged, stmt, pending, affected, before>>
    BY DEF ScanLoses, tablePart
  <1>2. /\ stmt \in Opened /\ Accepted(stmt) /\ FoundInv /\ ScanInv
    BY <1>1, ScanFacts
  <1>3. Accepted(stmt)' /\ AskedFor(heap, stmt)' = AskedFor(heap, stmt)
    BY <1>1, <1>2, RequestKept
  <1>4. rid \notin ToSet(pending)
    BY <1>1, <1>2 DEF ScanInv
  <1>5. FoundInv'
    BY <1>1, <1>2, <1>3, <1>4 DEF FoundInv, ScanInv
  <1>6. ScanInv'
    BY <1>1, <1>2, <1>3, <1>4 DEF ScanInv
  <1>7. QED
    BY <1>1, <1>2, <1>3, <1>5, <1>6 DEF StatementInv, Scanning

\* UPDATE and DELETE go on to the rows they have found.
LEMMA ScanEndsInv ==
    ASSUME StatementInv, ScanEnds
    PROVE  StatementInv'
  <1>1. Scanning /\ cursor = {} /\ UNCHANGED <<heap, indexed, damaged>>
    BY DEF ScanEnds, tablePart
  <1>2. /\ stmt \in Opened /\ Accepted(stmt) /\ FoundInv /\ ScanInv
    BY <1>1, ScanFacts
  <1>3. CASE Finish("ok")
    BY <1>3, FinishInv
  <1>4. CASE /\ stmt.op # "select" /\ stmt' = [stmt EXCEPT !.phase = "apply"]
             /\ UNCHANGED <<Running, status>>
    <2>1. UNCHANGED <<cursor, pending, affected, before, unread>>
      BY <1>4 DEF Running
    <2>2. /\ stmt' \in Opened /\ stmt' # Idle
          /\ stmt'.phase = "apply" /\ stmt'.op = stmt.op
      BY <1>2, <1>4, OpenedFacts DEF Opened, Idle
    <2>3. /\ Accepted(stmt)'
          /\ \A h : AskedFor(h, stmt') = AskedFor(h, stmt)
          /\ \A row : NewRow(stmt', row) = NewRow(stmt, row)
      BY <1>1, <1>2, <1>4, RequestKept
    <2>4. FoundInv'
      BY <1>2, <2>1, <2>3 DEF FoundInv
    <2>5. ~before.damaged => ToSet(pending) = AskedFor(before.heap, stmt) \ unread
      BY <1>1, <1>2 DEF ScanInv, FoundInv
    <2>6. Changed' = {} /\ affected' = 0 /\ 0 \in 0 .. Len(pending)
      <3>1. affected = 0 /\ pending \in Seq(RecordIDs) /\ IsInjective(pending)
        BY <1>2 DEF ScanInv, FoundInv
      <3>2. 0 \in 0 .. Len(pending)
        BY <3>1
      <3>3. ToSet(SubSeq(pending, 1, 0)) = {pending[i] : i \in 1 .. 0}
        BY <3>1, <3>2, PrefixFacts
      <3>4. QED
        BY <2>1, <3>1, <3>2, <3>3 DEF Changed
    <2>7. heap = [rid \in RecordIDs |-> before.heap[rid]]
      BY <1>2 DEF ScanInv, FoundInv, Tables
    <2>8. ApplyInv'
      BY <1>1, <1>4, <2>1, <2>2, <2>3, <2>5, <2>6, <2>7 DEF ApplyInv
    <2>9. QED
      BY <2>2, <2>3, <2>4, <2>8 DEF StatementInv
  <1>5. QED
    BY <1>3, <1>4 DEF ScanEnds

\* What is known of the row in hand.
LEMMA ApplyFacts ==
    ASSUME StatementInv, Applying
    PROVE  /\ stmt \in Opened /\ Accepted(stmt) /\ FoundInv /\ ApplyInv
           /\ More => /\ RowInHand \in ToSet(pending) /\ RowInHand \in RecordIDs
                      /\ NewRowInHand \in Rows \cup {None}
                      /\ affected + 1 \in 0 .. Len(pending)
                      /\ ToSet(SubSeq(pending, 1, affected + 1)) = Changed \cup {RowInHand}
  <1>1. stmt \in Opened /\ Accepted(stmt) /\ FoundInv /\ ApplyInv
    BY DEF StatementInv, Applying
  <1>2. pending \in Seq(RecordIDs) /\ IsInjective(pending) /\ affected \in 0 .. Len(pending)
    BY <1>1 DEF FoundInv, ApplyInv
  <1>3. ASSUME More
        PROVE  /\ RowInHand \in ToSet(pending) /\ RowInHand \in RecordIDs
               /\ affected + 1 \in 0 .. Len(pending)
               /\ ToSet(SubSeq(pending, 1, affected + 1)) = Changed \cup {RowInHand}
    <2>1. affected + 1 \in 1 .. Len(pending)
      BY <1>2, <1>3 DEF More
    <2>2. RowInHand \in RecordIDs
      BY <1>2, <2>1 DEF RowInHand
    <2>3. QED
      BY <1>2, <1>3, <2>1, <2>2, PrefixFacts DEF More, RowInHand, Changed
  <1>4. ASSUME More PROVE NewRowInHand \in Rows \cup {None}
    <2>1. RowInHand \in AskedFor(before.heap, stmt) /\ RowInHand \in RecordIDs
      BY <1>1, <1>3, <1>4 DEF FoundInv
    <2>2. before.heap[RowInHand] \in Rows
      BY <1>1, <2>1 DEF FoundInv, Tables, AskedFor, RowIds
    <2>3. stmt.op # "select"
      BY <1>1 DEF ApplyInv
    <2>4. QED
      BY <1>1, <2>2, <2>3, NewRowFacts DEF NewRowInHand
  <1>5. QED
    BY <1>1, <1>3, <1>4

\* The row in hand is changed.
LEMMA ApplyRowInv ==
    ASSUME TableInv, StatementInv, ApplyRow
    PROVE  TableInv' /\ StatementInv'
  <1>1. /\ Applying /\ More /\ Put(RowInHand, NewRowInHand) /\ affected' = affected + 1
        /\ UNCHANGED <<stmt, cursor, pending, before, unread, status>>
    BY DEF ApplyRow
  <1>2. /\ stmt \in Opened /\ Accepted(stmt) /\ FoundInv /\ ApplyInv
        /\ RowInHand \in RecordIDs /\ NewRowInHand \in Rows \cup {None}
        /\ affected + 1 \in 0 .. Len(pending)
        /\ ToSet(SubSeq(pending, 1, affected + 1)) = Changed \cup {RowInHand}
    BY <1>1, ApplyFacts
  <1>3. TableInv'
    BY <1>1, <1>2, PutInv
  <1>4. heap' = [heap EXCEPT ![RowInHand] = NewRowInHand] /\ UNCHANGED indexed
    BY <1>1 DEF Put
  <1>5. /\ Accepted(stmt)'
        /\ \A h : AskedFor(h, stmt') = AskedFor(h, stmt)
    BY <1>1, <1>2, <1>4, RequestKept
  <1>6. FoundInv'
    BY <1>1, <1>2, <1>5 DEF FoundInv
  <1>7. Changed' = Changed \cup {RowInHand}
    BY <1>1, <1>2 DEF Changed
  <1>8. heap' = [rid \in RecordIDs |-> IF rid \in Changed' THEN NewRow(stmt, before.heap[rid])
                                       ELSE before.heap[rid]]
    BY <1>2, <1>4, <1>7 DEF ApplyInv, NewRowInHand
  <1>9. ApplyInv'
    BY <1>1, <1>2, <1>5, <1>8 DEF ApplyInv
  <1>10. QED
    BY <1>1, <1>2, <1>3, <1>5, <1>6, <1>9 DEF StatementInv, Applying

-----------------------------------------------------------------------------
(* The invariant.                                                          *)

\* An empty table, and no statement.
LEMMA InitInv == QueryInit => QueryInv
  <1> SUFFICES ASSUME QueryInit PROVE QueryInv
    OBVIOUS
  <1>1. TableInv
    BY DEF QueryInit, TableInv, Tables
  <1>2. StatementInv
    BY DEF QueryInit, StatementInv
  <1>3. QED
    BY <1>1, <1>2 DEF QueryInv

\* Every step preserves the invariant.
LEMMA NextInv == QueryInv /\ [QueryNext]_queryVars => QueryInv'
  <1> SUFFICES ASSUME TableInv, StatementInv, [QueryNext]_queryVars
               PROVE  TableInv' /\ StatementInv'
    BY DEF QueryInv
  <1>1. ASSUME NEW s \in Statements,
               Refuse(s) \/ OpenFails(s) \/ InsertFails(s) \/ CreateIndexFails(s)
        PROVE  TableInv' /\ StatementInv'
    <2>1. UNCHANGED tablePart /\ stmt = Idle /\ Ends("error")
      BY <1>1 DEF Refuse, OpenFails, InsertFails, CreateIndexFails, Start
    <2>2. QED
      BY <2>1, TableKept, EndsInv
  <1>2. ASSUME NEW s \in Statements, OpenPlan(s) PROVE TableInv' /\ StatementInv'
    <2>1. UNCHANGED tablePart
      BY <1>2 DEF OpenPlan
    <2>2. QED
      BY <1>2, <2>1, TableKept, OpenPlanInv
  <1>3. ASSUME NEW s \in Statements, CreateIndex(s) PROVE TableInv' /\ StatementInv'
    <2>1. stmt = Idle /\ Ends("ok")
      BY <1>3 DEF CreateIndex, Start
    <2>2. QED
      BY <1>3, <2>1, CreateIndexInv, EndsInv
  <1>4. ASSUME NEW s \in Statements, NEW rid \in RecordIDs, Insert(s, rid)
        PROVE  TableInv' /\ StatementInv'
    <2>1. stmt = Idle /\ Ends("ok") /\ InsertedRow(s) \in Rows
      BY <1>4, InsertedRowFacts DEF Insert, Start
    <2>2. Put(rid, InsertedRow(s))
      BY <1>4 DEF Insert
    <2>3. QED
      BY <2>1, <2>2, PutInv, EndsInv
  <1>5. ASSUME NEW s \in Statements, NEW rid \in RecordIDs, InsertDamages(s, rid)
        PROVE  TableInv' /\ StatementInv'
    <2>1. stmt = Idle /\ Ends("error") /\ InsertedRow(s) \in Rows
      BY <1>5, InsertedRowFacts DEF InsertDamages, Start
    <2>2. Damage(rid, InsertedRow(s))
      BY <1>5 DEF InsertDamages
    <2>3. QED
      BY <2>1, <2>2, DamageInv, EndsInv
  <1>6. ASSUME NEW rid \in RecordIDs, ScanSkips(rid) \/ ScanFinds(rid) \/ ScanLoses(rid)
        PROVE  TableInv' /\ StatementInv'
    <2>1. UNCHANGED tablePart
      BY <1>6 DEF ScanSkips, ScanFinds, ScanLoses
    <2>2. QED
      BY <1>6, <2>1, TableKept, ScanSkipsInv, ScanFindsInv, ScanLosesInv
  <1>7. CASE ScanFails \/ ApplyFails
    BY <1>7, TableKept, FinishInv DEF ScanFails, ApplyFails
  <1>8. CASE ScanEnds
    BY <1>8, TableKept, ScanEndsInv DEF ScanEnds
  <1>9. CASE ApplyRow
    BY <1>9, ApplyRowInv
  <1>10. CASE ApplyDamages
    <2>1. /\ Applying /\ More /\ Damage(RowInHand, NewRowInHand) /\ Finish("error")
      BY <1>10 DEF ApplyDamages
    <2>2. QED
      BY <2>1, ApplyFacts, DamageInv, FinishInv
  <1>11. CASE ApplyEnds
    BY <1>11, TableKept, FinishInv DEF ApplyEnds
  <1>12. CASE UNCHANGED queryVars
    <2>1. UNCHANGED <<heap, indexed, index, damaged, stmt, cursor, pending, affected,
                      before, unread>>
      BY <1>12 DEF queryVars
    <2>2. TableInv'
      BY <2>1, TableKept DEF tablePart
    <2>3. StatementInv'
      <3>1. CASE stmt = Idle
        BY <2>1, <3>1 DEF StatementInv
      <3>2. CASE stmt # Idle
        <4>1. stmt \in Opened /\ Accepted(stmt)
          BY <3>2 DEF StatementInv
        <4>2. Accepted(stmt)' /\ \A h : AskedFor(h, stmt') = AskedFor(h, stmt)
          BY <2>1, <4>1, RequestKept
        <4>3. FoundInv => FoundInv'
          BY <2>1, <4>2 DEF FoundInv
        <4>4. ScanInv => ScanInv'
          BY <2>1, <4>2 DEF ScanInv
        <4>5. ApplyInv => ApplyInv'
          BY <2>1, <4>2 DEF ApplyInv, Changed
        <4>6. QED
          BY <2>1, <3>2, <4>2, <4>3, <4>4, <4>5 DEF StatementInv
      <3>3. QED
        BY <3>1, <3>2
    <2>4. QED
      BY <2>2, <2>3
  <1>13. QED
    BY <1>1, <1>2, <1>3, <1>4, <1>5, <1>6, <1>7, <1>8, <1>9, <1>10, <1>11, <1>12
       DEF QueryNext, StatementStep

\* The invariant holds in every behaviour.
LEMMA AlwaysQueryInv == QuerySpec => []QueryInv
  <1>1. QED
    BY InitInv, NextInv, PTL DEF QuerySpec

-----------------------------------------------------------------------------
(* The theorems.                                                           *)

\* The steps at which a statement under way returns.
LEMMA ReturningSteps ==
    ASSUME StatementInv, QueryNext, stmt # Idle, stmt' = Idle
    PROVE  \/ ScanFails
           \/ Scanning /\ cursor = {} /\ stmt.op = "select" /\ Finish("ok") /\ UNCHANGED tablePart
           \/ ApplyFails \/ ApplyDamages \/ ApplyEnds
  <1>1. \A s \in Statements : ~Start(s)
    BY DEF Start
  <1>2. StatementStep
    BY <1>1 DEF QueryNext, Refuse, OpenPlan, OpenFails, InsertFails, CreateIndex,
                CreateIndexFails, Insert, InsertDamages
  <1>3. \A rid \in RecordIDs : ~ScanSkips(rid) /\ ~ScanFinds(rid) /\ ~ScanLoses(rid)
    BY DEF ScanSkips, ScanFinds, ScanLoses
  <1>4. ~ApplyRow
    BY DEF ApplyRow
  <1>5. ASSUME ScanEnds
        PROVE  Scanning /\ cursor = {} /\ stmt.op = "select" /\ Finish("ok") /\ UNCHANGED tablePart
    <2>1. stmt \in Opened
      BY <1>5 DEF ScanEnds, StatementInv, Scanning
    <2>2. stmt.op # "select" => [stmt EXCEPT !.phase = "apply"] # Idle
      BY <2>1, OpenedFacts DEF Opened, Idle
    <2>3. QED
      BY <1>5, <2>2 DEF ScanEnds
  <1>6. QED
    BY <1>2, <1>3, <1>4, <1>5 DEF StatementStep

\* QueryExecutor::Execute answers a SELECT with rows that satisfy every condition,
\* each once, by either access path: with all of them whose pages could be read, if
\* no rollback has failed.
THEOREM SelectsAreExact == QuerySpec => AnswersExact
  <1> DEFINE Exact == /\ IsInjective(pending)
                      /\ ToSet(pending) \subseteq AskedFor(heap, stmt)
                      /\ ~damaged => ToSet(pending) = AskedFor(heap, stmt) \ unread
  <1>1. ASSUME QueryInv, QueryNext, Returns({"select"}), status' = "ok"
        PROVE  Exact
    <2>1. StatementInv /\ stmt # Idle /\ stmt' = Idle /\ stmt.op = "select"
      BY <1>1 DEF QueryInv, Returns, Idle
    <2>2. ~ScanFails /\ ~ApplyFails /\ ~ApplyDamages
      BY <1>1 DEF ScanFails, ApplyFails, ApplyDamages, Finish
    <2>3. ~ApplyEnds
      BY <2>1, ApplyFacts DEF ApplyEnds, ApplyInv
    <2>4. Scanning /\ cursor = {}
      BY <1>1, <2>1, <2>2, <2>3, ReturningSteps
    <2>5. FoundInv /\ ScanInv
      BY <2>1, <2>4, ScanFacts
    <2>6. QED
      BY <2>4, <2>5 DEF FoundInv, ScanInv
  <1>2. QueryInv /\ [QueryNext]_queryVars
        => [Returns({"select"}) /\ status' = "ok" => Exact]_queryVars
    BY <1>1
  <1>3. QED
    BY <1>2, AlwaysQueryInv, PTL DEF QuerySpec, AnswersExact

\* ExecuteUpdate and ExecuteDelete change the rows asked for when the statement
\* started, each once; when a row fails, those before it keep their change and those
\* after it are untouched.
THEOREM ChangesAreExact == QuerySpec => ChangesExact
  <1> DEFINE asked == AskedFor(before.heap, stmt)
             New(rid) == NewRow(stmt, before.heap[rid])
             Torn(rid) == /\ damaged' /\ status' = "error"
                          /\ rid = RowInHand /\ heap'[rid] = New(rid)
             Exact == /\ Changed \subseteq asked /\ Cardinality(Changed) = affected
                      /\ status' = "ok" /\ ~before.damaged => Changed = asked \ unread
                      /\ \A rid \in RecordIDs :
                            IF rid \in Changed THEN heap'[rid] = New(rid)
                            ELSE heap'[rid] = before.heap[rid] \/ Torn(rid)
  <1>1. ASSUME QueryInv, QueryNext, Returns({"update", "delete"})
        PROVE  Exact
    <2>1. /\ TableInv /\ StatementInv /\ stmt # Idle /\ stmt' = Idle
          /\ stmt.op \in {"update", "delete"}
      BY <1>1 DEF QueryInv, Returns, Idle
    <2>2. CASE ScanFails
      <3>1. FoundInv /\ ScanInv
        BY <2>1, <2>2, ScanFacts DEF ScanFails
      <3>2. affected = 0 /\ pending \in Seq(RecordIDs) /\ IsInjective(pending)
        BY <3>1 DEF FoundInv, ScanInv
      <3>3. 0 \in 0 .. Len(pending)
        BY <3>2
      <3>4. Changed = {pending[i] : i \in 1 .. 0} /\ Cardinality(Changed) = 0
        BY <3>2, <3>3, PrefixFacts DEF Changed
      <3>5. heap' = before.heap /\ status' = "error"
        BY <2>2, <3>1 DEF ScanFails, ScanInv, Finish, tablePart
      <3>6. QED
        BY <3>2, <3>4, <3>5
    <2>3. ASSUME Applying
          PROVE  /\ Changed \subseteq asked /\ Cardinality(Changed) = affected
                 /\ affected = Len(pending) /\ ~before.damaged => Changed = asked \ unread
                 /\ heap = [rid \in RecordIDs |-> IF rid \in Changed THEN New(rid)
                                                  ELSE before.heap[rid]]
                 /\ affected \in 0 .. Len(pending) /\ Len(pending) \in Nat
      <3>1. FoundInv /\ ApplyInv
        BY <2>1, <2>3, ApplyFacts
      <3>2. pending \in Seq(RecordIDs) /\ IsInjective(pending) /\ affected \in 0 .. Len(pending)
        BY <3>1 DEF FoundInv, ApplyInv
      <3>3. /\ Changed \subseteq ToSet(pending) /\ Cardinality(Changed) = affected
            /\ affected = Len(pending) => Changed = ToSet(pending)
        BY <3>2, PrefixFacts DEF Changed
      <3>4. QED
        BY <3>1, <3>2, <3>3 DEF FoundInv, ApplyInv
    <2>4. CASE ApplyFails
      <3>1. heap' = heap /\ status' = "error" /\ Applying
        BY <2>4 DEF ApplyFails, Finish, tablePart
      <3>2. QED
        BY <2>3, <3>1
    <2>5. CASE ApplyEnds
      <3>1. heap' = heap /\ Applying /\ ~More
        BY <2>5 DEF ApplyEnds, tablePart
      <3>2. affected = Len(pending)
        BY <2>3, <3>1 DEF More
      <3>3. QED
        BY <2>3, <3>1, <3>2
    <2>6. CASE ApplyDamages
      <3>1. Applying /\ More /\ Damage(RowInHand, NewRowInHand) /\ status' = "error"
        BY <2>6 DEF ApplyDamages, Finish
      <3>2. RowInHand \in RecordIDs /\ NewRowInHand \in Rows \cup {None}
        BY <2>1, <3>1, ApplyFacts
      <3>3. damaged' /\ (heap' = heap \/ heap' = [heap EXCEPT ![RowInHand] = NewRowInHand])
        BY <2>1, <3>1, <3>2, DamageInv
      <3>4. NewRowInHand = New(RowInHand)
        BY DEF NewRowInHand
      <3>5. \A rid \in RecordIDs : IF rid \in Changed THEN heap[rid] = New(rid)
                                   ELSE heap[rid] = before.heap[rid]
        BY <2>3, <3>1
      <3>6. heap \in Tables
        BY <2>1 DEF TableInv
      <3> HIDE DEF New
      <3>7. \A rid \in RecordIDs : \/ heap'[rid] = heap[rid]
                                   \/ rid = RowInHand /\ heap'[rid] = New(rid)
        BY <3>2, <3>3, <3>4, <3>6 DEF Tables
      <3>8. \A rid \in RecordIDs : IF rid \in Changed THEN heap'[rid] = New(rid)
                                   ELSE heap'[rid] = before.heap[rid] \/ Torn(rid)
        BY <3>1, <3>3, <3>5, <3>7
      <3>9. QED
        BY <2>3, <3>1, <3>8
    <2>7. QED
      BY <1>1, <2>1, <2>2, <2>4, <2>5, <2>6, ReturningSteps
  <1>2. QueryInv /\ [QueryNext]_queryVars
        => [Returns({"update", "delete"}) => Exact]_queryVars
    BY <1>1
  <1>3. [][Returns({"update", "delete"}) => Exact]_queryVars => ChangesExact
    BY DEF ChangesExact, Changed
  <1>4. QED
    BY <1>2, <1>3, AlwaysQueryInv, PTL DEF QuerySpec
=============================================================================
