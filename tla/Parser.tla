-------------------------------- MODULE Parser --------------------------------
(***************************************************************************)
(* From a text to a statement: Tokenizer, then the recursive descent of    *)
(* src/src/query/parser.cpp.  The language has no nesting, so the position *)
(* in the nest of functions is one of finitely many points, and every      *)
(* Match, Peek or Advance is a move from one point to the next; a token    *)
(* without a move ends in an error.  A statement refers to a text by the   *)
(* number of the token it was copied from.                                 *)
(***************************************************************************)
EXTENDS Tokenizer, SequencesExt

CONSTANTS Texts,        \* the lines a user may enter
          LongBits,     \* width of unsigned long, the result of std::stoul
          LengthBits,   \* width of ColumnDefinition::length
          Shapes        \* statements that have to be understood

VARIABLES sql,        \* the text
          tokens,     \* its tokens
          cursor,     \* the token to look at next
          point,      \* how far Parse has got
          statement   \* the statement as read so far

parserVars == <<sql, tokens, cursor, point, statement>>

Operators == {"=", ">", "<", ">=", "<="}
LiteralTypes == {"NUMBER", "STRING", "ID", "NULL"}

NoLiteral == [type |-> "", at |-> 0]
NewStatement ==
    [kind |-> "", explain |-> FALSE, index |-> 0, table |-> 0, column |-> 0, value |-> NoLiteral,
     fields |-> <<>>, values |-> <<>>, columns |-> <<>>, where |-> <<>>]

-----------------------------------------------------------------------------
(* From a point, a type of token leads to another point.                   *)
SelectMoves ==
    {<<"start", "SELECT", "fields">>, <<"start", "EXPLAIN", "explain">>,
     <<"explain", "ANALYZE", "analyze">>, <<"analyze", "SELECT", "fields">>,
     <<"fields", "*", "from">>, <<"from", "FROM", "table">>,
     <<"fields", "ID", "field end">>, <<"field", "ID", "field end">>,
     <<"field end", ",", "field">>, <<"field end", "FROM", "table">>,
     <<"table", "ID", "where">>}

InsertMoves ==
    {<<"start", "INSERT", "into">>, <<"into", "INTO", "into table">>,
     <<"into table", "ID", "values">>, <<"values", "VALUES", "values (">>,
     <<"values (", "(", "value">>, <<"value end", ",", "value">>, <<"value end", ")", "finish">>}
    \cup {<<"value", type, "value end">> : type \in LiteralTypes}

UpdateMoves ==
    {<<"start", "UPDATE", "update table">>, <<"update table", "ID", "set">>,
     <<"set", "SET", "set column">>, <<"set column", "ID", "set =">>, <<"set =", "=", "set value">>}
    \cup {<<"set value", type, "where">> : type \in LiteralTypes}

DeleteMoves == {<<"start", "DELETE", "delete from">>, <<"delete from", "FROM", "table">>}

WhereMoves ==
    {<<"where", "WHERE", "condition">>, <<"condition", "ID", "operator">>,
     <<"condition end", "AND", "condition">>}
    \cup {<<"operator", type, "operand">> : type \in Operators}
    \cup {<<"operand", type, "condition end">> : type \in LiteralTypes}

CreateMoves ==
    {<<"start", "CREATE", "create">>, <<"create", "TABLE", "new table">>,
     <<"new table", "ID", "columns (">>, <<"columns (", "(", "column">>,
     <<"column", "ID", "type">>, <<"type", "ID", "type end">>, <<"type end", "(", "length">>,
     <<"length", "NUMBER", "length )">>, <<"length )", ")", "column end">>,
     <<"create", "INDEX", "new index">>, <<"new index", "ID", "on">>, <<"on", "ON", "on table">>,
     <<"on table", "ID", "on (">>, <<"on (", "(", "on column">>,
     <<"on column", "ID", "on )">>, <<"on )", ")", "finish">>}
    \cup {<<p, ",", "column">> : p \in {"type end", "column end"}}
    \cup {<<p, ")", "finish">> : p \in {"type end", "column end"}}

(* FinishStatement.                                                        *)
BugFinishMoves == {"where", "condition end", "finish"} \X {";", "EOF"} \X {"accepted"}
FinishMoves ==
    ({"where", "condition end", "finish"} \X {";"} \X {"end"})
    \cup ({"where", "condition end", "finish", "end"} \X {"EOF"} \X {"accepted"})

Moves == SelectMoves \cup InsertMoves \cup UpdateMoves \cup DeleteMoves
            \cup WhereMoves \cup CreateMoves \cup FinishMoves

-----------------------------------------------------------------------------
(* A token whose text is kept, or one that stands for itself.              *)
At(type, i) == IF type \in {"ID", "NUMBER", "STRING"} THEN i ELSE 0
Literal(i) == [type |-> tokens[i].type, at |-> At(tokens[i].type, i)]

(* std::stoul: a number that does not fit throws, a negative one that does *)
(* wraps around.                                                           *)
Stoul(text) ==
    LET negative == Head(text) = "-"
        n == Value(IF negative THEN Tail(text) ELSE text)
    IN IF n >= 2 ^ LongBits THEN 0 ELSE IF negative THEN (2 ^ LongBits - n) % 2 ^ LongBits ELSE n
ColumnLength(text) == IF Stoul(text) < 2 ^ LengthBits THEN Stoul(text) ELSE 0

(* What the statement takes from token i at a point.                       *)
WithLast(seq, item) == [seq EXCEPT ![Len(seq)] = item]
ReadInto(s, i) ==
    CASE point \in {"start", "create"} -> [s EXCEPT !.kind = tokens[i].type]
      [] point = "analyze" -> [s EXCEPT !.kind = "SELECT", !.explain = TRUE]
      [] point \in {"table", "into table", "update table", "new table", "on table"} ->
            [s EXCEPT !.table = i]
      [] point \in {"fields", "field"} -> [s EXCEPT !.fields = Append(@, Literal(i))]
      [] point = "value" -> [s EXCEPT !.values = Append(@, Literal(i))]
      [] point = "set value" -> [s EXCEPT !.value = Literal(i)]
      [] point \in {"set column", "on column"} -> [s EXCEPT !.column = i]
      [] point = "new index" -> [s EXCEPT !.index = i]
      [] point = "column" -> [s EXCEPT !.columns = Append(@, [name |-> i, type |-> 0, length |-> 0])]
      [] point = "type" -> [s EXCEPT !.columns = WithLast(@, [Last(@) EXCEPT !.type = i])]
      [] point = "length" ->
            [s EXCEPT !.columns = WithLast(@, [Last(@) EXCEPT !.length = ColumnLength(tokens[i].text)])]
      [] point = "condition" -> [s EXCEPT !.where = Append(@, [column |-> i, op |-> "", value |-> NoLiteral])]
      [] point = "operator" -> [s EXCEPT !.where = WithLast(@, [Last(@) EXCEPT !.op = tokens[i].type])]
      [] point = "operand" -> [s EXCEPT !.where = WithLast(@, [Last(@) EXCEPT !.value = Literal(i)])]
      [] OTHER -> s

-----------------------------------------------------------------------------
ParserInit == /\ sql \in Texts /\ tokens = <<>>
              /\ cursor = 1 /\ point = "text" /\ statement = NewStatement

(* Parse looks for an invalid token before anything else.                  *)
ReadText == /\ point = "text"
            /\ tokens' = Tokenize(sql)
            /\ point' = IF InvalidToken \in ToSet(tokens') THEN "refused" ELSE "start"
            /\ UNCHANGED <<sql, cursor, statement>>

Parsing == point \notin {"text", "accepted", "refused"}

TooLong == point = "length" /\ tokens[cursor].type = "NUMBER" /\ ColumnLength(tokens[cursor].text) = 0

ReadOn == /\ Parsing /\ ~TooLong
          /\ \E move \in Moves : /\ move[1] = point /\ move[2] = tokens[cursor].type
                                 /\ point' = move[3]
          /\ statement' = ReadInto(statement, cursor)
          /\ cursor' = cursor + 1
          /\ UNCHANGED <<sql, tokens>>

SyntaxError == /\ Parsing
               /\ TooLong \/ \A move \in Moves : move[1] = point => move[2] # tokens[cursor].type
               /\ point' = "refused"
               /\ UNCHANGED <<sql, tokens, cursor, statement>>

ParserNext == ReadText \/ ReadOn \/ SyntaxError

ParserSpec == ParserInit /\ [][ParserNext]_parserVars

-----------------------------------------------------------------------------
(* How a statement is written: the tokens, and where their texts or, of a  *)
(* length, their numbers go.                                               *)
Sign(type) == [type |-> type, at |-> 0, length |-> 0]
Name(i) == [type |-> "ID", at |-> i, length |-> 0]
Item(literal) == [type |-> literal.type, at |-> literal.at, length |-> 0]

Separated(items, type) ==
    FlattenSeq([i \in 1 .. Len(items) |-> (IF i = 1 THEN <<>> ELSE <<Sign(type)>>) \o items[i]])

WrittenWhere(where) ==
    IF where = <<>> THEN <<>>
    ELSE <<Sign("WHERE")>> \o
         Separated([i \in 1 .. Len(where) |->
                      <<Name(where[i].column), Sign(where[i].op), Item(where[i].value)>>], "AND")

WrittenColumn(c) ==
    <<Name(c.name), Name(c.type)>> \o
    IF c.length = 0 THEN <<>>
    ELSE <<Sign("("), [type |-> "NUMBER", at |-> 0, length |-> c.length], Sign(")")>>

Written(s) ==
    CASE s.kind = "SELECT" ->
            (IF s.explain THEN <<Sign("EXPLAIN"), Sign("ANALYZE")>> ELSE <<>>)
            \o <<Sign("SELECT")>> \o Separated([i \in 1 .. Len(s.fields) |-> <<Item(s.fields[i])>>], ",")
            \o <<Sign("FROM"), Name(s.table)>> \o WrittenWhere(s.where)
      [] s.kind = "INSERT" ->
            <<Sign("INSERT"), Sign("INTO"), Name(s.table), Sign("VALUES"), Sign("(")>>
            \o Separated([i \in 1 .. Len(s.values) |-> <<Item(s.values[i])>>], ",") \o <<Sign(")")>>
      [] s.kind = "UPDATE" ->
            <<Sign("UPDATE"), Name(s.table), Sign("SET"), Name(s.column), Sign("="), Item(s.value)>>
            \o WrittenWhere(s.where)
      [] s.kind = "DELETE" -> <<Sign("DELETE"), Sign("FROM"), Name(s.table)>> \o WrittenWhere(s.where)
      [] s.kind = "TABLE" ->
            <<Sign("CREATE"), Sign("TABLE"), Name(s.table), Sign("(")>>
            \o Separated([i \in 1 .. Len(s.columns) |-> WrittenColumn(s.columns[i])], ",")
            \o <<Sign(")")>>
      [] s.kind = "INDEX" ->
            <<Sign("CREATE"), Sign("INDEX"), Name(s.index), Sign("ON"), Name(s.table),
              Sign("("), Name(s.column), Sign(")")>>

Types(seq) == [i \in 1 .. Len(seq) |-> seq[i].type]
Endings == {<<"EOF">>, <<";", "EOF">>}
Sentences == {Types(Written(s)) \o ending : s \in Shapes, ending \in Endings}

Says(item, i) == IF item.length = 0 THEN item.at = At(item.type, i)
                 ELSE Head(tokens[i].text) # "-" => Value(tokens[i].text) = item.length

(* The ways to write a token, and what may not come right after it.        *)
Spellings(token) ==
    IF token.type # "STRING" THEN {token.text}
    ELSE {<<q>> \o FlattenSeq([i \in 1 .. Len(token.text) |->
                       IF token.text[i] = q THEN <<q, q>> ELSE <<token.text[i]>>]) \o <<q>> : q \in Quotes}
GrowsWith(token, spelling) ==
    CASE token.type = "STRING"     -> {spelling[1]}
      [] token.type = "NUMBER"     -> Digits
      [] token.type \in {"<", ">"} -> {"="}
      [] token.type \in Keywords \cup {"ID"} -> Keywords \cup Letters \cup Digits
      [] OTHER -> {}

-----------------------------------------------------------------------------
(* Properties.                                                             *)

\* Tokenizer::Tokenize leaves no symbol out but spaces and those after an invalid
\* token, splits no word, number or two-sign operator, and keeps the text of a
\* string with its doubled quotes made single.
TokensAsWritten ==
    LET Spelled[k \in 1 .. Len(tokens), i \in 1 .. Len(sql) + 1] ==
            IF i <= Len(sql) /\ sql[i] = " " THEN Spelled[k, i + 1]
            ELSE CASE tokens[k] = EOF -> i = Len(sql) + 1
                   [] tokens[k] = InvalidToken -> i <= Len(sql)
                   [] OTHER -> \E spelling \in Spellings(tokens[k]) :
                         LET j == i + Len(spelling)
                         IN /\ j <= Len(sql) + 1 /\ SubSeq(sql, i, j - 1) = spelling
                            /\ j <= Len(sql) => sql[j] \notin GrowsWith(tokens[k], spelling)
                            /\ Spelled[k + 1, j]
    IN point \in {"start", "refused"} /\ cursor = 1 => Spelled[1, 1]

\* Parser::Parse returns the statement that was written, every name, operator,
\* literal and column length in its place and nothing left over after the optional
\* semicolon, and refuses no well-formed statement.
StatementAsWritten ==
    /\ point = "accepted" =>
          LET written == Written(statement)
          IN /\ Types(tokens) \in {Types(written) \o ending : ending \in Endings}
             /\ \A i \in 1 .. Len(written) : Says(written[i], i)
    /\ point = "refused" => \/ Types(tokens) \notin Sentences
                            \/ /\ statement.kind = "TABLE" /\ tokens[cursor].type = "NUMBER"
                               /\ ColumnLength(tokens[cursor].text) = 0
=============================================================================
