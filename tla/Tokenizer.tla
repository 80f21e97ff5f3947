------------------------------ MODULE Tokenizer ------------------------------
(***************************************************************************)
(* From the text of a statement to its tokens (src/src/query/tokenizer.cpp)*)
(* A text is a sequence of symbols: a keyword, a run of other letters or a *)
(* sign is one symbol, so that words still grow together when nothing      *)
(* separates them, and digits are ten symbols.                             *)
(***************************************************************************)
EXTENDS Integers, Sequences, FiniteSetsExt, TLC

CONSTANT Letters    \* runs of letters that are no keyword, '_' among them

Keywords == {"SELECT", "INSERT", "UPDATE", "DELETE", "CREATE", "TABLE", "INDEX", "ON", "INTO",
             "VALUES", "FROM", "WHERE", "SET", "EXPLAIN", "ANALYZE", "AND", "NULL"}
Digits == {ToString(n) : n \in 0 .. 9}
Signs == {"*", ",", "=", ";", "(", ")"}
Quotes == {"'", "\""}

EOF == [type |-> "EOF", text |-> <<>>]
InvalidToken == [type |-> "INVALID", text |-> <<>>]

(* A token and where the next one may start.                               *)
Found(type, text, i, n) == [token |-> [type |-> type, text |-> SubSeq(text, i, i + n - 1)],
                            next |-> i + n]

(* How many symbols from i on are in S.                                    *)
RunLength(text, i, S) ==
    Max({n \in 0 .. Len(text) - i + 1 : \A j \in i .. i + n - 1 : text[j] \in S})

Follows(text, i, S) == i < Len(text) /\ text[i + 1] \in S

ReadWord(text, i) ==
    LET n == RunLength(text, i, Keywords \cup Letters \cup Digits)
    IN IF n = 1 /\ text[i] \in Keywords THEN Found(text[i], text, i, 1) ELSE Found("ID", text, i, n)

ReadNumber(text, i) ==
    LET sign == IF text[i] = "-" THEN 1 ELSE 0
    IN Found("NUMBER", text, i, sign + RunLength(text, i + sign, Digits))

(* A quote within the string is written twice.                             *)
BugReadString(text, i) ==
    LET From[k \in i + 1 .. Len(text) + 2] ==
            CASE k > Len(text) -> [token |-> InvalidToken, next |-> k]
              [] k <= Len(text) /\ text[k] # text[i] ->
                    [From[k + 1] EXCEPT !.token.text = <<text[k]>> \o @]
              [] k <= Len(text) /\ text[k] = text[i] ->
                    [token |-> [type |-> "STRING", text |-> <<>>], next |-> k + 1]
    IN From[i + 1]
ReadString(text, i) ==
    LET From[k \in i + 1 .. Len(text) + 2] ==
            CASE k > Len(text) -> [token |-> InvalidToken, next |-> k]
              [] k <= Len(text) /\ text[k] # text[i] ->
                    [From[k + 1] EXCEPT !.token.text = <<text[k]>> \o @]
              [] k <= Len(text) /\ text[k] = text[i] /\ Follows(text, k, {text[i]}) ->
                    [From[k + 2] EXCEPT !.token.text = <<text[i]>> \o @]
              [] k <= Len(text) /\ text[k] = text[i] /\ ~Follows(text, k, {text[i]}) ->
                    [token |-> [type |-> "STRING", text |-> <<>>], next |-> k + 1]
    IN From[i + 1]

ReadToken(text, i) ==
    CASE text[i] \in Signs -> Found(text[i], text, i, 1)
      [] text[i] = "<" -> IF Follows(text, i, {"="}) THEN Found("<=", text, i, 2) ELSE Found("<", text, i, 1)
      [] text[i] = ">" -> IF Follows(text, i, {"="}) THEN Found(">=", text, i, 2) ELSE Found(">", text, i, 1)
      [] text[i] \in Quotes -> ReadString(text, i)
      [] text[i] \in Keywords \cup Letters -> ReadWord(text, i)
      [] text[i] \in Digits \/ (text[i] = "-" /\ Follows(text, i, Digits)) -> ReadNumber(text, i)
      [] OTHER -> [token |-> InvalidToken, next |-> i + 1]

(* Nothing is read after an invalid token.                                 *)
Tokenize(text) ==
    LET From[i \in 1 .. Len(text) + 2] ==
            IF i > Len(text) THEN <<EOF>>
            ELSE IF text[i] = " " THEN From[i + 1]
            ELSE LET found == ReadToken(text, i)
                 IN IF found.token.type = "INVALID" THEN <<InvalidToken, EOF>>
                    ELSE <<found.token>> \o From[found.next]
    IN From[1]

(* The number a NUMBER token writes.                                       *)
DigitValue(d) == CHOOSE n \in 0 .. 9 : ToString(n) = d
Value(digits) ==
    LET Upto[k \in 0 .. Len(digits)] ==
            IF k = 0 THEN 0 ELSE 10 * Upto[k - 1] + DigitValue(digits[k])
    IN Upto[Len(digits)]
=============================================================================
