------------------------------ MODULE MCFormats ------------------------------
(***************************************************************************)
(* The formats the program reads and writes, each on its own: a slotted    *)
(* page (SlottedPage), the bytes of a row and of a key (RecordCodec), the  *)
(* array of a bucket page (BucketPage), the page of the catalog            *)
(* (CatalogPage), the text of a statement (Parser).                        *)
(* A behaviour is about one subject, the others rest where they start, so  *)
(* that their instances add up and do not multiply.                        *)
(***************************************************************************)
EXTENDS SlottedPage, RecordCodec, BucketPage, CatalogPage, Parser

VARIABLE subject

formatVars == <<pageVars, codecVars, bucketVars, catalogVars, parserVars, subject>>

NoCodec == schema = <<>> /\ values = <<>> /\ record = <<>> /\ stage = "none"
NoCatalogPage == stored = NoCatalog /\ cells = <<>> /\ loaded = NoCatalog /\ phase = "none"
NoParser == /\ sql = <<>> /\ tokens = <<>> /\ cursor = 1
            /\ point = "none" /\ statement = NewStatement

FormatsInit ==
    /\ SlottedInit /\ BucketInit
    /\ \/ subject = "page" /\ NoCodec /\ NoCatalogPage /\ NoParser
       \/ subject = "bucket page" /\ NoCodec /\ NoCatalogPage /\ NoParser
       \/ subject = "row" /\ CodecInit /\ NoCatalogPage /\ NoParser
       \/ subject = "catalog" /\ CatalogInit /\ NoCodec /\ NoParser
       \/ subject = "statement" /\ ParserInit /\ NoCodec /\ NoCatalogPage

FormatsNext ==
    /\ \/ /\ subject = "page" /\ SlottedNext
          /\ UNCHANGED <<codecVars, bucketVars, catalogVars, parserVars>>
       \/ /\ subject = "bucket page" /\ BucketNext
          /\ UNCHANGED <<pageVars, codecVars, catalogVars, parserVars>>
       \/ /\ subject = "row" /\ CodecNext
          /\ UNCHANGED <<pageVars, bucketVars, catalogVars, parserVars>>
       \/ /\ subject = "catalog" /\ CatalogNext
          /\ UNCHANGED <<pageVars, codecVars, bucketVars, parserVars>>
       \/ /\ subject = "statement" /\ ParserNext
          /\ UNCHANGED <<pageVars, codecVars, bucketVars, catalogVars>>
    /\ UNCHANGED subject

FormatsSpec == FormatsInit /\ [][FormatsNext]_formatVars

-----------------------------------------------------------------------------
(* Records for a page of fourteen bytes, with entries of two: up to three  *)
(* records, records longer and shorter than an entry, and updates that     *)
(* grow, shrink and no longer fit.                                         *)
MCRecords == [tag : {"a", "b"}, size : {1, 3}] \cup [tag : {"a"}, size : {5}]

-----------------------------------------------------------------------------
(* Rows of up to three columns, with the values at the ends of the types;  *)
(* a byte has two bits, a record at most 15 bytes.                         *)
MCColumns == {Column("INTEGER", 4), Column("BOOLEAN", 1), Column("VARCHAR", 0), Column("VARCHAR", 1)}
MCValues == {Null, BoolValue(TRUE), BoolValue(FALSE)}
               \cup {IntValue(n) : n \in {0, 1, -1, IntMin}}
               \cup {TextValue(s) : s \in {<<>>, <<0>>, <<1>>, <<3, 0>>}}

MCSchemas == UNION {[1 .. n -> MCColumns] : n \in 1 .. 3}
MCRows(s) == [1 .. Len(s) -> MCValues]

(* A record with the right number of columns and anything after it.        *)
MCForeign(s) == IF Len(s) > 2 THEN {}
                ELSE UNION {{U16(Len(s)) \o rest : rest \in [1 .. n -> 0 .. 2]} : n \in 0 .. 7}

-----------------------------------------------------------------------------
(* Catalogs of up to two tables, whose names are prefixes of one another,  *)
(* with up to two columns, equal names among them, and any indexes; about  *)
(* half of the larger ones do not fit.  Pages with any one cell changed.   *)
MCColumnsOf == {<<[name |-> <<1>>, type |-> "INTEGER", length |-> 4]>>,
                <<[name |-> <<1>>, type |-> "BOOLEAN", length |-> 1],
                  [name |-> <<1, 1>>, type |-> "VARCHAR", length |-> 2]>>,
                <<[name |-> <<2, 1>>, type |-> "VARCHAR", length |-> 2],
                  [name |-> <<2, 1>>, type |-> "INTEGER", length |-> 4]>>}

MCTableSets == {{}}
    \cup {{[name |-> <<1>>, columns |-> cs, first_page |-> 1]} : cs \in MCColumnsOf}
    \cup {{[name |-> <<1>>, columns |-> cs, first_page |-> 2],
           [name |-> <<1, 2>>, columns |-> ds, first_page |-> 1]} : cs, ds \in MCColumnsOf}

ColumnsOf(ts) == UNION {{<<t.name, t.columns[i].name>> : i \in 1 .. Len(t.columns)} : t \in ts}

(* The index on a column is named after its table or after the other one.  *)
MCIndexOn(place, swapped) ==
    [name |-> IF swapped THEN Reverse(place[1]) \o place[2] ELSE <<3>> \o place[1] \o place[2],
     table |-> place[1], column |-> place[2], header_page |-> 3]

MCCatalogs ==
    {[tables |-> ts, indexes |-> {MCIndexOn(place, swapped) : place \in places}] :
        ts \in MCTableSets, places \in SUBSET ColumnsOf(UNION MCTableSets), swapped \in BOOLEAN}
MCSoundCatalogs == {c \in MCCatalogs : Consistent(c)}

MCForeignPages ==
    {[i \in 1 .. CatalogSize |-> 0]}
    \cup UNION {{[PageFor(c) EXCEPT ![i] = n] : i \in 1 .. UsedCells(c), n \in 0 .. 3 \cup {CatalogSize + 1}} :
                   c \in {d \in MCSoundCatalogs : CellsNeeded(d) <= CatalogSize}}

-----------------------------------------------------------------------------
(* Statements of every kind, as they are and with one symbol taken away,   *)
(* replaced or put in.                                                     *)
MCLetters == {"t", "u"}

Kind(type) == [type |-> type, at |-> 0]
Cond(op, type) == [column |-> 0, op |-> op, value |-> Kind(type)]
OfLength(length) == [name |-> 0, type |-> 0, length |-> length]

Wheres == {<<>>, <<Cond("<=", "NUMBER")>>, <<Cond("=", "STRING"), Cond(">", "ID")>>}

MCShapes ==
    {[NewStatement EXCEPT !.kind = "SELECT", !.explain = e, !.fields = f, !.where = w] :
        e \in BOOLEAN, f \in {<<Kind("*")>>, <<Kind("ID")>>, <<Kind("ID"), Kind("ID")>>}, w \in Wheres}
    \cup {[NewStatement EXCEPT !.kind = "INSERT", !.values = v] :
            v \in {<<Kind("NULL")>>, <<Kind("NUMBER"), Kind("STRING"), Kind("ID")>>}}
    \cup {[NewStatement EXCEPT !.kind = "UPDATE", !.value = v, !.where = w] :
            v \in {Kind("STRING"), Kind("NULL")}, w \in Wheres}
    \cup {[NewStatement EXCEPT !.kind = "DELETE", !.where = w] : w \in Wheres}
    \cup {[NewStatement EXCEPT !.kind = "TABLE", !.columns = c] :
            c \in {<<OfLength(0)>>, <<OfLength(12)>>, <<OfLength(20), OfLength(0)>>, <<OfLength(0), OfLength(1)>>}}
    \cup {[NewStatement EXCEPT !.kind = "INDEX"]}

(* Spelled with a space between any two tokens.                            *)
Symbols(item) ==
    CASE item.type = "ID"     -> <<"t">>
      [] item.type = "STRING" -> <<"'", "u", "'", "'", "'">>
      [] item.type = "NUMBER" -> IF item.length < 10 THEN <<"1">>
                                 ELSE <<ToString(item.length \div 10), ToString(item.length % 10)>>
      [] item.type = "<="     -> <<"<", "=">>
      [] OTHER -> <<item.type>>
Text(s) == FlattenSeq([i \in 1 .. Len(Written(s)) |-> Symbols(Written(s)[i]) \o <<" ">>])

NewSymbols == {"t", "1", "-", " ", "'", "?", "=", "<", ",", ";", "(", ")", "*", "AND", "NULL", "FROM"}

Edited(text) ==
    {text}
    \cup {SubSeq(text, 1, i - 1) \o SubSeq(text, i + 1, Len(text)) : i \in 1 .. Len(text)}
    \cup {[text EXCEPT ![i] = c] : i \in 1 .. Len(text), c \in NewSymbols}
    \cup {SubSeq(text, 1, i) \o <<c>> \o SubSeq(text, i + 1, Len(text)) :
             i \in 0 .. Len(text), c \in NewSymbols}

MCTexts == UNION {Edited(Text(s)) : s \in MCShapes}
=============================================================================
