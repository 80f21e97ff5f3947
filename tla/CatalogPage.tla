----------------------------- MODULE CatalogPage -----------------------------
(***************************************************************************)
(* The catalog in page 0, as CatalogManager::Persist writes it and         *)
(* CatalogManager::Load reads it (src/src/catalog/catalog_manager.cpp):    *)
(*   header | tables by name, each with its columns | indexes by key       *)
(* The page is a sequence of cells.  A number is one cell whatever its     *)
(* width, because no size in a page of 4096 bytes reaches its 16 bits, and *)
(* so is a letter of a name.  Cell 0 of the program is at position 1.      *)
(***************************************************************************)
EXTENDS FieldValues, FiniteSetsExt, SequencesExt

CONSTANTS CatalogSize,    \* PAGE_SIZE, in cells
          Catalogs,       \* the catalogs to write
          ForeignPages    \* the pages to read, written by nobody

HeaderCells == 6
EntryCells == 5
ColumnCells == 4

(* An identifier has at least one letter, and no letter is a dot.          *)
Dot == 0
Names == Seq(Nat \ {Dot}) \ {<<>>}
ColumnType == [name : Names, type : {"INTEGER", "VARCHAR", "BOOLEAN"}, length : Nat]
TableType == [name : Names, columns : Seq(ColumnType), first_page : Nat \ {0}]
IndexType == [name : Names, table : Names, column : Names, header_page : Nat \ {0}]

HasColumn(t, name) == \E i \in DOMAIN t.columns : t.columns[i].name = name

(* The keys of the maps tables_, indexes_ and index_names_, and what       *)
(* CreateIndex asks for.                                                   *)
Consistent(c) ==
    /\ \A t, u \in c.tables : t.name = u.name => t = u
    /\ \A x, y \in c.indexes : x.name = y.name \/ <<x.table, x.column>> = <<y.table, y.column>>
                                  => x = y
    /\ \A x \in c.indexes : \E t \in c.tables : t.name = x.table /\ HasColumn(t, x.column)

ASSUME CatalogAssumption ==
    /\ CatalogSize \in Nat /\ CatalogSize >= HeaderCells
    /\ \A c \in Catalogs : /\ c \in [tables : SUBSET TableType, indexes : SUBSET IndexType]
                            /\ IsFiniteSet(c.tables) /\ IsFiniteSet(c.indexes)
                            /\ Consistent(c)
    /\ \A page \in ForeignPages : page \in [1 .. CatalogSize -> Nat]

VARIABLES stored,   \* tables_ and indexes_ of the manager that persists
          cells,    \* page 0
          loaded,   \* tables_ and indexes_ of the manager that loads
          phase

catalogVars == <<stored, cells, loaded, phase>>

NoCatalog == [tables |-> {}, indexes |-> {}]
Corrupted == [status |-> "corrupted"]      \* initialization_status_ after a refusal
MAGIC == 67
VERSION == 1
TypeIds == <<"INTEGER", "VARCHAR", "BOOLEAN">>

MakeIndexKey(table, column) == table \o <<Dot>> \o column

-----------------------------------------------------------------------------
(* Persist.                                                                *)
InOrder(keys) == CHOOSE s \in [1 .. Cardinality(keys) -> keys] :
                    \A i, j \in DOMAIN s : i < j => TextLess(s[i], s[j])

WithSize(fields) == <<Len(fields) + 1>> \o fields

ColumnFields(c) ==
    <<Len(c.name), CHOOSE i \in 0 .. 2 : TypeIds[i + 1] = c.type, 0, c.length>> \o c.name

TableEntry(t) ==
    WithSize(<<Len(t.name), Len(t.columns), 0, t.first_page>> \o t.name
             \o FlattenSeq([i \in 1 .. Len(t.columns) |-> ColumnFields(t.columns[i])]))

IndexEntry(x) ==
    WithSize(<<Len(x.name), Len(x.table), Len(x.column), x.header_page>>
             \o x.name \o x.table \o x.column)

CatalogEntries(c) ==
    LET names == InOrder({t.name : t \in c.tables})
        keys == InOrder({MakeIndexKey(x.table, x.column) : x \in c.indexes})
        Table(i) == CHOOSE t \in c.tables : t.name = names[i]
        Index(i) == CHOOSE x \in c.indexes : MakeIndexKey(x.table, x.column) = keys[i]
    IN FlattenSeq([i \in 1 .. Len(names) |-> TableEntry(Table(i))])
       \o FlattenSeq([i \in 1 .. Len(keys) |-> IndexEntry(Index(i))])

UsedCells(c) == HeaderCells + Len(CatalogEntries(c))

PageFor(c) == <<MAGIC, VERSION, Cardinality(c.tables), Cardinality(c.indexes), UsedCells(c), 0>>
              \o CatalogEntries(c) \o [i \in 1 .. CatalogSize - UsedCells(c) |-> 0]

-----------------------------------------------------------------------------
(* Load.  A part that takes size[at] cells from at on is followed by the   *)
(* next one; the last of n + 1 starts is where the n parts end.  Whatever  *)
(* is wrong with the page, Load refuses all of it, so that it is enough to *)
(* say which pages are sound and what is read from them.                   *)
Starts(size, first, n) ==
    LET From[i \in 1 .. n + 1] == IF i = 1 THEN first ELSE From[i - 1] + size[From[i - 1]]
    IN From

FitsIn(at, n, last) == at + n - 1 <= last
NameAt(at, n) == SubSeq(cells, at, at + n - 1)
NameSound(at, n, last) == n > 0 /\ FitsIn(at, n, last)

(* The first five cells of an entry, and that it ends within the page.     *)
EntrySound(at) == /\ FitsIn(at, EntryCells, cells[5])
                  /\ cells[at] >= EntryCells /\ FitsIn(at, cells[at], cells[5])
                  /\ cells[at + 4] > 0
LastOf(at) == at + cells[at] - 1

ColumnSound(at, last) == /\ FitsIn(at, ColumnCells, last)
                         /\ cells[at + 1] \in 0 .. 2
                         /\ NameSound(at + ColumnCells, cells[at], last)
ColumnAt(at) == [name |-> NameAt(at + ColumnCells, cells[at]),
                 type |-> TypeIds[cells[at + 1] + 1], length |-> cells[at + 3]]

ColumnSizes == [at \in DOMAIN cells |-> ColumnCells + cells[at]]
ColumnStarts(at) == Starts(ColumnSizes, at + EntryCells + cells[at + 1], cells[at + 2])

BugTableSound(at) ==
    /\ EntrySound(at) /\ NameSound(at + EntryCells, cells[at + 1], LastOf(at))
    /\ \A i \in 1 .. cells[at + 2] : ColumnSound(ColumnStarts(at)[i], LastOf(at))
TableSound(at) ==
    /\ EntrySound(at) /\ NameSound(at + EntryCells, cells[at + 1], LastOf(at))
    /\ \A i \in 1 .. cells[at + 2] : ColumnSound(ColumnStarts(at)[i], LastOf(at))
    /\ ColumnStarts(at)[cells[at + 2] + 1] = LastOf(at) + 1
TableAt(at) == [name |-> NameAt(at + EntryCells, cells[at + 1]),
                columns |-> [i \in 1 .. cells[at + 2] |-> ColumnAt(ColumnStarts(at)[i])],
                first_page |-> cells[at + 4]]

TableNameOf(at) == at + EntryCells + cells[at + 1]
ColumnNameOf(at) == TableNameOf(at) + cells[at + 2]
IndexSound(at) ==
    /\ EntrySound(at) /\ NameSound(at + EntryCells, cells[at + 1], LastOf(at))
    /\ NameSound(TableNameOf(at), cells[at + 2], LastOf(at))
    /\ NameSound(ColumnNameOf(at), cells[at + 3], LastOf(at))
    /\ ColumnNameOf(at) + cells[at + 3] = LastOf(at) + 1
IndexAt(at) == [name |-> NameAt(at + EntryCells, cells[at + 1]),
                table |-> NameAt(TableNameOf(at), cells[at + 2]),
                column |-> NameAt(ColumnNameOf(at), cells[at + 3]),
                header_page |-> cells[at + 4]]

HeaderSound == /\ cells[1] = MAGIC /\ cells[2] = VERSION
               /\ cells[5] \in HeaderCells .. CatalogSize

TableStarts == Starts(cells, HeaderCells + 1, cells[3])
IndexStarts == Starts(cells, TableStarts[cells[3] + 1], cells[4])
EntriesSound == /\ \A i \in 1 .. cells[3] : TableSound(TableStarts[i])
                /\ \A i \in 1 .. cells[4] : IndexSound(IndexStarts[i])
                /\ IndexStarts[cells[4] + 1] = cells[5] + 1

(* tables_.emplace: of two tables with one name the first one stays.       *)
TablesRead ==
    {TableAt(TableStarts[i]) :
        i \in {k \in 1 .. cells[3] : \A j \in 1 .. k - 1 :
                  TableAt(TableStarts[j]).name # TableAt(TableStarts[k]).name}}

(* Each index is checked against the tables and the indexes before it and  *)
(* opened; CatalogDDL says when a header page can be opened.               *)
IndexesSound ==
    \A i \in 1 .. cells[4] :
       LET x == IndexAt(IndexStarts[i]) IN
       /\ \E t \in TablesRead : t.name = x.table /\ HasColumn(t, x.column)
       /\ \A j \in 1 .. i - 1 :
             LET y == IndexAt(IndexStarts[j]) IN
             y.name # x.name /\ MakeIndexKey(y.table, y.column) # MakeIndexKey(x.table, x.column)

(* A page of zeroes is the catalog of a new file.                          *)
CatalogRead ==
    CASE cells[1] = 0 -> NoCatalog
      [] cells[1] # 0 /\ HeaderSound /\ EntriesSound /\ IndexesSound ->
            [tables |-> TablesRead, indexes |-> {IndexAt(IndexStarts[i]) : i \in 1 .. cells[4]}]
      [] OTHER -> Corrupted

-----------------------------------------------------------------------------
CatalogInit == /\ loaded = NoCatalog
               /\ \/ stored \in Catalogs /\ cells = <<>> /\ phase = "changed"
                  \/ stored = NoCatalog /\ cells \in ForeignPages /\ phase = "foreign"

PersistPage == /\ phase = "changed" /\ UsedCells(stored) <= CatalogSize
               /\ cells' = PageFor(stored) /\ phase' = "written"
               /\ UNCHANGED <<stored, loaded>>

CatalogFull == /\ phase = "changed" /\ UsedCells(stored) > CatalogSize
               /\ phase' = "full" /\ UNCHANGED <<stored, cells, loaded>>

LoadPage == /\ phase \in {"written", "foreign"}
            /\ loaded' = CatalogRead
            /\ phase' = IF phase = "written" THEN "reopened" ELSE "opened"
            /\ UNCHANGED <<stored, cells>>

CatalogNext == PersistPage \/ CatalogFull \/ LoadPage

CatalogSpec == CatalogInit /\ [][CatalogNext]_catalogVars

-----------------------------------------------------------------------------
(* Properties.                                                             *)

ColumnsNeed(columns) ==
    SumFunctionOnSet([i \in DOMAIN columns |-> ColumnCells + Len(columns[i].name)], DOMAIN columns)
TableNeeds(t) == EntryCells + Len(t.name) + ColumnsNeed(t.columns)
IndexNeeds(x) == EntryCells + Len(x.name) + Len(x.table) + Len(x.column)
CellsNeeded(c) == HeaderCells + SumFunctionOnSet([t \in c.tables |-> TableNeeds(t)], c.tables)
                  + SumFunctionOnSet([x \in c.indexes |-> IndexNeeds(x)], c.indexes)

\* CatalogManager::Load gives back the tables and indexes CatalogManager::Persist has
\* written, and Persist refuses only a catalog that needs more than a page.  Of a page
\* that something else has changed, Load accepts only what Persist could have written
\* (a table that is there twice excepted): tables and indexes that fit together, whose
\* entries take exactly the bytes the header says are used.
CatalogSurvives ==
    /\ phase = "reopened" => loaded = stored
    /\ phase = "full" => CellsNeeded(stored) > CatalogSize
    /\ phase = "opened" /\ loaded \notin {Corrupted, NoCatalog} =>
          /\ Consistent(loaded)
          /\ Cardinality(loaded.tables) = cells[3] => CellsNeeded(loaded) = cells[5]
=============================================================================
