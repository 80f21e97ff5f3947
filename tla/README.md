# MIcroSGBD: a TLA+ verification project

MIcroSGBD is a small relational database in C++: one file of 4 KiB pages, a
buffer pool with Clock replacement, slotted pages, heap files, a persistent
hash index, a catalog kept in page 0, and a SQL front end. This directory holds
TLA+ modules of its storage layers, its formats and its statements, the TLC
configurations that check them on small instances, and TLAPS proofs about the
buffer pool, the loops of its replacer, the slotted pages, the bytes of rows and keys,
the page of the catalog, the chains of pages of heap files and of the hash index, the
bucket pages of the index, the rollbacks of the table storage, the statements and the order in which
objects are created. Paths below are relative to the repository; `PROJECT.json` maps every definition to the lines it models.

## 1. The system

| Component | State | Operations | Used by |
|---|---|---|---|
| Disk manager (`src/storage/disk_manager.cpp`) | file, `num_pages_`, `free_pages_` | open (rebuild of the free list), `ReadPage`, `WritePage`, `AllocatePage`, `DeallocatePage` | buffer pool |
| Clock replacer (`src/buffer/clock_replacer.cpp`) | hand, reference bits, membership | `Pin`, `Unpin`, `Victim` | buffer pool |
| Buffer pool (`src/buffer/buffer_pool_manager.cpp`) | frames, `page_table_`, `free_list_` | `FetchPage`, `NewPage`, `UnpinPage`, `FlushPage`, `FlushAllPages`, `DeletePage` | everything above |
| Slotted page (`src/storage/slotted_page.cpp`) | header, slot directory, records | `Init`, `InsertRecord`, `ReadRecord`, `UpdateRecord`, `DeleteRecord` | heap file |
| Heap file (`src/storage/heap_file.cpp`), sequential scan | chain of slotted pages | insert with append, update, delete, scan | table storage, executor |
| Hash index (`src/index/*.cpp`) | header page, bucket chains | `Create`, `Insert`, `GetValue`, `Remove`, `Destroy` | table storage, catalog |
| Table storage (`src/storage/table_storage.cpp`) | none of its own | row insert, update, delete with manual rollback over heap and indexes | executor |
| Catalog (`src/catalog/catalog_manager.cpp`) | tables, indexes, page 0 | `Load`, `Persist`, `CreateTable`, `CreateIndex` | executor |
| Executor and operators (`src/query/executor.cpp`, `src/query/operators/*.cpp`) | within a statement: position of the scan, rows found, rows changed | planning, scans, filters, projection; DDL, INSERT, UPDATE, DELETE, SELECT | console |
| Record codec, index keys, literals (`src/storage/record_codec.cpp`, `src/index/index_key.cpp`, `src/query/literal.cpp`) | none | `Serialize`, `Deserialize`, `Project`, `Encode`, `ConvertLiteral` | executor, table storage, operators |
| Tokenizer, parser (`src/query/tokenizer.cpp`, `src/query/parser.cpp`) | position in the text, in the tokens | `Tokenize`, `Parse` | console |
| Console (`src/main.cpp`) | none between lines | read, parse, execute, print | |

The components interact by calls only. The program has one thread: the latches
of the pool, the replacer and the disk manager are held for whole methods, and
statements run one after the other. What is hard here is therefore not
interleaving but

- *failure in the middle of a call*: every page access may fail, and each layer
  undoes by hand what it has done (victim handed back, new page deleted, index
  entries restored);
- *two copies of a page*: a frame and the file differ until a flush or an
  eviction, which may come at any later call;
- *restarts*: the free list is not stored but guessed from zero pages, and the
  catalog is read back from page 0;
- *limits*: all frames pinned, full device, full page, full catalog page, and
  the 16 bit sizes of a record;
- *changes under a loop*: the removal of an index entry moves another one under
  the loop that looks for it; an UPDATE changes the column its own scan searches.

What makes each component correct: the replacer offers exactly the unpinned
frames and starves none; the pool never loses a modification, a frame or a page
and looks like plain paged storage; a slotted page never overlaps records and
keeps identifiers; a heap file or index call takes effect at once or not at all,
and neither loses nor shares pages; a row and its index entries agree between
statements; a statement answers and changes exactly the rows its conditions ask
for, by whichever access path; a row, a key and a statement mean after decoding
what they meant before encoding; the catalog survives a restart, and names only objects
that are in the file.
`PROJECT.json` lists the places where this can go wrong under `hazards`.

## 2. The modules

```
 Parser --extends--> Tokenizer          QueryExecutor     CatalogDDL
                                        (uses TableStorage and HashIndex as
 RecordCodec, CatalogPage                promised, and FieldValues)
   --extends--> FieldValues

       TableStorage --implements--> HeapTable
         (uses HeapTable, IndexSet as promised)
       HeapFile --implements--> HeapTable     HashIndex --implements--> IndexSet
         |     (both extend PageChain)          |
         | (RecordPage's operators)             | (a page as a set of entries)
       SlottedPage --implements--> RecordPage  BucketPage --implements--> IndexSet
       BufferPoolManager --implements--> PageStore
         |        |
 ClockReplacer  DiskManager
         ^
   ClockSweep (implements ClockReplacer)
```

Each layer is checked against an abstract specification (`PageStore`,
`RecordPage`, `HeapTable`, `IndexSet`, the one-step policy `ClockReplacer`), and
the layer above is modelled over that specification. `HeapTable` and `IndexSet` keep
the request in progress beside the data, so that a success changes what was asked
to be changed and nothing else will do. The theorems are in modules of their own,
`...Proofs`. The `MC*` modules and
`.cfg` files instantiate a module for TLC. Definitions named `Bug...` are faulty
variants of the definition after them; nothing uses them, and `mutants` in
`PROJECT.json` says which property notices which fault.

- **ClockReplacer**: the two `vector<bool>` are sets of frames. `IsVictim` says
  which frame `Victim` returns, `AfterVictim` what it leaves behind. Methods are
  operators on the state record, so that a pool operation calling them is one
  step.
- **ClockSweep**: `Victim` loop iteration by loop iteration.
- **DiskManager**: operators on `[num_pages, free_pages, file, extent]`. Page
  contents are a set with a distinguished `Zero`, because the code tells one
  thing about contents: a zero page is free when the file is opened. A failed
  operation yields the set of its possible outcomes: nothing written, or written
  and reported as failed. A page is written whole or not at all.
- **BufferPoolManager**: one action per method and outcome (hit, free frame,
  eviction, each failing I/O call), the clients that write into pinned pages, and
  `Restart` after a shutdown (the destructor flushes) or a crash (it does not).
  `unflagged` records the pages a client has modified and not yet reported with
  `UnpinPage(p, true)` or `SetDirty`. Calls that return without changing anything
  are stuttering steps. Guards for clients: a page is touched only while pinned,
  a modified page is unpinned dirty, a free page is never fetched.
- **SlottedPage**: byte by byte, with page, header and slot sizes as constants. A
  byte is the record's tag and its position, so that an overwritten byte shows.
- **PageChain**: pages linked by number, what both `NextPageId` and
  `OverflowPageId` make. `Visited` is what the code's `visited_pages` holds at the
  end of a walk, defined as a least set rather than by recursion so that it can be
  reasoned about; `Ends` says that the walk meets no page twice.
- **HeapFile**: one step per visited page. A `FetchPage` or `NewPage` may fail at
  each of them, and `DeletePage` may leave the page allocated (`leaked`). An insertion
  that finds no room unpins the page as not modified, so that a first page it has just
  initialised may come back as the zeroes it was. The set
  of visited pages that the code keeps against cycles is left out of the actions:
  `ChainSound` shows that it is never needed.
- **HashIndex**: likewise. Keys are mapped to buckets by a constant; the entries
  of a bucket page are a set, so the order of its array is abstracted.
- **BucketPage**: the array of one such page, with `Remove` iteration by iteration.
  It implements `IndexSet`, which is what entitles `HashIndex` to its sets.
- **TableStorage**: one step per call of the heap file or an index. `MaxErrors`
  bounds the isolated errors a statement meets; `full` makes every index
  insertion that needs a page fail for the whole statement.
- **FieldValues**: typed values, columns, literals and `ConvertLiteral`. A byte has
  `ByteBits` bits and every width of the formats shrinks with it, so that the
  limits of 16 bit sizes and 32 bit integers are within reach.
- **RecordCodec**: `Serialize`, `Deserialize`, `Project` and `IndexKey::Encode` on
  sequences of bytes. One action each: a row is written and read back, or foreign
  bytes are read. `FieldsRead` is the set of bytes a read touches.
- **Tokenizer**: `Tokenize` as a recursive function over the text. A keyword, a run
  of other letters and a sign are one symbol each; the case of keywords is left out.
- **Parser**: the grammar has no nesting, so the place in the nest of parsing
  functions is one of finitely many points and each `Match`, `Peek` or `Advance`
  a move between two of them, one step per token. A statement points to the tokens
  its names and literals were copied from.
- **QueryExecutor**: `Execute` for statements on one table: `BuildPlan`, `Open`, one
  step per row of the scan, then one step per row changed. A row operation succeeds,
  fails without effect, or fails with its rollback (`damaged`), which is what
  `TableStorage` is shown to do. `ScanLoses` is the index scan that cannot read a
  page and goes on; `unread` remembers the rows concerned.
- **CatalogDDL**: the DDL statements, `Persist`, `Load`, eviction, shutdown and
  crash. An index is its header and at most one bucket. `Faults` selects what may
  fail. A write of page 0 that fails is taken to leave the file unchanged, the
  best case for the code. Page 0 is its entries and their number.
- **CatalogPage**: what `Persist` puts into page 0 and what `Load` makes of it, with
  every check of `Load`. A number is one cell whatever its width, and so is a
  letter. A page is written and read back, or a page that something else has
  changed is read.

## 3. The runs

| Run | Instance | Distinct states | What it shows |
|---|---|---|---|
| `sweep` | 4 frames | 5,796 | the loops implement the policy; the code after the second loop is dead; no candidate starves while victims are asked for |
| `pool` | 2 frames, 3 pages, 2 pins, 2 contents | 58,836 | four structural invariants, a frame is always available, refinement of `PageStore` |
| `heap` | 3 pages, 2 small or 1 large record each, one record too large | 11,414 | sound chain, no orphan page, complete scans, every call returns, refinement of `HeapTable` |
| `hash` | 3 keys in 2 buckets, 2 RIDs, capacity 1, 4 pages | 49,246 | sound chains, no duplicates, no orphan page, every call returns, refinement of `IndexSet` |
| `table` | 2 rows, 2 indexes, 2 keys and NULL, 2 errors | 218,366 | with one error indexes match the heap between statements and statements are atomic; with two they still end |
| `ddl` | 2 names, 4 data pages, 3 entries, 2 restarts | 172,632 | what the file's catalog names is in the file; a failed creation leaves nothing |
| `ddl_session` | 2 names, 5 data pages, no restart | 335,871 | with failing catalog writes: live objects keep their pages, no orphans |
| `query` | 2 rows of 3 columns, 2 indexes, 19 statements | 208,546 | answers and changes are what the conditions ask for, statements end |
| `formats` | see below | 436,737 | pages keep what they are given, rows, keys and the catalog can be read back, a foreign catalog page is refused or is a catalog, statements mean what is written |
| `ddl_persist_fails` | catalog writes fail | violation | finding 1 |
| `ddl_flush_all_fails` | `FlushAllPages` writes fail | violation | finding 2 |
| `query_lost_rows` | as `query` | violation | finding 3 |

`formats` is five instances that share no state, one behaviour being about one of
them: a slotted page of 14 bytes with entries of 2 and records of 1, 3 and 5; a
bucket page of 3 entries with 2 keys and 2 records; rows of up to 3 columns with a
byte of 2 bits, so that a record has at most 15 bytes and an offset at most 15, and
all byte sequences up to 7 bytes behind a column count; catalogs of up to two tables
with one or two columns and any set of indexes, under names that are prefixes of
one another, on a page of 52 cells, which more than half of them (75 of 130) do not
fit, and the pages of those that do with any one cell changed; statements of every
kind, as they are and with any one symbol dropped, replaced or inserted.

The bounds are the smallest in which the cases meet. Two frames for three pages
force evictions of dirty pages, and three pages allow a free page below one in
use. Three heap pages make a chain with a middle page; capacity 1 makes a chain
of three bucket pages from two colliding keys, with space appearing before a
later entry. Two indexes make a failure at the second find work of the first to
undo. The statements of `query` include a missing column, a literal of the wrong
type, NULL in a condition, a key too long to be encoded, and updates of the column
they search; two rows suffice for a failure at the second to leave the first
changed. Deadlock is checked everywhere except in the DDL runs, where the file or
the number of restarts is used up, further statements are refused without effect
and the program only waits, and in `formats`, where a row is read and a text is
parsed once.

**Fairness.** `HeapFile`, `HashIndex`, `TableStorage` and `QueryExecutor` assume weak
fairness of the steps of a running call (`Work` in `QueryExecutor` leaves out the
steps that fail by accident, so that no statement needs an error to end): one thread, nothing interrupts a call, and every
page access returns, successfully or not. No fairness is assumed for calls
themselves, for I/O to succeed, or for evictions. `EveryCandidateLeaves` states
its own assumption, that victims keep being asked for.

## 4. Findings

1. **A failed CREATE TABLE may come back** (`catalog_manager.cpp:734`). `Persist`
   rewrites page 0 in its frame and then flushes it. If that flush fails, the
   entry is erased from memory and the table's page deleted, but the frame stays
   dirty with the entry in it, and the next eviction, `FlushAllPages` or shutdown
   writes it. After a restart the table exists with a first page that is free.
   `docs/architecture.md:112`: "Si la creación falla, se eliminan las páginas
   reservadas para evitar objetos huérfanos."
2. **An index may be published before it is written** (`executor.cpp:589`).
   `FlushAllPages` reports no errors. After a failed write the catalog names a
   header page that is not in the file; if the process ends before it gets there,
   `Load` refuses the whole catalog. The comment at `executor.cpp:587` says the
   pages are written before the index is published.

3. **An index scan leaves out rows it cannot read** (`index_scan_operator.cpp:51`).
   `HeapFile::GetRecord` answers `NotFound` for a page it cannot fetch
   (`heap_file.cpp:241`), as for a deleted record, and the scan skips every
   `NotFound`. A SELECT by index then reports success without rows that are there,
   and UPDATE and DELETE leave them unchanged; a sequential scan reports the error.
   `docs/architecture.md:133` names the equivalence of `IndexScan` and `SeqScan`.

Each needs an I/O error at one particular place. Findings 1 and 2: without it
(`ddl`) and within the session (`ddl_session`) the properties hold. Finding 3:
`AnswersExact` and `ChangesExact` (`query`) state what holds in spite of it, that
no other row is missing and none is wrong.

Worth knowing, though nothing in the repository says otherwise: `std::stoul`
(`parser.cpp:432`) wraps a negative column length round, so that one just above
minus two to the sixty-fourth passes as a small positive length. `ColumnLength`
follows the code; `StatementAsWritten` compares the lengths that are not negative.

## 5. Proofs

### The buffer pool

`BufferPoolProofs` proves, for every pool size, number of pages, pin bound and
set of contents, from the assumptions `PoolSizeAssumption`, `DiskAssumption`
and `MaxPinsAssumption`:

| Theorem | Invariant, of run `pool` unless in brackets |
|---|---|
| `TypeCorrect` | (`TypeOK`) |
| `FramesStayPartitioned` | `FramesPartitioned` |
| `PinnedNeverOffered` | `EvictableIffUnpinned` |
| `CleanPagesMatchDisk` | `CleanMatchesDisk` |
| `FreePagesStayUnused` | `FreePagesUnused` |
| `FramesNeverRunOut` | `FrameAvailable` |
| `FileAlwaysCovers` | (`FileCoversPool`) |

None of them is inductive alone. `IInv` joins them with `UnflaggedPinned` (a
modification not yet reported is in a pinned page). An eviction keeps
`FramesPartitioned` only because the victim is in a frame (`EvictableIffUnpinned`)
that holds a mapped page; an allocation keeps it only because the new page is not
resident (`FreePagesUnused`, `FileCoversPool`); dropping a clean victim keeps
`CleanMatchesDisk` only because an unpinned page has no unreported modification.
`FrameAvailable` follows from `IInv`: a frame that is not pinned is on the free list
or in the replacer, and of the replacer's candidates one is met first, because the
distances from the hand are natural numbers and have a least one (`VictimExists`).
The lemmas are, bottom up: what the replacer, the file operations and the free
list do; three frame lemmas (`PoolKeptInv` for steps that only touch the file,
`UpdateInv` for steps on one resident page, `InstallInv` for steps that move a
page into a frame); one lemma per method; `NextInv` and `Invariance`.

Its second half proves `PoolImplementsStore`, from the same assumptions: the pool
implements `PageStore` (`ImplementsPageStore` of run `pool`). The mapping takes for
the contents of a page its frame if it is resident and its place in the file if
not, for its pins the frame's, and for the allocated pages those within the file
that are not on the free list. `IInv` is used for every step: an eviction is a
stutter only because the victim is in no client's hands and, when it is clean, equals
its copy; a new page starts empty only because a free page is zero in the file and
in no frame; a crash loses no more than the store allows because a page that is
clean equals its copy. The lemmas follow the steps in four groups: those the store
does not see (hits, failed I/O, flushes), those on one resident page, those that
bring a page into a frame (`InstallMapping`, after the free frame or the victim's
departure), and deletion and restart.

### The replacer's loops

The last part of `BufferPoolProofs`, whose pool is modelled over the one-step policy,
proves for every pool size, from `PoolSizeAssumption`:

| Theorem | Property of run `sweep` |
|---|---|
| `FallThroughIsDead` | `SecondLoopNeverRunsDry` |
| `SweepIsPolicy` | `SweepImplementsPolicy`, the refinement of `ClockReplacer` |

The loop invariant `SweepInv` counts: after `n` iterations the hand is `n` frames
from where the call found it (`HandAfter`), and the frame under it is the one at
distance `n` (`HandFacts`). In the first loop every candidate passed had its bit,
which is now cleared; when the second loop begins every candidate has been passed,
so all had their bits, and at the end of the second loop every candidate would have
been passed and none has. The frame returned is at distance `n` and no candidate
of its kind has been passed, so it is the nearest (`SelectsVictim`).

### The pages of the index

The first part of `FormatProofs` proves, for every set of keys, every set of record identifiers
and every capacity, from `BucketAssumption`:

| Theorem | Property of run `formats` |
|---|---|
| `PageImplementsSet` | `PageIsSet`, the refinement of `IndexSet` |
| `RefusalsAreJustified` | `RefusalsJustified` |
| `ArrayStaysTidy` | (`ArrayTidy`: no entry twice, zero behind the last one) |

The refinement takes a `Remove` in progress for not yet begun, so what has to be
shown is that at its end exactly the wanted entries have gone although the loop
has moved others. The inductive invariant `BInv` therefore says of a running
`Remove` (`RemoveSound`) that only wanted entries have gone, that none is wanted
among the positions it has passed, and that nothing has gone if and only if the
count has not changed. The position just filled is not passed, which is why the
loop must not advance there. That a `Remove` of one record may stop at its first
match needs `ArrayTidy`: no entry is there twice. The lemmas are, bottom up: what
appending and swapping do to the array (`AppendFacts`, `SwapFacts`); one lemma per
action; `BInvStep`; how each action looks to `IndexSet` (`...Refines`). A full page
has `Capacity` entries because its positions are in bijection with them
(`FullPage`).

### The slotted page

The second part of `FormatProofs` proves, for every page, header and slot size and
every set of records, from `PageAssumption`:

| Theorem | Property of run `formats` |
|---|---|
| `PageNeverCorrupted` | `NeverCorrupted` |
| `PageNeverFragmented` | `NoFragmentation` |
| `PageImplementsTable` | `ImplementsRecordPage`, the refinement of `RecordPage` |

The inductive invariant `PageInv` is the two properties together with what an update
of a slot relies on: the bytes of every active slot are those of a record, they lie
above `free_space_pointer`, and the last slot is active (a deletion trims the
directory). Every operation but a plain insertion lays all records out anew
(`RewriteFacts`): the record of slot `i` ends where those of the slots before it
begin, so that the free space is the page less the directory and the sum of the
lengths. Whether a record fits is thus a comparison of sums, and the lemmas about sums
(`TotalFacts`, `TotalOfChange`) say what one changed record does to them.
`LaidOutFacts` shows that pieces laid out so do not overlap, `LoadFacts` that each is
read back as it was written. The refinement reads every active slot; `TableFits`
shows that the page's own test of room is the one `RecordPage` makes, which counts
records and not bytes of a page.

### Rows and keys

The third part of `FormatProofs` proves, for every width of a byte, every schema, every
set of rows and every set of foreign records, from `ByteAssumption` and
`CodecAssumption`:

| Theorem | Property of run `formats` |
|---|---|
| `WrittenRowsSurvive` | `RowsSurvive` |
| `DeserializeStaysInside` | `ReadsInBounds` |
| `KeysAreInjective` | `KeysTellValuesApart` |

`RoundTrip` says that `Deserialize` gives back any row that `Serialize` accepts;
`CodecInv`, the inductive invariant, is the types and `RowsSurvive` itself, because a
projection writes a row that has been read from a record. The argument is about where
things are: `Flattened` says where in `FlattenSeq` each byte of each piece is,
`Layout` uses it to place the column count, the bitmap, the offsets and the fields,
and `FieldTells` that a field is read as the value it was written for. The bitmap is a
sum of powers of two: `BitsTold` shows that the bits of such a sum are the numbers
summed, from the remainder of a power of two by a larger one. The arithmetic of bytes
is division with remainder (`DivUnique`), the sign of an integer a case of its own
(`I32Facts`). That `ReadsInBounds` holds of *any* bytes rests on the order of the
checks in `Deserialize`: no offset is used before both it and the next are known to be
within the record. `KeyFacts` shows that two values with one key are one value, for
which the tag and the width of each kind of value have to be told apart.

### The page of the catalog

The last part of `FormatProofs` proves, for every size of the page, every set of
catalogs and every set of foreign pages, from `CatalogAssumption`:

| Theorem | Property of run `formats` |
|---|---|
| `CatalogAlwaysSurvives` | `CatalogSurvives` |

Of the catalogs it assumes what the maps of the manager and `CreateIndex` guarantee
(`Consistent`), that they are finite, that a name has a letter and no letter is a dot;
of a foreign page only that it has `CatalogSize` cells with numbers in them. The
inductive invariant `CatalogPageInv` says which catalog the page holds. What carries
it is `CatalogRoundTrip`: `Load` undoes `Persist`. Neither keeps the place of an entry;
each is where the sizes of the entries before it lead, so the two have to walk the
page in step. `PartsLie` and `PiecesLie` say where a part of a sequence of cells is,
`TableLies` and `IndexLies` that an entry is sound where it lies and read as what it
was written for, `TablesLie` and `IndexesLie` that the starts `Load` computes are the
places of the entries. `InOrder` takes each table and index once because texts are
totally ordered (`TextsOrdered`, `KeysInOrder`), and two indexes have the same key
`table.column` only if they are on the same column (`IndexKeysDiffer`): this is where
the dot must not be a letter. That a refused catalog does need more than a page, and
that the entries of an accepted page take the cells the header says (`ForeignRead`),
is one count of cells made from both ends, `CatalogLength` for what is written and
`TablesAccepted` and `IndexesAccepted` for what is read. A table that is there twice
is excepted because `emplace` keeps one of the two (`TablesReadFacts`).

### Chains of pages

`SharedLemmas` holds what the next two proofs need to know of `Visited` and
`Ends`, for any links between any set of pages. Since `Visited` is a least set,
each lemma is proved by giving a closed set: `VisitedStep` (a walk from a page is
that page and the walk from the next one), `VisitedLinear` (of two pages of a
walk one is met from the other), `NoReturn` (a walk that ends never comes back
to a page behind it), `LastPage` (it has exactly one last page), `RestEnds`,
`SameWalk` (changing links off the walk changes nothing about it) and `Appended`
(linking a new page to the last one adds just that page). It also holds what several
proofs need of numbers: a set of them that is not empty has a least one
(`LeastNatural`), and what sums over finite sets of numbers come to.

### The chain of a table

`HeapFileProofs` proves, for every number of pages, every page, header and slot
size and every set of records, from `HeapAssumption`:

| Theorem | Property of run `heap` |
|---|---|
| `ChainStaysSound` | `ChainSound` |
| `NoPageIsOrphaned` | `NoOrphanPages` |
| `ScansAreComplete` | `ScanComplete` |
| `HeapImplementsTable` | `ImplementsHeapTable`, the refinement of `HeapTable` |

None of the properties is inductive: the chain is kept by `LinkNewPage` only because
the page that waits for its link is fresh, in use and not in the chain, and because
the page remembered as the last one still is (`LinkInv`, `AtEnd`); both were
established two steps earlier. `HeapInv` adds this to `ChainInv` and `OwnersInv`.
For the scan, `ScanInv` says that the records returned so far are exactly `Passed`,
those on pages behind the scan's page and in slots below its slot, and that their
number is the length of what was returned, so none came twice; `NoReturn` makes
the page that is left one behind, and the first used slot exists because slot
numbers are natural numbers (`LeastNatural`). The lemmas are one per action
(`...Inv`), then what each action is in `HeapTable` (`InsertSteps`, `WriteSteps`,
`ScanSteps`): the record appears at the step that puts it on a page of the chain or
links its page, every other step of an insertion is a stutter or a refusal. Whether
a record fits a page (`HasRoom`) is never expanded: the proofs hold for any such test.

### The chains of the index

`HashIndexProofs` proves, for every number of pages, every set of keys and record
identifiers, every assignment of keys to buckets and every capacity, from
`CapacityAssumption`:

| Theorem | Property of run `hash` |
|---|---|
| `ChainsStaySound` | `ChainsSound` |
| `NoBucketIsOrphaned` | `NoOrphanBuckets` |
| `NoEntryIsDuplicated` | `NoDuplicateEntries` |
| `IndexImplementsSet` | `ImplementsIndexSet`, the refinement of `IndexSet` |

`IndexInv` says of an insertion that the entry is in no page behind it and that the
page with space it remembers is still in the chain and still has space (`InsertInv`):
this is why going back to that page at the end makes no duplicate and overfills
nothing. `LinkInv` is as for the heap, with the entry already in the new page and
nowhere else. A removal has left nothing to remove behind it (`RemoveInv`), and one
that removes a single record may stop at its first match because the pages of a
chain share no entry, which is part of `ChainsInv`. A destruction gives pages back
one by one and has no chains to speak of any more: `DestroyInv` says instead that
the walks from the page in hand and from the buckets still to come end, share no
page, and are, with the header, exactly the pages in use, so nothing is forgotten
when the header goes last or when a page cannot be fetched and the rest stays. The
refinement takes the entries for the union of the chains and, once a destruction has
begun, for none; `EntriesKept`, `EntriesLinked`, `EntriesInserted` and
`EntriesRemoved` say what a step does to that union, `InsertSteps`, `RemoveSteps`,
`DestroySteps` and `HiddenSteps` what it is in `IndexSet`.

With `FormatProofs`, which shows that a bucket page is the set of entries taken here
and a slotted page the slots and the room that `HeapFile` takes, and
`TableStorageProofs`, which is about heap and indexes as `HeapTable` and `IndexSet`
describe them, the proofs reach from the bytes of a page and the array of a bucket
page to the rows of a table and their index entries.

### The rollbacks of the table storage

`TableStorageProofs` proves, for every number of indexes, every set of rows and keys
and every bound on errors, from `TableAssumption`:

| Theorem | Property of run `table` |
|---|---|
| `IndexesAlwaysMatch` | `IndexesMatchHeap` |
| `StatementsAtomic` | `ImplementsAtomicRows`, the refinement of `HeapTable` |

Both speak of the moments between statements; the inductive invariant `SInv` says
what holds at every call in between. `Mine(op, pos, i)` is the key under which the
row in hand is in index `i` when the statement is at `op` and position `pos`: new
before the position, old behind it, and at the position whatever half of the change
is done. With at most one error so far, index `i` holds the entries of all other
rows and that one (`EntriesInv`). A rollback is under way only after an error
(`Shape`), so any call of it that fails is a second one, except two that could fail
without one and do not: the removal of an entry that is not there
(`MineIsPresent`), and the insertion of an old entry on a full device. `RoomInv`
excludes the latter: an index has more space than the entries of the other rows take,
the space the old entry had, and no bucket page is given up by a removal. The
lemmas are, bottom up: rows and entries; what a call does to an index, succeeding
or failing; where each kind of statement goes from a position and what `Mine` is
there (`InsertsLead`, `InsertsMine` and so on); one lemma per action; starts and ends.

### The order of a creation

`CatalogDDLProofs` proves, from `DDLAssumption`, for every number of tables, pages,
catalog entries and restarts:

| Theorem | Property | Run | Further assumption |
|---|---|---|---|
| `CreationOrder` | `PublishedObjectsSound` | `ddl` | only "data" and "delete" faults |
| `FailuresLeaveNothing` | `FailedCreationLeavesNothing` | `ddl` | only "data" and "delete" faults |
| `SessionSound` | `LiveObjectsSound` | `ddl_session` | no restart |
| `FailuresLeaveNoPages` | `NoOrphans` | `ddl_session` | no restart, no "delete" fault |

The assumptions on faults cannot be dropped from the first two: the runs
`ddl_persist_fails` and `ddl_flush_all_fails` are the counterexamples. The proofs
rest on three parts. `LiveInv` says that the objects the program knows are sound,
and that the statement in progress holds reserved pages of no object, filled as its
object needs them (`CallInv`). `FileInv` adds that the file knows exactly these
objects with their pages and, once the statement is about to publish, its pages too:
`FlushFirstPageInv` and `FlushIndexInv` establish this, `PersistInv` uses it.
`OwnersInv` says that every page in use belongs to an object or to the statement.
The lemma used throughout is `SameObjects`: an object depends on its own pages only,
so filling, clearing or writing back any other page changes nothing about it.
`RestartInv` shows that a reopened file gives the program the same objects: a page
with an object in it is not all zeroes, hence taken for a page in use, and `Load`
accepts the headers.

### The statements

`QueryExecutorProofs` proves, for every schema, every set of record identifiers and
every set of statements the parser can make, from `QueryAssumption`:

| Theorem | Property of run `query` |
|---|---|
| `SelectsAreExact` | `AnswersExact` |
| `ChangesAreExact` | `ChangesExact` |

Both are about the step at which a statement returns; `QueryInv` says what holds on
the way. `TableInv`: rows have the types of their columns and, unless a rollback has
failed, every row is in every index (an entry of no row does no harm, since the
filters look at the row again). `ScanInv`: the rows asked for are found, unread, or
still before the cursor, and the table is as it was when the statement started, so
that an UPDATE of the column it searches never meets its own changes. `ApplyInv`:
exactly the rows passed are as the statement wants them. What is asked for is
said without the plan; `EvaluateFacts` shows that a filter decides it, for which
values of a column and a converted literal must have the same type
(`ConvertFacts`) and texts must be totally ordered (`TextOrder`), and
`CandidatesFacts` that an index chosen by `BuildPlan` leads to every such row.

### Only model-checked

- Liveness under fairness (`EveryCandidateLeaves`, `CallReturns`, `StatementEnds`,
  `QueryEnds`): the prover has no rule for it.
- The tokenizer and the parser (`TokensAsWritten`, `StatementAsWritten`). What a
  recursive function over the text makes of every text is an induction over data, and
  the installed provers cannot instantiate an induction theorem with the predicate it
  needs. For the pages and records above a least counterexample (`LeastNatural`) does
  instead, because there the next position depends on one number; here it depends on
  strings within the text, on the keywords and on the digits, which the prover cannot
  tell apart as results of `ToString`. That every well-formed statement is accepted is
  said of the given `Shapes` and is a matter of trying them. `formats` checks both over
  every input within its bounds.
- The properties of the runs that expect a violation, which are false.

## 6. Not modelled

- The console (`src/main.cpp`): it prints what the executor returns and keeps nothing
  between lines. Its start and end are the restarts of `BufferPoolManager` and
  `CatalogDDL`.
- `CatalogManager::Flush`, which is `Persist` and which nothing calls.
- EXPLAIN ANALYZE output, timings, counters of reads and writes, and the latches,
  which never meet contention.
- The case of keywords, the wording of errors, characters beyond the symbols used.
- Torn page writes; a file whose length is not a multiple of the page size,
  which the constructor refuses.
- Crash consistency of rows and chains: the documentation excludes it
  (`README.md`, "Limitaciones").

## 7. Order of the work

The modules were written in the order replacer, disk, pool with its proofs, slotted
page, heap file, hash index, table storage with its proofs, DDL with its proofs, bucket
page with its proofs, codec, tokenizer and parser, statements, catalog page; then came
the proofs about chains of pages, heap file, hash index and statements, and last those
about the slotted page, the rows and the keys, and the page of the catalog. What could
come next is the tokenizer: that `Tokenize` undoes the writing of a statement.
