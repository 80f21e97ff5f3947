-------------------------- MODULE TableStorageProofs --------------------------
(***************************************************************************)
(* The rollbacks of TableStorage, for every number of indexes, every set   *)
(* of rows and keys, and every bound on errors: a statement that meets one *)
(* error leaves rows and indexes as they were.                             *)
(***************************************************************************)
EXTENDS TableStorage, FiniteSetTheorems, TLAPS

(* The entries of the rows of h in index i; the entry of row r for key k,  *)
(* and those of the other rows.                                            *)
EntriesIn(h, i) == {<<h[q][i], q>> : q \in {s \in RecordIDs : h[s] # None /\ h[s][i] # NULL}}
EntryOf(r, k) == IF k = NULL THEN {} ELSE {<<k, r>>}
EntriesBut(h, r, i) ==
    {<<h[q][i], q>> : q \in {s \in RecordIDs \ {r} : h[s] # None /\ h[s][i] # NULL}}

InsertOps == {"insert", "undo insert"}
UpdateOps == {"update", "update new", "restore old", "undo update", "undo update old"}
DeleteOps == {"delete", "undo delete"}
ForwardOps == {"insert", "update", "update new", "delete"}
Ops == InsertOps \cup UpdateOps \cup DeleteOps

Statements == [op : Ops, rid : RecordIDs, old : Records, new : Records,
               pos : 0 .. NumIndexes + 1]

(* The key under which the row in hand is in index i when its statement is *)
(* at op and pos: what is before the position in hand is done, or not      *)
(* undone yet; what is behind it is not done, or undone.                   *)
Mine(op, pos, i) ==
    IF i < pos THEN IF op \in DeleteOps THEN NULL ELSE call.new[i]
    ELSE IF i > pos THEN IF op \in InsertOps THEN NULL ELSE call.old[i]
    ELSE IF op \in {"undo insert", "undo update"} THEN call.new[i]
    ELSE IF op \in {"update", "delete"} THEN call.old[i]
    ELSE NULL

MineNow(i) == Mine(call.op, call.pos, i)

IndexInv == /\ index \in [Indexes -> SUBSET (Keys \X RecordIDs)]
            /\ space \in [Indexes -> Nat]
            /\ \A i \in Indexes : IsFiniteSet(index[i]) /\ Cardinality(index[i]) <= space[i]

TypeInv == /\ IndexInv
           /\ heap \in [RecordIDs -> Records \cup {None}]
           /\ before \in [RecordIDs -> Records \cup {None}]
           /\ errors \in Nat /\ full \in BOOLEAN /\ result \in {"ok", "error"}
           /\ call = Idle \/ call \in Statements

(* Where a statement may be, and that an undoing one has met an error.     *)
Shape(op, pos, e) ==
    /\ op \in {"insert", "update", "delete"} => pos >= 1
    /\ op \in {"undo insert", "undo update", "undo delete"} => pos <= NumIndexes
    /\ op \in {"update new", "restore old", "undo update old"} => pos \in Indexes
    /\ IF op \in ForwardOps THEN e = 0 ELSE e >= 1

ShapeInv == Shape(call.op, call.pos, errors)

(* The row in hand, in the heap and before the statement.                  *)
RowInv ==
    /\ heap = IF call.op \in DeleteOps THEN before
              ELSE [before EXCEPT ![call.rid] = call.new]
    /\ before[call.rid] = IF call.op \in InsertOps THEN None ELSE call.old

(* The space of an old entry is kept for it: putting it back never needs a *)
(* page.                                                                   *)
RoomInv ==
    call.op \notin InsertOps =>
        \A i \in Indexes : call.old[i] # NULL =>
            /\ IsFiniteSet(EntriesBut(before, call.rid, i))
            /\ space[i] > Cardinality(EntriesBut(before, call.rid, i))

EntriesInv ==
    errors <= 1 => \A i \in Indexes :
        index[i] = EntriesBut(before, call.rid, i) \cup EntryOf(call.rid, MineNow(i))

(* The inductive invariant.  IndexesMatchHeap speaks of the moments between*)
(* statements; EntriesInv says which entry each index has in between.      *)
SInv == /\ TypeInv
        /\ call = Idle /\ errors <= 1 => \A i \in Indexes : index[i] = EntriesOf(i)
        /\ call # Idle => ShapeInv /\ RowInv /\ RoomInv /\ EntriesInv

-----------------------------------------------------------------------------
(* Rows and entries.                                                       *)

\* The entries of a table are those of one row and those of the others.
LEMMA SplitEntries ==
    ASSUME NEW h, NEW r \in RecordIDs, NEW i
    PROVE  EntriesIn(h, i) = EntriesBut(h, r, i)
                               \cup EntryOf(r, IF h[r] = None THEN NULL ELSE h[r][i])
  BY DEF EntriesIn, EntriesBut, EntryOf

\* The rows an index should hold, now and after a step.
LEMMA EntriesOfHeap == \A i : EntriesOf(i) = EntriesIn(heap, i) /\ (EntriesOf(i) = EntriesIn(heap, i))'
  BY DEF EntriesOf, EntriesIn

\* The entries of the other rows do not depend on the row in hand, and are
\* never entries of it.
LEMMA OtherEntries ==
    ASSUME NEW h \in [RecordIDs -> Records \cup {None}], NEW r \in RecordIDs, NEW i,
           NEW v
    PROVE  /\ EntriesBut([h EXCEPT ![r] = v], r, i) = EntriesBut(h, r, i)
           /\ \A k : <<k, r>> \notin EntriesBut(h, r, i)
  BY DEF EntriesBut

\* No record is a record that is not there.
LEMMA RecordFacts ==
    /\ None \notin Records /\ NULL \notin Keys
    /\ \A r \in Records : r # None /\ \A i \in Indexes : r[i] \in Keys \cup {NULL}
  BY TableAssumption DEF Records, Indexes

\* A statement in progress is a statement, and Idle is none.
LEMMA CallFacts ==
    /\ Idle.op = "idle"
    /\ \A c \in Statements : c # Idle /\ c.op \in Ops /\ c.op # "idle"
  <1>1. Idle.op = "idle"
    BY DEF Idle
  <1>2. ASSUME NEW c \in Statements PROVE c.op \in Ops /\ c.op # "idle"
    BY DEF Statements, Ops, InsertOps, UpdateOps, DeleteOps
  <1>3. QED
    BY <1>1, <1>2

-----------------------------------------------------------------------------
(* Calls of an index.                                                      *)

\* An insertion that succeeds adds the entry; space never shrinks.
LEMMA InsertFacts ==
    ASSUME IndexInv, NEW i \in Indexes, NEW k \in Keys, call.rid \in RecordIDs,
           IndexInsert(i, k)
    PROVE  /\ IndexInv' /\ errors' = errors
           /\ index' = [index EXCEPT ![i] = @ \cup {<<k, call.rid>>}]
           /\ \A j \in Indexes : space'[j] >= space[j]
  <1>1. /\ index' = [index EXCEPT ![i] = @ \cup {<<k, call.rid>>}] /\ errors' = errors
        /\ space' = IF NeedsPage(i) THEN [space EXCEPT ![i] = @ + 1] ELSE space
    BY DEF IndexInsert
  <1>2. /\ space' \in [Indexes -> Nat] /\ \A j \in Indexes : space'[j] >= space[j]
        /\ space'[i] = IF NeedsPage(i) THEN space[i] + 1 ELSE space[i]
    BY <1>1 DEF IndexInv
  <1>3. index' \in [Indexes -> SUBSET (Keys \X RecordIDs)]
    BY <1>1 DEF IndexInv
  <1>4. /\ IsFiniteSet(index[i] \cup {<<k, call.rid>>})
        /\ Cardinality(index[i] \cup {<<k, call.rid>>}) \in
              {Cardinality(index[i]), Cardinality(index[i]) + 1}
        /\ Cardinality(index[i]) \in Nat
    BY FS_AddElement, FS_CardinalityType DEF IndexInv
  <1>5. Cardinality(index'[i]) <= space'[i]
    BY <1>1, <1>2, <1>4 DEF IndexInv, NeedsPage
  <1>6. \A j \in Indexes : IsFiniteSet(index'[j]) /\ Cardinality(index'[j]) <= space'[j]
    <2>1. ASSUME NEW j \in Indexes, j # i
          PROVE  IsFiniteSet(index'[j]) /\ Cardinality(index'[j]) <= space'[j]
      <3>1. index'[j] = index[j] /\ space'[j] = space[j]
        BY <1>1, <2>1 DEF IndexInv
      <3>2. QED
        BY <3>1 DEF IndexInv
    <2>2. IsFiniteSet(index'[i])
      BY <1>1, <1>4 DEF IndexInv
    <2>3. QED
      BY <1>5, <2>1, <2>2
  <1>7. QED
    BY <1>1, <1>2, <1>3, <1>6 DEF IndexInv

\* A removal that succeeds takes the entry away.
LEMMA RemoveFacts ==
    ASSUME IndexInv, NEW i \in Indexes, NEW k \in Keys, IndexRemove(i, k)
    PROVE  /\ IndexInv' /\ errors' = errors /\ space' = space
           /\ index' = [index EXCEPT ![i] = @ \ {<<k, call.rid>>}]
  <1>1. /\ index' = [index EXCEPT ![i] = @ \ {<<k, call.rid>>}]
        /\ space' = space /\ errors' = errors
    BY DEF IndexRemove
  <1>2. index' \in [Indexes -> SUBSET (Keys \X RecordIDs)]
    BY <1>1 DEF IndexInv
  <1>3. /\ IsFiniteSet(index[i] \ {<<k, call.rid>>})
        /\ Cardinality(index[i] \ {<<k, call.rid>>}) <= Cardinality(index[i])
        /\ Cardinality(index[i]) \in Nat
        /\ Cardinality(index[i] \ {<<k, call.rid>>}) \in Nat
    BY FS_Subset, FS_CardinalityType DEF IndexInv
  <1>4. \A j \in Indexes : IsFiniteSet(index'[j]) /\ Cardinality(index'[j]) <= space'[j]
    <2>1. ASSUME NEW j \in Indexes, j # i
          PROVE  IsFiniteSet(index'[j]) /\ Cardinality(index'[j]) <= space'[j]
      BY <1>1, <2>1 DEF IndexInv
    <2>2. IsFiniteSet(index'[i]) /\ Cardinality(index'[i]) <= space'[i]
      <3>1. index'[i] = index[i] \ {<<k, call.rid>>}
        BY <1>1 DEF IndexInv
      <3>2. QED
        BY <1>1, <1>3, <3>1 DEF IndexInv
    <2>3. QED
      BY <2>1, <2>2
  <1>5. QED
    BY <1>1, <1>2, <1>4 DEF IndexInv

\* A call that fails changes no index, and counts as an error, unless the
\* entry to be removed was not there.
LEMMA FailFacts ==
    ASSUME TypeInv, NEW i \in Indexes
    PROVE  /\ IndexInsertFails(i) =>
                 /\ UNCHANGED <<index, space>> /\ errors' \in Nat /\ errors' >= 1
                 /\ errors' = errors + 1 \/ NeedsPage(i)
                 /\ errors' >= errors
           /\ \A k : IndexRemoveFails(i, k) =>
                 /\ UNCHANGED <<index, space>> /\ errors' \in Nat
                 /\ errors' = errors + 1 \/ (~Present(i, k) /\ errors' = errors)
  BY DEF IndexInsertFails, IndexRemoveFails, IOError, TypeInv

-----------------------------------------------------------------------------
(* A statement that goes on.                                               *)

\* Facts about the statement in progress, collected once.
LEMMA InProgress ==
    ASSUME SInv, call.op \in Ops
    PROVE  /\ call \in Statements /\ call # Idle
           /\ call.rid \in RecordIDs /\ call.old \in Records /\ call.new \in Records
           /\ call.pos \in 0 .. NumIndexes + 1 /\ NumIndexes \in Nat
           /\ ShapeInv /\ RowInv /\ RoomInv /\ EntriesInv
  <1>1. call # Idle
    BY CallFacts DEF Ops, InsertOps, UpdateOps, DeleteOps
  <1>2. call \in Statements /\ ShapeInv /\ RowInv /\ RoomInv /\ EntriesInv
    BY <1>1 DEF SInv, TypeInv
  <1>3. QED
    BY <1>1, <1>2, TableAssumption DEF Statements

(* A statement goes on as op at position pos, with e errors.               *)
Moves(op, pos, e) ==
    /\ Goto(op, pos) /\ UNCHANGED <<heap, before, full>>
    /\ call.op \in Ops /\ op \in Ops /\ pos \in 0 .. NumIndexes + 1
    /\ op \in InsertOps <=> call.op \in InsertOps
    /\ op \in DeleteOps <=> call.op \in DeleteOps
    /\ errors' = e /\ e \in Nat /\ e >= errors
    /\ Shape(op, pos, e)

\* Only op and position of the statement change.
LEMMA MovesFacts ==
    ASSUME SInv, NEW op, NEW pos, NEW e, Moves(op, pos, e)
    PROVE  /\ call' \in Statements /\ call'.op = op /\ call'.pos = pos
           /\ call'.rid = call.rid /\ call'.old = call.old /\ call'.new = call.new
           /\ ShapeInv' /\ \A i : (MineNow(i))' = Mine(op, pos, i)
           /\ result' = result
  <1>1. call \in Statements /\ call' = [call EXCEPT !.op = op, !.pos = pos] /\ result' = result
    BY InProgress DEF Moves, Goto
  <1>2. /\ call' \in Statements /\ call'.op = op /\ call'.pos = pos
        /\ call'.rid = call.rid /\ call'.old = call.old /\ call'.new = call.new
    BY <1>1 DEF Moves, Statements
  <1>3. ShapeInv'
    BY <1>2 DEF ShapeInv, Shape, Moves
  <1>4. \A i : (MineNow(i))' = Mine(op, pos, i)
    BY <1>2 DEF MineNow, Mine
  <1>5. QED
    BY <1>1, <1>2, <1>3, <1>4

\* A step that moves on, keeping rows and room, has to show the types of the
\* indexes and the entries.
LEMMA GoOn ==
    ASSUME SInv, NEW op, NEW pos, NEW e, Moves(op, pos, e),
           IndexInv', \A i \in Indexes : space'[i] >= space[i],
           EntriesInv'
    PROVE  SInv'
  <1>1. /\ call' \in Statements /\ call'.op = op /\ call'.rid = call.rid
        /\ call'.old = call.old /\ call'.new = call.new /\ result' = result
        /\ ShapeInv' /\ call.op \in Ops
    BY MovesFacts DEF Moves
  <1>2. TypeInv'
    BY <1>1 DEF SInv, TypeInv, Moves
  <1>3. RowInv'
    BY <1>1, InProgress DEF RowInv, Moves
  <1>4. RoomInv'
    <2>1. SUFFICES ASSUME call.op \notin InsertOps, NEW i \in Indexes, call.old[i] # NULL
                   PROVE  /\ IsFiniteSet(EntriesBut(before, call.rid, i))
                          /\ space'[i] > Cardinality(EntriesBut(before, call.rid, i))
      BY <1>1 DEF RoomInv, Moves
    <2>2. /\ IsFiniteSet(EntriesBut(before, call.rid, i))
          /\ space[i] > Cardinality(EntriesBut(before, call.rid, i))
      BY <1>1, <2>1, InProgress DEF RoomInv
    <2>3. Cardinality(EntriesBut(before, call.rid, i)) \in Nat
      BY <2>2, FS_CardinalityType
    <2>4. space[i] \in Nat /\ space'[i] \in Nat /\ space'[i] >= space[i]
      BY DEF SInv, TypeInv, IndexInv
    <2>5. QED
      BY <2>2, <2>3, <2>4
  <1>5. call' # Idle
    BY <1>1, CallFacts
  <1>6. QED
    BY <1>1, <1>2, <1>3, <1>4, <1>5 DEF SInv

\* An entry that is put back finds room.
LEMMA PutBackHasRoom ==
    ASSUME SInv, call.op \in Ops, call.op \notin InsertOps, errors <= 1,
           NEW i \in Indexes, MineNow(i) = NULL, call.old[i] # NULL
    PROVE  ~NeedsPage(i)
  <1>1. index[i] = EntriesBut(before, call.rid, i)
    BY InProgress DEF EntriesInv, EntryOf
  <1>2. space[i] > Cardinality(index[i]) /\ space[i] \in Nat
    BY <1>1, InProgress DEF RoomInv, SInv, TypeInv, IndexInv
  <1>3. IsFiniteSet(index[i])
    BY DEF SInv, TypeInv, IndexInv
  <1>4. QED
    BY <1>2, <1>3, FS_CardinalityType DEF NeedsPage

\* The entry of the row in hand is in the index, when it should be.
LEMMA MineIsPresent ==
    ASSUME SInv, call.op \in Ops, errors <= 1, NEW i \in Indexes, MineNow(i) # NULL
    PROVE  Present(i, MineNow(i))
  BY InProgress DEF EntriesInv, EntryOf, Present

\* What a step does to index i: the row in hand has key m in it afterwards, and
\* the other indexes stay as they are.
Becomes(i, m) ==
    /\ index'[i] = EntriesBut(before, call.rid, i) \cup EntryOf(call.rid, m)
    /\ \A j \in Indexes \ {i} : index'[j] = index[j]

\* Inserting and removing, as the row in hand sees them.
LEMMA EntryCalls ==
    ASSUME SInv, call.op \in Ops, errors <= 1, NEW i \in Indexes, NEW k \in Keys
    PROVE  /\ IndexInsert(i, k) /\ MineNow(i) = NULL => Becomes(i, k)
           /\ IndexRemove(i, k) /\ MineNow(i) = k => Becomes(i, NULL)
  <1>1. /\ index[i] = EntriesBut(before, call.rid, i) \cup EntryOf(call.rid, MineNow(i))
        /\ call.rid \in RecordIDs /\ k # NULL
        /\ index \in [Indexes -> SUBSET (Keys \X RecordIDs)]
        /\ before \in [RecordIDs -> Records \cup {None}]
    BY InProgress, RecordFacts DEF EntriesInv, SInv, TypeInv, IndexInv
  <1>2. <<k, call.rid>> \notin EntriesBut(before, call.rid, i)
    BY <1>1, OtherEntries
  <1>3. ASSUME IndexInsert(i, k), MineNow(i) = NULL PROVE Becomes(i, k)
    <2>1. index' = [index EXCEPT ![i] = @ \cup {<<k, call.rid>>}]
      BY <1>3 DEF IndexInsert
    <2>2. QED
      BY <1>1, <1>3, <2>1 DEF Becomes, EntryOf
  <1>4. ASSUME IndexRemove(i, k), MineNow(i) = k PROVE Becomes(i, NULL)
    <2>1. index' = [index EXCEPT ![i] = @ \ {<<k, call.rid>>}]
      BY <1>4 DEF IndexRemove
    <2>2. QED
      BY <1>1, <1>2, <1>4, <2>1 DEF Becomes, EntryOf
  <1>5. QED
    BY <1>3, <1>4

\* No index was called, or the call has failed.
LEMMA NothingDone ==
    ASSUME SInv, NEW op, NEW pos, NEW e, Moves(op, pos, e),
           UNCHANGED <<index, space>>,
           e <= 1 => \A j \in Indexes : Mine(op, pos, j) = MineNow(j)
    PROVE  SInv'
  <1>1. IndexInv' /\ \A j \in Indexes : space'[j] >= space[j]
    BY DEF SInv, TypeInv, IndexInv
  <1>2. call'.rid = call.rid /\ \A j : (MineNow(j))' = Mine(op, pos, j)
    BY MovesFacts
  <1>3. errors' <= 1 => errors <= 1
    BY DEF Moves, SInv, TypeInv
  <1>4. EntriesInv'
    BY <1>2, <1>3, InProgress DEF EntriesInv, Moves
  <1>5. QED
    BY <1>1, <1>4, GoOn

\* An entry was inserted or removed; it is key m that the row has now.
LEMMA EntryChanged ==
    ASSUME SInv, NEW op, NEW pos, Moves(op, pos, errors),
           NEW i \in Indexes, NEW m,
           IndexInv', \A j \in Indexes : space'[j] >= space[j],
           errors <= 1 => Becomes(i, m),
           Mine(op, pos, i) = m,
           \A j \in Indexes \ {i} : Mine(op, pos, j) = MineNow(j)
    PROVE  SInv'
  <1>1. call'.rid = call.rid /\ \A j : (MineNow(j))' = Mine(op, pos, j)
    BY MovesFacts
  <1>2. EntriesInv'
    <2>1. SUFFICES ASSUME errors <= 1, NEW j \in Indexes
                   PROVE  index'[j] = EntriesBut(before, call.rid, j)
                                        \cup EntryOf(call.rid, Mine(op, pos, j))
      BY <1>1 DEF EntriesInv, Moves
    <2>2. CASE j = i
      BY <2>1, <2>2 DEF Becomes
    <2>3. CASE j # i
      BY <2>1, <2>3, InProgress DEF Becomes, EntriesInv, Moves
    <2>4. QED
      BY <2>2, <2>3
  <1>3. QED
    BY <1>2, GoOn

\* The two successful calls.
LEMMA EntryInserted ==
    ASSUME SInv, NEW op, NEW pos, Moves(op, pos, errors),
           NEW i \in Indexes, NEW k \in Keys, IndexInsert(i, k),
           errors <= 1 => MineNow(i) = NULL, Mine(op, pos, i) = k,
           \A j \in Indexes \ {i} : Mine(op, pos, j) = MineNow(j)
    PROVE  SInv'
  <1>1. IndexInv' /\ \A j \in Indexes : space'[j] >= space[j]
    BY InProgress, InsertFacts DEF Moves, SInv, TypeInv
  <1>2. errors <= 1 => Becomes(i, k)
    BY EntryCalls DEF Moves
  <1>3. QED
    BY <1>1, <1>2, EntryChanged

LEMMA EntryRemoved ==
    ASSUME SInv, NEW op, NEW pos, Moves(op, pos, errors),
           NEW i \in Indexes, NEW k \in Keys, IndexRemove(i, k),
           errors <= 1 => MineNow(i) = k, Mine(op, pos, i) = NULL,
           \A j \in Indexes \ {i} : Mine(op, pos, j) = MineNow(j)
    PROVE  SInv'
  <1>1. IndexInv' /\ \A j \in Indexes : space'[j] >= space[j]
    BY RemoveFacts DEF SInv, TypeInv, IndexInv
  <1>2. errors <= 1 => Becomes(i, NULL)
    BY EntryCalls DEF Moves
  <1>3. QED
    BY <1>1, <1>2, EntryChanged

-----------------------------------------------------------------------------
(* Positions, and the entries they stand for.                              *)

\* Positions of indexes.
LEMMA IndexRange ==
    \A i \in Indexes : /\ i \in Nat /\ NumIndexes \in Nat /\ i <= NumIndexes /\ i >= 1
                       /\ i - 1 \in 0 .. NumIndexes + 1 /\ i + 1 \in 0 .. NumIndexes + 1
                       /\ i \in 0 .. NumIndexes + 1
  BY TableAssumption DEF Indexes

(* From op a statement may go to op2 at pos, with e errors.                *)
Leads(op, op2, pos, e) ==
    /\ op2 \in Ops /\ pos \in 0 .. NumIndexes + 1
    /\ op2 \in InsertOps <=> op \in InsertOps
    /\ op2 \in DeleteOps <=> op \in DeleteOps
    /\ e \in Nat /\ Shape(op2, pos, e)

\* Where INSERT goes.
LEMMA InsertsLead ==
    ASSUME NEW i \in Indexes, NEW e \in Nat
    PROVE  /\ e = 0 => Leads("insert", "insert", i + 1, e)
           /\ e >= 1 => Leads("insert", "undo insert", i - 1, e)
           /\ e >= 1 => Leads("undo insert", "undo insert", i - 1, e)
           /\ e >= 1 => Leads("undo insert", "undo insert", 0, e)
  <1>0. i \in Nat /\ NumIndexes \in Nat /\ i <= NumIndexes /\ i >= 1
        /\ i - 1 \in 0 .. NumIndexes + 1 /\ i + 1 \in 0 .. NumIndexes + 1
        /\ i \in 0 .. NumIndexes + 1 /\ 0 \in 0 .. NumIndexes + 1
    BY IndexRange
  <1>1. e = 0 => Leads("insert", "insert", i + 1, e)
    BY <1>0 DEF Leads, Shape, Ops, InsertOps, UpdateOps, DeleteOps, ForwardOps
  <1>2. e >= 1 => Leads("insert", "undo insert", i - 1, e)
    BY <1>0 DEF Leads, Shape, Ops, InsertOps, UpdateOps, DeleteOps, ForwardOps
  <1>3. e >= 1 => Leads("undo insert", "undo insert", i - 1, e)
    BY <1>0 DEF Leads, Shape, Ops, InsertOps, UpdateOps, DeleteOps, ForwardOps
  <1>4. e >= 1 => Leads("undo insert", "undo insert", 0, e)
    BY <1>0 DEF Leads, Shape, Ops, InsertOps, UpdateOps, DeleteOps, ForwardOps
  <1>5. QED
    BY <1>1, <1>2, <1>3, <1>4

\* Where UPDATE goes.
LEMMA UpdatesLead ==
    ASSUME NEW i \in Indexes, NEW e \in Nat
    PROVE  /\ e = 0 => Leads("update", "update", i + 1, e)
           /\ e = 0 => Leads("update", "update new", i, e)
           /\ e >= 1 => Leads("update", "undo update", i - 1, e)
           /\ e = 0 => Leads("update new", "update", i + 1, e)
           /\ e >= 1 => Leads("update new", "restore old", i, e)
           /\ e >= 1 => Leads("restore old", "undo update", i - 1, e)
           /\ e >= 1 => Leads("undo update", "undo update", i - 1, e)
           /\ e >= 1 => Leads("undo update", "undo update old", i, e)
           /\ e >= 1 => Leads("undo update old", "undo update", i - 1, e)
  <1>0. i \in Nat /\ NumIndexes \in Nat /\ i <= NumIndexes /\ i >= 1
        /\ i - 1 \in 0 .. NumIndexes + 1 /\ i + 1 \in 0 .. NumIndexes + 1
        /\ i \in 0 .. NumIndexes + 1 /\ 0 \in 0 .. NumIndexes + 1
    BY IndexRange
  <1>1. e = 0 => Leads("update", "update", i + 1, e)
    BY <1>0 DEF Leads, Shape, Ops, InsertOps, UpdateOps, DeleteOps, ForwardOps
  <1>2. e = 0 => Leads("update", "update new", i, e)
    BY <1>0 DEF Leads, Shape, Ops, InsertOps, UpdateOps, DeleteOps, ForwardOps
  <1>3. e >= 1 => Leads("update", "undo update", i - 1, e)
    BY <1>0 DEF Leads, Shape, Ops, InsertOps, UpdateOps, DeleteOps, ForwardOps
  <1>4. e = 0 => Leads("update new", "update", i + 1, e)
    BY <1>0 DEF Leads, Shape, Ops, InsertOps, UpdateOps, DeleteOps, ForwardOps
  <1>5. e >= 1 => Leads("update new", "restore old", i, e)
    BY <1>0 DEF Leads, Shape, Ops, InsertOps, UpdateOps, DeleteOps, ForwardOps
  <1>6. e >= 1 => Leads("restore old", "undo update", i - 1, e)
    BY <1>0 DEF Leads, Shape, Ops, InsertOps, UpdateOps, DeleteOps, ForwardOps
  <1>7. e >= 1 => Leads("undo update", "undo update", i - 1, e)
    BY <1>0 DEF Leads, Shape, Ops, InsertOps, UpdateOps, DeleteOps, ForwardOps
  <1>8. e >= 1 => Leads("undo update", "undo update old", i, e)
    BY <1>0 DEF Leads, Shape, Ops, InsertOps, UpdateOps, DeleteOps, ForwardOps
  <1>9. e >= 1 => Leads("undo update old", "undo update", i - 1, e)
    BY <1>0 DEF Leads, Shape, Ops, InsertOps, UpdateOps, DeleteOps, ForwardOps
  <1>10. QED
    BY <1>1, <1>2, <1>3, <1>4, <1>5, <1>6, <1>7, <1>8, <1>9

\* Where DELETE goes.
LEMMA DeletesLead ==
    ASSUME NEW i \in Indexes, NEW e \in Nat
    PROVE  /\ e = 0 => Leads("delete", "delete", i + 1, e)
           /\ e >= 1 => Leads("delete", "undo delete", i - 1, e)
           /\ e >= 1 => Leads("undo delete", "undo delete", i - 1, e)
           /\ e >= 1 => Leads("undo delete", "undo delete", 0, e)
  <1>0. i \in Nat /\ NumIndexes \in Nat /\ i <= NumIndexes /\ i >= 1
        /\ i - 1 \in 0 .. NumIndexes + 1 /\ i + 1 \in 0 .. NumIndexes + 1
        /\ i \in 0 .. NumIndexes + 1 /\ 0 \in 0 .. NumIndexes + 1
    BY IndexRange
  <1>1. e = 0 => Leads("delete", "delete", i + 1, e)
    BY <1>0 DEF Leads, Shape, Ops, InsertOps, UpdateOps, DeleteOps, ForwardOps
  <1>2. e >= 1 => Leads("delete", "undo delete", i - 1, e)
    BY <1>0 DEF Leads, Shape, Ops, InsertOps, UpdateOps, DeleteOps, ForwardOps
  <1>3. e >= 1 => Leads("undo delete", "undo delete", i - 1, e)
    BY <1>0 DEF Leads, Shape, Ops, InsertOps, UpdateOps, DeleteOps, ForwardOps
  <1>4. e >= 1 => Leads("undo delete", "undo delete", 0, e)
    BY <1>0 DEF Leads, Shape, Ops, InsertOps, UpdateOps, DeleteOps, ForwardOps
  <1>5. QED
    BY <1>1, <1>2, <1>3, <1>4

\* The entries of the row in hand around position i of INSERT.
LEMMA InsertsMine ==
    ASSUME NEW i \in Indexes
    PROVE  /\ Mine("insert", i, i) = NULL
           /\ Mine("insert", i + 1, i) = call.new[i]
           /\ \A j \in Indexes \ {i} : Mine("insert", i + 1, j) = Mine("insert", i, j)
           /\ \A j \in Indexes : Mine("undo insert", i - 1, j) = Mine("insert", i, j)
           /\ Mine("undo insert", i, i) = call.new[i]
           /\ Mine("undo insert", i - 1, i) = NULL
           /\ \A j \in Indexes \ {i} : Mine("undo insert", i - 1, j) = Mine("undo insert", i, j)
  <1>0. i \in Int /\ \A j \in Indexes : j \in Int
    BY TableAssumption DEF Indexes
  <1>1. Mine("insert", i, i) = NULL
    BY <1>0 DEF Mine, InsertOps, DeleteOps
  <1>2. Mine("insert", i + 1, i) = call.new[i]
    BY <1>0 DEF Mine, InsertOps, DeleteOps
  <1>3. \A j \in Indexes \ {i} : Mine("insert", i + 1, j) = Mine("insert", i, j)
    BY <1>0 DEF Mine, InsertOps, DeleteOps
  <1>4. \A j \in Indexes : Mine("undo insert", i - 1, j) = Mine("insert", i, j)
    <2>1. ASSUME NEW j \in Indexes PROVE Mine("undo insert", i - 1, j) = Mine("insert", i, j)
      <3>1. i \in Int /\ j \in Int
        BY <1>0
      <3>2. CASE j < i
        BY <3>1, <3>2 DEF Mine, InsertOps, DeleteOps
      <3>3. CASE j = i
        BY <3>1, <3>3 DEF Mine, InsertOps, DeleteOps
      <3>4. CASE j > i
        BY <3>1, <3>4 DEF Mine, InsertOps, DeleteOps
      <3>5. j < i \/ j = i \/ j > i
        BY <3>1
      <3>6. QED
        BY <3>2, <3>3, <3>4, <3>5
    <2>2. QED
      BY <2>1
  <1>5. Mine("undo insert", i, i) = call.new[i]
    BY <1>0 DEF Mine, InsertOps, DeleteOps
  <1>6. Mine("undo insert", i - 1, i) = NULL
    BY <1>0 DEF Mine, InsertOps, DeleteOps
  <1>7. \A j \in Indexes \ {i} : Mine("undo insert", i - 1, j) = Mine("undo insert", i, j)
    BY <1>0 DEF Mine, InsertOps, DeleteOps
  <1>8. QED
    BY <1>1, <1>2, <1>3, <1>4, <1>5, <1>6, <1>7

\* The entries of the row in hand around position i of UPDATE.
LEMMA UpdatesMine ==
    ASSUME NEW i \in Indexes
    PROVE  /\ Mine("update", i, i) = call.old[i]
           /\ Mine("update", i + 1, i) = call.new[i]
           /\ Mine("update new", i, i) = NULL
           /\ \A j \in Indexes \ {i} : /\ Mine("update", i + 1, j) = Mine("update", i, j)
                                    /\ Mine("update new", i, j) = Mine("update", i, j)
           /\ \A j \in Indexes : Mine("undo update", i - 1, j) = Mine("update", i, j)
           /\ \A j \in Indexes \ {i} : Mine("update", i + 1, j) = Mine("update new", i, j)
           /\ \A j \in Indexes : Mine("restore old", i, j) = Mine("update new", i, j)
           /\ Mine("restore old", i, i) = NULL
           /\ Mine("undo update", i - 1, i) = call.old[i]
           /\ \A j \in Indexes \ {i} : Mine("undo update", i - 1, j) = Mine("restore old", i, j)
           /\ Mine("undo update", i, i) = call.new[i]
           /\ Mine("undo update old", i, i) = NULL
           /\ \A j \in Indexes \ {i} : /\ Mine("undo update", i - 1, j) = Mine("undo update", i, j)
                                    /\ Mine("undo update old", i, j) = Mine("undo update", i, j)
           /\ \A j \in Indexes \ {i} : Mine("undo update", i - 1, j) = Mine("undo update old", i, j)
  <1>0. i \in Int /\ \A j \in Indexes : j \in Int
    BY TableAssumption DEF Indexes
  <1>1. Mine("update", i, i) = call.old[i]
    BY <1>0 DEF Mine, InsertOps, DeleteOps
  <1>2. Mine("update", i + 1, i) = call.new[i]
    BY <1>0 DEF Mine, InsertOps, DeleteOps
  <1>3. Mine("update new", i, i) = NULL
    BY <1>0 DEF Mine, InsertOps, DeleteOps
  <1>4. \A j \in Indexes \ {i} : /\ Mine("update", i + 1, j) = Mine("update", i, j)
                                    /\ Mine("update new", i, j) = Mine("update", i, j)
    BY <1>0 DEF Mine, InsertOps, DeleteOps
  <1>5. \A j \in Indexes : Mine("undo update", i - 1, j) = Mine("update", i, j)
    <2>1. ASSUME NEW j \in Indexes PROVE Mine("undo update", i - 1, j) = Mine("update", i, j)
      <3>1. i \in Int /\ j \in Int
        BY <1>0
      <3>2. CASE j < i
        BY <3>1, <3>2 DEF Mine, InsertOps, DeleteOps
      <3>3. CASE j = i
        BY <3>1, <3>3 DEF Mine, InsertOps, DeleteOps
      <3>4. CASE j > i
        BY <3>1, <3>4 DEF Mine, InsertOps, DeleteOps
      <3>5. j < i \/ j = i \/ j > i
        BY <3>1
      <3>6. QED
        BY <3>2, <3>3, <3>4, <3>5
    <2>2. QED
      BY <2>1
  <1>6. \A j \in Indexes \ {i} : Mine("update", i + 1, j) = Mine("update new", i, j)
    BY <1>0 DEF Mine, InsertOps, DeleteOps
  <1>7. \A j \in Indexes : Mine("restore old", i, j) = Mine("update new", i, j)
    <2>1. ASSUME NEW j \in Indexes PROVE Mine("restore old", i, j) = Mine("update new", i, j)
      <3>1. i \in Int /\ j \in Int
        BY <1>0
      <3>2. CASE j < i
        BY <3>1, <3>2 DEF Mine, InsertOps, DeleteOps
      <3>3. CASE j = i
        BY <3>1, <3>3 DEF Mine, InsertOps, DeleteOps
      <3>4. CASE j > i
        BY <3>1, <3>4 DEF Mine, InsertOps, DeleteOps
      <3>5. j < i \/ j = i \/ j > i
        BY <3>1
      <3>6. QED
        BY <3>2, <3>3, <3>4, <3>5
    <2>2. QED
      BY <2>1
  <1>8. Mine("restore old", i, i) = NULL
    BY <1>0 DEF Mine, InsertOps, DeleteOps
  <1>9. Mine("undo update", i - 1, i) = call.old[i]
    BY <1>0 DEF Mine, InsertOps, DeleteOps
  <1>10. \A j \in Indexes \ {i} : Mine("undo update", i - 1, j) = Mine("restore old", i, j)
    BY <1>0 DEF Mine, InsertOps, DeleteOps
  <1>11. Mine("undo update", i, i) = call.new[i]
    BY <1>0 DEF Mine, InsertOps, DeleteOps
  <1>12. Mine("undo update old", i, i) = NULL
    BY <1>0 DEF Mine, InsertOps, DeleteOps
  <1>13. \A j \in Indexes \ {i} : /\ Mine("undo update", i - 1, j) = Mine("undo update", i, j)
                                    /\ Mine("undo update old", i, j) = Mine("undo update", i, j)
    BY <1>0 DEF Mine, InsertOps, DeleteOps
  <1>14. \A j \in Indexes \ {i} : Mine("undo update", i - 1, j) = Mine("undo update old", i, j)
    BY <1>0 DEF Mine, InsertOps, DeleteOps
  <1>15. QED
    BY <1>1, <1>2, <1>3, <1>4, <1>5, <1>6, <1>7, <1>8, <1>9, <1>10, <1>11, <1>12, <1>13, <1>14

\* The entries of the row in hand around position i of DELETE.
LEMMA DeletesMine ==
    ASSUME NEW i \in Indexes
    PROVE  /\ Mine("delete", i, i) = call.old[i]
           /\ Mine("delete", i + 1, i) = NULL
           /\ \A j \in Indexes \ {i} : Mine("delete", i + 1, j) = Mine("delete", i, j)
           /\ \A j \in Indexes : Mine("undo delete", i - 1, j) = Mine("delete", i, j)
           /\ Mine("undo delete", i, i) = NULL
           /\ Mine("undo delete", i - 1, i) = call.old[i]
           /\ \A j \in Indexes \ {i} : Mine("undo delete", i - 1, j) = Mine("undo delete", i, j)
  <1>0. i \in Int /\ \A j \in Indexes : j \in Int
    BY TableAssumption DEF Indexes
  <1>1. Mine("delete", i, i) = call.old[i]
    BY <1>0 DEF Mine, InsertOps, DeleteOps
  <1>2. Mine("delete", i + 1, i) = NULL
    BY <1>0 DEF Mine, InsertOps, DeleteOps
  <1>3. \A j \in Indexes \ {i} : Mine("delete", i + 1, j) = Mine("delete", i, j)
    BY <1>0 DEF Mine, InsertOps, DeleteOps
  <1>4. \A j \in Indexes : Mine("undo delete", i - 1, j) = Mine("delete", i, j)
    <2>1. ASSUME NEW j \in Indexes PROVE Mine("undo delete", i - 1, j) = Mine("delete", i, j)
      <3>1. i \in Int /\ j \in Int
        BY <1>0
      <3>2. CASE j < i
        BY <3>1, <3>2 DEF Mine, InsertOps, DeleteOps
      <3>3. CASE j = i
        BY <3>1, <3>3 DEF Mine, InsertOps, DeleteOps
      <3>4. CASE j > i
        BY <3>1, <3>4 DEF Mine, InsertOps, DeleteOps
      <3>5. j < i \/ j = i \/ j > i
        BY <3>1
      <3>6. QED
        BY <3>2, <3>3, <3>4, <3>5
    <2>2. QED
      BY <2>1
  <1>5. Mine("undo delete", i, i) = NULL
    BY <1>0 DEF Mine, InsertOps, DeleteOps
  <1>6. Mine("undo delete", i - 1, i) = call.old[i]
    BY <1>0 DEF Mine, InsertOps, DeleteOps
  <1>7. \A j \in Indexes \ {i} : Mine("undo delete", i - 1, j) = Mine("undo delete", i, j)
    BY <1>0 DEF Mine, InsertOps, DeleteOps
  <1>8. QED
    BY <1>1, <1>2, <1>3, <1>4, <1>5, <1>6, <1>7

-----------------------------------------------------------------------------
(* Calls that fail.                                                        *)

\* A removal that fails, of an entry that must be there: an error.
LEMMA RemoveErrs ==
    ASSUME SInv, call.op \in Ops, NEW i \in Indexes, NEW k \in Keys,
           IndexRemoveFails(i, k), errors <= 1 => MineNow(i) = k, NEW e, e = errors'
    PROVE  /\ UNCHANGED <<index, space>> /\ e \in Nat /\ e >= errors
           /\ errors <= 1 => e = errors + 1
  <1>0. PICK e0 : e0 = errors
    OBVIOUS
  <1>1. /\ UNCHANGED <<index, space>> /\ e \in Nat /\ e0 \in Nat
        /\ e = e0 + 1 \/ (~Present(i, k) /\ e = e0)
    BY <1>0, FailFacts DEF SInv, TypeInv
  <1>2. e0 <= 1 => Present(i, k)
    BY <1>0, MineIsPresent, RecordFacts
  <1>3. e >= e0 /\ (e0 <= 1 => e = e0 + 1)
    BY <1>1, <1>2
  <1>4. QED
    BY <1>0, <1>1, <1>3

\* Putting an entry back fails: an error, as its space was kept.
LEMMA PutBackErrs ==
    ASSUME SInv, call.op \in Ops, call.op \notin InsertOps, NEW i \in Indexes,
           IndexInsertFails(i), errors <= 1 => MineNow(i) = NULL, call.old[i] # NULL,
           NEW e, e = errors'
    PROVE  /\ UNCHANGED <<index, space>> /\ e \in Nat /\ e >= errors
           /\ errors <= 1 => e = errors + 1
  <1>1. /\ UNCHANGED <<index, space>> /\ e \in Nat /\ e >= errors
        /\ e = errors + 1 \/ NeedsPage(i)
    BY FailFacts DEF SInv
  <1>2. QED
    BY <1>1, PutBackHasRoom

\* The position and the keys in hand.
LEMMA KeyFacts ==
    ASSUME SInv, call.op \in Ops, NEW i, i = call.pos, i \in Indexes
    PROVE  /\ NewKey = call.new[i] /\ OldKey = call.old[i]
           /\ NewKey \in Keys \cup {NULL} /\ OldKey \in Keys \cup {NULL}
           /\ errors \in Nat /\ NULL \notin Keys
  <1>1. call.new \in Records /\ call.old \in Records /\ NumIndexes \in Nat
    BY InProgress
  <1>2. NewKey = call.new[i] /\ OldKey = call.old[i]
    BY DEF NewKey, OldKey
  <1>3. call.new[i] \in Keys \cup {NULL} /\ call.old[i] \in Keys \cup {NULL} /\ NULL \notin Keys
    BY <1>1, RecordFacts
  <1>4. errors \in Nat
    BY DEF SInv, TypeInv
  <1>5. QED
    BY <1>2, <1>3, <1>4

\* Going on to a place the statement leads to.
LEMMA Going ==
    ASSUME NEW op, NEW pos, NEW e, call.op \in Ops, Leads(call.op, op, pos, e),
           Goto(op, pos), UNCHANGED <<heap, before, full>>, errors' = e, e >= errors
    PROVE  Moves(op, pos, e)
  BY DEF Moves, Leads

\* ... without an error.
LEMMA GoingWell ==
    ASSUME NEW op, NEW pos, call.op \in Ops, Leads(call.op, op, pos, errors),
           Goto(op, pos), UNCHANGED <<heap, before, full>>, errors' = errors
    PROVE  Moves(op, pos, errors)
  <1>1. errors \in Nat
    BY DEF Leads
  <1>2. errors >= errors
    BY <1>1
  <1>3. QED
    BY <1>2, Going

-----------------------------------------------------------------------------
(* One lemma per action that goes on.                                      *)

\* InsertRecord, index by index.
LEMMA InsertEntryInv ==
    ASSUME SInv, InsertEntry, UNCHANGED <<full, before>>
    PROVE  SInv'
  <1>0. PICK i : i = call.pos
    OBVIOUS
  <1>1. call.op = "insert" /\ call.op \in Ops
    BY DEF InsertEntry, Ops, InsertOps, UpdateOps, DeleteOps
  <1>2. heap' = heap
    BY DEF InsertEntry, NoCall
  <1>3. i \in Indexes
    BY <1>0 DEF InsertEntry
  <1>4. /\ NewKey \in Keys \cup {NULL} /\ NewKey = call.new[i]
        /\ OldKey \in Keys \cup {NULL} /\ OldKey = call.old[i]
        /\ errors \in Nat /\ NULL \notin Keys
    BY <1>0, <1>1, <1>3, KeyFacts
  <1>5. errors = 0
    BY <1>1, InProgress DEF ShapeInv, Shape, ForwardOps
  <1>6. \A j : MineNow(j) = Mine("insert", i, j)
    BY <1>0, <1>1 DEF MineNow
  <1>7. CASE NewKey = NULL /\ NoIndexCall /\ errors' = errors /\ Goto("insert", i + 1)
    <2>1. errors' = errors
      BY <1>7 DEF NoIndexCall, NoCall
    <2>2. Leads(call.op, "insert", i + 1, errors)
      BY <1>1, <1>3, <1>4, <1>5, InsertsLead
    <2>3. Moves("insert", i + 1, errors)
      BY <1>1, <1>2, <1>7, <2>1, <2>2, GoingWell
    <2>4. \A j \in Indexes : Mine("insert", i + 1, j) = MineNow(j)
      <3>1. \A j \in Indexes \ {i} : Mine("insert", i + 1, j) = MineNow(j)
        BY <1>3, <1>6, InsertsMine
      <3>2. Mine("insert", i + 1, i) = NewKey
        BY <1>3, <1>4, InsertsMine
      <3>3. MineNow(i) = NULL
        BY <1>3, <1>4, <1>6, InsertsMine
      <3>4. QED
        BY <1>7, <3>1, <3>2, <3>3
    <2>5. QED
      BY <1>7, <2>3, <2>4, NothingDone DEF NoIndexCall, NoCall
  <1>8. CASE NewKey # NULL /\ IndexInsert(i, NewKey) /\ Goto("insert", i + 1)
    <2>1. errors' = errors
      BY <1>8 DEF IndexInsert
    <2>2. Leads(call.op, "insert", i + 1, errors)
      BY <1>1, <1>3, <1>4, <1>5, InsertsLead
    <2>3. Moves("insert", i + 1, errors)
      BY <1>1, <1>2, <1>8, <2>1, <2>2, GoingWell
    <2>4. MineNow(i) = NULL /\ \A j \in Indexes \ {i} : Mine("insert", i + 1, j) = MineNow(j)
      BY <1>3, <1>6, InsertsMine
    <2>5. Mine("insert", i + 1, i) = NewKey
      BY <1>3, <1>4, InsertsMine
    <2>6. NewKey \in Keys /\ IndexInsert(i, NewKey)
      BY <1>4, <1>8
    <2>7. QED
      BY <1>3, <2>3, <2>4, <2>5, <2>6, EntryInserted
  <1>9. CASE NewKey # NULL /\ IndexInsertFails(i) /\ Goto("undo insert", i - 1)
    <2>1. PICK e : e = errors'
      OBVIOUS
    <2>2. UNCHANGED <<index, space>> /\ e \in Nat /\ e >= 1 /\ e >= errors
      BY <1>3, <1>9, <2>1, FailFacts DEF SInv
    <2>3. e >= 1
      BY <1>4, <1>5, <2>2
    <2>4. Leads(call.op, "undo insert", i - 1, e)
      BY <1>1, <1>3, <2>2, <2>3, InsertsLead
    <2>5. Moves("undo insert", i - 1, e)
      BY <1>1, <1>2, <1>9, <2>1, <2>2, <2>4, Going
    <2>6. \A j \in Indexes : Mine("undo insert", i - 1, j) = MineNow(j)
      BY <1>3, <1>6, InsertsMine
    <2>7. QED
      BY <2>2, <2>5, <2>6, NothingDone
  <1>10. QED
    BY <1>0, <1>7, <1>8, <1>9 DEF InsertEntry

\* RollbackInsertedIndexEntries.
LEMMA UndoInsertEntryInv ==
    ASSUME SInv, UndoInsertEntry, UNCHANGED <<full, before>>
    PROVE  SInv'
  <1>0. PICK i : i = call.pos
    OBVIOUS
  <1>1. call.op = "undo insert" /\ call.op \in Ops
    BY DEF UndoInsertEntry, Ops, InsertOps, UpdateOps, DeleteOps
  <1>2. heap' = heap
    BY DEF UndoInsertEntry, NoCall
  <1>3. i \in Indexes
    <2>1. i > 0
      BY <1>0 DEF UndoInsertEntry
    <2>2. i <= NumIndexes /\ i \in 0 .. NumIndexes + 1 /\ NumIndexes \in Nat
      BY <1>0, <1>1, InProgress DEF ShapeInv, Shape
    <2>3. QED
      BY <2>1, <2>2 DEF Indexes
  <1>4. /\ NewKey \in Keys \cup {NULL} /\ NewKey = call.new[i]
        /\ OldKey \in Keys \cup {NULL} /\ OldKey = call.old[i]
        /\ errors \in Nat /\ NULL \notin Keys
    BY <1>0, <1>1, <1>3, KeyFacts
  <1>5. errors >= 1
    BY <1>1, InProgress DEF ShapeInv, Shape, ForwardOps
  <1>6. \A j : MineNow(j) = Mine("undo insert", i, j)
    BY <1>0, <1>1 DEF MineNow
  <1>7. CASE NewKey = NULL /\ NoIndexCall /\ errors' = errors /\ Goto("undo insert", i - 1)
    <2>1. errors' = errors
      BY <1>7 DEF NoIndexCall, NoCall
    <2>2. Leads(call.op, "undo insert", i - 1, errors)
      BY <1>1, <1>3, <1>4, <1>5, InsertsLead
    <2>3. Moves("undo insert", i - 1, errors)
      BY <1>1, <1>2, <1>7, <2>1, <2>2, GoingWell
    <2>4. \A j \in Indexes : Mine("undo insert", i - 1, j) = MineNow(j)
      <3>1. \A j \in Indexes \ {i} : Mine("undo insert", i - 1, j) = MineNow(j)
        BY <1>3, <1>6, InsertsMine
      <3>2. Mine("undo insert", i - 1, i) = NULL
        BY <1>3, <1>4, InsertsMine
      <3>3. MineNow(i) = NewKey
        BY <1>3, <1>4, <1>6, InsertsMine
      <3>4. QED
        BY <1>7, <3>1, <3>2, <3>3
    <2>5. QED
      BY <1>7, <2>3, <2>4, NothingDone DEF NoIndexCall, NoCall
  <1>8. CASE NewKey # NULL /\ IndexRemove(i, NewKey) /\ Goto("undo insert", i - 1)
    <2>1. errors' = errors
      BY <1>8 DEF IndexRemove
    <2>2. Leads(call.op, "undo insert", i - 1, errors)
      BY <1>1, <1>3, <1>4, <1>5, InsertsLead
    <2>3. Moves("undo insert", i - 1, errors)
      BY <1>1, <1>2, <1>8, <2>1, <2>2, GoingWell
    <2>4. Mine("undo insert", i - 1, i) = NULL /\ \A j \in Indexes \ {i} : Mine("undo insert", i - 1, j) = MineNow(j)
      BY <1>3, <1>6, InsertsMine
    <2>5. MineNow(i) = NewKey
      BY <1>3, <1>4, <1>6, InsertsMine
    <2>6. NewKey \in Keys /\ IndexRemove(i, NewKey)
      BY <1>4, <1>8
    <2>7. QED
      BY <1>3, <2>3, <2>4, <2>5, <2>6, EntryRemoved
  <1>9. CASE NewKey # NULL /\ IndexRemoveFails(i, NewKey) /\ Goto("undo insert", i - 1)
    <2>1. PICK e : e = errors'
      OBVIOUS
    <2>2. /\ UNCHANGED <<index, space>> /\ e \in Nat /\ e >= errors
          /\ errors <= 1 => e = errors + 1
      <3>1. MineNow(i) = NewKey
        BY <1>3, <1>4, <1>6, InsertsMine
      <3>2. QED
        BY <1>1, <1>3, <1>4, <1>9, <2>1, <3>1, RemoveErrs
    <2>3. e >= 1
      BY <1>4, <1>5, <2>2
    <2>4. Leads(call.op, "undo insert", i - 1, e)
      BY <1>1, <1>3, <2>2, <2>3, InsertsLead
    <2>5. Moves("undo insert", i - 1, e)
      BY <1>1, <1>2, <1>9, <2>1, <2>2, <2>4, Going
    <2>6. ~ (e <= 1)
      BY <1>4, <1>5, <2>2
    <2>7. QED
      BY <2>2, <2>5, <2>6, NothingDone
  <1>10. CASE NewKey # NULL /\ IndexRemoveFails(i, NewKey) /\ Goto("undo insert", 0)
    <2>1. PICK e : e = errors'
      OBVIOUS
    <2>2. /\ UNCHANGED <<index, space>> /\ e \in Nat /\ e >= errors
          /\ errors <= 1 => e = errors + 1
      <3>1. MineNow(i) = NewKey
        BY <1>3, <1>4, <1>6, InsertsMine
      <3>2. QED
        BY <1>1, <1>3, <1>4, <1>10, <2>1, <3>1, RemoveErrs
    <2>3. e >= 1
      BY <1>4, <1>5, <2>2
    <2>4. Leads(call.op, "undo insert", 0, e)
      BY <1>1, <1>3, <2>2, <2>3, InsertsLead
    <2>5. Moves("undo insert", 0, e)
      BY <1>1, <1>2, <1>10, <2>1, <2>2, <2>4, Going
    <2>6. ~ (e <= 1)
      BY <1>4, <1>5, <2>2
    <2>7. QED
      BY <2>2, <2>5, <2>6, NothingDone
  <1>11. QED
    BY <1>0, <1>7, <1>8, <1>9, <1>10 DEF UndoInsertEntry

\* An index whose key does not change is left alone.
LEMMA UpdateSkipsInv ==
    ASSUME SInv, UpdateSkips, UNCHANGED <<full, before>>
    PROVE  SInv'
  <1>0. PICK i : i = call.pos
    OBVIOUS
  <1>1. call.op = "update" /\ call.op \in Ops
    BY DEF UpdateSkips, Ops, InsertOps, UpdateOps, DeleteOps
  <1>2. heap' = heap
    BY DEF UpdateSkips, NoCall
  <1>3. i \in Indexes
    BY <1>0 DEF UpdateSkips
  <1>4. /\ NewKey \in Keys \cup {NULL} /\ NewKey = call.new[i]
        /\ OldKey \in Keys \cup {NULL} /\ OldKey = call.old[i]
        /\ errors \in Nat /\ NULL \notin Keys
    BY <1>0, <1>1, <1>3, KeyFacts
  <1>5. errors = 0
    BY <1>1, InProgress DEF ShapeInv, Shape, ForwardOps
  <1>6. \A j : MineNow(j) = Mine("update", i, j)
    BY <1>0, <1>1 DEF MineNow
  <1>7. CASE OldKey = NewKey /\ NoCall /\ Goto("update", i + 1)
    <2>1. errors' = errors
      BY <1>7 DEF NoIndexCall, NoCall
    <2>2. Leads(call.op, "update", i + 1, errors)
      BY <1>1, <1>3, <1>4, <1>5, UpdatesLead
    <2>3. Moves("update", i + 1, errors)
      BY <1>1, <1>2, <1>7, <2>1, <2>2, GoingWell
    <2>4. \A j \in Indexes : Mine("update", i + 1, j) = MineNow(j)
      <3>1. \A j \in Indexes \ {i} : Mine("update", i + 1, j) = MineNow(j)
        BY <1>3, <1>6, UpdatesMine
      <3>2. Mine("update", i + 1, i) = NewKey
        BY <1>3, <1>4, UpdatesMine
      <3>3. MineNow(i) = OldKey
        BY <1>3, <1>4, <1>6, UpdatesMine
      <3>4. QED
        BY <1>7, <3>1, <3>2, <3>3
    <2>5. QED
      BY <1>7, <2>3, <2>4, NothingDone DEF NoIndexCall, NoCall
  <1>8. QED
    BY <1>0, <1>7 DEF UpdateSkips

\* UpdateRecord removes the old entry.
LEMMA UpdateRemovesOldInv ==
    ASSUME SInv, UpdateRemovesOld, UNCHANGED <<full, before>>
    PROVE  SInv'
  <1>0. PICK i : i = call.pos
    OBVIOUS
  <1>1. call.op = "update" /\ call.op \in Ops
    BY DEF UpdateRemovesOld, Ops, InsertOps, UpdateOps, DeleteOps
  <1>2. heap' = heap
    BY DEF UpdateRemovesOld, NoCall
  <1>3. i \in Indexes
    BY <1>0 DEF UpdateRemovesOld
  <1>4. /\ NewKey \in Keys \cup {NULL} /\ NewKey = call.new[i]
        /\ OldKey \in Keys \cup {NULL} /\ OldKey = call.old[i]
        /\ errors \in Nat /\ NULL \notin Keys
    BY <1>0, <1>1, <1>3, KeyFacts
  <1>5. errors = 0
    BY <1>1, InProgress DEF ShapeInv, Shape, ForwardOps
  <1>6. \A j : MineNow(j) = Mine("update", i, j)
    BY <1>0, <1>1 DEF MineNow
  <1>7. CASE OldKey = NULL /\ NoIndexCall /\ errors' = errors /\ Goto("update new", i)
    <2>1. errors' = errors
      BY <1>7 DEF NoIndexCall, NoCall
    <2>2. Leads(call.op, "update new", i, errors)
      BY <1>1, <1>3, <1>4, <1>5, UpdatesLead
    <2>3. Moves("update new", i, errors)
      BY <1>1, <1>2, <1>7, <2>1, <2>2, GoingWell
    <2>4. \A j \in Indexes : Mine("update new", i, j) = MineNow(j)
      <3>1. \A j \in Indexes \ {i} : Mine("update new", i, j) = MineNow(j)
        BY <1>3, <1>6, UpdatesMine
      <3>2. Mine("update new", i, i) = NULL
        BY <1>3, <1>4, UpdatesMine
      <3>3. MineNow(i) = OldKey
        BY <1>3, <1>4, <1>6, UpdatesMine
      <3>4. QED
        BY <1>7, <3>1, <3>2, <3>3
    <2>5. QED
      BY <1>7, <2>3, <2>4, NothingDone DEF NoIndexCall, NoCall
  <1>8. CASE OldKey # NULL /\ IndexRemove(i, OldKey) /\ Goto("update new", i)
    <2>1. errors' = errors
      BY <1>8 DEF IndexRemove
    <2>2. Leads(call.op, "update new", i, errors)
      BY <1>1, <1>3, <1>4, <1>5, UpdatesLead
    <2>3. Moves("update new", i, errors)
      BY <1>1, <1>2, <1>8, <2>1, <2>2, GoingWell
    <2>4. Mine("update new", i, i) = NULL /\ \A j \in Indexes \ {i} : Mine("update new", i, j) = MineNow(j)
      BY <1>3, <1>6, UpdatesMine
    <2>5. MineNow(i) = OldKey
      BY <1>3, <1>4, <1>6, UpdatesMine
    <2>6. OldKey \in Keys /\ IndexRemove(i, OldKey)
      BY <1>4, <1>8
    <2>7. QED
      BY <1>3, <2>3, <2>4, <2>5, <2>6, EntryRemoved
  <1>9. CASE OldKey # NULL /\ IndexRemoveFails(i, OldKey) /\ Goto("undo update", i - 1)
    <2>1. PICK e : e = errors'
      OBVIOUS
    <2>2. /\ UNCHANGED <<index, space>> /\ e \in Nat /\ e >= errors
          /\ errors <= 1 => e = errors + 1
      <3>1. MineNow(i) = OldKey
        BY <1>3, <1>4, <1>6, UpdatesMine
      <3>2. QED
        BY <1>1, <1>3, <1>4, <1>9, <2>1, <3>1, RemoveErrs
    <2>3. e >= 1
      BY <1>4, <1>5, <2>2
    <2>4. Leads(call.op, "undo update", i - 1, e)
      BY <1>1, <1>3, <2>2, <2>3, UpdatesLead
    <2>5. Moves("undo update", i - 1, e)
      BY <1>1, <1>2, <1>9, <2>1, <2>2, <2>4, Going
    <2>6. \A j \in Indexes : Mine("undo update", i - 1, j) = MineNow(j)
      BY <1>3, <1>6, UpdatesMine
    <2>7. QED
      BY <2>2, <2>5, <2>6, NothingDone
  <1>10. QED
    BY <1>0, <1>7, <1>8, <1>9 DEF UpdateRemovesOld

\* UpdateRecord inserts the new entry.
LEMMA UpdateInsertsNewInv ==
    ASSUME SInv, UpdateInsertsNew, UNCHANGED <<full, before>>
    PROVE  SInv'
  <1>0. PICK i : i = call.pos
    OBVIOUS
  <1>1. call.op = "update new" /\ call.op \in Ops
    BY DEF UpdateInsertsNew, Ops, InsertOps, UpdateOps, DeleteOps
  <1>2. heap' = heap
    BY DEF UpdateInsertsNew, NoCall
  <1>3. i \in Indexes
    BY <1>0, <1>1, InProgress DEF ShapeInv, Shape
  <1>4. /\ NewKey \in Keys \cup {NULL} /\ NewKey = call.new[i]
        /\ OldKey \in Keys \cup {NULL} /\ OldKey = call.old[i]
        /\ errors \in Nat /\ NULL \notin Keys
    BY <1>0, <1>1, <1>3, KeyFacts
  <1>5. errors = 0
    BY <1>1, InProgress DEF ShapeInv, Shape, ForwardOps
  <1>6. \A j : MineNow(j) = Mine("update new", i, j)
    BY <1>0, <1>1 DEF MineNow
  <1>7. CASE NewKey = NULL /\ NoIndexCall /\ errors' = errors /\ Goto("update", i + 1)
    <2>1. errors' = errors
      BY <1>7 DEF NoIndexCall, NoCall
    <2>2. Leads(call.op, "update", i + 1, errors)
      BY <1>1, <1>3, <1>4, <1>5, UpdatesLead
    <2>3. Moves("update", i + 1, errors)
      BY <1>1, <1>2, <1>7, <2>1, <2>2, GoingWell
    <2>4. \A j \in Indexes : Mine("update", i + 1, j) = MineNow(j)
      <3>1. \A j \in Indexes \ {i} : Mine("update", i + 1, j) = MineNow(j)
        BY <1>3, <1>6, UpdatesMine
      <3>2. Mine("update", i + 1, i) = NewKey
        BY <1>3, <1>4, UpdatesMine
      <3>3. MineNow(i) = NULL
        BY <1>3, <1>4, <1>6, UpdatesMine
      <3>4. QED
        BY <1>7, <3>1, <3>2, <3>3
    <2>5. QED
      BY <1>7, <2>3, <2>4, NothingDone DEF NoIndexCall, NoCall
  <1>8. CASE NewKey # NULL /\ IndexInsert(i, NewKey) /\ Goto("update", i + 1)
    <2>1. errors' = errors
      BY <1>8 DEF IndexInsert
    <2>2. Leads(call.op, "update", i + 1, errors)
      BY <1>1, <1>3, <1>4, <1>5, UpdatesLead
    <2>3. Moves("update", i + 1, errors)
      BY <1>1, <1>2, <1>8, <2>1, <2>2, GoingWell
    <2>4. MineNow(i) = NULL /\ \A j \in Indexes \ {i} : Mine("update", i + 1, j) = MineNow(j)
      BY <1>3, <1>6, UpdatesMine
    <2>5. Mine("update", i + 1, i) = NewKey
      BY <1>3, <1>4, UpdatesMine
    <2>6. NewKey \in Keys /\ IndexInsert(i, NewKey)
      BY <1>4, <1>8
    <2>7. QED
      BY <1>3, <2>3, <2>4, <2>5, <2>6, EntryInserted
  <1>9. CASE NewKey # NULL /\ IndexInsertFails(i) /\ Goto("restore old", i)
    <2>1. PICK e : e = errors'
      OBVIOUS
    <2>2. UNCHANGED <<index, space>> /\ e \in Nat /\ e >= 1 /\ e >= errors
      BY <1>3, <1>9, <2>1, FailFacts DEF SInv
    <2>3. e >= 1
      BY <1>4, <1>5, <2>2
    <2>4. Leads(call.op, "restore old", i, e)
      BY <1>1, <1>3, <2>2, <2>3, UpdatesLead
    <2>5. Moves("restore old", i, e)
      BY <1>1, <1>2, <1>9, <2>1, <2>2, <2>4, Going
    <2>6. \A j \in Indexes : Mine("restore old", i, j) = MineNow(j)
      BY <1>3, <1>6, UpdatesMine
    <2>7. QED
      BY <2>2, <2>5, <2>6, NothingDone
  <1>10. QED
    BY <1>0, <1>7, <1>8, <1>9 DEF UpdateInsertsNew

\* The removal of the position in hand is undone.
LEMMA UpdateRestoresOldInv ==
    ASSUME SInv, UpdateRestoresOld, UNCHANGED <<full, before>>
    PROVE  SInv'
  <1>0. PICK i : i = call.pos
    OBVIOUS
  <1>1. call.op = "restore old" /\ call.op \in Ops
    BY DEF UpdateRestoresOld, Ops, InsertOps, UpdateOps, DeleteOps
  <1>2. heap' = heap
    BY DEF UpdateRestoresOld, NoCall
  <1>3. i \in Indexes
    BY <1>0, <1>1, InProgress DEF ShapeInv, Shape
  <1>4. /\ NewKey \in Keys \cup {NULL} /\ NewKey = call.new[i]
        /\ OldKey \in Keys \cup {NULL} /\ OldKey = call.old[i]
        /\ errors \in Nat /\ NULL \notin Keys
    BY <1>0, <1>1, <1>3, KeyFacts
  <1>5. errors >= 1
    BY <1>1, InProgress DEF ShapeInv, Shape, ForwardOps
  <1>6. \A j : MineNow(j) = Mine("restore old", i, j)
    BY <1>0, <1>1 DEF MineNow
  <1>7. CASE OldKey = NULL /\ NoIndexCall /\ errors' = errors /\ Goto("undo update", i - 1)
    <2>1. errors' = errors
      BY <1>7 DEF NoIndexCall, NoCall
    <2>2. Leads(call.op, "undo update", i - 1, errors)
      BY <1>1, <1>3, <1>4, <1>5, UpdatesLead
    <2>3. Moves("undo update", i - 1, errors)
      BY <1>1, <1>2, <1>7, <2>1, <2>2, GoingWell
    <2>4. \A j \in Indexes : Mine("undo update", i - 1, j) = MineNow(j)
      <3>1. \A j \in Indexes \ {i} : Mine("undo update", i - 1, j) = MineNow(j)
        BY <1>3, <1>6, UpdatesMine
      <3>2. Mine("undo update", i - 1, i) = OldKey
        BY <1>3, <1>4, UpdatesMine
      <3>3. MineNow(i) = NULL
        BY <1>3, <1>4, <1>6, UpdatesMine
      <3>4. QED
        BY <1>7, <3>1, <3>2, <3>3
    <2>5. QED
      BY <1>7, <2>3, <2>4, NothingDone DEF NoIndexCall, NoCall
  <1>8. CASE OldKey # NULL /\ IndexInsert(i, OldKey) /\ Goto("undo update", i - 1)
    <2>1. errors' = errors
      BY <1>8 DEF IndexInsert
    <2>2. Leads(call.op, "undo update", i - 1, errors)
      BY <1>1, <1>3, <1>4, <1>5, UpdatesLead
    <2>3. Moves("undo update", i - 1, errors)
      BY <1>1, <1>2, <1>8, <2>1, <2>2, GoingWell
    <2>4. MineNow(i) = NULL /\ \A j \in Indexes \ {i} : Mine("undo update", i - 1, j) = MineNow(j)
      BY <1>3, <1>6, UpdatesMine
    <2>5. Mine("undo update", i - 1, i) = OldKey
      BY <1>3, <1>4, UpdatesMine
    <2>6. OldKey \in Keys /\ IndexInsert(i, OldKey)
      BY <1>4, <1>8
    <2>7. QED
      BY <1>3, <2>3, <2>4, <2>5, <2>6, EntryInserted
  <1>9. CASE OldKey # NULL /\ IndexInsertFails(i) /\ Goto("undo update", i - 1)
    <2>1. PICK e : e = errors'
      OBVIOUS
    <2>0. call.op \notin InsertOps
      BY <1>1 DEF InsertOps
    <2>2. /\ UNCHANGED <<index, space>> /\ e \in Nat /\ e >= errors
          /\ errors <= 1 => e = errors + 1
      <3>1. MineNow(i) = NULL
        BY <1>3, <1>6, UpdatesMine
      <3>2. QED
        BY <1>1, <1>3, <1>4, <1>9, <2>0, <2>1, <3>1, PutBackErrs
    <2>3. e >= 1
      BY <1>4, <1>5, <2>2
    <2>4. Leads(call.op, "undo update", i - 1, e)
      BY <1>1, <1>3, <2>2, <2>3, UpdatesLead
    <2>5. Moves("undo update", i - 1, e)
      BY <1>1, <1>2, <1>9, <2>1, <2>2, <2>4, Going
    <2>6. ~ (e <= 1)
      BY <1>4, <1>5, <2>2
    <2>7. QED
      BY <2>2, <2>5, <2>6, NothingDone
  <1>10. QED
    BY <1>0, <1>7, <1>8, <1>9 DEF UpdateRestoresOld

\* The rollback of UPDATE: the new entry goes.
LEMMA UndoUpdateNewInv ==
    ASSUME SInv, UndoUpdateNew, UNCHANGED <<full, before>>
    PROVE  SInv'
  <1>0. PICK i : i = call.pos
    OBVIOUS
  <1>1. call.op = "undo update" /\ call.op \in Ops
    BY DEF UndoUpdateNew, Ops, InsertOps, UpdateOps, DeleteOps
  <1>2. heap' = heap
    BY DEF UndoUpdateNew, NoCall
  <1>3. i \in Indexes
    <2>1. i > 0
      BY <1>0 DEF UndoUpdateNew
    <2>2. i <= NumIndexes /\ i \in 0 .. NumIndexes + 1 /\ NumIndexes \in Nat
      BY <1>0, <1>1, InProgress DEF ShapeInv, Shape
    <2>3. QED
      BY <2>1, <2>2 DEF Indexes
  <1>4. /\ NewKey \in Keys \cup {NULL} /\ NewKey = call.new[i]
        /\ OldKey \in Keys \cup {NULL} /\ OldKey = call.old[i]
        /\ errors \in Nat /\ NULL \notin Keys
    BY <1>0, <1>1, <1>3, KeyFacts
  <1>5. errors >= 1
    BY <1>1, InProgress DEF ShapeInv, Shape, ForwardOps
  <1>6. \A j : MineNow(j) = Mine("undo update", i, j)
    BY <1>0, <1>1 DEF MineNow
  <1>7. CASE OldKey = NewKey /\ NoIndexCall /\ errors' = errors /\ Goto("undo update", i - 1)
    <2>1. errors' = errors
      BY <1>7 DEF NoIndexCall, NoCall
    <2>2. Leads(call.op, "undo update", i - 1, errors)
      BY <1>1, <1>3, <1>4, <1>5, UpdatesLead
    <2>3. Moves("undo update", i - 1, errors)
      BY <1>1, <1>2, <1>7, <2>1, <2>2, GoingWell
    <2>4. \A j \in Indexes : Mine("undo update", i - 1, j) = MineNow(j)
      <3>1. \A j \in Indexes \ {i} : Mine("undo update", i - 1, j) = MineNow(j)
        BY <1>3, <1>6, UpdatesMine
      <3>2. Mine("undo update", i - 1, i) = OldKey
        BY <1>3, <1>4, UpdatesMine
      <3>3. MineNow(i) = NewKey
        BY <1>3, <1>4, <1>6, UpdatesMine
      <3>4. QED
        BY <1>7, <3>1, <3>2, <3>3
    <2>5. QED
      BY <1>7, <2>3, <2>4, NothingDone DEF NoIndexCall, NoCall
  <1>8. CASE OldKey # NewKey /\ NewKey = NULL /\ NoIndexCall /\ errors' = errors /\ Goto("undo update old", i)
    <2>1. errors' = errors
      BY <1>8 DEF NoIndexCall, NoCall
    <2>2. Leads(call.op, "undo update old", i, errors)
      BY <1>1, <1>3, <1>4, <1>5, UpdatesLead
    <2>3. Moves("undo update old", i, errors)
      BY <1>1, <1>2, <1>8, <2>1, <2>2, GoingWell
    <2>4. \A j \in Indexes : Mine("undo update old", i, j) = MineNow(j)
      <3>1. \A j \in Indexes \ {i} : Mine("undo update old", i, j) = MineNow(j)
        BY <1>3, <1>6, UpdatesMine
      <3>2. Mine("undo update old", i, i) = NULL
        BY <1>3, <1>4, UpdatesMine
      <3>3. MineNow(i) = NewKey
        BY <1>3, <1>4, <1>6, UpdatesMine
      <3>4. QED
        BY <1>8, <3>1, <3>2, <3>3
    <2>5. QED
      BY <1>8, <2>3, <2>4, NothingDone DEF NoIndexCall, NoCall
  <1>9. CASE OldKey # NewKey /\ NewKey # NULL /\ IndexRemove(i, NewKey) /\ Goto("undo update old", i)
    <2>1. errors' = errors
      BY <1>9 DEF IndexRemove
    <2>2. Leads(call.op, "undo update old", i, errors)
      BY <1>1, <1>3, <1>4, <1>5, UpdatesLead
    <2>3. Moves("undo update old", i, errors)
      BY <1>1, <1>2, <1>9, <2>1, <2>2, GoingWell
    <2>4. Mine("undo update old", i, i) = NULL /\ \A j \in Indexes \ {i} : Mine("undo update old", i, j) = MineNow(j)
      BY <1>3, <1>6, UpdatesMine
    <2>5. MineNow(i) = NewKey
      BY <1>3, <1>4, <1>6, UpdatesMine
    <2>6. NewKey \in Keys /\ IndexRemove(i, NewKey)
      BY <1>4, <1>9
    <2>7. QED
      BY <1>3, <2>3, <2>4, <2>5, <2>6, EntryRemoved
  <1>10. CASE OldKey # NewKey /\ NewKey # NULL /\ IndexRemoveFails(i, NewKey) /\ Goto("undo update old", i)
    <2>1. PICK e : e = errors'
      OBVIOUS
    <2>2. /\ UNCHANGED <<index, space>> /\ e \in Nat /\ e >= errors
          /\ errors <= 1 => e = errors + 1
      <3>1. MineNow(i) = NewKey
        BY <1>3, <1>4, <1>6, UpdatesMine
      <3>2. QED
        BY <1>1, <1>3, <1>4, <1>10, <2>1, <3>1, RemoveErrs
    <2>3. e >= 1
      BY <1>4, <1>5, <2>2
    <2>4. Leads(call.op, "undo update old", i, e)
      BY <1>1, <1>3, <2>2, <2>3, UpdatesLead
    <2>5. Moves("undo update old", i, e)
      BY <1>1, <1>2, <1>10, <2>1, <2>2, <2>4, Going
    <2>6. ~ (e <= 1)
      BY <1>4, <1>5, <2>2
    <2>7. QED
      BY <2>2, <2>5, <2>6, NothingDone
  <1>11. QED
    BY <1>0, <1>7, <1>8, <1>9, <1>10 DEF UndoUpdateNew

\* The rollback of UPDATE: the old entry comes back.
LEMMA UndoUpdateOldInv ==
    ASSUME SInv, UndoUpdateOld, UNCHANGED <<full, before>>
    PROVE  SInv'
  <1>0. PICK i : i = call.pos
    OBVIOUS
  <1>1. call.op = "undo update old" /\ call.op \in Ops
    BY DEF UndoUpdateOld, Ops, InsertOps, UpdateOps, DeleteOps
  <1>2. heap' = heap
    BY DEF UndoUpdateOld, NoCall
  <1>3. i \in Indexes
    BY <1>0, <1>1, InProgress DEF ShapeInv, Shape
  <1>4. /\ NewKey \in Keys \cup {NULL} /\ NewKey = call.new[i]
        /\ OldKey \in Keys \cup {NULL} /\ OldKey = call.old[i]
        /\ errors \in Nat /\ NULL \notin Keys
    BY <1>0, <1>1, <1>3, KeyFacts
  <1>5. errors >= 1
    BY <1>1, InProgress DEF ShapeInv, Shape, ForwardOps
  <1>6. \A j : MineNow(j) = Mine("undo update old", i, j)
    BY <1>0, <1>1 DEF MineNow
  <1>7. CASE OldKey = NULL /\ NoIndexCall /\ errors' = errors /\ Goto("undo update", i - 1)
    <2>1. errors' = errors
      BY <1>7 DEF NoIndexCall, NoCall
    <2>2. Leads(call.op, "undo update", i - 1, errors)
      BY <1>1, <1>3, <1>4, <1>5, UpdatesLead
    <2>3. Moves("undo update", i - 1, errors)
      BY <1>1, <1>2, <1>7, <2>1, <2>2, GoingWell
    <2>4. \A j \in Indexes : Mine("undo update", i - 1, j) = MineNow(j)
      <3>1. \A j \in Indexes \ {i} : Mine("undo update", i - 1, j) = MineNow(j)
        BY <1>3, <1>6, UpdatesMine
      <3>2. Mine("undo update", i - 1, i) = OldKey
        BY <1>3, <1>4, UpdatesMine
      <3>3. MineNow(i) = NULL
        BY <1>3, <1>4, <1>6, UpdatesMine
      <3>4. QED
        BY <1>7, <3>1, <3>2, <3>3
    <2>5. QED
      BY <1>7, <2>3, <2>4, NothingDone DEF NoIndexCall, NoCall
  <1>8. CASE OldKey # NULL /\ IndexInsert(i, OldKey) /\ Goto("undo update", i - 1)
    <2>1. errors' = errors
      BY <1>8 DEF IndexInsert
    <2>2. Leads(call.op, "undo update", i - 1, errors)
      BY <1>1, <1>3, <1>4, <1>5, UpdatesLead
    <2>3. Moves("undo update", i - 1, errors)
      BY <1>1, <1>2, <1>8, <2>1, <2>2, GoingWell
    <2>4. MineNow(i) = NULL /\ \A j \in Indexes \ {i} : Mine("undo update", i - 1, j) = MineNow(j)
      BY <1>3, <1>6, UpdatesMine
    <2>5. Mine("undo update", i - 1, i) = OldKey
      BY <1>3, <1>4, UpdatesMine
    <2>6. OldKey \in Keys /\ IndexInsert(i, OldKey)
      BY <1>4, <1>8
    <2>7. QED
      BY <1>3, <2>3, <2>4, <2>5, <2>6, EntryInserted
  <1>9. CASE OldKey # NULL /\ IndexInsertFails(i) /\ Goto("undo update", i - 1)
    <2>1. PICK e : e = errors'
      OBVIOUS
    <2>0. call.op \notin InsertOps
      BY <1>1 DEF InsertOps
    <2>2. /\ UNCHANGED <<index, space>> /\ e \in Nat /\ e >= errors
          /\ errors <= 1 => e = errors + 1
      <3>1. MineNow(i) = NULL
        BY <1>3, <1>6, UpdatesMine
      <3>2. QED
        BY <1>1, <1>3, <1>4, <1>9, <2>0, <2>1, <3>1, PutBackErrs
    <2>3. e >= 1
      BY <1>4, <1>5, <2>2
    <2>4. Leads(call.op, "undo update", i - 1, e)
      BY <1>1, <1>3, <2>2, <2>3, UpdatesLead
    <2>5. Moves("undo update", i - 1, e)
      BY <1>1, <1>2, <1>9, <2>1, <2>2, <2>4, Going
    <2>6. ~ (e <= 1)
      BY <1>4, <1>5, <2>2
    <2>7. QED
      BY <2>2, <2>5, <2>6, NothingDone
  <1>10. QED
    BY <1>0, <1>7, <1>8, <1>9 DEF UndoUpdateOld

\* DeleteRecord, index by index.
LEMMA DeleteEntryInv ==
    ASSUME SInv, DeleteEntry, UNCHANGED <<full, before>>
    PROVE  SInv'
  <1>0. PICK i : i = call.pos
    OBVIOUS
  <1>1. call.op = "delete" /\ call.op \in Ops
    BY DEF DeleteEntry, Ops, InsertOps, UpdateOps, DeleteOps
  <1>2. heap' = heap
    BY DEF DeleteEntry, NoCall
  <1>3. i \in Indexes
    BY <1>0 DEF DeleteEntry
  <1>4. /\ NewKey \in Keys \cup {NULL} /\ NewKey = call.new[i]
        /\ OldKey \in Keys \cup {NULL} /\ OldKey = call.old[i]
        /\ errors \in Nat /\ NULL \notin Keys
    BY <1>0, <1>1, <1>3, KeyFacts
  <1>5. errors = 0
    BY <1>1, InProgress DEF ShapeInv, Shape, ForwardOps
  <1>6. \A j : MineNow(j) = Mine("delete", i, j)
    BY <1>0, <1>1 DEF MineNow
  <1>7. CASE OldKey = NULL /\ NoIndexCall /\ errors' = errors /\ Goto("delete", i + 1)
    <2>1. errors' = errors
      BY <1>7 DEF NoIndexCall, NoCall
    <2>2. Leads(call.op, "delete", i + 1, errors)
      BY <1>1, <1>3, <1>4, <1>5, DeletesLead
    <2>3. Moves("delete", i + 1, errors)
      BY <1>1, <1>2, <1>7, <2>1, <2>2, GoingWell
    <2>4. \A j \in Indexes : Mine("delete", i + 1, j) = MineNow(j)
      <3>1. \A j \in Indexes \ {i} : Mine("delete", i + 1, j) = MineNow(j)
        BY <1>3, <1>6, DeletesMine
      <3>2. Mine("delete", i + 1, i) = NULL
        BY <1>3, <1>4, DeletesMine
      <3>3. MineNow(i) = OldKey
        BY <1>3, <1>4, <1>6, DeletesMine
      <3>4. QED
        BY <1>7, <3>1, <3>2, <3>3
    <2>5. QED
      BY <1>7, <2>3, <2>4, NothingDone DEF NoIndexCall, NoCall
  <1>8. CASE OldKey # NULL /\ IndexRemove(i, OldKey) /\ Goto("delete", i + 1)
    <2>1. errors' = errors
      BY <1>8 DEF IndexRemove
    <2>2. Leads(call.op, "delete", i + 1, errors)
      BY <1>1, <1>3, <1>4, <1>5, DeletesLead
    <2>3. Moves("delete", i + 1, errors)
      BY <1>1, <1>2, <1>8, <2>1, <2>2, GoingWell
    <2>4. Mine("delete", i + 1, i) = NULL /\ \A j \in Indexes \ {i} : Mine("delete", i + 1, j) = MineNow(j)
      BY <1>3, <1>6, DeletesMine
    <2>5. MineNow(i) = OldKey
      BY <1>3, <1>4, <1>6, DeletesMine
    <2>6. OldKey \in Keys /\ IndexRemove(i, OldKey)
      BY <1>4, <1>8
    <2>7. QED
      BY <1>3, <2>3, <2>4, <2>5, <2>6, EntryRemoved
  <1>9. CASE OldKey # NULL /\ IndexRemoveFails(i, OldKey) /\ Goto("undo delete", i - 1)
    <2>1. PICK e : e = errors'
      OBVIOUS
    <2>2. /\ UNCHANGED <<index, space>> /\ e \in Nat /\ e >= errors
          /\ errors <= 1 => e = errors + 1
      <3>1. MineNow(i) = OldKey
        BY <1>3, <1>4, <1>6, DeletesMine
      <3>2. QED
        BY <1>1, <1>3, <1>4, <1>9, <2>1, <3>1, RemoveErrs
    <2>3. e >= 1
      BY <1>4, <1>5, <2>2
    <2>4. Leads(call.op, "undo delete", i - 1, e)
      BY <1>1, <1>3, <2>2, <2>3, DeletesLead
    <2>5. Moves("undo delete", i - 1, e)
      BY <1>1, <1>2, <1>9, <2>1, <2>2, <2>4, Going
    <2>6. \A j \in Indexes : Mine("undo delete", i - 1, j) = MineNow(j)
      BY <1>3, <1>6, DeletesMine
    <2>7. QED
      BY <2>2, <2>5, <2>6, NothingDone
  <1>10. QED
    BY <1>0, <1>7, <1>8, <1>9 DEF DeleteEntry

\* RollbackRemovedIndexEntries.
LEMMA UndoDeleteEntryInv ==
    ASSUME SInv, UndoDeleteEntry, UNCHANGED <<full, before>>
    PROVE  SInv'
  <1>0. PICK i : i = call.pos
    OBVIOUS
  <1>1. call.op = "undo delete" /\ call.op \in Ops
    BY DEF UndoDeleteEntry, Ops, InsertOps, UpdateOps, DeleteOps
  <1>2. heap' = heap
    BY DEF UndoDeleteEntry, NoCall
  <1>3. i \in Indexes
    <2>1. i > 0
      BY <1>0 DEF UndoDeleteEntry
    <2>2. i <= NumIndexes /\ i \in 0 .. NumIndexes + 1 /\ NumIndexes \in Nat
      BY <1>0, <1>1, InProgress DEF ShapeInv, Shape
    <2>3. QED
      BY <2>1, <2>2 DEF Indexes
  <1>4. /\ NewKey \in Keys \cup {NULL} /\ NewKey = call.new[i]
        /\ OldKey \in Keys \cup {NULL} /\ OldKey = call.old[i]
        /\ errors \in Nat /\ NULL \notin Keys
    BY <1>0, <1>1, <1>3, KeyFacts
  <1>5. errors >= 1
    BY <1>1, InProgress DEF ShapeInv, Shape, ForwardOps
  <1>6. \A j : MineNow(j) = Mine("undo delete", i, j)
    BY <1>0, <1>1 DEF MineNow
  <1>7. CASE OldKey = NULL /\ NoIndexCall /\ errors' = errors /\ Goto("undo delete", i - 1)
    <2>1. errors' = errors
      BY <1>7 DEF NoIndexCall, NoCall
    <2>2. Leads(call.op, "undo delete", i - 1, errors)
      BY <1>1, <1>3, <1>4, <1>5, DeletesLead
    <2>3. Moves("undo delete", i - 1, errors)
      BY <1>1, <1>2, <1>7, <2>1, <2>2, GoingWell
    <2>4. \A j \in Indexes : Mine("undo delete", i - 1, j) = MineNow(j)
      <3>1. \A j \in Indexes \ {i} : Mine("undo delete", i - 1, j) = MineNow(j)
        BY <1>3, <1>6, DeletesMine
      <3>2. Mine("undo delete", i - 1, i) = OldKey
        BY <1>3, <1>4, DeletesMine
      <3>3. MineNow(i) = NULL
        BY <1>3, <1>4, <1>6, DeletesMine
      <3>4. QED
        BY <1>7, <3>1, <3>2, <3>3
    <2>5. QED
      BY <1>7, <2>3, <2>4, NothingDone DEF NoIndexCall, NoCall
  <1>8. CASE OldKey # NULL /\ IndexInsert(i, OldKey) /\ Goto("undo delete", i - 1)
    <2>1. errors' = errors
      BY <1>8 DEF IndexInsert
    <2>2. Leads(call.op, "undo delete", i - 1, errors)
      BY <1>1, <1>3, <1>4, <1>5, DeletesLead
    <2>3. Moves("undo delete", i - 1, errors)
      BY <1>1, <1>2, <1>8, <2>1, <2>2, GoingWell
    <2>4. MineNow(i) = NULL /\ \A j \in Indexes \ {i} : Mine("undo delete", i - 1, j) = MineNow(j)
      BY <1>3, <1>6, DeletesMine
    <2>5. Mine("undo delete", i - 1, i) = OldKey
      BY <1>3, <1>4, DeletesMine
    <2>6. OldKey \in Keys /\ IndexInsert(i, OldKey)
      BY <1>4, <1>8
    <2>7. QED
      BY <1>3, <2>3, <2>4, <2>5, <2>6, EntryInserted
  <1>9. CASE OldKey # NULL /\ IndexInsertFails(i) /\ Goto("undo delete", 0)
    <2>1. PICK e : e = errors'
      OBVIOUS
    <2>0. call.op \notin InsertOps
      BY <1>1 DEF InsertOps
    <2>2. /\ UNCHANGED <<index, space>> /\ e \in Nat /\ e >= errors
          /\ errors <= 1 => e = errors + 1
      <3>1. MineNow(i) = NULL
        BY <1>3, <1>6, DeletesMine
      <3>2. QED
        BY <1>1, <1>3, <1>4, <1>9, <2>0, <2>1, <3>1, PutBackErrs
    <2>3. e >= 1
      BY <1>4, <1>5, <2>2
    <2>4. Leads(call.op, "undo delete", 0, e)
      BY <1>1, <1>3, <2>2, <2>3, DeletesLead
    <2>5. Moves("undo delete", 0, e)
      BY <1>1, <1>2, <1>9, <2>1, <2>2, <2>4, Going
    <2>6. ~ (e <= 1)
      BY <1>4, <1>5, <2>2
    <2>7. QED
      BY <2>2, <2>5, <2>6, NothingDone
  <1>10. QED
    BY <1>0, <1>7, <1>8, <1>9 DEF UndoDeleteEntry

-----------------------------------------------------------------------------
(* A statement that ends.                                                  *)

\* The row in hand is v at the end, in the heap and in every index.
LEMMA Ending ==
    ASSUME SInv, call.op \in Ops, NEW v \in Records \cup {None},
           heap' = [before EXCEPT ![call.rid] = v],
           UNCHANGED <<index, space, full, before>>,
           call' = Idle, result' \in {"ok", "error"},
           NEW e \in Nat, errors' = e, e >= errors,
           e <= 1 => \A i \in Indexes : MineNow(i) = IF v = None THEN NULL ELSE v[i]
    PROVE  SInv'
  <1>1. /\ call.rid \in RecordIDs /\ EntriesInv
        /\ before \in [RecordIDs -> Records \cup {None}]
    BY InProgress DEF SInv, TypeInv
  <1>2. TypeInv'
    BY <1>1 DEF SInv, TypeInv, IndexInv
  <1>3. ASSUME e <= 1, NEW i \in Indexes PROVE index'[i] = EntriesOf(i)'
    <2>1. errors <= 1
      BY <1>3 DEF SInv, TypeInv
    <2>2. index[i] = EntriesBut(before, call.rid, i) \cup EntryOf(call.rid, MineNow(i))
      BY <1>1, <2>1 DEF EntriesInv
    <2>3. heap'[call.rid] = v /\ EntriesBut(heap', call.rid, i) = EntriesBut(before, call.rid, i)
      BY <1>1, OtherEntries
    <2>4. EntriesIn(heap', i) = EntriesBut(heap', call.rid, i)
              \cup EntryOf(call.rid, IF heap'[call.rid] = None THEN NULL ELSE heap'[call.rid][i])
      BY <1>1, SplitEntries
    <2>5. EntriesOf(i)' = EntriesIn(heap', i)
      BY EntriesOfHeap
    <2>6. MineNow(i) = IF v = None THEN NULL ELSE v[i]
      BY <1>3
    <2>7. QED
      BY <2>2, <2>3, <2>4, <2>5, <2>6
  <1>4. QED
    BY <1>2, <1>3 DEF SInv

\* What the ends have in common.
LEMMA EndFacts ==
    ASSUME SInv, call.op \in Ops
    PROVE  /\ call.rid \in RecordIDs /\ call.old \in Records /\ call.new \in Records
           /\ errors \in Nat /\ before \in [RecordIDs -> Records \cup {None}]
           /\ None \notin Records
           /\ \A v : [[before EXCEPT ![call.rid] = call.new] EXCEPT ![call.rid] = v]
                        = [before EXCEPT ![call.rid] = v]
           /\ before = [before EXCEPT ![call.rid] = before[call.rid]]
  <1>1. /\ call.rid \in RecordIDs /\ call.old \in Records /\ call.new \in Records
        /\ errors \in Nat /\ before \in [RecordIDs -> Records \cup {None}]
        /\ None \notin Records
    BY InProgress, RecordFacts DEF SInv, TypeInv
  <1>2. before = [before EXCEPT ![call.rid] = before[call.rid]]
    BY <1>1
  <1>3. ASSUME NEW v
        PROVE  [[before EXCEPT ![call.rid] = call.new] EXCEPT ![call.rid] = v]
                  = [before EXCEPT ![call.rid] = v]
    BY <1>1
  <1>4. QED
    BY <1>1, <1>2, <1>3

\* INSERT and UPDATE that succeed.
LEMMA DoneInv ==
    ASSUME SInv, InsertDone \/ UpdateDone, UNCHANGED <<full, before>>
    PROVE  SInv'
  <1>1. call.op \in {"insert", "update"} /\ call.pos > NumIndexes
    BY DEF InsertDone, UpdateDone
  <1>2. call.op \in Ops /\ call.op \notin DeleteOps
    BY <1>1 DEF Ops, InsertOps, UpdateOps, DeleteOps
  <1>3. /\ UNCHANGED <<index, space, heap, errors>> /\ call' = Idle /\ result' = "ok"
    BY DEF InsertDone, UpdateDone, NoCall, NoIndexCall, Return
  <1>4. heap = [before EXCEPT ![call.rid] = call.new]
    BY <1>2, InProgress DEF RowInv
  <1>5. \A i \in Indexes : MineNow(i) = call.new[i]
    <2>1. ASSUME NEW i \in Indexes PROVE i < call.pos
      BY <1>1, <1>2, InProgress, IndexRange
    <2>2. QED
      BY <1>2, <2>1 DEF MineNow, Mine
  <1>6. errors \in Nat /\ errors >= errors /\ call.new \in Records /\ call.new # None
    BY <1>2, EndFacts
  <1>7. QED
    BY <1>2, <1>3, <1>4, <1>5, <1>6, Ending

\* INSERT that has been undone.
LEMMA UndoInsertRecordInv ==
    ASSUME SInv, UndoInsertRecord, UNCHANGED <<full, before>>
    PROVE  SInv'
  <1>1. call.op = "undo insert" /\ call.pos = 0
    BY DEF UndoInsertRecord
  <1>2. call.op \in Ops /\ call.op \in InsertOps /\ call.op \notin DeleteOps
    BY <1>1 DEF Ops, InsertOps, UpdateOps, DeleteOps
  <1>3. UNCHANGED <<index, space>> /\ call' = Idle /\ result' = "error"
    BY DEF UndoInsertRecord, NoIndexCall, Return
  <1>4. heap = [before EXCEPT ![call.rid] = call.new] /\ errors >= 1
    BY <1>1, <1>2, InProgress DEF RowInv, ShapeInv, Shape, ForwardOps
  <1>5. \A i \in Indexes : MineNow(i) = NULL
    <2>1. ASSUME NEW i \in Indexes PROVE i > 0 /\ ~(i < 0)
      BY IndexRange
    <2>2. \A i : MineNow(i) = Mine(call.op, 0, i)
      BY <1>1 DEF MineNow
    <2>3. QED
      BY <1>2, <2>1, <2>2 DEF Mine
  <1>6. CASE HeapWrite(None)
    <2>1. heap' = [before EXCEPT ![call.rid] = None] /\ errors' = errors
      BY <1>2, <1>4, <1>6, EndFacts DEF HeapWrite
    <2>2. errors \in Nat /\ errors >= errors
      BY <1>2, EndFacts
    <2>3. QED
      BY <1>2, <1>3, <1>5, <2>1, <2>2, Ending
  <1>7. CASE IOError /\ heap' = heap
    <2>1. PICK e : e = errors + 1
      OBVIOUS
    <2>2. e \in Nat /\ errors' = e /\ e >= errors /\ ~(e <= 1) /\ call.new \in Records
      BY <1>2, <1>4, <1>7, <2>1, EndFacts DEF IOError
    <2>3. QED
      BY <1>2, <1>3, <1>4, <1>7, <2>2, Ending
  <1>8. QED
    BY <1>6, <1>7 DEF UndoInsertRecord

\* UPDATE that has been undone.
LEMMA UndoUpdateRecordInv ==
    ASSUME SInv, UndoUpdateRecord, UNCHANGED <<full, before>>
    PROVE  SInv'
  <1>1. call.op = "undo update" /\ call.pos = 0
    BY DEF UndoUpdateRecord
  <1>2. call.op \in Ops /\ call.op \notin InsertOps /\ call.op \notin DeleteOps
    BY <1>1 DEF Ops, InsertOps, UpdateOps, DeleteOps
  <1>3. UNCHANGED <<index, space>> /\ call' = Idle /\ result' = "error"
    BY DEF UndoUpdateRecord, NoIndexCall, Return
  <1>4. heap = [before EXCEPT ![call.rid] = call.new] /\ errors >= 1
    BY <1>1, <1>2, InProgress DEF RowInv, ShapeInv, Shape, ForwardOps
  <1>5. \A i \in Indexes : MineNow(i) = call.old[i]
    <2>1. ASSUME NEW i \in Indexes PROVE i > 0 /\ ~(i < 0)
      BY IndexRange
    <2>2. \A i : MineNow(i) = Mine(call.op, 0, i)
      BY <1>1 DEF MineNow
    <2>3. QED
      BY <1>2, <2>1, <2>2 DEF Mine
  <1>6. CASE HeapWrite(call.old)
    <2>1. heap' = [before EXCEPT ![call.rid] = call.old] /\ errors' = errors
      BY <1>2, <1>4, <1>6, EndFacts DEF HeapWrite
    <2>2. errors \in Nat /\ errors >= errors /\ call.old \in Records /\ call.old # None
      BY <1>2, EndFacts
    <2>3. QED
      BY <1>2, <1>3, <1>5, <2>1, <2>2, Ending
  <1>7. CASE IOError /\ heap' = heap
    <2>1. PICK e : e = errors + 1
      OBVIOUS
    <2>2. e \in Nat /\ errors' = e /\ e >= errors /\ ~(e <= 1) /\ call.new \in Records
      BY <1>2, <1>4, <1>7, <2>1, EndFacts DEF IOError
    <2>3. QED
      BY <1>2, <1>3, <1>4, <1>7, <2>2, Ending
  <1>8. QED
    BY <1>6, <1>7 DEF UndoUpdateRecord

\* DELETE reaches its record, which goes or sends it back.
LEMMA DeleteHeapRecordInv ==
    ASSUME SInv, DeleteHeapRecord, UNCHANGED <<full, before>>
    PROVE  SInv'
  <1>1. call.op = "delete" /\ call.pos > NumIndexes
    BY DEF DeleteHeapRecord
  <1>2. call.op \in Ops /\ call.op \in DeleteOps /\ call.op \notin InsertOps
    BY <1>1 DEF Ops, InsertOps, UpdateOps, DeleteOps
  <1>3. UNCHANGED <<index, space>>
    BY DEF DeleteHeapRecord, NoIndexCall
  <1>4. heap = before /\ errors = 0
    BY <1>1, <1>2, InProgress DEF RowInv, ShapeInv, Shape, ForwardOps
  <1>5. \A i \in Indexes : MineNow(i) = NULL
    <2>1. ASSUME NEW i \in Indexes PROVE i < call.pos
      BY <1>1, <1>2, InProgress, IndexRange
    <2>2. QED
      BY <1>2, <2>1 DEF MineNow, Mine
  <1>6. CASE HeapWrite(None) /\ Return("ok")
    <2>1. /\ heap' = [before EXCEPT ![call.rid] = None] /\ errors' = errors
          /\ call' = Idle /\ result' = "ok"
      BY <1>4, <1>6 DEF HeapWrite, Return
    <2>2. errors \in Nat /\ errors >= errors
      BY <1>2, EndFacts
    <2>3. QED
      BY <1>2, <1>3, <1>5, <2>1, <2>2, Ending
  <1>7. CASE IOError /\ heap' = heap /\ Goto("undo delete", NumIndexes)
    <2>1. errors' = 1
      <3>1. errors' = errors + 1
        BY <1>7 DEF IOError
      <3>2. QED
        BY <1>4, <3>1
    <2>2. Leads(call.op, "undo delete", NumIndexes, 1)
      <3>1. NumIndexes \in 0 .. NumIndexes + 1 /\ NumIndexes <= NumIndexes
        BY TableAssumption
      <3>2. Shape("undo delete", NumIndexes, 1)
        BY <3>1 DEF Shape, ForwardOps
      <3>3. QED
        BY <1>2, <3>1, <3>2 DEF Leads, Ops, InsertOps, DeleteOps
    <2>3. 1 >= errors
      BY <1>4
    <2>4. Moves("undo delete", NumIndexes, 1)
      BY <1>2, <1>7, <2>1, <2>2, <2>3, Going
    <2>5. \A j \in Indexes : Mine("undo delete", NumIndexes, j) = NULL
      <3>1. ASSUME NEW j \in Indexes PROVE ~(j > NumIndexes)
        BY IndexRange
      <3>2. QED
        BY <3>1 DEF Mine, DeleteOps
    <2>6. QED
      BY <1>3, <1>5, <2>4, <2>5, NothingDone
  <1>8. QED
    BY <1>6, <1>7 DEF DeleteHeapRecord

\* DELETE that has been undone.
LEMMA UndoDeleteDoneInv ==
    ASSUME SInv, UndoDeleteDone, UNCHANGED <<full, before>>
    PROVE  SInv'
  <1>1. call.op = "undo delete" /\ call.pos = 0
    BY DEF UndoDeleteDone
  <1>2. call.op \in Ops /\ call.op \in DeleteOps /\ call.op \notin InsertOps
    BY <1>1 DEF Ops, InsertOps, UpdateOps, DeleteOps
  <1>3. UNCHANGED <<index, space, heap, errors>> /\ call' = Idle /\ result' = "error"
    BY DEF UndoDeleteDone, NoCall, NoIndexCall, Return
  <1>4. heap = before /\ before[call.rid] = call.old
    BY <1>2, InProgress DEF RowInv
  <1>5. \A i \in Indexes : MineNow(i) = call.old[i]
    <2>1. ASSUME NEW i \in Indexes PROVE i > 0 /\ ~(i < 0)
      BY IndexRange
    <2>2. \A i : MineNow(i) = Mine(call.op, 0, i)
      BY <1>1 DEF MineNow
    <2>3. QED
      BY <1>2, <2>1, <2>2 DEF Mine
  <1>6. /\ errors \in Nat /\ errors >= errors /\ call.old \in Records /\ call.old # None
        /\ heap' = [before EXCEPT ![call.rid] = call.old]
    BY <1>2, <1>3, <1>4, EndFacts
  <1>7. QED
    BY <1>2, <1>3, <1>5, <1>6, Ending

-----------------------------------------------------------------------------
(* A statement that starts.                                                *)

\* A table whose indexes match starts a statement with the row in hand as it is
\* in the heap, and with room for its old entries.
LEMMA Starting ==
    ASSUME SInv, NEW op \in {"insert", "update", "delete"}, NEW rid \in RecordIDs,
           NEW old \in Records, NEW new \in Records, Start(op, rid, old, new),
           heap[rid] = IF op = "insert" THEN None ELSE old,
           heap' = IF op = "delete" THEN heap ELSE [heap EXCEPT ![rid] = new]
    PROVE  SInv'
  <1>0. op = "insert" \/ op = "update" \/ op = "delete"
    OBVIOUS
  <1>1. /\ call = Idle /\ errors <= 1 /\ before' = heap /\ errors' = 0
        /\ full' \in BOOLEAN /\ UNCHANGED <<index, space, result>>
        /\ call' = [op |-> op, rid |-> rid, old |-> old, new |-> new, pos |-> 1]
    BY DEF Start
  <1>2. /\ op \in Ops /\ op \in ForwardOps
        /\ op \in InsertOps <=> op = "insert"
        /\ op \in DeleteOps <=> op = "delete"
    BY <1>0 DEF Ops, InsertOps, UpdateOps, DeleteOps, ForwardOps
  <1>3. 1 \in 0 .. NumIndexes + 1
    BY TableAssumption
  <1>4. /\ call' \in Statements /\ call'.op = op /\ call'.rid = rid
        /\ call'.old = old /\ call'.new = new /\ call'.pos = 1
    <2>1. PICK c : c = [op |-> op, rid |-> rid, old |-> old, new |-> new, pos |-> 1]
      OBVIOUS
    <2>2. c.op = op /\ c.rid = rid /\ c.old = old /\ c.new = new /\ c.pos = 1
      BY <2>1
    <2>3. c \in Statements
      BY <1>2, <1>3, <2>1 DEF Statements
    <2>4. QED
      BY <1>1, <2>1, <2>2, <2>3
  <1>5. TypeInv'
    BY <1>1, <1>4 DEF SInv, TypeInv, IndexInv
  <1>6. ShapeInv'
    <2>1. /\ op \notin {"undo insert", "undo update", "undo delete"}
          /\ op \notin {"update new", "restore old", "undo update old"}
      BY <1>0
    <2>2. 1 >= 1
      OBVIOUS
    <2>3. Shape(op, 1, 0)
      BY <1>2, <2>1, <2>2 DEF Shape
    <2>4. QED
      BY <1>1, <1>4, <2>3 DEF ShapeInv, Shape
  <1>7. RowInv'
    <2>1. heap' = IF op = "delete" THEN heap ELSE [heap EXCEPT ![rid] = new]
      OBVIOUS
    <2>2. heap' = IF call'.op \in DeleteOps THEN before'
                  ELSE [before' EXCEPT ![call'.rid] = call'.new]
      <3>1. CASE op = "delete"
        BY <1>1, <1>2, <1>4, <2>1, <3>1
      <3>2. CASE op # "delete"
        BY <1>1, <1>2, <1>4, <2>1, <3>2
      <3>3. QED
        BY <3>1, <3>2
    <2>3. before'[call'.rid] = IF call'.op \in InsertOps THEN None ELSE call'.old
      <3>1. CASE op = "insert"
        BY <1>1, <1>2, <1>4, <3>1
      <3>2. CASE op # "insert"
        BY <1>1, <1>2, <1>4, <3>2
      <3>3. QED
        BY <3>1, <3>2
    <2>4. QED
      BY <2>2, <2>3 DEF RowInv
  <1>8. ASSUME NEW i \in Indexes
        PROVE  index[i] = EntriesBut(heap, rid, i)
                            \cup EntryOf(rid, IF op = "insert" THEN NULL ELSE old[i])
    <2>1. index[i] = EntriesIn(heap, i)
      BY <1>1, EntriesOfHeap DEF SInv
    <2>2. old # None
      BY RecordFacts
    <2>3. QED
      BY <2>1, <2>2, SplitEntries
  <1>9. RoomInv'
    <2>1. SUFFICES ASSUME op # "insert", NEW i \in Indexes, old[i] # NULL
                   PROVE  /\ IsFiniteSet(EntriesBut(heap, rid, i))
                          /\ space[i] > Cardinality(EntriesBut(heap, rid, i))
      BY <1>1, <1>2, <1>4 DEF RoomInv
    <2>2. index[i] = EntriesBut(heap, rid, i) \cup {<<old[i], rid>>}
      BY <1>8, <2>1 DEF EntryOf
    <2>3. IsFiniteSet(index[i]) /\ Cardinality(index[i]) <= space[i] /\ space[i] \in Nat
      BY DEF SInv, TypeInv, IndexInv
    <2>4. IsFiniteSet(EntriesBut(heap, rid, i))
      BY <2>2, <2>3, FS_Subset
    <2>5. <<old[i], rid>> \notin EntriesBut(heap, rid, i)
      BY OtherEntries DEF SInv, TypeInv
    <2>6. /\ Cardinality(index[i]) = Cardinality(EntriesBut(heap, rid, i)) + 1
          /\ Cardinality(EntriesBut(heap, rid, i)) \in Nat
      BY <2>2, <2>4, <2>5, FS_AddElement, FS_CardinalityType
    <2>7. QED
      BY <2>3, <2>4, <2>6
  <1>10. EntriesInv'
    <2>1. ASSUME NEW i \in Indexes
          PROVE  (MineNow(i))' = IF op = "insert" THEN NULL ELSE old[i]
      <3>1. i \in Nat /\ ~(i < 1)
        BY IndexRange
      <3>2. (MineNow(i))' = IF i > 1 THEN IF op = "insert" THEN NULL ELSE old[i]
                            ELSE IF op \in {"update", "delete"} THEN old[i] ELSE NULL
        <4>1. (MineNow(i))' = IF i < 1 THEN IF op \in DeleteOps THEN NULL ELSE new[i]
                              ELSE IF i > 1 THEN IF op \in InsertOps THEN NULL ELSE old[i]
                              ELSE IF op \in {"undo insert", "undo update"} THEN new[i]
                              ELSE IF op \in {"update", "delete"} THEN old[i] ELSE NULL
          BY <1>4 DEF MineNow, Mine
        <4>2. op \notin {"undo insert", "undo update"}
          BY <1>0
        <4>3. QED
          BY <1>2, <3>1, <4>1, <4>2
      <3>3. QED
        BY <3>2
    <2>2. QED
      BY <1>1, <1>4, <1>8, <2>1 DEF EntriesInv
  <1>11. call' # Idle
    BY <1>4, CallFacts
  <1>12. QED
    BY <1>5, <1>6, <1>7, <1>9, <1>10, <1>11 DEF SInv

\* The three statements, as Starting sees them.
LEMMA StartFacts ==
    ASSUME SInv, NEW rid \in RecordIDs
    PROVE  /\ \A r \in Records : StartInsert(rid, r) \/ StartUpdate(rid, r) => SInv'
           /\ StartDelete(rid) => SInv'
  <1>1. heap[rid] # None => heap[rid] \in Records
    BY DEF SInv, TypeInv
  <1>2. ASSUME NEW r \in Records, StartInsert(rid, r) PROVE SInv'
    BY <1>2, Starting DEF StartInsert
  <1>3. ASSUME NEW r \in Records, StartUpdate(rid, r) PROVE SInv'
    BY <1>1, <1>3, Starting DEF StartUpdate
  <1>4. ASSUME StartDelete(rid) PROVE SInv'
    BY <1>1, <1>4, Starting DEF StartDelete
  <1>5. QED
    BY <1>2, <1>3, <1>4

\* The invariant, initially and in every step.
LEMMA TableInitInv == TableInit => SInv
  <1>1. SUFFICES ASSUME TableInit PROVE SInv
    OBVIOUS
  <1>2. /\ heap = [rid \in RecordIDs |-> None] /\ index = [i \in Indexes |-> {}]
        /\ space = [i \in Indexes |-> 0] /\ full = FALSE /\ errors = 0
        /\ call = Idle /\ before = heap /\ result = "ok"
    BY <1>1 DEF TableInit
  <1>3. IndexInv
    <2>1. \A i \in Indexes : index[i] = {} /\ space[i] = 0
      BY <1>2
    <2>2. IsFiniteSet({}) /\ Cardinality({}) = 0
      BY FS_EmptySet
    <2>3. QED
      BY <1>2, <2>1, <2>2 DEF IndexInv
  <1>4. TypeInv
    BY <1>2, <1>3 DEF TypeInv
  <1>5. \A i \in Indexes : index[i] = EntriesOf(i)
    BY <1>2 DEF EntriesOf
  <1>6. QED
    BY <1>2, <1>4, <1>5 DEF SInv

LEMMA TableNextInv == SInv /\ [TableNext]_tableVars => SInv'
  <1>1. SUFFICES ASSUME SInv, [TableNext]_tableVars PROVE SInv'
    OBVIOUS
  <1>2. CASE UNCHANGED tableVars
    <2>1. UNCHANGED <<heap, index, space, full, call, before, errors, result>>
      BY <1>2 DEF tableVars
    <2>2. TypeInv' /\ \A i \in Indexes : EntriesOf(i)' = EntriesOf(i)
      BY <1>1, <2>1 DEF SInv, TypeInv, IndexInv, EntriesOf
    <2>3. ShapeInv => ShapeInv'
      BY <2>1 DEF ShapeInv, Shape
    <2>4. (RowInv => RowInv') /\ (RoomInv => RoomInv')
      BY <2>1 DEF RowInv, RoomInv
    <2>5. \A i : (MineNow(i))' = MineNow(i)
      BY <2>1 DEF MineNow, Mine
    <2>6. EntriesInv => EntriesInv'
      BY <2>1, <2>5 DEF EntriesInv
    <2>7. QED
      BY <1>1, <2>1, <2>2, <2>3, <2>4, <2>6 DEF SInv
  <1>3. CASE NotExecuted
    <2>1. /\ UNCHANGED <<heap, index, space, full, call, before, errors>>
          /\ call = Idle /\ result' = "error"
      BY <1>3 DEF NotExecuted
    <2>2. QED
      BY <1>1, <2>1 DEF SInv, TypeInv, IndexInv, EntriesOf
  <1>4. CASE CallStep
    <2>1. UNCHANGED <<full, before>>
      BY <1>4 DEF CallStep
    <2>2. CASE InsertEntry \/ UndoInsertEntry \/ DeleteEntry \/ UndoDeleteEntry
      BY <1>1, <2>1, <2>2, InsertEntryInv, UndoInsertEntryInv, DeleteEntryInv, UndoDeleteEntryInv
    <2>3. CASE UpdateSkips \/ UpdateRemovesOld \/ UpdateInsertsNew \/ UpdateRestoresOld
      BY <1>1, <2>1, <2>3, UpdateSkipsInv, UpdateRemovesOldInv, UpdateInsertsNewInv,
         UpdateRestoresOldInv
    <2>4. CASE UndoUpdateNew \/ UndoUpdateOld \/ UndoUpdateRecord
      BY <1>1, <2>1, <2>4, UndoUpdateNewInv, UndoUpdateOldInv, UndoUpdateRecordInv
    <2>5. CASE InsertDone \/ UpdateDone \/ UndoInsertRecord \/ DeleteHeapRecord \/ UndoDeleteDone
      BY <1>1, <2>1, <2>5, DoneInv, UndoInsertRecordInv, DeleteHeapRecordInv, UndoDeleteDoneInv
    <2>6. QED
      BY <1>4, <2>2, <2>3, <2>4, <2>5 DEF CallStep
  <1>5. QED
    BY <1>1, <1>2, <1>3, <1>4, StartFacts DEF TableNext

\* Between statements, after at most one error, every index holds exactly the
\* entries of the rows in the heap: the rollbacks of InsertRecord, UpdateRecord
\* and DeleteRecord are complete, whatever the number of indexes.
THEOREM IndexesAlwaysMatch == StorageSpec => []IndexesMatchHeap
  <1>1. SInv => IndexesMatchHeap
    <2>1. SUFFICES ASSUME SInv PROVE IndexesMatchHeap
      OBVIOUS
    <2>2. \A i \in Indexes : space[i] >= Cardinality(index[i])
      <3>1. ASSUME NEW i \in Indexes PROVE space[i] >= Cardinality(index[i])
        <4>1. IsFiniteSet(index[i]) /\ Cardinality(index[i]) <= space[i] /\ space[i] \in Nat
          BY <2>1 DEF SInv, TypeInv, IndexInv
        <4>2. QED
          BY <4>1, FS_CardinalityType
      <3>2. QED
        BY <3>1
    <2>3. call # Idle => call.pos \in 0 .. NumIndexes + 1
      BY <2>1 DEF SInv, TypeInv, Statements
    <2>4. StorageTypeOK
      BY <2>1, <2>2, <2>3 DEF StorageTypeOK, SInv, TypeInv, IndexInv
    <2>5. QED
      BY <2>1, <2>4 DEF IndexesMatchHeap, SInv
  <1>2. QED
    BY <1>1, TableInitInv, TableNextInv, PTL DEF StorageSpec

-----------------------------------------------------------------------------
(* The statements implement the atomic rows.                               *)

\* The request of a statement depends on the kind of statement only.
LEMMA RequestFacts ==
    /\ call.op = "idle" => Request = <<>>
    /\ call.op \in InsertOps => Request = <<"insert", call.new>>
    /\ call.op \in UpdateOps => Request = <<"update", call.rid, call.new>>
    /\ call.op \in DeleteOps => Request = <<"delete", call.rid>>
  BY DEF Request, InsertOps, UpdateOps, DeleteOps

\* ... of the state a step leads to.
LEMMA RequestThen ==
    /\ call'.op = "idle" => Request' = <<>>
    /\ call'.op \in InsertOps => Request' = <<"insert", call'.new>>
    /\ call'.op \in UpdateOps => Request' = <<"update", call'.rid, call'.new>>
    /\ call'.op \in DeleteOps => Request' = <<"delete", call'.rid>>
  BY DEF Request, InsertOps, UpdateOps, DeleteOps

(* A step within a statement, which the atomic rows do not see.            *)
Within == /\ call.op \in Ops /\ before' = before
          /\ \E op, pos : /\ Goto(op, pos) /\ op \in Ops
                          /\ op \in InsertOps <=> call.op \in InsertOps
                          /\ op \in DeleteOps <=> call.op \in DeleteOps

\* It is a stutter.
LEMMA WithinStutters ==
    ASSUME SInv, Within
    PROVE  Committed' = Committed /\ Request' = Request /\ result' = result
  <1>1. PICK op, pos : /\ Goto(op, pos) /\ op \in Ops
                       /\ op \in InsertOps <=> call.op \in InsertOps
                       /\ op \in DeleteOps <=> call.op \in DeleteOps
    BY DEF Within
  <1>2. /\ call.op \in Ops /\ before' = before /\ call \in Statements /\ call # Idle
    BY InProgress DEF Within
  <1>3. call' = [call EXCEPT !.op = op, !.pos = pos] /\ result' = result
    BY <1>1 DEF Goto
  <1>4. call'.op = op /\ call'.rid = call.rid /\ call'.new = call.new
    BY <1>2, <1>3 DEF Statements
  <1>5. call' # Idle
    BY <1>1, <1>4, CallFacts DEF Ops, InsertOps, UpdateOps, DeleteOps
  <1>6. Committed' = Committed
    BY <1>2, <1>5 DEF Committed
  <1>7. Request' = Request
    <2>1. CASE call.op \in InsertOps
      BY <1>1, <1>4, <2>1, RequestFacts, RequestThen
    <2>2. CASE call.op \in DeleteOps
      BY <1>1, <1>4, <2>2, RequestFacts, RequestThen
    <2>3. CASE call.op \notin InsertOps /\ call.op \notin DeleteOps
      <3>1. call.op \in UpdateOps /\ op \in UpdateOps
        BY <1>1, <1>2, <2>3 DEF Ops
      <3>2. QED
        BY <1>4, <3>1, RequestFacts, RequestThen
    <2>4. QED
      BY <2>1, <2>2, <2>3
  <1>8. QED
    BY <1>3, <1>6, <1>7

\* A step from one place of a kind of statement to another.
LEMMA GoesWithin ==
    ASSUME before' = before, NEW op, NEW pos, Goto(op, pos),
           \/ call.op \in InsertOps /\ op \in InsertOps
           \/ call.op \in UpdateOps /\ op \in UpdateOps
           \/ call.op \in DeleteOps /\ op \in DeleteOps
    PROVE  Within
  <1>1. /\ call.op \in Ops /\ op \in Ops
        /\ op \in InsertOps <=> call.op \in InsertOps
        /\ op \in DeleteOps <=> call.op \in DeleteOps
    BY DEF Ops, InsertOps, UpdateOps, DeleteOps
  <1>2. QED
    BY <1>1 DEF Within

\* The actions that go on with their statement.
LEMMA Goings ==
    ASSUME before' = before,
           \/ InsertEntry \/ UndoInsertEntry
           \/ UpdateSkips \/ UpdateRemovesOld \/ UpdateInsertsNew \/ UpdateRestoresOld
           \/ UndoUpdateNew \/ UndoUpdateOld
           \/ DeleteEntry \/ UndoDeleteEntry
           \/ DeleteHeapRecord /\ call'.op # "idle"
    PROVE  Within
  <1>1. ASSUME InsertEntry PROVE Within
    <2>1. call.op = "insert" /\ \E pos : Goto("insert", pos) \/ Goto("undo insert", pos)
      BY <1>1 DEF InsertEntry
    <2>2. QED
      BY <2>1, GoesWithin DEF InsertOps
  <1>2. ASSUME UndoInsertEntry PROVE Within
    <2>1. call.op = "undo insert" /\ \E pos : Goto("undo insert", pos)
      BY <1>2 DEF UndoInsertEntry
    <2>2. QED
      BY <2>1, GoesWithin DEF InsertOps
  <1>3. ASSUME UpdateSkips PROVE Within
    <2>1. call.op = "update" /\ \E pos : Goto("update", pos)
      BY <1>3 DEF UpdateSkips
    <2>2. QED
      BY <2>1, GoesWithin DEF UpdateOps
  <1>4. ASSUME UpdateRemovesOld PROVE Within
    <2>1. call.op = "update" /\ \E pos : Goto("update new", pos) \/ Goto("undo update", pos)
      BY <1>4 DEF UpdateRemovesOld
    <2>2. QED
      BY <2>1, GoesWithin DEF UpdateOps
  <1>5. ASSUME UpdateInsertsNew PROVE Within
    <2>1. call.op = "update new" /\ \E pos : Goto("update", pos) \/ Goto("restore old", pos)
      BY <1>5 DEF UpdateInsertsNew
    <2>2. QED
      BY <2>1, GoesWithin DEF UpdateOps
  <1>6. ASSUME UpdateRestoresOld PROVE Within
    <2>1. call.op = "restore old" /\ \E pos : Goto("undo update", pos)
      BY <1>6 DEF UpdateRestoresOld
    <2>2. QED
      BY <2>1, GoesWithin DEF UpdateOps
  <1>7. ASSUME UndoUpdateNew PROVE Within
    <2>1. call.op = "undo update" /\ \E pos : Goto("undo update", pos) \/ Goto("undo update old", pos)
      BY <1>7 DEF UndoUpdateNew
    <2>2. QED
      BY <2>1, GoesWithin DEF UpdateOps
  <1>8. ASSUME UndoUpdateOld PROVE Within
    <2>1. call.op = "undo update old" /\ \E pos : Goto("undo update", pos)
      BY <1>8 DEF UndoUpdateOld
    <2>2. QED
      BY <2>1, GoesWithin DEF UpdateOps
  <1>9. ASSUME DeleteEntry PROVE Within
    <2>1. call.op = "delete" /\ \E pos : Goto("delete", pos) \/ Goto("undo delete", pos)
      BY <1>9 DEF DeleteEntry
    <2>2. QED
      BY <2>1, GoesWithin DEF DeleteOps
  <1>10. ASSUME UndoDeleteEntry PROVE Within
    <2>1. call.op = "undo delete" /\ \E pos : Goto("undo delete", pos)
      BY <1>10 DEF UndoDeleteEntry
    <2>2. QED
      BY <2>1, GoesWithin DEF DeleteOps
  <1>11. ASSUME DeleteHeapRecord, call'.op # "idle" PROVE Within
    <2>1. call.op = "delete" /\ (Return("ok") \/ \E pos : Goto("undo delete", pos))
      BY <1>11 DEF DeleteHeapRecord
    <2>2. ~Return("ok")
      BY <1>11, CallFacts DEF Return
    <2>3. QED
      BY <2>1, <2>2, GoesWithin DEF DeleteOps
  <1>12. QED
    BY <1>1, <1>2, <1>3, <1>4, <1>5, <1>6, <1>7, <1>8, <1>9, <1>10, <1>11

\* A statement starts as a call of the rows.
LEMMA StartIsCall ==
    ASSUME SInv, NEW op \in {"insert", "update", "delete"}, NEW rid \in RecordIDs,
           NEW old \in Records, NEW new \in Records, Start(op, rid, old, new)
    PROVE  Rows!Call
  <1>0. op = "insert" \/ op = "update" \/ op = "delete"
    OBVIOUS
  <1>1. /\ call = Idle /\ errors <= 1 /\ before' = heap /\ result' = result
        /\ call' = [op |-> op, rid |-> rid, old |-> old, new |-> new, pos |-> 1]
    BY DEF Start
  <1>2. call'.op = op /\ call'.rid = rid /\ call'.new = new
    BY <1>1
  <1>3. call' # Idle
    BY <1>0, <1>2, CallFacts
  <1>4. Committed' = Committed
    BY <1>1, <1>3 DEF Committed
  <1>5. Request = <<>>
    BY <1>1, CallFacts, RequestFacts
  <1>6. Request' \in Rows!Requests
    <2>1. CASE op = "insert"
      <3>1. Request' = <<"insert", new>>
        BY <1>2, <2>1, RequestThen DEF InsertOps
      <3>2. QED
        BY <3>1 DEF Rows!Requests
    <2>2. CASE op = "update"
      <3>1. Request' = <<"update", rid, new>>
        BY <1>2, <2>2, RequestThen DEF UpdateOps
      <3>2. QED
        BY <3>1 DEF Rows!Requests
    <2>3. CASE op = "delete"
      <3>1. Request' = <<"delete", rid>>
        BY <1>2, <2>3, RequestThen DEF DeleteOps
      <3>2. QED
        BY <3>1 DEF Rows!Requests
    <2>4. QED
      BY <1>0, <2>1, <2>2, <2>3
  <1>7. QED
    BY <1>1, <1>4, <1>5, <1>6 DEF Rows!Call, Rows!NoRequest

\* A statement that ends, seen from the rows.
LEMMA EndCommits ==
    ASSUME SInv, call.op \in Ops, call' = Idle, before' = before
    PROVE  /\ Committed = before /\ Request' = <<>>
           /\ Committed' = IF errors' <= 1 THEN heap' ELSE before
  BY InProgress, CallFacts, RequestThen DEF Committed

\* One that fails with its row put back, or with a second error, has refused.
LEMMA EndRefuses ==
    ASSUME SInv, call.op \in Ops, call' = Idle, before' = before, result' = "error",
           errors' <= 1 => heap' = before
    PROVE  Rows!Refuse
  <1>1. Committed' = Committed /\ Request' = <<>>
    BY EndCommits
  <1>2. QED
    BY <1>1 DEF Rows!Refuse, Rows!Report, Rows!NoRequest

\* The row in hand, before and after, for each way a statement ends.
LEMMA EndsAreAnswers ==
    ASSUME SInv, before' = before
    PROVE  /\ InsertDone => Rows!InsertRecord(call.rid, call.new)
           /\ UpdateDone => Rows!UpdateRecord(call.rid, call.new)
           /\ DeleteHeapRecord /\ call'.op = "idle" => Rows!DeleteRecord(call.rid)
           /\ UndoInsertRecord \/ UndoUpdateRecord \/ UndoDeleteDone => Rows!Refuse
  <1>1. ASSUME InsertDone PROVE Rows!InsertRecord(call.rid, call.new)
    <2>1. /\ call.op = "insert" /\ call' = Idle /\ result' = "ok" /\ heap' = heap /\ errors' = errors
      BY <1>1 DEF InsertDone, NoCall, Return
    <2>2. call.op \in Ops /\ call.op \in InsertOps /\ call.op \notin DeleteOps /\ call.op \in ForwardOps
      BY <2>1 DEF Ops, InsertOps, DeleteOps, ForwardOps
    <2>3. heap = [before EXCEPT ![call.rid] = call.new] /\ before[call.rid] = None /\ errors = 0
      BY <2>2, InProgress DEF RowInv, ShapeInv, Shape
    <2>4. 0 <= 1
      OBVIOUS
    <2>5. Committed = before /\ Committed' = heap /\ Request' = <<>>
      BY <2>1, <2>2, <2>3, <2>4, EndCommits
    <2>6. Request = <<"insert", call.new>>
      BY <2>2, RequestFacts
    <2>7. QED
      BY <2>1, <2>3, <2>5, <2>6 DEF Rows!InsertRecord, Rows!Asked, Rows!Report, Rows!NoRequest
  <1>2. ASSUME UpdateDone PROVE Rows!UpdateRecord(call.rid, call.new)
    <2>1. /\ call.op = "update" /\ call' = Idle /\ result' = "ok" /\ heap' = heap /\ errors' = errors
      BY <1>2 DEF UpdateDone, NoCall, Return
    <2>2. /\ call.op \in Ops /\ call.op \in UpdateOps /\ call.op \in ForwardOps
          /\ call.op \notin InsertOps /\ call.op \notin DeleteOps
      BY <2>1 DEF Ops, InsertOps, UpdateOps, DeleteOps, ForwardOps
    <2>3. heap = [before EXCEPT ![call.rid] = call.new] /\ before[call.rid] = call.old /\ errors = 0
      BY <2>2, InProgress DEF RowInv, ShapeInv, Shape
    <2>4. 0 <= 1
      OBVIOUS
    <2>5. Committed = before /\ Committed' = heap /\ Request' = <<>>
      BY <2>1, <2>2, <2>3, <2>4, EndCommits
    <2>6. Request = <<"update", call.rid, call.new>>
      BY <2>2, RequestFacts
    <2>7. before[call.rid] # None
      BY <2>2, <2>3, EndFacts
    <2>8. QED
      BY <2>1, <2>3, <2>5, <2>6, <2>7
         DEF Rows!UpdateRecord, Rows!Asked, Rows!Report, Rows!NoRequest
  <1>3. ASSUME DeleteHeapRecord, call'.op = "idle" PROVE Rows!DeleteRecord(call.rid)
    <2>1. call.op = "delete"
      BY <1>3 DEF DeleteHeapRecord
    <2>2. /\ call.op \in Ops /\ call.op \in DeleteOps /\ call.op \in ForwardOps
          /\ call.op \notin InsertOps
      BY <2>1 DEF Ops, InsertOps, DeleteOps, ForwardOps
    <2>3. heap = before /\ before[call.rid] = call.old /\ errors = 0
      BY <2>2, InProgress DEF RowInv, ShapeInv, Shape
    <2>4. HeapWrite(None) /\ Return("ok")
      <3>1. ~Goto("undo delete", NumIndexes)
        <4>1. ASSUME Goto("undo delete", NumIndexes) PROVE call'.op = "undo delete"
          BY <2>2, <4>1, InProgress DEF Goto, Statements
        <4>2. QED
          BY <1>3, <4>1
      <3>2. QED
        BY <1>3, <3>1 DEF DeleteHeapRecord
    <2>5. /\ call' = Idle /\ result' = "ok" /\ errors' = errors
          /\ heap' = [before EXCEPT ![call.rid] = None]
      BY <2>3, <2>4 DEF HeapWrite, Return
    <2>6. 0 <= 1
      OBVIOUS
    <2>7. Committed = before /\ Committed' = heap' /\ Request' = <<>>
      BY <2>2, <2>3, <2>5, <2>6, EndCommits
    <2>8. Request = <<"delete", call.rid>>
      BY <2>2, RequestFacts
    <2>9. before[call.rid] # None
      BY <2>2, <2>3, EndFacts
    <2>10. QED
      BY <2>5, <2>7, <2>8, <2>9 DEF Rows!DeleteRecord, Rows!Asked, Rows!Report, Rows!NoRequest
  <1>4. ASSUME UndoInsertRecord PROVE Rows!Refuse
    <2>1. call.op = "undo insert" /\ call' = Idle /\ result' = "error"
      BY <1>4 DEF UndoInsertRecord, Return
    <2>2. call.op \in Ops /\ call.op \in InsertOps /\ call.op \notin DeleteOps /\ call.op \notin ForwardOps
      BY <2>1 DEF Ops, InsertOps, DeleteOps, ForwardOps
    <2>3. /\ heap = [before EXCEPT ![call.rid] = call.new] /\ before[call.rid] = None
          /\ errors >= 1
      BY <2>2, InProgress DEF RowInv, ShapeInv, Shape
    <2>4. HeapWrite(None) => heap' = before
      BY <2>2, <2>3, EndFacts DEF HeapWrite
    <2>5. IOError => ~(errors' <= 1)
      <3>1. errors \in Nat
        BY <2>2, EndFacts
      <3>2. ~(errors + 1 <= 1)
        BY <2>3, <3>1
      <3>3. QED
        BY <3>2 DEF IOError
    <2>6. QED
      BY <1>4, <2>1, <2>2, <2>4, <2>5, EndRefuses DEF UndoInsertRecord
  <1>5. ASSUME UndoUpdateRecord PROVE Rows!Refuse
    <2>1. call.op = "undo update" /\ call' = Idle /\ result' = "error"
      BY <1>5 DEF UndoUpdateRecord, Return
    <2>2. /\ call.op \in Ops /\ call.op \notin InsertOps /\ call.op \notin DeleteOps
          /\ call.op \notin ForwardOps
      BY <2>1 DEF Ops, InsertOps, UpdateOps, DeleteOps, ForwardOps
    <2>3. /\ heap = [before EXCEPT ![call.rid] = call.new] /\ before[call.rid] = call.old
          /\ errors >= 1
      BY <2>2, InProgress DEF RowInv, ShapeInv, Shape
    <2>4. HeapWrite(call.old) => heap' = before
      BY <2>2, <2>3, EndFacts DEF HeapWrite
    <2>5. IOError => ~(errors' <= 1)
      <3>1. errors \in Nat
        BY <2>2, EndFacts
      <3>2. ~(errors + 1 <= 1)
        BY <2>3, <3>1
      <3>3. QED
        BY <3>2 DEF IOError
    <2>6. QED
      BY <1>5, <2>1, <2>2, <2>4, <2>5, EndRefuses DEF UndoUpdateRecord
  <1>6. ASSUME UndoDeleteDone PROVE Rows!Refuse
    <2>1. call.op = "undo delete" /\ call' = Idle /\ result' = "error" /\ heap' = heap
      BY <1>6 DEF UndoDeleteDone, NoCall, Return
    <2>2. call.op \in Ops /\ call.op \in DeleteOps
      BY <2>1 DEF Ops, InsertOps, UpdateOps, DeleteOps
    <2>3. heap = before
      BY <2>2, InProgress DEF RowInv
    <2>4. QED
      BY <2>1, <2>2, <2>3, EndRefuses
  <1>7. QED
    BY <1>1, <1>2, <1>3, <1>4, <1>5, <1>6

\* Every step of a statement is a step of the rows, or is not seen.
LEMMA RowsNext ==
    SInv /\ [TableNext]_tableVars => [Rows!TableNext]_<<Committed, Request, result>>
  <1>1. SUFFICES ASSUME SInv, [TableNext]_tableVars
                 PROVE  Rows!TableNext \/ UNCHANGED <<Committed, Request, result>>
    OBVIOUS
  <1>2. CASE UNCHANGED tableVars
    <2>1. UNCHANGED <<heap, call, before, errors, result>>
      BY <1>2 DEF tableVars
    <2>2. QED
      BY <2>1 DEF Committed, Request
  <1>3. CASE NotExecuted
    <2>1. UNCHANGED <<heap, call, before, errors>> /\ call = Idle /\ result' = "error"
      BY <1>3 DEF NotExecuted
    <2>2. Committed' = Committed /\ Request' = <<>>
      BY <2>1, CallFacts, RequestThen DEF Committed
    <2>3. Rows!Refuse
      BY <2>1, <2>2 DEF Rows!Refuse, Rows!Report, Rows!NoRequest
    <2>4. QED
      BY <2>3 DEF Rows!TableNext
  <1>4. CASE CallStep
    <2>1. before' = before
      BY <1>4 DEF CallStep
    <2>2. CASE Within
      BY <1>1, <2>2, WithinStutters
    <2>3. CASE InsertDone \/ UpdateDone \/ (DeleteHeapRecord /\ call'.op = "idle")
      <3>1. call.op \in Ops
        BY <2>3 DEF InsertDone, UpdateDone, DeleteHeapRecord, Ops, InsertOps, UpdateOps, DeleteOps
      <3>2. call.rid \in RecordIDs /\ call.new \in Records
        BY <1>1, <3>1, EndFacts
      <3>3. \/ Rows!InsertRecord(call.rid, call.new) \/ Rows!UpdateRecord(call.rid, call.new)
            \/ Rows!DeleteRecord(call.rid)
        BY <1>1, <2>1, <2>3, EndsAreAnswers
      <3>4. QED
        BY <3>2, <3>3 DEF Rows!TableNext
    <2>4. CASE UndoInsertRecord \/ UndoUpdateRecord \/ UndoDeleteDone
      BY <1>1, <2>1, <2>4, EndsAreAnswers DEF Rows!TableNext
    <2>5. QED
      BY <1>4, <2>1, <2>2, <2>3, <2>4, Goings DEF CallStep
  <1>5. ASSUME NEW rid \in RecordIDs PROVE StartDelete(rid) => Rows!Call
    <2>1. heap[rid] # None => heap[rid] \in Records
      BY <1>1 DEF SInv, TypeInv
    <2>2. QED
      BY <1>1, <2>1, StartIsCall DEF StartDelete
  <1>6. ASSUME NEW rid \in RecordIDs, NEW r \in Records
        PROVE  StartInsert(rid, r) \/ StartUpdate(rid, r) => Rows!Call
    <2>1. heap[rid] # None => heap[rid] \in Records
      BY <1>1 DEF SInv, TypeInv
    <2>2. StartInsert(rid, r) => Rows!Call
      BY <1>1, StartIsCall DEF StartInsert
    <2>3. StartUpdate(rid, r) => Rows!Call
      BY <1>1, <2>1, StartIsCall DEF StartUpdate
    <2>4. QED
      BY <2>2, <2>3
  <1>7. Rows!Call => Rows!TableNext
    BY DEF Rows!TableNext
  <1>8. QED
    BY <1>1, <1>2, <1>3, <1>4, <1>5, <1>6, <1>7 DEF TableNext

\* INSERT, UPDATE and DELETE take effect on their row at once or not at all, for
\* every number of indexes and whatever call of a statement fails first.
THEOREM StatementsAtomic == StorageSpec => ImplementsAtomicRows
  <1>1. TableInit => Rows!TableInit
    <2>1. SUFFICES ASSUME TableInit PROVE Rows!TableInit
      OBVIOUS
    <2>2. /\ heap = [rid \in RecordIDs |-> None] /\ call = Idle /\ before = heap
          /\ result = "ok"
      BY <2>1 DEF TableInit
    <2>3. Committed = heap /\ Request = <<>>
      BY <2>2, CallFacts, RequestFacts DEF Committed
    <2>4. QED
      BY <2>2, <2>3 DEF Rows!TableInit, Rows!NoRequest
  <1>2. QED
    BY <1>1, TableInitInv, TableNextInv, RowsNext, PTL
       DEF StorageSpec, ImplementsAtomicRows, Rows!TableSpec
=============================================================================
