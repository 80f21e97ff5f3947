----------------------------- MODULE TableStorage -----------------------------
(***************************************************************************)
(* INSERT, UPDATE and DELETE of one row                                    *)
(* (src/src/storage/table_storage.cpp): the record in the heap file and an *)
(* entry in each hash index of the table, kept in step by undoing by hand  *)
(* what was done before a failing call.                                    *)
(*                                                                         *)
(* A step is one call of HeapFile or HashIndex; both are used as their     *)
(* abstract specifications describe them: a call that reports an error has *)
(* changed nothing.  A call fails because of an isolated I/O error, at     *)
(* most MaxErrors in a statement, or because the device is full, and then  *)
(* every insertion that needs another bucket page fails.  A second error   *)
(* may hit the rollback itself; what it leaves behind is not repaired, and *)
(* the model follows the program to the end of that statement only.        *)
(***************************************************************************)
EXTENDS Integers, FiniteSets

CONSTANTS RecordIDs,
          NumIndexes,   \* indexes of the table; record r has key r[i] in index i
          Keys, NULL,
          None,         \* no record
          MaxErrors     \* bound: errors the calls of a statement meet

ASSUME TableAssumption ==
    /\ NumIndexes \in Nat /\ NULL \notin Keys /\ MaxErrors \in Nat
    /\ None \notin [1 .. NumIndexes -> Keys \cup {NULL}]

VARIABLES heap,      \* records by RecordID
          index,     \* entries of each index
          space,     \* entries each index can hold without a new page
          full,      \* no page can be had during the current statement
          call,      \* the statement in progress, or Idle
          before,    \* heap when the statement started
          errors,    \* calls of the statement that an error or a full device made fail
          result     \* what the last statement has reported

tableVars == <<heap, index, space, full, call, before, errors, result>>

Indexes == 1 .. NumIndexes
Records == [Indexes -> Keys \cup {NULL}]
Idle == [op |-> "idle"]

Return(status) == call' = Idle /\ result' = status
Goto(op, pos) == call' = [call EXCEPT !.op = op, !.pos = pos] /\ UNCHANGED result

(* The calls of the heap file and of index i.                              *)
IOError == errors < MaxErrors /\ errors' = errors + 1

HeapWrite(r) == heap' = [heap EXCEPT ![call.rid] = r] /\ UNCHANGED errors

NeedsPage(i) == Cardinality(index[i]) = space[i]

IndexInsert(i, k) ==
    /\ NeedsPage(i) => ~full
    /\ index' = [index EXCEPT ![i] = @ \cup {<<k, call.rid>>}]
    /\ space' = IF NeedsPage(i) THEN [space EXCEPT ![i] = @ + 1] ELSE space
    /\ UNCHANGED errors

IndexInsertFails(i) ==
    /\ \/ IOError
       \/ full /\ NeedsPage(i) /\ errors' = IF errors = 0 THEN 1 ELSE errors
    /\ UNCHANGED <<index, space>>

Present(i, k) == <<k, call.rid>> \in index[i]

IndexRemove(i, k) == /\ Present(i, k)
                     /\ index' = [index EXCEPT ![i] = @ \ {<<k, call.rid>>}]
                     /\ UNCHANGED <<space, errors>>

(* NOT_FOUND, or an error.                                                 *)
IndexRemoveFails(i, k) == /\ IOError \/ (~Present(i, k) /\ UNCHANGED errors)
                          /\ UNCHANGED <<index, space>>

NoIndexCall == UNCHANGED <<index, space>>
NoCall == NoIndexCall /\ UNCHANGED <<heap, errors>>

(* The keys of the position in hand, before and after the statement.       *)
OldKey == call.old[call.pos]
NewKey == call.new[call.pos]

-----------------------------------------------------------------------------
(* A statement starts with its heap access, which may fail on its own.     *)
Start(op, rid, old, new) ==
    /\ call = Idle /\ errors <= 1
    /\ call' = [op |-> op, rid |-> rid, old |-> old, new |-> new, pos |-> 1]
    /\ before' = heap
    /\ errors' = 0
    /\ full' \in BOOLEAN
    /\ UNCHANGED <<index, space, result>>

NotExecuted ==
    /\ call = Idle
    /\ result' = "error"
    /\ UNCHANGED <<heap, index, space, full, call, before, errors>>

StartInsert(rid, r) ==
    /\ heap[rid] = None
    /\ Start("insert", rid, r, r)
    /\ heap' = [heap EXCEPT ![rid] = r]

(* All keys of the old and the new record have been encoded.               *)
StartUpdate(rid, r) ==
    /\ heap[rid] # None
    /\ Start("update", rid, heap[rid], r)
    /\ heap' = [heap EXCEPT ![rid] = r]

StartDelete(rid) ==
    /\ heap[rid] # None
    /\ Start("delete", rid, heap[rid], heap[rid])
    /\ UNCHANGED heap

-----------------------------------------------------------------------------
(* InsertRecord: the entries, index by index; NULL has none.               *)
InsertEntry ==
    /\ call.op = "insert" /\ call.pos \in Indexes
    /\ \/ NewKey = NULL /\ NoIndexCall /\ UNCHANGED errors /\ Goto("insert", call.pos + 1)
       \/ NewKey # NULL /\ IndexInsert(call.pos, NewKey) /\ Goto("insert", call.pos + 1)
       \/ NewKey # NULL /\ IndexInsertFails(call.pos) /\ Goto("undo insert", call.pos - 1)
    /\ UNCHANGED heap

InsertDone == call.op = "insert" /\ call.pos > NumIndexes /\ NoCall /\ Return("ok")

(* RollbackInsertedIndexEntries stops at its first error; the record is    *)
(* deleted in any case.                                                    *)
UndoInsertEntry ==
    /\ call.op = "undo insert" /\ call.pos > 0
    /\ \/ NewKey = NULL /\ NoIndexCall /\ UNCHANGED errors /\ Goto("undo insert", call.pos - 1)
       \/ NewKey # NULL /\ IndexRemove(call.pos, NewKey) /\ Goto("undo insert", call.pos - 1)
       \/ NewKey # NULL /\ IndexRemoveFails(call.pos, NewKey)
            /\ Goto("undo insert", IF Present(call.pos, NewKey) THEN 0 ELSE call.pos - 1)
    /\ UNCHANGED heap

UndoInsertRecord ==
    /\ call.op = "undo insert" /\ call.pos = 0
    /\ HeapWrite(None) \/ (IOError /\ UNCHANGED heap)
    /\ NoIndexCall /\ Return("error")

-----------------------------------------------------------------------------
(* UpdateRecord: in each index whose key changes, the old entry is removed *)
(* and then the new one inserted.  A failure goes to the rollback of the   *)
(* positions before it; its own removal is undone first.                   *)
UpdateSkips ==
    /\ call.op = "update" /\ call.pos \in Indexes /\ OldKey = NewKey
    /\ NoCall /\ Goto("update", call.pos + 1)

UpdateRemovesOld ==
    /\ call.op = "update" /\ call.pos \in Indexes /\ OldKey # NewKey
    /\ \/ OldKey = NULL /\ NoIndexCall /\ UNCHANGED errors /\ Goto("update new", call.pos)
       \/ OldKey # NULL /\ IndexRemove(call.pos, OldKey) /\ Goto("update new", call.pos)
       \/ OldKey # NULL /\ IndexRemoveFails(call.pos, OldKey) /\ Goto("undo update", call.pos - 1)
    /\ UNCHANGED heap

BugUpdateInsertsNew ==
    /\ call.op = "update new"
    /\ \/ NewKey = NULL /\ NoIndexCall /\ UNCHANGED errors /\ Goto("update", call.pos + 1)
       \/ NewKey # NULL /\ IndexInsert(call.pos, NewKey) /\ Goto("update", call.pos + 1)
       \/ NewKey # NULL /\ IndexInsertFails(call.pos) /\ Goto("undo update", call.pos - 1)
    /\ UNCHANGED heap
UpdateInsertsNew ==
    /\ call.op = "update new"
    /\ \/ NewKey = NULL /\ NoIndexCall /\ UNCHANGED errors /\ Goto("update", call.pos + 1)
       \/ NewKey # NULL /\ IndexInsert(call.pos, NewKey) /\ Goto("update", call.pos + 1)
       \/ NewKey # NULL /\ IndexInsertFails(call.pos) /\ Goto("restore old", call.pos)
    /\ UNCHANGED heap

UpdateRestoresOld ==
    /\ call.op = "restore old"
    /\ \/ OldKey = NULL /\ NoIndexCall /\ UNCHANGED errors
       \/ OldKey # NULL /\ (IndexInsert(call.pos, OldKey) \/ IndexInsertFails(call.pos))
    /\ Goto("undo update", call.pos - 1)
    /\ UNCHANGED heap

UpdateDone == call.op = "update" /\ call.pos > NumIndexes /\ NoCall /\ Return("ok")

(* The rollback goes on after an error.                                    *)
UndoUpdateNew ==
    /\ call.op = "undo update" /\ call.pos > 0
    /\ \/ OldKey = NewKey /\ NoIndexCall /\ UNCHANGED errors /\ Goto("undo update", call.pos - 1)
       \/ OldKey # NewKey /\ NewKey = NULL /\ NoIndexCall /\ UNCHANGED errors
            /\ Goto("undo update old", call.pos)
       \/ OldKey # NewKey /\ NewKey # NULL
            /\ (IndexRemove(call.pos, NewKey) \/ IndexRemoveFails(call.pos, NewKey))
            /\ Goto("undo update old", call.pos)
    /\ UNCHANGED heap

UndoUpdateOld ==
    /\ call.op = "undo update old"
    /\ \/ OldKey = NULL /\ NoIndexCall /\ UNCHANGED errors
       \/ OldKey # NULL /\ (IndexInsert(call.pos, OldKey) \/ IndexInsertFails(call.pos))
    /\ Goto("undo update", call.pos - 1)
    /\ UNCHANGED heap

BugUndoUpdateRecord ==
    /\ call.op = "undo update" /\ call.pos = 0
    /\ NoCall /\ Return("error")
UndoUpdateRecord ==
    /\ call.op = "undo update" /\ call.pos = 0
    /\ HeapWrite(call.old) \/ (IOError /\ UNCHANGED heap)
    /\ NoIndexCall /\ Return("error")

-----------------------------------------------------------------------------
(* DeleteRecord: the entries first, then the record.                       *)
DeleteEntry ==
    /\ call.op = "delete" /\ call.pos \in Indexes
    /\ \/ OldKey = NULL /\ NoIndexCall /\ UNCHANGED errors /\ Goto("delete", call.pos + 1)
       \/ OldKey # NULL /\ IndexRemove(call.pos, OldKey) /\ Goto("delete", call.pos + 1)
       \/ OldKey # NULL /\ IndexRemoveFails(call.pos, OldKey) /\ Goto("undo delete", call.pos - 1)
    /\ UNCHANGED heap

DeleteHeapRecord ==
    /\ call.op = "delete" /\ call.pos > NumIndexes
    /\ \/ HeapWrite(None) /\ Return("ok")
       \/ IOError /\ UNCHANGED heap /\ Goto("undo delete", NumIndexes)
    /\ NoIndexCall

(* RollbackRemovedIndexEntries stops at its first error.                   *)
BugUndoDeleteEntry ==
    /\ call.op = "undo delete" /\ call.pos > 0
    /\ \/ OldKey = NULL /\ NoIndexCall /\ UNCHANGED errors /\ Goto("undo delete", call.pos)
       \/ OldKey # NULL /\ IndexInsert(call.pos, OldKey) /\ Goto("undo delete", call.pos - 1)
    /\ UNCHANGED heap
UndoDeleteEntry ==
    /\ call.op = "undo delete" /\ call.pos > 0
    /\ \/ OldKey = NULL /\ NoIndexCall /\ UNCHANGED errors /\ Goto("undo delete", call.pos - 1)
       \/ OldKey # NULL /\ IndexInsert(call.pos, OldKey) /\ Goto("undo delete", call.pos - 1)
       \/ OldKey # NULL /\ IndexInsertFails(call.pos) /\ Goto("undo delete", 0)
    /\ UNCHANGED heap

UndoDeleteDone == call.op = "undo delete" /\ call.pos = 0 /\ NoCall /\ Return("error")

-----------------------------------------------------------------------------
TableInit == /\ heap = [rid \in RecordIDs |-> None]
             /\ index = [i \in Indexes |-> {}]
             /\ space = [i \in Indexes |-> 0]
             /\ full = FALSE /\ errors = 0
             /\ call = Idle /\ before = heap /\ result = "ok"

CallStep == /\ \/ InsertEntry \/ InsertDone \/ UndoInsertEntry \/ UndoInsertRecord
               \/ UpdateSkips \/ UpdateRemovesOld \/ UpdateInsertsNew
               \/ UpdateRestoresOld \/ UpdateDone
               \/ UndoUpdateNew \/ UndoUpdateOld \/ UndoUpdateRecord
               \/ DeleteEntry \/ DeleteHeapRecord \/ UndoDeleteEntry \/ UndoDeleteDone
            /\ UNCHANGED <<full, before>>

TableNext == \/ \E rid \in RecordIDs : \/ StartDelete(rid)
                                       \/ \E r \in Records : StartInsert(rid, r) \/ StartUpdate(rid, r)
             \/ NotExecuted
             \/ CallStep

(* A statement that was started goes on: nothing else runs.                *)
StorageSpec == TableInit /\ [][TableNext]_tableVars /\ WF_tableVars(CallStep)

-----------------------------------------------------------------------------
(* Properties.                                                             *)

\* Types of the heap, the indexes and the statement in progress.
StorageTypeOK ==
    /\ heap \in [RecordIDs -> Records \cup {None}]
    /\ before \in [RecordIDs -> Records \cup {None}]
    /\ index \in [Indexes -> SUBSET (Keys \X RecordIDs)]
    /\ \A i \in Indexes : space[i] >= Cardinality(index[i])
    /\ call # Idle => call.pos \in 0 .. NumIndexes + 1
    /\ result \in {"ok", "error"}

EntriesOf(i) == {<<heap[rid][i], rid>> :
                    rid \in {r \in RecordIDs : heap[r] # None /\ heap[r][i] # NULL}}

\* Between statements each index holds exactly one entry for every record whose
\* key is not NULL: no record an index lookup would miss, and no entry left
\* behind that a later record with the same RecordID would be found under.  One
\* failing call, or a full device, does not change that; a second error may.
IndexesMatchHeap ==
    /\ StorageTypeOK
    /\ call = Idle /\ errors <= 1 => \A i \in Indexes : index[i] = EntriesOf(i)

\* Every statement ends, with or without its rollback.
StatementEnds == (call # Idle) ~> (call = Idle)

(* The rows as the statements that have ended left them, and the statement *)
(* in progress, as a request.                                              *)
Committed == IF call = Idle /\ errors <= 1 THEN heap ELSE before

Request == CASE call.op = "idle" -> <<>>
             [] call.op \in {"insert", "undo insert"} -> <<"insert", call.new>>
             [] call.op \in {"update", "update new", "restore old", "undo update",
                             "undo update old"} -> <<"update", call.rid, call.new>>
             [] call.op \in {"delete", "undo delete"} -> <<"delete", call.rid>>

Rows == INSTANCE HeapTable WITH table <- Committed, request <- Request

\* "Ante un fallo intenta restaurar tanto los indices como el registro anterior"
\* (docs/architecture.md:83-84): a statement that reports an error has left every
\* row as it was, and one that reports success has changed the row it was asked
\* to change, to what it was asked to write, and no other.
ImplementsAtomicRows == Rows!TableSpec
=============================================================================
