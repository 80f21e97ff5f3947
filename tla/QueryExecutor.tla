---------------------------- MODULE QueryExecutor ----------------------------
(***************************************************************************)
(* The statements on one table (src/src/query/executor.cpp): planning, the *)
(* operators of a plan (src/src/query/operators), and the changes UPDATE   *)
(* and DELETE make row by row once the scan is over.                       *)
(*                                                                         *)
(* Table and indexes are used as TableStorage and HashIndex promise them.  *)
(* A row operation succeeds, or fails and changes nothing; when its        *)
(* rollback fails as well it leaves the row and its entries in any state   *)
(* between before and after, and damaged says so from then on.  An index   *)
(* entry is the value, which stands for its key (RecordCodec.tla shows     *)
(* that keys tell values apart).  Record identifiers are numbered in the   *)
(* order a sequential scan meets them.                                     *)
(***************************************************************************)
EXTENDS FieldValues, FiniteSets, SequencesExt

CONSTANTS RecordIDs, Schema,
          MaxKeyLength,  \* HashIndexBucketPage::MAX_KEY_LENGTH
          Statements,    \* what the users ask for
          None           \* no row

(* What the parser makes of a text, names of columns being resolved to     *)
(* their numbers, those of no column to any other number.                  *)
Condition == [column : Nat, op : {"=", ">", "<", ">=", "<="}, value : Literals]
SQLStatements ==
    [op : {"select"}, phase : {""}, fields : Seq(Nat), where : Seq(Condition)]
    \cup [op : {"update"}, phase : {""}, column : Nat, value : Literals, where : Seq(Condition)]
    \cup [op : {"delete"}, phase : {""}, where : Seq(Condition)]
    \cup [op : {"insert"}, values : Seq(Literals)]
    \cup [op : {"create index"}, column : Nat]

ASSUME QueryAssumption == /\ RecordIDs \subseteq Nat /\ IsFiniteSet(RecordIDs)
                          /\ MaxKeyLength \in Nat
                          /\ Schema \in SchemaType /\ Statements \subseteq SQLStatements

VARIABLES heap,       \* rows by RecordID
          indexed,    \* the columns that have an index
          index,      \* entries <<value, rid>> of each index
          damaged,    \* a rollback has failed
          stmt,       \* the statement in progress, or Idle
          cursor,     \* what its access path has still to visit
          pending,    \* the rows its scan has found
          affected,   \* rows_affected
          before,     \* heap and damaged when it started
          unread,     \* history: the rows whose page its index scan could not read
          status      \* what the last statement returned

queryVars == <<heap, indexed, index, damaged,
               stmt, cursor, pending, affected, before, unread, status>>
tablePart == <<heap, indexed, index, damaged>>

Columns == 1 .. Len(Schema)
Idle == [op |-> "idle"]
RowIds(h) == {rid \in RecordIDs : h[rid] # None}

Running == <<cursor, pending, affected, before, unread>>
Nothing == [heap |-> [rid \in RecordIDs |-> None], damaged |-> FALSE]

(* The statement returns; what it kept for itself is gone.                 *)
Finish(how) == /\ stmt' = Idle /\ status' = how
               /\ cursor' = {} /\ pending' = <<>> /\ affected' = 0
               /\ before' = Nothing /\ unread' = {}

-----------------------------------------------------------------------------
(* FilterOperator.                                                         *)
Compare(less, equal, op) == CASE op = "="  -> equal
                              [] op = ">"  -> ~less /\ ~equal
                              [] op = "<"  -> less
                              [] op = ">=" -> ~less
                              [] op = "<=" -> less \/ equal

(* NULL satisfies no condition, and booleans know equality only.           *)
Evaluate(row, condition) ==
    LET left == row[condition.column]
        right == ConvertLiteral(Schema[condition.column], condition.value, FALSE)
    IN CASE left.type = "INTEGER" -> Compare(left.int < right.int, left = right, condition.op)
         [] left.type = "VARCHAR" -> Compare(TextLess(left.text, right.text), left = right, condition.op)
         [] left.type = "BOOLEAN" -> condition.op = "=" /\ left = right
         [] left.type = "NULL"    -> FALSE

(* Every condition of the statement is a FilterOperator of its own, the    *)
(* one an index serves included.                                           *)
PassesFilters(row, s) == \A i \in 1 .. Len(s.where) : Evaluate(row, s.where[i])

-----------------------------------------------------------------------------
(* BuildPlan and Open.                                                     *)
Encodable(value) == value.type = "VARCHAR" => Len(value.text) + 1 <= MaxKeyLength

Target(condition) == ConvertLiteral(Schema[condition.column], condition.value, FALSE)

(* The first equality on an indexed column, 0 if there is none.            *)
IndexedCondition(s) ==
    SelectInSeq(s.where, LAMBDA c : c.op = "=" /\ c.column \in indexed)

(* What BuildPlan, Open and the conversion of the SET value may object to. *)
Accepted(s) ==
    /\ \A i \in 1 .. Len(s.where) : /\ s.where[i].column \in Columns
                                    /\ Target(s.where[i]) # Invalid
    /\ IndexedCondition(s) # 0 => Encodable(Target(s.where[IndexedCondition(s)]))
    /\ s.op = "update" => s.column \in Columns
                          /\ ConvertLiteral(Schema[s.column], s.value, TRUE) # Invalid
    /\ s.op = "select" => \A i \in 1 .. Len(s.fields) : s.fields[i] \in Columns

(* GetValue(key) of the index, or every page of the table.                 *)
Candidates(s) ==
    LET i == IndexedCondition(s)
    IN IF i = 0 THEN RecordIDs
       ELSE {rid \in RecordIDs : <<Target(s.where[i]), rid>> \in index[s.where[i].column]}

Scans(s) == s.op \in {"select", "update", "delete"}

Start(s) == stmt = Idle /\ s \in Statements

Ends(how) == status' = how /\ UNCHANGED <<stmt, Running>>

Refuse(s) == /\ Start(s) /\ Scans(s) /\ ~Accepted(s)
             /\ Ends("error") /\ UNCHANGED tablePart

OpenPlan(s) == /\ Start(s) /\ Scans(s) /\ Accepted(s)
               /\ stmt' = [s EXCEPT !.phase = "scan"]
               /\ cursor' = Candidates(s)
               /\ before' = [heap |-> heap, damaged |-> damaged]
               /\ UNCHANGED <<tablePart, pending, affected, unread, status>>

(* GetValue meets an error.                                                *)
OpenFails(s) == /\ Start(s) /\ Scans(s) /\ Accepted(s) /\ IndexedCondition(s) # 0
                /\ Ends("error") /\ UNCHANGED tablePart

-----------------------------------------------------------------------------
(* Next: the sequential scan goes through the rows in order, the index     *)
(* scan through the identifiers in the order of its chain, whatever it is. *)
InOrder(rid) == IndexedCondition(stmt) = 0 => \A r \in cursor : rid <= r

Scanning == stmt # Idle /\ stmt.phase = "scan"

(* An identifier without a record does not stop the scan.                  *)
BugScanSkips(rid) ==
    /\ Scanning /\ rid \in cursor /\ InOrder(rid)
    /\ ~(heap[rid] # None /\ PassesFilters(heap[rid], stmt))
    /\ UNCHANGED queryVars
ScanSkips(rid) ==
    /\ Scanning /\ rid \in cursor /\ InOrder(rid)
    /\ ~(heap[rid] # None /\ PassesFilters(heap[rid], stmt))
    /\ cursor' = cursor \ {rid}
    /\ UNCHANGED <<tablePart, stmt, pending, affected, before, unread, status>>

BugScanFinds(rid) ==
    /\ Scanning /\ rid \in cursor /\ InOrder(rid)
    /\ heap[rid] # None
    /\ IndexedCondition(stmt) # 0 \/ PassesFilters(heap[rid], stmt)
    /\ cursor' = cursor \ {rid} /\ pending' = Append(pending, rid)
    /\ UNCHANGED <<tablePart, stmt, affected, before, unread, status>>
ScanFinds(rid) ==
    /\ Scanning /\ rid \in cursor /\ InOrder(rid)
    /\ heap[rid] # None /\ PassesFilters(heap[rid], stmt)
    /\ cursor' = cursor \ {rid} /\ pending' = Append(pending, rid)
    /\ UNCHANGED <<tablePart, stmt, affected, before, unread, status>>

(* HeapFile::GetRecord answers NotFound for a page it cannot fetch, as it  *)
(* does for an empty slot, and the index scan goes on.                     *)
ScanLoses(rid) ==
    /\ Scanning /\ IndexedCondition(stmt) # 0 /\ rid \in cursor
    /\ cursor' = cursor \ {rid} /\ unread' = unread \cup {rid}
    /\ UNCHANGED <<tablePart, stmt, pending, affected, before, status>>

(* A page cannot be read or a record not decoded: the operators keep the   *)
(* error, Next returns false, and Close reports it.                        *)
ScanFails == Scanning /\ Finish("error") /\ UNCHANGED tablePart

ScanEnds ==
    /\ Scanning /\ cursor = {}
    /\ \/ stmt.op = "select" /\ Finish("ok")
       \/ /\ stmt.op # "select"
          /\ stmt' = [stmt EXCEPT !.phase = "apply"]
          /\ UNCHANGED <<Running, status>>
    /\ UNCHANGED tablePart

-----------------------------------------------------------------------------
(* TableStorage: the row of an operation, and the entries a row has.       *)
Entries(column, rid, row) == IF row = None \/ row[column] = Null THEN {}
                             ELSE {<<row[column], rid>>}

(* Index keys are encoded before anything is touched.                      *)
KeysEncodable(row) == \A c \in indexed : Encodable(row[c])

(* An entry to be removed that is not there makes the operation fail.      *)
EntriesThere(rid, new) ==
    \A c \in indexed : \/ new # None /\ new[c] = heap[rid][c]
                       \/ Entries(c, rid, heap[rid]) \subseteq index[c]

Put(rid, new) ==
    /\ heap' = [heap EXCEPT ![rid] = new]
    /\ index' = [c \in Columns |-> IF c \notin indexed THEN index[c]
                    ELSE (index[c] \ Entries(c, rid, heap[rid])) \cup Entries(c, rid, new)]
    /\ UNCHANGED <<indexed, damaged>>

(* The operation fails halfway and so does its rollback: of the entries it *)
(* removes and those it inserts, any may be there.  A row is deleted last. *)
Damage(rid, new) ==
    LET touched == {c \in indexed : new = None \/ heap[rid] = None \/ new[c] # heap[rid][c]}
        old(c) == Entries(c, rid, heap[rid])
    IN /\ touched # {}
       /\ heap' \in {heap} \cup (IF new = None THEN {} ELSE {[heap EXCEPT ![rid] = new]})
       /\ \E there \in SUBSET UNION {{c} \X ((old(c) \cap index[c]) \cup Entries(c, rid, new)) : c \in touched} :
             index' = [c \in Columns |-> IF c \notin touched THEN index[c]
                          ELSE (index[c] \ old(c)) \cup {p[2] : p \in {q \in there : q[1] = c}}]
       /\ damaged' = TRUE /\ UNCHANGED indexed

-----------------------------------------------------------------------------
(* The second half of UPDATE and DELETE, row by row.  UPDATE writes the    *)
(* row the scan has read; DELETE none.                                     *)
Applying == stmt # Idle /\ stmt.phase = "apply"
RowInHand == pending[affected + 1]
NewRow(s, row) == IF s.op = "delete" THEN None
                  ELSE [row EXCEPT ![s.column] = ConvertLiteral(Schema[s.column], s.value, TRUE)]
NewRowInHand == NewRow(stmt, before.heap[RowInHand])
More == affected < Len(pending)

Doable == /\ stmt.op = "update" => KeysEncodable(NewRowInHand)
          /\ EntriesThere(RowInHand, NewRowInHand)

ApplyRow ==
    /\ Applying /\ More /\ Doable
    /\ Put(RowInHand, NewRowInHand)
    /\ affected' = affected + 1
    /\ UNCHANGED <<stmt, cursor, pending, before, unread, status>>

BugApplyFails ==
    /\ Applying /\ More
    /\ affected' = affected + 1
    /\ UNCHANGED <<tablePart, stmt, cursor, pending, before, unread, status>>
ApplyFails == Applying /\ More /\ Finish("error") /\ UNCHANGED tablePart

ApplyDamages ==
    /\ Applying /\ More
    /\ stmt.op = "update" => KeysEncodable(NewRowInHand)
    /\ Damage(RowInHand, NewRowInHand)
    /\ Finish("error")

ApplyEnds == Applying /\ ~More /\ Finish("ok") /\ UNCHANGED tablePart

-----------------------------------------------------------------------------
(* INSERT and CREATE INDEX.                                                *)
InsertedRow(s) == [c \in Columns |-> ConvertLiteral(Schema[c], s.values[c], TRUE)]

Convertible(s) == /\ Len(s.values) = Len(Schema)
                  /\ \A c \in Columns : InsertedRow(s)[c] # Invalid
                  /\ KeysEncodable(InsertedRow(s))

Insert(s, rid) == /\ Start(s) /\ s.op = "insert" /\ heap[rid] = None /\ Convertible(s)
                  /\ Put(rid, InsertedRow(s)) /\ Ends("ok")

InsertFails(s) == /\ Start(s) /\ s.op = "insert"
                  /\ UNCHANGED tablePart /\ Ends("error")

InsertDamages(s, rid) == /\ Start(s) /\ s.op = "insert" /\ heap[rid] = None /\ Convertible(s)
                         /\ Damage(rid, InsertedRow(s)) /\ Ends("error")

(* The rows already there are entered before the index is published.       *)
CreateIndex(s) ==
    /\ Start(s) /\ s.op = "create index" /\ s.column \in Columns \ indexed
    /\ \A rid \in RowIds(heap) : Encodable(heap[rid][s.column])
    /\ indexed' = indexed \cup {s.column}
    /\ index' = [index EXCEPT ![s.column] =
                    UNION {Entries(s.column, rid, heap[rid]) : rid \in RecordIDs}]
    /\ UNCHANGED <<heap, damaged>> /\ Ends("ok")

CreateIndexFails(s) == /\ Start(s) /\ s.op = "create index"
                       /\ UNCHANGED tablePart /\ Ends("error")

-----------------------------------------------------------------------------
QueryInit == /\ heap = [rid \in RecordIDs |-> None]
             /\ indexed = {} /\ index = [c \in Columns |-> {}] /\ damaged = FALSE
             /\ stmt = Idle /\ status = "ok"
             /\ cursor = {} /\ pending = <<>> /\ affected = 0
             /\ before = Nothing /\ unread = {}

StatementStep == \/ \E rid \in RecordIDs : ScanSkips(rid) \/ ScanFinds(rid) \/ ScanLoses(rid)
                 \/ ScanFails \/ ScanEnds
                 \/ ApplyRow \/ ApplyFails \/ ApplyDamages \/ ApplyEnds

QueryNext == \/ \E s \in Statements : \/ Refuse(s) \/ OpenPlan(s) \/ OpenFails(s)
                                      \/ InsertFails(s) \/ CreateIndex(s) \/ CreateIndexFails(s)
                                      \/ \E rid \in RecordIDs : Insert(s, rid) \/ InsertDamages(s, rid)
             \/ StatementStep

(* A statement that was started goes on; it does not count on an error to  *)
(* come to its end.                                                        *)
Work == \/ \E rid \in RecordIDs : ScanSkips(rid) \/ ScanFinds(rid)
        \/ ScanEnds \/ ApplyRow \/ ApplyEnds
        \/ Applying /\ More /\ ~Doable /\ ApplyFails

QuerySpec == QueryInit /\ [][QueryNext]_queryVars /\ WF_queryVars(Work)

-----------------------------------------------------------------------------
(* Properties.                                                             *)

(* What a WHERE clause asks for, said without the plan.                    *)
Below(v, w) == \/ v.type = "INTEGER" /\ v.int < w.int
               \/ v.type = "VARCHAR" /\ TextLess(v.text, w.text)
Satisfies(v, op, w) == /\ v # Null
                       /\ v.type = "BOOLEAN" => op = "="
                       /\ \/ v = w /\ op \in {"=", "<=", ">="}
                          \/ Below(v, w) /\ op \in {"<", "<="}
                          \/ Below(w, v) /\ op \in {">", ">="}
AskedFor(h, s) == {rid \in RowIds(h) : \A i \in 1 .. Len(s.where) :
                      Satisfies(h[rid][s.where[i].column], s.where[i].op, Target(s.where[i]))}

Returns(ops) == stmt.op \in ops /\ stmt' = Idle

\* QueryExecutor::Execute answers a SELECT with rows that satisfy every condition,
\* each once, whichever access path BuildPlan has taken and whatever stale entries
\* a failed rollback left in the index; as long as no rollback has failed, with all
\* of them whose pages an index scan could read.
AnswersExact ==
    [][Returns({"select"}) /\ status' = "ok" =>
          /\ IsInjective(pending)
          /\ ToSet(pending) \subseteq AskedFor(heap, stmt)
          /\ ~damaged => ToSet(pending) = AskedFor(heap, stmt) \ unread]_queryVars

\* BuildPlan may choose either access path because they are equivalent: a SELECT that
\* reports success has all the rows its conditions ask for, through IndexScan as
\* through SeqScan, if no rollback has failed before.
IndexScanEquivalent ==
    [][Returns({"select"}) /\ status' = "ok" /\ ~damaged =>
          ToSet(pending) = AskedFor(heap, stmt)]_queryVars

\* ExecuteUpdate and ExecuteDelete change the rows that satisfied the conditions
\* when the statement started, each once, an UPDATE of the column it searches
\* included (rows of pages its index scan could not read excepted), and
\* rows_affected is their number.  When a row fails, the rows before it keep their
\* change, the ones after it are untouched, and the row itself is as before unless
\* its rollback failed too.
ChangesExact ==
    [][Returns({"update", "delete"}) =>
          LET changed == ToSet(SubSeq(pending, 1, affected))
              asked == AskedFor(before.heap, stmt)
              New(rid) == NewRow(stmt, before.heap[rid])
              Torn(rid) == /\ damaged' /\ status' = "error"
                           /\ rid = RowInHand /\ heap'[rid] = New(rid)
          IN /\ changed \subseteq asked /\ Cardinality(changed) = affected
             /\ status' = "ok" /\ ~before.damaged => changed = asked \ unread
             /\ \A rid \in RecordIDs :
                   IF rid \in changed THEN heap'[rid] = New(rid)
                   ELSE heap'[rid] = before.heap[rid] \/ Torn(rid)]_queryVars

\* A statement that was started ends, the rows it finds or fails on notwithstanding:
\* the loops of ExecuteUpdate, ExecuteDelete and of the operators' Next terminate.
QueryEnds == stmt # Idle ~> stmt = Idle
=============================================================================
