------------------------------ MODULE BucketPage ------------------------------
(***************************************************************************)
(* One page of a hash index (src/src/index/bucket_page.cpp): an array of   *)
(* entries whose first entry_count ones are in use.  Remove moves the last *)
(* entry into the gap and looks at it next, so the order of the entries    *)
(* changes under its loop; the count in the page is written at the end.    *)
(* HashIndex takes a page for a set of entries, and this module is checked *)
(* to be one.                                                              *)
(***************************************************************************)
EXTENDS Integers, FiniteSets

CONSTANTS Keys, RecordIDs,
          Capacity,    \* ENTRY_CAPACITY
          AnyRid       \* std::nullopt: Remove(key) for all its records

ASSUME BucketAssumption == Capacity \in Nat \ {0} /\ AnyRid \notin RecordIDs

VARIABLES entries,      \* the array, Cleared where it is zero
          entry_count,  \* the count in the page
          request,      \* the call in progress; [op, key, rid]
          index, left,  \* index and entry_count of the loop of Remove
          result,
          before        \* history: the entries when the call started

bucketVars == <<entries, entry_count, request, index, left, result, before>>

Cleared == <<>>
Positions == 0 .. Capacity - 1
InUse(n) == {entries[i] : i \in 0 .. n - 1}
Idle == [op |-> "idle"]
Wanted(e) == e[1] = request.key /\ (request.rid = AnyRid \/ e[2] = request.rid)

Return(status) == /\ request' = Idle /\ result' = status
                  /\ index' = 0 /\ left' = 0 /\ UNCHANGED before

BucketInit == /\ entries = [i \in Positions |-> Cleared] /\ entry_count = 0
            /\ request = Idle /\ index = 0 /\ left = 0 /\ result = "ok"
            /\ before = {}

CallInsert(k, r) == /\ request = Idle
                    /\ request' = [op |-> "insert", key |-> k, rid |-> r]
                    /\ before' = InUse(entry_count)
                    /\ UNCHANGED <<entries, entry_count, index, left, result>>

BugInsertHere ==
    /\ request.op = "insert" /\ entry_count < Capacity
    /\ entries' = [entries EXCEPT ![entry_count] = <<request.key, request.rid>>]
    /\ entry_count' = entry_count + 1
    /\ Return("ok")
InsertHere ==
    /\ request.op = "insert" /\ <<request.key, request.rid>> \notin InUse(entry_count)
    /\ entry_count < Capacity
    /\ entries' = [entries EXCEPT ![entry_count] = <<request.key, request.rid>>]
    /\ entry_count' = entry_count + 1
    /\ Return("ok")

AlreadyThere == /\ request.op = "insert"
                /\ <<request.key, request.rid>> \in InUse(entry_count)
                /\ Return("ok") /\ UNCHANGED <<entries, entry_count>>

BugPageFull == /\ request.op = "insert" /\ entry_count = Capacity
               /\ Return("error") /\ UNCHANGED <<entries, entry_count>>
PageFull == /\ request.op = "insert" /\ entry_count = Capacity
            /\ <<request.key, request.rid>> \notin InUse(entry_count)
            /\ Return("error") /\ UNCHANGED <<entries, entry_count>>

-----------------------------------------------------------------------------
CallRemove(k, r) == /\ request = Idle
                    /\ request' = [op |-> "remove", key |-> k, rid |-> r]
                    /\ index' = 0 /\ left' = entry_count
                    /\ before' = InUse(entry_count)
                    /\ UNCHANGED <<entries, entry_count, result>>

Scanning == request.op = "remove" /\ index < left

RemovePasses == /\ Scanning /\ ~Wanted(entries[index])
                /\ index' = index + 1
                /\ UNCHANGED <<entries, entry_count, request, left, result, before>>

(* The last entry fills the gap and is examined next; the removal of one   *)
(* record ends the loop.                                                   *)
BugRemoveEntry ==
    /\ Scanning /\ Wanted(entries[index])
    /\ entries' = [entries EXCEPT ![index] = entries[left - 1], ![left - 1] = Cleared]
    /\ left' = left - 1
    /\ index' = IF request.rid = AnyRid THEN index + 1 ELSE left - 1
    /\ UNCHANGED <<entry_count, request, result, before>>
RemoveEntry ==
    /\ Scanning /\ Wanted(entries[index])
    /\ entries' = [entries EXCEPT ![index] = entries[left - 1], ![left - 1] = Cleared]
    /\ left' = left - 1
    /\ index' = IF request.rid = AnyRid THEN index ELSE left - 1
    /\ UNCHANGED <<entry_count, request, result, before>>

RemoveReturns == /\ request.op = "remove" /\ index >= left
                 /\ entry_count' = left
                 /\ Return(IF left = entry_count THEN "error" ELSE "ok")
                 /\ UNCHANGED entries

BucketNext == \/ \E k \in Keys, r \in RecordIDs : CallInsert(k, r)
            \/ \E k \in Keys, r \in RecordIDs \cup {AnyRid} : CallRemove(k, r)
            \/ InsertHere \/ AlreadyThere \/ PageFull
            \/ RemovePasses \/ RemoveEntry \/ RemoveReturns

BucketSpec == BucketInit /\ [][BucketNext]_bucketVars

-----------------------------------------------------------------------------
(* Properties.                                                             *)

\* HashIndexBucketPage: the entries in use are different from one another, and
\* beyond them, and beyond the entries a running Remove has kept, the page is zero.
ArrayTidy ==
    LET used == IF request.op = "remove" THEN left ELSE entry_count
    IN /\ \A i, j \in 0 .. used - 1 : i # j => entries[i] # entries[j]
       /\ \A i \in Positions : (i < used) <=> (entries[i] # Cleared)

\* HashIndexBucketPage refuses an insertion only when the page is full, and a
\* removal only when no entry asked for is there (HashIndex goes on to the next
\* page of the chain in either case).
RefusalsJustified ==
    [][request # Idle /\ request' = Idle /\ result' = "error" =>
          IF request.op = "insert"
          THEN Cardinality(before) = Capacity /\ <<request.key, request.rid>> \notin before
          ELSE \A e \in before : ~Wanted(e)]_bucketVars

(* A Remove in progress has not happened yet.                              *)
AbstractIndex == IF request.op = "remove" THEN before ELSE InUse(entry_count)
AbstractRequest ==
    CASE request.op = "idle" -> <<>>
      [] request.op = "insert" -> <<"insert", request.key, request.rid>>
      [] request.op = "remove" /\ request.rid = AnyRid -> <<"remove all", request.key>>
      [] request.op = "remove" /\ request.rid # AnyRid ->
            <<"remove", request.key, request.rid>>

EntrySet == INSTANCE IndexSet WITH index <- AbstractIndex, request <- AbstractRequest

\* A page is the set of entries HashIndex takes it for: a call takes effect at
\* once when it returns, and Remove(key) leaves no entry of the key although it
\* moves entries while it looks at them.
PageIsSet == EntrySet!IndexSpec
=============================================================================
