------------------------------- MODULE HashIndex -------------------------------
(***************************************************************************)
(* The persistent hash index (src/src/index/hash_index.cpp): a header page *)
(* with one entry per bucket, and for each bucket a chain of bucket pages  *)
(* (src/src/index/bucket_page.cpp), the first created by the first         *)
(* insertion and the others when the chain is full.                        *)
(*                                                                         *)
(* A step is one visit to a page, and each FetchPage and NewPage may fail, *)
(* as in HeapFile.  The entries of a page are a set: their order in the    *)
(* page's array is not visible, and BucketPage::Insert refuses duplicates. *)
(***************************************************************************)
EXTENDS Integers, FiniteSets, PageChain

CONSTANTS MaxPages,    \* bound: pages the device holds
          Keys, RecordIDs,
          BucketOf,    \* bucket of each key: StableHash(key) % bucket_count
          Capacity,    \* ENTRY_CAPACITY of a bucket page
          AnyRid       \* std::nullopt: Remove(key) for all its records

ASSUME CapacityAssumption == Capacity \in Nat \ {0} /\ AnyRid \notin RecordIDs

VARIABLES header,      \* NoIndex, or the header page: [page, buckets]
          bucket,      \* contents of the bucket pages
          allocated,   \* pages in use
          leaked,      \* history: pages the disk or a failed Destroy gave up
          call,        \* the call in progress, or Idle
          result       \* what the last Insert or Remove has reported

indexVars == <<header, bucket, allocated, leaked, call, result>>

PageIds == 1 .. MaxPages
Buckets == {BucketOf[k] : k \in Keys}

NoIndex == [page |-> INVALID_PAGE_ID, buckets |-> [b \in Buckets |-> INVALID_PAGE_ID]]
Blank == [initialized |-> FALSE, overflow |-> INVALID_PAGE_ID, entries |-> {}]
Fresh == [Blank EXCEPT !.initialized = TRUE]     \* HashIndexBucketPage::Init
Idle == [op |-> "idle"]

Exists == header.page # INVALID_PAGE_ID
Return(status) == call' = Idle /\ result' = status

(* NewPage hands out the smallest page that is not in use.                 *)
IsNewPage(p) == p \notin allocated /\ 1 .. p - 1 \subseteq allocated

(* DeletePage(p), as in HeapFile.                                          *)
Discard(p) ==
    /\ bucket' = [bucket EXCEPT ![p] = Blank]
    /\ \/ allocated' = allocated \ {p} /\ leaked' = leaked
       \/ leaked' = leaked \cup {p} /\ UNCHANGED allocated

(* HashIndexBucketPage::Remove takes one entry, or all those of the key.   *)
Matching(entries) ==
    {e \in entries : e[1] = call.key /\ (call.rid = AnyRid \/ e[2] = call.rid)}

-----------------------------------------------------------------------------
(* Create: a header page without buckets.                                  *)
Create(p) ==
    /\ call = Idle /\ ~Exists /\ IsNewPage(p)
    /\ header' = [NoIndex EXCEPT !.page = p]
    /\ allocated' = allocated \cup {p}
    /\ UNCHANGED <<bucket, leaked, call, result>>

(* Create without a page to be had, an Insert or Remove that cannot fetch  *)
(* the header page, a Remove from a bucket that was not created yet.       *)
CallFails ==
    /\ call = Idle
    /\ Return("error")
    /\ UNCHANGED <<header, bucket, allocated, leaked>>

-----------------------------------------------------------------------------
(* Insert.  GetBucketPageId has read the header page.                      *)
CallInsert(k, r) ==
    /\ call = Idle /\ Exists
    /\ call' = [op |-> "insert", key |-> k, rid |-> r,
                at |-> header.buckets[BucketOf[k]],
                space |-> INVALID_PAGE_ID, last |-> INVALID_PAGE_ID]
    /\ UNCHANGED <<header, bucket, allocated, leaked, result>>

Entry == <<call.key, call.rid>>

(* The whole chain is read before anything is written.                     *)
AlreadyThere ==
    /\ call.op = "insert" /\ call.at # INVALID_PAGE_ID
    /\ Entry \in bucket[call.at].entries
    /\ Return("ok")
    /\ UNCHANGED <<header, bucket, allocated, leaked>>

SpaceHere == Cardinality(bucket[call.at].entries) < Capacity

BugInsertMovesOn ==
    /\ call.op = "insert" /\ call.at # INVALID_PAGE_ID
    /\ Entry \notin bucket[call.at].entries
    /\ call' = [call EXCEPT
                  !.space = IF SpaceHere THEN call.at ELSE @,
                  !.last = call.at,
                  !.at = IF SpaceHere THEN INVALID_PAGE_ID ELSE bucket[call.at].overflow]
    /\ UNCHANGED <<header, bucket, allocated, leaked, result>>
InsertMovesOn ==
    /\ call.op = "insert" /\ call.at # INVALID_PAGE_ID
    /\ Entry \notin bucket[call.at].entries
    /\ call' = [call EXCEPT
                  !.space = IF @ = INVALID_PAGE_ID /\ SpaceHere THEN call.at ELSE @,
                  !.last = call.at,
                  !.at = bucket[call.at].overflow]
    /\ UNCHANGED <<header, bucket, allocated, leaked, result>>

(* The first page with space is fetched again.                             *)
InsertIntoSpace ==
    /\ call.op = "insert" /\ call.at = INVALID_PAGE_ID
    /\ call.space # INVALID_PAGE_ID
    /\ bucket' = [bucket EXCEPT ![call.space].entries = @ \cup {Entry}]
    /\ Return("ok")
    /\ UNCHANGED <<header, allocated, leaked>>

(* CreatePrimaryBucket and AppendOverflowBucket: a new page with the entry *)
(* is unpinned before the header or the last page is fetched to link it.   *)
AllocateBucket(p) ==
    /\ call.op = "insert" /\ call.at = INVALID_PAGE_ID
    /\ call.space = INVALID_PAGE_ID
    /\ IsNewPage(p)
    /\ allocated' = allocated \cup {p}
    /\ bucket' = [bucket EXCEPT ![p] = [Fresh EXCEPT !.entries = {Entry}]]
    /\ call' = [call EXCEPT !.op = "link", !.at = p]
    /\ UNCHANGED <<header, leaked, result>>

LinkPrimary ==
    /\ call.op = "link" /\ call.last = INVALID_PAGE_ID
    /\ header' = [header EXCEPT !.buckets[BucketOf[call.key]] = call.at]
    /\ Return("ok")
    /\ UNCHANGED <<bucket, allocated, leaked>>

BugLinkOverflow ==
    /\ call.op = "link" /\ call.last # INVALID_PAGE_ID
    /\ bucket' = [bucket EXCEPT ![call.last].overflow = call.at,
                                ![call.at].overflow = header.buckets[BucketOf[call.key]]]
    /\ Return("ok")
    /\ UNCHANGED <<header, allocated, leaked>>
LinkOverflow ==
    /\ call.op = "link" /\ call.last # INVALID_PAGE_ID
    /\ bucket' = [bucket EXCEPT ![call.last].overflow = call.at]
    /\ Return("ok")
    /\ UNCHANGED <<header, allocated, leaked>>

LinkFails ==
    /\ call.op = "link"
    /\ Discard(call.at)
    /\ Return("error")
    /\ UNCHANGED header

(* A page of the chain cannot be fetched, or no page can be had.           *)
StepFails ==
    /\ call.op \in {"insert", "remove"}
    /\ call.op = "remove" => call.at # INVALID_PAGE_ID
    /\ Return("error")
    /\ UNCHANGED <<header, bucket, allocated, leaked>>

-----------------------------------------------------------------------------
(* RemoveInternal *)
CallRemove(k, r) ==
    /\ call = Idle /\ Exists
    /\ header.buckets[BucketOf[k]] # INVALID_PAGE_ID
    /\ call' = [op |-> "remove", key |-> k, rid |-> r,
                at |-> header.buckets[BucketOf[k]], removed |-> FALSE]
    /\ UNCHANGED <<header, bucket, allocated, leaked, result>>

(* One page; with a record identifier the first match ends the call.       *)
BugRemoveHere ==
    LET gone == Matching(bucket[call.at].entries) IN
    /\ call.op = "remove" /\ call.at # INVALID_PAGE_ID
    /\ bucket' = [bucket EXCEPT ![call.at].entries = @ \ gone]
    /\ IF gone # {}
       THEN Return("ok")
       ELSE /\ call' = [call EXCEPT !.at = bucket[call.at].overflow]
            /\ UNCHANGED result
    /\ UNCHANGED <<header, allocated, leaked>>
RemoveHere ==
    LET gone == Matching(bucket[call.at].entries) IN
    /\ call.op = "remove" /\ call.at # INVALID_PAGE_ID
    /\ bucket' = [bucket EXCEPT ![call.at].entries = @ \ gone]
    /\ IF gone # {} /\ call.rid # AnyRid
       THEN Return("ok")
       ELSE /\ call' = [call EXCEPT !.at = bucket[call.at].overflow,
                                    !.removed = @ \/ gone # {}]
            /\ UNCHANGED result
    /\ UNCHANGED <<header, allocated, leaked>>

RemoveEnds ==
    /\ call.op = "remove" /\ call.at = INVALID_PAGE_ID
    /\ Return(IF call.removed THEN "ok" ELSE "error")
    /\ UNCHANGED <<header, bucket, allocated, leaked>>

-----------------------------------------------------------------------------
(* Destroy: the primary pages are read from the header, each chain is      *)
(* deleted page by page, then the header page.  Its callers drop the index *)
(* whatever Destroy reports.                                               *)
Primaries == {header.buckets[b] : b \in Buckets} \ {INVALID_PAGE_ID}

CallDestroy ==
    /\ call = Idle /\ Exists
    /\ call' = [op |-> "destroy", todo |-> Primaries, at |-> INVALID_PAGE_ID]
    /\ UNCHANGED <<header, bucket, allocated, leaked, result>>

DestroyChain(p) ==
    /\ call.op = "destroy" /\ call.at = INVALID_PAGE_ID /\ p \in call.todo
    /\ call' = [call EXCEPT !.at = p, !.todo = @ \ {p}]
    /\ UNCHANGED <<header, bucket, allocated, leaked, result>>

(* The link is read before the page is deleted.                            *)
BugDestroyBucket ==
    /\ call.op = "destroy" /\ call.at # INVALID_PAGE_ID
    /\ Discard(call.at)
    /\ call' = [call EXCEPT !.at = bucket'[call.at].overflow]
    /\ UNCHANGED <<header, result>>
DestroyBucket ==
    /\ call.op = "destroy" /\ call.at # INVALID_PAGE_ID
    /\ Discard(call.at)
    /\ call' = [call EXCEPT !.at = bucket[call.at].overflow]
    /\ UNCHANGED <<header, result>>

DestroyHeader ==
    /\ call.op = "destroy" /\ call.at = INVALID_PAGE_ID /\ call.todo = {}
    /\ Discard(header.page)
    /\ header' = NoIndex
    /\ call' = Idle
    /\ UNCHANGED result

(* A page that cannot be fetched, the header page to begin with, stops it: *)
(* what is left stays behind.                                              *)
DestroyFails ==
    /\ call.op = "destroy"
    /\ call.at # INVALID_PAGE_ID \/ call.todo = Primaries
    /\ header' = NoIndex
    /\ bucket' = [p \in PageIds |-> Blank]
    /\ leaked' = allocated
    /\ call' = Idle
    /\ UNCHANGED <<allocated, result>>

-----------------------------------------------------------------------------
IndexInit == /\ header = NoIndex
             /\ bucket = [p \in PageIds |-> Blank]
             /\ allocated = {} /\ leaked = {}
             /\ call = Idle /\ result = "ok"

CallStep == \/ AlreadyThere \/ InsertMovesOn \/ InsertIntoSpace
            \/ \E p \in PageIds : AllocateBucket(p) \/ DestroyChain(p)
            \/ LinkPrimary \/ LinkOverflow \/ LinkFails \/ StepFails
            \/ RemoveHere \/ RemoveEnds
            \/ DestroyBucket \/ DestroyHeader \/ DestroyFails

IndexNext == \/ \E p \in PageIds : Create(p)
             \/ \E k \in Keys : \/ \E r \in RecordIDs : CallInsert(k, r)
                                \/ \E r \in RecordIDs \cup {AnyRid} : CallRemove(k, r)
             \/ CallFails \/ CallDestroy
             \/ CallStep

(* A call that was started goes on: nothing else runs.                     *)
IndexSpec == IndexInit /\ [][IndexNext]_indexVars /\ WF_indexVars(CallStep)

-----------------------------------------------------------------------------
(* Properties.                                                             *)

(* The pages of bucket b, from its primary page on.                        *)
Links == [p \in PageIds |-> bucket[p].overflow]
Chain(b) == Visited(Links, header.buckets[b])

(* The pages of the index; while it is being destroyed, those still to go. *)
Owned == IF Exists THEN {header.page} \cup UNION {Chain(b) : b \in Buckets} ELSE {}

(* GetValue: what a search along the chain of the key finds.               *)
GetValue(k) == {e \in UNION {bucket[p].entries : p \in Chain(BucketOf[k])} : e[1] = k}

\* Types of the header, the bucket pages and the call in progress.
IndexTypeOK ==
    /\ header \in [page : PageIds \cup {INVALID_PAGE_ID},
                   buckets : [Buckets -> PageIds \cup {INVALID_PAGE_ID}]]
    /\ bucket \in [PageIds -> [initialized : BOOLEAN,
                               overflow : PageIds \cup {INVALID_PAGE_ID},
                               entries : SUBSET (Keys \X RecordIDs)]]
    /\ \A p \in PageIds : Cardinality(bucket[p].entries) <= Capacity
    /\ leaked \subseteq allocated /\ allocated \subseteq PageIds
    /\ call.op \in {"idle", "insert", "link", "remove", "destroy"}
    /\ result \in {"ok", "error"}

\* "Cycle detected in hash bucket chain" and "Hash bucket page is not
\* initialized" are never reported: chains end, do not share pages, and lead
\* only to initialised pages in use.
ChainsSound ==
    /\ IndexTypeOK
    /\ call.op # "destroy" =>
        /\ \A b \in Buckets : Ends(Links, header.buckets[b])
        /\ \A b, c \in Buckets : b # c => Chain(b) \cap Chain(c) = {}
        /\ \A b \in Buckets : \A p \in Chain(b) :
              /\ p # header.page /\ p \in allocated \ leaked
              /\ bucket[p].initialized

\* "Esto evita crear duplicados" (hash_index.cpp:429-431): an entry is in one
\* page of its chain at most, although an earlier page may have got space since
\* the entry went to an overflow page.  A duplicate would survive Remove.
NoDuplicateEntries ==
    \A b \in Buckets : LET pages == Chain(b) IN
        \A p, q \in pages : p # q => bucket[p].entries \cap bucket[q].entries = {}

\* A failed insertion leaves no page behind, and Destroy forgets none: a page
\* in use belongs to the index, is about to be linked, or was given up.
NoOrphanBuckets ==
    call.op # "destroy" =>
        \A p \in allocated : \/ p \in Owned \cup leaked
                             \/ call.op = "link" /\ p = call.at

\* Every call returns: the walks along the chains end, also during Destroy.
CallReturns == (call # Idle) ~> (call = Idle)

(* The index and the call in progress as a set of entries and a request.   *)
Entries == IF call.op = "destroy" THEN {} ELSE UNION {GetValue(k) : k \in Keys}
Request == CASE call.op = "idle" -> <<>>
             [] call.op = "destroy" -> <<"destroy">>
             [] call.op \in {"insert", "link"} -> <<"insert", call.key, call.rid>>
             [] call.op = "remove" -> IF call.rid = AnyRid THEN <<"remove all", call.key>>
                                      ELSE <<"remove", call.key, call.rid>>

Set == INSTANCE IndexSet WITH index <- Entries, request <- Request

\* The index is a set of entries: an insertion that reports an error has had no
\* effect, a removal removes exactly what it was asked to, and searching finds
\* exactly the entries, whichever page they are in.
ImplementsIndexSet == Set!IndexSpec
=============================================================================
