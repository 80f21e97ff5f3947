------------------------------- MODULE HeapFile -------------------------------
(***************************************************************************)
(* A table's records in a linked chain of slotted pages                    *)
(* (src/src/storage/heap_file.cpp), and the sequential scan over it        *)
(* (src/src/query/operators/seq_scan_operator.cpp).                        *)
(*                                                                         *)
(* A step is one visit to a page: FetchPage, what is done with the page,   *)
(* UnpinPage.  Each FetchPage and NewPage may fail, whatever the reason.   *)
(* Pages are slotted pages as RecordPage describes them, in the page store *)
(* that PageStore describes.  One statement runs at a time, so a call      *)
(* starts only when the previous one has returned.                         *)
(***************************************************************************)
EXTENDS Integers, Sequences, FiniteSets, PageChain

CONSTANTS MaxPages,                         \* bound: pages the device holds
          PageSize, HeaderSize, SlotSize,   \* of a slotted page
          Records, None

ASSUME HeapAssumption == /\ MaxPages \in Nat \ {0} /\ None \notin Records
                         /\ PageSize \in Nat /\ HeaderSize \in Nat
                         /\ SlotSize \in Nat \ {0}

VARIABLES page,        \* contents of the pages
          allocated,   \* pages in use
          leaked,      \* history: pages whose deallocation the disk refused
          call,        \* the call in progress, or Idle
          result       \* what the last modifying call has reported

heapVars == <<page, allocated, leaked, call, result>>

PageIds == 1 .. MaxPages
first_page_id == 1

(* Space and slots of one page; only its operators on contents are used.   *)
Slots == INSTANCE RecordPage WITH records <- <<>>
SlotIds == Slots!SlotIds
RecordIDs == PageIds \X SlotIds

(* A page of zeroes, and a page after SlottedPage::Init.                   *)
Blank == [initialized |-> FALSE, next |-> INVALID_PAGE_ID,
          records |-> [s \in SlotIds |-> None]]
Fresh == [Blank EXCEPT !.initialized = TRUE]

Idle == [op |-> "idle"]

(* Return from a modifying call.                                           *)
Return(status) == call' = Idle /\ result' = status

-----------------------------------------------------------------------------
(* SlottedPage operations on the contents c of a page.                     *)

WithRecord(c, s, r) == [c EXCEPT !.records[s] = r]

(* InsertRecord uses the first empty slot.                                 *)
FirstEmpty(c, s) == s \in SlotIds /\ c.records[s] = None
                    /\ \A t \in 1 .. s - 1 : c.records[t] # None
HasRoom(c, s, r) == FirstEmpty(c, s) /\ Slots!Fits(WithRecord(c, s, r).records)
Full(c, r) == \A s \in SlotIds : ~HasRoom(c, s, r)

-----------------------------------------------------------------------------
(* HeapFile::InsertRecord walks the chain to the first page with room.     *)

CallInsert(r) ==
    /\ call = Idle
    /\ call' = [op |-> "insert", record |-> r, at |-> first_page_id]
    /\ UNCHANGED <<page, allocated, leaked, result>>

(* The page in hand; one that was never initialised is initialised now.    *)
InHand == IF page[call.at].initialized THEN page[call.at] ELSE Fresh

InsertHere(s) ==
    /\ call.op = "insert"
    /\ HasRoom(InHand, s, call.record)
    /\ page' = [page EXCEPT ![call.at] = WithRecord(InHand, s, call.record)]
    /\ Return("ok")
    /\ UNCHANGED <<allocated, leaked>>

(* OUT_OF_MEMORY: on to the next page, or append one to the chain.  This   *)
(* page is unpinned as not modified, so that an eviction loses what Init   *)
(* has written.  That it happens later is only seen by a scan, which may   *)
(* fail in any case.                                                       *)
InsertMovesOn ==
    /\ call.op = "insert"
    /\ Full(InHand, call.record)
    /\ page' \in {page, [page EXCEPT ![call.at] = InHand]}
    /\ call' = IF InHand.next # INVALID_PAGE_ID
               THEN [call EXCEPT !.at = InHand.next]
               ELSE [call EXCEPT !.op = "append"]
    /\ UNCHANGED <<allocated, leaked, result>>

(* The current page cannot be fetched (walking), or no page can be had.    *)
InsertFails ==
    /\ call.op \in {"insert", "append"}
    /\ Return("error")
    /\ UNCHANGED <<page, allocated, leaked>>

-----------------------------------------------------------------------------
(* AppendNewPage *)

(* DeletePage(p): the frame is dropped, and the disk may refuse to free    *)
(* the page, which nobody is told.                                         *)
Discard(p) ==
    /\ page' = [page EXCEPT ![p] = Blank]
    /\ \/ allocated' = allocated \ {p} /\ leaked' = leaked
       \/ allocated' = allocated \cup {p} /\ leaked' = leaked \cup {p}

(* NewPage, Init, InsertRecord, UnpinPage; the page is not linked yet.     *)
AppendNewPage(p) ==
    /\ call.op = "append" /\ p \notin allocated
    /\ HasRoom(Fresh, 1, call.record)
    /\ allocated' = allocated \cup {p}
    /\ page' = [page EXCEPT ![p] = WithRecord(Fresh, 1, call.record)]
    /\ call' = [op |-> "link", record |-> call.record, at |-> call.at, new |-> p]
    /\ UNCHANGED <<leaked, result>>

(* The record does not even fit into an empty page.                        *)
BugAppendTooLarge(p) ==
    /\ call.op = "append" /\ p \notin allocated
    /\ ~HasRoom(Fresh, 1, call.record)
    /\ Discard(p)
    /\ call' = [call EXCEPT !.op = "insert"] /\ UNCHANGED result
AppendTooLarge(p) ==
    /\ call.op = "append" /\ p \notin allocated
    /\ ~HasRoom(Fresh, 1, call.record)
    /\ Discard(p)
    /\ Return("error")

(* SetNextPageId on the page that was the last one.                        *)
BugLinkNewPage ==
    /\ call.op = "link" /\ page[call.at].initialized
    /\ page' = [page EXCEPT ![first_page_id].next = call.new]
    /\ Return("ok")
    /\ UNCHANGED <<allocated, leaked>>
LinkNewPage ==
    /\ call.op = "link" /\ page[call.at].initialized
    /\ page' = [page EXCEPT ![call.at].next = call.new]
    /\ Return("ok")
    /\ UNCHANGED <<allocated, leaked>>

BugLinkFails ==
    /\ call.op = "link"
    /\ Return("error")
    /\ UNCHANGED <<page, allocated, leaked>>
BugLinkLeftBehind ==
    /\ call.op = "link"
    /\ page' = [page EXCEPT ![call.new] = Blank, ![call.at].next = call.new]
    /\ allocated' = allocated \ {call.new}
    /\ Return("error")
    /\ UNCHANGED leaked
LinkFails ==
    /\ call.op = "link"
    /\ Discard(call.new)
    /\ Return("error")

-----------------------------------------------------------------------------
(* UpdateRecord and DeleteRecord visit one page.  TableStorage has checked *)
(* with ContainsPage that the page is one of the chain.                    *)

Links == [p \in PageIds |-> page[p].next]
Chain == Visited(Links, first_page_id)
ContainsPage(p) == p \in Chain

UpdateRecord(rid, r) ==
    /\ call = Idle /\ ContainsPage(rid[1])
    /\ \/ /\ page[rid[1]].records[rid[2]] # None
          /\ page' = [page EXCEPT ![rid[1]] = WithRecord(@, rid[2], r)]
          /\ Slots!Fits(page'[rid[1]].records)
          /\ result' = "ok"
       \/ result' = "error" /\ UNCHANGED page      \* no record, no room, no page
    /\ UNCHANGED <<allocated, leaked, call>>

DeleteRecord(rid) ==
    /\ call = Idle /\ ContainsPage(rid[1])
    /\ \/ /\ page[rid[1]].records[rid[2]] # None
          /\ page' = [page EXCEPT ![rid[1]] = WithRecord(@, rid[2], None)]
          /\ result' = "ok"
       \/ result' = "error" /\ UNCHANGED page
    /\ UNCHANGED <<allocated, leaked, call>>

-----------------------------------------------------------------------------
(* SeqScanOperator: Open, then GetFirstRecord and GetNextRecord until no   *)
(* record is found.  Both run FindRecordFrom, from page at and slot from.  *)

ScanOpen ==
    /\ call = Idle
    /\ call' = [op |-> "scan", at |-> first_page_id, from |-> 1, seen |-> <<>>]
    /\ UNCHANGED <<page, allocated, leaked, result>>

Found(s) == /\ s \in call.from .. Slots!MaxSlots
            /\ page[call.at].records[s] # None
            /\ \A t \in call.from .. s - 1 : page[call.at].records[t] = None

(* A record on this page: it is returned, and the next call resumes there. *)
ScanReturns(s) ==
    /\ call.op = "scan" /\ call.at # INVALID_PAGE_ID
    /\ page[call.at].initialized
    /\ Found(s)
    /\ call' = [call EXCEPT !.from = s + 1, !.seen = Append(@, <<call.at, s>>)]
    /\ UNCHANGED <<page, allocated, leaked, result>>

BugScanMovesOn ==
    /\ call.op = "scan" /\ call.at # INVALID_PAGE_ID
    /\ page[call.at].initialized
    /\ \A s \in SlotIds : ~Found(s)
    /\ call' = [call EXCEPT !.at = page[call.at].next]
    /\ UNCHANGED <<page, allocated, leaked, result>>
ScanMovesOn ==
    /\ call.op = "scan" /\ call.at # INVALID_PAGE_ID
    /\ page[call.at].initialized
    /\ \A s \in SlotIds : ~Found(s)
    /\ call' = [call EXCEPT !.at = page[call.at].next, !.from = 1]
    /\ UNCHANGED <<page, allocated, leaked, result>>

(* NOT_FOUND after the last page, or an error that Close will report: the  *)
(* page is not initialised or cannot be fetched.                           *)
ScanClose ==
    /\ call.op = "scan"
    /\ call' = Idle
    /\ UNCHANGED <<page, allocated, leaked, result>>

-----------------------------------------------------------------------------
(* The first page is what CREATE TABLE leaves, or one straight from        *)
(* NewPage, which the first insertion initialises.                         *)
HeapInit == /\ page \in {[p \in PageIds |-> IF p = first_page_id THEN c ELSE Blank] :
                            c \in {Blank, Fresh}}
            /\ allocated = {first_page_id}
            /\ leaked = {}
            /\ call = Idle
            /\ result = "ok"

InsertStep == \/ \E s \in SlotIds : InsertHere(s)
              \/ InsertMovesOn \/ InsertFails
              \/ \E p \in PageIds : AppendNewPage(p) \/ AppendTooLarge(p)
              \/ LinkNewPage \/ LinkFails

ScanStep == \/ \E s \in SlotIds : ScanReturns(s)
            \/ ScanMovesOn \/ ScanClose

HeapNext == \/ \E r \in Records : CallInsert(r)
            \/ InsertStep
            \/ \E rid \in RecordIDs : DeleteRecord(rid) \/ \E r \in Records : UpdateRecord(rid, r)
            \/ ScanOpen \/ ScanStep

(* A call that was started goes on: nothing else runs, and each access to  *)
(* a page either works or fails.                                           *)
HeapSpec == /\ HeapInit /\ [][HeapNext]_heapVars
            /\ WF_heapVars(InsertStep) /\ WF_heapVars(ScanStep)

-----------------------------------------------------------------------------
(* Properties.                                                             *)

Live == {rid \in Chain \X SlotIds : page[rid[1]].records[rid[2]] # None}

\* Types of the pages, the sets of pages and the call in progress.
HeapTypeOK ==
    /\ page \in [PageIds -> [initialized : BOOLEAN,
                             next : PageIds \cup {INVALID_PAGE_ID},
                             records : [SlotIds -> Records \cup {None}]]]
    /\ leaked \subseteq allocated /\ allocated \subseteq PageIds
    /\ call.op \in {"idle", "insert", "append", "link", "scan"}
    /\ result \in {"ok", "error"}

\* "Cycle detected in HeapFile page chain" (heap_file.cpp:53) is never
\* reported: the chain ends, and leads only to initialised pages in use.  A
\* page that is freed and reused must not stay linked.
ChainSound ==
    /\ HeapTypeOK
    /\ Ends(Links, first_page_id)
    /\ \A p \in Chain :
          /\ p \in allocated \ leaked
          /\ p # first_page_id => page[p].initialized

\* Every page in use is in the chain, about to be linked, or was given up with
\* DeletePage: a failed insertion leaves no page behind.
NoOrphanPages ==
    \A p \in allocated \ (Chain \cup leaked) : call.op = "link" /\ p = call.new

\* A scan that comes to its end has returned every record of the table, once:
\* over page boundaries, deleted slots and pages emptied by deletions.
ScanComplete ==
    call.op = "scan" /\ call.at = INVALID_PAGE_ID =>
        /\ {call.seen[i] : i \in DOMAIN call.seen} = Live
        /\ Len(call.seen) = Cardinality(Live)

\* Every call returns: the walk along the chain ends.
CallReturns == (call # Idle) ~> (call = Idle)

(* The chain and the call in progress as a table and a request.            *)
Contents == LET live == Live IN
    [rid \in RecordIDs |-> IF rid \in live THEN page[rid[1]].records[rid[2]] ELSE None]
Request == IF call.op \in {"insert", "append", "link"} THEN <<"insert", call.record>>
                                                       ELSE <<>>

Table == INSTANCE HeapTable WITH table <- Contents, request <- Request

\* A call takes effect at once or not at all, whichever page access fails: a
\* record on a new page appears when the page is linked, with its RecordID free
\* until then, and no other record moves or changes.
ImplementsHeapTable == Table!TableSpec
=============================================================================
