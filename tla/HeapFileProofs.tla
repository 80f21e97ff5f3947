---------------------------- MODULE HeapFileProofs ----------------------------
(***************************************************************************)
(* The heap file keeps its chain sound and loses no page, a scan returns   *)
(* every record once, and the file implements a table of records whose     *)
(* identifiers do not move: for every number of pages, size of pages and   *)
(* slots and set of records, whichever access to a page fails.             *)
(***************************************************************************)
EXTENDS HeapFile, SharedLemmas

Refs == PageIds \cup {INVALID_PAGE_ID}
Pages == [initialized : BOOLEAN, next : Refs, records : [SlotIds -> Records \cup {None}]]
Insertions == [op : {"insert", "append"}, record : Records, at : PageIds]
Linkings == [op : {"link"}, record : Records, at : PageIds, new : PageIds]
Scans == [op : {"scan"}, at : Refs, from : Nat \ {0}, seen : Seq(RecordIDs)]

TypeInv ==
    /\ page \in [PageIds -> Pages]
    /\ allocated \subseteq PageIds /\ leaked \subseteq allocated
    /\ call \in {Idle} \cup Insertions \cup Linkings \cup Scans
    /\ result \in {"ok", "error"}

(* The chain ends, and only its first page may still be one of zeroes.     *)
ChainInv ==
    /\ Ends(Links, first_page_id)
    /\ \A p \in Chain : /\ p \in allocated \ leaked
                        /\ p # first_page_id => page[p].initialized
    /\ page[first_page_id].initialized \/ page[first_page_id] = Blank

(* Every page has an owner.                                                *)
OwnersInv ==
    \A p \in allocated \ leaked : p \in Chain \/ (call.op = "link" /\ p = call.new)

(* An insertion that has come to the last page.                            *)
AtEnd == call.at \in Chain /\ page[call.at].next = INVALID_PAGE_ID

(* The new page waits for its link: it is in use and not in the chain.     *)
LinkInv == /\ AtEnd
           /\ call.new \in (allocated \ leaked) \ Chain
           /\ 1 \in SlotIds /\ page[call.new] = WithRecord(Fresh, 1, call.record)

(* A scan on its way has returned the records of the pages behind it and   *)
(* those of its page below slot from, each once.                           *)
Seen == {call.seen[i] : i \in DOMAIN call.seen}
Passed == {rid \in Live : \/ rid[1] \notin Visited(Links, call.at)
                          \/ rid[1] = call.at /\ rid[2] < call.from}
ScanInv == /\ call.at # INVALID_PAGE_ID => call.at \in Chain
           /\ Seen = Passed
           /\ IsFiniteSet(Seen) /\ Len(call.seen) = Cardinality(Seen)

CallInv == CASE call.op = "idle" -> TRUE
             [] call.op = "insert" -> call.at \in Chain
             [] call.op = "append" -> AtEnd
             [] call.op = "link" -> LinkInv
             [] call.op = "scan" -> ScanInv

HeapInv == TypeInv /\ ChainInv /\ OwnersInv /\ CallInv
-----------------------------------------------------------------------------
(* Pages, slots and calls.                                                 *)

\* Page numbers and links.
LEMMA PageFacts ==
    /\ INVALID_PAGE_ID \notin PageIds /\ first_page_id \in PageIds
    /\ DOMAIN Links = PageIds /\ \A p \in PageIds : Links[p] = page[p].next
    /\ DOMAIN Links' = PageIds /\ \A p \in PageIds : Links'[p] = page'[p].next
  BY HeapAssumption DEF PageIds, INVALID_PAGE_ID, first_page_id, Links

\* Slots are numbered from one.
LEMMA SlotFacts == Slots!MaxSlots \in Int /\ SlotIds = 1 .. Slots!MaxSlots
  BY HeapAssumption DEF SlotIds, Slots!SlotIds, Slots!MaxSlots

\* The pages of the chain are pages, the first one among them.
LEMMA ChainFacts ==
    /\ Chain \subseteq PageIds /\ first_page_id \in Chain
    /\ \A p \in Chain : Links[p] \in PageIds => Links[p] \in Chain
    /\ \A p : Visited(Links, p) \subseteq PageIds
    /\ Visited(Links, INVALID_PAGE_ID) = {}
    /\ Chain' \subseteq PageIds
  BY PageFacts, VisitedFacts DEF Chain, Closed

\* The fields of the call in progress.
LEMMA CallFacts ==
    ASSUME TypeInv
    PROVE  /\ call.op \in {"idle", "insert", "append", "link", "scan"}
           /\ call.op = "idle" <=> call = Idle
           /\ call.op \in {"insert", "append"} => call \in Insertions
           /\ call.op = "link" => call \in Linkings
           /\ call.op = "scan" => call \in Scans
  BY DEF TypeInv, Idle, Insertions, Linkings, Scans

\* A page of zeroes and one after Init.
LEMMA BlankFacts ==
    /\ Blank \in Pages /\ Fresh \in Pages
    /\ Fresh.initialized /\ Fresh.next = INVALID_PAGE_ID /\ Blank.next = INVALID_PAGE_ID
    /\ \A s \in SlotIds : Fresh.records[s] = None /\ Blank.records[s] = None
  <1>1. /\ Blank \in Pages /\ Blank.next = INVALID_PAGE_ID
        /\ \A s \in SlotIds : Blank.records[s] = None
    BY DEF Blank, Pages, Refs
  <1>2. /\ Fresh \in Pages /\ Fresh.initialized
        /\ Fresh.next = Blank.next /\ Fresh.records = Blank.records
    BY <1>1 DEF Fresh, Pages
  <1>3. QED
    BY <1>1, <1>2

\* Writing one slot of a page changes nothing else in it.
LEMMA WithRecordFacts ==
    ASSUME NEW c \in Pages, NEW s \in SlotIds, NEW r \in Records \cup {None}
    PROVE  /\ WithRecord(c, s, r) \in Pages
           /\ WithRecord(c, s, r).initialized = c.initialized
           /\ WithRecord(c, s, r).next = c.next
           /\ WithRecord(c, s, r).records[s] = r
           /\ \A t \in SlotIds \ {s} : WithRecord(c, s, r).records[t] = c.records[t]
  BY DEF WithRecord, Pages

\* The record under an identifier: that of its slot, if the page is in the chain.
LEMMA ContentsFacts ==
    /\ Contents = [rid \in RecordIDs |-> Contents[rid]]
    /\ \A rid \in RecordIDs : /\ rid[1] \in PageIds /\ rid[2] \in SlotIds
                              /\ rid = <<rid[1], rid[2]>>
                              /\ Contents[rid] = IF rid[1] \in Chain
                                                 THEN page[rid[1]].records[rid[2]] ELSE None
    /\ Contents' = [rid \in RecordIDs |-> Contents'[rid]]
    /\ \A rid \in RecordIDs :
          Contents'[rid] = IF rid[1] \in Chain' THEN page'[rid[1]].records[rid[2]] ELSE None
  BY DEF Contents, Live, RecordIDs

-----------------------------------------------------------------------------
(* Steps that leave the chain as it is.                                    *)

\* A step that keeps the links of the chain keeps the chain.
LEMMA ChainKept ==
    ASSUME \A q \in Chain : page'[q].next = page[q].next
    PROVE  Chain' = Chain /\ (Ends(Links, first_page_id)' <=> Ends(Links, first_page_id))
  <1>1. \A q \in Visited(Links, first_page_id) : Links'[q] = Links[q]
    BY PageFacts, ChainFacts DEF Chain
  <1>2. /\ Visited(Links', first_page_id) = Visited(Links, first_page_id)
        /\ Ends(Links', first_page_id) <=> Ends(Links, first_page_id)
    BY <1>1, PageFacts, SameWalk
  <1>3. first_page_id' = first_page_id
    BY DEF first_page_id
  <1>4. QED
    BY <1>2, <1>3 DEF Chain

\* It stays sound when its pages stay in use and initialised.
LEMMA SoundKept ==
    ASSUME ChainInv,
           \A q \in Chain : /\ page'[q].next = page[q].next
                            /\ page[q].initialized => page'[q].initialized
                            /\ q \in allocated' \ leaked',
           page'[first_page_id].initialized \/ page'[first_page_id] = Blank
    PROVE  ChainInv' /\ Chain' = Chain
  <1>1. Chain' = Chain /\ Ends(Links, first_page_id)'
    BY ChainKept DEF ChainInv
  <1>2. QED
    BY <1>1 DEF ChainInv, first_page_id

\* A step that changes no page.
LEMMA PagesKept ==
    ASSUME UNCHANGED <<page, allocated, leaked>>, ChainInv, OwnersInv, call.op # "link"
    PROVE  /\ Links' = Links /\ Chain' = Chain /\ Live' = Live
           /\ ChainInv' /\ OwnersInv' /\ Contents' = Contents
  <1>1. Links' = Links /\ Chain' = Chain
    BY DEF Links, Chain
  <1>2. Live' = Live
    BY <1>1 DEF Live
  <1>3. ChainInv'
    BY <1>1 DEF ChainInv
  <1>4. OwnersInv'
    BY <1>1 DEF OwnersInv
  <1>5. Contents' = Contents
    BY <1>2 DEF Contents
  <1>6. QED
    BY <1>1, <1>2, <1>3, <1>4, <1>5

\* A step that changes one record of the chain: the contents change under its
\* identifier only.
LEMMA OneRecord ==
    ASSUME TypeInv, NEW p \in Chain, NEW s \in SlotIds, NEW r \in Records \cup {None},
           \A q \in PageIds \ {p} : page'[q] = page[q],
           page'[p].next = page[p].next, page'[p].records[s] = r,
           \A t \in SlotIds \ {s} : page'[p].records[t] = page[p].records[t]
    PROVE  /\ Contents' = [Contents EXCEPT ![<<p, s>>] = r]
           /\ Contents[<<p, s>>] = page[p].records[s] /\ <<p, s>> \in RecordIDs
  <1>1. Chain' = Chain
    BY ChainKept, ChainFacts
  <1>2. <<p, s>> \in RecordIDs /\ p \in PageIds
    BY ChainFacts DEF RecordIDs
  <1>3. ASSUME NEW rid \in RecordIDs
        PROVE  Contents'[rid] = IF rid = <<p, s>> THEN r ELSE Contents[rid]
    <2>1. /\ rid[1] \in PageIds /\ rid[2] \in SlotIds /\ rid = <<rid[1], rid[2]>>
          /\ Contents[rid] = IF rid[1] \in Chain THEN page[rid[1]].records[rid[2]] ELSE None
          /\ Contents'[rid] = IF rid[1] \in Chain THEN page'[rid[1]].records[rid[2]] ELSE None
      BY <1>1, ContentsFacts
    <2>2. CASE rid[1] = p
      BY <2>1, <2>2
    <2>3. CASE rid[1] # p
      BY <2>1, <2>3
    <2>4. QED
      BY <2>2, <2>3
  <1>4. Contents[<<p, s>>] = page[p].records[s]
    BY <1>2, ContentsFacts
  <1>5. [Contents EXCEPT ![<<p, s>>] = r]
           = [rid \in RecordIDs |-> IF rid = <<p, s>> THEN r ELSE Contents[rid]]
    BY ContentsFacts
  <1>6. Contents' = [rid \in RecordIDs |-> IF rid = <<p, s>> THEN r ELSE Contents[rid]]
    BY <1>3, ContentsFacts
  <1>7. QED
    BY <1>2, <1>4, <1>5, <1>6
-----------------------------------------------------------------------------
(* Insert.                                                                 *)

\* Where an insertion is, and the page it has in hand: that of the chain, or a
\* fresh one in place of a page of zeroes.
LEMMA InsertFacts ==
    ASSUME HeapInv, call.op = "insert"
    PROVE  /\ TypeInv /\ ChainInv /\ OwnersInv /\ call \in Insertions
           /\ call.at \in Chain /\ call.at \in PageIds /\ call.record \in Records
           /\ InHand \in Pages /\ InHand.initialized
           /\ InHand.next = page[call.at].next
           /\ \A s \in SlotIds : InHand.records[s] = page[call.at].records[s]
  <1>1. /\ TypeInv /\ ChainInv /\ OwnersInv /\ call \in Insertions /\ call.at \in Chain
        /\ call.at \in PageIds /\ call.record \in Records
    BY CallFacts DEF HeapInv, CallInv, Insertions
  <1>2. CASE page[call.at].initialized
    BY <1>1, <1>2 DEF InHand, TypeInv
  <1>3. CASE ~page[call.at].initialized
    <2>1. page[call.at] = Blank
      BY <1>1, <1>3 DEF ChainInv
    <2>2. InHand = Fresh
      BY <1>3 DEF InHand
    <2>3. QED
      BY <1>1, <2>1, <2>2, BlankFacts
  <1>4. QED
    BY <1>1, <1>2, <1>3

\* An insertion begins at the first page.
LEMMA CallInsertInv ==
    ASSUME HeapInv, NEW r \in Records, CallInsert(r)
    PROVE  HeapInv'
  <1>1. /\ call = Idle /\ UNCHANGED <<page, allocated, leaked, result>>
        /\ call' = [op |-> "insert", record |-> r, at |-> first_page_id]
    BY DEF CallInsert
  <1>2. TypeInv /\ ChainInv /\ OwnersInv /\ call.op # "link"
    BY <1>1 DEF HeapInv, Idle
  <1>3. TypeInv'
    BY <1>1, <1>2, PageFacts DEF TypeInv, Insertions
  <1>4. ChainInv' /\ OwnersInv' /\ Chain' = Chain
    BY <1>1, <1>2, PagesKept
  <1>5. CallInv'
    BY <1>1, <1>4, ChainFacts DEF CallInv
  <1>6. QED
    BY <1>3, <1>4, <1>5 DEF HeapInv

\* The record goes to a page with room.
LEMMA InsertHereInv ==
    ASSUME HeapInv, NEW s \in SlotIds, InsertHere(s)
    PROVE  /\ HeapInv' /\ Contents' = [Contents EXCEPT ![<<call.at, s>>] = call.record]
           /\ Contents[<<call.at, s>>] = None /\ <<call.at, s>> \in RecordIDs
  <1> DEFINE c == WithRecord(InHand, s, call.record)
  <1>1. /\ call.op = "insert" /\ InHand.records[s] = None
        /\ page' = [page EXCEPT ![call.at] = c]
        /\ call' = Idle /\ result' = "ok" /\ UNCHANGED <<allocated, leaked>>
    BY DEF InsertHere, Return, HasRoom, FirstEmpty
  <1>2. /\ TypeInv /\ ChainInv /\ OwnersInv /\ call.at \in Chain /\ call.at \in PageIds
        /\ call.record \in Records /\ InHand \in Pages /\ InHand.initialized
        /\ InHand.next = page[call.at].next
        /\ \A t \in SlotIds : InHand.records[t] = page[call.at].records[t]
    BY <1>1, InsertFacts
  <1>3. /\ c \in Pages /\ c.initialized /\ c.next = page[call.at].next
        /\ c.records[s] = call.record
        /\ \A t \in SlotIds \ {s} : c.records[t] = page[call.at].records[t]
    BY <1>2, WithRecordFacts
  <1> HIDE DEF c
  <1>4. page'[call.at] = c /\ \A q \in PageIds \ {call.at} : page'[q] = page[q]
    BY <1>1, <1>2 DEF TypeInv
  <1>5. TypeInv'
    BY <1>1, <1>2, <1>3 DEF TypeInv
  <1>6. ChainInv' /\ Chain' = Chain
    <2>1. \A q \in Chain : /\ page'[q].next = page[q].next
                           /\ page[q].initialized => page'[q].initialized
                           /\ q \in allocated' \ leaked'
      BY <1>1, <1>2, <1>3, <1>4, ChainFacts DEF ChainInv
    <2>2. page'[first_page_id].initialized \/ page'[first_page_id] = Blank
      BY <1>2, <1>3, <1>4, PageFacts DEF ChainInv
    <2>3. QED
      BY <1>2, <2>1, <2>2, SoundKept
  <1>7. OwnersInv'
    BY <1>1, <1>2, <1>6 DEF OwnersInv
  <1>8. CallInv'
    BY <1>1 DEF CallInv, Idle
  <1>9. /\ Contents' = [Contents EXCEPT ![<<call.at, s>>] = call.record]
        /\ Contents[<<call.at, s>>] = page[call.at].records[s] /\ <<call.at, s>> \in RecordIDs
    BY <1>2, <1>3, <1>4, OneRecord
  <1>10. QED
    BY <1>1, <1>2, <1>5, <1>6, <1>7, <1>8, <1>9 DEF HeapInv

\* A full page: on to the next one, or a new one is wanted.
LEMMA InsertMovesOnInv ==
    ASSUME HeapInv, InsertMovesOn
    PROVE  HeapInv' /\ Contents' = Contents
  <1>1. /\ call.op = "insert" /\ page' \in {page, [page EXCEPT ![call.at] = InHand]}
        /\ call' = IF InHand.next # INVALID_PAGE_ID
                   THEN [call EXCEPT !.at = InHand.next]
                   ELSE [call EXCEPT !.op = "append"]
        /\ UNCHANGED <<allocated, leaked, result>>
    BY DEF InsertMovesOn
  <1>2. /\ TypeInv /\ ChainInv /\ OwnersInv /\ call \in Insertions
        /\ call.at \in Chain /\ call.at \in PageIds
        /\ InHand \in Pages /\ InHand.initialized /\ InHand.next = page[call.at].next
        /\ \A t \in SlotIds : InHand.records[t] = page[call.at].records[t]
    BY <1>1, InsertFacts
  <1>3. /\ page'[call.at] \in {page[call.at], InHand}
        /\ \A q \in PageIds \ {call.at} : page'[q] = page[q]
        /\ page' \in [PageIds -> Pages]
    BY <1>1, <1>2 DEF TypeInv
  <1>4. ChainInv' /\ Chain' = Chain
    <2>1. \A q \in Chain : /\ page'[q].next = page[q].next
                           /\ page[q].initialized => page'[q].initialized
                           /\ q \in allocated' \ leaked'
      BY <1>1, <1>2, <1>3, ChainFacts DEF ChainInv
    <2>2. page'[first_page_id].initialized \/ page'[first_page_id] = Blank
      BY <1>2, <1>3, PageFacts DEF ChainInv
    <2>3. QED
      BY <1>2, <2>1, <2>2, SoundKept
  <1>5. InHand.next \in Refs /\ (InHand.next # INVALID_PAGE_ID => InHand.next \in PageIds)
    BY <1>2 DEF Pages, Refs
  <1>6. /\ call' \in Insertions
        /\ InHand.next # INVALID_PAGE_ID => call'.op = "insert" /\ call'.at = InHand.next
        /\ InHand.next = INVALID_PAGE_ID => call'.op = "append" /\ call'.at = call.at
    BY <1>1, <1>2, <1>5 DEF Insertions
  <1>7. TypeInv'
    BY <1>1, <1>2, <1>3, <1>6 DEF TypeInv
  <1>8. OwnersInv'
    BY <1>1, <1>2, <1>4 DEF OwnersInv
  <1>9. CallInv'
    <2>1. CASE InHand.next # INVALID_PAGE_ID
      <3>1. InHand.next \in Chain
        BY <1>2, <1>5, <2>1, PageFacts, ChainFacts
      <3>2. QED
        BY <1>4, <1>6, <2>1, <3>1 DEF CallInv
    <2>2. CASE InHand.next = INVALID_PAGE_ID
      <3>1. AtEnd'
        BY <1>2, <1>3, <1>4, <1>6, <2>2 DEF AtEnd
      <3>2. QED
        BY <1>6, <2>2, <3>1 DEF CallInv
    <2>3. QED
      BY <2>1, <2>2
  <1>10. Contents' = Contents
    <2>1. ASSUME NEW rid \in RecordIDs PROVE Contents'[rid] = Contents[rid]
      <3>1. /\ rid[1] \in PageIds /\ rid[2] \in SlotIds
            /\ Contents[rid] = IF rid[1] \in Chain THEN page[rid[1]].records[rid[2]] ELSE None
            /\ Contents'[rid] = IF rid[1] \in Chain THEN page'[rid[1]].records[rid[2]] ELSE None
        BY <1>4, ContentsFacts
      <3>2. page'[rid[1]].records[rid[2]] = page[rid[1]].records[rid[2]]
        BY <1>2, <1>3, <3>1
      <3>3. QED
        BY <3>1, <3>2
    <2>2. QED
      BY <2>1, ContentsFacts
  <1>11. QED
    BY <1>4, <1>7, <1>8, <1>9, <1>10 DEF HeapInv

-----------------------------------------------------------------------------
(* AppendNewPage.                                                          *)

\* A page is initialised and gets the record; the chain does not know of it.
LEMMA AppendNewPageInv ==
    ASSUME HeapInv, NEW p \in PageIds, AppendNewPage(p)
    PROVE  HeapInv' /\ Contents' = Contents
  <1> DEFINE c == WithRecord(Fresh, 1, call.record)
  <1>1. /\ call.op = "append" /\ p \notin allocated /\ 1 \in SlotIds
        /\ allocated' = allocated \cup {p} /\ page' = [page EXCEPT ![p] = c]
        /\ call' = [op |-> "link", record |-> call.record, at |-> call.at, new |-> p]
        /\ UNCHANGED <<leaked, result>>
    BY DEF AppendNewPage, HasRoom, FirstEmpty
  <1>2. /\ TypeInv /\ ChainInv /\ OwnersInv /\ AtEnd
        /\ call.at \in PageIds /\ call.record \in Records
    BY <1>1, CallFacts DEF HeapInv, CallInv, Insertions
  <1>3. c \in Pages
    BY <1>1, <1>2, BlankFacts, WithRecordFacts
  <1>4. p \notin Chain
    BY <1>1, <1>2 DEF ChainInv
  <1>5. page'[p] = c /\ \A q \in PageIds \ {p} : page'[q] = page[q]
    BY <1>1, <1>2 DEF TypeInv
  <1>6. \A q \in Chain : q \in PageIds /\ q # p /\ page'[q] = page[q]
    BY <1>4, <1>5, ChainFacts
  <1>7. ChainInv' /\ Chain' = Chain
    <2>1. \A q \in Chain : q \in allocated' \ leaked'
      BY <1>1, <1>2 DEF ChainInv
    <2>2. page'[first_page_id].initialized \/ page'[first_page_id] = Blank
      BY <1>2, <1>6, ChainFacts DEF ChainInv
    <2>3. QED
      BY <1>2, <1>6, <2>1, <2>2, SoundKept
  <1>8. TypeInv'
    <2>1. call' \in Linkings
      BY <1>1, <1>2 DEF Linkings
    <2>2. page' \in [PageIds -> Pages]
      BY <1>1, <1>2, <1>3 DEF TypeInv
    <2>3. QED
      BY <1>1, <1>2, <2>1, <2>2 DEF TypeInv
  <1>9. OwnersInv'
    BY <1>1, <1>2, <1>7 DEF OwnersInv
  <1>10. LinkInv'
    <2>1. AtEnd'
      BY <1>1, <1>2, <1>6, <1>7 DEF AtEnd
    <2>2. p \in (allocated' \ leaked') \ Chain'
      BY <1>1, <1>2, <1>4, <1>7 DEF TypeInv
    <2>3. page'[p] = WithRecord(Fresh, 1, call'.record) /\ call'.new = p
      BY <1>1, <1>5
    <2>4. QED
      BY <1>1, <2>1, <2>2, <2>3 DEF LinkInv, WithRecord, Fresh, Blank
  <1>11. CallInv'
    BY <1>1, <1>10 DEF CallInv
  <1>12. Contents' = Contents
    BY <1>6, <1>7, ContentsFacts
  <1>13. QED
    BY <1>7, <1>8, <1>9, <1>11, <1>12 DEF HeapInv
\* A page outside the chain is deleted, and the insertion gives up.
LEMMA DiscardInv ==
    ASSUME HeapInv, NEW p \in PageIds, p \notin Chain, p \notin leaked, Discard(p),
           call.op = "link" => p = call.new, call' = Idle, result' = "error"
    PROVE  HeapInv' /\ Contents' = Contents
  <1>1. /\ page' = [page EXCEPT ![p] = Blank]
        /\ \/ allocated' = allocated \ {p} /\ leaked' = leaked
           \/ allocated' = allocated \cup {p} /\ leaked' = leaked \cup {p}
    BY DEF Discard
  <1>2. TypeInv /\ ChainInv /\ OwnersInv
    BY DEF HeapInv
  <1>3. \A q \in PageIds \ {p} : page'[q] = page[q]
    BY <1>1, <1>2 DEF TypeInv
  <1>4. \A q \in Chain : q \in PageIds /\ q # p /\ page'[q] = page[q]
    BY <1>3, ChainFacts
  <1>5. allocated' \ leaked' = (allocated \ leaked) \ {p}
    BY <1>1
  <1>6. ChainInv' /\ Chain' = Chain
    <2>1. \A q \in Chain : q \in allocated' \ leaked'
      BY <1>2, <1>4, <1>5 DEF ChainInv
    <2>2. page'[first_page_id].initialized \/ page'[first_page_id] = Blank
      BY <1>2, <1>4, ChainFacts DEF ChainInv
    <2>3. QED
      BY <1>2, <1>4, <2>1, <2>2, SoundKept
  <1>7. TypeInv'
    <2>1. page' \in [PageIds -> Pages]
      BY <1>1, <1>2, BlankFacts DEF TypeInv
    <2>2. allocated' \subseteq PageIds /\ leaked' \subseteq allocated'
      BY <1>1, <1>2 DEF TypeInv
    <2>3. QED
      BY <2>1, <2>2 DEF TypeInv
  <1>8. OwnersInv'
    BY <1>2, <1>5, <1>6 DEF OwnersInv
  <1>9. CallInv'
    BY DEF CallInv, Idle
  <1>10. Contents' = Contents
    BY <1>4, <1>6, ContentsFacts
  <1>11. QED
    BY <1>6, <1>7, <1>8, <1>9, <1>10 DEF HeapInv

\* A record that fits into no page: the new page is deleted.
LEMMA AppendTooLargeInv ==
    ASSUME HeapInv, NEW p \in PageIds, AppendTooLarge(p)
    PROVE  HeapInv' /\ Contents' = Contents
  <1>1. /\ call.op = "append" /\ p \notin allocated /\ Discard(p)
        /\ call' = Idle /\ result' = "error"
    BY DEF AppendTooLarge, Return
  <1>2. p \notin Chain /\ p \notin leaked
    BY <1>1 DEF HeapInv, ChainInv, TypeInv
  <1>3. QED
    BY <1>1, <1>2, DiscardInv

\* A page that cannot be linked is deleted.
LEMMA LinkFailsInv ==
    ASSUME HeapInv, LinkFails
    PROVE  HeapInv' /\ Contents' = Contents
  <1>1. call.op = "link" /\ Discard(call.new) /\ call' = Idle /\ result' = "error"
    BY DEF LinkFails, Return
  <1>2. call.new \in PageIds /\ call.new \notin Chain /\ call.new \notin leaked
    BY <1>1, CallFacts DEF HeapInv, CallInv, LinkInv, Linkings
  <1>3. QED
    BY <1>1, <1>2, DiscardInv

\* The page is linked behind the last one, and its record appears.
LEMMA LinkNewPageInv ==
    ASSUME HeapInv, LinkNewPage
    PROVE  /\ HeapInv' /\ Contents' = [Contents EXCEPT ![<<call.new, 1>>] = call.record]
           /\ Contents[<<call.new, 1>>] = None /\ <<call.new, 1>> \in RecordIDs
  <1>1. /\ call.op = "link" /\ page[call.at].initialized
        /\ page' = [page EXCEPT ![call.at].next = call.new]
        /\ call' = Idle /\ result' = "ok" /\ UNCHANGED <<allocated, leaked>>
    BY DEF LinkNewPage, Return
  <1>2. /\ TypeInv /\ ChainInv /\ OwnersInv /\ LinkInv
        /\ call.at \in PageIds /\ call.new \in PageIds /\ call.record \in Records
    BY <1>1, CallFacts DEF HeapInv, CallInv, Linkings
  <1>3. /\ call.at \in Chain /\ page[call.at].next = INVALID_PAGE_ID
        /\ page[call.at].initialized
        /\ call.new \notin Chain /\ call.new \in allocated \ leaked /\ 1 \in SlotIds
        /\ page[call.new] = WithRecord(Fresh, 1, call.record)
    BY <1>1, <1>2 DEF LinkInv, AtEnd
  <1>4. /\ page'[call.at] = [page[call.at] EXCEPT !.next = call.new]
        /\ \A q \in PageIds \ {call.at} : page'[q] = page[q]
    BY <1>1, <1>2 DEF TypeInv
  <1>5. /\ page'[call.at] \in Pages /\ page'[call.at].next = call.new
        /\ page'[call.at].initialized = page[call.at].initialized
        /\ page'[call.at].records = page[call.at].records
    BY <1>2, <1>4 DEF TypeInv, Pages, Refs
  <1>6. \A q \in PageIds : /\ page'[q].initialized = page[q].initialized
                           /\ page'[q].records = page[q].records
    BY <1>4, <1>5
  <1>7. /\ page[call.new].initialized /\ page[call.new].next = INVALID_PAGE_ID
        /\ page[call.new].records[1] = call.record
        /\ \A t \in SlotIds \ {1} : page[call.new].records[t] = None
    BY <1>2, <1>3, BlankFacts, WithRecordFacts
  <1>8. Chain' = Chain \cup {call.new} /\ Ends(Links, first_page_id)'
    <2>1. Links[call.at] \notin DOMAIN Links /\ Links'[call.at] = call.new
      BY <1>2, <1>3, <1>5, PageFacts
    <2>2. Links'[call.new] \notin DOMAIN Links
      BY <1>2, <1>3, <1>4, <1>7, PageFacts
    <2>3. \A q \in Visited(Links, first_page_id) \ {call.at} : Links'[q] = Links[q]
      BY <1>4, ChainFacts, PageFacts
    <2>4. /\ Visited(Links', first_page_id) = Visited(Links, first_page_id) \cup {call.new}
          /\ Ends(Links', first_page_id)
      BY <1>2, <1>3, <2>1, <2>2, <2>3, PageFacts, Appended DEF Chain
    <2>5. first_page_id' = first_page_id
      BY DEF first_page_id
    <2>6. QED
      BY <2>4, <2>5 DEF Chain
  <1>9. TypeInv'
    <2>1. page' \in [PageIds -> Pages]
      BY <1>1, <1>2, <1>5 DEF TypeInv
    <2>2. QED
      BY <1>1, <1>2, <2>1 DEF TypeInv
  <1>10. ChainInv'
    <2>1. \A p \in Chain' : p \in PageIds /\ p \in allocated' \ leaked'
                            /\ (p # first_page_id => page'[p].initialized)
      <3>1. \A p \in Chain : p \in PageIds /\ p \in allocated \ leaked
                             /\ (p # first_page_id => page[p].initialized)
        BY <1>2, ChainFacts DEF ChainInv
      <3>2. QED
        BY <1>1, <1>2, <1>3, <1>6, <1>7, <1>8, <3>1
    <2>2. page'[first_page_id].initialized \/ page'[first_page_id] = Blank
      BY <1>2, <1>3, <1>4, <1>5, PageFacts DEF ChainInv
    <2>3. QED
      BY <1>8, <2>1, <2>2 DEF ChainInv, first_page_id
  <1>11. OwnersInv'
    BY <1>1, <1>2, <1>8 DEF OwnersInv
  <1>12. CallInv'
    BY <1>1 DEF CallInv, Idle
  <1>13. <<call.new, 1>> \in RecordIDs /\ Contents[<<call.new, 1>>] = None
    BY <1>2, <1>3, ContentsFacts DEF RecordIDs
  <1>14. Contents' = [Contents EXCEPT ![<<call.new, 1>>] = call.record]
    <2>1. ASSUME NEW rid \in RecordIDs
          PROVE  Contents'[rid] = IF rid = <<call.new, 1>> THEN call.record ELSE Contents[rid]
      <3>1. /\ rid[1] \in PageIds /\ rid[2] \in SlotIds /\ rid = <<rid[1], rid[2]>>
            /\ Contents[rid] = IF rid[1] \in Chain THEN page[rid[1]].records[rid[2]] ELSE None
            /\ Contents'[rid] = IF rid[1] \in Chain \cup {call.new}
                                THEN page[rid[1]].records[rid[2]] ELSE None
        BY <1>6, <1>8, ContentsFacts
      <3>2. CASE rid[1] = call.new
        BY <1>3, <1>7, <3>1, <3>2
      <3>3. CASE rid[1] # call.new
        BY <3>1, <3>3
      <3>4. QED
        BY <3>2, <3>3
    <2>2. [Contents EXCEPT ![<<call.new, 1>>] = call.record]
             = [rid \in RecordIDs |-> IF rid = <<call.new, 1>> THEN call.record ELSE Contents[rid]]
      BY ContentsFacts
    <2>3. Contents' = [rid \in RecordIDs |-> IF rid = <<call.new, 1>> THEN call.record
                                                                      ELSE Contents[rid]]
      BY <2>1, ContentsFacts
    <2>4. QED
      BY <2>2, <2>3
  <1>15. QED
    BY <1>9, <1>10, <1>11, <1>12, <1>13, <1>14 DEF HeapInv

\* An insertion that gives up before it has a page.
LEMMA InsertFailsInv ==
    ASSUME HeapInv, InsertFails
    PROVE  HeapInv' /\ Contents' = Contents
  <1>1. /\ call.op \in {"insert", "append"} /\ call' = Idle /\ result' = "error"
        /\ UNCHANGED <<page, allocated, leaked>>
    BY DEF InsertFails, Return
  <1>2. TypeInv'
    BY <1>1 DEF HeapInv, TypeInv
  <1>3. ChainInv' /\ OwnersInv' /\ Contents' = Contents
    BY <1>1, PagesKept DEF HeapInv
  <1>4. CallInv'
    BY <1>1 DEF CallInv, Idle
  <1>5. QED
    BY <1>2, <1>3, <1>4 DEF HeapInv

-----------------------------------------------------------------------------
(* UpdateRecord and DeleteRecord.                                          *)

\* One record of a page of the chain is replaced or taken out.
LEMMA WriteInv ==
    ASSUME HeapInv, call = Idle, NEW rid \in RecordIDs, NEW r \in Records \cup {None},
           ContainsPage(rid[1]), page[rid[1]].records[rid[2]] # None,
           page' = [page EXCEPT ![rid[1]] = WithRecord(@, rid[2], r)],
           result' = "ok", UNCHANGED <<allocated, leaked, call>>
    PROVE  /\ HeapInv' /\ Contents' = [Contents EXCEPT ![rid] = r]
           /\ Contents[rid] = page[rid[1]].records[rid[2]]
  <1> DEFINE p == rid[1]
             s == rid[2]
             c == WithRecord(page[p], s, r)
  <1>1. /\ TypeInv /\ ChainInv /\ OwnersInv /\ call.op = "idle"
        /\ p \in Chain /\ p \in PageIds /\ s \in SlotIds /\ rid = <<p, s>>
    BY ContentsFacts DEF HeapInv, Idle, ContainsPage
  <1>2. page[p] \in Pages
    BY <1>1 DEF TypeInv
  <1>3. /\ c \in Pages /\ c.initialized = page[p].initialized /\ c.next = page[p].next
        /\ c.records[s] = r /\ \A t \in SlotIds \ {s} : c.records[t] = page[p].records[t]
    BY <1>1, <1>2, WithRecordFacts
  <1> HIDE DEF c
  <1>4. page' = [page EXCEPT ![p] = c]
    BY <1>1 DEF c, TypeInv
  <1>5. page'[p] = c /\ \A q \in PageIds \ {p} : page'[q] = page[q]
    BY <1>1, <1>4 DEF TypeInv
  <1>6. /\ Contents' = [Contents EXCEPT ![<<p, s>>] = r]
        /\ Contents[<<p, s>>] = page[p].records[s]
    BY <1>1, <1>3, <1>5, OneRecord
  <1>7. Chain' = Chain /\ Ends(Links, first_page_id)'
    BY <1>1, <1>3, <1>5, ChainFacts, ChainKept DEF ChainInv
  <1>8. \A q \in PageIds : page'[q].initialized = page[q].initialized
    BY <1>3, <1>5
  <1>9. page'[first_page_id].initialized \/ page'[first_page_id] = Blank
    <2>1. p = first_page_id => page[first_page_id].initialized
      BY <1>1, BlankFacts DEF ChainInv
    <2>2. CASE p = first_page_id
      BY <1>8, <2>1, <2>2, PageFacts
    <2>3. CASE p # first_page_id
      BY <1>1, <1>5, <2>3, PageFacts DEF ChainInv
    <2>4. QED
      BY <2>2, <2>3
  <1>10. ChainInv'
    <2>1. \A q \in Chain' : /\ q \in allocated' \ leaked'
                            /\ q # first_page_id => page'[q].initialized
      BY <1>1, <1>7, <1>8, ChainFacts DEF ChainInv
    <2>2. QED
      BY <1>7, <1>9, <2>1 DEF ChainInv, first_page_id
  <1>11. OwnersInv'
    BY <1>1, <1>7 DEF OwnersInv
  <1>12. TypeInv'
    <2>1. page' \in [PageIds -> Pages]
      BY <1>1, <1>3, <1>4 DEF TypeInv
    <2>2. QED
      BY <1>1, <2>1 DEF TypeInv
  <1>13. CallInv'
    BY <1>1 DEF CallInv
  <1>14. QED
    BY <1>1, <1>6, <1>10, <1>11, <1>12, <1>13 DEF HeapInv

\* An update or deletion that reports an error has written nothing.
LEMMA NothingWritten ==
    ASSUME HeapInv, call = Idle, result' = "error", UNCHANGED <<page, allocated, leaked, call>>
    PROVE  HeapInv' /\ Contents' = Contents
  <1>1. TypeInv'
    BY DEF HeapInv, TypeInv
  <1>2. ChainInv' /\ OwnersInv' /\ Contents' = Contents
    BY PagesKept DEF HeapInv, Idle
  <1>3. CallInv'
    BY DEF CallInv, Idle
  <1>4. QED
    BY <1>1, <1>2, <1>3 DEF HeapInv

\* An update or deletion writes one record of the chain, or changes nothing.
LEMMA UpdateRecordInv ==
    ASSUME HeapInv, NEW rid \in RecordIDs, NEW r \in Records, UpdateRecord(rid, r)
    PROVE  /\ HeapInv' /\ call = Idle /\ call' = Idle
           /\ \/ /\ result' = "ok" /\ Contents[rid] # None
                 /\ Contents' = [Contents EXCEPT ![rid] = r]
              \/ result' = "error" /\ Contents' = Contents
  <1>1. call = Idle /\ ContainsPage(rid[1]) /\ UNCHANGED <<allocated, leaked, call>>
    BY DEF UpdateRecord
  <1>2. CASE /\ page[rid[1]].records[rid[2]] # None
             /\ page' = [page EXCEPT ![rid[1]] = WithRecord(@, rid[2], r)]
             /\ result' = "ok"
    BY <1>1, <1>2, WriteInv
  <1>3. CASE result' = "error" /\ UNCHANGED page
    BY <1>1, <1>3, NothingWritten
  <1>4. QED
    BY <1>2, <1>3 DEF UpdateRecord

\* As an update does.
LEMMA DeleteRecordInv ==
    ASSUME HeapInv, NEW rid \in RecordIDs, DeleteRecord(rid)
    PROVE  /\ HeapInv' /\ call = Idle /\ call' = Idle
           /\ \/ /\ result' = "ok" /\ Contents[rid] # None
                 /\ Contents' = [Contents EXCEPT ![rid] = None]
              \/ result' = "error" /\ Contents' = Contents
  <1>1. call = Idle /\ ContainsPage(rid[1]) /\ UNCHANGED <<allocated, leaked, call>>
    BY DEF DeleteRecord
  <1>2. CASE /\ page[rid[1]].records[rid[2]] # None
             /\ page' = [page EXCEPT ![rid[1]] = WithRecord(@, rid[2], None)]
             /\ result' = "ok"
    BY <1>1, <1>2, WriteInv
  <1>3. CASE result' = "error" /\ UNCHANGED page
    BY <1>1, <1>3, NothingWritten
  <1>4. QED
    BY <1>2, <1>3 DEF DeleteRecord

-----------------------------------------------------------------------------
(* The scan.                                                               *)

\* Where a scan is.
LEMMA ScanFacts ==
    ASSUME HeapInv, call.op = "scan"
    PROVE  /\ TypeInv /\ ChainInv /\ OwnersInv /\ ScanInv /\ call \in Scans
           /\ call.from \in Nat \ {0} /\ call.seen \in Seq(RecordIDs)
           /\ call.at # INVALID_PAGE_ID => call.at \in PageIds /\ call.at \in Chain
  BY CallFacts DEF HeapInv, CallInv, ScanInv, Scans, Refs

\* It begins before the first record.
LEMMA ScanOpenInv ==
    ASSUME HeapInv, ScanOpen
    PROVE  HeapInv'
  <1>1. /\ call = Idle /\ UNCHANGED <<page, allocated, leaked, result>>
        /\ call' = [op |-> "scan", at |-> first_page_id, from |-> 1, seen |-> <<>>]
    BY DEF ScanOpen
  <1>2. TypeInv /\ ChainInv /\ OwnersInv /\ call.op # "link"
    BY <1>1 DEF HeapInv, Idle
  <1>3. TypeInv'
    <2>1. call' \in Scans
      BY <1>1, PageFacts DEF Scans, Refs
    <2>2. QED
      BY <1>1, <1>2, <2>1 DEF TypeInv
  <1>4. ChainInv' /\ OwnersInv' /\ Chain' = Chain /\ Links' = Links /\ Live' = Live
    BY <1>1, <1>2, PagesKept
  <1>5. ScanInv'
    <2>1. Seen' = {} /\ Len(call'.seen) = 0
      BY <1>1 DEF Seen
    <2>2. Passed' = {}
      <3>1. \A rid \in Live : rid[1] \in Visited(Links, first_page_id) /\ ~(rid[2] < 1)
        BY SlotFacts DEF Live, Chain
      <3>2. QED
        BY <1>1, <1>4, <3>1 DEF Passed
    <2>3. IsFiniteSet({}) /\ Cardinality({}) = 0
      BY FS_EmptySet
    <2>4. call'.at \in Chain'
      BY <1>1, <1>4, ChainFacts
    <2>5. QED
      BY <2>1, <2>2, <2>3, <2>4 DEF ScanInv
  <1>6. CallInv'
    BY <1>1, <1>5 DEF CallInv
  <1>7. QED
    BY <1>3, <1>4, <1>6 DEF HeapInv

\* A record is returned: it was not among those returned before.
LEMMA ScanReturnsInv ==
    ASSUME HeapInv, NEW s \in SlotIds, ScanReturns(s)
    PROVE  HeapInv'
  <1> DEFINE rid0 == <<call.at, s>>
  <1>1. /\ call.op = "scan" /\ call.at # INVALID_PAGE_ID /\ Found(s)
        /\ call' = [call EXCEPT !.from = s + 1, !.seen = Append(@, rid0)]
        /\ UNCHANGED <<page, allocated, leaked, result>>
    BY DEF ScanReturns
  <1>2. /\ TypeInv /\ ChainInv /\ OwnersInv /\ ScanInv /\ call \in Scans
        /\ call.from \in Nat \ {0} /\ call.seen \in Seq(RecordIDs)
        /\ call.at \in PageIds /\ call.at \in Chain
    BY <1>1, ScanFacts
  <1>3. /\ s \in Nat /\ call.from <= s /\ page[call.at].records[s] # None
        /\ \A t \in SlotIds : call.from <= t /\ t < s => page[call.at].records[t] = None
    BY <1>1, <1>2, SlotFacts DEF Found
  <1>4. rid0 \in RecordIDs /\ rid0 \in Live
    BY <1>2, <1>3 DEF RecordIDs, Live
  <1>5. /\ call'.op = "scan" /\ call'.at = call.at /\ call'.from = s + 1
        /\ call'.seen = Append(call.seen, rid0) /\ call' \in Scans
    <2>1. Append(call.seen, rid0) \in Seq(RecordIDs) /\ s + 1 \in Nat \ {0}
      BY <1>2, <1>3, <1>4
    <2> DEFINE SEQ == Seq(RecordIDs)
               NEXT == Append(call.seen, rid0)
    <2>2. /\ call \in [op : {"scan"}, at : Refs, from : Nat \ {0}, seen : SEQ]
          /\ call' = [call EXCEPT !.from = s + 1, !.seen = NEXT]
          /\ NEXT \in SEQ /\ s + 1 \in Nat \ {0}
      BY <1>1, <1>2, <2>1 DEF Scans
    <2>3. /\ call'.op = "scan" /\ call'.at = call.at /\ call'.from = s + 1
          /\ call'.seen = NEXT
          /\ call' \in [op : {"scan"}, at : Refs, from : Nat \ {0}, seen : SEQ]
      <3> HIDE DEF SEQ, NEXT
      <3> QED
        BY <2>2
    <2>4. QED
      BY <2>3 DEF Scans
  <1>6. ChainInv' /\ OwnersInv' /\ Chain' = Chain /\ Links' = Links /\ Live' = Live
    BY <1>1, <1>2, PagesKept
  <1>7. Passed' = Passed \cup {rid0}
    <2>1. \A rid \in Live : rid[2] \in Nat /\ rid = <<rid[1], rid[2]>>
                            /\ rid[2] \in SlotIds /\ page[rid[1]].records[rid[2]] # None
      BY SlotFacts DEF Live
    <2>2. \A rid \in Live : rid[1] = call.at =>
             (rid[2] < s + 1 <=> rid[2] < call.from \/ rid[2] = s)
      BY <1>2, <1>3, <2>1
    <2>3. \A rid : rid \in Passed' <=>
             /\ rid \in Live
             /\ \/ rid[1] \notin Visited(Links, call.at)
                \/ rid[1] = call.at /\ rid[2] < s + 1
      BY <1>5, <1>6 DEF Passed
    <2>4. \A rid : rid \in Passed <=>
             /\ rid \in Live
             /\ \/ rid[1] \notin Visited(Links, call.at)
                \/ rid[1] = call.at /\ rid[2] < call.from
      BY DEF Passed
    <2>5. \A rid \in Live : rid \in Passed' <=> rid \in Passed \/ rid = rid0
      BY <2>1, <2>2, <2>3, <2>4
    <2>6. QED
      BY <1>4, <2>3, <2>4, <2>5
  <1>8. rid0 \notin Passed
    BY <1>2, <1>3, PageFacts, VisitedFacts DEF Passed
  <1>9. Seen' = Seen \cup {rid0} /\ Len(call'.seen) = Len(call.seen) + 1
    <2>1. /\ Len(call'.seen) = Len(call.seen) + 1 /\ Len(call.seen) \in Nat
          /\ DOMAIN call'.seen = 1 .. Len(call.seen) + 1
          /\ DOMAIN call.seen = 1 .. Len(call.seen)
          /\ \A i \in 1 .. Len(call.seen) : call'.seen[i] = call.seen[i]
          /\ call'.seen[Len(call.seen) + 1] = rid0
      BY <1>2, <1>4, <1>5
    <2>2. \A x : x \in Seen <=> \E i \in 1 .. Len(call.seen) : x = call.seen[i]
      BY <2>1 DEF Seen
    <2>3. \A x : x \in Seen' <=> \E i \in 1 .. Len(call.seen) + 1 : x = call'.seen[i]
      BY <2>1 DEF Seen
    <2>4. 1 .. Len(call.seen) + 1 = 1 .. Len(call.seen) \cup {Len(call.seen) + 1}
      BY <2>1
    <2>5. \A x : x \in Seen' <=> x \in Seen \/ x = rid0
      BY <2>1, <2>2, <2>3, <2>4
    <2>6. QED
      BY <2>1, <2>5
  <1>10. ScanInv'
    <2>1. Seen = Passed /\ IsFiniteSet(Seen) /\ Len(call.seen) = Cardinality(Seen)
      BY <1>2 DEF ScanInv
    <2>2. IsFiniteSet(Seen \cup {rid0}) /\ Cardinality(Seen \cup {rid0}) = Cardinality(Seen) + 1
      BY <1>8, <2>1, FS_AddElement
    <2>3. IsFiniteSet(Seen') /\ Len(call'.seen) = Cardinality(Seen')
      BY <1>9, <2>1, <2>2
    <2>4. Seen' = Passed'
      BY <1>7, <1>9, <2>1
    <2>5. QED
      BY <1>2, <1>5, <1>6, <2>3, <2>4 DEF ScanInv
  <1>11. TypeInv'
    BY <1>1, <1>2, <1>5 DEF TypeInv
  <1>12. CallInv'
    BY <1>5, <1>10 DEF CallInv
  <1>13. QED
    BY <1>6, <1>11, <1>12 DEF HeapInv

\* FindRecordFrom finds a record if the page has one at or after slot from: the
\* first of them.
LEMMA SomethingFound ==
    ASSUME call.from \in Nat \ {0}, \A s \in SlotIds : ~Found(s)
    PROVE  \A t \in SlotIds : call.from <= t => page[call.at].records[t] = None
  <1> DEFINE T == {t \in SlotIds : call.from <= t /\ page[call.at].records[t] # None}
  <1>1. SUFFICES ASSUME T # {} PROVE FALSE
    OBVIOUS
  <1>2. T \subseteq Nat
    BY SlotFacts
  <1>3. PICK s \in T : \A t \in T : s <= t
    <2> HIDE DEF T
    <2> QED
      BY <1>1, <1>2, LeastNatural
  <1>4. \A t \in SlotIds : call.from <= t /\ t < s => page[call.at].records[t] = None
    BY <1>2, <1>3, SlotFacts
  <1>5. Found(s)
    BY <1>3, <1>4, SlotFacts DEF Found
  <1>6. QED
    BY <1>3, <1>5

\* No record is left on the page: the scan goes on to the next one.
LEMMA ScanMovesOnInv ==
    ASSUME HeapInv, ScanMovesOn
    PROVE  HeapInv'
  <1> DEFINE n == page[call.at].next
  <1>1. /\ call.op = "scan" /\ call.at # INVALID_PAGE_ID
        /\ \A s \in SlotIds : ~Found(s)
        /\ call' = [call EXCEPT !.at = n, !.from = 1]
        /\ UNCHANGED <<page, allocated, leaked, result>>
    BY DEF ScanMovesOn
  <1>2. /\ TypeInv /\ ChainInv /\ OwnersInv /\ ScanInv /\ call \in Scans
        /\ call.from \in Nat \ {0} /\ call.seen \in Seq(RecordIDs)
        /\ call.at \in PageIds /\ call.at \in Chain
    BY <1>1, ScanFacts
  <1>3. n \in Refs /\ Links[call.at] = n
    BY <1>2, PageFacts DEF TypeInv, Pages
  <1>4. /\ call'.op = "scan" /\ call'.at = n /\ call'.from = 1
        /\ call'.seen = call.seen /\ call' \in Scans
    <2> DEFINE SEQ == Seq(RecordIDs)
               ONE == Nat \ {0}
    <2>1. /\ call \in [op : {"scan"}, at : Refs, from : ONE, seen : SEQ]
          /\ call' = [call EXCEPT !.at = n, !.from = 1]
          /\ n \in Refs /\ 1 \in ONE
      BY <1>1, <1>2, <1>3 DEF Scans
    <2>2. /\ call'.op = "scan" /\ call'.at = n /\ call'.from = 1
          /\ call'.seen = call.seen
          /\ call' \in [op : {"scan"}, at : Refs, from : ONE, seen : SEQ]
      <3> HIDE DEF SEQ, ONE, n
      <3> QED
        BY <2>1
    <2>3. QED
      BY <2>2 DEF Scans
  <1>5. ChainInv' /\ OwnersInv' /\ Chain' = Chain /\ Links' = Links /\ Live' = Live
    BY <1>1, <1>2, PagesKept
  <1>6. \A t \in SlotIds : call.from <= t => page[call.at].records[t] = None
    BY <1>1, <1>2, SomethingFound
  <1>7. Visited(Links, call.at) = {call.at} \cup Visited(Links, n)
    BY <1>2, <1>3, PageFacts, VisitedStep
  <1>8. call.at \notin Visited(Links, n)
    BY <1>2, <1>3, NoReturn DEF ChainInv, Chain
  <1>9. Passed' = Passed
    <2>1. \A rid \in Live : /\ rid[2] \in SlotIds /\ rid[2] \in Nat /\ ~(rid[2] < 1)
                            /\ page[rid[1]].records[rid[2]] # None
      BY SlotFacts DEF Live
    <2>2. \A rid \in Live : rid[1] = call.at => rid[2] < call.from
      BY <1>2, <1>6, <2>1
    <2>3. \A rid : rid \in Passed' <=>
             /\ rid \in Live
             /\ rid[1] \notin Visited(Links, n) \/ (rid[1] = n /\ rid[2] < 1)
      BY <1>4, <1>5 DEF Passed
    <2>4. \A rid : rid \in Passed <=>
             /\ rid \in Live
             /\ \/ rid[1] \notin Visited(Links, call.at)
                \/ rid[1] = call.at /\ rid[2] < call.from
      BY DEF Passed
    <2>5. \A rid \in Live : rid \in Passed' <=> rid \in Passed
      BY <1>7, <1>8, <2>1, <2>2, <2>3, <2>4
    <2>6. QED
      BY <2>3, <2>4, <2>5
  <1>10. ScanInv'
    <2>1. Seen' = Seen
      BY <1>4 DEF Seen
    <2>2. n # INVALID_PAGE_ID => n \in Chain
      BY <1>2, <1>3, ChainFacts DEF Refs
    <2>3. QED
      BY <1>2, <1>4, <1>5, <1>9, <2>1, <2>2 DEF ScanInv
  <1>11. TypeInv'
    BY <1>1, <1>2, <1>4 DEF TypeInv
  <1>12. CallInv'
    BY <1>4, <1>10 DEF CallInv
  <1>13. QED
    BY <1>5, <1>11, <1>12 DEF HeapInv

\* The scan is closed.
LEMMA ScanCloseInv ==
    ASSUME HeapInv, ScanClose
    PROVE  HeapInv'
  <1>1. /\ call.op = "scan" /\ call' = Idle /\ UNCHANGED <<page, allocated, leaked, result>>
    BY DEF ScanClose
  <1>2. TypeInv'
    BY <1>1 DEF HeapInv, TypeInv
  <1>3. ChainInv' /\ OwnersInv'
    BY <1>1, PagesKept DEF HeapInv
  <1>4. CallInv'
    BY <1>1 DEF CallInv, Idle
  <1>5. QED
    BY <1>2, <1>3, <1>4 DEF HeapInv

-----------------------------------------------------------------------------
(* The invariant.                                                          *)

\* The first page alone, of zeroes or initialised.
LEMMA InitInv ==
    ASSUME HeapInit
    PROVE  HeapInv /\ Chain = {first_page_id} /\ Live = {}
  <1>1. PICK c \in {Blank, Fresh} :
           page = [p \in PageIds |-> IF p = first_page_id THEN c ELSE Blank]
    BY DEF HeapInit
  <1>2. /\ allocated = {first_page_id} /\ leaked = {} /\ call = Idle /\ result = "ok"
    BY DEF HeapInit
  <1>3. \A p \in PageIds : page[p].next = INVALID_PAGE_ID
    BY <1>1, BlankFacts
  <1>4. Chain = {first_page_id}
    <2>1. Chain = {first_page_id} \cup Visited(Links, INVALID_PAGE_ID)
      BY <1>3, PageFacts, VisitedStep DEF Chain
    <2>2. QED
      BY <2>1, ChainFacts
  <1>5. TypeInv
    <2>1. page \in [PageIds -> Pages]
      BY <1>1, BlankFacts
    <2>2. QED
      BY <1>2, <2>1, PageFacts DEF TypeInv
  <1>6. ChainInv
    <2>1. Ends(Links, first_page_id)
      BY <1>3, <1>4, PageFacts DEF Ends, Chain
    <2>2. page[first_page_id].initialized \/ page[first_page_id] = Blank
      BY <1>1, PageFacts, BlankFacts
    <2>3. QED
      BY <1>2, <1>4, <2>1, <2>2 DEF ChainInv
  <1>7. OwnersInv
    BY <1>2, <1>4 DEF OwnersInv
  <1>8. CallInv
    BY <1>2 DEF CallInv, Idle
  <1>9. Live = {}
    <2>1. \A s \in SlotIds : page[first_page_id].records[s] = None
      BY <1>1, PageFacts, BlankFacts
    <2>2. QED
      BY <1>4, <2>1 DEF Live
  <1>10. QED
    BY <1>4, <1>5, <1>6, <1>7, <1>8, <1>9 DEF HeapInv

\* Every step keeps the invariant.
LEMMA NextInv == HeapInv /\ [HeapNext]_heapVars => HeapInv'
  <1>1. SUFFICES ASSUME HeapInv, [HeapNext]_heapVars PROVE HeapInv'
    OBVIOUS
  <1>2. CASE \E r \in Records : CallInsert(r)
    BY <1>1, <1>2, CallInsertInv
  <1>3. CASE \E s \in SlotIds : InsertHere(s)
    BY <1>1, <1>3, InsertHereInv
  <1>4. CASE InsertMovesOn
    BY <1>1, <1>4, InsertMovesOnInv
  <1>5. CASE InsertFails
    BY <1>1, <1>5, InsertFailsInv
  <1>6. CASE \E p \in PageIds : AppendNewPage(p) \/ AppendTooLarge(p)
    BY <1>1, <1>6, AppendNewPageInv, AppendTooLargeInv
  <1>7. CASE LinkNewPage
    BY <1>1, <1>7, LinkNewPageInv
  <1>8. CASE LinkFails
    BY <1>1, <1>8, LinkFailsInv
  <1>9. CASE \E rid \in RecordIDs : DeleteRecord(rid)
    BY <1>1, <1>9, DeleteRecordInv
  <1>10. CASE \E rid \in RecordIDs : \E r \in Records : UpdateRecord(rid, r)
    BY <1>1, <1>10, UpdateRecordInv
  <1>11. CASE ScanOpen
    BY <1>1, <1>11, ScanOpenInv
  <1>12. CASE \E s \in SlotIds : ScanReturns(s)
    BY <1>1, <1>12, ScanReturnsInv
  <1>13. CASE ScanMovesOn
    BY <1>1, <1>13, ScanMovesOnInv
  <1>14. CASE ScanClose
    BY <1>1, <1>14, ScanCloseInv
  <1>15. CASE UNCHANGED heapVars
    <2>1. UNCHANGED <<page, allocated, leaked, call, result>>
      BY <1>15 DEF heapVars
    <2>2. Links' = Links /\ Chain' = Chain /\ Live' = Live /\ Seen' = Seen
      BY <2>1 DEF Links, Chain, Live, Seen
    <2>3. (TypeInv' <=> TypeInv) /\ (ChainInv' <=> ChainInv) /\ (OwnersInv' <=> OwnersInv)
      BY <2>1, <2>2 DEF TypeInv, ChainInv, OwnersInv
    <2>4. CallInv' <=> CallInv
      <3>1. (AtEnd' <=> AtEnd) /\ Passed' = Passed
        BY <2>1, <2>2 DEF AtEnd, Passed
      <3>2. (LinkInv' <=> LinkInv) /\ (ScanInv' <=> ScanInv)
        BY <2>1, <2>2, <3>1 DEF LinkInv, ScanInv
      <3>3. QED
        BY <2>1, <2>2, <3>1, <3>2 DEF CallInv
    <2>5. QED
      BY <1>1, <2>3, <2>4 DEF HeapInv
  <1>16. QED
    BY <1>1, <1>2, <1>3, <1>4, <1>5, <1>6, <1>7, <1>8, <1>9, <1>10, <1>11, <1>12, <1>13,
       <1>14, <1>15 DEF HeapNext, InsertStep, ScanStep

\* The inductive invariant holds in every state.
LEMMA AlwaysHeapInv == HeapSpec => []HeapInv
  BY InitInv, NextInv, PTL DEF HeapSpec

\* The chain of a table ends and leads only to initialised pages in use: no walk
\* along it reports a cycle.
THEOREM ChainStaysSound == HeapSpec => []ChainSound
  <1>1. HeapInv => ChainSound
    <2>1. SUFFICES ASSUME HeapInv PROVE ChainSound
      OBVIOUS
    <2>2. TypeInv /\ ChainInv
      BY <2>1 DEF HeapInv
    <2>3. HeapTypeOK
      BY <2>2, CallFacts DEF TypeInv, Pages, Refs, HeapTypeOK
    <2>4. QED
      BY <2>2, <2>3 DEF ChainInv, ChainSound
  <1>2. QED
    BY <1>1, AlwaysHeapInv, PTL

\* A failed insertion leaves no page behind.
THEOREM NoPageIsOrphaned == HeapSpec => []NoOrphanPages
  <1>1. HeapInv => NoOrphanPages
    BY DEF HeapInv, OwnersInv, NoOrphanPages
  <1>2. QED
    BY <1>1, AlwaysHeapInv, PTL

\* A scan that comes to its end has returned every record of the table, once.  (One
\* that meets a first page that was never initialised ends in an error.)
THEOREM ScansAreComplete == HeapSpec => []ScanComplete
  <1>1. HeapInv => ScanComplete
    <2>1. SUFFICES ASSUME HeapInv, call.op = "scan", call.at = INVALID_PAGE_ID
                   PROVE  Seen = Live /\ Len(call.seen) = Cardinality(Live)
      BY DEF ScanComplete, Seen
    <2>2. ScanInv
      BY <2>1, ScanFacts
    <2>3. Passed = Live
      BY <2>1, ChainFacts DEF Passed
    <2>4. QED
      BY <2>2, <2>3 DEF ScanInv
  <1>2. QED
    BY <1>1, AlwaysHeapInv, PTL
-----------------------------------------------------------------------------
(* The table: an insertion takes effect when its record is written into a  *)
(* page of the chain or its page is linked, an update or deletion in its   *)
(* only step, and no other step changes what the table shows.              *)

\* What the call in progress asks for.
LEMMA RequestFacts ==
    /\ call.op \in {"insert", "append", "link"} => Request = <<"insert", call.record>>
    /\ call.op \notin {"insert", "append", "link"} => Request = Table!NoRequest
    /\ call'.op \in {"insert", "append", "link"} => Request' = <<"insert", call'.record>>
    /\ call'.op \notin {"insert", "append", "link"} => Request' = Table!NoRequest
    /\ call' = Idle => Request' = Table!NoRequest
  BY DEF Request, Table!NoRequest, Idle

\* A call that reports an error has changed nothing.
LEMMA Refused ==
    ASSUME call' = Idle, result' = "error", Contents' = Contents
    PROVE  Table!TableNext
  <1>1. Table!Refuse
    BY RequestFacts DEF Table!Refuse, Table!Report
  <1>2. QED
    BY <1>1 DEF Table!TableNext

\* An insertion that reports success has added its record under an identifier
\* that was free.
LEMMA Inserted ==
    ASSUME call.op \in {"insert", "link"}, call.record \in Records,
           call' = Idle, result' = "ok", NEW rid \in RecordIDs, Contents[rid] = None,
           Contents' = [Contents EXCEPT ![rid] = call.record]
    PROVE  Table!TableNext
  <1>1. Table!InsertRecord(rid, call.record)
    BY RequestFacts DEF Table!InsertRecord, Table!Asked, Table!Report
  <1>2. QED
    BY <1>1 DEF Table!TableNext

\* The steps of an insertion.
LEMMA InsertSteps ==
    ASSUME HeapInv, (\E r \in Records : CallInsert(r)) \/ InsertStep
    PROVE  Table!TableNext \/ UNCHANGED <<Contents, Request, result>>
  <1>1. CASE \E r \in Records : CallInsert(r)
    <2>1. PICK r \in Records : CallInsert(r)
      BY <1>1
    <2>2. /\ call = Idle /\ call'.op = "insert" /\ call'.record = r
          /\ UNCHANGED <<page, allocated, leaked, result>>
      BY <2>1 DEF CallInsert
    <2>3. Request = Table!NoRequest /\ Request' = <<"insert", r>>
      BY <2>2, RequestFacts DEF Idle
    <2>4. Contents' = Contents
      BY <2>2, PagesKept DEF HeapInv, Idle
    <2>5. <<"insert", r>> \in Table!Requests
      BY DEF Table!Requests
    <2>6. Table!Call
      BY <2>2, <2>3, <2>4, <2>5 DEF Table!Call
    <2>7. QED
      BY <2>6 DEF Table!TableNext
  <1>2. CASE \E s \in SlotIds : InsertHere(s)
    <2>1. PICK s \in SlotIds : InsertHere(s)
      BY <1>2
    <2>2. call.op = "insert" /\ call' = Idle /\ result' = "ok"
      BY <2>1 DEF InsertHere, Return
    <2>3. call.record \in Records
      BY <2>2, InsertFacts
    <2>4. QED
      BY <2>1, <2>2, <2>3, InsertHereInv, Inserted
  <1>3. CASE InsertMovesOn
    <2>1. /\ call.op = "insert" /\ result' = result
          /\ call' = IF InHand.next # INVALID_PAGE_ID
                     THEN [call EXCEPT !.at = InHand.next] ELSE [call EXCEPT !.op = "append"]
      BY <1>3 DEF InsertMovesOn
    <2>2. call \in Insertions
      BY <2>1, InsertFacts
    <2>3. call'.op \in {"insert", "append"} /\ call'.record = call.record
      BY <2>1, <2>2 DEF Insertions
    <2>4. QED
      BY <1>3, <2>1, <2>3, RequestFacts, InsertMovesOnInv
  <1>4. CASE \E p \in PageIds : AppendNewPage(p)
    <2>1. PICK p \in PageIds : AppendNewPage(p)
      BY <1>4
    <2>2. /\ call.op = "append" /\ call'.op = "link" /\ call'.record = call.record
          /\ result' = result
      BY <2>1 DEF AppendNewPage
    <2>3. QED
      BY <2>1, <2>2, RequestFacts, AppendNewPageInv
  <1>5. CASE InsertFails \/ LinkFails \/ \E p \in PageIds : AppendTooLarge(p)
    <2>1. call' = Idle /\ result' = "error"
      BY <1>5 DEF InsertFails, LinkFails, AppendTooLarge, Return
    <2>2. QED
      BY <1>5, <2>1, InsertFailsInv, LinkFailsInv, AppendTooLargeInv, Refused
  <1>6. CASE LinkNewPage
    <2>1. call.op = "link" /\ call' = Idle /\ result' = "ok"
      BY <1>6 DEF LinkNewPage, Return
    <2>2. call.record \in Records
      BY <2>1, CallFacts DEF HeapInv, Linkings
    <2>3. QED
      BY <1>6, <2>1, <2>2, LinkNewPageInv, Inserted
  <1>7. QED
    BY <1>1, <1>2, <1>3, <1>4, <1>5, <1>6 DEF InsertStep

\* Updates and deletions.
LEMMA WriteSteps ==
    ASSUME HeapInv, NEW rid \in RecordIDs,
           DeleteRecord(rid) \/ \E r \in Records : UpdateRecord(rid, r)
    PROVE  Table!TableNext
  <1>1. ASSUME NEW r \in Records, UpdateRecord(rid, r) PROVE Table!TableNext
    <2>1. /\ call = Idle /\ call' = Idle
          /\ \/ /\ result' = "ok" /\ Contents[rid] # None
                /\ Contents' = [Contents EXCEPT ![rid] = r]
             \/ result' = "error" /\ Contents' = Contents
      BY <1>1, UpdateRecordInv
    <2>2. Request = Table!NoRequest /\ Request' = Table!NoRequest
      BY <2>1, RequestFacts DEF Idle
    <2>3. CASE result' = "error"
      BY <2>1, <2>3, Refused
    <2>4. CASE result' = "ok"
      <3>1. Table!UpdateRecord(rid, r)
        BY <2>1, <2>2, <2>4 DEF Table!UpdateRecord, Table!Asked, Table!Report
      <3>2. QED
        BY <3>1 DEF Table!TableNext
    <2>5. QED
      BY <2>1, <2>3, <2>4
  <1>2. ASSUME DeleteRecord(rid) PROVE Table!TableNext
    <2>1. /\ call = Idle /\ call' = Idle
          /\ \/ /\ result' = "ok" /\ Contents[rid] # None
                /\ Contents' = [Contents EXCEPT ![rid] = None]
             \/ result' = "error" /\ Contents' = Contents
      BY <1>2, DeleteRecordInv
    <2>2. Request = Table!NoRequest /\ Request' = Table!NoRequest
      BY <2>1, RequestFacts DEF Idle
    <2>3. CASE result' = "error"
      BY <2>1, <2>3, Refused
    <2>4. CASE result' = "ok"
      <3>1. Table!DeleteRecord(rid)
        BY <2>1, <2>2, <2>4 DEF Table!DeleteRecord, Table!Asked, Table!Report
      <3>2. QED
        BY <3>1 DEF Table!TableNext
    <2>5. QED
      BY <2>1, <2>3, <2>4
  <1>3. QED
    BY <1>1, <1>2

\* A scan changes nothing.
LEMMA ScanSteps ==
    ASSUME HeapInv, ScanOpen \/ ScanStep
    PROVE  UNCHANGED <<Contents, Request, result>>
  <1>1. /\ call.op \in {"idle", "scan"} /\ UNCHANGED <<page, allocated, leaked, result>>
    <2>1. CASE ScanOpen
      BY <2>1 DEF ScanOpen, Idle
    <2>2. CASE \E s \in SlotIds : ScanReturns(s)
      BY <2>2 DEF ScanReturns
    <2>3. CASE ScanMovesOn
      BY <2>3 DEF ScanMovesOn
    <2>4. CASE ScanClose
      BY <2>4 DEF ScanClose
    <2>5. QED
      BY <2>1, <2>2, <2>3, <2>4 DEF ScanStep
  <1>2. call'.op \in {"idle", "scan"}
    <2>1. CASE ScanOpen \/ ScanClose
      BY <2>1 DEF ScanOpen, ScanClose, Idle
    <2>2. CASE (\E s \in SlotIds : ScanReturns(s)) \/ ScanMovesOn
      <3>1. call \in Scans
        BY <2>2, ScanFacts DEF ScanReturns, ScanMovesOn
      <3>2. QED
        BY <2>2, <3>1 DEF ScanReturns, ScanMovesOn, Scans
    <2>3. QED
      BY <2>1, <2>2 DEF ScanStep
  <1>3. Contents' = Contents
    BY <1>1, PagesKept DEF HeapInv
  <1>4. QED
    BY <1>1, <1>2, <1>3, RequestFacts

\* The heap file implements a table of records: whichever page access fails, a
\* call does to it what it reports, and no other record moves or changes.
THEOREM HeapImplementsTable == HeapSpec => ImplementsHeapTable
  <1>1. HeapInit => Table!TableInit
    <2>1. SUFFICES ASSUME HeapInit PROVE Table!TableInit
      OBVIOUS
    <2>2. call = Idle /\ result = "ok"
      BY <2>1 DEF HeapInit
    <2>3. Contents = [rid \in RecordIDs |-> None]
      BY <2>1, InitInv DEF Contents
    <2>4. Request = Table!NoRequest
      BY <2>2, RequestFacts DEF Idle
    <2>5. QED
      BY <2>2, <2>3, <2>4 DEF Table!TableInit
  <1>2. HeapInv /\ [HeapNext]_heapVars
           => [Table!TableNext]_<<Contents, Request, result>>
    <2>1. SUFFICES ASSUME HeapInv, [HeapNext]_heapVars
                   PROVE  Table!TableNext \/ UNCHANGED <<Contents, Request, result>>
      OBVIOUS
    <2>2. CASE (\E r \in Records : CallInsert(r)) \/ InsertStep
      BY <2>1, <2>2, InsertSteps
    <2>3. CASE \E rid \in RecordIDs :
                  DeleteRecord(rid) \/ \E r \in Records : UpdateRecord(rid, r)
      BY <2>1, <2>3, WriteSteps
    <2>4. CASE ScanOpen \/ ScanStep
      BY <2>1, <2>4, ScanSteps
    <2>5. CASE UNCHANGED heapVars
      BY <2>5 DEF heapVars, Contents, Live, Chain, Links, Request
    <2>6. QED
      BY <2>1, <2>2, <2>3, <2>4, <2>5 DEF HeapNext
  <1>3. QED
    BY <1>1, <1>2, AlwaysHeapInv, PTL
       DEF HeapSpec, ImplementsHeapTable, Table!TableSpec
=============================================================================
