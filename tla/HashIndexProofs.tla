---------------------------- MODULE HashIndexProofs ----------------------------
(***************************************************************************)
(* The hash index keeps its chains sound, holds no entry twice and loses   *)
(* no page, and implements a set of entries: for every number of pages,    *)
(* every set of keys and record identifiers, every assignment of keys to   *)
(* buckets and every capacity, whichever access to a page fails.           *)
(***************************************************************************)
EXTENDS HashIndex, SharedLemmas

Refs == PageIds \cup {INVALID_PAGE_ID}
Pages == [initialized : BOOLEAN, overflow : Refs, entries : SUBSET (Keys \X RecordIDs)]
Insertions == [op : {"insert", "link"}, key : Keys, rid : RecordIDs,
               at : Refs, space : Refs, last : Refs]
Removals == [op : {"remove"}, key : Keys, rid : RecordIDs \cup {AnyRid},
             at : Refs, removed : BOOLEAN]
Destructions == [op : {"destroy"}, todo : SUBSET PageIds, at : Refs]

TypeInv ==
    /\ header \in [page : Refs, buckets : [Buckets -> Refs]]
    /\ bucket \in [PageIds -> Pages]
    /\ \A p \in PageIds : /\ IsFiniteSet(bucket[p].entries)
                          /\ Cardinality(bucket[p].entries) <= Capacity
    /\ allocated \subseteq PageIds /\ leaked \subseteq allocated
    /\ call \in {Idle} \cup Insertions \cup Removals \cup Destructions
    /\ result \in {"ok", "error"}
    /\ IF Exists THEN header.page \in allocated \ leaked
       ELSE header = NoIndex /\ call = Idle

(* The chains end, share no page and hold no entry twice.                  *)
ChainsInv ==
    /\ \A b \in Buckets : Ends(Links, header.buckets[b])
    /\ \A b, c \in Buckets : b # c => Chain(b) \cap Chain(c) = {}
    /\ \A b \in Buckets : \A p \in Chain(b) :
          p # header.page /\ p \in allocated \ leaked /\ bucket[p].initialized
    /\ \A b \in Buckets : \A p, q \in Chain(b) :
          p # q => bucket[p].entries \cap bucket[q].entries = {}

(* Every page has an owner.                                                *)
OwnersInv ==
    \A p \in allocated \ leaked : \/ p = header.page
                                  \/ \E b \in Buckets : p \in Chain(b)
                                  \/ call.op = "link" /\ p = call.at

(* An insertion on its way along the chain: the pages behind it do not     *)
(* have the entry.                                                         *)
InsertInv ==
    LET b == BucketOf[call.key] IN
    /\ IF call.last = INVALID_PAGE_ID THEN call.at = header.buckets[b]
       ELSE call.last \in Chain(b) /\ call.at = bucket[call.last].overflow
    /\ call.space # INVALID_PAGE_ID =>
          call.space \in Chain(b) /\ Cardinality(bucket[call.space].entries) < Capacity
    /\ \A q \in Chain(b) \ Visited(Links, call.at) : Entry \notin bucket[q].entries

(* An insertion with a new page: it is in no chain yet, and neither is the *)
(* entry.                                                                  *)
LinkInv ==
    LET b == BucketOf[call.key] IN
    /\ call.at \in allocated \ leaked /\ call.at # header.page
    /\ \A c \in Buckets : call.at \notin Chain(c)
    /\ bucket[call.at] = [Fresh EXCEPT !.entries = {Entry}]
    /\ IF call.last = INVALID_PAGE_ID THEN header.buckets[b] = INVALID_PAGE_ID
       ELSE call.last \in Chain(b) /\ bucket[call.last].overflow = INVALID_PAGE_ID
    /\ \A q \in Chain(b) : Entry \notin bucket[q].entries

(* A removal on its way: the pages behind it have nothing it should remove.*)
RemoveInv ==
    LET b == BucketOf[call.key] IN
    /\ call.at # INVALID_PAGE_ID => call.at \in Chain(b)
    /\ \A q \in Chain(b) \ Visited(Links, call.at) : Matching(bucket[q].entries) = {}
    /\ call.removed => call.rid = AnyRid

(* A destruction on its way: what is left of the chains is still in use,   *)
(* and nothing else but the header page is.                                *)
Starts == {call.at} \cup call.todo
Left == UNION {Visited(Links, p) : p \in Starts}
DestroyInv ==
    /\ call.at \notin call.todo
    /\ \A p \in Starts : Ends(Links, p)
    /\ \A p, q \in Starts : p # q => Visited(Links, p) \cap Visited(Links, q) = {}
    /\ Left \subseteq allocated \ leaked /\ header.page \notin Left
    /\ allocated \ leaked \subseteq {header.page} \cup Left
    /\ NoDuplicateEntries

CallInv == CASE call.op = "idle" -> TRUE
             [] call.op = "insert" -> InsertInv
             [] call.op = "link" -> LinkInv
             [] call.op = "remove" -> RemoveInv

IndexInv == /\ TypeInv
            /\ IF call.op = "destroy" THEN DestroyInv
               ELSE ChainsInv /\ OwnersInv /\ CallInv

-----------------------------------------------------------------------------
(* Pages, calls and requests.                                              *)

\* Page numbers, and the buckets of keys.
LEMMA PageFacts ==
    /\ INVALID_PAGE_ID \notin PageIds
    /\ DOMAIN Links = PageIds /\ \A p \in PageIds : Links[p] = bucket[p].overflow
    /\ DOMAIN Links' = PageIds /\ \A p \in PageIds : Links'[p] = bucket'[p].overflow
    /\ \A k \in Keys : BucketOf[k] \in Buckets
  BY DEF PageIds, INVALID_PAGE_ID, Links, Buckets

\* The fields of the call in progress.
LEMMA CallFacts ==
    ASSUME TypeInv
    PROVE  /\ call.op \in {"idle", "insert", "link", "remove", "destroy"}
           /\ call.op = "idle" <=> call = Idle
           /\ call.op \in {"insert", "link"} => call \in Insertions
           /\ call.op = "remove" => call \in Removals
           /\ call.op = "destroy" => call \in Destructions
           /\ call.op # "idle" => Exists
  BY DEF TypeInv, Idle, Insertions, Removals, Destructions

\* The pages of a chain are pages.
LEMMA ChainFacts ==
    /\ \A p : Visited(Links, p) \subseteq PageIds /\ Visited(Links', p) \subseteq PageIds
    /\ \A p : p \notin PageIds => Visited(Links, p) = {} /\ Visited(Links', p) = {}
    /\ \A p \in PageIds : p \in Visited(Links, p)
  BY PageFacts, VisitedFacts

\* The entries of the index are those in the chains of their keys.
LEMMA EntriesFacts ==
    ASSUME TypeInv, call.op # "destroy"
    PROVE  \A e : e \in Entries <=> /\ e \in Keys \X RecordIDs
                                    /\ \E p \in Chain(BucketOf[e[1]]) : e \in bucket[p].entries
  <1>1. \A b : \A p \in Chain(b) : bucket[p].entries \subseteq Keys \X RecordIDs
    BY ChainFacts DEF TypeInv, Pages, Chain
  <1>2. \A e : e \in Entries <=> \E k \in Keys : e \in GetValue(k)
    BY DEF Entries
  <1>3. \A e, k : e \in GetValue(k) <=>
                     e[1] = k /\ \E p \in Chain(BucketOf[k]) : e \in bucket[p].entries
    BY DEF GetValue
  <1>4. QED
    BY <1>1, <1>2, <1>3

\* The same after a step.
LEMMA NextEntriesFacts ==
    ASSUME TypeInv', call'.op # "destroy"
    PROVE  \A e : e \in Entries' <=>
                     /\ e \in Keys \X RecordIDs
                     /\ \E p \in Chain(BucketOf[e[1]])' : e \in bucket'[p].entries
  <1>1. \A b : \A p \in Chain(b)' : bucket'[p].entries \subseteq Keys \X RecordIDs
    BY ChainFacts DEF TypeInv, Pages, Chain
  <1>2. \A e : e \in Entries' <=> \E k \in Keys : e \in GetValue(k)'
    BY DEF Entries
  <1>3. \A e, k : e \in GetValue(k)' <=>
                     e[1] = k /\ \E p \in Chain(BucketOf[k])' : e \in bucket'[p].entries
    BY DEF GetValue
  <1>4. QED
    BY <1>1, <1>2, <1>3

-----------------------------------------------------------------------------
(* Chains that a step leaves as they are.                                  *)

\* A step that keeps the links of the chains keeps the chains.
LEMMA ChainsKept ==
    ASSUME header' = header,
           \A b \in Buckets : \A q \in Chain(b) : bucket'[q].overflow = bucket[q].overflow
    PROVE  \A b \in Buckets : /\ Chain(b)' = Chain(b)
                              /\ Ends(Links, header.buckets[b])' <=> Ends(Links, header.buckets[b])
  <1>1. SUFFICES ASSUME NEW b \in Buckets
                 PROVE  /\ Chain(b)' = Chain(b)
                        /\ Ends(Links, header.buckets[b])' <=> Ends(Links, header.buckets[b])
    OBVIOUS
  <1>2. \A q \in Visited(Links, header.buckets[b]) : Links'[q] = Links[q]
    BY PageFacts, ChainFacts DEF Chain
  <1>3. QED
    BY <1>2, PageFacts, SameWalk DEF Chain

\* They stay sound when their pages stay in use and no entry is added.
LEMMA SoundKept ==
    ASSUME TypeInv, ChainsInv, header' = header,
           \A b \in Buckets : \A q \in Chain(b) :
              /\ bucket'[q].overflow = bucket[q].overflow
              /\ bucket'[q].initialized = bucket[q].initialized
              /\ bucket'[q].entries \subseteq bucket[q].entries
              /\ q \in allocated' \ leaked'
    PROVE  ChainsInv' /\ \A b \in Buckets : Chain(b)' = Chain(b)
  <1>1. \A b \in Buckets : /\ Chain(b)' = Chain(b)
                           /\ Ends(Links, header.buckets[b])' <=> Ends(Links, header.buckets[b])
    BY ChainsKept
  <1>2. \A b \in Buckets : \A p, q \in Chain(b) :
           p # q => bucket'[p].entries \cap bucket'[q].entries = {}
    <2>1. \A b \in Buckets : \A p, q \in Chain(b) :
             p # q => bucket[p].entries \cap bucket[q].entries = {}
      BY DEF ChainsInv
    <2>2. QED
      BY <2>1
  <1>3. QED
    BY <1>1, <1>2 DEF ChainsInv

\* A step of a call that only reads pages.
LEMMA ReadingKept ==
    ASSUME TypeInv, ChainsInv, OwnersInv, UNCHANGED <<header, bucket, allocated, leaked>>,
           call.op # "link"
    PROVE  /\ ChainsInv' /\ OwnersInv' /\ Links' = Links
           /\ \A b : Chain(b)' = Chain(b)
  <1>1. Links' = Links
    BY DEF Links
  <1>2. \A b : Chain(b)' = Chain(b)
    BY <1>1 DEF Chain
  <1>3. ChainsInv'
    BY <1>1, <1>2 DEF ChainsInv
  <1>4. OwnersInv'
    BY <1>2 DEF OwnersInv
  <1>5. QED
    BY <1>1, <1>2, <1>3, <1>4

\* A call that returns without having touched a page.
LEMMA ReturnsInv ==
    ASSUME IndexInv, call.op \notin {"link", "destroy"}, call' = Idle,
           result' \in {"ok", "error"}, UNCHANGED <<header, bucket, allocated, leaked>>
    PROVE  IndexInv'
  <1>1. TypeInv'
    BY DEF IndexInv, TypeInv, Exists
  <1>2. ChainsInv' /\ OwnersInv'
    BY ReadingKept DEF IndexInv
  <1>3. call'.op = "idle"
    BY DEF Idle
  <1>4. CallInv'
    BY <1>3 DEF CallInv
  <1>5. QED
    BY <1>1, <1>2, <1>3, <1>4 DEF IndexInv
-----------------------------------------------------------------------------
(* Create, and calls that fail or begin.                                   *)

\* An index without a header page has no pages at all.
LEMMA NoIndexFacts ==
    ASSUME TypeInv, ~Exists
    PROVE  /\ header = NoIndex /\ call = Idle /\ call.op = "idle"
           /\ \A b \in Buckets : header.buckets[b] = INVALID_PAGE_ID /\ Chain(b) = {}
  <1>1. header = NoIndex /\ call = Idle
    BY DEF TypeInv
  <1>2. \A b \in Buckets : header.buckets[b] = INVALID_PAGE_ID
    BY <1>1 DEF NoIndex
  <1>3. QED
    BY <1>1, <1>2, PageFacts, ChainFacts DEF Chain, Idle

\* Create makes an empty index.
LEMMA CreateInv ==
    ASSUME IndexInv, NEW p \in PageIds, Create(p)
    PROVE  IndexInv'
  <1>1. /\ ~Exists /\ p \notin allocated /\ header' = [NoIndex EXCEPT !.page = p]
        /\ allocated' = allocated \cup {p} /\ UNCHANGED <<bucket, leaked, call, result>>
    BY DEF Create, IsNewPage
  <1>2. /\ header = NoIndex /\ call = Idle /\ call.op = "idle"
        /\ \A b \in Buckets : Chain(b) = {}
    BY <1>1, NoIndexFacts DEF IndexInv
  <1>3. header' = [page |-> p, buckets |-> [b \in Buckets |-> INVALID_PAGE_ID]]
    BY <1>1 DEF NoIndex
  <1>4. header'.page = p /\ \A b \in Buckets : header'.buckets[b] = INVALID_PAGE_ID
    BY <1>3
  <1>5. \A b \in Buckets : Chain(b)' = {}
    BY <1>4, PageFacts, ChainFacts DEF Chain
  <1>6. TypeInv'
    <2>1. p # INVALID_PAGE_ID
      BY PageFacts
    <2>2. header' \in [page : Refs, buckets : [Buckets -> Refs]]
      BY <1>3 DEF Refs
    <2>3. QED
      BY <1>1, <1>4, <2>1, <2>2 DEF IndexInv, TypeInv, Exists
  <1>7. ChainsInv'
    <2>1. \A b \in Buckets : Ends(Links, header.buckets[b])'
      BY <1>4, PageFacts DEF Ends
    <2>2. QED
      BY <1>5, <2>1 DEF ChainsInv
  <1>8. OwnersInv'
    <2>1. allocated \ leaked = {}
      BY <1>2, PageFacts DEF IndexInv, OwnersInv, TypeInv, NoIndex
    <2>2. QED
      BY <1>1, <1>4, <2>1 DEF OwnersInv
  <1>9. CallInv' /\ call'.op = "idle"
    BY <1>1, <1>2 DEF CallInv
  <1>10. QED
    BY <1>6, <1>7, <1>8, <1>9 DEF IndexInv

\* Insert begins at the primary page.
LEMMA CallInsertInv ==
    ASSUME IndexInv, NEW k \in Keys, NEW r \in RecordIDs, CallInsert(k, r)
    PROVE  IndexInv'
  <1>1. /\ call = Idle /\ Exists /\ UNCHANGED <<header, bucket, allocated, leaked, result>>
        /\ call' = [op |-> "insert", key |-> k, rid |-> r,
                    at |-> header.buckets[BucketOf[k]],
                    space |-> INVALID_PAGE_ID, last |-> INVALID_PAGE_ID]
    BY DEF CallInsert
  <1>2. call.op = "idle"
    BY <1>1 DEF Idle
  <1>3. header.buckets[BucketOf[k]] \in Refs
    BY <1>2, PageFacts DEF IndexInv, TypeInv
  <1>4. TypeInv'
    <2>1. call' \in Insertions
      BY <1>1, <1>3 DEF Insertions, Refs
    <2>2. QED
      BY <1>1, <1>2, <2>1 DEF IndexInv, TypeInv, Exists
  <1>5. ChainsInv' /\ OwnersInv' /\ Links' = Links /\ \A b : Chain(b)' = Chain(b)
    BY <1>1, <1>2, ReadingKept DEF IndexInv
  <1>6. InsertInv'
    <2>1. Chain(BucketOf[k]) = Visited(Links, header.buckets[BucketOf[k]])
      BY DEF Chain
    <2>2. QED
      BY <1>1, <1>5, <2>1 DEF InsertInv
  <1>7. QED
    BY <1>1, <1>4, <1>5, <1>6 DEF IndexInv, CallInv

\* Remove begins at the primary page.
LEMMA CallRemoveInv ==
    ASSUME IndexInv, NEW k \in Keys, NEW r \in RecordIDs \cup {AnyRid}, CallRemove(k, r)
    PROVE  IndexInv'
  <1>1. /\ call = Idle /\ Exists /\ UNCHANGED <<header, bucket, allocated, leaked, result>>
        /\ header.buckets[BucketOf[k]] # INVALID_PAGE_ID
        /\ call' = [op |-> "remove", key |-> k, rid |-> r,
                    at |-> header.buckets[BucketOf[k]], removed |-> FALSE]
    BY DEF CallRemove
  <1>2. call.op = "idle"
    BY <1>1 DEF Idle
  <1>3. header.buckets[BucketOf[k]] \in PageIds
    BY <1>1, PageFacts DEF IndexInv, TypeInv, Refs
  <1>4. TypeInv'
    <2>1. call' \in Removals
      BY <1>1, <1>3 DEF Removals, Refs
    <2>2. QED
      BY <1>1, <1>2, <2>1 DEF IndexInv, TypeInv, Exists
  <1>5. ChainsInv' /\ OwnersInv' /\ Links' = Links /\ \A b : Chain(b)' = Chain(b)
    BY <1>1, <1>2, ReadingKept DEF IndexInv
  <1>6. RemoveInv'
    <2>1. Chain(BucketOf[k]) = Visited(Links, header.buckets[BucketOf[k]])
      BY DEF Chain
    <2>2. header.buckets[BucketOf[k]] \in Chain(BucketOf[k])
      BY <1>3, <2>1, ChainFacts
    <2>3. QED
      BY <1>1, <1>5, <2>1, <2>2 DEF RemoveInv
  <1>7. QED
    BY <1>1, <1>4, <1>5, <1>6 DEF IndexInv, CallInv

-----------------------------------------------------------------------------
(* Insert.                                                                 *)

\* Where an insertion is.
LEMMA InsertFacts ==
    ASSUME IndexInv, call.op = "insert"
    PROVE  /\ TypeInv /\ ChainsInv /\ OwnersInv /\ InsertInv /\ Exists
           /\ call \in Insertions /\ BucketOf[call.key] \in Buckets
           /\ call.at # INVALID_PAGE_ID =>
                 call.at \in PageIds /\ call.at \in Chain(BucketOf[call.key])
  <1>1. /\ TypeInv /\ ChainsInv /\ OwnersInv /\ InsertInv
        /\ call \in Insertions /\ Exists
    BY CallFacts DEF IndexInv, CallInv
  <1>2. BucketOf[call.key] \in Buckets
    BY <1>1, PageFacts DEF Insertions
  <1>3. ASSUME call.at # INVALID_PAGE_ID
        PROVE  call.at \in PageIds /\ call.at \in Chain(BucketOf[call.key])
    <2>1. call.at \in PageIds
      BY <1>1, <1>3 DEF Insertions, Refs
    <2>2. CASE call.last = INVALID_PAGE_ID
      BY <1>1, <2>1, <2>2, ChainFacts DEF InsertInv, Chain
    <2>3. CASE call.last # INVALID_PAGE_ID
      BY <1>1, <2>1, <2>3, PageFacts, ChainFacts, VisitedFacts DEF InsertInv, Chain, Closed
    <2>4. QED
      BY <2>1, <2>2, <2>3
  <1>4. QED
    BY <1>1, <1>2, <1>3

\* The walk goes on to the next page.
LEMMA InsertMovesOnInv ==
    ASSUME IndexInv, InsertMovesOn
    PROVE  IndexInv'
  <1> DEFINE b == BucketOf[call.key]
  <1>1. /\ call.op = "insert" /\ call.at # INVALID_PAGE_ID
        /\ Entry \notin bucket[call.at].entries
        /\ UNCHANGED <<header, bucket, allocated, leaked, result>>
        /\ call' = [call EXCEPT
                      !.space = IF @ = INVALID_PAGE_ID /\ SpaceHere THEN call.at ELSE @,
                      !.last = call.at,
                      !.at = bucket[call.at].overflow]
    BY DEF InsertMovesOn
  <1>2. /\ TypeInv /\ ChainsInv /\ OwnersInv /\ InsertInv /\ Exists
        /\ call \in Insertions /\ call.at \in PageIds /\ call.at \in Chain(b)
    BY <1>1, InsertFacts
  <1>3. bucket[call.at].overflow \in Refs
    BY <1>2 DEF TypeInv, Pages
  <1>4. /\ call' \in Insertions /\ call'.op = "insert" /\ call'.key = call.key
        /\ call'.rid = call.rid /\ call'.last = call.at
        /\ call'.at = bucket[call.at].overflow
        /\ call'.space = IF call.space = INVALID_PAGE_ID /\ SpaceHere
                         THEN call.at ELSE call.space
    BY <1>1, <1>2, <1>3 DEF Insertions, Refs
  <1>5. TypeInv'
    BY <1>1, <1>2, <1>4 DEF TypeInv, Exists
  <1>6. ChainsInv' /\ OwnersInv' /\ Links' = Links /\ \A c : Chain(c)' = Chain(c)
    BY <1>1, <1>2, ReadingKept
  <1>7. InsertInv'
    <2>1. Visited(Links, call.at) = {call.at} \cup Visited(Links, call'.at)
      BY <1>2, <1>4, PageFacts, VisitedStep
    <2>2. \A q \in Chain(b) \ Visited(Links, call'.at) : Entry \notin bucket[q].entries
      BY <1>1, <1>2, <2>1 DEF InsertInv
    <2>3. Entry' = Entry
      BY <1>4 DEF Entry
    <2>4. call'.space # INVALID_PAGE_ID =>
             call'.space \in Chain(b) /\ Cardinality(bucket[call'.space].entries) < Capacity
      BY <1>2, <1>4 DEF InsertInv, SpaceHere
    <2>5. call'.last # INVALID_PAGE_ID
      BY <1>1, <1>4
    <2>6. QED
      BY <1>1, <1>2, <1>4, <1>6, <2>2, <2>3, <2>4, <2>5 DEF InsertInv
  <1>8. QED
    BY <1>4, <1>5, <1>6, <1>7 DEF IndexInv, CallInv

\* At the end of the walk no page of the chain has the entry.
LEMMA WalkedAll ==
    ASSUME IndexInv, call.op = "insert", call.at = INVALID_PAGE_ID
    PROVE  \A q \in Chain(BucketOf[call.key]) : Entry \notin bucket[q].entries
  BY InsertFacts, PageFacts, ChainFacts DEF InsertInv

\* The entry goes to a page that has space.
LEMMA InsertIntoSpaceInv ==
    ASSUME IndexInv, InsertIntoSpace
    PROVE  IndexInv' /\ \A c \in Buckets : Chain(c)' = Chain(c)
  <1> DEFINE b == BucketOf[call.key]
             s == call.space
  <1>1. /\ call.op = "insert" /\ call.at = INVALID_PAGE_ID /\ s # INVALID_PAGE_ID
        /\ bucket' = [bucket EXCEPT ![s].entries = @ \cup {Entry}]
        /\ call' = Idle /\ result' = "ok" /\ UNCHANGED <<header, allocated, leaked>>
    BY DEF InsertIntoSpace, Return
  <1>2. /\ TypeInv /\ ChainsInv /\ OwnersInv /\ InsertInv /\ Exists
        /\ call \in Insertions /\ b \in Buckets
    BY <1>1, InsertFacts
  <1>3. /\ s \in Chain(b) /\ s \in PageIds /\ Cardinality(bucket[s].entries) < Capacity
        /\ Entry \notin bucket[s].entries
    BY <1>1, <1>2, WalkedAll, ChainFacts DEF InsertInv, Chain
  <1>4. /\ bucket'[s] = [bucket[s] EXCEPT !.entries = @ \cup {Entry}]
        /\ \A q \in PageIds \ {s} : bucket'[q] = bucket[q]
    BY <1>1, <1>2, <1>3 DEF TypeInv
  <1>5. /\ bucket'[s].overflow = bucket[s].overflow
        /\ bucket'[s].initialized = bucket[s].initialized
        /\ bucket'[s].entries = bucket[s].entries \cup {Entry}
        /\ Entry \in Keys \X RecordIDs
    BY <1>2, <1>3, <1>4 DEF TypeInv, Pages, Insertions, Entry
  <1>6. TypeInv'
    <2>1. bucket' \in [PageIds -> Pages]
      BY <1>1, <1>2, <1>3, <1>5 DEF TypeInv, Pages
    <2>2. /\ IsFiniteSet(bucket[s].entries) /\ Cardinality(bucket[s].entries) \in Nat
          /\ Capacity \in Nat
      BY <1>2, <1>3, FS_CardinalityType, CapacityAssumption DEF TypeInv
    <2>3. IsFiniteSet(bucket'[s].entries) /\ Cardinality(bucket'[s].entries) <= Capacity
      <3>1. /\ IsFiniteSet(bucket[s].entries \cup {Entry})
            /\ Cardinality(bucket[s].entries \cup {Entry}) = Cardinality(bucket[s].entries) + 1
        BY <1>3, <2>2, FS_AddElement
      <3>2. Cardinality(bucket[s].entries) + 1 <= Capacity
        BY <1>3, <2>2
      <3>3. QED
        BY <1>5, <3>1, <3>2
    <2>4. QED
      BY <1>1, <1>2, <1>4, <2>1, <2>3 DEF TypeInv, Exists
  <1>7. \A c \in Buckets : \A q \in Chain(c) : /\ bucket'[q].overflow = bucket[q].overflow
                                               /\ bucket'[q].initialized = bucket[q].initialized
    BY <1>4, <1>5, ChainFacts DEF Chain
  <1>8. \A c \in Buckets : /\ Chain(c)' = Chain(c)
                           /\ Ends(Links, header.buckets[c])' <=> Ends(Links, header.buckets[c])
    BY <1>1, <1>7, ChainsKept
  <1>9. \A c \in Buckets : \A p, q \in Chain(c) :
           p # q => bucket'[p].entries \cap bucket'[q].entries = {}
    <2>1. ASSUME NEW c \in Buckets, NEW p \in Chain(c), NEW q \in Chain(c), p # q
          PROVE  bucket'[p].entries \cap bucket'[q].entries = {}
      <3>1. bucket[p].entries \cap bucket[q].entries = {} /\ p \in PageIds /\ q \in PageIds
        BY <1>2, <2>1, ChainFacts DEF ChainsInv, Chain
      <3>2. s \in Chain(c) => c = b
        BY <1>2, <1>3 DEF ChainsInv
      <3>3. s \in Chain(c) => Entry \notin bucket[p].entries /\ Entry \notin bucket[q].entries
        BY <1>1, <2>1, <3>2, WalkedAll
      <3>4. CASE p = s
        BY <1>4, <1>5, <2>1, <3>1, <3>3, <3>4
      <3>5. CASE q = s
        BY <1>4, <1>5, <2>1, <3>1, <3>3, <3>5
      <3>6. CASE p # s /\ q # s
        BY <1>4, <3>1, <3>6
      <3>7. QED
        BY <3>4, <3>5, <3>6
    <2>2. QED
      BY <2>1
  <1>10. ChainsInv' /\ OwnersInv'
    <2>1. ChainsInv'
      BY <1>1, <1>2, <1>7, <1>8, <1>9 DEF ChainsInv
    <2>2. OwnersInv'
      BY <1>1, <1>2, <1>8 DEF OwnersInv
    <2>3. QED
      BY <2>1, <2>2
  <1>11. call'.op = "idle" /\ CallInv'
    BY <1>1 DEF Idle, CallInv
  <1>12. QED
    BY <1>6, <1>8, <1>10, <1>11 DEF IndexInv
\* A new page gets the entry; no chain knows of it yet.
LEMMA AllocateBucketInv ==
    ASSUME IndexInv, NEW p \in PageIds, AllocateBucket(p)
    PROVE  IndexInv' /\ \A c \in Buckets : Chain(c)' = Chain(c)
  <1> DEFINE b == BucketOf[call.key]
  <1>1. /\ call.op = "insert" /\ call.at = INVALID_PAGE_ID /\ call.space = INVALID_PAGE_ID
        /\ p \notin allocated /\ allocated' = allocated \cup {p}
        /\ bucket' = [bucket EXCEPT ![p] = [Fresh EXCEPT !.entries = {Entry}]]
        /\ call' = [call EXCEPT !.op = "link", !.at = p]
        /\ UNCHANGED <<header, leaked, result>>
    BY DEF AllocateBucket, IsNewPage
  <1>2. /\ TypeInv /\ ChainsInv /\ OwnersInv /\ InsertInv /\ Exists
        /\ call \in Insertions /\ b \in Buckets
    BY <1>1, InsertFacts
  <1>3. /\ call' \in Insertions /\ call'.op = "link" /\ call'.at = p
        /\ call'.key = call.key /\ call'.rid = call.rid /\ call'.last = call.last
    BY <1>1, <1>2 DEF Insertions, Refs
  <1>4. /\ bucket'[p] = [Fresh EXCEPT !.entries = {Entry}]
        /\ \A q \in PageIds \ {p} : bucket'[q] = bucket[q]
    BY <1>1, <1>2 DEF TypeInv
  <1>5. /\ bucket'[p].overflow = INVALID_PAGE_ID /\ bucket'[p].entries = {Entry}
        /\ bucket'[p] \in Pages /\ Entry \in Keys \X RecordIDs
    <2>1. Entry \in Keys \X RecordIDs
      BY <1>2 DEF Entry, Insertions
    <2>2. bucket'[p] = [initialized |-> TRUE, overflow |-> INVALID_PAGE_ID, entries |-> {Entry}]
      BY <1>4 DEF Fresh, Blank
    <2>3. QED
      BY <2>1, <2>2 DEF Pages, Refs
  <1>6. \A c \in Buckets : p \notin Chain(c)
    BY <1>1, <1>2 DEF ChainsInv
  <1>7. \A c \in Buckets : \A q \in Chain(c) : q \in PageIds \ {p} /\ bucket'[q] = bucket[q]
    BY <1>4, <1>6, ChainFacts DEF Chain
  <1>8. ChainsInv' /\ \A c \in Buckets : Chain(c)' = Chain(c)
    <2>1. \A c \in Buckets : \A q \in Chain(c) : q \in allocated' \ leaked'
      BY <1>1, <1>2 DEF ChainsInv
    <2>2. QED
      BY <1>1, <1>2, <1>7, <2>1, SoundKept
  <1>9. TypeInv'
    <2>1. bucket' \in [PageIds -> Pages]
      BY <1>1, <1>2, <1>5 DEF TypeInv
    <2>2. IsFiniteSet({Entry}) /\ Cardinality({Entry}) = 1
      BY FS_Singleton
    <2>3. IsFiniteSet(bucket'[p].entries) /\ Cardinality(bucket'[p].entries) <= Capacity
      BY <1>5, <2>2, CapacityAssumption
    <2>4. QED
      BY <1>1, <1>2, <1>3, <1>4, <2>1, <2>3 DEF TypeInv, Exists
  <1>10. OwnersInv'
    BY <1>1, <1>2, <1>3, <1>8 DEF OwnersInv
  <1>11. LinkInv'
    <2>1. Entry' = Entry
      BY <1>3 DEF Entry
    <2>2. p \in allocated' \ leaked' /\ p # header'.page
      BY <1>1, <1>2 DEF TypeInv
    <2>3. bucket'[p] = [Fresh EXCEPT !.entries = {Entry'}]
      BY <1>4, <2>1
    <2>4. IF call.last = INVALID_PAGE_ID THEN header.buckets[b] = INVALID_PAGE_ID
          ELSE call.last \in Chain(b) /\ bucket[call.last].overflow = INVALID_PAGE_ID
      BY <1>1, <1>2 DEF InsertInv
    <2>5. \A q \in Chain(b) : Entry \notin bucket[q].entries
      BY <1>1, WalkedAll
    <2>6. QED
      BY <1>1, <1>2, <1>3, <1>6, <1>7, <1>8, <2>1, <2>2, <2>3, <2>4, <2>5 DEF LinkInv
  <1>12. QED
    BY <1>3, <1>8, <1>9, <1>10, <1>11 DEF IndexInv, CallInv

\* What is known about a page that waits for its link.
LEMMA LinkFacts ==
    ASSUME IndexInv, call.op = "link"
    PROVE  /\ TypeInv /\ ChainsInv /\ OwnersInv /\ LinkInv /\ Exists
           /\ call \in Insertions /\ BucketOf[call.key] \in Buckets
           /\ call.at \in PageIds /\ bucket[call.at].overflow = INVALID_PAGE_ID
           /\ bucket[call.at].entries = {Entry} /\ bucket[call.at].initialized
  <1>1. /\ TypeInv /\ ChainsInv /\ OwnersInv /\ LinkInv
        /\ call \in Insertions /\ Exists
    BY CallFacts DEF IndexInv, CallInv
  <1>2. QED
    BY <1>1, PageFacts DEF LinkInv, TypeInv, Insertions, Fresh, Blank

\* Linking: the chain of the key has the new page as well, the others are as before.
LEMMA LinkedInv ==
    ASSUME IndexInv, call.op = "link", call' = Idle, result' = "ok",
           UNCHANGED <<allocated, leaked>>, TypeInv', header'.page = header.page,
           NEW b \in Buckets, b = BucketOf[call.key],
           Chain(b)' = Chain(b) \cup {call.at}, Ends(Links, header.buckets[b])',
           \A c \in Buckets \ {b} :
              /\ Chain(c)' = Chain(c)
              /\ Ends(Links, header.buckets[c])' <=> Ends(Links, header.buckets[c]),
           \A q \in PageIds : /\ bucket'[q].entries = bucket[q].entries
                              /\ bucket'[q].initialized = bucket[q].initialized
    PROVE  IndexInv'
  <1>1. /\ TypeInv /\ ChainsInv /\ OwnersInv /\ LinkInv
        /\ b \in Buckets /\ call.at \in PageIds
        /\ bucket[call.at].entries = {Entry} /\ bucket[call.at].initialized
    BY LinkFacts
  <1>2. \A c \in Buckets : \A q \in Chain(c)' : q \in Chain(c) \/ (c = b /\ q = call.at)
    BY <1>1
  <1>3. \A c \in Buckets : Ends(Links, header.buckets[c])'
    <2>1. \A c \in Buckets \ {b} : Ends(Links, header.buckets[c])
      BY <1>1 DEF ChainsInv
    <2>2. \A c \in Buckets \ {b} : Ends(Links, header.buckets[c])'
      BY <2>1
    <2>3. QED
      BY <2>2
  <1>4. \A c, d \in Buckets : c # d => Chain(c)' \cap Chain(d)' = {}
    BY <1>1, <1>2 DEF ChainsInv, LinkInv
  <1>5. \A c \in Buckets : \A p \in Chain(c)' :
           p # header.page /\ p \in allocated \ leaked /\ bucket'[p].initialized
    <2>1. ASSUME NEW c \in Buckets, NEW p \in Chain(c)'
          PROVE  p # header.page /\ p \in allocated \ leaked /\ bucket'[p].initialized
      <3>1. CASE p \in Chain(c)
        <4>1. p \in PageIds
          BY <3>1, ChainFacts DEF Chain
        <4>2. QED
          BY <1>1, <3>1, <4>1 DEF ChainsInv
      <3>2. CASE p = call.at
        BY <1>1, <3>2 DEF LinkInv
      <3>3. QED
        BY <1>2, <2>1, <3>1, <3>2
    <2>2. QED
      BY <2>1
  <1>6. \A c \in Buckets : \A p, q \in Chain(c)' :
           p # q => bucket'[p].entries \cap bucket'[q].entries = {}
    <2>1. ASSUME NEW c \in Buckets, NEW p \in Chain(c)', NEW q \in Chain(c)', p # q
          PROVE  bucket'[p].entries \cap bucket'[q].entries = {}
      <3>1. p \in PageIds /\ q \in PageIds
        BY <2>1, ChainFacts DEF Chain
      <3>2. bucket[p].entries \cap bucket[q].entries = {}
        <4>1. \A r \in Chain(b) : Entry \notin bucket[r].entries
          BY <1>1 DEF LinkInv
        <4>2. CASE p \in Chain(c) /\ q \in Chain(c)
          BY <1>1, <2>1, <4>2 DEF ChainsInv
        <4>3. CASE p \in Chain(c) /\ c = b /\ q = call.at
          BY <1>1, <4>1, <4>3
        <4>4. CASE c = b /\ p = call.at /\ q \in Chain(c)
          BY <1>1, <4>1, <4>4
        <4>5. QED
          BY <1>2, <2>1, <4>2, <4>3, <4>4
      <3>3. QED
        BY <3>1, <3>2
    <2>2. QED
      BY <2>1
  <1>7. ChainsInv'
    BY <1>3, <1>4, <1>5, <1>6 DEF ChainsInv
  <1>8. OwnersInv'
    <2>1. \A c \in Buckets : Chain(c) \subseteq Chain(c)'
      OBVIOUS
    <2>2. call.at \in Chain(b)'
      OBVIOUS
    <2>3. \A p \in allocated' \ leaked' : p = header'.page \/ \E c \in Buckets : p \in Chain(c)'
      BY <1>1, <2>1, <2>2 DEF OwnersInv
    <2>4. QED
      BY <2>3 DEF OwnersInv
  <1>9. call'.op = "idle" /\ CallInv'
    BY DEF Idle, CallInv
  <1>10. QED
    BY <1>7, <1>8, <1>9 DEF IndexInv
\* The first page of a chain is linked from the header.
LEMMA LinkPrimaryInv ==
    ASSUME IndexInv, LinkPrimary
    PROVE  /\ IndexInv' /\ \A q \in PageIds : bucket'[q].entries = bucket[q].entries
           /\ \A c \in Buckets : Chain(c)' = IF c = BucketOf[call.key]
                                             THEN Chain(c) \cup {call.at} ELSE Chain(c)
  <1>1. PICK b \in Buckets : b = BucketOf[call.key]
    BY LinkFacts DEF LinkPrimary
  <1>2. /\ call.op = "link" /\ call.last = INVALID_PAGE_ID
        /\ header' = [header EXCEPT !.buckets[b] = call.at]
        /\ call' = Idle /\ result' = "ok" /\ UNCHANGED <<bucket, allocated, leaked>>
    BY <1>1 DEF LinkPrimary, Return
  <1>3. /\ TypeInv /\ LinkInv /\ Exists /\ call.at \in PageIds
        /\ bucket[call.at].overflow = INVALID_PAGE_ID
    BY <1>2, LinkFacts
  <1>4. /\ header' \in [page : Refs, buckets : [Buckets -> Refs]]
        /\ header'.page = header.page /\ header'.buckets[b] = call.at
        /\ \A c \in Buckets \ {b} : header'.buckets[c] = header.buckets[c]
    BY <1>2, <1>3 DEF TypeInv, Refs
  <1>5. TypeInv'
    BY <1>2, <1>3, <1>4 DEF TypeInv, Exists
  <1>6. Links' = Links
    BY <1>2 DEF Links
  <1>7. Visited(Links, call.at) = {call.at} /\ Ends(Links, call.at)
    <2>1. Visited(Links, call.at) = {call.at} \cup Visited(Links, INVALID_PAGE_ID)
      BY <1>3, PageFacts, VisitedStep
    <2>2. Visited(Links, call.at) = {call.at}
      BY <2>1, PageFacts, ChainFacts
    <2>3. QED
      BY <1>3, <2>2, PageFacts DEF Ends
  <1>8. Chain(b) = {}
    BY <1>1, <1>2, <1>3, PageFacts, ChainFacts DEF LinkInv, Chain
  <1>9. Chain(b)' = Chain(b) \cup {call.at} /\ Ends(Links, header.buckets[b])'
    BY <1>4, <1>6, <1>7, <1>8 DEF Chain
  <1>10. \A c \in Buckets \ {b} :
            /\ Chain(c)' = Chain(c)
            /\ Ends(Links, header.buckets[c])' <=> Ends(Links, header.buckets[c])
    BY <1>4, <1>6 DEF Chain
  <1>11. IndexInv'
    BY <1>1, <1>2, <1>4, <1>5, <1>9, <1>10, LinkedInv
  <1>12. QED
    BY <1>1, <1>2, <1>9, <1>10, <1>11

\* A page of the chain that is full gets an overflow page.
LEMMA LinkOverflowInv ==
    ASSUME IndexInv, LinkOverflow
    PROVE  /\ IndexInv' /\ \A q \in PageIds : bucket'[q].entries = bucket[q].entries
           /\ \A c \in Buckets : Chain(c)' = IF c = BucketOf[call.key]
                                             THEN Chain(c) \cup {call.at} ELSE Chain(c)
  <1>1. PICK b \in Buckets : b = BucketOf[call.key]
    BY LinkFacts DEF LinkOverflow
  <1>2. /\ call.op = "link" /\ call.last # INVALID_PAGE_ID
        /\ bucket' = [bucket EXCEPT ![call.last].overflow = call.at]
        /\ call' = Idle /\ result' = "ok" /\ UNCHANGED <<header, allocated, leaked>>
    BY DEF LinkOverflow, Return
  <1>3. /\ TypeInv /\ ChainsInv /\ LinkInv /\ Exists /\ call.at \in PageIds
        /\ bucket[call.at].overflow = INVALID_PAGE_ID
    BY <1>2, LinkFacts
  <1>4. /\ call.last \in Chain(b) /\ call.last \in PageIds
        /\ bucket[call.last].overflow = INVALID_PAGE_ID
        /\ \A c \in Buckets : call.at \notin Chain(c)
    BY <1>1, <1>2, <1>3, ChainFacts DEF LinkInv, Chain
  <1>5. /\ bucket'[call.last] = [bucket[call.last] EXCEPT !.overflow = call.at]
        /\ \A q \in PageIds \ {call.last} : bucket'[q] = bucket[q]
    BY <1>2, <1>3, <1>4 DEF TypeInv
  <1>6. /\ bucket'[call.last].overflow = call.at
        /\ bucket'[call.last].entries = bucket[call.last].entries
        /\ bucket'[call.last].initialized = bucket[call.last].initialized
        /\ bucket'[call.last] \in Pages
    BY <1>3, <1>4, <1>5 DEF TypeInv, Pages, Refs
  <1>7. \A q \in PageIds : /\ bucket'[q].entries = bucket[q].entries
                           /\ bucket'[q].initialized = bucket[q].initialized
    BY <1>5, <1>6
  <1>8. TypeInv'
    <2>1. bucket' \in [PageIds -> Pages]
      BY <1>2, <1>3, <1>6 DEF TypeInv
    <2>2. QED
      BY <1>2, <1>3, <1>7, <2>1 DEF TypeInv, Exists
  <1>9. Chain(b)' = Chain(b) \cup {call.at} /\ Ends(Links, header.buckets[b])'
    <2>1. Links[call.last] \notin DOMAIN Links /\ Links'[call.last] = call.at
      BY <1>4, <1>6, PageFacts
    <2>2. Links'[call.at] \notin DOMAIN Links
      BY <1>3, <1>4, <1>5, PageFacts
    <2>3. \A q \in Visited(Links, header.buckets[b]) \ {call.last} : Links'[q] = Links[q]
      BY <1>5, ChainFacts, PageFacts
    <2>4. /\ Visited(Links', header.buckets[b]) = Visited(Links, header.buckets[b]) \cup {call.at}
          /\ Ends(Links', header.buckets[b])
      BY <1>3, <1>4, <2>1, <2>2, <2>3, PageFacts, Appended DEF Chain
    <2>5. QED
      BY <1>2, <2>4 DEF Chain
  <1>10. \A c \in Buckets \ {b} :
            /\ Chain(c)' = Chain(c)
            /\ Ends(Links, header.buckets[c])' <=> Ends(Links, header.buckets[c])
    <2>1. ASSUME NEW c \in Buckets \ {b}
          PROVE  /\ Chain(c)' = Chain(c)
                 /\ Ends(Links, header.buckets[c])' <=> Ends(Links, header.buckets[c])
      <3>1. call.last \notin Chain(c)
        BY <1>3, <1>4 DEF ChainsInv
      <3>2. \A q \in Visited(Links, header.buckets[c]) : Links'[q] = Links[q]
        BY <1>5, <3>1, ChainFacts, PageFacts DEF Chain
      <3>3. QED
        BY <1>2, <3>2, PageFacts, SameWalk DEF Chain
    <2>2. QED
      BY <2>1
  <1>11. IndexInv'
    BY <1>1, <1>2, <1>7, <1>8, <1>9, <1>10, LinkedInv
  <1>12. QED
    BY <1>1, <1>7, <1>9, <1>10, <1>11

\* The page that could not be linked is deleted: the index is as it was.
LEMMA LinkFailsInv ==
    ASSUME IndexInv, LinkFails
    PROVE  IndexInv' /\ \A c \in Buckets : /\ Chain(c)' = Chain(c)
                                           /\ \A q \in Chain(c) : bucket'[q] = bucket[q]
  <1>1. /\ call.op = "link" /\ call' = Idle /\ result' = "error" /\ header' = header
        /\ bucket' = [bucket EXCEPT ![call.at] = Blank]
        /\ \/ allocated' = allocated \ {call.at} /\ leaked' = leaked
           \/ leaked' = leaked \cup {call.at} /\ allocated' = allocated
    BY DEF LinkFails, Return, Discard
  <1>2. /\ TypeInv /\ ChainsInv /\ OwnersInv /\ LinkInv /\ Exists /\ call.at \in PageIds
        /\ \A c \in Buckets : call.at \notin Chain(c)
        /\ call.at \in allocated \ leaked /\ call.at # header.page
    BY <1>1, LinkFacts DEF LinkInv
  <1>3. bucket'[call.at] = Blank /\ \A q \in PageIds \ {call.at} : bucket'[q] = bucket[q]
    BY <1>1, <1>2 DEF TypeInv
  <1>4. allocated' \ leaked' = (allocated \ leaked) \ {call.at}
    BY <1>1, <1>2
  <1>5. \A c \in Buckets : \A q \in Chain(c) : bucket'[q] = bucket[q]
    BY <1>2, <1>3, ChainFacts DEF Chain
  <1>6. ChainsInv' /\ \A c \in Buckets : Chain(c)' = Chain(c)
    <2>1. \A c \in Buckets : \A q \in Chain(c) : q \in allocated' \ leaked'
      BY <1>2, <1>4 DEF ChainsInv
    <2>2. QED
      BY <1>1, <1>2, <1>5, <2>1, SoundKept
  <1>7. TypeInv'
    <2>1. bucket' \in [PageIds -> Pages]
      BY <1>1, <1>2 DEF TypeInv, Pages, Blank, Refs
    <2>2. \A p \in PageIds : /\ IsFiniteSet(bucket'[p].entries)
                             /\ Cardinality(bucket'[p].entries) <= Capacity
      <3>1. IsFiniteSet(Blank.entries) /\ Cardinality(Blank.entries) <= Capacity
        BY FS_EmptySet, CapacityAssumption DEF Blank
      <3>2. \A q \in PageIds : /\ IsFiniteSet(bucket[q].entries)
                               /\ Cardinality(bucket[q].entries) <= Capacity
        BY <1>2 DEF TypeInv
      <3>3. QED
        BY <1>3, <3>1, <3>2
    <2>3. allocated' \subseteq PageIds /\ leaked' \subseteq allocated'
      BY <1>1, <1>2 DEF TypeInv
    <2>4. QED
      BY <1>1, <1>2, <1>4, <2>1, <2>2, <2>3 DEF TypeInv, Exists
  <1>8. OwnersInv'
    BY <1>1, <1>2, <1>4, <1>6 DEF OwnersInv
  <1>9. call'.op = "idle" /\ CallInv'
    BY <1>1 DEF Idle, CallInv
  <1>10. QED
    BY <1>5, <1>6, <1>7, <1>8, <1>9 DEF IndexInv
-----------------------------------------------------------------------------
(* Remove.                                                                 *)

\* Where a removal is.
LEMMA RemoveFacts ==
    ASSUME IndexInv, call.op = "remove"
    PROVE  /\ TypeInv /\ ChainsInv /\ OwnersInv /\ RemoveInv /\ Exists
           /\ call \in Removals /\ BucketOf[call.key] \in Buckets
           /\ call.at # INVALID_PAGE_ID =>
                 call.at \in PageIds /\ call.at \in Chain(BucketOf[call.key])
  <1>1. /\ TypeInv /\ ChainsInv /\ OwnersInv /\ RemoveInv
        /\ call \in Removals /\ Exists
    BY CallFacts DEF IndexInv, CallInv
  <1>2. QED
    BY <1>1, PageFacts DEF RemoveInv, Removals, Refs

\* A page loses what it should.
LEMMA RemoveHereInv ==
    ASSUME IndexInv, RemoveHere
    PROVE  IndexInv' /\ \A c \in Buckets : Chain(c)' = Chain(c)
  <1> DEFINE b == BucketOf[call.key]
             gone == Matching(bucket[call.at].entries)
             n == bucket[call.at].overflow
  <1>1. /\ call.op = "remove" /\ call.at # INVALID_PAGE_ID
        /\ bucket' = [bucket EXCEPT ![call.at].entries = @ \ gone]
        /\ \/ gone # {} /\ call.rid # AnyRid /\ call' = Idle /\ result' = "ok"
           \/ /\ ~(gone # {} /\ call.rid # AnyRid)
              /\ call' = [call EXCEPT !.at = n, !.removed = @ \/ gone # {}]
              /\ result' = result
        /\ UNCHANGED <<header, allocated, leaked>>
    BY DEF RemoveHere, Return
  <1>2. /\ TypeInv /\ ChainsInv /\ OwnersInv /\ RemoveInv /\ Exists
        /\ call \in Removals /\ b \in Buckets /\ call.at \in PageIds /\ call.at \in Chain(b)
    BY <1>1, RemoveFacts
  <1>3. /\ bucket'[call.at] = [bucket[call.at] EXCEPT !.entries = @ \ gone]
        /\ \A q \in PageIds \ {call.at} : bucket'[q] = bucket[q]
    BY <1>1, <1>2 DEF TypeInv
  <1>4. /\ bucket'[call.at].overflow = bucket[call.at].overflow
        /\ bucket'[call.at].initialized = bucket[call.at].initialized
        /\ bucket'[call.at].entries = bucket[call.at].entries \ gone
        /\ bucket'[call.at] \in Pages /\ n \in Refs
    BY <1>2, <1>3 DEF TypeInv, Pages
  <1>5. \A q \in PageIds : /\ bucket'[q].overflow = bucket[q].overflow
                           /\ bucket'[q].initialized = bucket[q].initialized
                           /\ bucket'[q].entries \subseteq bucket[q].entries
    BY <1>3, <1>4
  <1>6. /\ ChainsInv' /\ \A c \in Buckets : Chain(c)' = Chain(c)
        /\ Links' = Links
    <2>1. \A c \in Buckets : \A q \in Chain(c) : q \in PageIds /\ q \in allocated' \ leaked'
      BY <1>1, <1>2, ChainFacts DEF ChainsInv, Chain
    <2>2. ChainsInv' /\ \A c \in Buckets : Chain(c)' = Chain(c)
      BY <1>1, <1>2, <1>5, <2>1, SoundKept
    <2>3. Links' = Links
      BY <1>5 DEF Links
    <2>4. QED
      BY <2>2, <2>3
  <1>7. OwnersInv'
    BY <1>1, <1>2, <1>6 DEF OwnersInv
  <1>8. /\ bucket' \in [PageIds -> Pages]
        /\ \A p \in PageIds : /\ IsFiniteSet(bucket'[p].entries)
                              /\ Cardinality(bucket'[p].entries) <= Capacity
    <2>1. bucket' \in [PageIds -> Pages]
      BY <1>1, <1>2, <1>4 DEF TypeInv
    <2>2. ASSUME NEW p \in PageIds
          PROVE  /\ IsFiniteSet(bucket'[p].entries)
                 /\ Cardinality(bucket'[p].entries) <= Capacity
      <3>1. /\ IsFiniteSet(bucket[p].entries) /\ Cardinality(bucket[p].entries) <= Capacity
            /\ Cardinality(bucket[p].entries) \in Nat
        BY <1>2, FS_CardinalityType DEF TypeInv
      <3>2. /\ IsFiniteSet(bucket'[p].entries) /\ Cardinality(bucket'[p].entries) \in Nat
            /\ Cardinality(bucket'[p].entries) <= Cardinality(bucket[p].entries)
        BY <1>5, <3>1, FS_Subset, FS_CardinalityType
      <3>3. QED
        BY <3>1, <3>2, CapacityAssumption
    <2>3. QED
      BY <2>1, <2>2
  <1>9. CASE call' = Idle /\ result' = "ok"
    <2>1. TypeInv'
      BY <1>1, <1>2, <1>8, <1>9 DEF TypeInv, Exists
    <2>2. call'.op = "idle" /\ CallInv'
      BY <1>9 DEF Idle, CallInv
    <2>3. QED
      BY <1>6, <1>7, <2>1, <2>2 DEF IndexInv
  <1>10. CASE /\ ~(gone # {} /\ call.rid # AnyRid) /\ result' = result
              /\ call' = [call EXCEPT !.at = n, !.removed = @ \/ gone # {}]
    <2>1. /\ call'.op = "remove" /\ call'.key = call.key /\ call'.rid = call.rid
          /\ call'.at = n /\ call'.removed = (call.removed \/ gone # {})
          /\ call' \in Removals
      BY <1>2, <1>4, <1>10 DEF Removals
    <2>2. TypeInv'
      BY <1>1, <1>2, <1>8, <1>10, <2>1 DEF TypeInv, Exists
    <2>3. \A S : Matching(S)' = Matching(S')
      BY <2>1 DEF Matching
    <2>4. RemoveInv'
      <3>1. n # INVALID_PAGE_ID => n \in Chain(b)
        BY <1>2, <1>4, PageFacts, VisitedFacts DEF Chain, Closed, Refs
      <3>2. Visited(Links, call.at) = {call.at} \cup Visited(Links, n)
        BY <1>2, PageFacts, VisitedStep
      <3>3. \A q \in Chain(b) \ Visited(Links, n) : Matching(bucket[q].entries) = {} \/ q = call.at
        BY <1>2, <3>2 DEF RemoveInv
      <3>4. \A q \in Chain(b) \ Visited(Links, n) : Matching(bucket'[q].entries) = {}
        <4>1. Matching(bucket'[call.at].entries) = {}
          BY <1>4 DEF Matching
        <4>2. \A q \in Chain(b) : q \in PageIds
          BY ChainFacts DEF Chain
        <4>3. QED
          BY <1>3, <3>3, <4>1, <4>2
      <3>5. \A q : Matching(bucket[q].entries)' = Matching(bucket'[q].entries)
        BY <2>1 DEF Matching
      <3>6. call'.removed => call'.rid = AnyRid
        BY <1>2, <1>10, <2>1 DEF RemoveInv
      <3>7. QED
        BY <1>2, <1>6, <2>1, <3>1, <3>4, <3>5, <3>6 DEF RemoveInv
    <2>5. QED
      BY <1>6, <1>7, <2>1, <2>2, <2>4 DEF IndexInv, CallInv
  <1>11. QED
    BY <1>1, <1>6, <1>9, <1>10

-----------------------------------------------------------------------------
(* Destroy.                                                                *)

\* Where a destruction is.
LEMMA DestroyFacts ==
    ASSUME IndexInv, call.op = "destroy"
    PROVE  /\ TypeInv /\ DestroyInv /\ Exists /\ call \in Destructions
           /\ call.todo \subseteq PageIds /\ call.at \in Refs
           /\ header.page \in allocated \ leaked /\ header.page \in PageIds
  BY CallFacts DEF IndexInv, TypeInv, Destructions

\* Nothing is left of an index without a header page.
LEMMA NoIndexInv ==
    ASSUME header' = NoIndex, call' = Idle, result' \in {"ok", "error"},
           bucket' \in [PageIds -> Pages],
           \A p \in PageIds : /\ IsFiniteSet(bucket'[p].entries)
                              /\ Cardinality(bucket'[p].entries) <= Capacity,
           allocated' \subseteq PageIds, leaked' \subseteq allocated',
           allocated' \ leaked' = {}
    PROVE  IndexInv'
  <1>1. header'.page = INVALID_PAGE_ID /\ \A b \in Buckets : header'.buckets[b] = INVALID_PAGE_ID
    BY DEF NoIndex
  <1>2. \A b \in Buckets : Chain(b)' = {} /\ Ends(Links, header.buckets[b])'
    BY <1>1, PageFacts, ChainFacts DEF Chain, Ends
  <1>3. ChainsInv'
    BY <1>2 DEF ChainsInv
  <1>4. OwnersInv'
    BY DEF OwnersInv
  <1>5. call'.op = "idle" /\ CallInv'
    BY DEF Idle, CallInv
  <1>6. header' \in [page : Refs, buckets : [Buckets -> Refs]]
    BY DEF NoIndex, Refs
  <1>7. TypeInv'
    BY <1>1, <1>6 DEF TypeInv, Exists
  <1>8. QED
    BY <1>3, <1>4, <1>5, <1>7 DEF IndexInv

\* The chains of all buckets are to be deleted.
LEMMA CallDestroyInv ==
    ASSUME IndexInv, CallDestroy
    PROVE  IndexInv'
  <1>1. /\ call = Idle /\ Exists /\ UNCHANGED <<header, bucket, allocated, leaked, result>>
        /\ call' = [op |-> "destroy", todo |-> Primaries, at |-> INVALID_PAGE_ID]
    BY DEF CallDestroy
  <1>2. TypeInv /\ ChainsInv /\ OwnersInv /\ call.op = "idle"
    BY <1>1 DEF IndexInv, Idle
  <1>3. Primaries \subseteq PageIds
    BY <1>2 DEF Primaries, TypeInv, Refs
  <1>4. TypeInv'
    <2>1. call' \in Destructions
      BY <1>1, <1>3 DEF Destructions, Refs
    <2>2. QED
      BY <1>1, <1>2, <2>1 DEF TypeInv, Exists
  <1>5. Links' = Links /\ Starts' = {INVALID_PAGE_ID} \cup Primaries
        /\ call'.op = "destroy" /\ call'.at = INVALID_PAGE_ID /\ call'.todo = Primaries
    BY <1>1 DEF Links, Starts
  <1>6. \A p \in Primaries : \E b \in Buckets : p = header.buckets[b] /\ Visited(Links, p) = Chain(b)
    BY DEF Primaries, Chain
  <1>7. Visited(Links, INVALID_PAGE_ID) = {} /\ Ends(Links, INVALID_PAGE_ID)
    BY PageFacts, ChainFacts DEF Ends
  <1>8. \A p \in Starts' : Ends(Links, p) /\ Visited(Links, p) \subseteq (allocated \ leaked) \ {header.page}
    BY <1>2, <1>5, <1>6, <1>7 DEF ChainsInv
  <1>9. \A p, q \in Starts' : p # q => Visited(Links, p) \cap Visited(Links, q) = {}
    <2>1. \A p, q \in Primaries : p # q => Visited(Links, p) \cap Visited(Links, q) = {}
      BY <1>2, <1>6 DEF ChainsInv
    <2>2. QED
      BY <1>5, <1>7, <2>1
  <1>10. Left' = UNION {Visited(Links, p) : p \in Starts'}
    BY <1>5 DEF Left
  <1>11. allocated \ leaked \subseteq {header.page} \cup Left'
    <2>1. ASSUME NEW b \in Buckets PROVE Chain(b) \subseteq Left'
      <3>1. CASE header.buckets[b] = INVALID_PAGE_ID
        BY <1>7, <3>1 DEF Chain
      <3>2. CASE header.buckets[b] # INVALID_PAGE_ID
        BY <1>5, <1>10, <3>2 DEF Chain, Primaries
      <3>3. QED
        BY <3>1, <3>2
    <2>2. QED
      BY <1>2, <2>1 DEF OwnersInv
  <1>12. INVALID_PAGE_ID \notin Primaries
    BY DEF Primaries
  <1>13. DestroyInv'
    <2>1. \A b : Chain(b)' = Chain(b)
      BY <1>1, <1>5 DEF Chain
    <2>2. NoDuplicateEntries'
      BY <1>1, <1>2, <2>1 DEF ChainsInv, NoDuplicateEntries
    <2>3. QED
      BY <1>1, <1>5, <1>8, <1>9, <1>10, <1>11, <1>12, <2>2 DEF DestroyInv
  <1>14. QED
    BY <1>4, <1>5, <1>13 DEF IndexInv

\* The next chain is begun.
LEMMA DestroyChainInv ==
    ASSUME IndexInv, NEW p \in PageIds, DestroyChain(p)
    PROVE  IndexInv'
  <1>1. /\ call.op = "destroy" /\ call.at = INVALID_PAGE_ID /\ p \in call.todo
        /\ call' = [call EXCEPT !.at = p, !.todo = @ \ {p}]
        /\ UNCHANGED <<header, bucket, allocated, leaked, result>>
    BY DEF DestroyChain
  <1>2. /\ TypeInv /\ DestroyInv /\ Exists /\ call \in Destructions
        /\ call.todo \subseteq PageIds
    BY <1>1, DestroyFacts
  <1>3. /\ call' \in Destructions /\ call'.op = "destroy"
        /\ call'.at = p /\ call'.todo = call.todo \ {p}
    BY <1>1, <1>2 DEF Destructions, Refs
  <1>4. TypeInv'
    BY <1>1, <1>2, <1>3 DEF TypeInv, Exists
  <1>5. Links' = Links
    BY <1>1 DEF Links
  <1>6. Starts' \subseteq Starts /\ Starts = Starts' \cup {INVALID_PAGE_ID}
    BY <1>1, <1>3 DEF Starts
  <1>7. Visited(Links, INVALID_PAGE_ID) = {}
    BY PageFacts, ChainFacts
  <1>8. Left' = Left
    BY <1>5, <1>6, <1>7 DEF Left
  <1>9. DestroyInv'
    <2>1. \A b : Chain(b)' = Chain(b)
      BY <1>1, <1>5 DEF Chain
    <2>2. NoDuplicateEntries'
      BY <1>1, <1>2, <2>1 DEF DestroyInv, NoDuplicateEntries
    <2>3. QED
      BY <1>1, <1>2, <1>3, <1>5, <1>6, <1>8, <2>2 DEF DestroyInv
  <1>10. QED
    BY <1>3, <1>4, <1>9 DEF IndexInv
\* A bucket page is deleted; the rest of its chain is still to go.
LEMMA DestroyBucketInv ==
    ASSUME IndexInv, DestroyBucket
    PROVE  IndexInv'
  <1> DEFINE n == bucket[call.at].overflow
  <1>1. /\ call.op = "destroy" /\ call.at # INVALID_PAGE_ID
        /\ call' = [call EXCEPT !.at = n] /\ UNCHANGED <<header, result>>
        /\ bucket' = [bucket EXCEPT ![call.at] = Blank]
        /\ \/ allocated' = allocated \ {call.at} /\ leaked' = leaked
           \/ leaked' = leaked \cup {call.at} /\ allocated' = allocated
    BY DEF DestroyBucket, Discard
  <1>2. /\ TypeInv /\ DestroyInv /\ Exists /\ call \in Destructions
        /\ call.todo \subseteq PageIds /\ call.at \in PageIds
        /\ header.page \in allocated \ leaked
    BY <1>1, DestroyFacts DEF Refs
  <1>3. Links[call.at] = n /\ n \in Refs
    BY <1>2, PageFacts DEF TypeInv, Pages
  <1>4. /\ call' \in Destructions /\ call'.op = "destroy"
        /\ call'.at = n /\ call'.todo = call.todo
        /\ Starts = {call.at} \cup call.todo /\ Starts' = {n} \cup call.todo
    BY <1>1, <1>2, <1>3 DEF Destructions, Starts
  <1>5. bucket'[call.at] = Blank /\ \A q \in PageIds \ {call.at} : bucket'[q] = bucket[q]
    BY <1>1, <1>2 DEF TypeInv
  <1>6. Visited(Links, call.at) = {call.at} \cup Visited(Links, n)
    BY <1>2, <1>3, PageFacts, VisitedStep
  <1>7. call.at \notin Visited(Links, n) /\ Ends(Links, n)
    <2>1. Ends(Links, call.at) /\ call.at \in Visited(Links, call.at)
      BY <1>2, <1>4, <1>6 DEF DestroyInv
    <2>2. QED
      BY <1>2, <1>3, <2>1, PageFacts, NoReturn, RestEnds
  <1>8. \A p \in call.todo : /\ p # call.at /\ Ends(Links, p) /\ p \in Visited(Links, p)
                             /\ Visited(Links, p) \cap Visited(Links, call.at) = {}
    BY <1>2, <1>4, ChainFacts DEF DestroyInv
  <1>9. \A p \in Starts' : call.at \notin Visited(Links, p) /\ Ends(Links, p)
    BY <1>4, <1>6, <1>7, <1>8
  <1>10. \A p \in Starts' : /\ Visited(Links', p) = Visited(Links, p)
                            /\ Ends(Links', p)
    <2>1. ASSUME NEW p \in Starts'
          PROVE  Visited(Links', p) = Visited(Links, p) /\ Ends(Links', p)
      <3>1. \A q \in Visited(Links, p) : Links'[q] = Links[q]
        BY <1>5, <1>9, <2>1, PageFacts, ChainFacts
      <3>2. QED
        BY <1>9, <2>1, <3>1, PageFacts, SameWalk
    <2>2. QED
      BY <2>1
  <1>11. n \notin call.todo
    <2>1. n \in PageIds => n \in Visited(Links, call.at)
      BY <1>6, ChainFacts
    <2>2. QED
      BY <1>2, <1>8, <2>1
  <1>12. \A p, q \in Starts' : p # q => Visited(Links, p) \cap Visited(Links, q) = {}
    <2>1. \A p, q \in call.todo : p # q => Visited(Links, p) \cap Visited(Links, q) = {}
      BY <1>2, <1>4 DEF DestroyInv
    <2>2. QED
      BY <1>4, <1>6, <1>8, <2>1
  <1>13. Left' = Left \ {call.at} /\ Left = {call.at} \cup Left'
    <2>1. Left' = UNION {Visited(Links, p) : p \in Starts'}
      BY <1>10 DEF Left
    <2>2. \A q : q \in Left' <=> q \in Visited(Links, n) \/ \E p \in call.todo : q \in Visited(Links, p)
      BY <1>4, <2>1
    <2>3. \A q : q \in Left <=> q \in Visited(Links, call.at) \/ \E p \in call.todo : q \in Visited(Links, p)
      BY <1>4 DEF Left
    <2>4. call.at \notin Left'
      BY <1>4, <1>9, <2>1
    <2>5. QED
      BY <1>6, <2>2, <2>3, <2>4
  <1>14. allocated' \ leaked' = (allocated \ leaked) \ {call.at}
    BY <1>1
  <1>15. call.at # header.page
    BY <1>2, <1>13 DEF DestroyInv
  <1>16. TypeInv'
    <2>1. bucket' \in [PageIds -> Pages]
      BY <1>1, <1>2 DEF TypeInv, Pages, Blank, Refs
    <2>2. \A p \in PageIds : /\ IsFiniteSet(bucket'[p].entries)
                             /\ Cardinality(bucket'[p].entries) <= Capacity
      <3>1. IsFiniteSet(Blank.entries) /\ Cardinality(Blank.entries) <= Capacity
        BY FS_EmptySet, CapacityAssumption DEF Blank
      <3>2. \A q \in PageIds : /\ IsFiniteSet(bucket[q].entries)
                               /\ Cardinality(bucket[q].entries) <= Capacity
        BY <1>2 DEF TypeInv
      <3>3. QED
        BY <1>5, <3>1, <3>2
    <2>3. allocated' \subseteq PageIds /\ leaked' \subseteq allocated'
      <3>1. call.at \in allocated \ leaked
        BY <1>2, <1>13 DEF DestroyInv
      <3>2. QED
        BY <1>1, <1>2, <3>1 DEF TypeInv
    <2>4. header'.page \in allocated' \ leaked'
      BY <1>1, <1>2, <1>14, <1>15
    <2>5. QED
      BY <1>1, <1>2, <1>4, <2>1, <2>2, <2>3, <2>4 DEF TypeInv, Exists
  <1>17. DestroyInv'
    <2>1. \A p, q \in Starts' : p # q => Visited(Links', p) \cap Visited(Links', q) = {}
      BY <1>10, <1>12
    <2>2. Left' \subseteq allocated' \ leaked' /\ header'.page \notin Left'
      BY <1>1, <1>2, <1>13, <1>14 DEF DestroyInv
    <2>3. allocated' \ leaked' \subseteq {header'.page} \cup Left'
      BY <1>1, <1>2, <1>13, <1>14 DEF DestroyInv
    <2>4. \A b \in Buckets : Chain(b)' \subseteq Chain(b)
      <3>1. ASSUME NEW b \in Buckets PROVE Chain(b)' \subseteq Chain(b)
        <4>1. \A q \in Chain(b) : Links[q] \in PageIds => Links[q] \in Chain(b)
          BY PageFacts, VisitedFacts DEF Chain, Closed
        <4>2. \A q \in PageIds : Links'[q] \in PageIds => Links'[q] = Links[q]
          BY <1>5, PageFacts DEF Blank
        <4>3. \A q \in Chain(b) : q \in PageIds /\ Links'[q] \in PageIds => Links'[q] \in Chain(b)
          BY <4>1, <4>2
        <4>4. header.buckets[b] \in PageIds => header.buckets[b] \in Chain(b)
          BY ChainFacts DEF Chain
        <4>5. Visited(Links', header.buckets[b]) \subseteq Chain(b)
          BY <4>3, <4>4, PageFacts, VisitedLeast
        <4>6. QED
          BY <1>1, <4>5 DEF Chain
      <3>2. QED
        BY <3>1
    <2>5. NoDuplicateEntries'
      <3>1. \A q \in PageIds : bucket'[q].entries \subseteq bucket[q].entries
        BY <1>5 DEF Blank
      <3>2. \A b \in Buckets : \A p, q \in Chain(b)' :
               p # q => /\ p \in PageIds /\ q \in PageIds
                        /\ bucket[p].entries \cap bucket[q].entries = {}
        BY <1>2, <2>4, ChainFacts DEF DestroyInv, NoDuplicateEntries, Chain
      <3>3. \A b \in Buckets : \A p, q \in Chain(b)' :
               p # q => bucket'[p].entries \cap bucket'[q].entries = {}
        BY <3>1, <3>2
      <3>4. QED
        BY <3>3 DEF NoDuplicateEntries
    <2>6. QED
      BY <1>4, <1>10, <1>11, <2>1, <2>2, <2>3, <2>5 DEF DestroyInv
  <1>18. QED
    BY <1>4, <1>16, <1>17 DEF IndexInv

\* The header page is the last one to go.
LEMMA DestroyHeaderInv ==
    ASSUME IndexInv, DestroyHeader
    PROVE  IndexInv'
  <1>1. /\ call.op = "destroy" /\ call.at = INVALID_PAGE_ID /\ call.todo = {}
        /\ header' = NoIndex /\ call' = Idle /\ result' = result
        /\ bucket' = [bucket EXCEPT ![header.page] = Blank]
        /\ \/ allocated' = allocated \ {header.page} /\ leaked' = leaked
           \/ leaked' = leaked \cup {header.page} /\ allocated' = allocated
    BY DEF DestroyHeader, Discard
  <1>2. /\ TypeInv /\ DestroyInv /\ header.page \in allocated \ leaked
        /\ header.page \in PageIds
    BY <1>1, DestroyFacts
  <1>3. Left = {}
    BY <1>1, PageFacts, ChainFacts DEF Left, Starts
  <1>4. allocated' \ leaked' = {}
    BY <1>1, <1>2, <1>3 DEF DestroyInv
  <1>5. bucket' \in [PageIds -> Pages]
    BY <1>1, <1>2 DEF TypeInv, Pages, Blank, Refs
  <1>6. \A p \in PageIds : /\ IsFiniteSet(bucket'[p].entries)
                           /\ Cardinality(bucket'[p].entries) <= Capacity
    <2>1. bucket'[header.page] = Blank /\ \A q \in PageIds \ {header.page} : bucket'[q] = bucket[q]
      BY <1>1, <1>2 DEF TypeInv
    <2>2. IsFiniteSet(Blank.entries) /\ Cardinality(Blank.entries) <= Capacity
      BY FS_EmptySet, CapacityAssumption DEF Blank
    <2>3. \A q \in PageIds : /\ IsFiniteSet(bucket[q].entries)
                             /\ Cardinality(bucket[q].entries) <= Capacity
      BY <1>2 DEF TypeInv
    <2>4. QED
      BY <2>1, <2>2, <2>3
  <1>7. allocated' \subseteq PageIds /\ leaked' \subseteq allocated' /\ result' \in {"ok", "error"}
    BY <1>1, <1>2 DEF TypeInv
  <1>8. QED
    BY <1>1, <1>4, <1>5, <1>6, <1>7, NoIndexInv

\* What a destruction that stops leaves behind is given up.
LEMMA DestroyFailsInv ==
    ASSUME IndexInv, DestroyFails
    PROVE  IndexInv'
  <1>1. /\ call.op = "destroy" /\ header' = NoIndex /\ call' = Idle
        /\ bucket' = [p \in PageIds |-> Blank]
        /\ leaked' = allocated /\ allocated' = allocated /\ result' = result
    BY DEF DestroyFails
  <1>2. TypeInv
    BY <1>1, DestroyFacts
  <1>3. bucket' \in [PageIds -> Pages]
    BY <1>1 DEF Pages, Blank, Refs
  <1>4. \A p \in PageIds : /\ IsFiniteSet(bucket'[p].entries)
                           /\ Cardinality(bucket'[p].entries) <= Capacity
    BY <1>1, FS_EmptySet, CapacityAssumption DEF Blank
  <1>5. QED
    BY <1>1, <1>2, <1>3, <1>4, NoIndexInv DEF TypeInv

-----------------------------------------------------------------------------
(* The invariant.                                                          *)

\* No index at first.
LEMMA InitInv == IndexInit => IndexInv
  <1>1. SUFFICES ASSUME IndexInit PROVE IndexInv
    OBVIOUS
  <1>2. /\ header = NoIndex /\ bucket = [p \in PageIds |-> Blank]
        /\ allocated = {} /\ leaked = {} /\ call = Idle /\ result = "ok"
    BY <1>1 DEF IndexInit
  <1>3. header.page = INVALID_PAGE_ID /\ \A b \in Buckets : header.buckets[b] = INVALID_PAGE_ID
    BY <1>2 DEF NoIndex
  <1>4. \A b \in Buckets : Chain(b) = {} /\ Ends(Links, header.buckets[b])
    BY <1>3, PageFacts, ChainFacts DEF Chain, Ends
  <1>5. ChainsInv /\ OwnersInv
    BY <1>2, <1>4 DEF ChainsInv, OwnersInv
  <1>6. call.op = "idle" /\ CallInv
    BY <1>2 DEF Idle, CallInv
  <1>7. TypeInv
    <2>1. header \in [page : Refs, buckets : [Buckets -> Refs]]
      BY <1>2 DEF NoIndex, Refs
    <2>2. bucket \in [PageIds -> Pages]
      BY <1>2 DEF Pages, Blank, Refs
    <2>3. \A p \in PageIds : /\ IsFiniteSet(bucket[p].entries)
                             /\ Cardinality(bucket[p].entries) <= Capacity
      BY <1>2, FS_EmptySet, CapacityAssumption DEF Blank
    <2>4. QED
      BY <1>2, <1>3, <2>1, <2>2, <2>3 DEF TypeInv, Exists
  <1>8. QED
    BY <1>5, <1>6, <1>7 DEF IndexInv

\* Steps of a call that return without having touched a page.
LEMMA QuietReturnInv ==
    ASSUME IndexInv, AlreadyThere \/ StepFails \/ CallFails \/ RemoveEnds
    PROVE  IndexInv'
  <1>1. call.op \notin {"link", "destroy"}
    BY DEF AlreadyThere, StepFails, CallFails, RemoveEnds, Idle
  <1>2. /\ call' = Idle /\ result' \in {"ok", "error"}
        /\ UNCHANGED <<header, bucket, allocated, leaked>>
    BY DEF AlreadyThere, StepFails, CallFails, RemoveEnds, Return
  <1>3. QED
    BY <1>1, <1>2, ReturnsInv

\* Every step keeps the invariant.
LEMMA NextInv == IndexInv /\ [IndexNext]_indexVars => IndexInv'
  <1>1. SUFFICES ASSUME IndexInv, [IndexNext]_indexVars PROVE IndexInv'
    OBVIOUS
  <1>2. CASE \E p \in PageIds : Create(p)
    BY <1>1, <1>2, CreateInv
  <1>3. CASE \E k \in Keys, r \in RecordIDs : CallInsert(k, r)
    BY <1>1, <1>3, CallInsertInv
  <1>4. CASE \E k \in Keys, r \in RecordIDs \cup {AnyRid} : CallRemove(k, r)
    BY <1>1, <1>4, CallRemoveInv
  <1>5. CASE CallDestroy
    BY <1>1, <1>5, CallDestroyInv
  <1>6. CASE InsertMovesOn
    BY <1>1, <1>6, InsertMovesOnInv
  <1>7. CASE InsertIntoSpace
    BY <1>1, <1>7, InsertIntoSpaceInv
  <1>8. CASE \E p \in PageIds : AllocateBucket(p)
    BY <1>1, <1>8, AllocateBucketInv
  <1>9. CASE LinkPrimary
    BY <1>1, <1>9, LinkPrimaryInv
  <1>10. CASE LinkOverflow
    BY <1>1, <1>10, LinkOverflowInv
  <1>11. CASE LinkFails
    BY <1>1, <1>11, LinkFailsInv
  <1>12. CASE RemoveHere
    BY <1>1, <1>12, RemoveHereInv
  <1>13. CASE \E p \in PageIds : DestroyChain(p)
    BY <1>1, <1>13, DestroyChainInv
  <1>14. CASE DestroyBucket
    BY <1>1, <1>14, DestroyBucketInv
  <1>15. CASE DestroyHeader
    BY <1>1, <1>15, DestroyHeaderInv
  <1>16. CASE DestroyFails
    BY <1>1, <1>16, DestroyFailsInv
  <1>17. CASE AlreadyThere \/ StepFails \/ CallFails \/ RemoveEnds
    BY <1>1, <1>17, QuietReturnInv
  <1>18. CASE UNCHANGED indexVars
    <2>1. UNCHANGED <<header, bucket, allocated, leaked, call, result>>
      BY <1>18 DEF indexVars
    <2>2. /\ Links' = Links /\ Starts' = Starts /\ Entry' = Entry
          /\ \A b : Chain(b)' = Chain(b)
          /\ \A S : Matching(S)' = Matching(S)
      BY <2>1 DEF Links, Starts, Entry, Chain, Matching
    <2>3. TypeInv' <=> TypeInv
      BY <2>1 DEF TypeInv, Exists
    <2>4. (ChainsInv' <=> ChainsInv) /\ (OwnersInv' <=> OwnersInv)
      BY <2>1, <2>2 DEF ChainsInv, OwnersInv
    <2>5. CallInv' <=> CallInv
      <3>1. (InsertInv' <=> InsertInv) /\ (LinkInv' <=> LinkInv)
        BY <2>1, <2>2 DEF InsertInv, LinkInv
      <3>2. RemoveInv' <=> RemoveInv
        BY <2>1, <2>2 DEF RemoveInv, Matching
      <3>3. QED
        BY <2>1, <3>1, <3>2 DEF CallInv
    <2>6. DestroyInv' <=> DestroyInv
      BY <2>1, <2>2 DEF DestroyInv, Left, NoDuplicateEntries
    <2>7. QED
      BY <1>1, <2>1, <2>3, <2>4, <2>5, <2>6 DEF IndexInv
  <1>19. QED
    BY <1>1, <1>2, <1>3, <1>4, <1>5, <1>6, <1>7, <1>8, <1>9, <1>10, <1>11, <1>12, <1>13,
       <1>14, <1>15, <1>16, <1>17, <1>18 DEF IndexNext, CallStep

\* The inductive invariant holds in every state.
LEMMA AlwaysIndexInv == IndexSpec => []IndexInv
  BY InitInv, NextInv, PTL DEF IndexSpec

\* The chains of the buckets end, share no page and lead only to initialised
\* pages in use: no walk along them reports a cycle or a foreign page.
THEOREM ChainsStaySound == IndexSpec => []ChainsSound
  <1>1. IndexInv => ChainsSound
    <2>1. SUFFICES ASSUME IndexInv PROVE ChainsSound
      OBVIOUS
    <2>2. TypeInv
      BY <2>1 DEF IndexInv
    <2>3. IndexTypeOK
      BY <2>2, CallFacts DEF TypeInv, Refs, Pages, IndexTypeOK
    <2>4. QED
      BY <2>1, <2>3 DEF IndexInv, ChainsInv, ChainsSound
  <1>2. QED
    BY <1>1, AlwaysIndexInv, PTL

\* A page of the index is in its chains, about to be linked or was given up.
THEOREM NoBucketIsOrphaned == IndexSpec => []NoOrphanBuckets
  <1>1. IndexInv => NoOrphanBuckets
    <2>1. SUFFICES ASSUME IndexInv, call.op # "destroy", NEW p \in allocated
                   PROVE  p \in Owned \cup leaked \/ (call.op = "link" /\ p = call.at)
      BY DEF NoOrphanBuckets
    <2>2. TypeInv /\ OwnersInv
      BY <2>1 DEF IndexInv
    <2>3. CASE Exists
      BY <2>2, <2>3 DEF OwnersInv, Owned
    <2>4. CASE ~Exists
      BY <2>2, <2>4, PageFacts, NoIndexFacts DEF OwnersInv, TypeInv, NoIndex
    <2>5. QED
      BY <2>3, <2>4
  <1>2. QED
    BY <1>1, AlwaysIndexInv, PTL

\* An entry is in one page of its chain at most.
THEOREM NoEntryIsDuplicated == IndexSpec => []NoDuplicateEntries
  <1>1. IndexInv => NoDuplicateEntries
    BY DEF IndexInv, ChainsInv, DestroyInv, NoDuplicateEntries
  <1>2. QED
    BY <1>1, AlwaysIndexInv, PTL
-----------------------------------------------------------------------------
(* The set of entries: a call takes effect with one of its steps, and the  *)
(* others change nothing that the set shows.                               *)

\* What the call in progress asks for.
LEMMA RequestFacts ==
    ASSUME TypeInv
    PROVE  /\ call.op = "idle" => Request = Set!NoRequest
           /\ call.op \in {"insert", "link"} =>
                 Request = <<"insert", call.key, call.rid>> /\ Request \in Set!Requests
           /\ call.op = "remove" =>
                 /\ call.rid = AnyRid => Request = <<"remove all", call.key>>
                 /\ call.rid # AnyRid => Request = <<"remove", call.key, call.rid>>
                 /\ Request \in Set!Requests
           /\ call.op = "destroy" => Request = <<"destroy">>
  <1>1. call.op = "idle" => Request = Set!NoRequest
    BY DEF Request, Set!NoRequest
  <1>2. ASSUME call.op \in {"insert", "link"}
        PROVE  Request = <<"insert", call.key, call.rid>> /\ Request \in Set!Requests
    <2>1. Request = <<"insert", call.key, call.rid>>
      BY <1>2 DEF Request
    <2>2. call.key \in Keys /\ call.rid \in RecordIDs
      BY <1>2, CallFacts DEF Insertions
    <2>3. QED
      BY <2>1, <2>2 DEF Set!Requests
  <1>3. ASSUME call.op = "remove"
        PROVE  /\ call.rid = AnyRid => Request = <<"remove all", call.key>>
               /\ call.rid # AnyRid => Request = <<"remove", call.key, call.rid>>
               /\ Request \in Set!Requests
    <2>1. /\ call.rid = AnyRid => Request = <<"remove all", call.key>>
          /\ call.rid # AnyRid => Request = <<"remove", call.key, call.rid>>
      BY <1>3 DEF Request
    <2>2. call.key \in Keys /\ call.rid \in RecordIDs \cup {AnyRid}
      BY <1>3, CallFacts DEF Removals
    <2>3. <<"remove all", call.key>> \in Set!Requests
      BY <2>2 DEF Set!Requests
    <2>4. call.rid # AnyRid => <<"remove", call.key, call.rid>> \in Set!Requests
      BY <2>2 DEF Set!Requests
    <2>5. QED
      BY <2>1, <2>3, <2>4
  <1>4. call.op = "destroy" => Request = <<"destroy">>
    BY DEF Request
  <1>5. QED
    BY <1>1, <1>2, <1>3, <1>4

\* What is asked for while a call goes on, and after it.
LEMMA NextRequestFacts ==
    /\ call' = Idle => Request' = Set!NoRequest
    /\ call.op = "remove" /\ call'.op = "remove"
       /\ call'.key = call.key /\ call'.rid = call.rid => Request' = Request
    /\ call.op \in {"insert", "link"} /\ call'.op \in {"insert", "link"}
       /\ call'.key = call.key /\ call'.rid = call.rid => Request' = Request
    /\ call.op = "destroy" /\ call'.op = "destroy" => Request' = Request
  <1>1. call' = Idle => Request' = Set!NoRequest
    BY DEF Request, Idle, Set!NoRequest
  <1>2. call.op = "remove" /\ call'.op = "remove"
        /\ call'.key = call.key /\ call'.rid = call.rid => Request' = Request
    BY DEF Request
  <1>3. call.op \in {"insert", "link"} /\ call'.op \in {"insert", "link"}
        /\ call'.key = call.key /\ call'.rid = call.rid => Request' = Request
    BY DEF Request
  <1>4. call.op = "destroy" /\ call'.op = "destroy" => Request' = Request
    BY DEF Request
  <1>5. QED
    BY <1>1, <1>2, <1>3, <1>4

\* The set of entries stays when the chains and what is in them stay.
LEMMA EntriesKept ==
    ASSUME TypeInv, TypeInv', call.op # "destroy", call'.op # "destroy",
           \A c \in Buckets : Chain(c)' = Chain(c),
           \A c \in Buckets : \A q \in Chain(c) : bucket'[q].entries = bucket[q].entries
    PROVE  Entries' = Entries
  <1>1. \A e \in Keys \X RecordIDs :
           (\E p \in Chain(BucketOf[e[1]])' : e \in bucket'[p].entries)
              <=> \E p \in Chain(BucketOf[e[1]]) : e \in bucket[p].entries
    <2>1. ASSUME NEW e \in Keys \X RecordIDs, NEW c \in Buckets
          PROVE (\E p \in Chain(c)' : e \in bucket'[p].entries)
                   <=> \E p \in Chain(c) : e \in bucket[p].entries
      OBVIOUS
    <2>2. QED
      BY <2>1, PageFacts
  <1>2. \A e : e \in Entries' <=> e \in Entries
    BY <1>1, EntriesFacts, NextEntriesFacts
  <1>3. QED
    BY <1>2

\* Linking a page adds its entry to the set.
LEMMA EntriesLinked ==
    ASSUME IndexInv, LinkPrimary \/ LinkOverflow
    PROVE  Entries' = Entries \cup {Entry}
  <1>1. PICK b \in Buckets : b = BucketOf[call.key]
    BY LinkFacts DEF LinkPrimary, LinkOverflow
  <1>2. /\ IndexInv' /\ \A q \in PageIds : bucket'[q].entries = bucket[q].entries
        /\ \A c \in Buckets : Chain(c)' = IF c = b THEN Chain(c) \cup {call.at} ELSE Chain(c)
    BY <1>1, LinkPrimaryInv, LinkOverflowInv
  <1>3. /\ call.op = "link" /\ call' = Idle
    BY DEF LinkPrimary, LinkOverflow, Return
  <1>4. /\ TypeInv /\ call.at \in PageIds /\ bucket[call.at].entries = {Entry}
        /\ Entry \in Keys \X RecordIDs /\ Entry[1] = call.key
    BY <1>3, LinkFacts DEF Insertions, Entry
  <1>5. TypeInv' /\ call'.op # "destroy" /\ call.op # "destroy"
    BY <1>2, <1>3 DEF IndexInv, Idle
  <1>6. \A c : \A p \in Chain(c) : p \in PageIds
    BY ChainFacts DEF Chain
  <1>7. ASSUME NEW e \in Keys \X RecordIDs
        PROVE  e \in Entries' <=> e \in Entries \/ e = Entry
    <2>1. PICK c \in Buckets : c = BucketOf[e[1]]
      BY PageFacts
    <2>2. e \in Entries' <=> \E p \in Chain(c)' : e \in bucket'[p].entries
      BY <1>5, <2>1, NextEntriesFacts
    <2>3. e \in Entries <=> \E p \in Chain(c) : e \in bucket[p].entries
      BY <1>4, <1>5, <2>1, EntriesFacts
    <2>4. CASE c = b
      BY <1>2, <1>4, <1>6, <2>2, <2>3, <2>4
    <2>5. CASE c # b
      BY <1>1, <1>2, <1>4, <1>6, <2>1, <2>2, <2>3, <2>5
    <2>6. QED
      BY <2>4, <2>5
  <1>8. \A e : e \in Entries \/ e \in Entries' => e \in Keys \X RecordIDs
    BY <1>4, <1>5, EntriesFacts, NextEntriesFacts
  <1>9. QED
    BY <1>4, <1>7, <1>8

\* Filling a page adds the entry to the set.
LEMMA EntriesInserted ==
    ASSUME IndexInv, InsertIntoSpace
    PROVE  Entries' = Entries \cup {Entry}
  <1>1. PICK b \in Buckets : b = BucketOf[call.key]
    BY InsertFacts DEF InsertIntoSpace
  <1>2. /\ call.op = "insert" /\ call.space # INVALID_PAGE_ID /\ call' = Idle
        /\ bucket' = [bucket EXCEPT ![call.space].entries = @ \cup {Entry}]
    BY DEF InsertIntoSpace, Return
  <1>3. /\ TypeInv /\ ChainsInv /\ call \in Insertions
        /\ call.space \in Chain(b) /\ call.space \in PageIds
        /\ Entry \in Keys \X RecordIDs /\ Entry[1] = call.key
    BY <1>1, <1>2, InsertFacts, ChainFacts DEF InsertInv, Insertions, Entry, Chain
  <1>4. /\ TypeInv' /\ call'.op # "destroy" /\ call.op # "destroy"
        /\ \A c \in Buckets : Chain(c)' = Chain(c)
    BY <1>2, InsertIntoSpaceInv DEF IndexInv, Idle
  <1>5. \A q \in PageIds : bucket'[q].entries =
           IF q = call.space THEN bucket[q].entries \cup {Entry} ELSE bucket[q].entries
    BY <1>2, <1>3 DEF TypeInv, Pages
  <1>6. \A c : \A p \in Chain(c) : p \in PageIds
    BY ChainFacts DEF Chain
  <1>7. ASSUME NEW e \in Keys \X RecordIDs
        PROVE  e \in Entries' <=> e \in Entries \/ e = Entry
    <2>1. PICK c \in Buckets : c = BucketOf[e[1]]
      BY PageFacts
    <2>2. e \in Entries' <=> \E p \in Chain(c) : e \in bucket'[p].entries
      BY <1>4, <2>1, NextEntriesFacts
    <2>3. e \in Entries <=> \E p \in Chain(c) : e \in bucket[p].entries
      BY <1>3, <1>4, <2>1, EntriesFacts
    <2>4. CASE e = Entry
      BY <1>1, <1>3, <1>5, <2>1, <2>2, <2>4
    <2>5. CASE e # Entry
      BY <1>5, <1>6, <2>2, <2>3, <2>5
    <2>6. QED
      BY <2>4, <2>5
  <1>8. \A e : e \in Entries \/ e \in Entries' => e \in Keys \X RecordIDs
    BY <1>3, <1>4, EntriesFacts, NextEntriesFacts
  <1>9. QED
    BY <1>3, <1>7, <1>8

\* A page that loses entries takes exactly these from the set: no other page of
\* the chain has them.
LEMMA EntriesRemoved ==
    ASSUME IndexInv, RemoveHere
    PROVE  /\ Entries' = Entries \ Matching(bucket[call.at].entries)
           /\ Matching(bucket[call.at].entries) \subseteq {e \in Entries : e[1] = call.key}
  <1> DEFINE gone == Matching(bucket[call.at].entries)
  <1>1. PICK b \in Buckets : b = BucketOf[call.key]
    BY RemoveFacts DEF RemoveHere
  <1>2. /\ call.op = "remove" /\ call.at # INVALID_PAGE_ID
        /\ bucket' = [bucket EXCEPT ![call.at].entries = @ \ gone]
    BY DEF RemoveHere
  <1>3. /\ TypeInv /\ ChainsInv /\ call.at \in PageIds /\ call.at \in Chain(b)
    BY <1>1, <1>2, RemoveFacts
  <1>4. /\ TypeInv' /\ call'.op # "destroy" /\ call.op # "destroy"
        /\ \A c \in Buckets : Chain(c)' = Chain(c)
    <2>1. call'.op # "destroy"
      <3>1. CASE call' = Idle
        BY <3>1 DEF Idle
      <3>2. CASE call' = [call EXCEPT !.at = bucket[call.at].overflow,
                                      !.removed = @ \/ gone # {}]
        BY <1>2, <3>2, RemoveFacts DEF Removals
      <3>3. QED
        BY <3>1, <3>2 DEF RemoveHere, Return
    <2>2. QED
      BY <1>2, <2>1, RemoveHereInv DEF IndexInv
  <1>5. \A q \in PageIds : bucket'[q].entries =
           IF q = call.at THEN bucket[q].entries \ gone ELSE bucket[q].entries
    BY <1>2, <1>3 DEF TypeInv, Pages
  <1>6. \A c : \A p \in Chain(c) : p \in PageIds
    BY ChainFacts DEF Chain
  <1>7. /\ gone \subseteq bucket[call.at].entries /\ gone \subseteq Keys \X RecordIDs
        /\ \A e \in gone : e[1] = call.key
    BY <1>3 DEF Matching, TypeInv, Pages
  <1>8. ASSUME NEW e \in Keys \X RecordIDs
        PROVE  /\ e \in Entries' <=> e \in Entries /\ e \notin gone
               /\ e \in gone => e \in Entries
    <2>1. PICK c \in Buckets : c = BucketOf[e[1]]
      BY PageFacts
    <2>2. e \in Entries' <=> \E p \in Chain(c) : e \in bucket'[p].entries
      BY <1>4, <2>1, NextEntriesFacts
    <2>3. e \in Entries <=> \E p \in Chain(c) : e \in bucket[p].entries
      BY <1>3, <1>4, <2>1, EntriesFacts
    <2>4. CASE e \in gone
      <3>1. c = b /\ e \in bucket[call.at].entries
        BY <1>1, <1>7, <2>1, <2>4
      <3>2. \A p \in Chain(b) : p # call.at => e \notin bucket[p].entries
        BY <1>3, <3>1 DEF ChainsInv
      <3>3. \A p \in Chain(b) : e \notin bucket'[p].entries
        BY <1>5, <1>6, <2>4, <3>2
      <3>4. QED
        BY <1>3, <2>2, <2>3, <2>4, <3>1, <3>3
    <2>5. CASE e \notin gone
      BY <1>5, <1>6, <2>2, <2>3, <2>5
    <2>6. QED
      BY <2>4, <2>5
  <1>9. \A e : e \in Entries \/ e \in Entries' => e \in Keys \X RecordIDs
    BY <1>3, <1>4, EntriesFacts, NextEntriesFacts
  <1>10. QED
    BY <1>7, <1>8, <1>9

\* An index that is being destroyed, or does not exist, has no entries.
LEMMA NoEntries ==
    /\ call.op = "destroy" => Entries = {}
    /\ call'.op = "destroy" => Entries' = {}
    /\ TypeInv /\ ~Exists => Entries = {}
    /\ header' = NoIndex => Entries' = {}
  <1>1. call.op = "destroy" => Entries = {}
    BY DEF Entries
  <1>2. call'.op = "destroy" => Entries' = {}
    BY DEF Entries
  <1>3. TypeInv /\ ~Exists => Entries = {}
    BY PageFacts, NoIndexFacts DEF Entries, GetValue
  <1>4. ASSUME header' = NoIndex PROVE Entries' = {}
    <2>1. \A b \in Buckets : Chain(b)' = {}
      BY <1>4, PageFacts, ChainFacts DEF NoIndex, Chain
    <2>2. \A k \in Keys : GetValue(k)' = {}
      BY <2>1, PageFacts DEF GetValue
    <2>3. QED
      BY <2>2 DEF Entries
  <1>5. QED
    BY <1>1, <1>2, <1>3, <1>4
\* A call that reports an error without effect.
LEMMA Refused ==
    ASSUME TypeInv, call.op # "destroy", call' = Idle, result' = "error", Entries' = Entries
    PROVE  Set!IndexNext
  <1>1. Request \in Set!Requests \cup {Set!NoRequest}
    BY CallFacts, RequestFacts
  <1>2. Request' = Set!NoRequest
    BY NextRequestFacts
  <1>3. Set!Refuse
    BY <1>1, <1>2 DEF Set!Refuse, Set!Report
  <1>4. QED
    BY <1>3 DEF Set!IndexNext

\* An insertion that reports success has added its entry.
LEMMA Inserted ==
    ASSUME TypeInv, call.op \in {"insert", "link"}, call' = Idle, result' = "ok",
           Entries' = Entries \cup {Entry}
    PROVE  Set!IndexNext
  <1>1. Request = <<"insert", call.key, call.rid>>
    BY RequestFacts
  <1>2. Request' = Set!NoRequest
    BY NextRequestFacts
  <1>3. call.key \in Keys /\ call.rid \in RecordIDs
    BY CallFacts DEF Insertions
  <1>4. Set!Insert(call.key, call.rid)
    BY <1>1, <1>2 DEF Set!Insert, Set!Report, Entry
  <1>5. QED
    BY <1>3, <1>4 DEF Set!IndexNext

\* The beginning of a call.
LEMMA CallStarts ==
    ASSUME IndexInv,
           \/ \E k \in Keys, r \in RecordIDs : CallInsert(k, r)
           \/ \E k \in Keys, r \in RecordIDs \cup {AnyRid} : CallRemove(k, r)
           \/ CallDestroy
    PROVE  Set!IndexNext
  <1>1. /\ call = Idle /\ call.op = "idle" /\ TypeInv
        /\ UNCHANGED <<header, bucket, allocated, leaked, result>>
    BY DEF CallInsert, CallRemove, CallDestroy, Idle, IndexInv
  <1>2. Request = Set!NoRequest
    BY <1>1, RequestFacts
  <1>3. IndexInv' /\ TypeInv'
    BY CallInsertInv, CallRemoveInv, CallDestroyInv DEF IndexInv
  <1>4. \A b : Chain(b)' = Chain(b)
    BY <1>1 DEF Chain, Links
  <1>5. call'.op # "destroy" => Entries' = Entries
    BY <1>1, <1>3, <1>4, EntriesKept
  <1>6. ASSUME NEW k \in Keys, NEW r \in RecordIDs, CallInsert(k, r)
        PROVE  Set!Call
    <2>1. call'.op = "insert" /\ call'.key = k /\ call'.rid = r
      BY <1>6 DEF CallInsert
    <2>2. Request' = <<"insert", k, r>>
      BY <2>1 DEF Request
    <2>3. <<"insert", k, r>> \in Set!Requests
      BY DEF Set!Requests
    <2>4. QED
      BY <1>1, <1>2, <1>5, <2>1, <2>2, <2>3 DEF Set!Call
  <1>7. ASSUME NEW k \in Keys, NEW r \in RecordIDs \cup {AnyRid}, CallRemove(k, r)
        PROVE  Set!Call
    <2>1. call'.op = "remove" /\ call'.key = k /\ call'.rid = r
      BY <1>7 DEF CallRemove
    <2>2. Request' = IF r = AnyRid THEN <<"remove all", k>> ELSE <<"remove", k, r>>
      BY <2>1 DEF Request
    <2>3. <<"remove all", k>> \in Set!Requests
      BY DEF Set!Requests
    <2>4. r # AnyRid => <<"remove", k, r>> \in Set!Requests
      BY <1>7 DEF Set!Requests
    <2>5. Request' \in Set!Requests
      BY <2>2, <2>3, <2>4
    <2>6. QED
      BY <1>1, <1>2, <1>5, <2>1, <2>5 DEF Set!Call
  <1>8. ASSUME CallDestroy PROVE Set!Drop
    <2>1. call'.op = "destroy"
      BY <1>8 DEF CallDestroy
    <2>2. Request' = <<"destroy">> /\ Entries' = {}
      BY <2>1, NoEntries DEF Request
    <2>3. QED
      BY <1>1, <1>2, <2>2 DEF Set!Drop
  <1>9. QED
    BY <1>6, <1>7, <1>8 DEF Set!IndexNext

\* The steps of an insertion.
LEMMA InsertSteps ==
    ASSUME IndexInv,
           \/ AlreadyThere \/ InsertIntoSpace \/ LinkPrimary \/ LinkOverflow \/ LinkFails
    PROVE  Set!IndexNext
  <1>1. TypeInv
    BY DEF IndexInv
  <1>2. CASE AlreadyThere
    <2>1. /\ call.op = "insert" /\ call' = Idle /\ result' = "ok"
          /\ call.at # INVALID_PAGE_ID /\ Entry \in bucket[call.at].entries
          /\ UNCHANGED <<header, bucket, allocated, leaked>>
      BY <1>2 DEF AlreadyThere, Return
    <2>2. call.at \in Chain(BucketOf[call.key]) /\ call \in Insertions
      BY <2>1, InsertFacts
    <2>3. Entry \in Keys \X RecordIDs /\ Entry[1] = call.key
      BY <2>2 DEF Insertions, Entry
    <2>4. Entry \in Entries
      BY <1>1, <2>1, <2>2, <2>3, EntriesFacts
    <2>5. Entries' = Entries
      <3>1. IndexInv'
        BY <1>2, QuietReturnInv
      <3>2. \A b : Chain(b)' = Chain(b)
        BY <2>1 DEF Chain, Links
      <3>3. QED
        BY <1>1, <2>1, <3>1, <3>2, EntriesKept DEF IndexInv, Idle
    <2>6. Entries' = Entries \cup {Entry}
      BY <2>4, <2>5
    <2>7. QED
      BY <1>1, <2>1, <2>6, Inserted
  <1>3. CASE InsertIntoSpace
    <2>1. call.op = "insert" /\ call' = Idle /\ result' = "ok"
      BY <1>3 DEF InsertIntoSpace, Return
    <2>2. QED
      BY <1>1, <1>3, <2>1, EntriesInserted, Inserted
  <1>4. CASE LinkPrimary \/ LinkOverflow
    <2>1. call.op = "link" /\ call' = Idle /\ result' = "ok"
      BY <1>4 DEF LinkPrimary, LinkOverflow, Return
    <2>2. QED
      BY <1>1, <1>4, <2>1, EntriesLinked, Inserted
  <1>5. CASE LinkFails
    <2>1. call.op = "link" /\ call' = Idle /\ result' = "error"
      BY <1>5 DEF LinkFails, Return
    <2>2. Entries' = Entries
      BY <1>1, <1>5, <2>1, LinkFailsInv, EntriesKept DEF IndexInv, Idle
    <2>3. QED
      BY <1>1, <2>1, <2>2, Refused
  <1>6. QED
    BY <1>2, <1>3, <1>4, <1>5

\* The steps of a removal.
LEMMA RemoveSteps ==
    ASSUME IndexInv, RemoveHere \/ RemoveEnds
    PROVE  Set!IndexNext \/ UNCHANGED <<Entries, Request, result>>
  <1>1. TypeInv /\ RemoveInv /\ call.op = "remove" /\ call \in Removals
    BY RemoveFacts DEF RemoveHere, RemoveEnds
  <1>2. call.key \in Keys /\ call.rid \in RecordIDs \cup {AnyRid}
    BY <1>1 DEF Removals
  <1>3. CASE RemoveHere
    <2> DEFINE gone == Matching(bucket[call.at].entries)
    <2>1. /\ Entries' = Entries \ gone
          /\ gone \subseteq {e \in Entries : e[1] = call.key}
      BY <1>3, EntriesRemoved
    <2>2. CASE gone # {} /\ call.rid # AnyRid
      <3>1. call' = Idle /\ result' = "ok"
        BY <1>3, <2>2 DEF RemoveHere, Return
      <3>2. call.rid \in RecordIDs /\ Request = <<"remove", call.key, call.rid>>
        BY <1>1, <1>2, <2>2, RequestFacts
      <3>3. Request' = Set!NoRequest
        BY <3>1, NextRequestFacts
      <3>4. bucket[call.at].entries \subseteq Keys \X RecordIDs
        BY <1>1, <1>3, RemoveFacts DEF RemoveHere, TypeInv, Pages
      <3>5. \A e \in gone : e = <<call.key, call.rid>>
        BY <2>2, <3>4 DEF Matching
      <3>6. gone = {<<call.key, call.rid>>}
        BY <2>2, <3>5
      <3>7. Set!Remove(call.key, call.rid)
        BY <2>1, <3>1, <3>2, <3>3, <3>6 DEF Set!Remove, Set!Report
      <3>8. QED
        BY <1>2, <3>2, <3>7 DEF Set!IndexNext
    <2>3. CASE ~(gone # {} /\ call.rid # AnyRid)
      <3>1. /\ call' = [call EXCEPT !.at = bucket[call.at].overflow, !.removed = @ \/ gone # {}]
            /\ result' = result
        BY <1>3, <2>3 DEF RemoveHere
      <3>2. call'.op = "remove" /\ call'.key = call.key /\ call'.rid = call.rid
        BY <1>1, <3>1 DEF Removals
      <3>3. Request' = Request
        BY <1>1, <3>2, NextRequestFacts
      <3>4. CASE call.rid = AnyRid
        <4>1. Request = <<"remove all", call.key>>
          BY <1>1, <3>4, RequestFacts
        <4>2. Set!Taken(call.key, gone) /\ gone \in SUBSET Entries
          <5> HIDE DEF gone
          <5> QED
            BY <2>1 DEF Set!Taken
        <4>3. Set!RemoveSome(call.key)
          BY <3>1, <3>3, <4>1, <4>2 DEF Set!RemoveSome
        <4>4. QED
          BY <1>2, <4>3 DEF Set!IndexNext
      <3>5. CASE call.rid # AnyRid
        BY <2>1, <2>3, <3>1, <3>3, <3>5
      <3>6. QED
        BY <3>4, <3>5
    <2>4. QED
      BY <2>2, <2>3
  <1>4. CASE RemoveEnds
    <2>1. /\ call.at = INVALID_PAGE_ID /\ call' = Idle
          /\ result' = IF call.removed THEN "ok" ELSE "error"
          /\ UNCHANGED <<header, bucket, allocated, leaked>>
      BY <1>4 DEF RemoveEnds, Return
    <2>2. Entries' = Entries
      <3>1. IndexInv'
        BY <1>4, QuietReturnInv
      <3>2. \A b : Chain(b)' = Chain(b)
        BY <2>1 DEF Chain, Links
      <3>3. QED
        BY <1>1, <2>1, <3>1, <3>2, EntriesKept DEF IndexInv, Idle
    <2>3. CASE call.removed
      <3>1. call.rid = AnyRid /\ result' = "ok"
        BY <1>1, <2>1, <2>3 DEF RemoveInv
      <3>2. Request = <<"remove all", call.key>> /\ Request' = Set!NoRequest
        BY <1>1, <2>1, <3>1, RequestFacts, NextRequestFacts
      <3>3. \A q \in Chain(BucketOf[call.key]) : Matching(bucket[q].entries) = {}
        BY <1>1, <2>1, PageFacts, ChainFacts DEF RemoveInv
      <3>4. \A e \in Entries : e[1] # call.key
        <4>1. \A q \in Chain(BucketOf[call.key]) : \A e \in bucket[q].entries : e[1] # call.key
          BY <3>1, <3>3 DEF Matching
        <4>2. QED
          BY <1>1, <4>1, EntriesFacts
      <3>5. Set!Taken(call.key, {})
        BY <2>2 DEF Set!Taken
      <3>6. Set!RemoveRest(call.key)
        BY <2>2, <3>1, <3>2, <3>4, <3>5 DEF Set!RemoveRest, Set!Report
      <3>7. QED
        BY <1>2, <3>6 DEF Set!IndexNext
    <2>4. CASE ~call.removed
      <3>1. result' = "error"
        BY <2>1, <2>4
      <3>2. QED
        BY <1>1, <2>1, <2>2, <3>1, Refused
    <2>5. QED
      BY <2>3, <2>4
  <1>5. QED
    BY <1>3, <1>4
\* The steps of a destruction.
LEMMA DestroySteps ==
    ASSUME IndexInv,
           \/ \E p \in PageIds : DestroyChain(p)
           \/ DestroyBucket \/ DestroyHeader \/ DestroyFails
    PROVE  Set!IndexNext \/ UNCHANGED <<Entries, Request, result>>
  <1>1. TypeInv /\ call.op = "destroy" /\ call \in Destructions /\ Entries = {}
    BY DestroyFacts, NoEntries DEF DestroyChain, DestroyBucket, DestroyHeader, DestroyFails
  <1>2. CASE (\E p \in PageIds : DestroyChain(p)) \/ DestroyBucket
    <2>1. call'.op = "destroy" /\ result' = result
      BY <1>1, <1>2 DEF DestroyChain, DestroyBucket, Destructions
    <2>2. QED
      BY <1>1, <2>1, NoEntries, NextRequestFacts
  <1>3. CASE DestroyHeader \/ DestroyFails
    <2>1. header' = NoIndex /\ call' = Idle /\ result' = result
      BY <1>3 DEF DestroyHeader, DestroyFails
    <2>2. Request = <<"destroy">> /\ Request' = Set!NoRequest /\ Entries' = {}
      BY <1>1, <2>1, RequestFacts, NextRequestFacts, NoEntries
    <2>3. Set!Dropped
      BY <1>1, <2>1, <2>2 DEF Set!Dropped
    <2>4. QED
      BY <2>3 DEF Set!IndexNext
  <1>4. QED
    BY <1>2, <1>3

\* Steps that the set does not see, and calls that fail at once.
LEMMA HiddenSteps ==
    ASSUME IndexInv,
           \/ \E p \in PageIds : Create(p) \/ AllocateBucket(p)
           \/ InsertMovesOn \/ StepFails \/ CallFails
    PROVE  Set!IndexNext \/ UNCHANGED <<Entries, Request, result>>
  <1>1. TypeInv
    BY DEF IndexInv
  <1>2. CASE \E p \in PageIds : Create(p)
    <2>1. ~Exists /\ call = Idle /\ UNCHANGED <<call, result>>
      BY <1>2 DEF Create
    <2>2. \A b \in Buckets : header'.buckets[b] = INVALID_PAGE_ID
      BY <1>2 DEF Create, NoIndex
    <2>3. \A b \in Buckets : Chain(b)' = {} /\ Chain(b) = {}
      BY <1>1, <2>1, <2>2, PageFacts, ChainFacts, NoIndexFacts DEF Chain
    <2>4. Entries' = Entries
      <3>1. IndexInv'
        BY <1>2, CreateInv
      <3>2. QED
        BY <1>1, <2>1, <2>3, <3>1, EntriesKept DEF IndexInv, Idle
    <2>5. Request' = Request
      BY <2>1 DEF Request
    <2>6. QED
      BY <2>1, <2>4, <2>5
  <1>3. CASE \E p \in PageIds : AllocateBucket(p)
    <2>1. PICK p \in PageIds : AllocateBucket(p)
      BY <1>3
    <2>2. /\ call.op = "insert" /\ call \in Insertions /\ result' = result
          /\ p \notin allocated /\ ChainsInv
          /\ bucket' = [bucket EXCEPT ![p] = [Fresh EXCEPT !.entries = {Entry}]]
      BY <2>1, InsertFacts DEF AllocateBucket, IsNewPage
    <2>3. call'.op = "link" /\ call'.key = call.key /\ call'.rid = call.rid
      BY <2>1, <2>2 DEF AllocateBucket, Insertions
    <2>4. IndexInv' /\ \A c \in Buckets : Chain(c)' = Chain(c)
      BY <2>1, AllocateBucketInv
    <2>5. \A c \in Buckets : \A q \in Chain(c) : bucket'[q].entries = bucket[q].entries
      BY <1>1, <2>2, ChainFacts DEF ChainsInv, TypeInv, Chain
    <2>6. Entries' = Entries
      BY <1>1, <2>2, <2>3, <2>4, <2>5, EntriesKept DEF IndexInv
    <2>7. QED
      BY <2>2, <2>3, <2>6, NextRequestFacts
  <1>4. CASE InsertMovesOn
    <2>1. /\ call.op = "insert" /\ call \in Insertions
          /\ UNCHANGED <<header, bucket, result>>
      BY <1>4, InsertFacts DEF InsertMovesOn
    <2>2. call'.op = "insert" /\ call'.key = call.key /\ call'.rid = call.rid
      BY <1>4, <2>1 DEF InsertMovesOn, Insertions
    <2>3. \A b : Chain(b)' = Chain(b)
      BY <2>1 DEF Chain, Links
    <2>4. IndexInv'
      BY <1>4, InsertMovesOnInv
    <2>5. Entries' = Entries
      BY <1>1, <2>1, <2>2, <2>3, <2>4, EntriesKept DEF IndexInv
    <2>6. QED
      BY <2>1, <2>2, <2>5, NextRequestFacts
  <1>5. CASE StepFails \/ CallFails
    <2>1. /\ call.op # "destroy" /\ call' = Idle /\ result' = "error"
          /\ UNCHANGED <<header, bucket, allocated, leaked>>
      BY <1>5 DEF StepFails, CallFails, Return, Idle
    <2>2. \A b : Chain(b)' = Chain(b)
      BY <2>1 DEF Chain, Links
    <2>3. IndexInv'
      BY <1>5, QuietReturnInv
    <2>4. Entries' = Entries
      BY <1>1, <2>1, <2>2, <2>3, EntriesKept DEF IndexInv, Idle
    <2>5. QED
      BY <1>1, <2>1, <2>4, Refused
  <1>6. QED
    BY <1>2, <1>3, <1>4, <1>5

\* The hash index implements a set of entries: whatever accesses fail, each call
\* does to it what it reports, and destroying it leaves none.
THEOREM IndexImplementsSet == IndexSpec => ImplementsIndexSet
  <1>1. IndexInit => Set!IndexInit
    <2>1. SUFFICES ASSUME IndexInit PROVE Set!IndexInit
      OBVIOUS
    <2>2. header = NoIndex /\ call = Idle /\ result = "ok" /\ TypeInv
      BY <2>1, InitInv DEF IndexInit, IndexInv
    <2>3. Entries = {}
      BY <2>2, NoEntries DEF Exists, NoIndex
    <2>4. Request = Set!NoRequest
      BY <2>2, RequestFacts DEF Idle
    <2>5. QED
      BY <2>2, <2>3, <2>4 DEF Set!IndexInit, Set!NoRequest
  <1>2. IndexInv /\ [IndexNext]_indexVars
           => [Set!IndexNext]_<<Entries, Request, result>>
    <2>1. SUFFICES ASSUME IndexInv, [IndexNext]_indexVars
                   PROVE  Set!IndexNext \/ UNCHANGED <<Entries, Request, result>>
      OBVIOUS
    <2>2. CASE \/ \E k \in Keys, r \in RecordIDs : CallInsert(k, r)
               \/ \E k \in Keys, r \in RecordIDs \cup {AnyRid} : CallRemove(k, r)
               \/ CallDestroy
      BY <2>1, <2>2, CallStarts
    <2>3. CASE AlreadyThere \/ InsertIntoSpace \/ LinkPrimary \/ LinkOverflow \/ LinkFails
      BY <2>1, <2>3, InsertSteps
    <2>4. CASE RemoveHere \/ RemoveEnds
      BY <2>1, <2>4, RemoveSteps
    <2>5. CASE \/ \E p \in PageIds : DestroyChain(p)
               \/ DestroyBucket \/ DestroyHeader \/ DestroyFails
      BY <2>1, <2>5, DestroySteps
    <2>6. CASE \/ \E p \in PageIds : Create(p) \/ AllocateBucket(p)
               \/ InsertMovesOn \/ StepFails \/ CallFails
      BY <2>1, <2>6, HiddenSteps
    <2>7. CASE UNCHANGED indexVars
      <3>1. UNCHANGED <<header, bucket, call, result>>
        BY <2>7 DEF indexVars
      <3>2. QED
        BY <3>1 DEF Entries, GetValue, Chain, Links, Request
    <2>8. QED
      BY <2>1, <2>2, <2>3, <2>4, <2>5, <2>6, <2>7 DEF IndexNext, CallStep
  <1>3. QED
    BY <1>1, <1>2, AlwaysIndexInv, PTL
       DEF IndexSpec, ImplementsIndexSet, Set!IndexSpec
=============================================================================
