--------------------------- MODULE CatalogDDLProofs ---------------------------
(***************************************************************************)
(* What a creation may rely on and leaves behind, for every number of      *)
(* tables, pages and restarts.  With failing data pages and deletions the  *)
(* file and the program always agree; with failing catalog pages the       *)
(* session stays sound.                                                    *)
(***************************************************************************)
EXTENDS CatalogDDL, TLAPS

Refs == 0 .. MaxPages - 1
Calls == [at : {"idle", "flush", "build", "publishTable", "publishIndex"},
          name : Names, page : Refs, bucket : Refs]

TypeInv == /\ catalog \in Catalogs /\ view \in Catalogs /\ published \in Catalogs
           /\ ready \in BOOLEAN /\ restarts \in 0 .. MaxRestarts
           /\ store \in [DataPages -> Contents] /\ durable \in [DataPages -> Contents]
           /\ allocated \subseteq DataPages
           /\ call \in Calls

(* The pages of the objects of c.                                          *)
PagesOf(c, pages) == Owned(c, pages) \ {None}

(* The objects the program knows, and that each index has its table.       *)
ObjectsInv == /\ Sound(catalog, store)
              /\ PagesOf(catalog, store) \subseteq allocated
              /\ \A n \in Names : catalog.indexes[n] # None => catalog.tables[n] # None

(* The pages of the statement in progress: reserved, of no object yet, and *)
(* filled as the object needs them.                                        *)
CallInv ==
    IF call.at = "idle" THEN call = Idle
    ELSE /\ call.page \in allocated /\ call.page \notin PagesOf(catalog, store)
         /\ store[call.page].bucket = call.bucket
         /\ call.bucket # None =>
               /\ call.bucket \in allocated /\ call.bucket # call.page
               /\ call.bucket \notin PagesOf(catalog, store)
               /\ store[call.bucket].kind = "bucket"
         /\ IF call.at \in {"flush", "publishTable"}
            THEN /\ store[call.page].kind = "table" /\ call.bucket = None
                 /\ catalog.tables[call.name] = None
                 /\ catalog.indexes[call.name] = None
            ELSE /\ store[call.page].kind = "header"
                 /\ catalog.tables[call.name] # None
                 /\ catalog.indexes[call.name] = None

LiveInv == TypeInv /\ ObjectsInv /\ CallInv

(* The file knows what the program knows, and the pages of a statement     *)
(* that is about to publish them.                                          *)
FileInv == /\ ready /\ view = catalog /\ published = catalog
           /\ \A p \in PagesOf(catalog, store) : durable[p] = store[p]
           /\ Publishing => \A p \in Reserved : durable[p] = store[p]

(* Every page in use has an owner.                                         *)
OwnersInv == allocated = PagesOf(catalog, store) \cup Reserved

-----------------------------------------------------------------------------
(* Pages and objects.                                                      *)

\* References to pages; None is none.
LEMMA RefFacts ==
    /\ None \in Refs /\ None \notin DataPages
    /\ \A p : p \in Refs <=> p = None \/ p \in DataPages
  BY DDLAssumption DEF Refs, None, DataPages

\* The fields of catalogs, contents and calls.
LEMMA FieldFacts ==
    /\ \A c \in Catalogs : \A n \in Names : c.tables[n] \in Refs /\ c.indexes[n] \in Refs
    /\ \A x \in Contents : x.bucket \in Refs
    /\ \A kind \in {"zero", "table", "header", "bucket"}, b \in Refs :
          /\ Content(kind, b) \in Contents
          /\ Content(kind, b).kind = kind /\ Content(kind, b).bucket = b
    /\ Zero \in Contents /\ Zero.kind = "zero"
  <1>1. \A c \in Catalogs : \A n \in Names : c.tables[n] \in Refs /\ c.indexes[n] \in Refs
    BY DEF Catalogs, Refs
  <1>2. \A x \in Contents : x.bucket \in Refs
    BY DEF Contents, Refs
  <1>3. \A kind \in {"zero", "table", "header", "bucket"}, b \in Refs :
          /\ Content(kind, b) \in Contents
          /\ Content(kind, b).kind = kind /\ Content(kind, b).bucket = b
    BY DEF Contents, Content, Refs
  <1>4. Zero \in Contents /\ Zero.kind = "zero"
    BY <1>3, RefFacts DEF Zero
  <1>5. QED
    BY <1>1, <1>2, <1>3, <1>4

\* The pages of a catalog are those of its tables, its indexes and their buckets.
LEMMA PagesFacts ==
    ASSUME NEW c, NEW s
    PROVE  \A p : p \in PagesOf(c, s) <=>
              /\ p # None
              /\ \E n \in Names : \/ p = c.tables[n] \/ p = c.indexes[n]
                                  \/ c.indexes[n] # None /\ p = s[c.indexes[n]].bucket
  BY DEF PagesOf, Owned

\* Objects depend on their own pages only.
LEMMA SameObjects ==
    ASSUME NEW c, NEW s, NEW t, \A p \in PagesOf(c, s) : t[p] = s[p]
    PROVE  PagesOf(c, t) = PagesOf(c, s) /\ (Sound(c, s) => Sound(c, t))
  <1>1. ASSUME NEW n \in Names
        PROVE  /\ c.tables[n] # None => t[c.tables[n]] = s[c.tables[n]]
               /\ c.indexes[n] # None =>
                     /\ t[c.indexes[n]] = s[c.indexes[n]]
                     /\ LET b == s[c.indexes[n]].bucket IN b # None => t[b] = s[b]
    BY PagesFacts
  <1>2. \A p : p \in PagesOf(c, t) <=> p \in PagesOf(c, s)
    BY <1>1, PagesFacts
  <1>3. Sound(c, s) => Sound(c, t)
    BY <1>1 DEF Sound
  <1>4. QED
    BY <1>2, <1>3 DEF PagesOf

\* A page in no object may be given any content.
LEMMA ObjectsKept ==
    ASSUME ObjectsInv, catalog' = catalog,
           \A p \in PagesOf(catalog, store) : store'[p] = store[p],
           PagesOf(catalog, store) \subseteq allocated'
    PROVE  ObjectsInv' /\ PagesOf(catalog, store)' = PagesOf(catalog, store)
  <1>1. /\ PagesOf(catalog, store') = PagesOf(catalog, store)
        /\ Sound(catalog, store')
    BY SameObjects DEF ObjectsInv
  <1>2. QED
    BY <1>1 DEF ObjectsInv

\* What the statement in progress has reserved.
LEMMA ReservedFacts ==
    ASSUME LiveInv
    PROVE  /\ Reserved \subseteq allocated
           /\ Reserved \cap PagesOf(catalog, store) = {}
           /\ call.at # "idle" => call.page \in Reserved
           /\ call.bucket # None => call.bucket \in Reserved
           /\ Idle \in Calls /\ Idle.at = "idle" /\ Idle.page = None /\ Idle.bucket = None
           /\ call = Idle => Reserved = {}
           /\ call.at # "idle" => call # Idle
  <1>1. (CHOOSE n \in Names : TRUE) \in Names
    BY DDLAssumption
  <1>2. Idle \in Calls /\ Idle.at = "idle" /\ Idle.page = None /\ Idle.bucket = None
    BY <1>1, RefFacts DEF Idle, Calls
  <1>3. CASE call.at = "idle"
    BY <1>2, <1>3 DEF LiveInv, CallInv, Reserved
  <1>4. CASE call.at # "idle"
    <2>1. call.page # None
      BY <1>4, RefFacts DEF LiveInv, CallInv, TypeInv
    <2>2. QED
      BY <1>2, <1>4, <2>1 DEF LiveInv, CallInv, Reserved
  <1>5. QED
    BY <1>3, <1>4

\* DeletePages touches its pages only.
LEMMA DeleteFacts ==
    ASSUME TypeInv, NEW S, S \subseteq DataPages, DeletePages(S)
    PROVE  /\ allocated' \subseteq allocated /\ allocated \ S \subseteq allocated'
           /\ "delete" \notin Faults => allocated' = allocated \ S
           /\ store' \in [DataPages -> Contents] /\ durable' \in [DataPages -> Contents]
           /\ \A p \in DataPages \ S : store'[p] = store[p] /\ durable'[p] = durable[p]
  <1>1. PICK kept \in SUBSET S :
           /\ kept # {} => "delete" \in Faults
           /\ allocated' = allocated \ (S \ kept)
           /\ \E left \in {store, durable, [p \in DataPages |-> Zero]} :
                /\ store' = [p \in DataPages |-> IF p \in kept THEN left[p]
                                                 ELSE IF p \in S THEN Zero ELSE store[p]]
                /\ durable' = [p \in DataPages |->
                                 IF p \in kept /\ left # store THEN left[p]
                                 ELSE IF p \in S \ kept THEN Zero ELSE durable[p]]
    BY DEF DeletePages
  <1>2. PICK left \in {store, durable, [p \in DataPages |-> Zero]} :
                /\ store' = [p \in DataPages |-> IF p \in kept THEN left[p]
                                                 ELSE IF p \in S THEN Zero ELSE store[p]]
                /\ durable' = [p \in DataPages |->
                                 IF p \in kept /\ left # store THEN left[p]
                                 ELSE IF p \in S \ kept THEN Zero ELSE durable[p]]
    BY <1>1
  <1>3. left \in [DataPages -> Contents]
    BY FieldFacts DEF TypeInv
  <1>4. store' \in [DataPages -> Contents] /\ durable' \in [DataPages -> Contents]
    BY <1>2, <1>3, FieldFacts DEF TypeInv
  <1>5. \A p \in DataPages \ S : store'[p] = store[p] /\ durable'[p] = durable[p]
    BY <1>2
  <1>6. QED
    BY <1>1, <1>4, <1>5

-----------------------------------------------------------------------------
(* A statement that fails.                                                 *)

\* GiveUp leaves the objects and the file as they are.
LEMMA GiveUpInv ==
    ASSUME LiveInv, GiveUp, view' \in Catalogs
    PROVE  /\ LiveInv'
           /\ FileInv /\ view' = view => FileInv'
           /\ OwnersInv /\ "delete" \notin Faults => OwnersInv'
  <1>1. /\ UNCHANGED <<catalog, ready, published, restarts>> /\ call' = Idle
        /\ DeletePages(Reserved)
    BY DEF GiveUp
  <1>2. Reserved \subseteq DataPages /\ PagesOf(catalog, store) \subseteq DataPages \ Reserved
    BY ReservedFacts DEF LiveInv, TypeInv, ObjectsInv
  <1>3. /\ allocated' \subseteq allocated /\ allocated \ Reserved \subseteq allocated'
        /\ "delete" \notin Faults => allocated' = allocated \ Reserved
        /\ store' \in [DataPages -> Contents] /\ durable' \in [DataPages -> Contents]
        /\ \A p \in DataPages \ Reserved : store'[p] = store[p] /\ durable'[p] = durable[p]
    BY <1>1, <1>2, DeleteFacts DEF LiveInv
  <1>4. Idle \in Calls /\ Idle.at = "idle" /\ Idle.page = None /\ Idle.bucket = None
    BY ReservedFacts
  <1>5. TypeInv'
    BY <1>1, <1>3, <1>4 DEF LiveInv, TypeInv
  <1>6. ObjectsInv' /\ PagesOf(catalog, store)' = PagesOf(catalog, store)
    <2>1. PagesOf(catalog, store) \subseteq allocated'
      BY <1>2, <1>3 DEF LiveInv, ObjectsInv
    <2>2. \A p \in PagesOf(catalog, store) : store'[p] = store[p]
      BY <1>2, <1>3
    <2>3. QED
      BY <1>1, <2>1, <2>2, ObjectsKept DEF LiveInv
  <1>7. CallInv'
    BY <1>1, <1>4 DEF CallInv
  <1>8. Reserved' = {}
    BY <1>1, <1>4 DEF Reserved
  <1>9. FileInv /\ view' = view => FileInv'
    BY <1>1, <1>2, <1>3, <1>4, <1>6 DEF FileInv, Publishing
  <1>10. OwnersInv /\ "delete" \notin Faults => OwnersInv'
    <2>1. ASSUME OwnersInv, "delete" \notin Faults PROVE OwnersInv'
      <3>1. allocated' = PagesOf(catalog, store)
        BY <1>2, <1>3, <2>1 DEF OwnersInv
      <3>2. QED
        BY <1>6, <1>8, <3>1 DEF OwnersInv
    <2>2. QED
      BY <2>1
  <1>11. QED
    BY <1>5, <1>6, <1>7, <1>9, <1>10 DEF LiveInv

-----------------------------------------------------------------------------
(* A statement that reserves and fills its pages.                          *)

\* The first page of a new object.
LEMMA FirstPage ==
    ASSUME LiveInv, call = Idle, NEW n \in Names, NEW p, NEW kind \in {"table", "header"},
           NEW at \in {"flush", "build"}, at = "flush" <=> kind = "table",
           NewPage(p, Content(kind, None)),
           call' = [Idle EXCEPT !.at = at, !.name = n, !.page = p],
           kind = "table" => catalog.tables[n] = None,
           kind = "header" => catalog.tables[n] # None /\ catalog.indexes[n] = None,
           UNCHANGED <<catalog, ready, view, filePart, restarts>>
    PROVE  LiveInv' /\ (FileInv => FileInv') /\ (OwnersInv => OwnersInv')
  <1>1. /\ p \in DataPages /\ p \notin allocated /\ allocated' = allocated \cup {p}
        /\ store' = [store EXCEPT ![p] = Content(kind, None)]
    BY DEF NewPage
  <1>2. /\ Content(kind, None) \in Contents /\ Content(kind, None).kind = kind
        /\ Content(kind, None).bucket = None /\ p \in Refs /\ p # None
    BY <1>1, FieldFacts, RefFacts
  <1>3. UNCHANGED <<published, durable>>
    BY DEF filePart
  <1>4. /\ call' \in Calls /\ call'.at = at /\ call'.name = n
        /\ call'.page = p /\ call'.bucket = None
    <2>1. Idle \in Calls /\ Idle.bucket = None
      BY ReservedFacts
    <2>2. QED
      BY <1>2, <2>1 DEF Calls
  <1>5. TypeInv'
    BY <1>1, <1>2, <1>3, <1>4 DEF LiveInv, TypeInv
  <1>6. /\ p \notin PagesOf(catalog, store)
        /\ \A q \in PagesOf(catalog, store) : store'[q] = store[q]
    BY <1>1 DEF LiveInv, ObjectsInv, TypeInv
  <1>7. ObjectsInv' /\ PagesOf(catalog, store)' = PagesOf(catalog, store)
    BY <1>1, <1>6, ObjectsKept DEF LiveInv, ObjectsInv
  <1>8. store'[p] = Content(kind, None)
    BY <1>1 DEF LiveInv, TypeInv
  <1>9. catalog.indexes[n] = None
    BY DEF LiveInv, ObjectsInv
  <1>10. CallInv'
    <2>1. p \in allocated' /\ p \notin PagesOf(catalog, store)' /\ at # "idle"
      BY <1>1, <1>6, <1>7
    <2>2. CASE kind = "table"
      BY <1>2, <1>4, <1>8, <1>9, <2>1, <2>2 DEF CallInv
    <2>3. CASE kind = "header"
      BY <1>2, <1>4, <1>8, <1>9, <2>1, <2>3 DEF CallInv
    <2>4. QED
      BY <2>2, <2>3
  <1>11. Reserved' = {p} /\ Reserved = {}
    BY <1>2, <1>4, ReservedFacts DEF Reserved
  <1>12. FileInv => FileInv'
    BY <1>3, <1>4, <1>6, <1>7 DEF FileInv, Publishing
  <1>13. OwnersInv => OwnersInv'
    BY <1>1, <1>7, <1>11 DEF OwnersInv
  <1>14. QED
    BY <1>5, <1>7, <1>10, <1>12, <1>13 DEF LiveInv

\* CREATE TABLE and CREATE INDEX begin.
LEMMA CreateInv ==
    ASSUME LiveInv, NEW n \in Names, CallCreateTable(n) \/ CallCreateIndex(n)
    PROVE  LiveInv' /\ (FileInv => FileInv') /\ (OwnersInv => OwnersInv')
  <1>1. CASE CallCreateTable(n)
    <2>1. PICK p \in DataPages :
             /\ NewPage(p, Content("table", None))
             /\ call' = [Idle EXCEPT !.at = "flush", !.name = n, !.page = p]
      BY <1>1 DEF CallCreateTable
    <2>2. /\ call = Idle /\ catalog.tables[n] = None
          /\ UNCHANGED <<catalog, ready, view, filePart, restarts>>
      BY <1>1 DEF CallCreateTable
    <2>3. QED
      BY <2>1, <2>2, FirstPage
  <1>2. CASE CallCreateIndex(n)
    <2>1. PICK p \in DataPages :
             /\ NewPage(p, Content("header", None))
             /\ call' = [Idle EXCEPT !.at = "build", !.name = n, !.page = p]
      BY <1>2 DEF CallCreateIndex
    <2>2. /\ call = Idle /\ catalog.tables[n] # None /\ catalog.indexes[n] = None
          /\ UNCHANGED <<catalog, ready, view, filePart, restarts>>
      BY <1>2 DEF CallCreateIndex
    <2>3. QED
      BY <2>1, <2>2, FirstPage
  <1>3. QED
    BY <1>1, <1>2

\* The first row of an index takes a bucket.
LEMMA BuildBucketInv ==
    ASSUME LiveInv, BuildBucket
    PROVE  LiveInv' /\ (FileInv => FileInv') /\ (OwnersInv => OwnersInv')
  <1>1. PICK q \in DataPages \ allocated :
           /\ allocated' = allocated \cup {q}
           /\ store' = [store EXCEPT ![q] = Content("bucket", None), ![call.page].bucket = q]
           /\ call' = [call EXCEPT !.bucket = q]
    BY DEF BuildBucket
  <1>2. /\ call.at = "build" /\ call.bucket = None
        /\ UNCHANGED <<catalog, ready, view, published, durable, restarts>>
    BY DEF BuildBucket, filePart
  <1>3. /\ call.page \in allocated /\ call.page \notin PagesOf(catalog, store)
        /\ store[call.page].kind = "header"
        /\ catalog.tables[call.name] # None /\ catalog.indexes[call.name] = None
        /\ q # call.page /\ call.page \in DataPages /\ q \in Refs /\ q # None
        /\ q \notin PagesOf(catalog, store)
    BY <1>1, <1>2, RefFacts DEF LiveInv, CallInv, TypeInv, ObjectsInv
  <1>4. /\ Content("bucket", None) \in Contents /\ Content("bucket", None).kind = "bucket"
    BY FieldFacts, RefFacts
  <1>5. [store[call.page] EXCEPT !.bucket = q] \in Contents
    BY <1>3 DEF LiveInv, TypeInv, Contents, Refs
  <1>6. /\ store' \in [DataPages -> Contents]
        /\ store'[q] = Content("bucket", None)
        /\ store'[call.page] = [store[call.page] EXCEPT !.bucket = q]
        /\ \A p \in DataPages \ {q, call.page} : store'[p] = store[p]
    BY <1>1, <1>3, <1>4, <1>5 DEF LiveInv, TypeInv
  <1>7. /\ call' \in Calls /\ call'.at = "build" /\ call'.name = call.name
        /\ call'.page = call.page /\ call'.bucket = q
    BY <1>1, <1>2, <1>3 DEF LiveInv, TypeInv, Calls
  <1>8. TypeInv'
    BY <1>1, <1>2, <1>6, <1>7 DEF LiveInv, TypeInv
  <1>9. ObjectsInv' /\ PagesOf(catalog, store)' = PagesOf(catalog, store)
    <2>1. \A p \in PagesOf(catalog, store) : store'[p] = store[p]
      BY <1>3, <1>6 DEF LiveInv, ObjectsInv, TypeInv
    <2>2. QED
      BY <1>1, <1>2, <2>1, ObjectsKept DEF LiveInv, ObjectsInv
  <1>10. /\ store'[call.page].kind = "header" /\ store'[call.page].bucket = q
    BY <1>3, <1>6 DEF LiveInv, TypeInv, Contents
  <1>11. CallInv'
    BY <1>1, <1>2, <1>3, <1>4, <1>6, <1>7, <1>9, <1>10 DEF CallInv
  <1>12. FileInv => FileInv'
    <2>1. \A p \in PagesOf(catalog, store) : store'[p] = store[p]
      BY <1>3, <1>6 DEF LiveInv, ObjectsInv, TypeInv
    <2>2. QED
      BY <1>2, <1>7, <1>9, <2>1 DEF FileInv, Publishing
  <1>13. OwnersInv => OwnersInv'
    <2>1. Reserved' = Reserved \cup {q}
      BY <1>2, <1>3, <1>7 DEF Reserved
    <2>2. QED
      BY <1>1, <1>9, <2>1 DEF OwnersInv
  <1>14. QED
    BY <1>8, <1>9, <1>11, <1>12, <1>13 DEF LiveInv

\* The pages of the new object reach the file, others at the same time or not.
LEMMA FlushedInv ==
    ASSUME LiveInv, NEW at,
           \/ call.at = "flush" /\ at = "publishTable"
           \/ call.at = "build" /\ at = "publishIndex",
           call' = [call EXCEPT !.at = at],
           UNCHANGED <<catalog, ready, poolPart, restarts>>,
           published' \in Catalogs, durable' \in [DataPages -> Contents]
    PROVE  /\ LiveInv' /\ (OwnersInv => OwnersInv')
           /\ /\ FileInv /\ published' = published
              /\ \A p \in allocated : durable'[p] \in {store[p], durable[p]}
              /\ \A p \in Reserved : durable'[p] = store[p]
              => FileInv'
  <1>1. UNCHANGED <<catalog, ready, view, store, allocated, restarts>>
    BY DEF poolPart
  <1>2. \/ call.at = "flush" /\ at = "publishTable"
        \/ call.at = "build" /\ at = "publishIndex"
    OBVIOUS
  <1>3. /\ call' \in Calls /\ call'.at = at /\ call'.name = call.name
        /\ call'.page = call.page /\ call'.bucket = call.bucket
    BY <1>2 DEF LiveInv, TypeInv, Calls
  <1>4. TypeInv'
    BY <1>1, <1>3 DEF LiveInv, TypeInv
  <1>5. ObjectsInv' /\ PagesOf(catalog, store)' = PagesOf(catalog, store)
    BY <1>1 DEF LiveInv, ObjectsInv
  <1>6. CallInv'
    <2>1. CASE call.at = "flush" /\ at = "publishTable"
      BY <1>1, <1>3, <1>5, <2>1 DEF LiveInv, CallInv
    <2>2. CASE call.at = "build" /\ at = "publishIndex"
      BY <1>1, <1>3, <1>5, <2>2 DEF LiveInv, CallInv
    <2>3. QED
      BY <1>2, <2>1, <2>2
  <1>7. Reserved' = Reserved
    BY <1>3 DEF Reserved
  <1>8. ASSUME FileInv, published' = published,
               \A p \in allocated : durable'[p] \in {store[p], durable[p]},
               \A p \in Reserved : durable'[p] = store[p]
        PROVE  FileInv'
    <2>1. \A p \in PagesOf(catalog, store) : durable'[p] = store[p]
      BY <1>8 DEF LiveInv, ObjectsInv, FileInv
    <2>2. QED
      BY <1>1, <1>5, <1>7, <1>8, <2>1 DEF FileInv
  <1>9. QED
    BY <1>1, <1>4, <1>5, <1>6, <1>7, <1>8 DEF LiveInv, OwnersInv

\* ExecuteCreateTable flushes the first page.
LEMMA FlushFirstPageInv ==
    ASSUME LiveInv, FlushFirstPage
    PROVE  LiveInv' /\ (FileInv => FileInv') /\ (OwnersInv => OwnersInv')
  <1>1. /\ call.at = "flush" /\ call' = [call EXCEPT !.at = "publishTable"]
        /\ durable' = [durable EXCEPT ![call.page] = store[call.page]]
        /\ UNCHANGED <<catalog, ready, poolPart, restarts>> /\ published' = published
    BY DEF FlushFirstPage
  <1>2. call.page \in allocated /\ call.page \in DataPages /\ Reserved \subseteq {call.page}
    BY <1>1 DEF LiveInv, TypeInv, CallInv, Reserved
  <1>3. durable' \in [DataPages -> Contents] /\ published' \in Catalogs
    BY <1>1, <1>2 DEF LiveInv, TypeInv
  <1>4. /\ \A p \in allocated : durable'[p] \in {store[p], durable[p]}
        /\ \A p \in Reserved : durable'[p] = store[p]
    BY <1>1, <1>2 DEF LiveInv, TypeInv
  <1>5. QED
    BY <1>1, <1>3, <1>4, FlushedInv

\* What FlushAllPages does to the file.
LEMMA FlushAllFacts ==
    ASSUME LiveInv, FlushAllPages
    PROVE  /\ published' \in Catalogs /\ durable' \in [DataPages -> Contents]
           /\ \A p \in allocated : durable'[p] \in {store[p], durable[p]}
           /\ "flushAll" \notin Faults =>
                 published' = view /\ \A p \in allocated : durable'[p] = store[p]
  <1>1. PICK failed \in SUBSET (allocated \cup {0}) :
           /\ failed # {} => "flushAll" \in Faults
           /\ durable' = [p \in DataPages |-> IF p \in allocated \ failed THEN store[p]
                                              ELSE durable[p]]
           /\ published' = IF 0 \in failed THEN published ELSE view
    BY DEF FlushAllPages
  <1>2. published' \in Catalogs /\ durable' \in [DataPages -> Contents]
    BY <1>1 DEF LiveInv, TypeInv
  <1>3. \A p \in allocated : durable'[p] \in {store[p], durable[p]}
    BY <1>1 DEF LiveInv, TypeInv
  <1>4. ASSUME "flushAll" \notin Faults
        PROVE  published' = view /\ \A p \in allocated : durable'[p] = store[p]
    BY <1>1, <1>4 DEF LiveInv, TypeInv
  <1>5. QED
    BY <1>2, <1>3, <1>4

\* ExecuteCreateIndex flushes all pages.
LEMMA FlushIndexInv ==
    ASSUME LiveInv, FlushIndex
    PROVE  /\ LiveInv' /\ (OwnersInv => OwnersInv')
           /\ FileInv /\ "flushAll" \notin Faults => FileInv'
  <1>1. /\ call.at = "build" /\ call' = [call EXCEPT !.at = "publishIndex"]
        /\ UNCHANGED <<catalog, ready, poolPart, restarts>> /\ FlushAllPages
    BY DEF FlushIndex
  <1>2. /\ published' \in Catalogs /\ durable' \in [DataPages -> Contents]
        /\ \A p \in allocated : durable'[p] \in {store[p], durable[p]}
        /\ "flushAll" \notin Faults =>
              published' = view /\ \A p \in allocated : durable'[p] = store[p]
    BY <1>1, FlushAllFacts
  <1>3. Reserved \subseteq allocated
    BY ReservedFacts
  <1>4. FileInv => published = view
    BY DEF FileInv
  <1>5. QED
    BY <1>1, <1>2, <1>3, <1>4, FlushedInv

-----------------------------------------------------------------------------
(* Publication.                                                            *)

(* p is a page of the objects called n.                                    *)
OwnedBy(c, s, n, p) == \/ p = c.tables[n] \/ p = c.indexes[n]
                       \/ c.indexes[n] # None /\ p = s[c.indexes[n]].bucket

\* The catalog with the new object is sound, and owns what was reserved.
LEMMA ExtendedFacts ==
    ASSUME LiveInv, Publishing
    PROVE  /\ Extended \in Catalogs /\ Sound(Extended, store)
           /\ PagesOf(Extended, store) = PagesOf(catalog, store) \cup Reserved
           /\ \A n \in Names : Extended.indexes[n] # None => Extended.tables[n] # None
  <1>1. /\ catalog \in Catalogs /\ call.name \in Names /\ call.page \in Refs
        /\ call.page # None /\ call.page \notin PagesOf(catalog, store)
        /\ store[call.page].bucket = call.bucket /\ call.at # "idle"
        /\ call.bucket # None => store[call.bucket].kind = "bucket"
        /\ Reserved = {call.page, call.bucket} \ {None}
    BY RefFacts DEF LiveInv, TypeInv, CallInv, Calls, Publishing, Reserved
  <1>2. ObjectsInv
    BY DEF LiveInv
  <1>3. CASE call.at = "publishTable"
    <2>1. /\ store[call.page].kind = "table" /\ call.bucket = None
          /\ catalog.tables[call.name] = None
      BY <1>3 DEF LiveInv, CallInv
    <2>2. Extended = [catalog EXCEPT !.tables[call.name] = call.page]
      BY <1>3 DEF Extended
    <2>3. /\ Extended \in Catalogs /\ Extended.indexes = catalog.indexes
          /\ Extended.tables = [catalog.tables EXCEPT ![call.name] = call.page]
      BY <1>1, <2>2 DEF Catalogs, Refs
    <2>4. /\ Extended.tables[call.name] = call.page
          /\ \A n \in Names \ {call.name} : Extended.tables[n] = catalog.tables[n]
      BY <1>1, <2>3 DEF Catalogs
    <2>5. \A n \in Names : catalog.tables[n] # call.page
      BY <1>1, PagesFacts
    <2>6. Sound(Extended, store)
      BY <1>2, <2>1, <2>3, <2>4, <2>5 DEF Sound, ObjectsInv
    <2>7. PagesOf(Extended, store) = PagesOf(catalog, store) \cup Reserved
      <3>1. Reserved = {call.page}
        BY <1>1, <2>1
      <3>2. ASSUME NEW p
            PROVE  p \in PagesOf(Extended, store)
                      <=> p \in PagesOf(catalog, store) \/ p = call.page
        <4>1. p \in PagesOf(Extended, store) <=>
                 p # None /\ \E n \in Names : OwnedBy(Extended, store, n, p)
          BY PagesFacts DEF OwnedBy
        <4>2. p \in PagesOf(catalog, store) <=>
                 p # None /\ \E n \in Names : OwnedBy(catalog, store, n, p)
          BY PagesFacts DEF OwnedBy
        <4>3. \A n \in Names \ {call.name} :
                 OwnedBy(Extended, store, n, p) <=> OwnedBy(catalog, store, n, p)
          BY <2>3, <2>4 DEF OwnedBy
        <4>4. p # None =>
                 (OwnedBy(Extended, store, call.name, p)
                    <=> OwnedBy(catalog, store, call.name, p) \/ p = call.page)
          BY <2>1, <2>3, <2>4 DEF OwnedBy
        <4>5. QED
          BY <1>1, <4>1, <4>2, <4>3, <4>4
      <3>3. QED
        BY <3>1, <3>2
    <2>8. \A n \in Names : Extended.indexes[n] # None => Extended.tables[n] # None
      BY <1>1, <1>2, <2>3, <2>4 DEF ObjectsInv
    <2>9. QED
      BY <2>3, <2>6, <2>7, <2>8
  <1>4. CASE call.at = "publishIndex"
    <2>1. /\ store[call.page].kind = "header"
          /\ catalog.tables[call.name] # None /\ catalog.indexes[call.name] = None
      BY <1>4 DEF LiveInv, CallInv
    <2>2. Extended = [catalog EXCEPT !.indexes[call.name] = call.page]
      BY <1>4 DEF Extended
    <2>3. /\ Extended \in Catalogs /\ Extended.tables = catalog.tables
          /\ Extended.indexes = [catalog.indexes EXCEPT ![call.name] = call.page]
      BY <1>1, <2>2 DEF Catalogs, Refs
    <2>4. /\ Extended.indexes[call.name] = call.page
          /\ \A n \in Names \ {call.name} : Extended.indexes[n] = catalog.indexes[n]
      BY <1>1, <2>3 DEF Catalogs
    <2>5. \A n \in Names : catalog.indexes[n] # call.page
      BY <1>1, PagesFacts
    <2>6. Sound(Extended, store)
      <3>1. \A n \in Names : Extended.indexes[n] # None =>
               /\ store[Extended.indexes[n]].kind = "header"
               /\ LET b == store[Extended.indexes[n]].bucket
                  IN b # None => store[b].kind = "bucket"
        BY <1>1, <1>2, <2>1, <2>4 DEF Sound, ObjectsInv
      <3>2. \A m, n \in Names : m # n =>
               /\ Extended.tables[m] # None => Extended.tables[m] # Extended.tables[n]
               /\ Extended.indexes[m] # None => Extended.indexes[m] # Extended.indexes[n]
        BY <1>1, <1>2, <2>3, <2>4, <2>5 DEF Sound, ObjectsInv
      <3>3. QED
        BY <1>2, <2>3, <3>1, <3>2 DEF Sound, ObjectsInv
    <2>7. PagesOf(Extended, store) = PagesOf(catalog, store) \cup Reserved
      <3>1. ASSUME NEW p
            PROVE  p \in PagesOf(Extended, store)
                      <=> \/ p \in PagesOf(catalog, store)
                          \/ p # None /\ (p = call.page \/ p = call.bucket)
        <4>1. p \in PagesOf(Extended, store) <=>
                 p # None /\ \E n \in Names : OwnedBy(Extended, store, n, p)
          BY PagesFacts DEF OwnedBy
        <4>2. p \in PagesOf(catalog, store) <=>
                 p # None /\ \E n \in Names : OwnedBy(catalog, store, n, p)
          BY PagesFacts DEF OwnedBy
        <4>3. \A n \in Names \ {call.name} :
                 OwnedBy(Extended, store, n, p) <=> OwnedBy(catalog, store, n, p)
          BY <2>3, <2>4 DEF OwnedBy
        <4>4. p # None =>
                 (OwnedBy(Extended, store, call.name, p)
                    <=> OwnedBy(catalog, store, call.name, p)
                           \/ p = call.page \/ p = call.bucket)
          BY <1>1, <2>1, <2>3, <2>4 DEF OwnedBy
        <4>5. QED
          BY <1>1, <4>1, <4>2, <4>3, <4>4
      <3>2. QED
        BY <1>1, <3>1
    <2>8. \A n \in Names : Extended.indexes[n] # None => Extended.tables[n] # None
      BY <1>2, <2>1, <2>3, <2>4 DEF ObjectsInv
    <2>9. QED
      BY <2>3, <2>6, <2>7, <2>8
  <1>5. QED
    BY <1>3, <1>4 DEF Publishing

\* Persist publishes the object.
LEMMA PersistInv ==
    ASSUME LiveInv, Persist
    PROVE  LiveInv' /\ (FileInv => FileInv') /\ (OwnersInv => OwnersInv')
  <1>1. /\ Publishing /\ catalog' = Extended /\ view' = Extended /\ published' = Extended
        /\ call' = Idle /\ UNCHANGED <<ready, store, durable, allocated, restarts>>
    BY DEF Persist
  <1>2. /\ Extended \in Catalogs /\ Sound(Extended, store)
        /\ PagesOf(Extended, store) = PagesOf(catalog, store) \cup Reserved
        /\ \A n \in Names : Extended.indexes[n] # None => Extended.tables[n] # None
    BY <1>1, ExtendedFacts
  <1>3. /\ Idle \in Calls /\ Idle.at = "idle" /\ Idle.page = None /\ Idle.bucket = None
        /\ Reserved \subseteq allocated
    BY ReservedFacts
  <1>4. TypeInv'
    BY <1>1, <1>2, <1>3 DEF LiveInv, TypeInv
  <1>5. ObjectsInv'
    BY <1>1, <1>2, <1>3 DEF LiveInv, ObjectsInv
  <1>6. CallInv'
    BY <1>1, <1>3 DEF CallInv
  <1>7. PagesOf(catalog, store)' = PagesOf(catalog, store) \cup Reserved /\ Reserved' = {}
    BY <1>1, <1>2, <1>3 DEF Reserved
  <1>8. FileInv => FileInv'
    BY <1>1, <1>3, <1>7 DEF FileInv, Publishing
  <1>9. OwnersInv => OwnersInv'
    BY <1>1, <1>7 DEF OwnersInv
  <1>10. QED
    BY <1>4, <1>5, <1>6, <1>8, <1>9 DEF LiveInv

-----------------------------------------------------------------------------
(* The pool and the process.                                               *)

\* The pool writes a page back.
LEMMA EvictInv ==
    ASSUME LiveInv, EvictData \/ EvictCatalog
    PROVE  LiveInv' /\ (FileInv => FileInv') /\ (OwnersInv => OwnersInv')
  <1>1. CASE EvictData
    <2>1. PICK p \in allocated : durable' = [durable EXCEPT ![p] = store[p]]
      BY <1>1 DEF EvictData
    <2>2. UNCHANGED <<catalog, ready, view, store, allocated, published, call, restarts>>
      BY <1>1 DEF EvictData, poolPart
    <2>3. durable' \in [DataPages -> Contents]
      BY <2>1 DEF LiveInv, TypeInv
    <2>4. TypeInv' /\ ObjectsInv' /\ CallInv'
      BY <2>2, <2>3 DEF LiveInv, TypeInv, ObjectsInv, CallInv
    <2>5. PagesOf(catalog, store)' = PagesOf(catalog, store) /\ Reserved' = Reserved
      BY <2>2 DEF Reserved
    <2>6. \A q : durable'[q] = store[q] \/ durable'[q] = durable[q] \/ q \notin DataPages
      BY <2>1 DEF LiveInv, TypeInv
    <2>7. FileInv => FileInv'
      <3>1. Reserved \subseteq DataPages /\ PagesOf(catalog, store) \subseteq DataPages
        BY ReservedFacts DEF LiveInv, TypeInv, ObjectsInv
      <3>2. QED
        BY <2>2, <2>5, <2>6, <3>1 DEF FileInv, Publishing
    <2>8. QED
      BY <2>2, <2>4, <2>5, <2>7 DEF LiveInv, OwnersInv
  <1>2. CASE EvictCatalog
    <2>1. /\ UNCHANGED <<catalog, ready, view, store, allocated, durable, call, restarts>>
          /\ published' = view
      BY <1>2 DEF EvictCatalog, poolPart
    <2>2. TypeInv' /\ ObjectsInv' /\ CallInv'
      BY <2>1 DEF LiveInv, TypeInv, ObjectsInv, CallInv
    <2>3. PagesOf(catalog, store)' = PagesOf(catalog, store) /\ Reserved' = Reserved
      BY <2>1 DEF Reserved
    <2>4. FileInv => FileInv'
      BY <2>1, <2>3 DEF FileInv, Publishing
    <2>5. QED
      BY <2>1, <2>2, <2>3, <2>4 DEF LiveInv, OwnersInv
  <1>3. QED
    BY <1>1, <1>2

\* A file that knows what the program knows is opened again with the same objects.
LEMMA ReopenInv ==
    ASSUME LiveInv, FileInv, Reopen, published' = catalog,
           durable' \in [DataPages -> Contents],
           \A p \in PagesOf(catalog, store) : durable'[p] = store[p]
    PROVE  LiveInv' /\ FileInv'
  <1>1. /\ restarts < MaxRestarts /\ restarts' = restarts + 1
        /\ store' = durable' /\ view' = catalog
        /\ allocated' = {p \in DataPages : durable'[p] # Zero}
        /\ ready' = Loadable(catalog, durable')
        /\ catalog' = IF ready' THEN catalog ELSE EmptyCatalog
        /\ call' = Idle
    BY DEF Reopen
  <1>2. /\ PagesOf(catalog, durable') = PagesOf(catalog, store)
        /\ Sound(catalog, durable')
    BY SameObjects DEF LiveInv, ObjectsInv
  <1>3. Loadable(catalog, durable')
    BY <1>2 DEF LiveInv, ObjectsInv, Loadable, Sound
  <1>4. ready' /\ catalog' = catalog
    BY <1>1, <1>3
  <1>5. /\ Idle \in Calls /\ Idle.at = "idle" /\ Idle.page = None /\ Idle.bucket = None
    BY ReservedFacts
  <1>6. TypeInv'
    <2>1. restarts' \in 0 .. MaxRestarts
      BY <1>1, DDLAssumption DEF LiveInv, TypeInv
    <2>2. QED
      BY <1>1, <1>4, <1>5, <2>1 DEF LiveInv, TypeInv
  <1>7. PagesOf(catalog, durable') \subseteq allocated'
    <2>1. ASSUME NEW p \in PagesOf(catalog, durable') PROVE durable'[p] # Zero
      <3>1. durable'[p].kind \in {"table", "header", "bucket"}
        BY <1>2, PagesFacts DEF Sound
      <3>2. QED
        BY <3>1, FieldFacts
    <2>2. PagesOf(catalog, durable') \subseteq DataPages
      BY <1>2 DEF LiveInv, ObjectsInv, TypeInv
    <2>3. QED
      BY <1>1, <2>1, <2>2
  <1>8. ObjectsInv'
    BY <1>1, <1>2, <1>4, <1>7 DEF LiveInv, ObjectsInv
  <1>9. CallInv'
    BY <1>1, <1>5 DEF CallInv
  <1>10. FileInv'
    BY <1>1, <1>4, <1>5 DEF FileInv, Publishing
  <1>11. QED
    BY <1>6, <1>8, <1>9, <1>10 DEF LiveInv

\* A shutdown or a crash, at any point of a statement.
LEMMA RestartInv ==
    ASSUME LiveInv, FileInv, "flushAll" \notin Faults, Shutdown \/ Crash
    PROVE  LiveInv' /\ FileInv'
  <1>1. published = catalog /\ view = catalog /\ PagesOf(catalog, store) \subseteq allocated
    BY DEF FileInv, LiveInv, ObjectsInv
  <1>2. CASE Shutdown
    <2>1. Reopen /\ FlushAllPages
      BY <1>2 DEF Shutdown
    <2>2. /\ published' = view /\ durable' \in [DataPages -> Contents]
          /\ \A p \in allocated : durable'[p] = store[p]
      BY <2>1, FlushAllFacts
    <2>3. QED
      BY <1>1, <2>1, <2>2, ReopenInv
  <1>3. CASE Crash
    <2>1. Reopen /\ published' = published /\ durable' = durable
      BY <1>3 DEF Crash, filePart
    <2>2. durable \in [DataPages -> Contents]
      BY DEF LiveInv, TypeInv
    <2>3. \A p \in PagesOf(catalog, store) : durable[p] = store[p]
      BY DEF FileInv
    <2>4. QED
      BY <1>1, <2>1, <2>2, <2>3, ReopenInv
  <1>4. QED
    BY <1>2, <1>3

-----------------------------------------------------------------------------
(* Initially and in every step.                                            *)

LEMMA InitFacts == DDLInit => LiveInv /\ FileInv /\ OwnersInv
  <1>1. SUFFICES ASSUME DDLInit PROVE LiveInv /\ FileInv /\ OwnersInv
    OBVIOUS
  <1>2. /\ catalog = EmptyCatalog /\ view = EmptyCatalog /\ published = EmptyCatalog
        /\ ready = TRUE /\ restarts = 0 /\ call = Idle /\ allocated = {}
        /\ store = [p \in DataPages |-> Zero] /\ durable = [p \in DataPages |-> Zero]
    BY <1>1 DEF DDLInit
  <1>3. /\ EmptyCatalog \in Catalogs
        /\ \A n \in Names : EmptyCatalog.tables[n] = None /\ EmptyCatalog.indexes[n] = None
    BY RefFacts DEF EmptyCatalog, Catalogs, Refs
  <1>4. /\ Idle \in Calls /\ Idle.at = "idle" /\ Idle.page = None /\ Idle.bucket = None
    <2>1. (CHOOSE n \in Names : TRUE) \in Names
      BY DDLAssumption
    <2>2. QED
      BY <2>1, RefFacts DEF Idle, Calls
  <1>5. 0 \in 0 .. MaxRestarts
    BY DDLAssumption
  <1>6. TypeInv
    BY <1>2, <1>3, <1>4, <1>5, FieldFacts DEF TypeInv
  <1>7. PagesOf(catalog, store) = {} /\ Reserved = {}
    BY <1>2, <1>3, <1>4, PagesFacts DEF Reserved
  <1>8. Sound(catalog, store)
    BY <1>2, <1>3 DEF Sound
  <1>9. ObjectsInv
    BY <1>2, <1>3, <1>7, <1>8 DEF ObjectsInv
  <1>10. CallInv
    BY <1>2, <1>4 DEF CallInv
  <1>11. FileInv
    BY <1>2, <1>4, <1>7 DEF FileInv, Publishing
  <1>12. OwnersInv
    BY <1>2, <1>7 DEF OwnersInv
  <1>13. QED
    BY <1>6, <1>9, <1>10, <1>11, <1>12 DEF LiveInv

\* Every step within a session keeps the live objects sound.
LEMMA SessionStep ==
    ASSUME LiveInv, [DDLNext]_ddlVars, ~Shutdown, ~Crash
    PROVE  /\ LiveInv'
           /\ FileInv /\ Faults \subseteq {"data", "delete"} => FileInv'
           /\ OwnersInv /\ "delete" \notin Faults => OwnersInv'
  <1>1. CASE UNCHANGED ddlVars
    <2>1. UNCHANGED <<catalog, ready, view, published, store, durable, allocated, call, restarts>>
      BY <1>1 DEF ddlVars
    <2>2. TypeInv' /\ ObjectsInv' /\ CallInv'
      BY <2>1 DEF LiveInv, TypeInv, ObjectsInv, CallInv
    <2>3. PagesOf(catalog, store)' = PagesOf(catalog, store) /\ Reserved' = Reserved
      BY <2>1 DEF Reserved
    <2>4. QED
      BY <2>1, <2>2, <2>3 DEF LiveInv, FileInv, OwnersInv, Publishing
  <1>2. CASE \E n \in Names : CallCreateTable(n) \/ CallCreateIndex(n)
    BY <1>2, CreateInv
  <1>3. CASE FlushFirstPage \/ BuildBucket \/ Persist \/ EvictData \/ EvictCatalog
    BY <1>3, FlushFirstPageInv, BuildBucketInv, PersistInv, EvictInv
  <1>4. CASE FlushIndex
    BY <1>4, FlushIndexInv
  <1>5. CASE FlushFirstPageFails \/ BuildFails \/ PersistRefused
    <2>1. GiveUp /\ view' = view
      BY <1>5 DEF FlushFirstPageFails, BuildFails, PersistRefused
    <2>2. view' \in Catalogs
      BY <2>1 DEF LiveInv, TypeInv
    <2>3. QED
      BY <2>1, <2>2, GiveUpInv
  <1>6. CASE PersistFlushFails
    <2>1. GiveUp /\ view' = Extended /\ Publishing /\ "catalog" \in Faults
      BY <1>6 DEF PersistFlushFails
    <2>2. view' \in Catalogs
      BY <2>1, ExtendedFacts
    <2>3. ~(Faults \subseteq {"data", "delete"})
      BY <2>1
    <2>4. QED
      BY <2>1, <2>2, <2>3, GiveUpInv
  <1>7. QED
    BY <1>1, <1>2, <1>3, <1>4, <1>5, <1>6 DEF DDLNext

\* LiveInv says of the live objects what LiveObjectsSound says.
LEMMA LiveSuffices == LiveInv => LiveObjectsSound
  <1>1. SUFFICES ASSUME LiveInv PROVE LiveObjectsSound
    OBVIOUS
  <1>2. /\ call.at \in {"idle", "flush", "build", "publishTable", "publishIndex"}
        /\ call.name \in Names /\ call.bucket \in 0 .. MaxPages - 1
    BY <1>1 DEF LiveInv, TypeInv, Calls, Refs
  <1>3. IF call.at = "idle" THEN call = Idle ELSE call.page \in DataPages
    BY <1>1 DEF LiveInv, CallInv, TypeInv
  <1>4. DDLTypeOK
    BY <1>1, <1>2, <1>3 DEF LiveInv, TypeInv, DDLTypeOK
  <1>5. QED
    BY <1>1, <1>4 DEF LiveObjectsSound, LiveInv, ObjectsInv, PagesOf

-----------------------------------------------------------------------------
(* The theorems.                                                           *)

\* Across restarts, when FlushAllPages and the write of page 0 do not fail.
LEMMA FileInvariance ==
    ASSUME Faults \subseteq {"data", "delete"}
    PROVE  DDLSpec => [](LiveInv /\ FileInv)
  <1>1. LiveInv /\ FileInv /\ [DDLNext]_ddlVars => (LiveInv /\ FileInv)'
    <2>1. SUFFICES ASSUME LiveInv, FileInv, [DDLNext]_ddlVars PROVE (LiveInv /\ FileInv)'
      OBVIOUS
    <2>2. CASE Shutdown \/ Crash
      <3>1. "flushAll" \notin Faults
        OBVIOUS
      <3>2. QED
        BY <2>1, <2>2, <3>1, RestartInv
    <2>3. CASE ~Shutdown /\ ~Crash
      BY <2>1, <2>3, SessionStep
    <2>4. QED
      BY <2>2, <2>3
  <1>2. QED
    BY <1>1, InitFacts, PTL DEF DDLSpec

\* "Pages first, then metadata": when no write of FlushAllPages and no write of
\* the catalog page fails, whatever else does, the catalog page in the file names
\* only objects whose pages are in the file, at every point where the process may
\* die.
THEOREM CreationOrder ==
    ASSUME Faults \subseteq {"data", "delete"}
    PROVE  DDLSpec => []PublishedObjectsSound
  <1>1. LiveInv /\ FileInv => PublishedObjectsSound
    BY SameObjects DEF LiveInv, ObjectsInv, FileInv, PublishedObjectsSound
  <1>2. QED
    BY <1>1, FileInvariance, PTL

\* Under the same faults a CREATE TABLE or CREATE INDEX that reported an error
\* leaves no object in the catalog page for a restart to find.
THEOREM FailuresLeaveNothing ==
    ASSUME Faults \subseteq {"data", "delete"}
    PROVE  DDLSpec => []FailedCreationLeavesNothing
  <1>1. LiveInv /\ FileInv => FailedCreationLeavesNothing
    BY DEF FileInv, FailedCreationLeavesNothing
  <1>2. QED
    BY <1>1, FileInvariance, PTL

\* The destructor and the crash are the only steps that leave a session.
LEMMA NoRestart ==
    ASSUME MaxRestarts = 0, TypeInv
    PROVE  ~Shutdown /\ ~Crash
  <1>1. ~(restarts < MaxRestarts)
    BY DEF TypeInv
  <1>2. QED
    BY <1>1 DEF Shutdown, Crash, Reopen

\* Within a session, whatever write fails, the objects the program knows have
\* their pages, reserved and with the contents the statement gave them.
THEOREM SessionSound ==
    ASSUME MaxRestarts = 0
    PROVE  DDLSpec => []LiveObjectsSound
  <1>1. LiveInv /\ [DDLNext]_ddlVars => LiveInv'
    BY NoRestart, SessionStep DEF LiveInv
  <1>2. QED
    BY <1>1, LiveSuffices, InitFacts, PTL DEF DDLSpec

\* Within a session, whatever write fails, a creation that failed has left no
\* page behind, as long as DeletePage can give the pages back.
THEOREM FailuresLeaveNoPages ==
    ASSUME MaxRestarts = 0, "delete" \notin Faults
    PROVE  DDLSpec => []NoOrphans
  <1>1. LiveInv /\ OwnersInv /\ [DDLNext]_ddlVars => (LiveInv /\ OwnersInv)'
    <2>1. SUFFICES ASSUME LiveInv, OwnersInv, [DDLNext]_ddlVars PROVE (LiveInv /\ OwnersInv)'
      OBVIOUS
    <2>2. ~Shutdown /\ ~Crash
      BY <2>1, NoRestart DEF LiveInv
    <2>3. QED
      BY <2>1, <2>2, SessionStep
  <1>2. LiveInv /\ OwnersInv => NoOrphans
    BY ReservedFacts DEF OwnersInv, PagesOf, NoOrphans
  <1>3. QED
    BY <1>1, <1>2, InitFacts, PTL DEF DDLSpec
=============================================================================
