----------------------------- MODULE CatalogDDL -----------------------------
(***************************************************************************)
(* CREATE TABLE and CREATE INDEX: QueryExecutor reserves and fills the     *)
(* pages of the new object, makes them durable, and only then lets         *)
(* CatalogManager publish the object in the catalog page, page 0.  On an   *)
(* error it gives the pages back.  The pool below is used as PageStore     *)
(* promises it: pages have a content that the program sees (store, view)   *)
(* and one in the file (durable, published) that catches up when a page is *)
(* flushed or evicted.  Data pages are told apart only by what they were   *)
(* initialised as; an index is its header page and at most one bucket.     *)
(* Faults is the set of things that may go wrong:                          *)
(*   "data"     a flush of a data page, a fetch or an index insertion      *)
(*   "delete"   DeallocatePage, or Destroy before it gets there            *)
(*   "catalog"  the write of page 0 that ends Persist                      *)
(*   "flushAll" some of the writes of FlushAllPages                        *)
(***************************************************************************)
EXTENDS Integers, FiniteSets

CONSTANTS Names,        \* table names; an index is named after its table
          MaxPages,     \* bound: pages of the file
          MaxEntries,   \* entries that fit in the catalog page
          MaxRestarts,  \* bound: restarts
          Faults

ASSUME DDLAssumption == /\ MaxPages \in Nat \ {0} /\ MaxRestarts \in Nat
                        /\ MaxEntries \in Nat /\ Names # {}
                        /\ Faults \subseteq {"data", "delete", "catalog", "flushAll"}

VARIABLES catalog,    \* tables_ and indexes_ of CatalogManager
          ready,      \* initialization_status_ is OK
          view,       \* page 0 as the pool holds it
          published,  \* page 0 in the file
          store,      \* data pages as the pool holds them
          durable,    \* data pages in the file
          allocated,  \* data pages in use
          call,       \* the statement in progress
          restarts

ddlVars == <<catalog, ready, view, published, store, durable, allocated, call, restarts>>
filePart == <<published, durable>>
poolPart == <<view, store, allocated>>

DataPages == 1 .. MaxPages - 1
None == 0
Catalogs == [tables: [Names -> 0 .. MaxPages - 1], indexes: [Names -> 0 .. MaxPages - 1]]
Contents == [kind: {"zero", "table", "header", "bucket"}, bucket: 0 .. MaxPages - 1]
Content(kind, bucket) == [kind |-> kind, bucket |-> bucket]
Zero == Content("zero", None)
EmptyCatalog == [tables |-> [n \in Names |-> None], indexes |-> [n \in Names |-> None]]
Idle == [at |-> "idle", name |-> CHOOSE n \in Names : TRUE, page |-> None, bucket |-> None]

DDLInit == /\ catalog = EmptyCatalog /\ view = EmptyCatalog /\ published = EmptyCatalog
           /\ ready = TRUE /\ restarts = 0 /\ call = Idle /\ allocated = {}
           /\ store = [p \in DataPages |-> Zero] /\ durable = [p \in DataPages |-> Zero]

----------------------------------------------------------------------------
(* Pages.                                                                  *)

(* NewPage, filled by the caller and unpinned dirty.                       *)
NewPage(p, content) == /\ p \in DataPages \ allocated
                       /\ allocated' = allocated \cup {p}
                       /\ store' = [store EXCEPT ![p] = content]

(* DeletePage of every page of S.  A page the file refuses to clear stays  *)
(* reserved; its frame may be gone by then, and the file may hold zeroes.  *)
DeletePages(S) ==
  \E kept \in SUBSET S :
     /\ kept # {} => "delete" \in Faults
     /\ allocated' = allocated \ (S \ kept)
     /\ \E left \in {store, durable, [p \in DataPages |-> Zero]} :
          /\ store' = [p \in DataPages |-> IF p \in kept THEN left[p]
                                           ELSE IF p \in S THEN Zero ELSE store[p]]
          /\ durable' = [p \in DataPages |->
                           IF p \in kept /\ left # store THEN left[p]
                           ELSE IF p \in S \ kept THEN Zero ELSE durable[p]]

(* The pages the statement in progress has reserved.                       *)
Reserved == {call.page, call.bucket} \ {None}

(* The statement ends with an error and its pages are given back.          *)
GiveUp == /\ DeletePages(Reserved)
          /\ call' = Idle
          /\ UNCHANGED <<catalog, ready, published, restarts>>

----------------------------------------------------------------------------
(* CREATE TABLE.                                                           *)

CallCreateTable(n) ==
  /\ call = Idle /\ ready /\ catalog.tables[n] = None
  /\ \E p \in DataPages :
        /\ NewPage(p, Content("table", None))
        /\ call' = [Idle EXCEPT !.at = "flush", !.name = n, !.page = p]
  /\ UNCHANGED <<catalog, ready, view, filePart, restarts>>

BugFlushFirstPage == /\ call.at = "flush"
                     /\ call' = [call EXCEPT !.at = "publishTable"]
                     /\ UNCHANGED <<catalog, ready, poolPart, filePart, restarts>>

(* The first page must reach the file before the catalog names it.         *)
FlushFirstPage == /\ call.at = "flush"
                  /\ durable' = [durable EXCEPT ![call.page] = store[call.page]]
                  /\ call' = [call EXCEPT !.at = "publishTable"]
                  /\ UNCHANGED <<catalog, ready, poolPart, published, restarts>>

FlushFirstPageFails == /\ call.at = "flush" /\ "data" \in Faults
                       /\ GiveUp /\ UNCHANGED view

----------------------------------------------------------------------------
(* CREATE INDEX.                                                           *)

CallCreateIndex(n) ==
  /\ call = Idle /\ ready
  /\ catalog.tables[n] # None /\ catalog.indexes[n] = None
  /\ \E p \in DataPages :
        /\ NewPage(p, Content("header", None))
        /\ call' = [Idle EXCEPT !.at = "build", !.name = n, !.page = p]
  /\ UNCHANGED <<catalog, ready, view, filePart, restarts>>

(* The scan of the table inserts its rows: the first one needs a bucket.   *)
BuildBucket ==
  /\ call.at = "build" /\ call.bucket = None
  /\ \E q \in DataPages \ allocated :
        /\ allocated' = allocated \cup {q}
        /\ store' = [store EXCEPT ![q] = Content("bucket", None), ![call.page].bucket = q]
        /\ call' = [call EXCEPT !.bucket = q]
  /\ UNCHANGED <<catalog, ready, view, filePart, restarts>>

BuildFails == /\ call.at = "build" /\ "data" \in Faults
              /\ GiveUp /\ UNCHANGED view

(* What FlushAllPages leaves in the file: pages whose write failed keep    *)
(* their old contents, and nobody is told.                                 *)
FlushAllPages ==
  \E failed \in SUBSET (allocated \cup {0}) :
     /\ failed # {} => "flushAll" \in Faults
     /\ durable' = [p \in DataPages |-> IF p \in allocated \ failed THEN store[p]
                                        ELSE durable[p]]
     /\ published' = IF 0 \in failed THEN published ELSE view

FlushIndex == /\ call.at = "build"
              /\ FlushAllPages
              /\ call' = [call EXCEPT !.at = "publishIndex"]
              /\ UNCHANGED <<catalog, ready, poolPart, restarts>>

----------------------------------------------------------------------------
(* CatalogManager: CreateTable, CreateIndex, Persist.                      *)

(* The catalog with the new object in it.                                  *)
Extended == IF call.at = "publishTable"
              THEN [catalog EXCEPT !.tables[call.name] = call.page]
              ELSE [catalog EXCEPT !.indexes[call.name] = call.page]

Entries(c) == Cardinality({n \in Names : c.tables[n] # None})
                + Cardinality({n \in Names : c.indexes[n] # None})

Publishing == call.at \in {"publishTable", "publishIndex"}

(* Persist rewrites the whole catalog page and flushes it.                 *)
Persist == /\ Publishing /\ Entries(Extended) <= MaxEntries
           /\ catalog' = Extended /\ view' = Extended /\ published' = Extended
           /\ call' = Idle
           /\ UNCHANGED <<ready, store, durable, allocated, restarts>>

BugPersistRefused == /\ Publishing
                     /\ Entries(Extended) > MaxEntries \/ "data" \in Faults
                     /\ DeletePages(Reserved)
                     /\ call' = Idle /\ catalog' = Extended
                     /\ UNCHANGED <<ready, view, published, restarts>>

(* Persist fails before it touches page 0: the catalog does not fit, or    *)
(* page 0 cannot be fetched.  The entry is erased from memory again.       *)
PersistRefused == /\ Publishing
                  /\ Entries(Extended) > MaxEntries \/ "data" \in Faults
                  /\ GiveUp /\ UNCHANGED view

BugPersistFlushFails == /\ Publishing /\ "catalog" \in Faults
                        /\ Entries(Extended) <= MaxEntries
                        /\ view' = Extended /\ call' = Idle
                        /\ UNCHANGED <<catalog, ready, store, allocated, filePart, restarts>>

(* Persist has rewritten page 0 in the pool, and FlushPage(0) fails with   *)
(* nothing written.  The entry is erased from memory and the pages deleted,*)
(* but page 0 stays in its frame, dirty, with the entry in it.             *)
PersistFlushFails == /\ Publishing /\ "catalog" \in Faults
                     /\ Entries(Extended) <= MaxEntries
                     /\ view' = Extended
                     /\ GiveUp

----------------------------------------------------------------------------
(* The pool writes a page back when it needs the frame.                    *)
EvictData == /\ \E p \in allocated : durable' = [durable EXCEPT ![p] = store[p]]
             /\ durable' # durable
             /\ UNCHANGED <<catalog, ready, poolPart, published, call, restarts>>

EvictCatalog == /\ view # published /\ published' = view
                /\ UNCHANGED <<catalog, ready, poolPart, durable, call, restarts>>

(* Load opens every index the catalog page names; one it cannot open       *)
(* leaves the manager in its error state.                                  *)
Loadable(c, pages) == \A n \in Names : c.indexes[n] # None =>
                         /\ c.tables[n] # None
                         /\ pages[c.indexes[n]].kind = "header"

(* The file is opened again: pages that are all zeroes are free, the rest  *)
(* is in use, and Load reads the catalog page.                             *)
Reopen == /\ restarts < MaxRestarts /\ restarts' = restarts + 1
          /\ store' = durable' /\ view' = published'
          /\ allocated' = {p \in DataPages : durable'[p] # Zero}
          /\ ready' = Loadable(published', durable')
          /\ catalog' = IF ready' THEN published' ELSE EmptyCatalog
          /\ call' = Idle

(* The destructor of the pool flushes what it can, then the program starts *)
(* again.                                                                  *)
Shutdown == call = Idle /\ FlushAllPages /\ Reopen

(* The process dies: only what is in the file is left.                     *)
Crash == UNCHANGED filePart /\ Reopen

DDLNext == \/ \E n \in Names : CallCreateTable(n) \/ CallCreateIndex(n)
           \/ FlushFirstPage \/ FlushFirstPageFails
           \/ BuildBucket \/ BuildFails \/ FlushIndex
           \/ Persist \/ PersistRefused \/ PersistFlushFails
           \/ EvictData \/ EvictCatalog \/ Shutdown \/ Crash

DDLSpec == DDLInit /\ [][DDLNext]_ddlVars

----------------------------------------------------------------------------
(* Types; a statement in progress has reserved its first page.             *)
DDLTypeOK == /\ catalog \in Catalogs /\ view \in Catalogs /\ published \in Catalogs
             /\ ready \in BOOLEAN /\ restarts \in 0 .. MaxRestarts
             /\ store \in [DataPages -> Contents] /\ durable \in [DataPages -> Contents]
             /\ allocated \subseteq DataPages
             /\ call.at \in {"idle", "flush", "build", "publishTable", "publishIndex"}
             /\ call.name \in Names /\ call.bucket \in 0 .. MaxPages - 1
             /\ IF call.at = "idle" THEN call = Idle ELSE call.page \in DataPages

(* The pages a catalog names, one entry per table, header and bucket.      *)
Owned(c, pages) ==
  {c.tables[n] : n \in Names} \cup {c.indexes[n] : n \in Names}
    \cup {pages[c.indexes[n]].bucket : n \in {m \in Names : c.indexes[m] # None}}

(* Every table of c has an initialised first page, every index an          *)
(* initialised header and bucket, and no page is used twice.               *)
Sound(c, pages) ==
  /\ \A n \in Names : c.tables[n] # None => pages[c.tables[n]].kind = "table"
  /\ \A n \in Names : c.indexes[n] # None =>
        /\ pages[c.indexes[n]].kind = "header"
        /\ LET b == pages[c.indexes[n]].bucket IN b # None => pages[b].kind = "bucket"
  /\ \A m, n \in Names : m # n =>
        /\ c.tables[m] # None => c.tables[m] # c.tables[n]
        /\ c.indexes[m] # None => c.indexes[m] # c.indexes[n]

(* The objects the running program knows have their pages, reserved, with  *)
(* the contents the statement gave them, whatever failed on the way        *)
(* (ExecuteCreateTable and ExecuteCreateIndex, CatalogManager::Load).      *)
LiveObjectsSound == /\ DDLTypeOK
                    /\ Sound(catalog, store)
                    /\ Owned(catalog, store) \ {None} \subseteq allocated

(* The objects the catalog page in the file names have their pages in the  *)
(* file: the order "pages first, then metadata" of executor.cpp and        *)
(* architecture.md, at every point where the program may die.              *)
PublishedObjectsSound == Sound(published, durable)

(* Between statements every reserved page belongs to an object: a creation *)
(* that failed left none behind ("se eliminan las paginas reservadas").    *)
NoOrphans == call = Idle => allocated = Owned(catalog, store) \ {None}

(* Between statements the catalog page in the file names exactly the       *)
(* objects the program knows: a creation that reported an error leaves no  *)
(* object to be found after a restart.                                     *)
FailedCreationLeavesNothing == call = Idle /\ ready => published = catalog
=============================================================================
