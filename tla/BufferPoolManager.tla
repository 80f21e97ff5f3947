-------------------------- MODULE BufferPoolManager --------------------------
(***************************************************************************)
(* The buffer pool (src/src/buffer/buffer_pool_manager.cpp) over the       *)
(* replacer and the disk manager, together with the code that uses it.     *)
(*                                                                         *)
(* Every public method holds latch_ from start to end and is one step; its *)
(* outcomes (hit, miss into a free frame, miss with eviction, each failing *)
(* I/O call) are one action each.  A call that returns without changing    *)
(* anything (no frame available, unknown page, pinned page deleted) is a   *)
(* stuttering step and has no action.  Between calls a client writes into  *)
(* the pages it has pinned, and the program may stop or be killed and      *)
(* start again on the same file.                                           *)
(*                                                                         *)
(* The users of the pool keep three rules, which are guards here: a page   *)
(* is touched only while pinned, a page that was modified is unpinned with *)
(* is_dirty = true, and a free page is never fetched (page ids come from   *)
(* NewPage and from pages in use).                                         *)
(***************************************************************************)
EXTENDS ClockReplacer, DiskManager, Sequences

CONSTANT MaxPins   \* bound on the pin count of a page

ASSUME MaxPinsAssumption == MaxPins \in Nat \ {0}

VARIABLES pages,       \* pages_: what each frame holds
          page_table,  \* page_table_: frame of each resident page
          free_list,   \* free_list_: frames that hold no page
          unflagged    \* pages a client has modified and not yet marked dirty

vars == <<replacer, disk, pages, page_table, free_list, unflagged>>

INVALID_PAGE_ID == -1
INVALID_FRAME_ID == -1

PageType == [page_id : PageIds \cup {INVALID_PAGE_ID},
             pin_count : 0 .. MaxPins,
             is_dirty : BOOLEAN,
             data : Data]

PageOf(page_id, pin_count, is_dirty, data) ==
    [page_id |-> page_id, pin_count |-> pin_count,
     is_dirty |-> is_dirty, data |-> data]

(* Page::ResetMemory *)
EmptyPage == PageOf(INVALID_PAGE_ID, 0, FALSE, Zero)

Resident(p) == page_table[p] # INVALID_FRAME_ID
Frame(p) == pages[page_table[p]]

(* The frame of resident page p gets new values.                           *)
Update(p, pin_count, is_dirty, data) ==
    pages' = [pages EXCEPT ![page_table[p]] =
                 PageOf(Frame(p).page_id, pin_count, is_dirty, data)]

-----------------------------------------------------------------------------
(* Taking a frame.                                                         *)

(* free_list_ is not empty: its front, without any eviction.               *)
FreeFrame(f) == free_list # <<>> /\ f = Head(free_list)

(* Otherwise the replacer's victim.                                        *)
VictimFrame(f) == free_list = <<>> /\ IsVictim(replacer, f)

(* The victim could not be used: it goes back to the replacer.             *)
BugGiveBack(f) == replacer' = AfterVictim(replacer, f)
GiveBack(f) == replacer' = Unpin(AfterVictim(replacer, f), f)

(* The frame's page on disk, after a successful write-back if it is dirty. *)
BugWrittenBack(f) == disk
WrittenBack(f) == IF pages[f].is_dirty
                  THEN WritePage(disk, pages[f].page_id, pages[f].data)
                  ELSE disk

(* Page p, with content v, takes over frame f, pinned once.                *)
Install(f, p, v) ==
    pages' = [pages EXCEPT ![f] = PageOf(p, 1, FALSE, v)]

(* page_table_ when p moves into the frame that another page leaves.       *)
BugRemapped(f, p) == [page_table EXCEPT ![p] = f]
Remapped(f, p) == [page_table EXCEPT ![pages[f].page_id] = INVALID_FRAME_ID,
                                     ![p] = f]

-----------------------------------------------------------------------------
(* FetchPage *)

BugFetchPageHit(p) ==
    /\ Resident(p) /\ Frame(p).pin_count < MaxPins
    /\ Update(p, Frame(p).pin_count + 1, Frame(p).is_dirty, Frame(p).data)
    /\ UNCHANGED <<replacer, disk, page_table, free_list, unflagged>>
FetchPageHit(p) ==
    /\ Resident(p) /\ Frame(p).pin_count < MaxPins
    /\ Update(p, Frame(p).pin_count + 1, Frame(p).is_dirty, Frame(p).data)
    /\ replacer' = Pin(replacer, page_table[p])
    /\ UNCHANGED <<disk, page_table, free_list, unflagged>>

(* A miss; rule of the clients: the page is not a free one.                *)
Miss(p) == ~Resident(p) /\ p \notin disk.free_pages

FetchPageIntoFreeFrame(p, f) ==
    /\ Miss(p) /\ FreeFrame(f) /\ Exists(disk, p)
    /\ Install(f, p, disk.file[p])
    /\ page_table' = [page_table EXCEPT ![p] = f]
    /\ replacer' = Pin(replacer, f)
    /\ free_list' = Tail(free_list)
    /\ UNCHANGED <<disk, unflagged>>

FetchPageEvicting(p, f) ==
    /\ Miss(p) /\ VictimFrame(f) /\ Exists(disk, p)
    /\ Install(f, p, disk.file[p])
    /\ page_table' = Remapped(f, p)
    /\ replacer' = Pin(AfterVictim(replacer, f), f)
    /\ disk' = WrittenBack(f)
    /\ UNCHANGED <<free_list, unflagged>>

(* ReadPage fails, because there is no such page or with an I/O error; a   *)
(* free frame was put back in front of free_list_ and nothing has changed. *)
FetchPageReadError(p, f) ==
    /\ Miss(p) /\ VictimFrame(f)
    /\ GiveBack(f)
    /\ UNCHANGED <<disk, pages, page_table, free_list, unflagged>>

FetchPageWriteBackError(p, f) ==
    /\ Miss(p) /\ VictimFrame(f) /\ Exists(disk, p)
    /\ pages[f].is_dirty
    /\ disk' \in FailedWrite(disk, pages[f].page_id, pages[f].data)
    /\ GiveBack(f)
    /\ UNCHANGED <<pages, page_table, free_list, unflagged>>

-----------------------------------------------------------------------------
(* NewPage *)

NewPageIntoFreeFrame(p, f) ==
    /\ FreeFrame(f) /\ IsNextPage(disk, p)
    /\ disk' = AllocatePage(disk, p)
    /\ Install(f, p, Zero)
    /\ page_table' = [page_table EXCEPT ![p] = f]
    /\ replacer' = Pin(replacer, f)
    /\ free_list' = Tail(free_list)
    /\ UNCHANGED unflagged

NewPageEvicting(p, f) ==
    /\ VictimFrame(f) /\ IsNextPage(disk, p)
    /\ disk' = AllocatePage(WrittenBack(f), p)
    /\ Install(f, p, Zero)
    /\ page_table' = Remapped(f, p)
    /\ replacer' = Pin(AfterVictim(replacer, f), f)
    /\ UNCHANGED <<free_list, unflagged>>

NewPageWriteBackError(f) ==
    /\ VictimFrame(f) /\ pages[f].is_dirty
    /\ disk' \in FailedWrite(disk, pages[f].page_id, pages[f].data)
    /\ GiveBack(f)
    /\ UNCHANGED <<pages, page_table, free_list, unflagged>>

(* AllocatePage fails; a victim that was written back stays marked dirty.  *)
NewPageAllocateErrorFree ==
    /\ free_list # <<>>
    /\ disk' \in FailedAllocate(disk)
    /\ UNCHANGED <<replacer, pages, page_table, free_list, unflagged>>

NewPageAllocateErrorVictim(f) ==
    /\ VictimFrame(f)
    /\ disk' \in FailedAllocate(WrittenBack(f))
    /\ GiveBack(f)
    /\ UNCHANGED <<pages, page_table, free_list, unflagged>>

-----------------------------------------------------------------------------
(* UnpinPage; rule of the clients: the last unpin of a page that was       *)
(* modified says so.                                                       *)
BugUnpinPage(p, dirty) ==
    /\ Resident(p) /\ Frame(p).pin_count > 0
    /\ dirty \/ p \notin unflagged \/ Frame(p).pin_count > 1
    /\ Update(p, Frame(p).pin_count - 1, dirty, Frame(p).data)
    /\ replacer' = IF Frame(p).pin_count = 1
                   THEN Unpin(replacer, page_table[p]) ELSE replacer
    /\ unflagged' = IF dirty THEN unflagged \ {p} ELSE unflagged
    /\ UNCHANGED <<disk, page_table, free_list>>
UnpinPage(p, dirty) ==
    /\ Resident(p) /\ Frame(p).pin_count > 0
    /\ dirty \/ p \notin unflagged \/ Frame(p).pin_count > 1
    /\ Update(p, Frame(p).pin_count - 1, Frame(p).is_dirty \/ dirty, Frame(p).data)
    /\ replacer' = IF Frame(p).pin_count = 1
                   THEN Unpin(replacer, page_table[p]) ELSE replacer
    /\ unflagged' = IF dirty THEN unflagged \ {p} ELSE unflagged
    /\ UNCHANGED <<disk, page_table, free_list>>

(* A client writes into a page it holds: directly (SlottedPage, BucketPage *)
(* and the catalog write through GetData), to be reported when unpinning,  *)
(* or marking the page with SetDirty.                                      *)
ClientWrite(p, v) ==
    /\ Resident(p) /\ Frame(p).pin_count > 0 /\ v # Frame(p).data
    /\ Update(p, Frame(p).pin_count, Frame(p).is_dirty, v)
    /\ unflagged' = unflagged \cup {p}
    /\ UNCHANGED <<replacer, disk, page_table, free_list>>

ClientSetDirty(p) ==
    /\ Resident(p) /\ Frame(p).pin_count > 0
    /\ ~Frame(p).is_dirty \/ p \in unflagged
    /\ Update(p, Frame(p).pin_count, TRUE, Frame(p).data)
    /\ unflagged' = unflagged \ {p}
    /\ UNCHANGED <<replacer, disk, page_table, free_list>>

-----------------------------------------------------------------------------
(* FlushPage; a clean page is left alone.                                  *)
FlushPage(p) ==
    /\ Resident(p) /\ Frame(p).is_dirty
    /\ disk' = WritePage(disk, p, Frame(p).data)
    /\ Update(p, Frame(p).pin_count, FALSE, Frame(p).data)
    /\ UNCHANGED <<replacer, page_table, free_list, unflagged>>

FlushPageError(p) ==
    /\ Resident(p) /\ Frame(p).is_dirty
    /\ disk' \in FailedWrite(disk, p, Frame(p).data)
    /\ UNCHANGED <<replacer, pages, page_table, free_list, unflagged>>

(* FlushAllPages: of the dirty pages, those in written reach the file, and *)
(* those in flushed report success; errors are ignored.                    *)
DirtyPages == {p \in PageIds : Resident(p) /\ Frame(p).is_dirty}

FlushedDisk(written) ==
    Disk(disk.num_pages, disk.free_pages,
         [p \in PageIds |-> IF p \in written THEN Frame(p).data ELSE disk.file[p]],
         disk.extent)

FlushAllPages(written, flushed) ==
    /\ flushed \subseteq written /\ written \subseteq DirtyPages
    /\ disk' = FlushedDisk(written)
    /\ pages' = [f \in Frames |->
                  PageOf(pages[f].page_id, pages[f].pin_count,
                         pages[f].is_dirty /\ pages[f].page_id \notin flushed,
                         pages[f].data)]
    /\ UNCHANGED <<replacer, page_table, free_list, unflagged>>

-----------------------------------------------------------------------------
(* DeletePage; rule of the clients: ids are positive.  The frame is freed  *)
(* whether or not the disk manager can free the page.                      *)
Deallocations(p) == {DeallocatePage(disk, p)} \cup FailedDeallocate(disk, p)

DeleteResidentPage(p) ==
    /\ p > HEADER_PAGE_ID /\ Resident(p) /\ Frame(p).pin_count = 0
    /\ disk' \in Deallocations(p)
    /\ replacer' = Pin(replacer, page_table[p])
    /\ pages' = [pages EXCEPT ![page_table[p]] = EmptyPage]
    /\ page_table' = [page_table EXCEPT ![p] = INVALID_FRAME_ID]
    /\ free_list' = Append(free_list, page_table[p])
    /\ UNCHANGED unflagged

DeleteAbsentPage(p) ==
    /\ p > HEADER_PAGE_ID /\ ~Resident(p)
    /\ disk' \in Deallocations(p)
    /\ UNCHANGED <<replacer, pages, page_table, free_list, unflagged>>

-----------------------------------------------------------------------------
(* The program ends and is started again on the same file.  The destructor *)
(* flushes what it can; written = {} is also what a crash leaves.          *)
Restart(written) ==
    /\ written \subseteq DirtyPages
    /\ disk' = OpenDisk(FlushedDisk(written))
    /\ replacer' = NewReplacer
    /\ pages' = [f \in Frames |-> EmptyPage]
    /\ page_table' = [p \in PageIds |-> INVALID_FRAME_ID]
    /\ free_list' = [i \in 1 .. PoolSize |-> i - 1]
    /\ unflagged' = {}

-----------------------------------------------------------------------------
Init ==
    /\ replacer = NewReplacer
    /\ disk = NewDisk
    /\ pages = [f \in Frames |-> EmptyPage]
    /\ page_table = [p \in PageIds |-> INVALID_FRAME_ID]
    /\ free_list = [i \in 1 .. PoolSize |-> i - 1]
    /\ unflagged = {}

Next ==
    \/ \E p \in PageIds :
        \/ FetchPageHit(p)
        \/ \E dirty \in BOOLEAN : UnpinPage(p, dirty)
        \/ \E v \in Data : ClientWrite(p, v)
        \/ ClientSetDirty(p)
        \/ FlushPage(p) \/ FlushPageError(p)
        \/ DeleteResidentPage(p) \/ DeleteAbsentPage(p)
        \/ \E f \in Frames :
            \/ FetchPageIntoFreeFrame(p, f) \/ FetchPageEvicting(p, f)
            \/ FetchPageReadError(p, f) \/ FetchPageWriteBackError(p, f)
            \/ NewPageIntoFreeFrame(p, f) \/ NewPageEvicting(p, f)
    \/ \E f \in Frames : NewPageWriteBackError(f) \/ NewPageAllocateErrorVictim(f)
    \/ NewPageAllocateErrorFree
    \/ \E written \in SUBSET PageIds :
        \/ Restart(written)
        \/ \E flushed \in SUBSET written : FlushAllPages(written, flushed)

Spec == Init /\ [][Next]_vars

-----------------------------------------------------------------------------
(* Properties.                                                             *)

FreeFrames == {free_list[i] : i \in 1 .. Len(free_list)}

\* Types of the pool, the replacer and the disk manager.
TypeOK == /\ replacer \in ReplacerType
          /\ disk \in DiskType
          /\ pages \in [Frames -> PageType]
          /\ page_table \in [PageIds -> Frames \cup {INVALID_FRAME_ID}]
          /\ free_list \in Seq(Frames)
          /\ unflagged \in SUBSET PageIds

\* Every frame is either on the free list, once and empty, or holds exactly
\* the page that page_table_ maps to it.  Each error path of FetchPage and
\* NewPage must hand its frame back where it came from, and each eviction must
\* erase the old mapping.
FramesPartitioned ==
    /\ \A i, j \in 1 .. Len(free_list) : free_list[i] = free_list[j] => i = j
    /\ \A f \in FreeFrames : pages[f] = EmptyPage
    /\ \A f \in Frames \ FreeFrames : /\ pages[f].page_id \in PageIds
                                       /\ page_table[pages[f].page_id] = f
    /\ \A p \in PageIds : Resident(p) => Frame(p).page_id = p

\* "Una página con pin_count > 0 no puede ser expulsada" (defense_guide.md):
\* the replacer offers exactly the frames that hold an unpinned page.
EvictableIffUnpinned ==
    replacer.in_replacer =
        {f \in Frames : pages[f].page_id # INVALID_PAGE_ID /\ pages[f].pin_count = 0}

\* A page that is not marked dirty, and has no modification its client still
\* has to report, is identical to its copy in the file: dropping it without
\* a write-back loses nothing.
CleanMatchesDisk ==
    \A p \in PageIds :
        Resident(p) /\ ~Frame(p).is_dirty /\ p \notin unflagged
            => Frame(p).data = disk.file[p]

\* A modification nobody has reported yet is in a page that is still pinned.
UnflaggedPinned ==
    \A p \in unflagged : Resident(p) /\ Frame(p).pin_count > 0

\* A page on the disk manager's free list is empty in the file and in no
\* frame, so that NewPage never hands out a page that is still cached (one
\* page in two frames) or that shows old contents.
FreePagesUnused ==
    \A p \in disk.free_pages : /\ p \in 1 .. disk.num_pages - 1
                               /\ disk.file[p] = Zero
                               /\ ~Resident(p)

\* Every resident page exists in the file, so that a write-back never extends
\* it; past num_pages_ the file holds at most one page, of zeroes.
FileCoversPool ==
    /\ \A p \in PageIds : Resident(p) => p < disk.num_pages
    /\ \A p \in PageIds : p >= disk.num_pages => disk.file[p] = Zero
    /\ disk.extent \in disk.num_pages .. disk.num_pages + 1

\* No frame is ever lost: as long as one frame is not pinned, FetchPage and
\* NewPage find a frame to use, whatever failed before.
FrameAvailable ==
    (\E f \in Frames : pages[f].pin_count = 0)
        => \E f \in Frames : FreeFrame(f) \/ VictimFrame(f)

(* The pool as a page store: a page is what its frame holds while it is    *)
(* resident, and what the file holds otherwise.                            *)
Contents == [p \in PageIds |-> IF Resident(p) THEN Frame(p).data ELSE disk.file[p]]
PinCounts == [p \in PageIds |-> IF Resident(p) THEN Frame(p).pin_count ELSE 0]
Allocated == (0 .. disk.num_pages - 1) \ disk.free_pages

Store == INSTANCE PageStore
    WITH store <- Contents, durable <- disk.file,
         allocated <- Allocated, pins <- PinCounts

\* Eviction, write-back, failed I/O and frame reuse are invisible: a page
\* changes only when a client writes it, and no page is allocated without
\* being handed to a client ("Así no se filtran páginas en disco",
\* buffer_pool_manager.cpp:239-240).
ImplementsPageStore == Store!StoreSpec
=============================================================================
