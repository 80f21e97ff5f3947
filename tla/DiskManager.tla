----------------------------- MODULE DiskManager -----------------------------
(***************************************************************************)
(* The database file and the free list kept over it                        *)
(* (src/src/storage/disk_manager.cpp).  Methods are operators on the state *)
(* record, as in ClockReplacer; BufferPoolManager.tla drives them.         *)
(*                                                                         *)
(* Page contents are abstracted to a set Data with a distinguished all-    *)
(* zero content, because the code tells one thing about contents: a zero   *)
(* page is a free page when the file is opened again.                      *)
(***************************************************************************)
EXTENDS Integers

CONSTANTS MaxPages,  \* bound: pages the device can hold; past it, I/O errors
          Data,      \* contents of a page
          Zero       \* 4096 zero bytes

ASSUME DiskAssumption == MaxPages \in Nat \ {0} /\ Zero \in Data

VARIABLE disk        \* [num_pages, free_pages, file, extent]

PageIds == 0 .. MaxPages - 1
HEADER_PAGE_ID == 0

\* extent is the length of the file in pages.  It exceeds num_pages after an
\* extension that reached the file and still reported an error.
DiskType == [num_pages : 1 .. MaxPages,
             free_pages : SUBSET PageIds,
             file : [PageIds -> Data],
             extent : 1 .. MaxPages]

Disk(num_pages, free_pages, file, extent) ==
    [num_pages |-> num_pages, free_pages |-> free_pages,
     file |-> file, extent |-> extent]

(* The constructor on a missing file: it is created with a header page.    *)
NewDisk == Disk(1, {}, [p \in PageIds |-> Zero], 1)

(* The constructor on an existing file: the free list is not stored, every *)
(* zero page except the header page is taken to be free.                   *)
ZeroPages(d) == {p \in 1 .. d.extent - 1 : d.file[p] = Zero}

OpenDisk(d) == Disk(d.extent, ZeroPages(d), d.file, d.extent)

(* A file of n pages after page p was written.                             *)
Extended(n, p) == IF p = n THEN n + 1 ELSE n

(* What a write leaves in the file, whatever is reported.                  *)
Stored(d, p, v) ==
    Disk(d.num_pages, d.free_pages, [d.file EXCEPT ![p] = v], Extended(d.extent, p))

(* WritePage, successful; p is at most num_pages.                          *)
WritePage(d, p, v) ==
    Disk(Extended(d.num_pages, p), d.free_pages,
         [d.file EXCEPT ![p] = v], Extended(d.extent, p))

(* WritePage, reporting an error: nothing was written, or the page was and *)
(* the error came afterwards (the stream's flush).                         *)
FailedWrite(d, p, v) == {d, Stored(d, p, v)}

(* ReadPage finds a page only below num_pages.                             *)
Exists(d, p) == p < d.num_pages

(* AllocatePage reuses the smallest free page, or extends the file.        *)
IsNextPage(d, p) ==
    /\ p \in PageIds
    /\ \/ d.free_pages = {} /\ p = d.num_pages
       \/ p \in d.free_pages /\ \A q \in d.free_pages : p <= q

AllocatePage(d, p) ==
    Disk(Extended(d.num_pages, p), d.free_pages \ {p},
         [d.file EXCEPT ![p] = Zero], Extended(d.extent, p))

(* On an error the page goes back to the free list; the zeroes may have    *)
(* been written.  A full device (no next page) always fails.               *)
FailedAllocate(d) ==
    {d} \cup {Stored(d, p, Zero) : p \in {q \in PageIds : IsNextPage(d, q)}}

(* DeallocatePage returns early unless the page is in use.                 *)
InUse(d, p) == p \in 1 .. d.num_pages - 1 /\ p \notin d.free_pages

BugDeallocatePage(d, p) ==
    IF InUse(d, p)
    THEN Disk(d.num_pages, d.free_pages \cup {p}, d.file, d.extent)
    ELSE d
DeallocatePage(d, p) ==
    IF InUse(d, p)
    THEN Disk(d.num_pages, d.free_pages \cup {p}, [d.file EXCEPT ![p] = Zero], d.extent)
    ELSE d

(* When the zeroes cannot be written the page stays allocated, silently.   *)
FailedDeallocate(d, p) == IF InUse(d, p) THEN FailedWrite(d, p, Zero) ELSE {d}
=============================================================================
