-------------------------- MODULE BufferPoolProofs --------------------------
(***************************************************************************)
(* Machine-checked proofs about BufferPoolManager, for every pool size,    *)
(* device size, set of contents and bound on pins, and about the loops of  *)
(* its replacer (ClockSweep), for every pool size.                         *)
(***************************************************************************)
EXTENDS BufferPoolManager, ClockSweep, WellFoundedInduction, TLAPS

(* The inductive invariant.  FramesPartitioned is not inductive alone: an  *)
(* eviction needs to know that the victim holds an unpinned page           *)
(* (EvictableIffUnpinned); NewPage must not re-map a resident page, which  *)
(* takes FreePagesUnused and FileCoversPool; and a clean eviction keeps    *)
(* CleanMatchesDisk only because unreported changes are in pinned pages.   *)
PoolInv == TypeOK /\ FramesPartitioned /\ EvictableIffUnpinned
DataInv == /\ CleanMatchesDisk /\ UnflaggedPinned
           /\ FreePagesUnused /\ FileCoversPool
IInv == PoolInv /\ DataInv

-----------------------------------------------------------------------------
(* The replacer.                                                           *)

\* Pin takes the frame out of the replacer and keeps the types.
LEMMA PinFacts ==
    ASSUME NEW r \in ReplacerType, NEW f \in Frames
    PROVE  /\ Pin(r, f) \in ReplacerType
           /\ Pin(r, f).in_replacer = r.in_replacer \ {f}
  BY DEF Pin, ReplacerType

\* Unpin adds the frame to the replacer and keeps the types.
LEMMA UnpinFacts ==
    ASSUME NEW r \in ReplacerType, NEW f \in Frames
    PROVE  /\ Unpin(r, f) \in ReplacerType
           /\ Unpin(r, f).in_replacer = r.in_replacer \cup {f}
  BY DEF Unpin, ReplacerType

\* Victim removes exactly the frame it returns, which was in the replacer.
LEMMA VictimFacts ==
    ASSUME NEW r \in ReplacerType, NEW f \in Frames, IsVictim(r, f)
    PROVE  /\ AfterVictim(r, f) \in ReplacerType
           /\ AfterVictim(r, f).in_replacer = r.in_replacer \ {f}
           /\ f \in r.in_replacer
  <1>1. f \in r.in_replacer
    BY DEF IsVictim, Candidates, ReplacerType
  <1>2. (IF f = PoolSize - 1 THEN 0 ELSE f + 1) \in Frames
    BY PoolSizeAssumption DEF Frames
  <1>3. QED
    BY <1>1, <1>2 DEF AfterVictim, ReplacerType

\* Handing a victim back leaves the set of candidates as it was.
LEMMA GiveBackFacts ==
    ASSUME NEW r \in ReplacerType, NEW f \in Frames, IsVictim(r, f)
    PROVE  /\ Unpin(AfterVictim(r, f), f) \in ReplacerType
           /\ Unpin(AfterVictim(r, f), f).in_replacer = r.in_replacer
  <1> DEFINE q == AfterVictim(r, f)
  <1>1. q \in ReplacerType /\ q.in_replacer = r.in_replacer \ {f} /\ f \in r.in_replacer
    BY VictimFacts
  <1> HIDE DEF q
  <1>2. Unpin(q, f) \in ReplacerType /\ Unpin(q, f).in_replacer = q.in_replacer \cup {f}
    BY <1>1, UnpinFacts
  <1>3. Unpin(q, f).in_replacer = r.in_replacer
    BY <1>1, <1>2
  <1>4. QED
    BY <1>2, <1>3 DEF q

-----------------------------------------------------------------------------
(* The disk manager.                                                       *)

FileWith(d, p, v) ==
    Disk(d.num_pages, d.free_pages, [d.file EXCEPT ![p] = v], d.extent)

\* Writing an existing page changes that page of the file and nothing else,
\* whether the write succeeds, fails, or fails after the data was written.
LEMMA WriteFacts ==
    ASSUME NEW d \in DiskType, NEW p \in PageIds, NEW v \in Data,
           p < d.num_pages, d.num_pages <= d.extent
    PROVE  /\ Stored(d, p, v) = FileWith(d, p, v)
           /\ WritePage(d, p, v) = FileWith(d, p, v)
           /\ FileWith(d, p, v) \in DiskType
           /\ FailedWrite(d, p, v) = {d, FileWith(d, p, v)}
  <1>1. Extended(d.extent, p) = d.extent /\ Extended(d.num_pages, p) = d.num_pages
    BY DEF DiskType, PageIds, Extended
  <1>2. FileWith(d, p, v) \in DiskType
    BY DEF FileWith, Disk, DiskType
  <1>3. QED
    BY <1>1, <1>2 DEF FailedWrite, WritePage, Stored, FileWith

\* AllocatePage takes a page that was free or just past the end: it is not in
\* use before, it is in use and empty afterwards, and no other page changes.
LEMMA AllocateFacts ==
    ASSUME NEW d \in DiskType, NEW p \in PageIds, IsNextPage(d, p),
           d.extent \in d.num_pages .. d.num_pages + 1,
           \A q \in d.free_pages : q \in 1 .. d.num_pages - 1
    PROVE  LET e == AllocatePage(d, p) IN
           /\ e \in DiskType
           /\ e.file = [d.file EXCEPT ![p] = Zero]
           /\ e.free_pages = d.free_pages \ {p}
           /\ p < e.num_pages
           /\ p = d.num_pages \/ p \in d.free_pages
           /\ e.num_pages = IF p = d.num_pages THEN p + 1 ELSE d.num_pages
           /\ e.extent \in e.num_pages .. e.num_pages + 1
  <1>1. /\ d.num_pages \in 1 .. MaxPages /\ d.extent \in 1 .. MaxPages
        /\ p \in 0 .. MaxPages - 1 /\ MaxPages \in Nat
    BY DiskAssumption DEF DiskType, PageIds
  <1>2. p <= d.num_pages /\ (p = d.num_pages \/ p \in d.free_pages)
    BY <1>1 DEF IsNextPage
  <1>3. /\ Extended(d.num_pages, p) \in 1 .. MaxPages
        /\ Extended(d.extent, p) \in 1 .. MaxPages
        /\ Extended(d.extent, p) \in
              Extended(d.num_pages, p) .. Extended(d.num_pages, p) + 1
        /\ p < Extended(d.num_pages, p)
    BY <1>1, <1>2 DEF Extended
  <1>4. AllocatePage(d, p) \in DiskType
    BY <1>3, DiskAssumption DEF AllocatePage, Disk, DiskType
  <1>5. QED
    BY <1>2, <1>3, <1>4 DEF AllocatePage, Disk, Extended

-----------------------------------------------------------------------------
(* The free list.                                                          *)

Injective(s) == \A i, j \in 1 .. Len(s) : s[i] = s[j] => i = j
RangeOf(s) == {s[i] : i \in 1 .. Len(s)}

\* pop_front removes exactly the front frame when no frame occurs twice.
LEMMA PopFacts ==
    ASSUME NEW s \in Seq(Frames), s # <<>>, Injective(s)
    PROVE  /\ Head(s) \in RangeOf(s) /\ Head(s) \in Frames
           /\ Tail(s) \in Seq(Frames) /\ Injective(Tail(s))
           /\ RangeOf(Tail(s)) = RangeOf(s) \ {Head(s)}
  <1>1. /\ Len(s) \in Nat /\ Len(s) > 0 /\ Head(s) = s[1] /\ s[1] \in Frames
        /\ Tail(s) \in Seq(Frames) /\ Len(Tail(s)) = Len(s) - 1
        /\ \A i \in 1 .. Len(Tail(s)) : Tail(s)[i] = s[i + 1]
    OBVIOUS
  <1>2. Injective(Tail(s))
    BY <1>1 DEF Injective
  <1>3. RangeOf(Tail(s)) = RangeOf(s) \ {Head(s)}
    <2>1. ASSUME NEW f \in RangeOf(Tail(s)) PROVE f \in RangeOf(s) \ {Head(s)}
      <3>1. PICK i \in 1 .. Len(Tail(s)) : f = Tail(s)[i]
        BY <2>1 DEF RangeOf
      <3>2. i + 1 \in 1 .. Len(s) /\ f = s[i + 1] /\ i + 1 # 1 /\ 1 \in 1 .. Len(s)
        BY <1>1, <3>1
      <3>3. QED
        BY <1>1, <3>2 DEF RangeOf, Injective
    <2>2. ASSUME NEW f \in RangeOf(s) \ {Head(s)} PROVE f \in RangeOf(Tail(s))
      <3>1. PICK i \in 1 .. Len(s) : f = s[i] /\ i # 1
        BY <1>1, <2>2 DEF RangeOf
      <3>2. i - 1 \in 1 .. Len(Tail(s)) /\ f = Tail(s)[i - 1]
        BY <1>1, <3>1
      <3>3. QED
        BY <3>2 DEF RangeOf
    <2>3. QED
      BY <2>1, <2>2
  <1>4. Head(s) \in RangeOf(s)
    BY <1>1 DEF RangeOf
  <1>5. QED
    BY <1>1, <1>2, <1>3, <1>4

\* push_back adds a frame that was not in the list.
LEMMA PushFacts ==
    ASSUME NEW s \in Seq(Frames), Injective(s), NEW f \in Frames, f \notin RangeOf(s)
    PROVE  /\ Append(s, f) \in Seq(Frames) /\ Injective(Append(s, f))
           /\ RangeOf(Append(s, f)) = RangeOf(s) \cup {f}
  <1>1. /\ Len(s) \in Nat /\ Append(s, f) \in Seq(Frames)
        /\ Len(Append(s, f)) = Len(s) + 1
        /\ \A i \in 1 .. Len(s) : Append(s, f)[i] = s[i]
        /\ Append(s, f)[Len(s) + 1] = f
    OBVIOUS
  <1>2. \A i \in 1 .. Len(s) : s[i] # f
    BY DEF RangeOf
  <1>3. Injective(Append(s, f))
    BY <1>1, <1>2 DEF Injective
  <1>4. RangeOf(Append(s, f)) = RangeOf(s) \cup {f}
    BY <1>1 DEF RangeOf
  <1>5. QED
    BY <1>1, <1>3, <1>4

-----------------------------------------------------------------------------
(* Steps.                                                                  *)

USE DEF INVALID_PAGE_ID, INVALID_FRAME_ID

\* The frame of a resident page gets new values and keeps its page.
LEMMA UpdateFacts ==
    ASSUME PoolInv, NEW p \in PageIds, Resident(p),
           NEW n \in 0 .. MaxPins, NEW b \in BOOLEAN, NEW v \in Data,
           Update(p, n, b, v)
    PROVE  /\ page_table[p] \in Frames \ FreeFrames
           /\ pages' \in [Frames -> PageType]
           /\ pages'[page_table[p]] = PageOf(p, n, b, v)
           /\ \A f \in Frames \ {page_table[p]} : pages'[f] = pages[f]
           /\ \A f \in Frames : pages'[f].page_id = pages[f].page_id
  <1> DEFINE g == page_table[p]
  <1>1. /\ g \in Frames /\ pages[g] \in PageType /\ pages[g].page_id = p
        /\ p # INVALID_PAGE_ID
    BY DEF PoolInv, TypeOK, Resident, FramesPartitioned, Frame, PageIds
  <1>2. g \notin FreeFrames
    BY <1>1 DEF PoolInv, FramesPartitioned, EmptyPage, PageOf
  <1>3. PageOf(p, n, b, v) \in PageType
    BY DEF PageOf, PageType
  <1>4. pages' = [pages EXCEPT ![g] = PageOf(p, n, b, v)]
    BY <1>1 DEF Update, Frame
  <1>5. pages' \in [Frames -> PageType] /\ pages'[g] = PageOf(p, n, b, v)
        /\ \A f \in Frames \ {g} : pages'[f] = pages[f]
    BY <1>1, <1>3, <1>4 DEF PoolInv, TypeOK
  <1>6. PageOf(p, n, b, v).page_id = p
    BY DEF PageOf
  <1>7. QED
    BY <1>1, <1>2, <1>5, <1>6

(* The file after a step holds, for page q, what it held or what the pool  *)
(* holds.                                                                  *)
FileFollows(e, q) == \/ e.file[q] = disk.file[q]
                     \/ Resident(q) /\ e.file[q] = Frame(q).data

(* A step of the disk manager that neither allocates nor frees a page.     *)
DiskKept(e) == /\ e \in DiskType
               /\ e.num_pages = disk.num_pages
               /\ e.free_pages = disk.free_pages
               /\ e.extent \in disk.num_pages .. disk.num_pages + 1
               /\ \A q \in PageIds : FileFollows(e, q)

\* Writing a resident page back, successfully or not, is such a step.
LEMMA WriteBackKeeps ==
    ASSUME IInv, NEW q \in PageIds, Resident(q),
           NEW e \in {disk, WritePage(disk, q, Frame(q).data)}
                      \cup FailedWrite(disk, q, Frame(q).data)
    PROVE  DiskKept(e)
  <1>1. /\ q < disk.num_pages /\ disk.num_pages <= disk.extent /\ disk \in DiskType
        /\ Frame(q).data \in Data
        /\ disk.extent \in disk.num_pages .. disk.num_pages + 1
    BY DEF IInv, DataInv, FileCoversPool, PoolInv, TypeOK, DiskType, PageIds,
           Resident, Frame, PageType
  <1>2. /\ WritePage(disk, q, Frame(q).data) = FileWith(disk, q, Frame(q).data)
        /\ FailedWrite(disk, q, Frame(q).data) = {disk, FileWith(disk, q, Frame(q).data)}
        /\ FileWith(disk, q, Frame(q).data) \in DiskType
    BY <1>1, WriteFacts
  <1>3. e = disk \/ e = FileWith(disk, q, Frame(q).data)
    BY <1>2
  <1>4. CASE e = disk
    BY <1>1, <1>4 DEF DiskKept, FileFollows
  <1>5. CASE e = FileWith(disk, q, Frame(q).data)
    <2>1. /\ e \in DiskType /\ e.num_pages = disk.num_pages
          /\ e.free_pages = disk.free_pages /\ e.extent = disk.extent
          /\ e.file = [disk.file EXCEPT ![q] = Frame(q).data]
      BY <1>2, <1>5 DEF FileWith, Disk
    <2>2. \A r \in PageIds : FileFollows(e, r)
      BY <2>1, <1>1 DEF FileFollows, DiskType
    <2>3. QED
      BY <1>1, <2>1, <2>2 DEF DiskKept
  <1>6. QED
    BY <1>3, <1>4, <1>5

\* Steps that leave the pool alone and only write to the file: failed calls.
LEMMA PoolKeptInv ==
    ASSUME IInv, UNCHANGED <<pages, page_table, free_list, unflagged>>,
           replacer' \in ReplacerType, replacer'.in_replacer = replacer.in_replacer,
           disk' \in DiskType, disk'.num_pages = disk.num_pages,
           disk'.free_pages = disk.free_pages,
           disk'.extent \in disk.num_pages .. disk.num_pages + 1,
           \A q \in PageIds :
              \/ FileFollows(disk', q)
              \/ disk'.file[q] = Zero /\ (q \in disk.free_pages \/ q >= disk.num_pages)
    PROVE  IInv'
  <1>1. PoolInv'
    BY DEF IInv, PoolInv, TypeOK, FramesPartitioned, EvictableIffUnpinned,
           FreeFrames, Resident, Frame
  <1>2. \A q \in PageIds : (Resident(q))' <=> Resident(q)
    BY DEF Resident
  <1>3. \A q \in PageIds : (Frame(q))' = Frame(q)
    BY DEF Frame
  <1>4. /\ disk.num_pages \in Nat
        /\ \A q \in PageIds : Resident(q) => q < disk.num_pages /\ q \notin disk.free_pages
    BY DEF IInv, PoolInv, TypeOK, DataInv, FreePagesUnused, FileCoversPool, DiskType
  <1>5. CleanMatchesDisk'
    BY <1>2, <1>3, <1>4 DEF IInv, DataInv, CleanMatchesDisk, FileFollows, PageIds
  <1>6. UnflaggedPinned'
    BY <1>2, <1>3 DEF IInv, DataInv, UnflaggedPinned, PoolInv, TypeOK
  <1>7. FreePagesUnused'
    BY <1>2, <1>4 DEF IInv, DataInv, FreePagesUnused, FileFollows, PoolInv, TypeOK, DiskType
  <1>8. FileCoversPool'
    BY <1>2, <1>4 DEF IInv, DataInv, FileCoversPool, FileFollows, PageIds
  <1>9. QED
    BY <1>1, <1>5, <1>6, <1>7, <1>8 DEF IInv, DataInv

\* Steps that update the frame of one resident page and keep its page there.
LEMMA UpdateInv ==
    ASSUME IInv, NEW p \in PageIds, Resident(p),
           NEW n \in 0 .. MaxPins, NEW b \in BOOLEAN, NEW v \in Data,
           Update(p, n, b, v),
           UNCHANGED <<page_table, free_list>>,
           replacer' \in ReplacerType,
           replacer'.in_replacer = IF n = 0 THEN replacer.in_replacer \cup {page_table[p]}
                                   ELSE replacer.in_replacer \ {page_table[p]},
           DiskKept(disk'),
           unflagged' \in SUBSET PageIds,
           unflagged' \ {p} = unflagged \ {p},
           p \in unflagged' => n > 0,
           p \notin unflagged' /\ ~b => v = disk'.file[p]
    PROVE  IInv'
  <1> DEFINE g == page_table[p]
  <1>1. /\ g \in Frames \ FreeFrames
        /\ pages' \in [Frames -> PageType]
        /\ pages'[g] = PageOf(p, n, b, v)
        /\ \A f \in Frames \ {g} : pages'[f] = pages[f]
        /\ \A f \in Frames : pages'[f].page_id = pages[f].page_id
    BY UpdateFacts DEF IInv
  <1>2. /\ pages'[g].pin_count = n /\ (pages'[g].is_dirty <=> b) /\ pages'[g].data = v
        /\ pages'[g].page_id = p /\ pages[g].page_id = p /\ p # INVALID_PAGE_ID
    BY <1>1 DEF PageOf, PageIds
  <1>3. \A q \in PageIds : (Resident(q))' <=> Resident(q)
    BY DEF Resident
  <1>4. \A q \in PageIds : Resident(q) /\ q # p =>
            /\ page_table[q] \in Frames \ {g} /\ (Frame(q))' = Frame(q)
    BY <1>1, <1>2 DEF IInv, PoolInv, TypeOK, FramesPartitioned, Resident, Frame
  <1>5. TypeOK'
    BY <1>1 DEF IInv, PoolInv, TypeOK, DiskKept
  <1>6. FramesPartitioned'
    <2>1. FreeFrames' = FreeFrames
      BY DEF FreeFrames
    <2>2. \A f \in FreeFrames : f \in Frames /\ f # g
      BY <1>1 DEF FreeFrames, IInv, PoolInv, TypeOK
    <2>3. \A f \in FreeFrames : pages'[f] = EmptyPage
      BY <1>1, <2>2 DEF IInv, PoolInv, FramesPartitioned
    <2>4. \A f \in Frames \ FreeFrames : /\ pages'[f].page_id \in PageIds
                                          /\ page_table[pages'[f].page_id] = f
      BY <1>1 DEF IInv, PoolInv, FramesPartitioned
    <2>5. \A q \in PageIds : Resident(q) => (Frame(q).page_id)' = q
      <3>1. \A q \in PageIds : Resident(q) => page_table[q] \in Frames /\ Frame(q).page_id = q
        BY DEF IInv, PoolInv, TypeOK, FramesPartitioned, Resident
      <3>2. QED
        BY <1>1, <3>1 DEF Frame
    <2>6. QED
      BY <1>3, <2>1, <2>3, <2>4, <2>5 DEF IInv, PoolInv, FramesPartitioned
  <1>7. EvictableIffUnpinned'
    BY <1>1, <1>2 DEF IInv, PoolInv, EvictableIffUnpinned, ReplacerType
  <1>8. CleanMatchesDisk'
    <2>1. ASSUME NEW q \in PageIds, Resident(q), (~Frame(q).is_dirty)', q \notin unflagged', q # p
          PROVE  (Frame(q).data = disk.file[q])'
      BY <1>4, <2>1 DEF IInv, DataInv, CleanMatchesDisk, DiskKept, FileFollows
    <2>2. ASSUME (~Frame(p).is_dirty)', p \notin unflagged'
          PROVE  (Frame(p).data = disk.file[p])'
      BY <1>2, <2>2 DEF Frame
    <2>3. QED
      BY <1>3, <2>1, <2>2 DEF CleanMatchesDisk
  <1>9. UnflaggedPinned'
    <2>1. ASSUME NEW q \in unflagged', q # p PROVE (Resident(q) /\ Frame(q).pin_count > 0)'
      <3>1. q \in PageIds /\ q \in unflagged
        BY <2>1
      <3>2. QED
        BY <3>1, <1>3, <1>4, <2>1 DEF IInv, DataInv, UnflaggedPinned
    <2>2. ASSUME p \in unflagged' PROVE (Resident(p) /\ Frame(p).pin_count > 0)'
      BY <1>2, <1>3, <2>2 DEF Frame
    <2>3. QED
      BY <2>1, <2>2 DEF UnflaggedPinned
  <1>10. FreePagesUnused'
    <2>1. ASSUME NEW q \in disk.free_pages
          PROVE  q \in 1 .. disk.num_pages - 1 /\ disk.file[q] = Zero /\ ~Resident(q) /\ q \in PageIds
      BY <2>1 DEF IInv, DataInv, FreePagesUnused, PoolInv, TypeOK, DiskType
    <2>2. QED
      BY <1>3, <2>1 DEF FreePagesUnused, DiskKept, FileFollows
  <1>11. FileCoversPool'
    <2>1. \A q \in PageIds : q >= disk.num_pages => ~Resident(q)
      BY DEF IInv, DataInv, FileCoversPool, PoolInv, TypeOK, DiskType, PageIds
    <2>2. QED
      BY <1>3, <2>1 DEF IInv, DataInv, FileCoversPool, DiskKept, FileFollows
  <1>12. QED
    BY <1>5, <1>6, <1>7, <1>8, <1>9, <1>10, <1>11 DEF IInv, PoolInv, DataInv

\* A call that leaves the disk manager alone.
LEMMA SameDiskKept ==
    ASSUME IInv, disk' = disk
    PROVE  DiskKept(disk')
  BY DEF IInv, PoolInv, TypeOK, DataInv, FileCoversPool, DiskKept, FileFollows

\* What is known of the page a client holds.
LEMMA ResidentFacts ==
    ASSUME IInv, NEW p \in PageIds, Resident(p)
    PROVE  /\ page_table[p] \in Frames /\ Frame(p) \in PageType
           /\ Frame(p).page_id = p
           /\ Frame(p).pin_count \in 0 .. MaxPins /\ Frame(p).is_dirty \in BOOLEAN
           /\ Frame(p).data \in Data
           /\ page_table[p] \in replacer.in_replacer <=> Frame(p).pin_count = 0
           /\ replacer \in ReplacerType /\ MaxPins \in Nat
           /\ unflagged \in SUBSET PageIds
           /\ p \in unflagged => Frame(p).pin_count > 0
           /\ ~Frame(p).is_dirty /\ p \notin unflagged => Frame(p).data = disk.file[p]
  <1>1. /\ page_table[p] \in Frames /\ Frame(p) \in PageType /\ Frame(p).page_id = p
        /\ p # INVALID_PAGE_ID
    BY DEF IInv, PoolInv, TypeOK, FramesPartitioned, Resident, Frame, PageIds
  <1>2. page_table[p] \in replacer.in_replacer <=> Frame(p).pin_count = 0
    BY <1>1 DEF IInv, PoolInv, EvictableIffUnpinned, Frame
  <1>3. QED
    BY <1>1, <1>2, MaxPinsAssumption
    DEF IInv, PoolInv, TypeOK, PageType, DataInv, UnflaggedPinned, CleanMatchesDisk

\* Fetching a resident page pins it and takes its frame out of the replacer.
LEMMA FetchPageHitInv ==
    ASSUME IInv, NEW p \in PageIds, FetchPageHit(p)
    PROVE  IInv'
  <1> DEFINE n == Frame(p).pin_count + 1
  <1>1. Resident(p) /\ Frame(p).pin_count < MaxPins /\ disk' = disk
        /\ UNCHANGED <<page_table, free_list, unflagged>>
        /\ replacer' = Pin(replacer, page_table[p])
        /\ Update(p, n, Frame(p).is_dirty, Frame(p).data)
    BY DEF FetchPageHit
  <1>2. n \in 0 .. MaxPins /\ n > 0
    BY <1>1, ResidentFacts
  <1>3. /\ replacer' \in ReplacerType
        /\ replacer'.in_replacer = replacer.in_replacer \ {page_table[p]}
    BY <1>1, ResidentFacts, PinFacts
  <1> HIDE DEF n
  <1>4. n # 0
    BY <1>2
  <1>5. Frame(p).is_dirty \in BOOLEAN /\ Frame(p).data \in Data
        /\ unflagged \in SUBSET PageIds
        /\ (~Frame(p).is_dirty /\ p \notin unflagged => Frame(p).data = disk.file[p])
    BY <1>1, ResidentFacts
  <1>6. DiskKept(disk')
    BY <1>1, SameDiskKept
  <1>7. QED
    BY <1>1, <1>2, <1>3, <1>4, <1>5, <1>6, UpdateInv

\* Unpinning only ever adds the dirty flag; the last unpin makes the frame a
\* candidate.
LEMMA UnpinPageInv ==
    ASSUME IInv, NEW p \in PageIds, NEW dirty \in BOOLEAN, UnpinPage(p, dirty)
    PROVE  IInv'
  <1> DEFINE n == Frame(p).pin_count - 1
             b == Frame(p).is_dirty \/ dirty
  <1>1. Resident(p) /\ Frame(p).pin_count > 0 /\ disk' = disk
        /\ (dirty \/ p \notin unflagged \/ Frame(p).pin_count > 1)
        /\ UNCHANGED <<page_table, free_list>>
        /\ replacer' = (IF Frame(p).pin_count = 1
                        THEN Unpin(replacer, page_table[p]) ELSE replacer)
        /\ unflagged' = (IF dirty THEN unflagged \ {p} ELSE unflagged)
        /\ Update(p, n, b, Frame(p).data)
    BY DEF UnpinPage
  <1>2. n \in 0 .. MaxPins /\ (n = 0 <=> Frame(p).pin_count = 1)
    BY <1>1, ResidentFacts
  <1>3. /\ replacer' \in ReplacerType
        /\ replacer'.in_replacer = IF n = 0 THEN replacer.in_replacer \cup {page_table[p]}
                                   ELSE replacer.in_replacer \ {page_table[p]}
    <2>1. /\ page_table[p] \in Frames /\ replacer \in ReplacerType
          /\ page_table[p] \notin replacer.in_replacer
      BY <1>1, ResidentFacts
    <2>2. CASE n = 0
      BY <1>1, <1>2, <2>1, <2>2, UnpinFacts
    <2>3. CASE n # 0
      BY <1>1, <1>2, <2>1, <2>3
    <2>4. QED
      BY <2>2, <2>3
  <1>4. Frame(p).is_dirty \in BOOLEAN /\ Frame(p).data \in Data
        /\ unflagged \in SUBSET PageIds
        /\ (~Frame(p).is_dirty /\ p \notin unflagged => Frame(p).data = disk.file[p])
    BY <1>1, ResidentFacts
  <1>5. DiskKept(disk')
    BY <1>1, SameDiskKept
  <1>6. p \in unflagged' => n > 0
    BY <1>1, <1>2, ResidentFacts
  <1>7. p \notin unflagged' /\ ~b => Frame(p).data = disk'.file[p]
    BY <1>1, <1>4
  <1>8. unflagged' \in SUBSET PageIds /\ unflagged' \ {p} = unflagged \ {p}
    BY <1>1, <1>4
  <1>9. b \in BOOLEAN
    OBVIOUS
  <1> HIDE DEF n, b
  <1>10. QED
    BY <1>1, <1>2, <1>3, <1>4, <1>5, <1>6, <1>7, <1>8, <1>9, UpdateInv

\* An update that keeps the pin count leaves the replacer as it is.
LEMMA SamePins ==
    ASSUME IInv, NEW p \in PageIds, Resident(p), replacer' = replacer
    PROVE  /\ replacer' \in ReplacerType
           /\ replacer'.in_replacer =
                IF Frame(p).pin_count = 0 THEN replacer.in_replacer \cup {page_table[p]}
                ELSE replacer.in_replacer \ {page_table[p]}
  BY ResidentFacts

\* A client writes to a page it has pinned.
LEMMA ClientWriteInv ==
    ASSUME IInv, NEW p \in PageIds, NEW v \in Data, ClientWrite(p, v)
    PROVE  IInv'
  <1>1. Resident(p) /\ Frame(p).pin_count > 0 /\ disk' = disk /\ replacer' = replacer
        /\ UNCHANGED <<page_table, free_list>>
        /\ unflagged' = unflagged \cup {p}
        /\ Update(p, Frame(p).pin_count, Frame(p).is_dirty, v)
    BY DEF ClientWrite
  <1>2. Frame(p).pin_count \in 0 .. MaxPins /\ Frame(p).is_dirty \in BOOLEAN
        /\ unflagged \in SUBSET PageIds
    BY <1>1, ResidentFacts
  <1>3. DiskKept(disk')
    BY <1>1, SameDiskKept
  <1>4. unflagged' \in SUBSET PageIds /\ unflagged' \ {p} = unflagged \ {p} /\ p \in unflagged'
    BY <1>1, <1>2
  <1>5. /\ replacer' \in ReplacerType
        /\ replacer'.in_replacer =
              IF Frame(p).pin_count = 0 THEN replacer.in_replacer \cup {page_table[p]}
              ELSE replacer.in_replacer \ {page_table[p]}
    BY <1>1, SamePins
  <1> DEFINE b == Frame(p).is_dirty
  <1>6. b \in BOOLEAN /\ Update(p, Frame(p).pin_count, b, v)
    BY <1>1, <1>2
  <1> HIDE DEF b
  <1>7. QED
    BY <1>1, <1>2, <1>3, <1>4, <1>5, <1>6, UpdateInv

\* A client flags a page it has pinned as dirty.
LEMMA ClientSetDirtyInv ==
    ASSUME IInv, NEW p \in PageIds, ClientSetDirty(p)
    PROVE  IInv'
  <1>1. Resident(p) /\ disk' = disk /\ replacer' = replacer
        /\ UNCHANGED <<page_table, free_list>>
        /\ unflagged' = unflagged \ {p}
        /\ Update(p, Frame(p).pin_count, TRUE, Frame(p).data)
    BY DEF ClientSetDirty
  <1>2. Frame(p).pin_count \in 0 .. MaxPins /\ Frame(p).data \in Data
        /\ unflagged \in SUBSET PageIds
    BY <1>1, ResidentFacts
  <1>3. DiskKept(disk')
    BY <1>1, SameDiskKept
  <1>4. unflagged' \in SUBSET PageIds /\ unflagged' \ {p} = unflagged \ {p} /\ p \notin unflagged'
    BY <1>1, <1>2
  <1>5. QED
    BY <1>1, <1>2, <1>3, <1>4, SamePins, UpdateInv

\* A successful FlushPage leaves the page clean and equal to the file.
LEMMA FlushPageInv ==
    ASSUME IInv, NEW p \in PageIds, FlushPage(p)
    PROVE  IInv'
  <1>1. Resident(p) /\ disk' = WritePage(disk, p, Frame(p).data) /\ replacer' = replacer
        /\ UNCHANGED <<page_table, free_list, unflagged>>
        /\ Update(p, Frame(p).pin_count, FALSE, Frame(p).data)
    BY DEF FlushPage
  <1>2. Frame(p).pin_count \in 0 .. MaxPins /\ Frame(p).data \in Data
        /\ unflagged \in SUBSET PageIds /\ (p \in unflagged => Frame(p).pin_count > 0)
    BY <1>1, ResidentFacts
  <1>3. DiskKept(disk')
    BY <1>1, WriteBackKeeps
  <1>4. disk'.file[p] = Frame(p).data
    BY <1>1 DEF WritePage, Disk, IInv, PoolInv, TypeOK, DiskType
  <1>5. QED
    BY <1>1, <1>2, <1>3, <1>4, SamePins, UpdateInv

\* A failed FlushPage leaves the frame, with its dirty flag, as it was.
LEMMA FlushPageErrorInv ==
    ASSUME IInv, NEW p \in PageIds, FlushPageError(p)
    PROVE  IInv'
  <1>1. Resident(p) /\ disk' \in FailedWrite(disk, p, Frame(p).data) /\ replacer' = replacer
        /\ UNCHANGED <<pages, page_table, free_list, unflagged>>
    BY DEF FlushPageError
  <1>2. DiskKept(disk')
    BY <1>1, WriteBackKeeps
  <1>3. replacer' \in ReplacerType
    BY <1>1 DEF IInv, PoolInv, TypeOK
  <1>4. QED
    BY <1>1, <1>2, <1>3, PoolKeptInv DEF DiskKept

\* The replacer's victim holds an unpinned page, mapped to it.
LEMMA VictimPage ==
    ASSUME IInv, NEW f \in Frames, VictimFrame(f)
    PROVE  LET old == pages[f].page_id IN
           /\ old \in PageIds /\ page_table[old] = f /\ Resident(old)
           /\ Frame(old) = pages[f] /\ pages[f].pin_count = 0
           /\ pages[f].data \in Data /\ old \notin unflagged
           /\ f \in replacer.in_replacer /\ replacer \in ReplacerType /\ IsVictim(replacer, f)
  <1>1. f \in replacer.in_replacer /\ replacer \in ReplacerType /\ IsVictim(replacer, f)
    BY VictimFacts DEF VictimFrame, IInv, PoolInv, TypeOK
  <1>2. pages[f].page_id # INVALID_PAGE_ID /\ pages[f].pin_count = 0 /\ pages[f] \in PageType
    BY <1>1 DEF IInv, PoolInv, EvictableIffUnpinned, TypeOK
  <1>3. f \in Frames \ FreeFrames
    BY <1>2 DEF IInv, PoolInv, FramesPartitioned, EmptyPage, PageOf
  <1>4. /\ pages[f].page_id \in PageIds /\ page_table[pages[f].page_id] = f
        /\ pages[f].data \in Data
    BY <1>2, <1>3 DEF IInv, PoolInv, FramesPartitioned, PageType
  <1>5. Resident(pages[f].page_id) /\ Frame(pages[f].page_id) = pages[f]
    BY <1>4 DEF Resident, Frame, Frames
  <1>6. pages[f].page_id \notin unflagged
    BY <1>2, <1>5 DEF IInv, DataInv, UnflaggedPinned
  <1>7. QED
    BY <1>1, <1>2, <1>4, <1>5, <1>6

\* The write-back of a victim only brings its page in the file up to date.
LEMMA WrittenBackKeeps ==
    ASSUME IInv, NEW f \in Frames, VictimFrame(f)
    PROVE  DiskKept(WrittenBack(f))
  <1> DEFINE old == pages[f].page_id
             e == WrittenBack(f)
  <1>1. old \in PageIds /\ Resident(old) /\ Frame(old) = pages[f]
    BY VictimPage
  <1>2. e \in {disk, WritePage(disk, old, Frame(old).data)}
    BY <1>1 DEF WrittenBack
  <1> HIDE DEF old, e
  <1>3. DiskKept(e)
    BY <1>1, <1>2, WriteBackKeeps
  <1>4. QED
    BY <1>3 DEF e

\* A page that cannot be read: the frame goes back where it came from.
LEMMA FetchPageReadErrorInv ==
    ASSUME IInv, NEW p \in PageIds, NEW f \in Frames, FetchPageReadError(p, f)
    PROVE  IInv'
  <1>1. VictimFrame(f) /\ disk' = disk
        /\ replacer' = Unpin(AfterVictim(replacer, f), f)
        /\ UNCHANGED <<pages, page_table, free_list, unflagged>>
    BY DEF FetchPageReadError, GiveBack
  <1>2. replacer' \in ReplacerType /\ replacer'.in_replacer = replacer.in_replacer
    BY <1>1, VictimPage, GiveBackFacts
  <1>3. DiskKept(disk')
    BY <1>1, SameDiskKept
  <1>4. QED
    BY <1>1, <1>2, <1>3, PoolKeptInv DEF DiskKept

\* A write-back that fails, in FetchPage or in NewPage.
LEMMA WriteBackErrorInv ==
    ASSUME IInv, NEW f \in Frames, VictimFrame(f), GiveBack(f),
           disk' \in FailedWrite(disk, pages[f].page_id, pages[f].data),
           UNCHANGED <<pages, page_table, free_list, unflagged>>
    PROVE  IInv'
  <1> DEFINE old == pages[f].page_id
  <1>1. old \in PageIds /\ Resident(old) /\ Frame(old) = pages[f]
    BY VictimPage
  <1>2. disk' \in FailedWrite(disk, old, Frame(old).data)
    BY <1>1
  <1> HIDE DEF old
  <1>3. DiskKept(disk')
    BY <1>1, <1>2, WriteBackKeeps
  <1>4. replacer' \in ReplacerType /\ replacer'.in_replacer = replacer.in_replacer
    BY VictimPage, GiveBackFacts DEF GiveBack
  <1>5. QED
    BY <1>3, <1>4, PoolKeptInv DEF DiskKept

\* A failed allocation at most leaves zeroes in a page that is not in use.
LEMMA AllocateErrorFacts ==
    ASSUME NEW d \in DiskType, d.extent \in d.num_pages .. d.num_pages + 1,
           \A q \in d.free_pages : q \in 1 .. d.num_pages - 1,
           NEW e \in FailedAllocate(d)
    PROVE  /\ e \in DiskType
           /\ e.num_pages = d.num_pages /\ e.free_pages = d.free_pages
           /\ e.extent \in d.num_pages .. d.num_pages + 1
           /\ \A q \in PageIds : \/ e.file[q] = d.file[q]
                                 \/ /\ e.file[q] = Zero
                                    /\ q \in d.free_pages \/ q = d.num_pages
  <1>1. CASE e = d
    BY <1>1
  <1>2. ASSUME NEW p \in PageIds, IsNextPage(d, p), e = Stored(d, p, Zero)
        PROVE  /\ e \in DiskType
               /\ e.num_pages = d.num_pages /\ e.free_pages = d.free_pages
               /\ e.extent \in d.num_pages .. d.num_pages + 1
               /\ \A q \in PageIds : \/ e.file[q] = d.file[q]
                                     \/ /\ e.file[q] = Zero
                                        /\ q \in d.free_pages \/ q = d.num_pages
    <2>1. /\ d.num_pages \in 1 .. MaxPages /\ d.extent \in 1 .. MaxPages
          /\ p \in 0 .. MaxPages - 1 /\ MaxPages \in Nat
      BY DiskAssumption DEF DiskType, PageIds
    <2>2. p <= d.num_pages /\ (p = d.num_pages \/ p \in d.free_pages)
      BY <1>2, <2>1 DEF IsNextPage
    <2>3. /\ Extended(d.extent, p) \in 1 .. MaxPages
          /\ Extended(d.extent, p) \in d.num_pages .. d.num_pages + 1
      BY <2>1, <2>2 DEF Extended
    <2>4. e \in DiskType /\ e.extent = Extended(d.extent, p)
          /\ e.num_pages = d.num_pages /\ e.free_pages = d.free_pages
          /\ e.file = [d.file EXCEPT ![p] = Zero]
      BY <1>2, <2>3, DiskAssumption DEF Stored, Disk, DiskType
    <2>5. QED
      BY <2>2, <2>3, <2>4 DEF DiskType
  <1>3. e = d \/ \E p \in PageIds : IsNextPage(d, p) /\ e = Stored(d, p, Zero)
    BY DEF FailedAllocate
  <1>4. QED
    BY <1>1, <1>2, <1>3

\* A failed allocation after the victim was written back, or with a free frame.
LEMMA AllocateErrorInv ==
    ASSUME IInv, NEW d, DiskKept(d), disk' \in FailedAllocate(d),
           replacer' \in ReplacerType, replacer'.in_replacer = replacer.in_replacer,
           UNCHANGED <<pages, page_table, free_list, unflagged>>
    PROVE  IInv'
  <1>1. /\ d \in DiskType /\ d.extent \in d.num_pages .. d.num_pages + 1
        /\ \A q \in d.free_pages : q \in 1 .. d.num_pages - 1
        /\ d.num_pages = disk.num_pages /\ d.free_pages = disk.free_pages
        /\ d.num_pages \in Int
    BY DEF DiskKept, IInv, DataInv, FreePagesUnused, DiskType
  <1>2. /\ disk' \in DiskType
        /\ disk'.num_pages = disk.num_pages /\ disk'.free_pages = disk.free_pages
        /\ disk'.extent \in disk.num_pages .. disk.num_pages + 1
        /\ \A q \in PageIds : \/ disk'.file[q] = d.file[q]
                              \/ /\ disk'.file[q] = Zero
                                 /\ q \in disk.free_pages \/ q = disk.num_pages
    BY <1>1, AllocateErrorFacts
  <1>3. \A q \in PageIds :
           \/ FileFollows(disk', q)
           \/ disk'.file[q] = Zero /\ (q \in disk.free_pages \/ q >= disk.num_pages)
    BY <1>1, <1>2 DEF DiskKept, FileFollows
  <1>4. QED
    BY <1>2, <1>3, PoolKeptInv

\* NewPage without a page from the disk: the frame goes back, after a write-back
\* if it was a victim.
LEMMA NewPageAllocateErrorInv ==
    ASSUME IInv,
           \/ NewPageAllocateErrorFree
           \/ \E f \in Frames : NewPageAllocateErrorVictim(f)
    PROVE  IInv'
  <1>1. CASE NewPageAllocateErrorFree
    <2>1. disk' \in FailedAllocate(disk) /\ replacer' = replacer
          /\ UNCHANGED <<pages, page_table, free_list, unflagged>>
      BY <1>1 DEF NewPageAllocateErrorFree
    <2>2. DiskKept(disk) /\ replacer' \in ReplacerType
      BY <2>1 DEF IInv, PoolInv, TypeOK, DataInv, FileCoversPool, DiskKept, FileFollows
    <2>3. QED
      BY <2>1, <2>2, AllocateErrorInv
  <1>2. ASSUME NEW f \in Frames, NewPageAllocateErrorVictim(f)
        PROVE  IInv'
    <2>1. VictimFrame(f) /\ disk' \in FailedAllocate(WrittenBack(f))
          /\ replacer' = Unpin(AfterVictim(replacer, f), f)
          /\ UNCHANGED <<pages, page_table, free_list, unflagged>>
      BY <1>2 DEF NewPageAllocateErrorVictim, GiveBack
    <2>2. replacer' \in ReplacerType /\ replacer'.in_replacer = replacer.in_replacer
      BY <2>1, VictimPage, GiveBackFacts
    <2>3. DiskKept(WrittenBack(f))
      BY <2>1, WrittenBackKeeps
    <2>4. QED
      BY <2>1, <2>2, <2>3, AllocateErrorInv
  <1>3. QED
    BY <1>1, <1>2

(* Frame f has been taken for page p, from the free list or from the       *)
(* replacer, and the page that was in it is no longer mapped.              *)
FrameTaken(p, f) ==
    /\ replacer' \in ReplacerType
    /\ replacer'.in_replacer = replacer.in_replacer \ {f}
    /\ pages[f].pin_count = 0
    /\ page_table' \in [PageIds -> Frames \cup {INVALID_FRAME_ID}]
    /\ page_table'[p] = f
    /\ \A q \in PageIds \ {p} :
          page_table'[q] = IF page_table[q] = f THEN INVALID_FRAME_ID ELSE page_table[q]
    /\ free_list' \in Seq(Frames) /\ Injective(free_list')
    /\ FreeFrames' = FreeFrames \ {f}

\* Facts shared by all steps that move page p into frame f, whichever page
\* was there before.
LEMMA InstallInv ==
    ASSUME IInv, NEW p \in PageIds, ~Resident(p), NEW f \in Frames, NEW v \in Data,
           Install(f, p, v), unflagged' = unflagged,
           FrameTaken(p, f),
           disk' \in DiskType, disk'.free_pages = disk.free_pages \ {p},
           disk'.num_pages >= disk.num_pages, p < disk'.num_pages,
           disk'.extent \in disk'.num_pages .. disk'.num_pages + 1,
           disk'.file[p] = v,
           \A q \in PageIds \ {p} : FileFollows(disk', q)
    PROVE  IInv'
  <1> USE DEF FrameTaken
  <1>0. TypeOK /\ FramesPartitioned /\ EvictableIffUnpinned
    BY DEF IInv, PoolInv
  <1>1. PageOf(p, 1, FALSE, v) \in PageType
    BY MaxPinsAssumption DEF PageOf, PageType
  <1>2. /\ pages' \in [Frames -> PageType] /\ pages'[f] = PageOf(p, 1, FALSE, v)
        /\ \A g \in Frames \ {f} : pages'[g] = pages[g]
    BY <1>0, <1>1 DEF Install, TypeOK
  <1>3. /\ pages'[f].page_id = p /\ pages'[f].pin_count = 1 /\ ~pages'[f].is_dirty
        /\ pages'[f].data = v /\ p # INVALID_PAGE_ID /\ f # INVALID_FRAME_ID
    BY <1>2 DEF PageOf, PageIds, Frames
  <1>4. TypeOK'
    BY <1>0, <1>2 DEF TypeOK
  <1>5. \A q \in PageIds \ {p} : (Resident(q))' =>
            Resident(q) /\ page_table'[q] = page_table[q] /\ page_table[q] \in Frames \ {f}
            /\ (Frame(q))' = Frame(q)
    BY <1>0, <1>2 DEF Resident, Frame, TypeOK
  <1>6. (Resident(p))' /\ (Frame(p))' = pages'[f]
    BY <1>3 DEF Resident, Frame
  <1>7. FramesPartitioned'
    <2>1. \A g \in FreeFrames' : pages'[g] = EmptyPage
      <3>1. \A g \in FreeFrames : g \in Frames /\ pages[g] = EmptyPage
        BY <1>0 DEF FramesPartitioned, FreeFrames, TypeOK
      <3>2. QED
        BY <1>2, <3>1
    <2>2. ASSUME NEW g \in Frames \ FreeFrames', g # f
          PROVE  pages'[g].page_id \in PageIds /\ page_table'[pages'[g].page_id] = g
      <3>1. pages[g].page_id \in PageIds /\ page_table[pages[g].page_id] = g /\ pages'[g] = pages[g]
        BY <1>0, <1>2, <2>2 DEF FramesPartitioned
      <3>2. pages[g].page_id # p
        BY <3>1, <2>2 DEF Resident, Frames
      <3>3. QED
        BY <2>2, <3>1, <3>2
    <2>3. \A q \in PageIds : (Resident(q))' => (Frame(q))'.page_id = q
      BY <1>0, <1>3, <1>5, <1>6 DEF FramesPartitioned
    <2>4. QED
      BY <1>3, <2>1, <2>2, <2>3 DEF FramesPartitioned, Injective
  <1>8. EvictableIffUnpinned'
    <2>1. f \notin replacer'.in_replacer /\ pages'[f].pin_count # 0
      BY <1>3
    <2>2. \A g \in Frames \ {f} :
            g \in replacer'.in_replacer <=>
                pages'[g].page_id # INVALID_PAGE_ID /\ pages'[g].pin_count = 0
      BY <1>0, <1>2 DEF EvictableIffUnpinned
    <2>3. replacer'.in_replacer \subseteq Frames
      BY DEF ReplacerType
    <2>4. QED
      BY <2>1, <2>2, <2>3 DEF EvictableIffUnpinned
  <1>9. CleanMatchesDisk'
    <2>1. ASSUME NEW q \in PageIds \ {p}, (Resident(q))', (~Frame(q).is_dirty)', q \notin unflagged'
          PROVE  (Frame(q).data = disk.file[q])'
      BY <1>5, <2>1 DEF IInv, DataInv, CleanMatchesDisk, FileFollows
    <2>2. (Frame(p).data = disk.file[p])'
      BY <1>3, <1>6
    <2>3. QED
      BY <2>1, <2>2 DEF CleanMatchesDisk
  <1>10. UnflaggedPinned'
    <2>1. ASSUME NEW q \in unflagged'
          PROVE  (Resident(q) /\ Frame(q).pin_count > 0)'
      <3>1. q \in PageIds /\ Resident(q) /\ Frame(q).pin_count > 0 /\ q # p
        BY <1>0, <2>1 DEF IInv, DataInv, UnflaggedPinned, TypeOK
      <3>2. page_table[q] # f /\ page_table[q] \in Frames
        BY <1>0, <3>1 DEF Frame, Resident, TypeOK
      <3>3. QED
        BY <1>2, <3>1, <3>2 DEF Resident, Frame
    <2>2. QED
      BY <2>1 DEF UnflaggedPinned
  <1>11. FreePagesUnused'
    <2>1. ASSUME NEW q \in disk'.free_pages
          PROVE  (q \in 1 .. disk.num_pages - 1 /\ disk.file[q] = Zero /\ ~Resident(q))'
      <3>1. q \in PageIds \ {p} /\ q \in 1 .. disk.num_pages - 1 /\ disk.file[q] = Zero /\ ~Resident(q)
            /\ disk.num_pages \in Int /\ disk'.num_pages \in Int
        BY <1>0, <2>1 DEF IInv, DataInv, FreePagesUnused, TypeOK, DiskType
      <3>2. QED
        BY <1>5, <3>1 DEF FileFollows
    <2>2. QED
      BY <2>1 DEF FreePagesUnused
  <1>12. FileCoversPool'
    <2>1. disk.num_pages \in Int /\ disk'.num_pages \in Int /\ PageIds \subseteq Int
      BY <1>0 DEF TypeOK, DiskType, PageIds
    <2>2. \A q \in PageIds : (Resident(q))' => q < disk'.num_pages
      BY <1>5, <2>1 DEF IInv, DataInv, FileCoversPool
    <2>3. \A q \in PageIds : q >= disk'.num_pages => disk'.file[q] = Zero
      BY <2>1 DEF IInv, DataInv, FileCoversPool, FileFollows
    <2>4. QED
      BY <2>2, <2>3 DEF FileCoversPool
  <1>13. QED
    BY <1>4, <1>7, <1>8, <1>9, <1>10, <1>11, <1>12 DEF IInv, PoolInv, DataInv

\* Taking the front of the free list: the list and the page table afterwards.
LEMMA FreeFrameFacts ==
    ASSUME IInv, NEW p \in PageIds, ~Resident(p), NEW f \in Frames, FreeFrame(f),
           free_list' = Tail(free_list), page_table' = [page_table EXCEPT ![p] = f],
           replacer' = Pin(replacer, f)
    PROVE  FrameTaken(p, f)
  <1>1. TypeOK /\ FramesPartitioned
    BY DEF IInv, PoolInv
  <1>2. free_list \in Seq(Frames) /\ free_list # <<>> /\ Injective(free_list) /\ f = Head(free_list)
    BY <1>1 DEF TypeOK, FramesPartitioned, Injective, FreeFrame
  <1>3. /\ f \in FreeFrames /\ free_list' \in Seq(Frames) /\ Injective(free_list')
        /\ FreeFrames' = FreeFrames \ {f}
    BY <1>2, PopFacts DEF FreeFrames, RangeOf
  <1>4. pages[f] = EmptyPage
    BY <1>1, <1>3 DEF FramesPartitioned
  <1>5. pages[f].pin_count = 0 /\ pages[f].page_id = INVALID_PAGE_ID
    BY <1>4 DEF EmptyPage, PageOf
  <1>6. \A q \in PageIds : page_table[q] # f
    BY <1>1, <1>5 DEF FramesPartitioned, Resident, Frame, PageIds, Frames
  <1>7. QED
    BY <1>1, <1>3, <1>5, <1>6, PinFacts DEF TypeOK, FrameTaken

\* Taking a victim: the page table afterwards.
LEMMA VictimFrameFacts ==
    ASSUME IInv, NEW p \in PageIds, ~Resident(p), NEW f \in Frames, VictimFrame(f),
           free_list' = free_list, page_table' = Remapped(f, p),
           replacer' = Pin(AfterVictim(replacer, f), f)
    PROVE  FrameTaken(p, f)
  <1> DEFINE old == pages[f].page_id
  <1>1. TypeOK /\ FramesPartitioned
    BY DEF IInv, PoolInv
  <1>2. /\ old \in PageIds /\ page_table[old] = f /\ Resident(old) /\ pages[f].pin_count = 0
        /\ replacer \in ReplacerType /\ IsVictim(replacer, f) /\ old # p
    BY VictimPage
  <1>3. \A q \in PageIds : page_table[q] = f => q = old
    BY <1>1 DEF FramesPartitioned, Resident, Frame, Frames
  <1>4. page_table' = [page_table EXCEPT ![old] = INVALID_FRAME_ID, ![p] = f]
    BY DEF Remapped
  <1>5. f \notin FreeFrames
    BY <1>1, <1>2 DEF FramesPartitioned, EmptyPage, PageOf, PageIds
  <1>6. FreeFrames' = FreeFrames \ {f} /\ free_list' \in Seq(Frames) /\ Injective(free_list')
    BY <1>1, <1>5 DEF FreeFrames, TypeOK, FramesPartitioned, Injective
  <1>7. /\ AfterVictim(replacer, f) \in ReplacerType
        /\ AfterVictim(replacer, f).in_replacer = replacer.in_replacer \ {f}
    BY <1>2, VictimFacts
  <1>8. /\ replacer' \in ReplacerType
        /\ replacer'.in_replacer = replacer.in_replacer \ {f}
    BY <1>7, PinFacts
  <1> HIDE DEF old
  <1>9. QED
    BY <1>1, <1>2, <1>3, <1>4, <1>6, <1>8 DEF TypeOK, FrameTaken

\* A page is read into a free frame or in place of a victim.
LEMMA FetchPageMissInv ==
    ASSUME IInv, NEW p \in PageIds, NEW f \in Frames,
           FetchPageIntoFreeFrame(p, f) \/ FetchPageEvicting(p, f)
    PROVE  IInv'
  <1>1. ~Resident(p) /\ p \notin disk.free_pages /\ p < disk.num_pages
        /\ Install(f, p, disk.file[p]) /\ unflagged' = unflagged
    BY DEF FetchPageIntoFreeFrame, FetchPageEvicting, Miss, Exists
  <1>2. disk.file[p] \in Data /\ disk \in DiskType
    BY DEF IInv, PoolInv, TypeOK, DiskType
  <1>3. CASE FetchPageIntoFreeFrame(p, f)
    <2>1. /\ FreeFrame(f) /\ free_list' = Tail(free_list) /\ disk' = disk
          /\ page_table' = [page_table EXCEPT ![p] = f]
          /\ replacer' = Pin(replacer, f)
      BY <1>3 DEF FetchPageIntoFreeFrame
    <2>2. DiskKept(disk')
      BY <2>1, SameDiskKept
    <2>3. disk'.num_pages >= disk.num_pages /\ p < disk'.num_pages
          /\ disk'.free_pages = disk.free_pages \ {p}
          /\ disk'.extent \in disk'.num_pages .. disk'.num_pages + 1
          /\ disk'.file[p] = disk.file[p]
      BY <1>1, <1>2, <2>1, <2>2 DEF DiskKept, DiskType
    <2>4. FrameTaken(p, f)
      BY <1>1, <2>1, FreeFrameFacts
    <2>5. QED
      BY <1>1, <1>2, <2>2, <2>3, <2>4, InstallInv DEF DiskKept
  <1>4. CASE FetchPageEvicting(p, f)
    <2>1. /\ VictimFrame(f) /\ free_list' = free_list /\ disk' = WrittenBack(f)
          /\ page_table' = Remapped(f, p)
          /\ replacer' = Pin(AfterVictim(replacer, f), f)
      BY <1>4 DEF FetchPageEvicting
    <2>2. DiskKept(disk')
      BY <2>1, WrittenBackKeeps
    <2>3. disk'.num_pages >= disk.num_pages /\ p < disk'.num_pages
          /\ disk'.free_pages = disk.free_pages \ {p}
          /\ disk'.extent \in disk'.num_pages .. disk'.num_pages + 1
          /\ disk'.file[p] = disk.file[p]
      BY <1>1, <1>2, <2>1, <2>2 DEF DiskKept, DiskType, FileFollows
    <2>4. FrameTaken(p, f)
      BY <1>1, <2>1, VictimFrameFacts
    <2>5. QED
      BY <1>1, <1>2, <2>2, <2>3, <2>4, InstallInv DEF DiskKept
  <1>5. QED
    BY <1>3, <1>4

\* A new page is placed into a free frame or in place of a victim.
LEMMA NewPageInv ==
    ASSUME IInv, NEW p \in PageIds, NEW f \in Frames,
           NewPageIntoFreeFrame(p, f) \/ NewPageEvicting(p, f)
    PROVE  IInv'
  <1>1. IsNextPage(disk, p) /\ Install(f, p, Zero) /\ unflagged' = unflagged
    BY DEF NewPageIntoFreeFrame, NewPageEvicting
  <1>2. ~Resident(p)
    BY <1>1 DEF IsNextPage, IInv, DataInv, FreePagesUnused, FileCoversPool, PoolInv, TypeOK,
                DiskType
  <1>3. ASSUME NEW d, DiskKept(d), disk' = AllocatePage(d, p)
        PROVE  /\ disk' \in DiskType /\ disk'.free_pages = disk.free_pages \ {p}
               /\ disk'.num_pages >= disk.num_pages /\ p < disk'.num_pages
               /\ disk'.extent \in disk'.num_pages .. disk'.num_pages + 1
               /\ disk'.file[p] = Zero
               /\ \A q \in PageIds \ {p} : FileFollows(disk', q)
    <2>1. /\ d \in DiskType /\ d.extent \in d.num_pages .. d.num_pages + 1
          /\ \A q \in d.free_pages : q \in 1 .. d.num_pages - 1
          /\ d.num_pages = disk.num_pages /\ d.free_pages = disk.free_pages
          /\ d.num_pages \in Int /\ d.file \in [PageIds -> Data]
          /\ \A q \in PageIds : FileFollows(d, q)
      BY <1>3 DEF DiskKept, IInv, DataInv, FreePagesUnused, DiskType
    <2>2. IsNextPage(d, p)
      BY <1>1, <2>1 DEF IsNextPage
    <2>3. /\ disk' \in DiskType /\ disk'.file = [d.file EXCEPT ![p] = Zero]
          /\ disk'.free_pages = d.free_pages \ {p} /\ p < disk'.num_pages
          /\ disk'.num_pages = (IF p = d.num_pages THEN p + 1 ELSE d.num_pages)
          /\ disk'.extent \in disk'.num_pages .. disk'.num_pages + 1
      BY <1>3, <2>1, <2>2, AllocateFacts
    <2>4. QED
      BY <2>1, <2>3 DEF FileFollows
  <1>4. CASE NewPageIntoFreeFrame(p, f)
    <2>1. /\ FreeFrame(f) /\ free_list' = Tail(free_list) /\ disk' = AllocatePage(disk, p)
          /\ page_table' = [page_table EXCEPT ![p] = f]
          /\ replacer' = Pin(replacer, f)
      BY <1>4 DEF NewPageIntoFreeFrame
    <2>2. DiskKept(disk)
      BY DEF IInv, PoolInv, TypeOK, DataInv, FileCoversPool, DiskKept, FileFollows
    <2>3. FrameTaken(p, f)
      BY <1>2, <2>1, FreeFrameFacts
    <2>4. QED
      BY <1>1, <1>2, <1>3, <2>1, <2>2, <2>3, InstallInv, DiskAssumption
  <1>5. CASE NewPageEvicting(p, f)
    <2>1. /\ VictimFrame(f) /\ free_list' = free_list
          /\ disk' = AllocatePage(WrittenBack(f), p)
          /\ page_table' = Remapped(f, p)
          /\ replacer' = Pin(AfterVictim(replacer, f), f)
      BY <1>5 DEF NewPageEvicting
    <2>2. DiskKept(WrittenBack(f))
      BY <2>1, WrittenBackKeeps
    <2>3. FrameTaken(p, f)
      BY <1>2, <2>1, VictimFrameFacts
    <2>4. QED
      BY <1>1, <1>2, <1>3, <2>1, <2>2, <2>3, InstallInv, DiskAssumption
  <1>6. QED
    BY <1>4, <1>5

\* FlushAllPages cleans exactly the pages whose writes succeeded.
LEMMA FlushAllPagesInv ==
    ASSUME IInv, NEW written \in SUBSET PageIds, NEW flushed \in SUBSET written,
           FlushAllPages(written, flushed)
    PROVE  IInv'
  <1>0. TypeOK /\ FramesPartitioned /\ EvictableIffUnpinned
    BY DEF IInv, PoolInv
  <1>1. /\ written \subseteq DirtyPages /\ disk' = FlushedDisk(written)
        /\ UNCHANGED <<replacer, page_table, free_list, unflagged>>
        /\ pages' = [f \in Frames |->
                  PageOf(pages[f].page_id, pages[f].pin_count,
                         pages[f].is_dirty /\ pages[f].page_id \notin flushed,
                         pages[f].data)]
    BY DEF FlushAllPages
  <1>2. \A f \in Frames :
            /\ pages'[f] \in PageType
            /\ pages'[f].page_id = pages[f].page_id /\ pages'[f].pin_count = pages[f].pin_count
            /\ pages'[f].data = pages[f].data
            /\ pages'[f].is_dirty <=> pages[f].is_dirty /\ pages[f].page_id \notin flushed
    BY <1>0, <1>1 DEF PageOf, TypeOK, PageType
  <1>3. \A q \in PageIds : Resident(q) =>
            page_table[q] \in Frames /\ Frame(q).page_id = q /\ Frame(q).data \in Data
    BY <1>0 DEF Resident, Frame, TypeOK, FramesPartitioned, PageType
  <1>4. \A q \in written : Resident(q)
    BY <1>1 DEF DirtyPages
  <1>5. /\ disk' \in DiskType /\ disk'.num_pages = disk.num_pages
        /\ disk'.free_pages = disk.free_pages /\ disk'.extent = disk.extent
        /\ disk'.file = [p \in PageIds |-> IF p \in written THEN Frame(p).data ELSE disk.file[p]]
    BY <1>0, <1>1, <1>3, <1>4 DEF FlushedDisk, Disk, DiskType, TypeOK
  <1>6. \A q \in PageIds : ((Resident(q))' <=> Resident(q))
    BY <1>1 DEF Resident
  <1>7. TypeOK'
    BY <1>0, <1>1, <1>2, <1>5 DEF TypeOK
  <1>8. FramesPartitioned'
    <2>1. FreeFrames' = FreeFrames /\ \A f \in FreeFrames : f \in Frames /\ pages[f] = EmptyPage
      BY <1>0, <1>1 DEF FreeFrames, FramesPartitioned, TypeOK
    <2>2. \A f \in FreeFrames : pages'[f] = EmptyPage
      <3>1. ASSUME NEW f \in FreeFrames PROVE pages'[f] = EmptyPage
        <4>1. f \in Frames /\ pages[f] = EmptyPage
          BY <2>1
        <4>2. EmptyPage.page_id = INVALID_PAGE_ID /\ EmptyPage.pin_count = 0
              /\ EmptyPage.is_dirty = FALSE /\ EmptyPage.data = Zero
          BY DEF EmptyPage, PageOf
        <4>3. pages'[f] = PageOf(INVALID_PAGE_ID, 0, FALSE, Zero)
          BY <1>1, <4>1, <4>2
        <4>4. QED
          BY <4>3 DEF EmptyPage
      <3>2. QED
        BY <3>1
    <2>3. QED
      BY <1>0, <1>1, <1>2, <1>3, <1>6, <2>1, <2>2 DEF FramesPartitioned, Frame
  <1>9. EvictableIffUnpinned'
    BY <1>0, <1>1, <1>2 DEF EvictableIffUnpinned
  <1>10. CleanMatchesDisk'
    <2>1. ASSUME NEW q \in PageIds, Resident(q), (~Frame(q).is_dirty)', q \notin unflagged
          PROVE  (Frame(q).data = disk.file[q])'
      <3>1. pages'[page_table[q]].data = Frame(q).data /\ (~Frame(q).is_dirty \/ q \in flushed)
        BY <1>1, <1>2, <1>3, <2>1 DEF Frame
      <3>2. disk'.file[q] = Frame(q).data
        BY <1>5, <2>1, <3>1 DEF IInv, DataInv, CleanMatchesDisk
      <3>3. QED
        BY <1>1, <3>1, <3>2 DEF Frame
    <2>2. QED
      BY <1>1, <1>6, <2>1 DEF CleanMatchesDisk
  <1>11. UnflaggedPinned'
    BY <1>0, <1>1, <1>2, <1>3, <1>6 DEF IInv, DataInv, UnflaggedPinned, Frame, TypeOK
  <1>12. FreePagesUnused'
    BY <1>0, <1>4, <1>5, <1>6 DEF IInv, DataInv, FreePagesUnused, TypeOK, DiskType
  <1>13. FileCoversPool'
    <2>1. \A q \in PageIds : q >= disk.num_pages => q \notin written
      BY <1>0, <1>4 DEF IInv, DataInv, FileCoversPool, TypeOK, DiskType, PageIds
    <2>2. QED
      BY <1>5, <1>6, <2>1 DEF IInv, DataInv, FileCoversPool
  <1>14. QED
    BY <1>7, <1>8, <1>9, <1>10, <1>11, <1>12, <1>13 DEF IInv, PoolInv, DataInv

\* The outcomes of DeallocatePage, on a page that is in no frame afterwards.
LEMMA DeallocateFacts ==
    ASSUME IInv, NEW p \in PageIds, p > HEADER_PAGE_ID, NEW e \in Deallocations(p)
    PROVE  /\ e \in DiskType /\ e.num_pages = disk.num_pages /\ e.extent = disk.extent
           /\ \A q \in PageIds \ {p} : e.file[q] = disk.file[q]
           /\ \/ e.free_pages = disk.free_pages
              \/ /\ e.free_pages = disk.free_pages \cup {p}
                 /\ p \in 1 .. disk.num_pages - 1 /\ e.file[p] = Zero
           /\ e.file[p] # disk.file[p] => p < disk.num_pages /\ e.file[p] = Zero
  <1>1. /\ disk \in DiskType /\ disk.num_pages <= disk.extent /\ Zero \in Data
        /\ disk.num_pages \in Int /\ disk.extent \in Int
    BY DiskAssumption DEF IInv, PoolInv, TypeOK, DiskType, DataInv, FileCoversPool
  <1>2. CASE e = disk
    BY <1>1, <1>2
  <1>3. CASE InUse(disk, p) /\ e = Stored(disk, p, Zero)
    <2>1. p < disk.num_pages
      BY <1>1, <1>3 DEF InUse
    <2>2. e = FileWith(disk, p, Zero) /\ e \in DiskType
      BY <1>1, <1>3, <2>1, WriteFacts
    <2>3. QED
      BY <1>1, <2>1, <2>2 DEF FileWith, Disk, DiskType
  <1>4. CASE InUse(disk, p) /\ e = DeallocatePage(disk, p)
    BY <1>1, <1>4 DEF DeallocatePage, InUse, Disk, DiskType
  <1>5. QED
    BY <1>2, <1>3, <1>4 DEF Deallocations, FailedDeallocate, FailedWrite, DeallocatePage

\* DeletePage of a page in no frame frees it on the disk, or leaves it allocated.
LEMMA DeleteAbsentPageInv ==
    ASSUME IInv, NEW p \in PageIds, DeleteAbsentPage(p)
    PROVE  IInv'
  <1>1. p > HEADER_PAGE_ID /\ ~Resident(p) /\ disk' \in Deallocations(p)
        /\ UNCHANGED <<replacer, pages, page_table, free_list, unflagged>>
    BY DEF DeleteAbsentPage
  <1>2. /\ disk' \in DiskType /\ disk'.num_pages = disk.num_pages /\ disk'.extent = disk.extent
        /\ \A q \in PageIds \ {p} : disk'.file[q] = disk.file[q]
        /\ \/ disk'.free_pages = disk.free_pages
           \/ /\ disk'.free_pages = disk.free_pages \cup {p}
              /\ p \in 1 .. disk.num_pages - 1 /\ disk'.file[p] = Zero
        /\ disk'.file[p] # disk.file[p] => p < disk.num_pages /\ disk'.file[p] = Zero
    BY <1>1, DeallocateFacts
  <1>3. PoolInv'
    BY <1>1, <1>2 DEF IInv, PoolInv, TypeOK, FramesPartitioned, EvictableIffUnpinned,
           FreeFrames, Resident, Frame
  <1>4. \A q \in PageIds : ((Resident(q))' <=> Resident(q)) /\ (Frame(q))' = Frame(q)
    BY <1>1 DEF Resident, Frame
  <1>5. CleanMatchesDisk'
    BY <1>1, <1>2, <1>4 DEF IInv, DataInv, CleanMatchesDisk
  <1>6. UnflaggedPinned'
    BY <1>1, <1>4 DEF IInv, DataInv, UnflaggedPinned, PoolInv, TypeOK
  <1>7. FreePagesUnused'
    <2>1. \A q \in disk.free_pages : q \in PageIds /\ q \in 1 .. disk.num_pages - 1
                                     /\ disk.file[q] = Zero /\ ~Resident(q)
      BY DEF IInv, DataInv, FreePagesUnused, PoolInv, TypeOK, DiskType
    <2>2. QED
      BY <1>1, <1>2, <1>4, <2>1 DEF FreePagesUnused
  <1>8. FileCoversPool'
    BY <1>2, <1>4 DEF IInv, DataInv, FileCoversPool
  <1>9. QED
    BY <1>3, <1>5, <1>6, <1>7, <1>8 DEF IInv, DataInv

\* DeletePage of a resident page returns its frame to the free list.
LEMMA DeleteResidentPageInv ==
    ASSUME IInv, NEW p \in PageIds, DeleteResidentPage(p)
    PROVE  IInv'
  <1> DEFINE g == page_table[p]
  <1>0. TypeOK /\ FramesPartitioned /\ EvictableIffUnpinned
    BY DEF IInv, PoolInv
  <1>1. /\ p > HEADER_PAGE_ID /\ Resident(p) /\ Frame(p).pin_count = 0
        /\ disk' \in Deallocations(p) /\ replacer' = Pin(replacer, g)
        /\ pages' = [pages EXCEPT ![g] = EmptyPage]
        /\ page_table' = [page_table EXCEPT ![p] = INVALID_FRAME_ID]
        /\ free_list' = Append(free_list, g) /\ unflagged' = unflagged
    BY DEF DeleteResidentPage
  <1>2. /\ disk' \in DiskType /\ disk'.num_pages = disk.num_pages /\ disk'.extent = disk.extent
        /\ \A q \in PageIds \ {p} : disk'.file[q] = disk.file[q]
        /\ \/ disk'.free_pages = disk.free_pages
           \/ /\ disk'.free_pages = disk.free_pages \cup {p}
              /\ p \in 1 .. disk.num_pages - 1 /\ disk'.file[p] = Zero
        /\ disk'.file[p] # disk.file[p] => p < disk.num_pages /\ disk'.file[p] = Zero
    BY <1>1, DeallocateFacts
  <1>3. g \in Frames /\ pages[g].page_id = p /\ p # INVALID_PAGE_ID /\ pages[g].pin_count = 0
    BY <1>0, <1>1 DEF TypeOK, FramesPartitioned, Resident, Frame, PageIds
  <1>4. g \notin FreeFrames
    BY <1>0, <1>3 DEF FramesPartitioned, EmptyPage, PageOf
  <1>5. /\ free_list' \in Seq(Frames) /\ Injective(free_list')
        /\ FreeFrames' = FreeFrames \cup {g}
    BY <1>0, <1>1, <1>3, <1>4, PushFacts DEF TypeOK, FramesPartitioned, Injective, FreeFrames, RangeOf
  <1>6. EmptyPage \in PageType /\ EmptyPage.page_id = INVALID_PAGE_ID
    BY DiskAssumption, MaxPinsAssumption DEF EmptyPage, PageOf, PageType
  <1>7. /\ pages' \in [Frames -> PageType] /\ pages'[g] = EmptyPage
        /\ \A f \in Frames \ {g} : pages'[f] = pages[f]
    BY <1>0, <1>1, <1>3, <1>6 DEF TypeOK
  <1>8. /\ replacer' \in ReplacerType
        /\ replacer'.in_replacer = replacer.in_replacer \ {g}
    BY <1>0, <1>1, <1>3, PinFacts DEF TypeOK
  <1>9. TypeOK'
    BY <1>0, <1>1, <1>2, <1>5, <1>7, <1>8 DEF TypeOK
  <1>10. /\ (~Resident(p))'
         /\ \A q \in PageIds \ {p} : ((Resident(q))' <=> Resident(q))
         /\ \A q \in PageIds \ {p} : Resident(q) =>
               page_table'[q] = page_table[q] /\ page_table[q] \in Frames \ {g}
               /\ (Frame(q))' = Frame(q)
    <2>1. (~Resident(p))' /\ \A q \in PageIds \ {p} : page_table'[q] = page_table[q]
      BY <1>0, <1>1 DEF Resident, TypeOK
    <2>2. \A q \in PageIds \ {p} : Resident(q) => page_table[q] \in Frames \ {g}
      BY <1>0, <1>3 DEF FramesPartitioned, Resident, Frame, TypeOK
    <2>3. QED
      BY <1>7, <2>1, <2>2 DEF Resident, Frame
  <1>11. FramesPartitioned'
    <2>1. \A f \in FreeFrames : f \in Frames /\ pages[f] = EmptyPage
      BY <1>0 DEF FramesPartitioned, FreeFrames, TypeOK
    <2>2. \A f \in FreeFrames' : pages'[f] = EmptyPage
      BY <1>5, <1>7, <2>1
    <2>3. ASSUME NEW f \in Frames \ FreeFrames'
          PROVE  pages'[f].page_id \in PageIds /\ page_table'[pages'[f].page_id] = f
      <3>1. f # g /\ pages[f].page_id \in PageIds /\ page_table[pages[f].page_id] = f
        BY <1>0, <1>5, <2>3 DEF FramesPartitioned
      <3>2. pages[f].page_id # p
        BY <3>1
      <3>3. QED
        BY <1>0, <1>1, <1>7, <3>1, <3>2 DEF TypeOK
    <2>4. \A q \in PageIds : (Resident(q))' => (Frame(q))'.page_id = q
      BY <1>0, <1>10 DEF FramesPartitioned
    <2>5. QED
      BY <1>5, <2>2, <2>3, <2>4 DEF FramesPartitioned, Injective
  <1>12. EvictableIffUnpinned'
    <2>1. \A f \in Frames \ {g} : f \in replacer'.in_replacer <=>
                pages'[f].page_id # INVALID_PAGE_ID /\ pages'[f].pin_count = 0
      BY <1>0, <1>7, <1>8 DEF EvictableIffUnpinned
    <2>2. g \notin replacer'.in_replacer /\ pages'[g].page_id = INVALID_PAGE_ID
      BY <1>6, <1>7, <1>8
    <2>3. QED
      BY <1>8, <2>1, <2>2 DEF EvictableIffUnpinned, ReplacerType
  <1>13. CleanMatchesDisk'
    BY <1>1, <1>2, <1>10 DEF IInv, DataInv, CleanMatchesDisk
  <1>14. UnflaggedPinned'
    <2>1. p \notin unflagged /\ unflagged \subseteq PageIds
      BY <1>0, <1>1 DEF IInv, DataInv, UnflaggedPinned, TypeOK
    <2>2. QED
      BY <1>1, <1>10, <2>1 DEF IInv, DataInv, UnflaggedPinned
  <1>15. FreePagesUnused'
    <2>1. \A q \in disk.free_pages : q \in PageIds /\ q \in 1 .. disk.num_pages - 1
                                     /\ disk.file[q] = Zero /\ ~Resident(q)
      BY <1>0 DEF IInv, DataInv, FreePagesUnused, TypeOK, DiskType
    <2>2. QED
      BY <1>1, <1>2, <1>10, <2>1 DEF FreePagesUnused
  <1>16. FileCoversPool'
    BY <1>2, <1>10 DEF IInv, DataInv, FileCoversPool
  <1>17. QED
    BY <1>9, <1>11, <1>12, <1>13, <1>14, <1>15, <1>16 DEF IInv, PoolInv, DataInv

-----------------------------------------------------------------------------
(* Starting.                                                               *)

(* A pool that was just constructed, over a file whose free list is right. *)
Fresh == /\ replacer = NewReplacer
         /\ pages = [f \in Frames |-> EmptyPage]
         /\ page_table = [p \in PageIds |-> INVALID_FRAME_ID]
         /\ free_list = [i \in 1 .. PoolSize |-> i - 1]
         /\ unflagged = {}
         /\ disk \in DiskType
         /\ disk.extent \in disk.num_pages .. disk.num_pages + 1
         /\ \A p \in disk.free_pages : p \in 1 .. disk.num_pages - 1 /\ disk.file[p] = Zero
         /\ \A p \in PageIds : p >= disk.num_pages => disk.file[p] = Zero

\* Such a pool satisfies the invariant.
LEMMA FreshPool == Fresh => IInv
  <1> SUFFICES ASSUME Fresh PROVE IInv
    OBVIOUS
  <1> USE DEF Fresh
  <1>1. NewReplacer \in ReplacerType /\ NewReplacer.in_replacer = {}
    BY PoolSizeAssumption DEF NewReplacer, ReplacerType, Frames
  <1>2. /\ EmptyPage \in PageType /\ EmptyPage.page_id = INVALID_PAGE_ID
    BY DiskAssumption, MaxPinsAssumption DEF EmptyPage, PageOf, PageType
  <1>3. free_list \in Seq(Frames) /\ Len(free_list) = PoolSize
        /\ \A i \in 1 .. PoolSize : free_list[i] = i - 1
    BY PoolSizeAssumption DEF Frames
  <1>4. FreeFrames = Frames
    <2>1. \A f \in Frames : f + 1 \in 1 .. PoolSize /\ free_list[f + 1] = f
      BY <1>3, PoolSizeAssumption DEF Frames
    <2>2. \A i \in 1 .. PoolSize : free_list[i] \in Frames
      BY <1>3, PoolSizeAssumption DEF Frames
    <2>3. FreeFrames \subseteq Frames
      BY <1>3, <2>2 DEF FreeFrames
    <2>4. ASSUME NEW f \in Frames PROVE f \in FreeFrames
      <3>1. f + 1 \in 1 .. Len(free_list) /\ free_list[f + 1] = f
        BY <1>3, <2>1
      <3>2. QED
        BY <3>1, Zenon DEF FreeFrames
    <2>5. QED
      BY <2>3, <2>4
  <1>5. TypeOK
    BY <1>1, <1>2, <1>3 DEF TypeOK
  <1>6. \A p \in PageIds : ~Resident(p)
    BY DEF Resident
  <1>7. FramesPartitioned
    BY <1>3, <1>4, <1>6, PoolSizeAssumption DEF FramesPartitioned
  <1>8. EvictableIffUnpinned
    BY <1>1, <1>2 DEF EvictableIffUnpinned
  <1>9. disk.free_pages \subseteq PageIds
    BY DEF DiskType
  <1>10. DataInv
    BY <1>6, <1>9 DEF DataInv, CleanMatchesDisk, UnflaggedPinned, FreePagesUnused, FileCoversPool
  <1>11. QED
    BY <1>5, <1>7, <1>8, <1>10 DEF IInv, PoolInv

\* A new database satisfies the invariant.
LEMMA InitInv == Init => IInv
  <1>1. SUFFICES ASSUME Init PROVE IInv
    OBVIOUS
  <1>2. /\ NewDisk \in DiskType /\ NewDisk.num_pages = 1 /\ NewDisk.extent = 1
        /\ NewDisk.free_pages = {} /\ NewDisk.file = [p \in PageIds |-> Zero]
    BY DiskAssumption DEF NewDisk, Disk, DiskType
  <1>3. QED
    BY <1>1, <1>2, FreshPool DEF Init, Fresh

\* So does one that is opened after a shutdown or a crash, from the file alone.
LEMMA RestartInv ==
    ASSUME IInv, NEW written \in SUBSET PageIds, Restart(written)
    PROVE  IInv'
  <1> DEFINE e == FlushedDisk(written)
  <1>1. /\ disk \in DiskType /\ disk.num_pages \in 1 .. MaxPages /\ MaxPages \in Nat
        /\ disk.extent \in disk.num_pages .. disk.num_pages + 1 /\ disk.extent \in 1 .. MaxPages
    BY DiskAssumption DEF IInv, PoolInv, TypeOK, DataInv, FileCoversPool, DiskType
  <1>2. \A q \in written : q \in PageIds /\ Resident(q) /\ q < disk.num_pages /\ Frame(q).data \in Data
    BY DEF Restart, DirtyPages, IInv, PoolInv, TypeOK, Resident, Frame, PageType,
           DataInv, FileCoversPool
  <1>3. /\ e.extent = disk.extent /\ e.file \in [PageIds -> Data]
        /\ \A q \in PageIds : q \notin written => e.file[q] = disk.file[q]
    BY <1>1, <1>2 DEF FlushedDisk, Disk, DiskType
  <1>4. \A q \in PageIds : q >= disk.num_pages => e.file[q] = Zero
    BY <1>1, <1>2, <1>3 DEF IInv, DataInv, FileCoversPool, PageIds
  <1>5. disk' = Disk(e.extent, ZeroPages(e), e.file, e.extent)
    BY DEF Restart, OpenDisk
  <1> HIDE DEF e
  <1>6. ZeroPages(e) \subseteq PageIds
    BY <1>1, <1>3 DEF ZeroPages, PageIds
  <1>7. /\ disk' \in DiskType /\ disk'.num_pages = disk.extent /\ disk'.extent = disk.extent
        /\ disk'.free_pages = ZeroPages(e) /\ disk'.file = e.file
    BY <1>1, <1>3, <1>5, <1>6 DEF Disk, DiskType
  <1>8. disk'.extent \in disk'.num_pages .. disk'.num_pages + 1
    BY <1>1, <1>7
  <1>9. \A p \in disk'.free_pages : p \in 1 .. disk'.num_pages - 1 /\ disk'.file[p] = Zero
    BY <1>1, <1>3, <1>7 DEF ZeroPages
  <1>10. \A p \in PageIds : p >= disk'.num_pages => disk'.file[p] = Zero
    BY <1>1, <1>4, <1>7 DEF PageIds
  <1>11. Fresh'
    BY <1>7, <1>8, <1>9, <1>10 DEF Fresh, Restart
  <1>12. QED
    BY <1>11, FreshPool, PTL

-----------------------------------------------------------------------------
(* Why a frame is always found.                                            *)

\* A set of natural numbers has a least element.
LEMMA LeastNatural ==
    ASSUME NEW T, T \subseteq Nat, T # {}
    PROVE  \E x \in T : \A y \in T : x <= y
  <1> DEFINE R == OpToRel(<, Nat)
  <1>1. IsWellFoundedOn(R, Nat)
    BY NatLessThanWellFounded
  <1>2. \A x, y \in Nat : <<y, x>> \in R <=> y < x
    BY DEF OpToRel
  <1> HIDE DEF R
  <1>3. PICK x \in T : \A y \in T : ~ (<<y, x>> \in R)
    BY <1>1, WFMin
  <1>4. ASSUME NEW y \in T PROVE x <= y
    <2>1. x \in Nat /\ y \in Nat
      OBVIOUS
    <2>2. ~ (y < x)
      BY <1>2, <1>3, <2>1
    <2>3. QED
      BY <2>1, <2>2
  <1>5. QED
    BY <1>4

\* Victim chooses a frame whenever the replacer holds one: the hand meets one
\* of the candidates first.
LEMMA VictimExists ==
    ASSUME NEW r \in ReplacerType, r.in_replacer # {}
    PROVE  \E f \in Frames : IsVictim(r, f)
  <1> DEFINE T == {Distance(r, g) : g \in Candidates(r)}
  <1>1. Candidates(r) # {} /\ Candidates(r) \subseteq Frames
    BY DEF Candidates, AllReferenced, ReplacerType
  <1>2. \A g \in Frames : Distance(r, g) \in Nat
    BY PoolSizeAssumption DEF Distance, ReplacerType, Frames
  <1>3. T \subseteq Nat /\ T # {}
    BY <1>1, <1>2
  <1>4. PICK x \in T : \A y \in T : x <= y
    BY <1>3, LeastNatural
  <1>5. PICK f \in Candidates(r) : x = Distance(r, f)
    OBVIOUS
  <1>6. QED
    BY <1>1, <1>4, <1>5 DEF IsVictim

\* An unpinned frame is on the free list, or in the replacer.
LEMMA UnpinnedFrameFound == IInv => FrameAvailable
  <1>1. SUFFICES ASSUME IInv, NEW g \in Frames, pages[g].pin_count = 0
                 PROVE  \E f \in Frames : FreeFrame(f) \/ VictimFrame(f)
    BY DEF FrameAvailable
  <1>2. CASE free_list # <<>>
    <2>1. Head(free_list) \in Frames
      BY <1>1, <1>2 DEF IInv, PoolInv, TypeOK
    <2>2. QED
      BY <1>2, <2>1 DEF FreeFrame
  <1>3. CASE free_list = <<>>
    <2>1. g \in Frames \ FreeFrames
      BY <1>1, <1>3 DEF FreeFrames
    <2>2. pages[g].page_id # INVALID_PAGE_ID
      BY <1>1, <2>1 DEF IInv, PoolInv, FramesPartitioned, PageIds, INVALID_PAGE_ID
    <2>3. g \in replacer.in_replacer /\ replacer \in ReplacerType
      BY <1>1, <2>2 DEF IInv, PoolInv, EvictableIffUnpinned, TypeOK
    <2>4. PICK f \in Frames : IsVictim(replacer, f)
      BY <2>3, VictimExists
    <2>5. QED
      BY <1>3, <2>4 DEF VictimFrame
  <1>4. QED
    BY <1>2, <1>3

-----------------------------------------------------------------------------
(* The theorems.                                                           *)

\* Every step preserves the invariant.
LEMMA NextInv == IInv /\ [Next]_vars => IInv'
  <1>1. SUFFICES ASSUME IInv, [Next]_vars PROVE IInv'
    OBVIOUS
  <1> USE <1>1
  <1>2. ASSUME NEW p \in PageIds, FetchPageHit(p) PROVE IInv'
    BY <1>2, FetchPageHitInv
  <1>3. ASSUME NEW p \in PageIds, NEW dirty \in BOOLEAN, UnpinPage(p, dirty) PROVE IInv'
    BY <1>3, UnpinPageInv
  <1>4. ASSUME NEW p \in PageIds, NEW v \in Data, ClientWrite(p, v) PROVE IInv'
    BY <1>4, ClientWriteInv
  <1>5. ASSUME NEW p \in PageIds, ClientSetDirty(p) PROVE IInv'
    BY <1>5, ClientSetDirtyInv
  <1>6. ASSUME NEW p \in PageIds, FlushPage(p) \/ FlushPageError(p) PROVE IInv'
    BY <1>6, FlushPageInv, FlushPageErrorInv
  <1>7. ASSUME NEW p \in PageIds, DeleteResidentPage(p) \/ DeleteAbsentPage(p) PROVE IInv'
    BY <1>7, DeleteResidentPageInv, DeleteAbsentPageInv
  <1>8. ASSUME NEW p \in PageIds, NEW f \in Frames,
               FetchPageIntoFreeFrame(p, f) \/ FetchPageEvicting(p, f)
        PROVE  IInv'
    BY <1>8, FetchPageMissInv
  <1>9. ASSUME NEW p \in PageIds, NEW f \in Frames, FetchPageReadError(p, f) PROVE IInv'
    BY <1>9, FetchPageReadErrorInv
  <1>10. ASSUME NEW p \in PageIds, NEW f \in Frames, FetchPageWriteBackError(p, f) PROVE IInv'
    BY <1>10, WriteBackErrorInv DEF FetchPageWriteBackError
  <1>11. ASSUME NEW p \in PageIds, NEW f \in Frames,
                NewPageIntoFreeFrame(p, f) \/ NewPageEvicting(p, f)
         PROVE  IInv'
    BY <1>11, NewPageInv
  <1>12. ASSUME NEW f \in Frames, NewPageWriteBackError(f) PROVE IInv'
    BY <1>12, WriteBackErrorInv DEF NewPageWriteBackError
  <1>13. ASSUME NewPageAllocateErrorFree \/ \E f \in Frames : NewPageAllocateErrorVictim(f)
         PROVE  IInv'
    BY <1>13, NewPageAllocateErrorInv
  <1>14. ASSUME NEW written \in SUBSET PageIds, Restart(written) PROVE IInv'
    BY <1>14, RestartInv
  <1>15. ASSUME NEW written \in SUBSET PageIds, NEW flushed \in SUBSET written,
                FlushAllPages(written, flushed)
         PROVE  IInv'
    BY <1>15, FlushAllPagesInv
  <1>16. CASE UNCHANGED vars
    BY <1>16, PoolKeptInv DEF vars, IInv, PoolInv, TypeOK, DataInv, FileCoversPool, FileFollows
  <1>17. CASE Next
    BY <1>17, <1>2, <1>3, <1>4, <1>5, <1>6, <1>7, <1>8, <1>9, <1>10, <1>11, <1>12, <1>13,
       <1>14, <1>15 DEF Next
  <1>18. QED
    BY <1>16, <1>17

\* The inductive invariant holds in every reachable state.
THEOREM Invariance == Spec => []IInv
  BY InitInv, NextInv, PTL DEF Spec

\* The pool, the replacer and the disk manager keep their types.
THEOREM TypeCorrect == Spec => []TypeOK
  BY Invariance, PTL DEF IInv, PoolInv

\* No frame is ever both free and in use, lost, or mapped twice.
THEOREM FramesStayPartitioned == Spec => []FramesPartitioned
  BY Invariance, PTL DEF IInv, PoolInv

\* The replacer never offers a pinned page, and never forgets an unpinned one.
THEOREM PinnedNeverOffered == Spec => []EvictableIffUnpinned
  BY Invariance, PTL DEF IInv, PoolInv

\* Dropping a page that is not dirty never loses a modification.
THEOREM CleanPagesMatchDisk == Spec => []CleanMatchesDisk
  BY Invariance, PTL DEF IInv, DataInv

\* A page in a frame lies within the file, and past its end there are only zeroes.
THEOREM FileAlwaysCovers == Spec => []FileCoversPool
  BY Invariance, PTL DEF IInv, DataInv

\* A page on the free list is empty and in no frame, restarts included.
THEOREM FreePagesStayUnused == Spec => []FreePagesUnused
  BY Invariance, PTL DEF IInv, DataInv

\* No frame is ever lost to an error path: an operation that needs a frame
\* finds one unless every frame is pinned.
THEOREM FramesNeverRunOut == Spec => []FrameAvailable
  BY Invariance, UnpinnedFrameFound, PTL
-----------------------------------------------------------------------------
(* The buffer pool implements the page store.  The refinement mapping is   *)
(* the one of BufferPoolManager: contents, pin counts and allocated pages  *)
(* are computed from the frames, the page table and the file.              *)
(*                                                                         *)
(* The steps fall into four groups, each with a lemma: steps that at most  *)
(* write to the file (Sync), steps that update the frame of one resident   *)
(* page, steps that move a page into a frame, and deletions.               *)
\* The mapping has the types of the page store, and a page that is resident
\* is in use: it is below num_pages_ and not on the free list.
LEMMA MappingFacts ==
    ASSUME IInv
    PROVE  /\ Contents \in [PageIds -> Data] /\ disk.file \in [PageIds -> Data]
           /\ PinCounts \in [PageIds -> 0 .. MaxPins] /\ MaxPins \in Nat
           /\ disk.num_pages \in 1 .. MaxPages /\ MaxPages \in Nat
           /\ Allocated \subseteq PageIds
           /\ \A q \in PageIds : Resident(q) => q \in Allocated
           /\ \A q \in PageIds : q \in Allocated <=>
                                    q < disk.num_pages /\ q \notin disk.free_pages
           /\ \A q \in PageIds : q \notin Allocated => disk.file[q] = Zero
  <1>1. /\ disk \in DiskType /\ disk.num_pages \in 1 .. MaxPages /\ MaxPages \in Nat
        /\ MaxPins \in Nat /\ disk.file \in [PageIds -> Data]
    BY DiskAssumption, MaxPinsAssumption DEF IInv, PoolInv, TypeOK, DiskType
  <1>2. \A q \in PageIds : Resident(q) => Frame(q).data \in Data /\ Frame(q).pin_count \in 0 .. MaxPins
    BY ResidentFacts
  <1>3. Contents \in [PageIds -> Data]
    BY <1>1, <1>2 DEF Contents
  <1>4. PinCounts \in [PageIds -> 0 .. MaxPins]
    BY <1>1, <1>2 DEF PinCounts
  <1>5. \A q \in PageIds : q \in Allocated <=> q < disk.num_pages /\ q \notin disk.free_pages
    BY <1>1 DEF Allocated, PageIds
  <1>6. Allocated \subseteq PageIds
    BY <1>1 DEF Allocated, PageIds
  <1>7. \A q \in PageIds : Resident(q) => q < disk.num_pages /\ q \notin disk.free_pages
    BY DEF IInv, DataInv, FreePagesUnused, FileCoversPool
  <1>8. \A q \in PageIds : q >= disk.num_pages \/ q \in disk.free_pages => disk.file[q] = Zero
    BY DEF IInv, DataInv, FreePagesUnused, FileCoversPool
  <1>9. \A q \in PageIds : q \notin Allocated => disk.file[q] = Zero
    BY <1>1, <1>5, <1>8 DEF PageIds
  <1>10. QED
    BY <1>1, <1>3, <1>4, <1>5, <1>6, <1>7, <1>9

\* Writing no page to the file leaves it as it is, and every page may be the
\* one that is not evicted.
LEMMA NothingEvicted ==
    ASSUME IInv
    PROVE  /\ Store!Synced({}) = disk.file
           /\ \A q \in PageIds : {} \in Store!Evictable(q)
  BY MappingFacts DEF Store!Synced, Store!Evictable, Store!PageIds, PageIds

-----------------------------------------------------------------------------
(* Steps that at most write pages to the file.                             *)

\* No page moves, no client writes, and the file follows the frames: some
\* pages in use have reached the file.
LEMMA SyncStep ==
    ASSUME IInv,
           \A q \in PageIds : (Resident(q))' <=> Resident(q),
           \A q \in PageIds : Resident(q) =>
               (Frame(q).data)' = Frame(q).data /\ (Frame(q).pin_count)' = Frame(q).pin_count,
           disk' \in DiskType,
           disk'.num_pages = disk.num_pages, disk'.free_pages = disk.free_pages,
           \A q \in PageIds : FileFollows(disk', q)
    PROVE  Store!StoreNext
  <1> DEFINE S == {q \in PageIds : disk'.file[q] # disk.file[q]}
  <1>1. Contents' = Contents
    BY DEF Contents, FileFollows
  <1>2. PinCounts' = PinCounts
    BY DEF PinCounts
  <1>3. Allocated' = Allocated
    BY DEF Allocated
  <1>4. \A q \in S : Resident(q) /\ disk'.file[q] = Contents[q]
    BY DEF FileFollows, Contents
  <1>5. S \subseteq Allocated
    BY <1>4, MappingFacts
  <1>6. disk'.file = Store!Synced(S)
    BY <1>4 DEF Store!Synced, Store!PageIds, PageIds, DiskType
  <1>7. S \in SUBSET Store!PageIds
    BY DEF Store!PageIds, PageIds
  <1> HIDE DEF S
  <1>8. Store!Sync(S)
    BY <1>1, <1>2, <1>3, <1>5, <1>6 DEF Store!Sync
  <1>9. QED
    BY <1>7, <1>8 DEF Store!StoreNext

\* A step that leaves the pool alone: a failed call, or nothing at all.
LEMMA PoolKeptStep ==
    ASSUME IInv, UNCHANGED <<pages, page_table>>,
           disk' \in DiskType,
           disk'.num_pages = disk.num_pages, disk'.free_pages = disk.free_pages,
           \A q \in PageIds : FileFollows(disk', q)
    PROVE  Store!StoreNext
  <1>1. \A q \in PageIds : (Resident(q))' <=> Resident(q)
    BY DEF Resident
  <1>2. \A q \in PageIds : (Frame(q))' = Frame(q)
    BY DEF Frame
  <1>3. \A q \in PageIds : Resident(q) =>
            (Frame(q).data)' = Frame(q).data /\ (Frame(q).pin_count)' = Frame(q).pin_count
    BY <1>2
  <1>4. QED
    BY <1>1, <1>3, SyncStep

\* A read or a write-back that fails, in FetchPage, NewPage or FlushPage.
LEMMA FailedIOStep ==
    ASSUME IInv,
           \/ \E p \in PageIds : FlushPageError(p)
           \/ \E p \in PageIds, f \in Frames :
                 FetchPageReadError(p, f) \/ FetchPageWriteBackError(p, f)
           \/ \E f \in Frames : NewPageWriteBackError(f)
    PROVE  Store!StoreNext
  <1>1. ASSUME NEW q \in PageIds, Resident(q), disk' \in FailedWrite(disk, q, Frame(q).data),
               UNCHANGED <<pages, page_table>>
        PROVE  Store!StoreNext
    <2>1. DiskKept(disk')
      BY <1>1, WriteBackKeeps
    <2>2. QED
      BY <1>1, <2>1, PoolKeptStep DEF DiskKept
  <1>2. ASSUME NEW p \in PageIds, FlushPageError(p) PROVE Store!StoreNext
    BY <1>1, <1>2 DEF FlushPageError
  <1>3. ASSUME NEW f \in Frames, VictimFrame(f), UNCHANGED <<pages, page_table>>,
               disk' \in FailedWrite(disk, pages[f].page_id, pages[f].data)
        PROVE  Store!StoreNext
    <2>1. /\ pages[f].page_id \in PageIds /\ Resident(pages[f].page_id)
          /\ Frame(pages[f].page_id) = pages[f]
      BY <1>3, VictimPage
    <2>2. QED
      BY <1>1, <1>3, <2>1
  <1>4. ASSUME NEW p \in PageIds, NEW f \in Frames, FetchPageReadError(p, f)
        PROVE  Store!StoreNext
    <2>1. disk' = disk /\ UNCHANGED <<pages, page_table>>
      BY <1>4 DEF FetchPageReadError
    <2>2. DiskKept(disk')
      BY <2>1, SameDiskKept
    <2>3. QED
      BY <2>1, <2>2, PoolKeptStep DEF DiskKept
  <1>5. ASSUME NEW p \in PageIds, NEW f \in Frames, FetchPageWriteBackError(p, f)
        PROVE  Store!StoreNext
    BY <1>3, <1>5 DEF FetchPageWriteBackError
  <1>6. ASSUME NEW f \in Frames, NewPageWriteBackError(f) PROVE Store!StoreNext
    BY <1>3, <1>6 DEF NewPageWriteBackError
  <1>7. QED
    BY <1>2, <1>4, <1>5, <1>6

\* An allocation that fails: the zeroes it may have written are in a page that
\* is not in use, and was empty already.
LEMMA AllocateErrorStep ==
    ASSUME IInv, NEW d, DiskKept(d), disk' \in FailedAllocate(d),
           UNCHANGED <<pages, page_table>>
    PROVE  Store!StoreNext
  <1>1. /\ d \in DiskType /\ d.extent \in d.num_pages .. d.num_pages + 1
        /\ \A q \in d.free_pages : q \in 1 .. d.num_pages - 1
        /\ d.num_pages = disk.num_pages /\ d.free_pages = disk.free_pages
    BY DEF DiskKept, IInv, DataInv, FreePagesUnused
  <1>2. /\ disk' \in DiskType
        /\ disk'.num_pages = disk.num_pages /\ disk'.free_pages = disk.free_pages
        /\ \A q \in PageIds : \/ disk'.file[q] = d.file[q]
                              \/ /\ disk'.file[q] = Zero
                                 /\ q \in disk.free_pages \/ q = disk.num_pages
    BY <1>1, AllocateErrorFacts
  <1>3. \A q \in PageIds : q \in disk.free_pages \/ q = disk.num_pages => disk.file[q] = Zero
    BY MappingFacts
  <1>4. \A q \in PageIds : FileFollows(disk', q)
    BY <1>1, <1>2, <1>3 DEF DiskKept, FileFollows
  <1>5. QED
    BY <1>2, <1>4, PoolKeptStep

\* NewPage without a page from the disk manager.
LEMMA NewPageAllocateErrorStep ==
    ASSUME IInv,
           \/ NewPageAllocateErrorFree
           \/ \E f \in Frames : NewPageAllocateErrorVictim(f)
    PROVE  Store!StoreNext
  <1>1. CASE NewPageAllocateErrorFree
    <2>1. disk' \in FailedAllocate(disk) /\ UNCHANGED <<pages, page_table>>
      BY <1>1 DEF NewPageAllocateErrorFree
    <2>2. DiskKept(disk)
      BY DEF IInv, PoolInv, TypeOK, DataInv, FileCoversPool, DiskKept, FileFollows
    <2>3. QED
      BY <2>1, <2>2, AllocateErrorStep
  <1>2. ASSUME NEW f \in Frames, NewPageAllocateErrorVictim(f)
        PROVE  Store!StoreNext
    <2>1. VictimFrame(f) /\ disk' \in FailedAllocate(WrittenBack(f))
          /\ UNCHANGED <<pages, page_table>>
      BY <1>2 DEF NewPageAllocateErrorVictim
    <2>2. DiskKept(WrittenBack(f))
      BY <2>1, WrittenBackKeeps
    <2>3. QED
      BY <2>1, <2>2, AllocateErrorStep
  <1>3. QED
    BY <1>1, <1>2

\* FlushAllPages: the pages written are dirty ones, with what they hold.
LEMMA FlushAllPagesStep ==
    ASSUME IInv, NEW written \in SUBSET PageIds, NEW flushed \in SUBSET written,
           FlushAllPages(written, flushed)
    PROVE  Store!StoreNext
  <1>1. /\ written \subseteq DirtyPages /\ disk' = FlushedDisk(written)
        /\ page_table' = page_table
        /\ pages' = [f \in Frames |->
                       PageOf(pages[f].page_id, pages[f].pin_count,
                              pages[f].is_dirty /\ pages[f].page_id \notin flushed,
                              pages[f].data)]
    BY DEF FlushAllPages
  <1>2. \A q \in PageIds : (Resident(q))' <=> Resident(q)
    BY <1>1 DEF Resident
  <1>3. \A f \in Frames : /\ pages'[f].data = pages[f].data
                          /\ pages'[f].pin_count = pages[f].pin_count
    BY <1>1 DEF PageOf
  <1>4. \A q \in PageIds : Resident(q) =>
            (Frame(q).data)' = Frame(q).data /\ (Frame(q).pin_count)' = Frame(q).pin_count
    <2>1. \A q \in PageIds : Resident(q) => page_table[q] \in Frames
      BY ResidentFacts
    <2>2. QED
      BY <1>1, <1>3, <2>1 DEF Frame
  <1>5. /\ disk'.num_pages = disk.num_pages /\ disk'.free_pages = disk.free_pages
        /\ \A q \in PageIds : FileFollows(disk', q)
    BY <1>1 DEF FlushedDisk, Disk, FileFollows, DirtyPages
  <1>6. disk' \in DiskType
    <2>1. IInv'
      BY FlushAllPagesInv
    <2>2. QED
      BY <2>1 DEF IInv, PoolInv, TypeOK
  <1>7. QED
    BY <1>2, <1>4, <1>5, <1>6, SyncStep

-----------------------------------------------------------------------------
(* Steps that update the frame of one resident page.                       *)

\* The mapping of such a step: one page has new contents and a new pin count.
LEMMA UpdateMapping ==
    ASSUME IInv, NEW p \in PageIds, Resident(p),
           NEW n \in 0 .. MaxPins, NEW b \in BOOLEAN, NEW v \in Data,
           Update(p, n, b, v), page_table' = page_table, DiskKept(disk')
    PROVE  /\ Contents' = [Contents EXCEPT ![p] = v]
           /\ PinCounts' = [PinCounts EXCEPT ![p] = n]
           /\ Allocated' = Allocated
  <1> DEFINE g == page_table[p]
  <1>1. /\ g \in Frames /\ pages'[g] = PageOf(p, n, b, v)
        /\ \A f \in Frames \ {g} : pages'[f] = pages[f]
    BY UpdateFacts DEF IInv
  <1>2. \A q \in PageIds : (Resident(q))' <=> Resident(q)
    BY DEF Resident
  <1>3. (Frame(p))' = PageOf(p, n, b, v)
    BY <1>1 DEF Frame
  <1>4. \A q \in PageIds \ {p} : Resident(q) => (Frame(q))' = Frame(q)
    <2>1. \A q \in PageIds : Resident(q) => page_table[q] \in Frames /\ Frame(q).page_id = q
      BY ResidentFacts
    <2>2. \A q \in PageIds \ {p} : Resident(q) => page_table[q] # g
      BY <2>1 DEF Frame
    <2>3. QED
      BY <1>1, <2>1, <2>2 DEF Frame
  <1>5. (Frame(p).data)' = v /\ (Frame(p).pin_count)' = n
    BY <1>3 DEF PageOf
  <1>6. \A q \in PageIds : ~Resident(q) => disk'.file[q] = disk.file[q]
    BY DEF DiskKept, FileFollows
  <1>7. Contents' = [Contents EXCEPT ![p] = v]
    BY <1>2, <1>4, <1>5, <1>6 DEF Contents
  <1>8. PinCounts' = [PinCounts EXCEPT ![p] = n]
    BY <1>2, <1>4, <1>5 DEF PinCounts
  <1>9. Allocated' = Allocated
    BY DEF Allocated, DiskKept
  <1>10. QED
    BY <1>7, <1>8, <1>9

\* FetchPage of a resident page pins it once more.
LEMMA FetchPageHitStep ==
    ASSUME IInv, NEW p \in PageIds, FetchPageHit(p)
    PROVE  Store!StoreNext
  <1>1. /\ Resident(p) /\ Frame(p).pin_count < MaxPins /\ page_table' = page_table
        /\ Update(p, Frame(p).pin_count + 1, Frame(p).is_dirty, Frame(p).data)
        /\ disk' = disk
    BY DEF FetchPageHit
  <1>2. /\ Frame(p).pin_count \in 0 .. MaxPins /\ MaxPins \in Nat
        /\ Frame(p).is_dirty \in BOOLEAN /\ Frame(p).data \in Data
    BY <1>1, ResidentFacts
  <1>3. Frame(p).pin_count + 1 \in 0 .. MaxPins
    BY <1>1, <1>2
  <1>4. /\ Contents' = [Contents EXCEPT ![p] = Frame(p).data]
        /\ PinCounts' = [PinCounts EXCEPT ![p] = Frame(p).pin_count + 1]
        /\ Allocated' = Allocated
    BY <1>1, <1>2, <1>3, SameDiskKept, UpdateMapping
  <1>5. Contents[p] = Frame(p).data /\ PinCounts[p] = Frame(p).pin_count
    BY <1>1 DEF Contents, PinCounts
  <1>6. Contents' = Contents
    BY <1>4, <1>5, MappingFacts
  <1>7. p \in Allocated
    BY <1>1, MappingFacts
  <1>8. \E q \in Store!PageIds : \E S \in Store!Evictable(q) : disk'.file = Store!Synced(S)
    BY <1>1, NothingEvicted DEF Store!PageIds, PageIds
  <1>9. Store!PinPage(p)
    BY <1>4, <1>5, <1>6, <1>7, <1>8 DEF Store!PinPage
  <1>10. QED
    BY <1>9 DEF Store!StoreNext, Store!PageIds, PageIds

\* UnpinPage releases one pin; its dirty flag is invisible.
LEMMA UnpinPageStep ==
    ASSUME IInv, NEW p \in PageIds, NEW dirty \in BOOLEAN, UnpinPage(p, dirty)
    PROVE  Store!StoreNext
  <1>1. /\ Resident(p) /\ Frame(p).pin_count > 0 /\ page_table' = page_table
        /\ Update(p, Frame(p).pin_count - 1, Frame(p).is_dirty \/ dirty, Frame(p).data)
        /\ disk' = disk
    BY DEF UnpinPage
  <1>2. /\ Frame(p).pin_count \in 0 .. MaxPins /\ MaxPins \in Nat
        /\ (Frame(p).is_dirty \/ dirty) \in BOOLEAN /\ Frame(p).data \in Data
    BY <1>1, ResidentFacts
  <1>3. Frame(p).pin_count - 1 \in 0 .. MaxPins
    BY <1>1, <1>2
  <1>4. /\ Contents' = [Contents EXCEPT ![p] = Frame(p).data]
        /\ PinCounts' = [PinCounts EXCEPT ![p] = Frame(p).pin_count - 1]
        /\ Allocated' = Allocated
    BY <1>1, <1>2, <1>3, SameDiskKept, UpdateMapping
  <1>5. Contents[p] = Frame(p).data /\ PinCounts[p] = Frame(p).pin_count
    BY <1>1 DEF Contents, PinCounts
  <1>6. Contents' = Contents
    BY <1>4, <1>5, MappingFacts
  <1>7. Store!Release(p)
    BY <1>1, <1>4, <1>5, <1>6 DEF Store!Release
  <1>8. QED
    BY <1>7 DEF Store!StoreNext, Store!PageIds, PageIds

\* A client's write is the only step that changes the contents of a page.
LEMMA ClientWriteStep ==
    ASSUME IInv, NEW p \in PageIds, NEW v \in Data, ClientWrite(p, v)
    PROVE  Store!StoreNext
  <1>1. /\ Resident(p) /\ Frame(p).pin_count > 0 /\ page_table' = page_table
        /\ Update(p, Frame(p).pin_count, Frame(p).is_dirty, v)
        /\ disk' = disk
    BY DEF ClientWrite
  <1>2. Frame(p).pin_count \in 0 .. MaxPins /\ Frame(p).is_dirty \in BOOLEAN
    BY <1>1, ResidentFacts
  <1>3. /\ Contents' = [Contents EXCEPT ![p] = v]
        /\ PinCounts' = [PinCounts EXCEPT ![p] = Frame(p).pin_count]
        /\ Allocated' = Allocated
    BY <1>1, <1>2, SameDiskKept, UpdateMapping
  <1>4. PinCounts[p] = Frame(p).pin_count
    BY <1>1 DEF PinCounts
  <1>5. PinCounts' = PinCounts
    BY <1>3, <1>4, MappingFacts
  <1>6. Store!Write(p, v)
    BY <1>1, <1>3, <1>4, <1>5 DEF Store!Write
  <1>7. QED
    BY <1>6 DEF Store!StoreNext, Store!PageIds, PageIds

\* The dirty bit is not part of the page store.
LEMMA ClientSetDirtyStep ==
    ASSUME IInv, NEW p \in PageIds, ClientSetDirty(p)
    PROVE  Store!StoreNext
  <1>1. /\ Resident(p) /\ page_table' = page_table /\ disk' = disk
        /\ Update(p, Frame(p).pin_count, TRUE, Frame(p).data)
    BY DEF ClientSetDirty
  <1>2. /\ Frame(p).pin_count \in 0 .. MaxPins /\ Frame(p).data \in Data
    BY <1>1, ResidentFacts
  <1>3. /\ Contents' = [Contents EXCEPT ![p] = Frame(p).data]
        /\ PinCounts' = [PinCounts EXCEPT ![p] = Frame(p).pin_count]
        /\ Allocated' = Allocated
    BY <1>1, <1>2, SameDiskKept, UpdateMapping
  <1>4. Contents[p] = Frame(p).data /\ PinCounts[p] = Frame(p).pin_count
    BY <1>1 DEF Contents, PinCounts
  <1>5. Contents' = Contents /\ PinCounts' = PinCounts
    BY <1>3, <1>4, MappingFacts
  <1>6. Store!Sync({})
    BY <1>1, <1>3, <1>5, NothingEvicted DEF Store!Sync
  <1>7. QED
    BY <1>6 DEF Store!StoreNext

\* FlushPage brings one page of the file up to date.
LEMMA FlushPageStep ==
    ASSUME IInv, NEW p \in PageIds, FlushPage(p)
    PROVE  Store!StoreNext
  <1>1. /\ Resident(p) /\ page_table' = page_table
        /\ disk' = WritePage(disk, p, Frame(p).data)
        /\ Update(p, Frame(p).pin_count, FALSE, Frame(p).data)
    BY DEF FlushPage
  <1>2. /\ Frame(p).pin_count \in 0 .. MaxPins /\ Frame(p).data \in Data
    BY <1>1, ResidentFacts
  <1>3. DiskKept(disk')
    BY <1>1, WriteBackKeeps
  <1>4. /\ page_table[p] \in Frames /\ pages'[page_table[p]] = PageOf(p, Frame(p).pin_count, FALSE, Frame(p).data)
        /\ \A f \in Frames \ {page_table[p]} : pages'[f] = pages[f]
    BY <1>1, <1>2, UpdateFacts DEF IInv
  <1>5. \A q \in PageIds : (Resident(q))' <=> Resident(q)
    BY <1>1 DEF Resident
  <1>6. \A f \in Frames : /\ pages'[f].data = pages[f].data
                          /\ pages'[f].pin_count = pages[f].pin_count
    BY <1>4 DEF Frame, PageOf
  <1>7. \A q \in PageIds : Resident(q) =>
            (Frame(q).data)' = Frame(q).data /\ (Frame(q).pin_count)' = Frame(q).pin_count
    <2>1. \A q \in PageIds : Resident(q) => page_table[q] \in Frames
      BY ResidentFacts
    <2>2. QED
      BY <1>1, <1>6, <2>1 DEF Frame
  <1>8. QED
    BY <1>3, <1>5, <1>7, SyncStep DEF DiskKept

-----------------------------------------------------------------------------
(* Steps that move a page into a frame.                                    *)

(* d is the disk once frame f is ready: the page that was in it, if any,   *)
(* has been written back.                                                  *)
Ready(f, d) == \/ FreeFrame(f) /\ d = disk
               \/ VictimFrame(f) /\ d = WrittenBack(f)

\* The page that leaves the frame is unpinned and its copy in the file is up
\* to date: written back when it was dirty, and already equal otherwise.
LEMMA LeavingPage ==
    ASSUME IInv, NEW f \in Frames, NEW d, Ready(f, d),
           NEW q \in PageIds, page_table[q] = f
    PROVE  /\ Resident(q) /\ VictimFrame(f) /\ PinCounts[q] = 0
           /\ d.file = [disk.file EXCEPT ![q] = Contents[q]]
  <1>1. Resident(q) /\ Frame(q) = pages[f] /\ pages[f].page_id = q
    <2>1. Resident(q)
      BY DEF Resident, Frames
    <2>2. QED
      BY <2>1, ResidentFacts DEF Frame
  <1>2. ~FreeFrame(f)
    <2>1. ASSUME FreeFrame(f) PROVE FALSE
      <3>1. f \in FreeFrames
        BY <2>1 DEF FreeFrame, FreeFrames, IInv, PoolInv, TypeOK
      <3>2. pages[f] = EmptyPage
        BY <3>1 DEF IInv, PoolInv, FramesPartitioned
      <3>3. QED
        BY <1>1, <3>2 DEF EmptyPage, PageOf, PageIds
    <2>2. QED
      BY <2>1
  <1>3. VictimFrame(f) /\ d = WrittenBack(f)
    BY <1>2 DEF Ready
  <1>4. /\ pages[f].pin_count = 0 /\ q \notin unflagged /\ pages[f].data \in Data
    BY <1>1, <1>3, VictimPage
  <1>5. Contents[q] = pages[f].data /\ PinCounts[q] = 0
    BY <1>1, <1>4 DEF Contents, PinCounts
  <1>6. CASE pages[f].is_dirty
    <2>1. d = WritePage(disk, q, pages[f].data)
      BY <1>1, <1>3, <1>6 DEF WrittenBack
    <2>2. QED
      BY <1>1, <1>3, <1>5, <2>1 DEF WritePage, Disk
  <1>7. CASE ~pages[f].is_dirty
    <2>1. d = disk /\ disk.file[q] = pages[f].data
      BY <1>1, <1>3, <1>4, <1>7, ResidentFacts DEF WrittenBack
    <2>2. QED
      BY <1>1, <1>3, <1>5, <2>1, MappingFacts
  <1>8. QED
    BY <1>6, <1>7

\* Making a frame ready pushes at most one page to the file, an unpinned one.
LEMMA ReadyFacts ==
    ASSUME IInv, NEW f \in Frames, NEW d, Ready(f, d)
    PROVE  /\ DiskKept(d)
           /\ \A q \in PageIds : ~Resident(q) => d.file[q] = disk.file[q]
           /\ \A q \in PageIds : page_table[q] = f =>
                 d.file[q] = Contents[q] /\ PinCounts[q] = 0
           /\ \E q \in Store!PageIds : \E S \in Store!Evictable(q) :
                 d.file = Store!Synced(S)
  <1>1. DiskKept(d)
    <2>1. CASE FreeFrame(f) /\ d = disk
      BY <2>1 DEF IInv, PoolInv, TypeOK, DataInv, FileCoversPool, DiskKept, FileFollows
    <2>2. CASE VictimFrame(f) /\ d = WrittenBack(f)
      BY <2>2, WrittenBackKeeps
    <2>3. QED
      BY <2>1, <2>2 DEF Ready
  <1>2. \A q \in PageIds : ~Resident(q) => d.file[q] = disk.file[q]
    BY <1>1 DEF DiskKept, FileFollows
  <1>3. \A q \in PageIds : page_table[q] = f => d.file[q] = Contents[q] /\ PinCounts[q] = 0
    <2>1. ASSUME NEW q \in PageIds, page_table[q] = f
          PROVE  d.file[q] = Contents[q] /\ PinCounts[q] = 0
      <3>1. PinCounts[q] = 0 /\ d.file = [disk.file EXCEPT ![q] = Contents[q]]
        BY <2>1, LeavingPage
      <3>2. disk.file \in [PageIds -> Data]
        BY MappingFacts
      <3>3. QED
        BY <3>1, <3>2
    <2>2. QED
      BY <2>1
  <1>4. \E q \in Store!PageIds : \E S \in Store!Evictable(q) : d.file = Store!Synced(S)
    <2>1. CASE FreeFrame(f) /\ d = disk
      <3>1. 0 \in PageIds
        BY DiskAssumption DEF PageIds
      <3>2. QED
        BY <2>1, <3>1, NothingEvicted DEF Store!PageIds, PageIds
    <2>2. CASE VictimFrame(f) /\ d = WrittenBack(f)
      <3>1. PICK q \in PageIds : page_table[q] = f
        BY <2>2, VictimPage
      <3>2. /\ Resident(q) /\ PinCounts[q] = 0
            /\ d.file = [disk.file EXCEPT ![q] = Contents[q]]
        BY <3>1, LeavingPage
      <3>3. {q} \in Store!Evictable(q)
        BY <3>2, MappingFacts DEF Store!Evictable
      <3>4. d.file = Store!Synced({q})
        BY <3>2, MappingFacts DEF Store!Synced, Store!PageIds, PageIds
      <3>5. QED
        BY <3>3, <3>4 DEF Store!PageIds, PageIds
    <2>3. QED
      BY <2>1, <2>2 DEF Ready
  <1>5. QED
    BY <1>1, <1>2, <1>3, <1>4

\* Page p takes the frame over: it has contents v and one pin, and the page
\* that left still has the contents it had.
LEMMA InstallMapping ==
    ASSUME IInv, NEW p \in PageIds, ~Resident(p), NEW f \in Frames, NEW v \in Data,
           NEW d, Ready(f, d), Install(f, p, v), FrameTaken(p, f),
           disk'.file = [d.file EXCEPT ![p] = v]
    PROVE  /\ Contents' = [Contents EXCEPT ![p] = v]
           /\ PinCounts' = [PinCounts EXCEPT ![p] = 1]
  <1>1. pages' = [pages EXCEPT ![f] = PageOf(p, 1, FALSE, v)] /\ pages \in [Frames -> PageType]
    BY DEF Install, IInv, PoolInv, TypeOK
  <1>2. pages'[f] = PageOf(p, 1, FALSE, v) /\ \A g \in Frames \ {f} : pages'[g] = pages[g]
    BY <1>1
  <1>3. /\ page_table \in [PageIds -> Frames \cup {INVALID_FRAME_ID}]
        /\ page_table'[p] = f /\ f # INVALID_FRAME_ID
        /\ \A q \in PageIds \ {p} :
              page_table'[q] = IF page_table[q] = f THEN INVALID_FRAME_ID ELSE page_table[q]
    BY DEF FrameTaken, IInv, PoolInv, TypeOK, Frames
  <1>4. (Resident(p))' /\ (Frame(p).data)' = v /\ (Frame(p).pin_count)' = 1
    BY <1>2, <1>3 DEF Resident, Frame, PageOf
  <1>5. ASSUME NEW q \in PageIds \ {p}
        PROVE  /\ (IF Resident(q) THEN Frame(q).data ELSE disk.file[q])' = Contents[q]
               /\ (IF Resident(q) THEN Frame(q).pin_count ELSE 0)' = PinCounts[q]
    <2>1. disk'.file[q] = d.file[q]
      BY DEF FrameTaken
    <2>2. CASE page_table[q] = f
      <3>1. (~Resident(q))' /\ d.file[q] = Contents[q] /\ PinCounts[q] = 0
        BY <1>3, <2>2, ReadyFacts DEF Resident
      <3>2. QED
        BY <2>1, <3>1
    <2>3. CASE page_table[q] # f /\ Resident(q)
      <3>1. (Resident(q))' /\ (Frame(q))' = Frame(q)
        BY <1>2, <1>3, <2>3 DEF Resident, Frame
      <3>2. QED
        BY <2>3, <3>1 DEF Contents, PinCounts
    <2>4. CASE ~Resident(q)
      <3>1. (~Resident(q))' /\ d.file[q] = disk.file[q]
        BY <1>3, <2>4, ReadyFacts DEF Resident
      <3>2. QED
        BY <2>1, <2>4, <3>1 DEF Contents, PinCounts
    <2>5. QED
      BY <2>2, <2>3, <2>4
  <1>6. Contents' = [Contents EXCEPT ![p] = v]
    BY <1>4, <1>5 DEF Contents
  <1>7. PinCounts' = [PinCounts EXCEPT ![p] = 1]
    BY <1>4, <1>5 DEF PinCounts
  <1>8. QED
    BY <1>6, <1>7

\* FetchPage of a page that is not resident pins it, and may push the page it
\* evicts to the file.
LEMMA FetchPageMissStep ==
    ASSUME IInv, NEW p \in PageIds, NEW f \in Frames,
           FetchPageIntoFreeFrame(p, f) \/ FetchPageEvicting(p, f)
    PROVE  Store!StoreNext
  <1>1. /\ ~Resident(p) /\ p \notin disk.free_pages /\ p < disk.num_pages
        /\ Install(f, p, disk.file[p])
    BY DEF FetchPageIntoFreeFrame, FetchPageEvicting, Miss, Exists
  <1>2. Ready(f, disk') /\ FrameTaken(p, f)
    <2>1. CASE FetchPageIntoFreeFrame(p, f)
      BY <1>1, <2>1, FreeFrameFacts DEF FetchPageIntoFreeFrame, Ready
    <2>2. CASE FetchPageEvicting(p, f)
      BY <1>1, <2>2, VictimFrameFacts DEF FetchPageEvicting, Ready
    <2>3. QED
      BY <2>1, <2>2
  <1>3. /\ DiskKept(disk') /\ disk'.file[p] = disk.file[p] /\ disk.file[p] \in Data
        /\ \E q \in Store!PageIds : \E S \in Store!Evictable(q) : disk'.file = Store!Synced(S)
    BY <1>1, <1>2, ReadyFacts, MappingFacts
  <1>4. disk'.file = [disk'.file EXCEPT ![p] = disk.file[p]]
    BY <1>3 DEF DiskKept, DiskType
  <1>5. /\ Contents' = [Contents EXCEPT ![p] = disk.file[p]]
        /\ PinCounts' = [PinCounts EXCEPT ![p] = 1]
    BY <1>1, <1>2, <1>3, <1>4, InstallMapping
  <1>6. Contents[p] = disk.file[p] /\ PinCounts[p] = 0
    BY <1>1 DEF Contents, PinCounts
  <1>7. Contents' = Contents
    BY <1>5, <1>6, MappingFacts
  <1>8. PinCounts' = [PinCounts EXCEPT ![p] = PinCounts[p] + 1]
    BY <1>5, <1>6
  <1>9. Allocated' = Allocated
    BY <1>3 DEF Allocated, DiskKept
  <1>10. p \in Allocated
    BY <1>1, MappingFacts
  <1>11. Store!PinPage(p)
    BY <1>3, <1>7, <1>8, <1>9, <1>10 DEF Store!PinPage
  <1>12. QED
    BY <1>11 DEF Store!StoreNext, Store!PageIds, PageIds

\* NewPage allocates a page that was not in use, empty and pinned.
LEMMA NewPageStep ==
    ASSUME IInv, NEW p \in PageIds, NEW f \in Frames,
           NewPageIntoFreeFrame(p, f) \/ NewPageEvicting(p, f)
    PROVE  Store!StoreNext
  <1>1. IsNextPage(disk, p) /\ Install(f, p, Zero) /\ Zero \in Data
    BY DiskAssumption DEF NewPageIntoFreeFrame, NewPageEvicting
  <1>2. p \notin Allocated /\ ~Resident(p)
    BY <1>1, MappingFacts DEF IsNextPage
  <1>3. PICK d : Ready(f, d) /\ disk' = AllocatePage(d, p) /\ FrameTaken(p, f)
    <2>1. CASE NewPageIntoFreeFrame(p, f)
      <3>1. Ready(f, disk) /\ disk' = AllocatePage(disk, p)
        BY <2>1 DEF NewPageIntoFreeFrame, Ready
      <3>2. FrameTaken(p, f)
        BY <1>2, <2>1, FreeFrameFacts DEF NewPageIntoFreeFrame
      <3>3. QED
        BY <3>1, <3>2
    <2>2. CASE NewPageEvicting(p, f)
      <3>1. Ready(f, WrittenBack(f)) /\ disk' = AllocatePage(WrittenBack(f), p)
        BY <2>2 DEF NewPageEvicting, Ready
      <3>2. FrameTaken(p, f)
        BY <1>2, <2>2, VictimFrameFacts DEF NewPageEvicting
      <3>3. QED
        BY <3>1, <3>2
    <2>3. QED
      BY <2>1, <2>2
  <1>4. /\ DiskKept(d)
        /\ \E q \in Store!PageIds : \E S \in Store!Evictable(q) : d.file = Store!Synced(S)
    BY <1>3, ReadyFacts
  <1>5. /\ d \in DiskType /\ d.extent \in d.num_pages .. d.num_pages + 1
        /\ \A q \in d.free_pages : q \in 1 .. d.num_pages - 1
        /\ d.num_pages = disk.num_pages /\ d.free_pages = disk.free_pages
    BY <1>4 DEF DiskKept, IInv, DataInv, FreePagesUnused
  <1>6. IsNextPage(d, p)
    BY <1>1, <1>5 DEF IsNextPage
  <1>7. /\ disk'.file = [d.file EXCEPT ![p] = Zero]
        /\ disk'.free_pages = disk.free_pages \ {p}
        /\ p = disk.num_pages \/ p \in disk.free_pages
        /\ disk'.num_pages = IF p = disk.num_pages THEN p + 1 ELSE disk.num_pages
    BY <1>3, <1>5, <1>6, AllocateFacts
  <1>8. Contents' = [Contents EXCEPT ![p] = Zero] /\ PinCounts' = [PinCounts EXCEPT ![p] = 1]
    BY <1>1, <1>2, <1>3, <1>7, InstallMapping
  <1>9. Allocated' = Allocated \cup {p}
    <2>1. \A q \in disk.free_pages : q \in 1 .. disk.num_pages - 1
      BY DEF IInv, DataInv, FreePagesUnused
    <2>2. disk.num_pages \in Nat /\ p \in Nat
      BY MappingFacts DEF PageIds
    <2>3. QED
      BY <1>7, <2>1, <2>2 DEF Allocated
  <1>10. \E q \in Store!PageIds : \E S \in Store!Evictable(q) :
             disk'.file = [Store!Synced(S) EXCEPT ![p] = Zero]
    BY <1>4, <1>7
  <1>11. Store!Allocate(p)
    BY <1>2, <1>8, <1>9, <1>10 DEF Store!Allocate
  <1>12. QED
    BY <1>11 DEF Store!StoreNext, Store!PageIds, PageIds

-----------------------------------------------------------------------------
(* Deletions, restarts, and the theorem.                                   *)

\* A deletion changes at most the page itself: it is freed and empty, or, when
\* its zeroes could not be written, still in use with what the file has; a page
\* that is not in use is left alone.
LEMMA DeleteStep ==
    ASSUME IInv, NEW p \in PageIds, p > HEADER_PAGE_ID, disk' \in Deallocations(p),
           PinCounts[p] = 0, (~Resident(p))',
           \A q \in PageIds \ {p} :
              /\ (Resident(q))' <=> Resident(q)
              /\ Resident(q) => (Frame(q))' = Frame(q)
    PROVE  Store!StoreNext
  <1>1. /\ disk' \in DiskType /\ disk'.num_pages = disk.num_pages
        /\ \A q \in PageIds \ {p} : disk'.file[q] = disk.file[q]
        /\ \/ disk'.free_pages = disk.free_pages
           \/ /\ disk'.free_pages = disk.free_pages \cup {p}
              /\ p \in 1 .. disk.num_pages - 1 /\ disk'.file[p] = Zero
        /\ disk'.file[p] # disk.file[p] => p < disk.num_pages /\ disk'.file[p] = Zero
    BY DeallocateFacts
  <1>2. disk'.file = [disk.file EXCEPT ![p] = disk'.file[p]]
    BY <1>1, MappingFacts DEF DiskType
  <1>3. Contents' = [Contents EXCEPT ![p] = disk'.file[p]]
    BY <1>1 DEF Contents
  <1>4. PinCounts' = PinCounts
    BY DEF PinCounts
  <1>5. p # HEADER_PAGE_ID /\ HEADER_PAGE_ID = Store!HEADER_PAGE_ID
    BY DEF HEADER_PAGE_ID, Store!HEADER_PAGE_ID, PageIds
  <1>6. CASE p \in Allocated /\ disk'.free_pages = disk.free_pages
    <2>1. Allocated' = Allocated
      BY <1>1, <1>6 DEF Allocated
    <2>2. disk'.file[p] \in {disk.file[p], Zero}
      BY <1>1
    <2>3. Store!DeleteRefused(p)
      BY <1>2, <1>3, <1>4, <1>5, <1>6, <2>1, <2>2 DEF Store!DeleteRefused
    <2>4. QED
      BY <2>3 DEF Store!StoreNext, Store!PageIds, PageIds
  <1>7. CASE p \in Allocated /\ disk'.free_pages # disk.free_pages
    <2>1. disk'.free_pages = disk.free_pages \cup {p} /\ disk'.file[p] = Zero
      BY <1>1, <1>7
    <2>2. Allocated' = Allocated \ {p}
      BY <1>1, <2>1 DEF Allocated
    <2>3. Store!Delete(p)
      BY <1>2, <1>3, <1>4, <1>5, <1>7, <2>1, <2>2 DEF Store!Delete
    <2>4. QED
      BY <2>3 DEF Store!StoreNext, Store!PageIds, PageIds
  <1>8. CASE p \notin Allocated
    <2>1. ~Resident(p) /\ disk.file[p] = Zero
      BY <1>8, MappingFacts
    <2>2. disk'.file[p] = disk.file[p]
      BY <1>1, <2>1
    <2>3. disk'.file = disk.file
      BY <1>2, <2>2, MappingFacts
    <2>4. Contents[p] = disk.file[p]
      BY <2>1 DEF Contents
    <2>5. Contents' = Contents
      BY <1>3, <2>2, <2>4, MappingFacts
    <2>6. disk'.free_pages = disk.free_pages
      BY <1>1, <1>8 DEF Allocated
    <2>7. Allocated' = Allocated
      BY <1>1, <2>6 DEF Allocated
    <2>8. Store!Sync({})
      BY <1>4, <2>3, <2>5, <2>7, NothingEvicted DEF Store!Sync
    <2>9. QED
      BY <2>8 DEF Store!StoreNext
  <1>9. QED
    BY <1>6, <1>7, <1>8

\* DeletePage, with the page in a frame or not.
LEMMA DeletePageStep ==
    ASSUME IInv, NEW p \in PageIds, DeleteResidentPage(p) \/ DeleteAbsentPage(p)
    PROVE  Store!StoreNext
  <1>1. CASE DeleteResidentPage(p)
    <2>1. /\ p > HEADER_PAGE_ID /\ Resident(p) /\ Frame(p).pin_count = 0
          /\ disk' \in Deallocations(p)
          /\ pages' = [pages EXCEPT ![page_table[p]] = EmptyPage]
          /\ page_table' = [page_table EXCEPT ![p] = INVALID_FRAME_ID]
      BY <1>1 DEF DeleteResidentPage
    <2>2. /\ page_table \in [PageIds -> Frames \cup {INVALID_FRAME_ID}]
          /\ pages \in [Frames -> PageType]
      BY DEF IInv, PoolInv, TypeOK
    <2>3. (~Resident(p))' /\ \A q \in PageIds \ {p} : page_table'[q] = page_table[q]
      BY <2>1, <2>2 DEF Resident
    <2>4. \A q \in PageIds \ {p} : Resident(q) =>
              page_table[q] \in Frames /\ page_table[q] # page_table[p]
      BY <2>1, ResidentFacts DEF Frame
    <2>5. \A q \in PageIds \ {p} : /\ (Resident(q))' <=> Resident(q)
                                   /\ Resident(q) => (Frame(q))' = Frame(q)
      BY <2>1, <2>2, <2>3, <2>4 DEF Resident, Frame
    <2>6. PinCounts[p] = 0
      BY <2>1 DEF PinCounts
    <2>7. QED
      BY <2>1, <2>3, <2>5, <2>6, DeleteStep
  <1>2. CASE DeleteAbsentPage(p)
    <2>1. /\ p > HEADER_PAGE_ID /\ ~Resident(p) /\ disk' \in Deallocations(p)
          /\ pages' = pages /\ page_table' = page_table
      BY <1>2 DEF DeleteAbsentPage
    <2>2. PinCounts[p] = 0
      BY <2>1 DEF PinCounts
    <2>3. (~Resident(p))'
      BY <2>1 DEF Resident
    <2>4. \A q \in PageIds \ {p} : /\ (Resident(q))' <=> Resident(q)
                                   /\ Resident(q) => (Frame(q))' = Frame(q)
      BY <2>1 DEF Resident, Frame
    <2>5. QED
      BY <2>1, <2>2, <2>3, <2>4, DeleteStep
  <1>3. QED
    BY <1>1, <1>2

\* A restart brings back the file, with the dirty pages that were flushed; the
\* zero pages of the file are the free ones.
LEMMA RestartStep ==
    ASSUME IInv, NEW written \in SUBSET PageIds, Restart(written)
    PROVE  Store!StoreNext
  <1> DEFINE e == FlushedDisk(written)
  <1>1. /\ written \subseteq DirtyPages /\ disk' = OpenDisk(e)
        /\ page_table' = [p \in PageIds |-> INVALID_FRAME_ID]
    BY DEF Restart
  <1>2. /\ e.extent = disk.extent
        /\ e.file = [p \in PageIds |-> IF p \in written THEN Frame(p).data ELSE disk.file[p]]
    BY DEF FlushedDisk, Disk
  <1>3. \A q \in written : Resident(q) /\ Contents[q] = Frame(q).data
    BY <1>1 DEF DirtyPages, Contents
  <1>4. e.file = Store!Synced(written)
    BY <1>2, <1>3 DEF Store!Synced, Store!PageIds, PageIds
  <1>5. /\ disk'.num_pages = e.extent /\ disk'.file = e.file
        /\ disk'.free_pages = {p \in 1 .. e.extent - 1 : e.file[p] = Zero}
    BY <1>1 DEF OpenDisk, Disk, ZeroPages
  <1> HIDE DEF e
  <1>6. \A q \in PageIds : (~Resident(q))'
    BY <1>1 DEF Resident
  <1>7. e.file \in [PageIds -> Data]
    BY <1>4, MappingFacts DEF Store!Synced, Store!PageIds, PageIds
  <1>8. Contents' = disk'.file
    BY <1>5, <1>6, <1>7 DEF Contents
  <1>9. PinCounts' = [p \in PageIds |-> 0]
    BY <1>6 DEF PinCounts
  <1>10. written \subseteq Allocated
    BY <1>3, MappingFacts
  <1>11. Allocated' = {HEADER_PAGE_ID} \cup {p \in Allocated : disk'.file[p] # Zero}
    <2>1. /\ disk.num_pages \in 1 .. MaxPages /\ MaxPages \in Nat
          /\ disk.extent \in disk.num_pages .. disk.num_pages + 1
          /\ disk.extent \in 1 .. MaxPages
      BY MappingFacts DEF IInv, PoolInv, TypeOK, DiskType, DataInv, FileCoversPool
    <2>2. \A q \in PageIds : q \notin Allocated => e.file[q] = Zero
      BY <1>2, <1>10, MappingFacts
    <2>3. \A q \in Allocated : q \in PageIds /\ q < disk.num_pages
      BY MappingFacts
    <2>4. Allocated' = {p \in 0 .. disk.extent - 1 : p = 0 \/ e.file[p] # Zero}
      BY <1>2, <1>5, <2>1 DEF Allocated
    <2>5. ASSUME NEW q \in 0 .. disk.extent - 1, q # 0, e.file[q] # Zero
          PROVE  q \in Allocated
      BY <2>1, <2>2, <2>5 DEF PageIds
    <2>6. QED
      BY <1>5, <2>1, <2>3, <2>4, <2>5 DEF PageIds, HEADER_PAGE_ID
  <1>12. HEADER_PAGE_ID = Store!HEADER_PAGE_ID /\ PageIds = Store!PageIds
    BY DEF HEADER_PAGE_ID, Store!HEADER_PAGE_ID, PageIds, Store!PageIds
  <1>13. Store!Reopen(written)
    BY <1>4, <1>5, <1>8, <1>9, <1>10, <1>11, <1>12 DEF Store!Reopen
  <1>14. QED
    BY <1>12, <1>13 DEF Store!StoreNext

\* A new database is an empty store.
LEMMA InitStep == Init => Store!StoreInit
  <1>1. SUFFICES ASSUME Init PROVE Store!StoreInit
    OBVIOUS
  <1>2. /\ disk.num_pages = 1 /\ disk.free_pages = {}
        /\ disk.file = [p \in PageIds |-> Zero]
    BY <1>1 DEF Init, NewDisk, Disk
  <1>3. \A q \in PageIds : ~Resident(q)
    BY <1>1 DEF Init, Resident
  <1>4. Contents = [p \in PageIds |-> Zero] /\ PinCounts = [p \in PageIds |-> 0]
    BY <1>2, <1>3 DEF Contents, PinCounts
  <1>5. Allocated = {Store!HEADER_PAGE_ID}
    BY <1>2 DEF Allocated, Store!HEADER_PAGE_ID
  <1>6. QED
    BY <1>2, <1>4, <1>5 DEF Store!StoreInit, Store!PageIds, PageIds

\* Every step of the pool is a step of the store.
LEMMA NextStep == IInv /\ [Next]_vars => [Store!StoreNext]_(Store!storeVars)
  <1>1. SUFFICES ASSUME IInv, [Next]_vars PROVE Store!StoreNext
    OBVIOUS
  <1> USE <1>1
  <1>2. ASSUME NEW p \in PageIds, FetchPageHit(p) PROVE Store!StoreNext
    BY <1>2, FetchPageHitStep
  <1>3. ASSUME NEW p \in PageIds, NEW dirty \in BOOLEAN, UnpinPage(p, dirty)
        PROVE  Store!StoreNext
    BY <1>3, UnpinPageStep
  <1>4. ASSUME NEW p \in PageIds, NEW v \in Data, ClientWrite(p, v) PROVE Store!StoreNext
    BY <1>4, ClientWriteStep
  <1>5. ASSUME NEW p \in PageIds, ClientSetDirty(p) \/ FlushPage(p) PROVE Store!StoreNext
    BY <1>5, ClientSetDirtyStep, FlushPageStep
  <1>6. ASSUME NEW p \in PageIds, DeleteResidentPage(p) \/ DeleteAbsentPage(p)
        PROVE  Store!StoreNext
    BY <1>6, DeletePageStep
  <1>7. ASSUME NEW p \in PageIds, NEW f \in Frames,
               \/ FetchPageIntoFreeFrame(p, f) \/ FetchPageEvicting(p, f)
               \/ NewPageIntoFreeFrame(p, f) \/ NewPageEvicting(p, f)
        PROVE  Store!StoreNext
    BY <1>7, FetchPageMissStep, NewPageStep
  <1>8. ASSUME NEW p \in PageIds, FlushPageError(p) PROVE Store!StoreNext
    BY <1>8, FailedIOStep
  <1>9. ASSUME NEW p \in PageIds, NEW f \in Frames,
               FetchPageReadError(p, f) \/ FetchPageWriteBackError(p, f)
        PROVE  Store!StoreNext
    BY <1>9, FailedIOStep
  <1>10. ASSUME NEW f \in Frames, NewPageWriteBackError(f) PROVE Store!StoreNext
    BY <1>10, FailedIOStep
  <1>11. ASSUME NewPageAllocateErrorFree \/ \E f \in Frames : NewPageAllocateErrorVictim(f)
         PROVE  Store!StoreNext
    BY <1>11, NewPageAllocateErrorStep
  <1>12. ASSUME NEW written \in SUBSET PageIds, Restart(written) PROVE Store!StoreNext
    BY <1>12, RestartStep
  <1>13. ASSUME NEW written \in SUBSET PageIds, NEW flushed \in SUBSET written,
                FlushAllPages(written, flushed)
         PROVE  Store!StoreNext
    BY <1>13, FlushAllPagesStep
  <1>14. CASE UNCHANGED vars
    <2>1. disk' = disk /\ UNCHANGED <<pages, page_table>>
      BY <1>14 DEF vars
    <2>2. DiskKept(disk')
      BY <2>1, SameDiskKept
    <2>3. QED
      BY <2>1, <2>2, PoolKeptStep DEF DiskKept
  <1>15. CASE Next
    BY <1>15, <1>2, <1>3, <1>4, <1>5, <1>6, <1>7, <1>8, <1>9, <1>10, <1>11, <1>12, <1>13
       DEF Next
  <1>16. QED
    BY <1>14, <1>15

\* "Eviction, write-back, failed I/O and frame reuse are invisible": the pool
\* of the code, with any number of frames, is a page store.
THEOREM PoolImplementsStore == Spec => ImplementsPageStore
  BY Invariance, InitStep, NextStep, PTL DEF Spec, ImplementsPageStore, Store!StoreSpec

-----------------------------------------------------------------------------
(* The loops of ClockReplacer::Victim (ClockSweep) always find a frame, and *)
(* it is the frame the one-step policy names over which the pool is        *)
(* modelled.                                                               *)

\* Where the hand is after n moves from where the call found it.
HandAfter(n) == IF before.clock_hand + n >= PoolSize
                THEN before.clock_hand + n - PoolSize ELSE before.clock_hand + n

\* The candidates the hand has passed after n moves.
Passed(n) == {g \in before.in_replacer : Distance(before, g) < n}

SweepTypes == /\ replacer \in ReplacerType /\ before \in ReplacerType
              /\ pc \in {"idle", "first", "second"} /\ count \in 0 .. PoolSize

\* Between two iterations: the hand has moved count frames, no candidate has
\* left, and the bits of exactly the candidates it passed are cleared.  In the
\* first loop all of those had their bit set; when the second loop begins all
\* candidates had, and it has passed none of them so far.
LoopInv ==
    pc # "idle" =>
        /\ before.in_replacer # {} /\ replacer.in_replacer = before.in_replacer
        /\ replacer.clock_hand = HandAfter(count)
        /\ pc = "first" => /\ Passed(count) \subseteq before.ref_flags
                           /\ replacer.ref_flags = before.ref_flags \ Passed(count)
        /\ pc = "second" => /\ before.in_replacer \subseteq before.ref_flags
                            /\ replacer.ref_flags = before.ref_flags \ before.in_replacer
                            /\ Passed(count) = {}

SweepInv == SweepTypes /\ LoopInv

-----------------------------------------------------------------------------
(* The hand.                                                               *)

\* (clock_hand_ + 1) % pool_size_ without the remainder.
LEMMA HandAdvances ==
    ASSUME NEW x \in Frames
    PROVE  /\ (x + 1) % PoolSize = IF x = PoolSize - 1 THEN 0 ELSE x + 1
           /\ (x + 1) % PoolSize \in Frames
  BY PoolSizeAssumption DEF Frames

\* Advanced moves the hand and nothing else.
LEMMA AdvancedFacts ==
    ASSUME NEW r \in ReplacerType
    PROVE  /\ Advanced(r) \in ReplacerType
           /\ Advanced(r).clock_hand =
                 IF r.clock_hand = PoolSize - 1 THEN 0 ELSE r.clock_hand + 1
           /\ Advanced(r).in_replacer = r.in_replacer
           /\ Advanced(r).ref_flags = r.ref_flags
  <1>1. r.clock_hand \in Frames
    BY DEF ReplacerType
  <1>2. QED
    BY <1>1, HandAdvances DEF Advanced, ReplacerType

\* Every frame is met at its distance, which is less than the pool size, and the
\* hand has made a full turn after as many moves as there are frames.
LEMMA HandFacts ==
    ASSUME SweepTypes
    PROVE  /\ \A g \in Frames : Distance(before, g) \in 0 .. PoolSize - 1
           /\ \A n \in 0 .. PoolSize - 1, g \in Frames :
                 g = HandAfter(n) <=> Distance(before, g) = n
           /\ \A n \in 0 .. PoolSize - 1 :
                 HandAfter(n + 1) =
                    IF HandAfter(n) = PoolSize - 1 THEN 0 ELSE HandAfter(n) + 1
           /\ HandAfter(PoolSize) = HandAfter(0) /\ HandAfter(0) = before.clock_hand
  <1>1. before.clock_hand \in 0 .. PoolSize - 1 /\ PoolSize \in Nat \ {0}
    BY PoolSizeAssumption DEF SweepTypes, ReplacerType, Frames
  <1>2. QED
    BY <1>1 DEF Distance, HandAfter, Frames

\* One more move passes the frame under the hand, if it is a candidate.
LEMMA PassedFacts ==
    ASSUME SweepTypes, count < PoolSize, hand = HandAfter(count)
    PROVE  /\ hand \in Frames /\ Distance(before, hand) = count
           /\ Passed(count + 1) = Passed(count) \cup (before.in_replacer \cap {hand})
           /\ hand \notin Passed(count)
  <1>1. hand \in Frames /\ count \in 0 .. PoolSize - 1
        /\ before.in_replacer \subseteq Frames
    BY PoolSizeAssumption DEF SweepTypes, ReplacerType, hand
  <1>2. Distance(before, hand) = count
    BY <1>1, HandFacts
  <1>3. \A g \in before.in_replacer :
           /\ Distance(before, g) \in 0 .. PoolSize - 1
           /\ g = hand <=> Distance(before, g) = count
    BY <1>1, HandFacts
  <1>4. QED
    BY <1>1, <1>2, <1>3 DEF Passed

-----------------------------------------------------------------------------
(* The invariant.                                                          *)

\* The invariant holds in a new replacer.
LEMMA SweepInitInv == SweepInit => SweepInv
  <1>1. NewReplacer \in ReplacerType
    BY PoolSizeAssumption DEF NewReplacer, ReplacerType, Frames
  <1>2. QED
    BY <1>1, PoolSizeAssumption DEF SweepInit, ReplacerInit, SweepInv, SweepTypes, LoopInv

\* Between the calls of Victim only the types matter.
LEMMA IdleInv ==
    ASSUME SweepInv, pc' = "idle", replacer' \in ReplacerType, UNCHANGED <<count, before>>
    PROVE  SweepInv'
  BY DEF SweepInv, SweepTypes, LoopInv

\* At the call the hand has passed nothing.
LEMMA CallVictimInv ==
    ASSUME SweepInv, CallVictim
    PROVE  SweepInv'
  <1>1. SweepTypes' /\ before' = replacer /\ replacer' = replacer /\ count' = 0
    BY PoolSizeAssumption DEF SweepInv, SweepTypes, CallVictim
  <1>2. replacer.clock_hand \in 0 .. PoolSize - 1 /\ replacer.in_replacer \subseteq Frames
    BY DEF SweepInv, SweepTypes, ReplacerType, Frames
  <1>3. HandAfter(count)' = replacer.clock_hand
    BY <1>1, <1>2, PoolSizeAssumption DEF HandAfter
  <1>4. Passed(count)' = {}
    BY <1>1, <1>2, PoolSizeAssumption DEF Passed, Distance, Frames
  <1>5. QED
    BY <1>1, <1>3, <1>4 DEF SweepInv, LoopInv, CallVictim

\* An iteration that does not return.
LEMMA ContinueInv ==
    ASSUME SweepInv, NEW r \in ReplacerType, Continue(r), pc # "idle", count < PoolSize,
           r.clock_hand = replacer.clock_hand, r.in_replacer = replacer.in_replacer,
           pc = "first" => Passed(count + 1) \subseteq before.ref_flags
                           /\ r.ref_flags = before.ref_flags \ Passed(count + 1),
           pc = "second" => r.ref_flags = replacer.ref_flags /\ Passed(count + 1) = {}
    PROVE  SweepInv'
  <1>1. /\ replacer' \in ReplacerType /\ replacer'.in_replacer = replacer.in_replacer
        /\ replacer'.ref_flags = r.ref_flags
        /\ replacer'.clock_hand = IF r.clock_hand = PoolSize - 1 THEN 0 ELSE r.clock_hand + 1
    BY AdvancedFacts DEF Continue
  <1>2. count \in 0 .. PoolSize - 1 /\ count' = count + 1
    BY PoolSizeAssumption DEF SweepInv, SweepTypes, Continue
  <1>3. replacer'.clock_hand = HandAfter(count + 1)
    BY <1>1, <1>2, HandFacts DEF SweepInv, LoopInv
  <1>4. before' = before /\ pc' = pc
    BY DEF Continue
  <1>5. HandAfter(count)' = HandAfter(count + 1) /\ Passed(count)' = Passed(count + 1)
    BY <1>2, <1>4 DEF HandAfter, Passed, Distance
  <1>6. SweepTypes'
    BY <1>1, <1>2, <1>4, PoolSizeAssumption DEF SweepInv, SweepTypes
  <1>7. QED
    BY <1>1, <1>3, <1>4, <1>5, <1>6 DEF SweepInv, LoopInv

\* The replacer an iteration that returns leaves behind.
LEMMA SelectTypes ==
    ASSUME SweepInv
    PROVE  Advanced([replacer EXCEPT !.in_replacer = @ \ {hand}]) \in ReplacerType
  <1>1. [replacer EXCEPT !.in_replacer = @ \ {hand}] \in ReplacerType
    BY DEF SweepInv, SweepTypes, ReplacerType
  <1>2. QED
    BY <1>1, AdvancedFacts

\* The first loop clears the bit of each candidate it passes.
LEMMA FirstLoopInv ==
    ASSUME SweepInv, FirstLoop
    PROVE  SweepInv'
  <1>1. /\ pc = "first" /\ count < PoolSize /\ replacer \in ReplacerType
        /\ replacer.in_replacer = before.in_replacer /\ hand = HandAfter(count)
        /\ Passed(count) \subseteq before.ref_flags
        /\ replacer.ref_flags = before.ref_flags \ Passed(count)
    BY DEF SweepInv, SweepTypes, LoopInv, FirstLoop, hand
  <1>2. /\ Passed(count + 1) = Passed(count) \cup (before.in_replacer \cap {hand})
        /\ hand \notin Passed(count)
    BY <1>1, PassedFacts DEF SweepInv
  <1>3. CASE Select
    BY <1>3, SelectTypes, IdleInv DEF Select
  <1>4. CASE /\ hand \in replacer.in_replacer \cap replacer.ref_flags
             /\ Continue([replacer EXCEPT !.ref_flags = @ \ {hand}])
    <2> DEFINE r == [replacer EXCEPT !.ref_flags = @ \ {hand}]
    <2>1. /\ r \in ReplacerType /\ r.clock_hand = replacer.clock_hand
          /\ r.in_replacer = replacer.in_replacer
          /\ r.ref_flags = replacer.ref_flags \ {hand}
      BY <1>1 DEF ReplacerType
    <2>2. /\ Passed(count + 1) \subseteq before.ref_flags
          /\ r.ref_flags = before.ref_flags \ Passed(count + 1)
      BY <1>1, <1>2, <1>4, <2>1
    <2> HIDE DEF r
    <2>3. Continue(r)
      BY <1>4 DEF r
    <2>4. QED
      BY <1>1, <2>1, <2>2, <2>3, ContinueInv
  <1>5. CASE hand \notin replacer.in_replacer /\ Continue(replacer)
    <2>1. Passed(count + 1) = Passed(count)
      BY <1>1, <1>2, <1>5
    <2>2. QED
      BY <1>1, <1>5, <2>1, ContinueInv
  <1>6. QED
    BY <1>3, <1>4, <1>5 DEF FirstLoop

\* After a full turn every candidate has been passed, so every one had its bit set.
LEMMA FirstLoopEndsInv ==
    ASSUME SweepInv, FirstLoopEnds
    PROVE  SweepInv'
  <1>1. /\ pc = "first" /\ count = PoolSize /\ pc' = "second" /\ count' = 0
        /\ replacer' = replacer /\ before' = before
    BY DEF FirstLoopEnds
  <1>2. before.in_replacer \subseteq Frames /\ SweepTypes
    BY DEF SweepInv, SweepTypes, ReplacerType
  <1>3. Passed(PoolSize) = before.in_replacer
    BY <1>2, HandFacts, PoolSizeAssumption DEF Passed
  <1>4. Passed(0) = {}
    BY <1>2, HandFacts, PoolSizeAssumption DEF Passed
  <1>5. HandAfter(PoolSize) = HandAfter(0)
    BY <1>2, HandFacts
  <1>6. Passed(count)' = Passed(0) /\ HandAfter(count)' = HandAfter(0)
    BY <1>1 DEF Passed, HandAfter, Distance
  <1>7. SweepTypes'
    BY <1>1, <1>2, PoolSizeAssumption DEF SweepTypes
  <1>8. QED
    BY <1>1, <1>3, <1>4, <1>5, <1>6, <1>7 DEF SweepInv, LoopInv

\* The second loop returns at the first candidate, so it passes none.
LEMMA SecondLoopInv ==
    ASSUME SweepInv, SecondLoop
    PROVE  SweepInv'
  <1>1. /\ pc = "second" /\ count < PoolSize /\ replacer \in ReplacerType
        /\ replacer.in_replacer = before.in_replacer /\ hand = HandAfter(count)
        /\ Passed(count) = {}
    BY DEF SweepInv, SweepTypes, LoopInv, SecondLoop, hand
  <1>2. Passed(count + 1) = Passed(count) \cup (before.in_replacer \cap {hand})
    BY <1>1, PassedFacts DEF SweepInv
  <1>3. CASE Select
    BY <1>3, SelectTypes, IdleInv DEF Select
  <1>4. CASE hand \notin replacer.in_replacer /\ Continue(replacer)
    <2>1. Passed(count + 1) = {}
      BY <1>1, <1>2, <1>4
    <2>2. QED
      BY <1>1, <1>4, <2>1, ContinueInv
  <1>5. QED
    BY <1>3, <1>4 DEF SecondLoop

\* A call of Pin or Unpin between two calls of Victim.
LEMMA PinsInv ==
    ASSUME SweepInv, NEW f \in Frames, CallPin(f) \/ CallUnpin(f)
    PROVE  SweepInv'
  <1>1. replacer \in ReplacerType
    BY DEF SweepInv, SweepTypes
  <1>2. replacer' \in ReplacerType
    BY <1>1 DEF CallPin, CallUnpin, PinStep, UnpinStep, Pin, Unpin, ReplacerType
  <1>3. QED
    BY <1>2, IdleInv DEF CallPin, CallUnpin

\* Every step preserves the invariant.
LEMMA SweepStepInv == SweepInv /\ [SweepNext]_sweepVars => SweepInv'
  <1> SUFFICES ASSUME SweepInv, [SweepNext]_sweepVars PROVE SweepInv'
    OBVIOUS
  <1>1. CASE UNCHANGED sweepVars
    BY <1>1 DEF sweepVars, SweepInv, SweepTypes, LoopInv, HandAfter, Passed, Distance
  <1>2. ASSUME NEW f \in Frames, CallPin(f) \/ CallUnpin(f) PROVE SweepInv'
    BY <1>2, PinsInv
  <1>3. CASE CallVictim
    BY <1>3, CallVictimInv
  <1>4. CASE FirstLoop
    BY <1>4, FirstLoopInv
  <1>5. CASE FirstLoopEnds
    BY <1>5, FirstLoopEndsInv
  <1>6. CASE SecondLoop
    BY <1>6, SecondLoopInv
  <1>7. QED
    BY <1>1, <1>2, <1>3, <1>4, <1>5, <1>6 DEF SweepNext

\* The loops of Victim keep to their invariant.
THEOREM SweepInvariance == SweepSpec => []SweepInv
  BY SweepInitInv, SweepStepInv, PTL DEF SweepSpec

-----------------------------------------------------------------------------
(* Dead code.                                                              *)

\* ClockReplacer::Victim never falls through its second loop, for every pool
\* size: after a full turn it would have passed every candidate, and it has
\* passed none.
THEOREM FallThroughIsDead == SweepSpec => []SecondLoopNeverRunsDry
  <1>1. SweepInv => SecondLoopNeverRunsDry
    <2> SUFFICES ASSUME SweepInv, pc = "second", count = PoolSize PROVE FALSE
      BY DEF SecondLoopNeverRunsDry
    <2>1. SweepTypes /\ before.in_replacer \subseteq Frames
      BY DEF SweepInv, SweepTypes, ReplacerType
    <2>2. Passed(PoolSize) = before.in_replacer
      BY <2>1, HandFacts, PoolSizeAssumption DEF Passed
    <2>3. QED
      BY <2>2 DEF SweepInv, LoopInv
  <1>2. QED
    BY <1>1, SweepInvariance, PTL

-----------------------------------------------------------------------------
(* The policy.                                                             *)

AbstractReplacer == IF pc = "idle" THEN replacer ELSE before

\* The first loop returns the nearest candidate without its bit, and the second
\* the nearest one.
LEMMA SelectsVictim ==
    ASSUME SweepInv, pc # "idle", count < PoolSize, Select,
           pc = "first" => hand \in replacer.in_replacer \ replacer.ref_flags,
           pc = "second" => hand \in replacer.in_replacer
    PROVE  /\ hand \in Frames /\ IsVictim(before, hand)
           /\ replacer' = AfterVictim(before, hand)
  <1>1. SweepTypes /\ replacer \in ReplacerType /\ before \in ReplacerType
        /\ replacer.in_replacer = before.in_replacer
        /\ hand = HandAfter(count) /\ hand \in before.in_replacer
    BY DEF SweepInv, SweepTypes, LoopInv, hand
  <1>2. /\ hand \in Frames /\ Distance(before, hand) = count
        /\ hand \notin Passed(count)
    BY <1>1, PassedFacts
  <1>3. \A g \in before.in_replacer :
           Distance(before, g) \in 0 .. PoolSize - 1 /\ (g \in Passed(count) \/ Distance(before, g) >= count)
    BY <1>1, HandFacts DEF Passed, ReplacerType, SweepTypes
  <1> DEFINE r == [replacer EXCEPT !.in_replacer = @ \ {hand}]
  <1>4. /\ r \in ReplacerType /\ r.clock_hand = hand
        /\ r.in_replacer = before.in_replacer \ {hand}
        /\ r.ref_flags = replacer.ref_flags
    BY <1>1 DEF ReplacerType, hand
  <1> HIDE DEF r
  <1>5. /\ replacer' \in ReplacerType
        /\ replacer'.clock_hand = IF hand = PoolSize - 1 THEN 0 ELSE hand + 1
        /\ replacer'.in_replacer = before.in_replacer \ {hand}
        /\ replacer'.ref_flags = replacer.ref_flags
    <2>1. replacer' = Advanced(r)
      BY DEF Select, r
    <2>2. QED
      BY <1>4, <2>1, AdvancedFacts
  <1>6. replacer' = [clock_hand  |-> IF hand = PoolSize - 1 THEN 0 ELSE hand + 1,
                     in_replacer |-> before.in_replacer \ {hand},
                     ref_flags   |-> replacer.ref_flags]
    BY <1>5 DEF ReplacerType
  <1>7. CASE pc = "first"
    <2>1. /\ Passed(count) \subseteq before.ref_flags
          /\ replacer.ref_flags = before.ref_flags \ Passed(count)
          /\ hand \notin replacer.ref_flags
      BY <1>7 DEF SweepInv, LoopInv
    <2>2. hand \notin before.ref_flags
      BY <1>2, <2>1
    <2>3. ~AllReferenced(before) /\ Candidates(before) = before.in_replacer \ before.ref_flags
      BY <1>1, <2>2 DEF AllReferenced, Candidates
    <2>4. \A g \in Candidates(before) : count <= Distance(before, g)
      BY <1>3, <2>1, <2>3
    <2>5. IsVictim(before, hand)
      BY <1>1, <1>2, <2>2, <2>3, <2>4 DEF IsVictim
    <2>6. replacer.ref_flags =
             before.ref_flags \ {g \in before.in_replacer : Distance(before, g) < Distance(before, hand)}
      BY <1>2, <2>1 DEF Passed
    <2>7. QED
      BY <1>2, <1>6, <2>3, <2>5, <2>6 DEF AfterVictim
  <1>8. CASE pc = "second"
    <2>1. /\ before.in_replacer \subseteq before.ref_flags /\ Passed(count) = {}
          /\ replacer.ref_flags = before.ref_flags \ before.in_replacer
      BY <1>8 DEF SweepInv, LoopInv
    <2>2. AllReferenced(before) /\ Candidates(before) = before.in_replacer
      BY <2>1 DEF AllReferenced, Candidates
    <2>3. \A g \in Candidates(before) : count <= Distance(before, g)
      BY <1>3, <2>1, <2>2
    <2>4. IsVictim(before, hand)
      BY <1>1, <1>2, <2>2, <2>3 DEF IsVictim
    <2>5. QED
      BY <1>2, <1>6, <2>1, <2>2, <2>4 DEF AfterVictim
  <1>9. QED
    BY <1>1, <1>7, <1>8 DEF SweepTypes

\* Every step of the sweep is a step of the policy, or none.
LEMMA SweepStepRefines ==
    ASSUME SweepInv, [SweepNext]_sweepVars
    PROVE  Policy!ReplacerNext \/ UNCHANGED AbstractReplacer
  <1>1. CASE UNCHANGED sweepVars
    BY <1>1 DEF sweepVars, AbstractReplacer
  <1>2. ASSUME NEW f \in Frames, CallPin(f) PROVE Policy!ReplacerNext
    BY <1>2 DEF CallPin, PinStep, Policy!ReplacerNext, Policy!PinStep, Policy!Frames, Frames,
                Policy!Pin, Pin
  <1>3. ASSUME NEW f \in Frames, CallUnpin(f) PROVE Policy!ReplacerNext
    BY <1>3 DEF CallUnpin, UnpinStep, Policy!ReplacerNext, Policy!UnpinStep, Policy!Frames, Frames,
                Policy!Unpin, Unpin
  <1>4. CASE CallVictim \/ FirstLoopEnds
    BY <1>4 DEF CallVictim, FirstLoopEnds, AbstractReplacer
  <1>5. CASE FirstLoop \/ SecondLoop
    <2>1. pc # "idle" /\ count < PoolSize
      BY <1>5 DEF FirstLoop, SecondLoop
    <2>2. CASE Select
      <3>1. /\ hand \in Frames /\ IsVictim(before, hand)
            /\ replacer' = AfterVictim(before, hand) /\ pc' = "idle"
        BY <1>5, <2>1, <2>2, SelectsVictim DEF FirstLoop, SecondLoop, Select, Continue
      <3>2. Policy!VictimStep
        BY <2>1, <3>1 DEF Policy!VictimStep, Policy!Frames, Frames, Policy!IsVictim, IsVictim,
           Policy!Candidates, Candidates, Policy!AllReferenced, AllReferenced, Policy!Distance,
           Distance, Policy!AfterVictim, AfterVictim
      <3>3. QED
        BY <3>2 DEF Policy!ReplacerNext
    <2>3. CASE ~Select
      <3>1. pc' = pc /\ before' = before
        BY <1>5, <2>3 DEF FirstLoop, SecondLoop, Continue
      <3>2. QED
        BY <2>1, <3>1 DEF AbstractReplacer
    <2>4. QED
      BY <2>2, <2>3
  <1>6. QED
    BY <1>1, <1>2, <1>3, <1>4, <1>5 DEF SweepNext

\* ClockReplacer::Victim, loops and all, is the one-step policy over which the
\* buffer pool is modelled, for every pool size.
THEOREM SweepIsPolicy == SweepSpec => SweepImplementsPolicy
  <1>1. SweepInit => Policy!ReplacerInit
    BY DEF SweepInit, ReplacerInit, Policy!ReplacerInit, Policy!NewReplacer, NewReplacer
  <1>2. SweepInv /\ [SweepNext]_sweepVars
           => [Policy!ReplacerNext]_(IF pc = "idle" THEN replacer ELSE before)
    BY SweepStepRefines DEF AbstractReplacer
  <1>3. QED
    BY <1>1, <1>2, SweepInvariance, PTL DEF SweepSpec, SweepImplementsPolicy, Policy!ReplacerSpec
=============================================================================
