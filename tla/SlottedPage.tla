------------------------------ MODULE SlottedPage ------------------------------
(***************************************************************************)
(* The slotted page (src/src/storage/slotted_page.cpp): a header, a slot   *)
(* directory growing up, records growing down from the end of the page,    *)
(* and the free space between them.  Deleting and updating rewrite the     *)
(* whole page compactly; inserting never does, it relies on the free space *)
(* being in one piece.                                                     *)
(*                                                                         *)
(* The sizes are constants, so that a page of a few bytes is checked with  *)
(* the arithmetic of the real one.  A byte of a record is the pair of the  *)
(* record's tag and the position, so that any byte written over another    *)
(* shows up when the record is read.                                       *)
(***************************************************************************)
EXTENDS Integers, Sequences, Functions

CONSTANTS PageSize,     \* PAGE_SIZE, 4096
          HeaderSize,   \* PAGE_HEADER_SIZE, 16
          SlotSize,     \* SLOT_ENTRY_SIZE, 4
          Records,      \* records [tag, size] given to the page
          None          \* stands for "no record" in the abstract page

ASSUME PageAssumption == /\ PageSize \in Nat /\ HeaderSize \in Nat \ {0}
                         /\ SlotSize \in Nat \ {0} /\ HeaderSize < PageSize
                         /\ \A r \in Records : /\ r = [tag |-> r.tag, size |-> r.size]
                                               /\ r.size \in 1 .. PageSize
                         /\ None \notin Records

VARIABLES slots,                \* the directory; slot_id i is slots[i + 1]
          free_space_pointer,   \* start of the record area
          bytes                 \* the page after the header

pageVars == <<slots, free_space_pointer, bytes>>

Offsets == HeaderSize .. PageSize - 1
ClearedBytes == [o \in Offsets |-> <<"zero", 0>>]

DirectoryEnd(n) == HeaderSize + n * SlotSize
EmptySlot == [offset |-> 0, length |-> 0]
Active(i) == slots[i] # EmptySlot

BytesOf(r) == [k \in 1 .. r.size |-> <<r.tag, k>>]

(* What ReadRecord and LoadRecords take for the record of a slot.          *)
Content(i) == [k \in 1 .. slots[i].length |-> bytes[slots[i].offset + k - 1]]

(* memcpy of content c to offset o, and WriteSlot of slot i.               *)
Copied(b, o, c) == [x \in Offsets |-> IF x \in o .. o + Len(c) - 1
                                      THEN c[x - o + 1] ELSE b[x]]
SlotWritten(b, i) == [x \in Offsets |->
                        IF x \in DirectoryEnd(i - 1) .. DirectoryEnd(i) - 1
                        THEN <<"slot", i>> ELSE b[x]]

-----------------------------------------------------------------------------
GetFreeSpace == free_space_pointer - DirectoryEnd(Len(slots))

(* InsertRecord takes the first deleted slot, or a new one, and needs room *)
(* for the record and for the entry of a new slot.                         *)
BugSelectedSlot(i) == i = Len(slots) + 1
SelectedSlot(i) ==
    \/ i \in DOMAIN slots /\ ~Active(i) /\ \A j \in 1 .. i - 1 : Active(j)
    \/ i = Len(slots) + 1 /\ \A j \in DOMAIN slots : Active(j)

BugRequiredSpace(r, i) == r.size
RequiredSpace(r, i) == r.size + (IF i \in DOMAIN slots THEN 0 ELSE SlotSize)

InsertRecord(r, i) ==
    /\ SelectedSlot(i)
    /\ GetFreeSpace >= RequiredSpace(r, i)
    /\ LET offset == free_space_pointer - r.size IN
        /\ bytes' = SlotWritten(Copied(bytes, offset, BytesOf(r)), i)
        /\ slots' = [j \in 1 .. (IF i > Len(slots) THEN i ELSE Len(slots)) |->
                        IF j = i THEN [offset |-> offset, length |-> r.size]
                        ELSE slots[j]]
        /\ free_space_pointer' = offset

(* LoadRecords: the contents of all slots, <<>> where there is no record.  *)
LoadRecords == [i \in DOMAIN slots |-> IF Active(i) THEN Content(i) ELSE <<>>]

(* RewriteRecords: the contents cs are laid out from the end of the page,  *)
(* in slot order.  It refuses, before touching the page, what does not fit.*)
TotalUpTo(cs, n) == SumFunctionOnSet([j \in DOMAIN cs |-> Len(cs[j])], 1 .. n)

Fit(cs) == DirectoryEnd(Len(cs)) + TotalUpTo(cs, Len(cs)) <= PageSize

PlaceOf(cs, i) == PageSize - TotalUpTo(cs, i)

(* The bytes of the page once it is cleared and all slots are written.     *)
LaidOut(cs) ==
    [x \in Offsets |->
        IF x < DirectoryEnd(Len(cs)) THEN <<"slot", (x - HeaderSize) \div SlotSize + 1>>
        ELSE LET owners == {i \in DOMAIN cs :
                              x \in PlaceOf(cs, i) .. PlaceOf(cs, i) + Len(cs[i]) - 1}
                 i == CHOOSE o \in owners : TRUE
             IN IF owners = {} THEN <<"zero", 0>> ELSE cs[i][x - PlaceOf(cs, i) + 1]]

BugPointerAfter(cs) == free_space_pointer
PointerAfter(cs) == PlaceOf(cs, Len(cs))

RewriteRecords(cs) ==
    /\ slots' = [i \in DOMAIN cs |->
                    IF cs[i] = <<>> THEN EmptySlot
                    ELSE [offset |-> PlaceOf(cs, i), length |-> Len(cs[i])]]
    /\ bytes' = LaidOut(cs)
    /\ free_space_pointer' = PointerAfter(cs)

UpdateRecord(i, r) ==
    /\ i \in DOMAIN slots /\ Active(i)
    /\ LET cs == [LoadRecords EXCEPT ![i] = BytesOf(r)] IN
        Fit(cs) /\ RewriteRecords(cs)

(* DeleteRecord drops the empty slots at the end of the directory.         *)
Trimmed(cs) ==
    SubSeq(cs, 1, CHOOSE n \in 0 .. Len(cs) :
                    /\ \A i \in n + 1 .. Len(cs) : cs[i] = <<>>
                    /\ n > 0 => cs[n] # <<>>)

DeleteRecord(i) ==
    /\ i \in DOMAIN slots /\ Active(i)
    /\ RewriteRecords(Trimmed([LoadRecords EXCEPT ![i] = <<>>]))

(* The page as SlottedPage::Init leaves it.                                *)
SlottedInit == /\ slots = <<>>
               /\ free_space_pointer = PageSize
               /\ bytes = ClearedBytes

SlottedNext == \E i \in 1 .. Len(slots) + 1 :
                  \/ DeleteRecord(i)
                  \/ \E r \in Records : InsertRecord(r, i) \/ UpdateRecord(i, r)

SlottedSpec == SlottedInit /\ [][SlottedNext]_pageVars

-----------------------------------------------------------------------------
(* Properties.                                                             *)

\* Offsets, lengths and the free space pointer stay within the page.
SlottedTypeOK ==
    /\ slots \in Seq([offset : {0} \cup Offsets, length : 0 .. PageSize])
    /\ free_space_pointer \in 0 .. PageSize
    /\ DOMAIN bytes = Offsets

\* IsInitialized and the "Corrupted ..." checks of ReadRecord and LoadRecords
\* never fail on a page written by these operations: directory and records do
\* not meet, and records stay inside the page.
NeverCorrupted ==
    /\ SlottedTypeOK
    /\ DirectoryEnd(Len(slots)) <= free_space_pointer
    /\ \A i \in DOMAIN slots : Active(i) =>
          /\ slots[i].length # 0
          /\ slots[i].offset >= DirectoryEnd(Len(slots))
          /\ slots[i].offset + slots[i].length <= PageSize

\* The free space is in one piece: the record area is exactly as large as the
\* records.  InsertRecord, which never compacts, therefore refuses a record
\* only when it really does not fit.
NoFragmentation ==
    free_space_pointer = PageSize - TotalUpTo(LoadRecords, Len(slots))

(* The record a slot holds, if what is read there is a record at all.      *)
RecordAt(i) ==
    CASE i \notin DOMAIN slots -> None
      [] i \in DOMAIN slots /\ ~Active(i) -> None
      [] OTHER -> IF \E r \in Records : BytesOf(r) = Content(i)
                  THEN CHOOSE r \in Records : BytesOf(r) = Content(i)
                  ELSE [tag |-> "garbage", size |-> slots[i].length]

Table == INSTANCE RecordPage
    WITH records <- [i \in 1 .. (PageSize - HeaderSize) \div SlotSize |-> RecordAt(i)]

\* "La compactación mueve bytes, pero conserva slots y RIDs"
\* (docs/defense_guide.md): an operation changes the record of its own slot
\* and no byte of another record, and frees or takes the space it should.
ImplementsRecordPage == Table!PageSpec
=============================================================================
