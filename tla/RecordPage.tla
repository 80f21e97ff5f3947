------------------------------ MODULE RecordPage ------------------------------
(***************************************************************************)
(* What a slotted page promises: a table of records by slot number.        *)
(* Inserting uses the lowest unused slot, an operation touches no other    *)
(* slot, and what fits depends on the records present and never on the     *)
(* history of the page.                                                    *)
(***************************************************************************)
EXTENDS Integers, Functions

CONSTANTS PageSize, HeaderSize, SlotSize, Records, None

VARIABLE records    \* [SlotIds -> Records \cup {None}]

MaxSlots == (PageSize - HeaderSize) \div SlotSize
SlotIds == 1 .. MaxSlots

Used(rs) == {s \in SlotIds : rs[s] # None}

(* The directory reaches up to the last used slot.                         *)
DirectorySize(rs) ==
    SlotSize * (IF Used(rs) = {} THEN 0
                ELSE CHOOSE s \in Used(rs) : \A t \in Used(rs) : t <= s)

Fits(rs) ==
    HeaderSize + DirectorySize(rs)
        + SumFunctionOnSet([s \in SlotIds |-> IF rs[s] = None THEN 0 ELSE rs[s].size],
                           SlotIds) <= PageSize

Insert(s, r) == /\ s \notin Used(records)
                /\ \A t \in SlotIds : t < s => t \in Used(records)
                /\ records' = [records EXCEPT ![s] = r]
                /\ Fits(records')

Update(s, r) == /\ s \in Used(records)
                /\ records' = [records EXCEPT ![s] = r]
                /\ Fits(records')

Delete(s) == /\ s \in Used(records)
             /\ records' = [records EXCEPT ![s] = None]

PageInit == records = [s \in SlotIds |-> None]

PageNext == \E s \in SlotIds : Delete(s) \/ \E r \in Records : Insert(s, r) \/ Update(s, r)

PageSpec == PageInit /\ [][PageNext]_records
=============================================================================
