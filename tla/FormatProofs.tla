----------------------------- MODULE FormatProofs -----------------------------
(***************************************************************************)
(* Machine-checked proofs about the formats the program keeps its data in. *)
(* The array of a bucket page, for every set of keys and of record         *)
(* identifiers and every capacity: with the entries Remove moves under its *)
(* own loop, it is the set IndexSet describes.  The slotted page, for      *)
(* every set of records and every size of a page: no byte of a record is   *)
(* ever lost or overwritten, no space either, and the page is the table of *)
(* records RecordPage describes.  The record codec, for every width of a   *)
(* byte, every schema and every row: what was written is read again, no    *)
(* byte behind a record is read, and different values have different keys. *)
(* The page of the catalog, for every catalog and every size of the page:  *)
(* what Persist has written Load reads again, and of any other page it     *)
(* accepts only what fits together and takes the cells it says.            *)
(***************************************************************************)
EXTENDS BucketPage, SlottedPage, RecordCodec, CatalogPage, SharedLemmas, FunctionTheorems

(***************************************************************************)
(* The bucket page.                                                        *)
(***************************************************************************)

Entry == Keys \X RecordIDs

(* The inductive invariant: types; the array is tidy; and what a running   *)
(* Remove has done so far.                                                 *)
BucketTypeOK ==
    /\ entries \in [Positions -> Entry \cup {Cleared}]
    /\ entry_count \in 0 .. Capacity
    /\ index \in Nat /\ left \in Nat
    /\ result \in {"ok", "error"}
    /\ request \in {Idle} \cup [op : {"insert"}, key : Keys, rid : RecordIDs]
                          \cup [op : {"remove"}, key : Keys, rid : RecordIDs \cup {AnyRid}]

(* Nothing but wanted entries has gone, none is wanted among those the     *)
(* loop has passed, and a Remove of one record is over once it is gone.    *)
RemoveSound ==
    request.op = "remove" =>
       /\ left <= entry_count /\ index <= left
       /\ before \subseteq Entry /\ InUse(left) \subseteq before
       /\ \A e \in before \ InUse(left) : Wanted(e)
       /\ \A i \in 0 .. index - 1 : ~Wanted(entries[i])
       /\ left = entry_count => before = InUse(left)
       /\ left # entry_count => \E e \in before \ InUse(left) : Wanted(e)

BeforeKnown == request.op = "insert" => before = InUse(entry_count)

BInv == BucketTypeOK /\ ArrayTidy /\ RemoveSound /\ BeforeKnown

-----------------------------------------------------------------------------
(* The array.                                                              *)

\* Writing behind the last entry adds an entry to the ones in use.
LEMMA AppendFacts ==
    ASSUME NEW E \in [Positions -> Entry \cup {Cleared}], NEW n \in 0 .. Capacity - 1,
           NEW e \in Entry
    PROVE  LET F == [E EXCEPT ![n] = e]
           IN {F[i] : i \in 0 .. n} = {E[i] : i \in 0 .. n - 1} \cup {e}
  <1> DEFINE F == [E EXCEPT ![n] = e]
  <1>1. n \in Positions /\ \A i \in 0 .. n - 1 : i \in Positions /\ i # n
    BY BucketAssumption DEF Positions
  <1>2. F[n] = e /\ \A i \in 0 .. n - 1 : F[i] = E[i]
    BY <1>1
  <1>3. 0 .. n = (0 .. n - 1) \cup {n}
    BY BucketAssumption
  <1> HIDE DEF F
  <1>4. {F[i] : i \in 0 .. n} = {E[i] : i \in 0 .. n - 1} \cup {e}
    BY <1>2, <1>3
  <1>5. QED
    BY <1>4 DEF F

\* Moving the last entry into a gap removes from the entries in use the one that was
\* in the gap, and leaves the entries before the gap where they are.
LEMMA SwapFacts ==
    ASSUME NEW E, NEW F, NEW n \in 1 .. Capacity, NEW g \in 0 .. n - 1,
           \A i, j \in 0 .. n - 1 : i # j => E[i] # E[j],
           \A i \in 0 .. n - 2 : F[i] = IF i = g THEN E[n - 1] ELSE E[i]
    PROVE  /\ {F[i] : i \in 0 .. n - 2} = {E[i] : i \in 0 .. n - 1} \ {E[g]}
           /\ \A i, j \in 0 .. n - 2 : i # j => F[i] # F[j]
           /\ \A i \in 0 .. g - 1 : F[i] = E[i]
  <1>1. \A i \in 0 .. n - 2 : i # n - 1 /\ i \in 0 .. n - 1
    BY BucketAssumption
  <1>3. \A i \in 0 .. n - 2 : F[i] = IF i = g THEN E[n - 1] ELSE E[i]
    OBVIOUS
  <1>4. {F[i] : i \in 0 .. n - 2} \subseteq {E[i] : i \in 0 .. n - 1} \ {E[g]}
    <2> SUFFICES ASSUME NEW i \in 0 .. n - 2
                 PROVE  \E j \in 0 .. n - 1 : F[i] = E[j] /\ j # g
      OBVIOUS
    <2>1. CASE i = g
      <3>1. n - 1 \in 0 .. n - 1 /\ n - 1 # g /\ F[i] = E[n - 1]
        BY <2>1, <1>3
      <3>2. QED
        BY <3>1
    <2>2. CASE i # g
      BY <2>2, <1>3, <1>1
    <2>3. QED
      BY <2>1, <2>2
  <1>5. {E[i] : i \in 0 .. n - 1} \ {E[g]} \subseteq {F[i] : i \in 0 .. n - 2}
    <2> SUFFICES ASSUME NEW j \in 0 .. n - 1, j # g
                 PROVE  \E i \in 0 .. n - 2 : E[j] = F[i]
      OBVIOUS
    <2>1. CASE j = n - 1
      <3>1. g \in 0 .. n - 2
        BY <2>1
      <3>2. QED
        BY <3>1, <2>1, <1>3
    <2>2. CASE j # n - 1
      <3>1. j \in 0 .. n - 2
        BY <2>2
      <3>2. QED
        BY <3>1, <1>3
    <2>3. QED
      BY <2>1, <2>2
  <1>6. \A i, j \in 0 .. n - 2 : i # j => F[i] # F[j]
    <2> SUFFICES ASSUME NEW i \in 0 .. n - 2, NEW j \in 0 .. n - 2, i # j
                 PROVE  F[i] # F[j]
      OBVIOUS
    <2>1. n - 1 \in 0 .. n - 1 /\ i \in 0 .. n - 1 /\ j \in 0 .. n - 1 /\ i # n - 1 /\ j # n - 1
      OBVIOUS
    <2>2. QED
      BY <2>1, <1>3
  <1>7. \A i \in 0 .. g - 1 : F[i] = E[i]
    <2> SUFFICES ASSUME NEW i \in 0 .. g - 1
                 PROVE  F[i] = E[i]
      OBVIOUS
    <2>1. i \in 0 .. n - 2 /\ i # g
      OBVIOUS
    <2>2. QED
      BY <2>1, <1>3
  <1>8. QED
    BY <1>4, <1>5, <1>6, <1>7

-----------------------------------------------------------------------------
(* Every action preserves the invariant.                                   *)

\* A call in progress is an insertion or a removal, with its arguments.
LEMMA RequestFacts ==
    ASSUME BucketTypeOK
    PROVE  /\ request.op \in {"idle", "insert", "remove"}
           /\ request.op = "idle" => request = Idle
           /\ request.op = "insert" => request.key \in Keys /\ request.rid \in RecordIDs
           /\ request.op = "remove" =>
                 request.key \in Keys /\ request.rid \in RecordIDs \cup {AnyRid}
           /\ request.op # "idle" => request # Idle
  BY DEF BucketTypeOK, Idle

\* The entries in use are entries, and none of them is the zero entry.
LEMMA InUseFacts ==
    ASSUME BucketTypeOK, ArrayTidy,
           NEW n \in 0 .. Capacity,
           n = (IF request.op = "remove" THEN left ELSE entry_count)
    PROVE  /\ InUse(n) \subseteq Entry
           /\ \A i \in 0 .. n - 1 : i \in Positions /\ entries[i] \in InUse(n) /\ entries[i] # Cleared
           /\ \A i \in Positions : i >= n => entries[i] = Cleared
  <1>1. \A i \in 0 .. n - 1 : i \in Positions /\ i < n
    BY BucketAssumption DEF Positions
  <1>2. \A i \in 0 .. n - 1 : entries[i] # Cleared /\ entries[i] \in Entry
    BY <1>1 DEF ArrayTidy, BucketTypeOK
  <1>3. \A i \in Positions : i >= n => entries[i] = Cleared
    BY BucketAssumption DEF ArrayTidy, Positions
  <1>4. QED
    BY <1>1, <1>2, <1>3 DEF InUse

LEMMA BInvInit == BucketInit => BInv
  <1> SUFFICES ASSUME BucketInit PROVE BInv
    OBVIOUS
  <1> USE DEF BucketInit
  <1>1. BucketTypeOK
    BY BucketAssumption DEF BucketTypeOK
  <1>2. request.op = "idle"
    BY DEF Idle
  <1>3. ArrayTidy
    BY <1>2 DEF ArrayTidy, Positions
  <1>4. RemoveSound /\ BeforeKnown
    BY <1>2 DEF RemoveSound, BeforeKnown
  <1>5. QED
    BY <1>1, <1>3, <1>4 DEF BInv

LEMMA CallInsertKeeps ==
    ASSUME BInv, NEW k \in Keys, NEW r \in RecordIDs, CallInsert(k, r)
    PROVE  BInv'
  <1> USE DEF BInv, CallInsert
  <1>1. BucketTypeOK'
    BY DEF BucketTypeOK
  <1>2. request.op = "idle" /\ request'.op = "insert"
    BY DEF Idle
  <1>3. ArrayTidy'
    BY <1>2 DEF ArrayTidy
  <1>4. RemoveSound' /\ BeforeKnown'
    BY <1>2 DEF RemoveSound, BeforeKnown, InUse
  <1>5. QED
    BY <1>1, <1>3, <1>4

LEMMA CallRemoveKeeps ==
    ASSUME BInv, NEW k \in Keys, NEW r \in RecordIDs \cup {AnyRid}, CallRemove(k, r)
    PROVE  BInv'
  <1> USE DEF BInv, CallRemove
  <1>1. BucketTypeOK'
    BY DEF BucketTypeOK
  <1>2. request.op = "idle" /\ request'.op = "remove"
    BY DEF Idle
  <1>3. ArrayTidy'
    BY <1>2 DEF ArrayTidy
  <1>4. InUse(entry_count) \subseteq Entry
    BY <1>2, InUseFacts DEF BucketTypeOK
  <1>5. RemoveSound' /\ BeforeKnown'
    BY <1>2, <1>4 DEF RemoveSound, BeforeKnown, InUse, BucketTypeOK
  <1>6. QED
    BY <1>1, <1>3, <1>5

LEMMA InsertKeeps ==
    ASSUME BInv, InsertHere
    PROVE  /\ BInv'
           /\ InUse(entry_count)' = InUse(entry_count) \cup {<<request.key, request.rid>>}
  <1> USE DEF BInv, InsertHere, Return
  <1> DEFINE e == <<request.key, request.rid>>
  <1>0. e \in Entry
    BY RequestFacts DEF Entry
  <1>1. /\ entry_count \in 0 .. Capacity - 1 /\ entry_count \in Positions
        /\ entries \in [Positions -> Entry \cup {Cleared}]
    BY BucketAssumption DEF BucketTypeOK, Positions
  <1>2. BucketTypeOK'
    BY <1>0, <1>1, BucketAssumption DEF BucketTypeOK
  <1>3. request.op # "remove" /\ request'.op = "idle"
    BY DEF Idle
  <1>4. InUse(entry_count)' = InUse(entry_count) \cup {e}
    <2>1. {entries'[i] : i \in 0 .. entry_count} = {entries[i] : i \in 0 .. entry_count - 1} \cup {e}
      BY <1>0, <1>1, AppendFacts
    <2>2. entry_count' - 1 = entry_count
      BY <1>1
    <2>3. QED
      BY <2>1, <2>2 DEF InUse
  <1>5. ArrayTidy'
    <2>1. /\ entries'[entry_count] = e
          /\ \A i \in Positions : i # entry_count => entries'[i] = entries[i]
      BY <1>1
    <2>2. e # Cleared
      BY DEF Cleared
    <2>3. \A i \in 0 .. entry_count - 1 : i \in Positions /\ entries[i] \in InUse(entry_count)
      BY <1>1, BucketAssumption DEF InUse, Positions
    <2>4. \A i, j \in 0 .. entry_count : i # j => entries'[i] # entries'[j]
      <3> SUFFICES ASSUME NEW i \in 0 .. entry_count, NEW j \in 0 .. entry_count, i # j
                   PROVE  entries'[i] # entries'[j]
        OBVIOUS
      <3>1. CASE i = entry_count
        <4>1. j \in 0 .. entry_count - 1
          BY <3>1, <1>1
        <4>2. QED
          BY <4>1, <3>1, <2>1, <2>3
      <3>2. CASE j = entry_count
        <4>1. i \in 0 .. entry_count - 1
          BY <3>2, <1>1
        <4>2. QED
          BY <4>1, <3>2, <2>1, <2>3
      <3>3. CASE i # entry_count /\ j # entry_count
        <4>1. i \in 0 .. entry_count - 1 /\ j \in 0 .. entry_count - 1
          BY <3>3, <1>1
        <4>2. entries[i] # entries[j]
          BY <4>1, <1>3 DEF ArrayTidy
        <4>3. QED
          BY <4>1, <4>2, <2>1, <2>3, <3>3
      <3>4. QED
        BY <3>1, <3>2, <3>3
    <2>5. \A i \in Positions : (i < entry_count + 1) <=> (entries'[i] # Cleared)
      <3> SUFFICES ASSUME NEW i \in Positions
                   PROVE  (i < entry_count + 1) <=> (entries'[i] # Cleared)
        OBVIOUS
      <3>1. CASE i = entry_count
        BY <3>1, <2>1, <2>2, <1>1
      <3>2. CASE i # entry_count
        <4>1. (i < entry_count) <=> (entries[i] # Cleared)
          BY <1>3 DEF ArrayTidy
        <4>2. (i < entry_count + 1) <=> (i < entry_count)
          BY <3>2, <1>1, BucketAssumption DEF Positions
        <4>3. QED
          BY <4>1, <4>2, <3>2, <2>1
      <3>3. QED
        BY <3>1, <3>2
    <2>6. QED
      BY <2>4, <2>5, <1>3, <1>1 DEF ArrayTidy
  <1>6. RemoveSound' /\ BeforeKnown'
    BY <1>3 DEF RemoveSound, BeforeKnown
  <1>7. QED
    BY <1>2, <1>4, <1>5, <1>6

LEMMA InsertRefusedKeeps ==
    ASSUME BInv, AlreadyThere \/ PageFull
    PROVE  BInv'
  <1> USE DEF BInv, AlreadyThere, PageFull, Return
  <1>1. request.op # "remove" /\ request'.op = "idle"
    BY DEF Idle
  <1>2. BucketTypeOK'
    BY DEF BucketTypeOK
  <1>3. ArrayTidy'
    BY <1>1 DEF ArrayTidy
  <1>4. RemoveSound' /\ BeforeKnown'
    BY <1>1 DEF RemoveSound, BeforeKnown
  <1>5. QED
    BY <1>2, <1>3, <1>4

LEMMA RemovePassesKeeps ==
    ASSUME BInv, RemovePasses
    PROVE  BInv'
  <1> USE DEF BInv, RemovePasses, Scanning
  <1>1. BucketTypeOK'
    BY DEF BucketTypeOK
  <1>2. ArrayTidy' /\ BeforeKnown'
    BY DEF ArrayTidy, BeforeKnown
  <1>3. RemoveSound'
    <2>1. \A i \in 0 .. index' - 1 : i \in 0 .. index - 1 \/ i = index
      BY DEF BucketTypeOK
    <2>2. \A i \in 0 .. index' - 1 : ~Wanted(entries[i])
      BY <2>1 DEF RemoveSound
    <2>3. index + 1 <= left
      BY DEF BucketTypeOK
    <2>4. QED
      BY <2>2, <2>3 DEF RemoveSound, InUse, Wanted
  <1>4. QED
    BY <1>1, <1>2, <1>3

\* The step of the loop that moves an entry: it takes the wanted entry out of the set,
\* and the moved one is still to be looked at if more than one may be wanted.
LEMMA RemoveEntryKeeps ==
    ASSUME BInv, RemoveEntry
    PROVE  /\ BInv'
           /\ InUse(left)' = InUse(left) \ {entries[index]}
  <1>0. PICK gone : gone = entries[index]
    OBVIOUS
  <1>1. /\ left \in 1 .. Capacity /\ left <= entry_count /\ index \in 0 .. left - 1
        /\ entry_count \in 0 .. Capacity
        /\ entries \in [Positions -> Entry \cup {Cleared}]
    BY BucketAssumption DEF BInv, BucketTypeOK, RemoveSound, RemoveEntry, Scanning
  <1>2. \A i, j \in 0 .. left - 1 : i # j => entries[i] # entries[j]
    BY DEF BInv, ArrayTidy, RemoveEntry, Scanning
  <1>3. /\ entries' \in [Positions -> Entry \cup {Cleared}]
        /\ {entries'[i] : i \in 0 .. left - 2} = {entries[i] : i \in 0 .. left - 1} \ {gone}
        /\ \A i, j \in 0 .. left - 2 : i # j => entries'[i] # entries'[j]
        /\ \A i \in 0 .. index - 1 : entries'[i] = entries[i]
        /\ \A i \in Positions : i >= left => entries'[i] = entries[i]
        /\ entries'[left - 1] = Cleared
    <2>1. entries' = [entries EXCEPT ![index] = entries[left - 1], ![left - 1] = Cleared]
      BY DEF RemoveEntry
    <2>2. /\ entries' \in [Positions -> Entry \cup {Cleared}]
          /\ entries'[left - 1] = Cleared
          /\ \A i \in 0 .. left - 2 :
                entries'[i] = IF i = index THEN entries[left - 1] ELSE entries[i]
          /\ \A i \in Positions : i >= left => entries'[i] = entries[i]
      <3>1. /\ index \in Positions /\ left - 1 \in Positions
            /\ \A i \in 0 .. left - 2 : i \in Positions /\ i # left - 1
            /\ \A i \in Positions : i >= left => i # left - 1 /\ i # index
        BY <1>1, BucketAssumption DEF Positions
      <3>2. /\ entries'[left - 1] = Cleared
            /\ \A i \in Positions : i # left - 1 =>
                  entries'[i] = IF i = index THEN entries[left - 1] ELSE entries[i]
        BY <1>1, <2>1, <3>1
      <3>3. entries' \in [Positions -> Entry \cup {Cleared}]
        BY <1>1, <2>1, <3>1
      <3>4. QED
        BY <3>1, <3>2, <3>3
    <2>3. /\ {entries'[i] : i \in 0 .. left - 2} = {entries[i] : i \in 0 .. left - 1} \ {entries[index]}
          /\ \A i, j \in 0 .. left - 2 : i # j => entries'[i] # entries'[j]
          /\ \A i \in 0 .. index - 1 : entries'[i] = entries[i]
      BY <1>1, <1>2, <2>2, SwapFacts
    <2>4. QED
      BY <1>0, <2>2, <2>3
  <1>4. /\ request.op = "remove" /\ Wanted(gone)
        /\ left' = left - 1
        /\ index' = IF request.rid = AnyRid THEN index ELSE left - 1
        /\ UNCHANGED <<entry_count, request, result, before>>
    BY <1>0 DEF RemoveEntry, Scanning
  <1>5. left' - 1 = left - 2
    BY <1>1, <1>4
  <1>6. InUse(left)' = InUse(left) \ {gone}
    BY <1>3, <1>5 DEF InUse
  <1>7. BucketTypeOK'
    BY <1>1, <1>3, <1>4 DEF BInv, BucketTypeOK
  <1>8. left \in 0 .. Capacity
    BY <1>1
  <1>9. /\ InUse(left) \subseteq Entry
        /\ \A i \in 0 .. left - 1 : entries[i] \in InUse(left) /\ entries[i] # Cleared
        /\ \A i \in Positions : i >= left => entries[i] = Cleared
    BY <1>4, <1>8, InUseFacts DEF BInv
  <1>10. ArrayTidy'
    <2>1. \A i \in 0 .. left - 2 : entries'[i] \in InUse(left)
      BY <1>3 DEF InUse
    <2>2. Cleared \notin InUse(left)
      BY <1>9 DEF InUse
    <2>3. \A i \in Positions : (i < left - 1) <=> (entries'[i] # Cleared)
      <3> SUFFICES ASSUME NEW i \in Positions
                   PROVE  (i < left - 1) <=> (entries'[i] # Cleared)
        OBVIOUS
      <3>1. i \in Int /\ i >= 0
        BY BucketAssumption DEF Positions
      <3>2. CASE i < left - 1
        <4>1. i \in 0 .. left - 2
          BY <3>1, <3>2, <1>1
        <4>2. QED
          BY <4>1, <3>2, <2>1, <2>2
      <3>3. CASE i = left - 1
        BY <3>3, <1>3, <1>1
      <3>4. CASE i >= left
        <4>1. entries'[i] = Cleared
          BY <3>4, <1>3, <1>9
        <4>2. ~(i < left - 1)
          BY <3>1, <3>4, <1>1
        <4>3. QED
          BY <4>1, <4>2
      <3>5. QED
        BY <3>1, <3>2, <3>3, <3>4, <1>1
    <2>4. QED
      BY <2>3, <1>3, <1>4, <1>5 DEF ArrayTidy
  <1>11. gone \in InUse(left) /\ gone \in before /\ Wanted(gone)
    BY <1>0, <1>1, <1>4, <1>9 DEF BInv, RemoveSound
  <1>12. \A e : Wanted(e)' <=> Wanted(e)
    BY <1>4 DEF Wanted
  <1>13. \A i \in 0 .. index' - 1 : ~Wanted(entries'[i])
    <2>1. CASE request.rid = AnyRid
      BY <2>1, <1>1, <1>3, <1>4 DEF BInv, RemoveSound
    <2>2. CASE request.rid # AnyRid
      <3> SUFFICES ASSUME NEW i \in 0 .. left - 2, Wanted(entries'[i])
                   PROVE  FALSE
        BY <2>2, <1>1, <1>4
      <3>1. entries'[i] \in InUse(left) /\ entries'[i] # gone
        BY <1>3 DEF InUse
      <3>2. entries'[i] \in Entry /\ gone \in Entry
        BY <3>1, <1>9, <1>11
      <3>3. entries'[i] = <<request.key, request.rid>> /\ gone = <<request.key, request.rid>>
        BY <3>2, <1>11, <2>2 DEF Wanted, Entry
      <3>4. QED
        BY <3>1, <3>3
    <2>3. QED
      BY <2>1, <2>2
  <1>14. RemoveSound'
    <2>1. left' <= entry_count' /\ index' <= left' /\ left' # entry_count'
      BY <1>1, <1>4
    <2>2. before' \subseteq Entry /\ InUse(left)' \subseteq before'
      BY <1>4, <1>6 DEF BInv, RemoveSound
    <2>3. \A e \in before \ InUse(left)' : Wanted(e)
      BY <1>4, <1>6, <1>11 DEF BInv, RemoveSound
    <2>4. \A e \in before' \ InUse(left)' : Wanted(e)'
      BY <2>3, <1>4, <1>12
    <2>5. gone \in before' \ InUse(left)' /\ Wanted(gone)'
      BY <1>4, <1>6, <1>11, <1>12
    <2>6. (\A i \in 0 .. index - 1 : ~Wanted(entries[i]))'
      BY <1>13, <1>4 DEF Wanted
    <2>7. QED
      BY <2>1, <2>2, <2>4, <2>5, <2>6 DEF RemoveSound
  <1>15. BeforeKnown'
    BY <1>4 DEF BeforeKnown
  <1>16. QED
    BY <1>0, <1>6, <1>7, <1>10, <1>14, <1>15 DEF BInv

LEMMA RemoveReturnsKeeps ==
    ASSUME BInv, RemoveReturns
    PROVE  BInv'
  <1> USE DEF BInv, RemoveReturns, Return
  <1>1. request'.op = "idle"
    BY DEF Idle
  <1>2. BucketTypeOK'
    BY BucketAssumption DEF BucketTypeOK, RemoveSound
  <1>3. ArrayTidy'
    BY <1>1 DEF ArrayTidy
  <1>4. RemoveSound' /\ BeforeKnown'
    BY <1>1 DEF RemoveSound, BeforeKnown
  <1>5. QED
    BY <1>2, <1>3, <1>4

LEMMA BInvStep == BInv /\ [BucketNext]_bucketVars => BInv'
  <1> SUFFICES ASSUME BInv, [BucketNext]_bucketVars
               PROVE  BInv'
    OBVIOUS
  <1>1. CASE UNCHANGED bucketVars
    BY <1>1 DEF BInv, BucketTypeOK, ArrayTidy, RemoveSound, BeforeKnown, InUse, Wanted, bucketVars
  <1>2. ASSUME NEW k \in Keys, NEW r \in RecordIDs, CallInsert(k, r)
        PROVE  BInv'
    BY <1>2, CallInsertKeeps
  <1>3. ASSUME NEW k \in Keys, NEW r \in RecordIDs \cup {AnyRid}, CallRemove(k, r)
        PROVE  BInv'
    BY <1>3, CallRemoveKeeps
  <1>4. CASE InsertHere
    BY <1>4, InsertKeeps
  <1>5. CASE AlreadyThere \/ PageFull
    BY <1>5, InsertRefusedKeeps
  <1>6. CASE RemovePasses
    BY <1>6, RemovePassesKeeps
  <1>7. CASE RemoveEntry
    BY <1>7, RemoveEntryKeeps
  <1>8. CASE RemoveReturns
    BY <1>8, RemoveReturnsKeeps
  <1>9. QED
    BY <1>1, <1>2, <1>3, <1>4, <1>5, <1>6, <1>7, <1>8 DEF BucketNext

\* The inductive invariant holds in every reachable state of a bucket page.
THEOREM BucketInvariance == BucketSpec => []BInv
  <1>1. BucketInit => BInv
    BY BInvInit
  <1>2. BInv /\ [BucketNext]_bucketVars => BInv'
    BY BInvStep
  <1>3. QED
    BY <1>1, <1>2, PTL DEF BucketSpec

\* HashIndexBucketPage: the entries in use are different from one another and
\* everything beyond them is zero, between the steps of the loop of Remove as well.
THEOREM ArrayStaysTidy == BucketSpec => []ArrayTidy
  <1>1. BInv => ArrayTidy
    BY DEF BInv
  <1>2. QED
    BY <1>1, BucketInvariance, PTL
-----------------------------------------------------------------------------
(* The page implements the set.                                            *)

\* How the calls in progress look to the abstract specification.
LEMMA AbstractFacts ==
    ASSUME BucketTypeOK
    PROVE  /\ request.op = "idle" => AbstractRequest = <<>>
           /\ request.op = "insert" =>
                 AbstractRequest = <<"insert", request.key, request.rid>>
           /\ request.op = "remove" /\ request.rid = AnyRid =>
                 AbstractRequest = <<"remove all", request.key>>
           /\ request.op = "remove" /\ request.rid # AnyRid =>
                 AbstractRequest = <<"remove", request.key, request.rid>>
           /\ request.op # "remove" => AbstractIndex = InUse(entry_count)
           /\ request.op = "remove" => AbstractIndex = before
           /\ request.op # "idle" => AbstractRequest \in EntrySet!Requests
  <1>1. request.op \in {"idle", "insert", "remove"}
    BY RequestFacts
  <1>2. request.op = "idle" => AbstractRequest = <<>>
    BY DEF AbstractRequest
  <1>3. request.op = "insert" => AbstractRequest = <<"insert", request.key, request.rid>>
    BY DEF AbstractRequest
  <1>4. request.op = "remove" /\ request.rid = AnyRid =>
           AbstractRequest = <<"remove all", request.key>>
    BY DEF AbstractRequest
  <1>5. request.op = "remove" /\ request.rid # AnyRid =>
           AbstractRequest = <<"remove", request.key, request.rid>>
    BY DEF AbstractRequest
  <1>6. request.op # "idle" => AbstractRequest \in EntrySet!Requests
    <2>1. /\ \A k \in Keys, r \in RecordIDs : <<"insert", k, r>> \in EntrySet!Requests
          /\ \A k \in Keys, r \in RecordIDs : <<"remove", k, r>> \in EntrySet!Requests
          /\ \A k \in Keys : <<"remove all", k>> \in EntrySet!Requests
      BY DEF EntrySet!Requests
    <2>2. QED
      BY <1>1, <1>3, <1>4, <1>5, <2>1, RequestFacts
  <1>7. QED
    BY <1>2, <1>3, <1>4, <1>5, <1>6 DEF AbstractIndex

LEMMA InitRefines == BucketInit => EntrySet!IndexInit
  <1> SUFFICES ASSUME BucketInit PROVE EntrySet!IndexInit
    OBVIOUS
  <1>1. request.op = "idle" /\ InUse(entry_count) = {} /\ result = "ok"
    BY DEF BucketInit, Idle, InUse
  <1>2. AbstractIndex = {} /\ AbstractRequest = <<>>
    BY <1>1 DEF AbstractIndex, AbstractRequest
  <1>3. QED
    BY <1>1, <1>2 DEF EntrySet!IndexInit, EntrySet!NoRequest

AbstractVars == <<AbstractIndex, AbstractRequest, result>>

\* A call is the abstract call: the page has the entries it had.
LEMMA CallRefines ==
    ASSUME BInv, BInv', request = Idle, request'.op \in {"insert", "remove"},
           request'.op = "remove" => before' = InUse(entry_count),
           UNCHANGED <<entries, entry_count, result>>
    PROVE  EntrySet!Call
  <1>1. request.op = "idle"
    BY DEF Idle
  <1>2. AbstractRequest = <<>> /\ AbstractIndex = InUse(entry_count)
    BY <1>1, AbstractFacts DEF BInv
  <1>3. AbstractRequest' \in EntrySet!Requests
    <2>1. BucketTypeOK'
      BY DEF BInv
    <2>2. (request.op # "idle" => AbstractRequest \in EntrySet!Requests)'
      BY <2>1, AbstractFacts, PTL
    <2>3. QED
      BY <2>2
  <1>4. InUse(entry_count)' = InUse(entry_count)
    BY DEF InUse
  <1>5. AbstractIndex' = InUse(entry_count)
    BY <1>4 DEF AbstractIndex
  <1>6. QED
    BY <1>2, <1>3, <1>5 DEF EntrySet!Call, EntrySet!NoRequest

\* An insertion that succeeds leaves the set with the entry in it.
LEMMA InsertRefines ==
    ASSUME BInv, InsertHere \/ AlreadyThere
    PROVE  \E k \in Keys, r \in RecordIDs : EntrySet!Insert(k, r)
  <1> DEFINE e == <<request.key, request.rid>>
  <1>1. /\ request.op = "insert" /\ request'.op = "idle" /\ result' = "ok"
        /\ BucketTypeOK
    BY DEF InsertHere, AlreadyThere, Return, Idle, BInv
  <1>2. /\ AbstractRequest = <<"insert", request.key, request.rid>>
        /\ AbstractIndex = InUse(entry_count)
        /\ request.key \in Keys /\ request.rid \in RecordIDs
    BY <1>1, AbstractFacts, RequestFacts
  <1>3. AbstractRequest' = <<>> /\ AbstractIndex' = InUse(entry_count)'
    BY <1>1 DEF AbstractRequest, AbstractIndex
  <1>4. InUse(entry_count)' = InUse(entry_count) \cup {e}
    <2>1. CASE InsertHere
      BY <2>1, InsertKeeps
    <2>2. CASE AlreadyThere
      BY <2>2 DEF AlreadyThere, InUse
    <2>3. QED
      BY <2>1, <2>2
  <1>5. EntrySet!Insert(request.key, request.rid)
    BY <1>1, <1>2, <1>3, <1>4 DEF EntrySet!Insert, EntrySet!Report, EntrySet!NoRequest
  <1>6. QED
    BY <1>2, <1>5

LEMMA PageFullRefines ==
    ASSUME BInv, PageFull
    PROVE  EntrySet!Refuse
  <1>1. /\ request.op = "insert" /\ request'.op = "idle" /\ result' = "error"
        /\ UNCHANGED <<entries, entry_count>> /\ BucketTypeOK
    BY DEF PageFull, Return, Idle, BInv
  <1>2. AbstractIndex = InUse(entry_count) /\ AbstractRequest \in EntrySet!Requests
    BY <1>1, AbstractFacts
  <1>3. InUse(entry_count)' = InUse(entry_count)
    BY <1>1 DEF InUse
  <1>4. AbstractRequest' = <<>> /\ AbstractIndex' = InUse(entry_count)
    BY <1>1, <1>3 DEF AbstractRequest, AbstractIndex
  <1>5. QED
    BY <1>1, <1>2, <1>4 DEF EntrySet!Refuse, EntrySet!Report, EntrySet!NoRequest

\* The steps of the loop of Remove change nothing the caller can see.
LEMMA LoopRefines ==
    ASSUME BInv, RemovePasses \/ RemoveEntry
    PROVE  UNCHANGED AbstractVars
  <1>1. request.op = "remove" /\ UNCHANGED <<request, result, before>>
    BY DEF RemovePasses, RemoveEntry, Scanning
  <1>2. QED
    BY <1>1 DEF AbstractVars, AbstractIndex, AbstractRequest

\* When the loop is over the wanted entries, and only those, have gone.
LEMMA RemoveFacts ==
    ASSUME BInv, RemoveReturns
    PROVE  /\ InUse(left) \subseteq before /\ before \subseteq Entry
           /\ \A e \in before \ InUse(left) : Wanted(e)
           /\ left = entry_count => before = InUse(left)
           /\ left # entry_count => \E e \in before \ InUse(left) : Wanted(e)
           /\ \A e \in InUse(left) : ~Wanted(e)
  <1>1. request.op = "remove" /\ index >= left
    BY DEF RemoveReturns
  <1>2. index = left
    BY <1>1 DEF BInv, RemoveSound, BucketTypeOK
  <1>3. \A e \in InUse(left) : ~Wanted(e)
    BY <1>1, <1>2 DEF BInv, RemoveSound, InUse
  <1>4. QED
    BY <1>1, <1>3 DEF BInv, RemoveSound

LEMMA RemoveReturnsRefines ==
    ASSUME BInv, RemoveReturns
    PROVE  \/ EntrySet!Refuse
           \/ \E k \in Keys : \/ EntrySet!RemoveRest(k)
                              \/ \E r \in RecordIDs : EntrySet!Remove(k, r)
  <1>1. /\ request.op = "remove" /\ request'.op = "idle" /\ BucketTypeOK
        /\ result' = IF left = entry_count THEN "error" ELSE "ok"
        /\ entries' = entries /\ entry_count' = left
    BY DEF RemoveReturns, Return, Idle, BInv
  <1>2. /\ AbstractIndex = before /\ AbstractRequest \in EntrySet!Requests
        /\ request.key \in Keys
    BY <1>1, AbstractFacts, RequestFacts
  <1>3. AbstractRequest' = <<>> /\ AbstractIndex' = InUse(left)
    BY <1>1 DEF AbstractRequest, AbstractIndex, InUse
  <1>4. CASE left = entry_count
    <2>1. InUse(left) = before
      BY <1>4, RemoveFacts
    <2>2. EntrySet!Refuse
      BY <1>1, <1>2, <1>3, <1>4, <2>1 DEF EntrySet!Refuse, EntrySet!Report, EntrySet!NoRequest
    <2>3. QED
      BY <2>2
  <1>5. CASE left # entry_count /\ request.rid = AnyRid
    <2>1. AbstractRequest = <<"remove all", request.key>>
      BY <1>1, <1>5, AbstractFacts
    <2>2. /\ before \ InUse(left) \in SUBSET before
          /\ InUse(left) = before \ (before \ InUse(left))
          /\ \A e \in before \ InUse(left) : e[1] = request.key
          /\ \A e \in InUse(left) : e[1] # request.key
      BY <1>5, RemoveFacts DEF Wanted
    <2>3. EntrySet!Taken(request.key, before \ InUse(left))
      BY <1>2, <1>3, <2>2 DEF EntrySet!Taken
    <2>4. EntrySet!RemoveRest(request.key)
      BY <1>1, <1>2, <1>3, <1>5, <2>1, <2>2, <2>3
         DEF EntrySet!RemoveRest, EntrySet!Report, EntrySet!NoRequest
    <2>5. QED
      BY <1>2, <2>4
  <1>6. CASE left # entry_count /\ request.rid # AnyRid
    <2> DEFINE e == <<request.key, request.rid>>
    <2>1. AbstractRequest = <<"remove", request.key, request.rid>> /\ request.rid \in RecordIDs
      BY <1>1, <1>6, AbstractFacts, RequestFacts
    <2>2. \A d \in before : Wanted(d) <=> d = e
      BY <1>6, RemoveFacts DEF Wanted, Entry
    <2>3. e \in before /\ InUse(left) = before \ {e}
      BY <1>6, <2>2, RemoveFacts
    <2>4. EntrySet!Remove(request.key, request.rid)
      BY <1>1, <1>2, <1>3, <1>6, <2>1, <2>3
         DEF EntrySet!Remove, EntrySet!Report, EntrySet!NoRequest
    <2>5. QED
      BY <1>2, <2>1, <2>4
  <1>7. QED
    BY <1>4, <1>5, <1>6

LEMMA StepRefines ==
    ASSUME BInv, BInv', [BucketNext]_bucketVars
    PROVE  EntrySet!IndexNext \/ UNCHANGED AbstractVars
  <1> USE DEF EntrySet!IndexNext
  <1>1. CASE UNCHANGED bucketVars
    BY <1>1 DEF bucketVars, AbstractVars, AbstractIndex, AbstractRequest, InUse
  <1>2. ASSUME NEW k \in Keys, NEW r \in RecordIDs, CallInsert(k, r)
        PROVE  EntrySet!Call
    BY <1>2, CallRefines DEF CallInsert
  <1>3. ASSUME NEW k \in Keys, NEW r \in RecordIDs \cup {AnyRid}, CallRemove(k, r)
        PROVE  EntrySet!Call
    BY <1>3, CallRefines DEF CallRemove
  <1>4. CASE InsertHere \/ AlreadyThere
    BY <1>4, InsertRefines
  <1>5. CASE PageFull
    BY <1>5, PageFullRefines
  <1>6. CASE RemovePasses \/ RemoveEntry
    BY <1>6, LoopRefines
  <1>7. CASE RemoveReturns
    BY <1>7, RemoveReturnsRefines
  <1>8. QED
    BY <1>1, <1>2, <1>3, <1>4, <1>5, <1>6, <1>7 DEF BucketNext

\* HashIndexBucketPage: a page is the set of entries HashIndex takes it for, for
\* every capacity.  Remove moves entries under its own loop and still takes every
\* entry asked for, and no other.
THEOREM PageImplementsSet == BucketSpec => PageIsSet
  <1>1. BucketInit => EntrySet!IndexInit
    BY InitRefines
  <1>2. BInv /\ BInv' /\ [BucketNext]_bucketVars
           => [EntrySet!IndexNext]_<<AbstractIndex, AbstractRequest, result>>
    BY StepRefines DEF AbstractVars
  <1>3. QED
    BY <1>1, <1>2, BucketInvariance, PTL DEF BucketSpec, PageIsSet, EntrySet!IndexSpec

-----------------------------------------------------------------------------
(* Refusals.                                                               *)

\* A full page holds as many entries as it has positions.
LEMMA FullPage ==
    ASSUME BInv, request.op # "remove", entry_count = Capacity
    PROVE  Cardinality(InUse(entry_count)) = Capacity
  <1> DEFINE S == 0 .. Capacity - 1
  <1> DEFINE f == [i \in S |-> entries[i]]
  <1>1. \A i, j \in S : i # j => entries[i] # entries[j]
    BY DEF BInv, ArrayTidy
  <1>2. f \in Injection(S, InUse(entry_count)) /\ f \in Surjection(S, InUse(entry_count))
    BY <1>1 DEF InUse, Injection, Surjection, IsInjective
  <1>3. IsFiniteSet(S) /\ Cardinality(S) = Capacity
    BY BucketAssumption, FS_Interval
  <1> HIDE DEF f, S
  <1>4. QED
    BY <1>2, <1>3, FS_Surjection

\* HashIndexBucketPage refuses an insertion only when the page is full of other
\* entries, and a removal only when no entry asked for is there, for every capacity.
THEOREM RefusalsAreJustified == BucketSpec => RefusalsJustified
  <1> DEFINE Justified ==
        request # Idle /\ request' = Idle /\ result' = "error" =>
           IF request.op = "insert"
           THEN Cardinality(before) = Capacity /\ <<request.key, request.rid>> \notin before
           ELSE \A e \in before : ~Wanted(e)
  <1>1. BInv /\ [BucketNext]_bucketVars => [Justified]_bucketVars
    <2> SUFFICES ASSUME BInv, BucketNext, request # Idle, request' = Idle, result' = "error"
                 PROVE  IF request.op = "insert"
                        THEN /\ Cardinality(before) = Capacity
                             /\ <<request.key, request.rid>> \notin before
                        ELSE \A e \in before : ~Wanted(e)
      OBVIOUS
    <2>1. PageFull \/ RemoveReturns
      BY DEF BucketNext, CallInsert, CallRemove, InsertHere, AlreadyThere, RemovePasses,
             RemoveEntry, Return
    <2>2. CASE PageFull
      <3>1. request.op = "insert" /\ entry_count = Capacity
            /\ <<request.key, request.rid>> \notin InUse(entry_count)
        BY <2>2 DEF PageFull
      <3>2. before = InUse(entry_count)
        BY <3>1 DEF BInv, BeforeKnown
      <3>3. QED
        BY <3>1, <3>2, FullPage
    <2>3. CASE RemoveReturns
      <3>1. request.op = "remove" /\ left = entry_count
        BY <2>3 DEF RemoveReturns, Return
      <3>2. QED
        BY <2>3, <3>1, RemoveFacts
    <2>4. QED
      BY <2>1, <2>2, <2>3
  <1>2. QED
    BY <1>1, BucketInvariance, PTL DEF BucketSpec, RefusalsJustified

(***************************************************************************)
(* The slotted page.                                                       *)
(***************************************************************************)

-----------------------------------------------------------------------------
(* What a slot can hold: nothing, or the bytes of a record.                *)
Contents == {<<>>} \cup {BytesOf(r) : r \in Records}

(* The inductive invariant: every record in the directory is one that was  *)
(* given to the page, lies in the record area, and the last slot is used.  *)
PageInv ==
    /\ NeverCorrupted
    /\ NoFragmentation
    /\ \A i \in DOMAIN slots : Active(i) =>
          /\ slots[i].offset >= free_space_pointer
          /\ Content(i) \in Contents
    /\ slots # <<>> => Active(Len(slots))

\* The sizes of a page and of its parts.
LEMMA PageSizes == /\ PageSize \in Nat /\ HeaderSize \in Nat \ {0} /\ SlotSize \in Nat \ {0}
                   /\ HeaderSize < PageSize
  BY PageAssumption

\* The bytes of a record are as many as its size says, and tell what record it is.
LEMMA BytesFacts ==
    /\ \A r \in Records : /\ BytesOf(r) \in Contents /\ BytesOf(r) # <<>>
                          /\ Len(BytesOf(r)) = r.size /\ r.size \in Nat \ {0}
    /\ \A r, q \in Records : BytesOf(r) = BytesOf(q) => r = q
    /\ \A c \in Contents : /\ Len(c) \in Nat /\ DOMAIN c = 1 .. Len(c)
                           /\ c = <<>> <=> Len(c) = 0
                           /\ c = [k \in 1 .. Len(c) |-> c[k]]
  <1>1. ASSUME NEW r \in Records
        PROVE  /\ BytesOf(r) \in Contents /\ BytesOf(r) # <<>>
               /\ Len(BytesOf(r)) = r.size /\ r.size \in Nat \ {0}
               /\ BytesOf(r) = [k \in 1 .. Len(BytesOf(r)) |-> BytesOf(r)[k]]
               /\ DOMAIN BytesOf(r) = 1 .. r.size
               /\ BytesOf(r)[1] = <<r.tag, 1>>
    <2>1. r.size \in Nat \ {0}
      BY PageAssumption
    <2>2. DOMAIN BytesOf(r) = 1 .. r.size
      BY DEF BytesOf
    <2>3. BytesOf(r) \in Seq({<<r.tag, k>> : k \in Nat})
      BY <2>1 DEF BytesOf
    <2>4. Len(BytesOf(r)) = r.size
      BY <2>1, <2>2, <2>3
    <2>5. BytesOf(r) # <<>>
      BY <2>1, <2>4
    <2>6. BytesOf(r)[1] = <<r.tag, 1>>
      BY <2>1 DEF BytesOf
    <2>7. BytesOf(r) = [k \in 1 .. Len(BytesOf(r)) |-> BytesOf(r)[k]]
      BY <2>4 DEF BytesOf
    <2>8. QED
      BY <2>1, <2>2, <2>4, <2>5, <2>6, <2>7 DEF Contents
  <1>2. ASSUME NEW r \in Records, NEW q \in Records, BytesOf(r) = BytesOf(q)
        PROVE  r = q
    <2>1. r.size = q.size /\ r.tag = q.tag
      BY <1>1, <1>2
    <2>2. QED
      BY <2>1, PageAssumption
  <1>3. ASSUME NEW c \in Contents
        PROVE  /\ Len(c) \in Nat /\ DOMAIN c = 1 .. Len(c)
               /\ c = <<>> <=> Len(c) = 0
               /\ c = [k \in 1 .. Len(c) |-> c[k]]
    <2>1. CASE c = <<>>
      BY <2>1
    <2>2. CASE \E r \in Records : c = BytesOf(r)
      BY <2>2, <1>1
    <2>3. QED
      BY <2>1, <2>2 DEF Contents
  <1>4. QED
    BY <1>1, <1>2, <1>3

\* The space of the first n slots: it grows by each record, and never shrinks.
LEMMA TotalFacts ==
    ASSUME NEW cs \in Seq(Contents)
    PROVE  /\ TotalUpTo(cs, 0) = 0
           /\ \A n \in 0 .. Len(cs) : TotalUpTo(cs, n) \in Nat
           /\ \A n \in 1 .. Len(cs) : TotalUpTo(cs, n) = TotalUpTo(cs, n - 1) + Len(cs[n])
           /\ \A m, n \in 0 .. Len(cs) : m <= n => TotalUpTo(cs, m) <= TotalUpTo(cs, n)
  <1> DEFINE f == [j \in DOMAIN cs |-> Len(cs[j])]
  <1>1. /\ DOMAIN cs = 1 .. Len(cs) /\ Len(cs) \in Nat
        /\ \A j \in 1 .. Len(cs) : cs[j] \in Contents /\ f[j] = Len(cs[j]) /\ f[j] \in Nat
    BY BytesFacts
  <1>2. \A n \in 0 .. Len(cs) : /\ IsFiniteSet(1 .. n) /\ 1 .. n \subseteq 1 .. Len(cs)
                                /\ \A j \in 1 .. n : f[j] \in Nat
    <2> HIDE DEF f
    <2> TAKE n \in 0 .. Len(cs)
    <2>1. n \in Int /\ 1 .. n \subseteq 1 .. Len(cs)
      BY <1>1
    <2>2. IsFiniteSet(1 .. n)
      BY <2>1, FS_Interval
    <2>3. QED
      BY <1>1, <2>1, <2>2
  <1> HIDE DEF f
  <1>3. \A n \in 0 .. Len(cs) : TotalUpTo(cs, n) = SumFunctionOnSet(f, 1 .. n)
    BY DEF TotalUpTo, f
  <1>4. TotalUpTo(cs, 0) = 0
    <2>1. 1 .. 0 = {} /\ 0 \in 0 .. Len(cs)
      BY <1>1
    <2>2. QED
      BY <1>2, <1>3, <2>1, SumUnfolds
  <1>5. ASSUME NEW n \in 0 .. Len(cs) PROVE TotalUpTo(cs, n) \in Nat
    BY <1>2, <1>3, SumNat
  <1>6. ASSUME NEW n \in 1 .. Len(cs)
        PROVE  TotalUpTo(cs, n) = TotalUpTo(cs, n - 1) + Len(cs[n])
    <2>1. /\ n \in 0 .. Len(cs) /\ n - 1 \in 0 .. Len(cs) /\ n \in 1 .. n
          /\ (1 .. n) \ {n} = 1 .. n - 1
      BY <1>1
    <2>2. SumFunctionOnSet(f, 1 .. n) = f[n] + SumFunctionOnSet(f, (1 .. n) \ {n})
      BY <1>2, <2>1, SumTakeOut
    <2>3. /\ TotalUpTo(cs, n) = f[n] + TotalUpTo(cs, n - 1)
          /\ f[n] \in Nat /\ f[n] = Len(cs[n]) /\ TotalUpTo(cs, n - 1) \in Nat
      BY <1>1, <1>3, <1>5, <2>1, <2>2
    <2>4. QED
      BY <2>3
  <1>7. ASSUME NEW m \in 0 .. Len(cs), NEW n \in 0 .. Len(cs), m <= n
        PROVE  TotalUpTo(cs, m) <= TotalUpTo(cs, n)
    <2>1. 1 .. m \in SUBSET (1 .. n)
      BY <1>1, <1>7
    <2>2. SumFunctionOnSet(f, 1 .. m) <= SumFunctionOnSet(f, 1 .. n)
      BY <1>2, <2>1, SumOfSubset
    <2>3. QED
      BY <1>3, <2>2
  <1>8. QED
    BY <1>4, <1>5, <1>6, <1>7

\* Two lists of contents that agree up to n take the same space up to n; with one slot
\* changed, the space changes by the difference.
LEMMA TotalOfChange ==
    ASSUME NEW cs \in Seq(Contents), NEW ds \in Seq(Contents), NEW n \in Nat,
           n <= Len(cs), n <= Len(ds)
    PROVE  /\ (\A j \in 1 .. n : cs[j] = ds[j]) => TotalUpTo(cs, n) = TotalUpTo(ds, n)
           /\ \A i \in 1 .. n : (\A j \in 1 .. n : j # i => cs[j] = ds[j]) =>
                 TotalUpTo(cs, n) + Len(ds[i]) = TotalUpTo(ds, n) + Len(cs[i])
  <1> DEFINE f == [j \in DOMAIN cs |-> Len(cs[j])]
             g == [j \in DOMAIN ds |-> Len(ds[j])]
  <1>1. /\ IsFiniteSet(1 .. n) /\ 1 .. n \subseteq DOMAIN cs /\ 1 .. n \subseteq DOMAIN ds
        /\ \A j \in 1 .. n : /\ f[j] = Len(cs[j]) /\ f[j] \in Nat
                             /\ g[j] = Len(ds[j]) /\ g[j] \in Nat
    <2>1. IsFiniteSet(1 .. n)
      BY FS_Interval
    <2>2. 1 .. n \subseteq 1 .. Len(cs) /\ 1 .. n \subseteq 1 .. Len(ds)
      OBVIOUS
    <2>3. DOMAIN cs = 1 .. Len(cs) /\ DOMAIN ds = 1 .. Len(ds)
      OBVIOUS
    <2>4. \A j \in 1 .. n : cs[j] \in Contents /\ ds[j] \in Contents
      BY <2>2
    <2>5. \A j \in 1 .. n : Len(cs[j]) \in Nat /\ Len(ds[j]) \in Nat
      BY <2>4, BytesFacts
    <2>6. QED
      BY <2>1, <2>2, <2>3, <2>5
  <1>2. /\ TotalUpTo(cs, n) = SumFunctionOnSet(f, 1 .. n)
        /\ TotalUpTo(ds, n) = SumFunctionOnSet(g, 1 .. n)
    BY DEF TotalUpTo
  <1> HIDE DEF f, g
  <1>3. ASSUME \A j \in 1 .. n : cs[j] = ds[j]
        PROVE  TotalUpTo(cs, n) = TotalUpTo(ds, n)
    <2>1. \A j \in 1 .. n : f[j] = g[j]
      BY <1>1, <1>3
    <2>2. QED
      BY <1>1, <1>2, <2>1, SumAgrees
  <1>4. ASSUME NEW i \in 1 .. n, \A j \in 1 .. n : j # i => cs[j] = ds[j]
        PROVE  TotalUpTo(cs, n) + Len(ds[i]) = TotalUpTo(ds, n) + Len(cs[i])
    <2> DEFINE others == (1 .. n) \ {i}
    <2>1. IsFiniteSet(others) /\ \A j \in others : j \in 1 .. n /\ f[j] = g[j]
      BY <1>1, <1>4, FS_RemoveElement
    <2>2. SumFunctionOnSet(f, others) = SumFunctionOnSet(g, others)
      BY <2>1, SumAgrees
    <2>3. SumFunctionOnSet(f, others) \in Nat
      BY <1>1, <2>1, SumNat
    <2>4. TotalUpTo(cs, n) = f[i] + SumFunctionOnSet(f, others)
      <3>1. \A x \in 1 .. n : f[x] \in Nat
        BY <1>1
      <3>2. SumFunctionOnSet(f, 1 .. n) = f[i] + SumFunctionOnSet(f, (1 .. n) \ {i})
        <4> HIDE DEF others
        <4>1. IsFiniteSet(1 .. n) /\ i \in 1 .. n
          BY <1>1
        <4>2. QED
          BY <3>1, <4>1, SumTakeOut
      <3>3. QED
        BY <1>2, <3>2
    <2>5. TotalUpTo(ds, n) = g[i] + SumFunctionOnSet(g, others)
      <3>1. \A x \in 1 .. n : g[x] \in Nat
        BY <1>1
      <3>2. SumFunctionOnSet(g, 1 .. n) = g[i] + SumFunctionOnSet(g, (1 .. n) \ {i})
        <4> HIDE DEF others
        <4>1. IsFiniteSet(1 .. n) /\ i \in 1 .. n
          BY <1>1
        <4>2. QED
          BY <3>1, <4>1, SumTakeOut
      <3>3. QED
        BY <1>2, <3>2
    <2>6. f[i] = Len(cs[i]) /\ g[i] = Len(ds[i]) /\ f[i] \in Nat /\ g[i] \in Nat
      BY <1>1
    <2> HIDE DEF others
    <2>7. QED
      BY <2>2, <2>3, <2>4, <2>5, <2>6
  <1>5. QED
    BY <1>3, <1>4

\* The directory grows by an entry with each slot.
LEMMA DirectoryFacts ==
    /\ \A n \in Nat : /\ DirectoryEnd(n) \in Nat /\ DirectoryEnd(n) >= HeaderSize
                      /\ DirectoryEnd(n + 1) = DirectoryEnd(n) + SlotSize
    /\ \A m, n \in Nat : m <= n => DirectoryEnd(m) <= DirectoryEnd(n)
  <1>1. ASSUME NEW n \in Nat
        PROVE  /\ DirectoryEnd(n) \in Nat /\ DirectoryEnd(n) >= HeaderSize
               /\ DirectoryEnd(n + 1) = DirectoryEnd(n) + SlotSize
    <2>1. n * SlotSize \in Nat /\ (n + 1) * SlotSize = n * SlotSize + SlotSize
      BY PageSizes
    <2>2. QED
      BY <2>1, PageSizes DEF DirectoryEnd
  <1>2. ASSUME NEW m \in Nat, NEW n \in Nat, m <= n
        PROVE  DirectoryEnd(m) <= DirectoryEnd(n)
    <2>1. PICK d \in Nat : n = m + d
      BY <1>2
    <2>2. n * SlotSize = m * SlotSize + d * SlotSize /\ d * SlotSize \in Nat /\ m * SlotSize \in Nat
      BY <2>1, PageSizes
    <2>3. QED
      BY <2>2, PageSizes DEF DirectoryEnd
  <1>3. QED
    BY <1>1, <1>2

\* What RewriteRecords writes, in a page it fits in: the records lie below one another
\* from the end of the page, none over another or over the directory.
LEMMA LaidOutFacts ==
    ASSUME NEW cs \in Seq(Contents), Fit(cs)
    PROVE  /\ PlaceOf(cs, Len(cs)) \in DirectoryEnd(Len(cs)) .. PageSize
           /\ \A i \in 1 .. Len(cs) :
                /\ PlaceOf(cs, i) \in PlaceOf(cs, Len(cs)) .. PageSize
                /\ PlaceOf(cs, i) + Len(cs[i]) <= PageSize
                /\ \A k \in 1 .. Len(cs[i]) : /\ PlaceOf(cs, i) + k - 1 \in Offsets
                                              /\ LaidOut(cs)[PlaceOf(cs, i) + k - 1] = cs[i][k]
  <1> DEFINE n == Len(cs)
             P(i) == PlaceOf(cs, i)
             D == DirectoryEnd(n)
  <1>1. n \in Nat /\ DOMAIN cs = 1 .. n /\ D \in Nat /\ HeaderSize <= D
    BY DirectoryFacts
  <1>2. \A i \in 1 .. n : Len(cs[i]) \in Nat
    BY <1>1, BytesFacts
  <1>3. /\ \A i \in 0 .. n : P(i) \in Int /\ P(i) <= PageSize
        /\ \A i \in 1 .. n : P(i) + Len(cs[i]) = P(i - 1)
        /\ \A i, j \in 0 .. n : i <= j => P(j) <= P(i)
    <2>1. ASSUME NEW i \in 0 .. n PROVE P(i) \in Int /\ P(i) <= PageSize
      BY TotalFacts, PageSizes DEF PlaceOf
    <2>2. ASSUME NEW i \in 1 .. n PROVE P(i) + Len(cs[i]) = P(i - 1)
      <3>1. i \in 0 .. n /\ i - 1 \in 0 .. n
        BY <1>1
      <3>2. TotalUpTo(cs, i) \in Nat /\ TotalUpTo(cs, i - 1) \in Nat
        BY <3>1, TotalFacts
      <3>3. TotalUpTo(cs, i) = TotalUpTo(cs, i - 1) + Len(cs[i])
        BY TotalFacts
      <3>4. QED
        BY <1>2, <3>2, <3>3, PageSizes DEF PlaceOf
    <2>3. ASSUME NEW i \in 0 .. n, NEW j \in 0 .. n, i <= j PROVE P(j) <= P(i)
      <3>1. TotalUpTo(cs, i) \in Nat /\ TotalUpTo(cs, j) \in Nat
        BY TotalFacts
      <3>2. TotalUpTo(cs, i) <= TotalUpTo(cs, j)
        BY <2>3, TotalFacts
      <3>3. QED
        BY <3>1, <3>2, PageSizes DEF PlaceOf
    <2>4. QED
      BY <2>1, <2>2, <2>3
  <1>4. D <= P(n)
    <2>1. n \in 0 .. n /\ TotalUpTo(cs, n) \in Nat
      BY <1>1, TotalFacts
    <2>2. D + TotalUpTo(cs, n) <= PageSize
      BY DEF Fit
    <2>3. QED
      BY <1>1, <2>1, <2>2, PageSizes DEF PlaceOf
  <1> HIDE DEF P, D, n
  <1>5. ASSUME NEW i \in 1 .. n
        PROVE  P(i) \in P(n) .. PageSize /\ P(i) + Len(cs[i]) <= PageSize
    <2>1. i \in 0 .. n /\ i - 1 \in 0 .. n /\ n \in 0 .. n /\ i <= n
      BY <1>1
    <2>2. QED
      BY <1>3, <2>1
  <1>6. ASSUME NEW i \in 1 .. n, NEW k \in 1 .. Len(cs[i])
        PROVE  P(i) + k - 1 \in Offsets /\ LaidOut(cs)[P(i) + k - 1] = cs[i][k]
    <2> DEFINE x == P(i) + k - 1
               owners == {j \in 1 .. n : x \in P(j) .. P(j) + Len(cs[j]) - 1}
    <2>1. x \in Int /\ x >= D /\ x \in P(i) .. P(i) + Len(cs[i]) - 1 /\ x < PageSize
      <3> DEFINE a == P(i)
                 b == Len(cs[i])
      <3>1. /\ a \in Int /\ b \in Nat /\ P(n) \in Int /\ a >= P(n) /\ a + b <= PageSize
            /\ k \in 1 .. b /\ D \in Nat /\ D <= P(n) /\ PageSize \in Nat
        <4>1. i \in 0 .. n /\ n \in 0 .. n
          BY <1>1
        <4>2. QED
          BY <1>1, <1>2, <1>3, <1>4, <1>5, <4>1, PageSizes
      <3> HIDE DEF a, b
      <3>2. a + k - 1 \in a .. a + b - 1 /\ a + k - 1 >= D /\ a + k - 1 < PageSize
        BY <3>1
      <3>3. QED
        BY <3>2 DEF a, b
    <2>2. x \in Offsets
      BY <1>1, <2>1, PageSizes DEF Offsets
    <2>3. ASSUME NEW j \in owners PROVE j = i
      <3>1. /\ i \in 0 .. n /\ j \in 0 .. n /\ i - 1 \in 0 .. n /\ j - 1 \in 0 .. n
            /\ i \in Int /\ j \in Int
        BY <1>1
      <3>2. /\ P(i) \in Int /\ P(j) \in Int /\ x \in Int
            /\ P(i) <= x /\ x < P(i - 1) /\ P(j) <= x /\ x < P(j - 1)
            /\ P(i - 1) \in Int /\ P(j - 1) \in Int
        <4>1. /\ P(i) \in Int /\ P(j) \in Int /\ P(i - 1) \in Int /\ P(j - 1) \in Int
              /\ Len(cs[i]) \in Nat /\ Len(cs[j]) \in Nat
              /\ P(i) + Len(cs[i]) = P(i - 1) /\ P(j) + Len(cs[j]) = P(j - 1)
          BY <1>2, <1>3, <3>1
        <4>2. x \in P(i) .. P(i) + Len(cs[i]) - 1 /\ x \in P(j) .. P(j) + Len(cs[j]) - 1 /\ x \in Int
          BY <2>1
        <4>3. \A a, b, y \in Int : \A l \in Nat :
                 y \in a .. a + l - 1 /\ a + l = b => a <= y /\ y < b
          OBVIOUS
        <4> HIDE DEF x, owners
        <4>4. P(i) <= x /\ x < P(i - 1)
          BY <4>1, <4>2, <4>3
        <4>5. P(j) <= x /\ x < P(j - 1)
          BY <4>1, <4>2, <4>3
        <4>6. QED
          BY <4>1, <4>2, <4>4, <4>5
      <3> HIDE DEF x
      <3>3. CASE i < j
        <4>1. P(j - 1) <= P(i)
          BY <1>3, <3>1, <3>3
        <4>2. QED
          BY <3>2, <4>1
      <3>4. CASE j < i
        <4>1. P(i - 1) <= P(j)
          BY <1>3, <3>1, <3>4
        <4>2. QED
          BY <3>2, <4>1
      <3>5. QED
        BY <3>1, <3>3, <3>4
    <2>4. i \in owners
      BY <2>1
    <2>5. owners = {i} /\ (CHOOSE o \in owners : TRUE) = i
      BY <2>3, <2>4
    <2>6. x - P(i) + 1 = k
      BY <1>1, <1>2, <1>3, <1>5
    <2>7. ~ (x < D)
      BY <1>1, <2>1
    <2> HIDE DEF x
    <2>8. LaidOut(cs)[x] = IF owners = {} THEN <<"zero", 0>>
                           ELSE cs[CHOOSE o \in owners : TRUE]
                                  [x - P(CHOOSE o \in owners : TRUE) + 1]
      BY <1>1, <2>2, <2>7 DEF LaidOut, P, D, n
    <2> HIDE DEF owners
    <2>9. LaidOut(cs)[x] = cs[i][k]
      BY <2>4, <2>5, <2>6, <2>8
    <2>10. QED
      BY <2>2, <2>9 DEF x
  <1>7. QED
    <2>1. P(n) \in D .. PageSize
      <3>1. n \in 0 .. n
        BY <1>1
      <3>2. QED
        BY <1>1, <1>3, <1>4, <3>1, PageSizes
    <2>2. QED
      BY <1>5, <1>6, <2>1 DEF P, D, n

\* RewriteRecords leaves a sound page that holds what it was given.
LEMMA RewriteFacts ==
    ASSUME NEW cs \in Seq(Contents), Fit(cs), cs # <<>> => cs[Len(cs)] # <<>>,
           RewriteRecords(cs)
    PROVE  PageInv' /\ LoadRecords' = cs
  <1> DEFINE n == Len(cs)
  <1>1. n \in Nat /\ DOMAIN cs = 1 .. n /\ cs = [i \in 1 .. n |-> cs[i]]
    OBVIOUS
  <1>2. \A i \in 1 .. n : /\ cs[i] \in Contents /\ Len(cs[i]) \in Nat
                          /\ cs[i] = <<>> <=> Len(cs[i]) = 0
                          /\ cs[i] = [k \in 1 .. Len(cs[i]) |-> cs[i][k]]
    BY <1>1, BytesFacts
  <1>3. slots' = [i \in 1 .. n |-> IF cs[i] = <<>> THEN EmptySlot
                                   ELSE [offset |-> PlaceOf(cs, i), length |-> Len(cs[i])]]
    BY <1>1 DEF RewriteRecords
  <1>4. DOMAIN slots' = 1 .. n /\ Len(slots') = n
    BY <1>1, <1>3
  <1>5. /\ PlaceOf(cs, n) \in Nat /\ DirectoryEnd(n) \in Nat /\ HeaderSize <= DirectoryEnd(n)
        /\ DirectoryEnd(n) <= PlaceOf(cs, n) /\ PlaceOf(cs, n) <= PageSize
    <2>1. DirectoryEnd(n) \in Nat /\ HeaderSize <= DirectoryEnd(n)
      BY <1>1, DirectoryFacts
    <2>2. PlaceOf(cs, n) \in DirectoryEnd(n) .. PageSize
      BY LaidOutFacts
    <2>3. QED
      BY <2>1, <2>2, PageSizes
  <1>6. ASSUME NEW i \in 1 .. n
        PROVE  /\ Active(i)' <=> cs[i] # <<>>
               /\ cs[i] # <<>> =>
                    /\ slots'[i] = [offset |-> PlaceOf(cs, i), length |-> Len(cs[i])]
                    /\ Content(i)' = cs[i]
                    /\ PlaceOf(cs, i) \in Offsets /\ Len(cs[i]) \in 1 .. PageSize
                    /\ PlaceOf(cs, i) >= PlaceOf(cs, n)
                    /\ PlaceOf(cs, i) + Len(cs[i]) <= PageSize
    <2>1. cs[i] = <<>> => slots'[i] = EmptySlot
      BY <1>3
    <2>2. ASSUME cs[i] # <<>>
          PROVE  /\ slots'[i] = [offset |-> PlaceOf(cs, i), length |-> Len(cs[i])]
                 /\ Content(i)' = cs[i]
                 /\ PlaceOf(cs, i) \in Offsets /\ Len(cs[i]) \in 1 .. PageSize
                 /\ PlaceOf(cs, i) >= PlaceOf(cs, n)
                 /\ PlaceOf(cs, i) + Len(cs[i]) <= PageSize
                 /\ slots'[i] # EmptySlot
      <3>1. slots'[i] = [offset |-> PlaceOf(cs, i), length |-> Len(cs[i])]
        BY <1>3, <2>2
      <3>2. Len(cs[i]) # 0
        BY <1>2, <2>2
      <3>3. /\ PlaceOf(cs, i) \in Int /\ PlaceOf(cs, i) >= PlaceOf(cs, n)
            /\ PlaceOf(cs, i) + Len(cs[i]) <= PageSize
        BY <1>1, <1>5, LaidOutFacts, PageSizes
      <3>4. HeaderSize <= PlaceOf(cs, n)
        BY <1>5, PageSizes
      <3>5. PlaceOf(cs, i) \in Offsets /\ Len(cs[i]) \in 1 .. PageSize
        BY <1>2, <1>5, <3>2, <3>3, <3>4, PageSizes DEF Offsets
      <3>6. bytes' = LaidOut(cs)
        BY DEF RewriteRecords
      <3>7. \A k \in 1 .. Len(cs[i]) : bytes'[PlaceOf(cs, i) + k - 1] = cs[i][k]
        BY <3>6, LaidOutFacts
      <3>8. Content(i)' = [k \in 1 .. Len(cs[i]) |-> bytes'[PlaceOf(cs, i) + k - 1]]
        BY <3>1 DEF Content
      <3>9. Content(i)' = [k \in 1 .. Len(cs[i]) |-> cs[i][k]]
        BY <3>7, <3>8
      <3>10. Content(i)' = cs[i]
        BY <1>2, <3>9
      <3>11. slots'[i] # EmptySlot
        BY <3>1, <3>2 DEF EmptySlot
      <3>12. QED
        BY <3>1, <3>3, <3>5, <3>10, <3>11
    <2>3. QED
      BY <2>1, <2>2 DEF Active
  <1>7. LoadRecords' = cs
    <2>1. LoadRecords' = [i \in 1 .. n |-> IF Active(i)' THEN Content(i)' ELSE <<>>]
      BY <1>4 DEF LoadRecords
    <2>2. \A i \in 1 .. n : (IF Active(i)' THEN Content(i)' ELSE <<>>) = cs[i]
      BY <1>6
    <2>3. LoadRecords' = [i \in 1 .. n |-> cs[i]]
      BY <2>1, <2>2
    <2>4. QED
      BY <1>1, <2>3
  <1>8. free_space_pointer' = PlaceOf(cs, n)
    BY DEF RewriteRecords, PointerAfter
  <1>9. NoFragmentation'
    BY <1>4, <1>7, <1>8 DEF NoFragmentation, PlaceOf
  <1>10. SlottedTypeOK'
    <2>1. ASSUME NEW i \in 1 .. n
          PROVE  slots'[i] \in [offset : {0} \cup Offsets, length : 0 .. PageSize]
      <3>1. CASE cs[i] = <<>>
        <4>1. slots'[i] = EmptySlot
          BY <1>3, <3>1
        <4>2. QED
          BY <4>1, PageSizes DEF EmptySlot
      <3>2. CASE cs[i] # <<>>
        <4>1. /\ slots'[i] = [offset |-> PlaceOf(cs, i), length |-> Len(cs[i])]
              /\ PlaceOf(cs, i) \in Offsets /\ Len(cs[i]) \in 1 .. PageSize
          BY <1>6, <3>2
        <4>2. Len(cs[i]) \in 0 .. PageSize
          BY <4>1, PageSizes
        <4>3. QED
          BY <4>1, <4>2
      <3>3. QED
        BY <3>1, <3>2
    <2>2. slots' \in Seq([offset : {0} \cup Offsets, length : 0 .. PageSize])
      BY <1>1, <1>3, <1>4, <2>1
    <2>3. DOMAIN bytes' = Offsets
      BY DEF RewriteRecords, LaidOut
    <2>4. QED
      BY <1>5, <1>8, <2>2, <2>3, PageSizes DEF SlottedTypeOK
  <1>11. NeverCorrupted'
    <2>1. ASSUME NEW i \in 1 .. n, cs[i] # <<>>
          PROVE  /\ slots'[i].length # 0
                 /\ slots'[i].offset >= DirectoryEnd(n)
                 /\ slots'[i].offset + slots'[i].length <= PageSize
      <3>1. /\ slots'[i] = [offset |-> PlaceOf(cs, i), length |-> Len(cs[i])]
            /\ PlaceOf(cs, i) \in Offsets /\ Len(cs[i]) \in 1 .. PageSize
            /\ PlaceOf(cs, i) >= PlaceOf(cs, n) /\ PlaceOf(cs, i) + Len(cs[i]) <= PageSize
        BY <1>6, <2>1
      <3>2. PlaceOf(cs, i) \in Int
        BY <3>1, PageSizes DEF Offsets
      <3>3. QED
        BY <1>5, <3>1, <3>2, PageSizes
    <2>2. QED
      BY <1>4, <1>5, <1>6, <1>8, <1>10, <2>1 DEF NeverCorrupted
  <1>12. \A i \in 1 .. n : Active(i)' => /\ slots'[i].offset >= free_space_pointer'
                                         /\ Content(i)' \in Contents
    <2>1. ASSUME NEW i \in 1 .. n, Active(i)'
          PROVE  slots'[i].offset >= free_space_pointer' /\ Content(i)' \in Contents
      <3>1. cs[i] # <<>>
        BY <1>6, <2>1
      <3>2. /\ slots'[i] = [offset |-> PlaceOf(cs, i), length |-> Len(cs[i])]
            /\ Content(i)' = cs[i] /\ PlaceOf(cs, i) >= PlaceOf(cs, n)
        BY <1>6, <3>1
      <3>3. QED
        BY <1>2, <1>8, <3>2
    <2>2. QED
      BY <2>1
  <1>13. slots' # <<>> => Active(n)'
    <2>1. slots' # <<>> => cs # <<>> /\ n \in 1 .. n
      BY <1>1, <1>4
    <2>2. QED
      BY <1>6, <2>1
  <1>14. QED
    BY <1>4, <1>7, <1>9, <1>11, <1>12, <1>13 DEF PageInv

\* What LoadRecords gives for a sound page: a list of contents that fits in it.
LEMMA LoadFacts ==
    ASSUME PageInv
    PROVE  /\ Len(slots) \in Nat /\ DOMAIN slots = 1 .. Len(slots)
           /\ LoadRecords \in Seq(Contents) /\ Len(LoadRecords) = Len(slots)
           /\ \A i \in 1 .. Len(slots) :
                /\ LoadRecords[i] = IF Active(i) THEN Content(i) ELSE <<>>
                /\ Active(i) <=> LoadRecords[i] # <<>>
                /\ Active(i) => Len(LoadRecords[i]) = slots[i].length
                /\ slots[i].offset \in Nat /\ slots[i].length \in Nat
           /\ Fit(LoadRecords)
           /\ free_space_pointer = PageSize - TotalUpTo(LoadRecords, Len(slots))
           /\ TotalUpTo(LoadRecords, Len(slots)) \in Nat
           /\ free_space_pointer \in DirectoryEnd(Len(slots)) .. PageSize
           /\ LoadRecords # <<>> => LoadRecords[Len(LoadRecords)] # <<>>
  <1> DEFINE n == Len(slots)
             L == LoadRecords
  <1>1. /\ n \in Nat /\ DOMAIN slots = 1 .. n
        /\ \A i \in 1 .. n : slots[i].offset \in Nat /\ slots[i].length \in Nat
    <2> DEFINE Slot == [offset : {0} \cup Offsets, length : 0 .. PageSize]
    <2>1. slots \in Seq(Slot)
      BY DEF PageInv, NeverCorrupted, SlottedTypeOK
    <2> HIDE DEF Slot
    <2>2. n \in Nat /\ DOMAIN slots = 1 .. n /\ \A i \in 1 .. n : slots[i] \in Slot
      BY <2>1
    <2>3. QED
      BY <2>2, PageSizes DEF Slot, Offsets
  <1>2. L = [i \in 1 .. n |-> IF Active(i) THEN Content(i) ELSE <<>>]
    BY <1>1 DEF LoadRecords
  <1>3. ASSUME NEW i \in 1 .. n
        PROVE  /\ L[i] \in Contents
               /\ Active(i) <=> L[i] # <<>>
               /\ Active(i) => Len(L[i]) = slots[i].length
    <2>1. ASSUME Active(i)
          PROVE  L[i] \in Contents /\ L[i] # <<>> /\ Len(L[i]) = slots[i].length
      <3>1. Content(i) \in Contents /\ slots[i].length # 0 /\ slots[i].length \in Nat
        BY <1>1, <2>1, PageSizes DEF PageInv, NeverCorrupted
      <3>2. DOMAIN Content(i) = 1 .. slots[i].length
        BY DEF Content
      <3>3. DOMAIN Content(i) = 1 .. Len(Content(i)) /\ Len(Content(i)) \in Nat
        BY <3>1, BytesFacts
      <3>4. Len(Content(i)) = slots[i].length
        <4> DEFINE a == Len(Content(i))
                   b == slots[i].length
        <4>1. a \in Nat /\ b \in Nat /\ 1 .. a = 1 .. b
          BY <3>1, <3>2, <3>3
        <4> HIDE DEF a, b
        <4>2. a = b
          BY <4>1
        <4>3. QED
          BY <4>2 DEF a, b
      <3>5. L[i] = Content(i)
        BY <1>2, <2>1
      <3>6. QED
        BY <3>1, <3>4, <3>5
    <2>2. ~Active(i) => L[i] = <<>>
      BY <1>2
    <2>3. QED
      BY <2>1, <2>2 DEF Contents
  <1>4. L \in Seq(Contents) /\ Len(L) = n
    BY <1>1, <1>2, <1>3
  <1>5. free_space_pointer = PageSize - TotalUpTo(L, n)
    BY DEF PageInv, NoFragmentation
  <1>6. TotalUpTo(L, n) \in Nat
    <2>1. n \in 0 .. Len(L)
      BY <1>1, <1>4
    <2>2. QED
      BY <1>4, <2>1, TotalFacts
  <1>7. DirectoryEnd(n) <= free_space_pointer /\ DirectoryEnd(n) \in Nat
    BY <1>1, DirectoryFacts DEF PageInv, NeverCorrupted
  <1>8. Fit(L)
    BY <1>4, <1>5, <1>6, <1>7, PageSizes DEF Fit
  <1>9. free_space_pointer \in DirectoryEnd(n) .. PageSize
    BY <1>5, <1>6, <1>7, PageSizes
  <1>10. L # <<>> => L[Len(L)] # <<>>
    <2>1. L # <<>> => n \in 1 .. n /\ slots # <<>>
      BY <1>1, <1>4
    <2>2. QED
      BY <1>3, <1>4, <2>1 DEF PageInv
  <1>11. QED
    BY <1>1, <1>2, <1>3, <1>4, <1>5, <1>6, <1>8, <1>9, <1>10

(* The contents of the slots with c in slot i, a new one perhaps.          *)
WithContent(cs, i, c) ==
    [j \in 1 .. (IF i > Len(cs) THEN i ELSE Len(cs)) |-> IF j = i THEN c ELSE cs[j]]

\* Writing one slot of a list of contents changes the space they take by the
\* difference between what was there and what is there now.
LEMMA WithContentFacts ==
    ASSUME NEW cs \in Seq(Contents), NEW i \in 1 .. Len(cs) + 1, NEW c \in Contents
    PROVE  LET ds == WithContent(cs, i, c)
               n  == IF i > Len(cs) THEN i ELSE Len(cs)
           IN /\ ds \in Seq(Contents) /\ Len(ds) = n /\ n \in Nat /\ i \in 1 .. n
              /\ \A j \in 1 .. n : ds[j] = IF j = i THEN c ELSE cs[j]
              /\ TotalUpTo(ds, n) = TotalUpTo(cs, Len(cs)) + Len(c)
                                       - (IF i > Len(cs) THEN 0 ELSE Len(cs[i]))
  <1> DEFINE ds == WithContent(cs, i, c)
             n == IF i > Len(cs) THEN i ELSE Len(cs)
             m == Len(cs)
  <1>1. m \in Nat /\ n \in Nat /\ i \in 1 .. n /\ (n = m \/ (n = m + 1 /\ i = n))
    OBVIOUS
  <1>2. ds = [j \in 1 .. n |-> IF j = i THEN c ELSE cs[j]]
    BY DEF WithContent
  <1>3. \A j \in 1 .. n : ds[j] = IF j = i THEN c ELSE cs[j]
    BY <1>2
  <1>4. \A j \in 1 .. n : ds[j] \in Contents
    BY <1>1, <1>3
  <1>5. ds \in Seq(Contents) /\ Len(ds) = n
    BY <1>1, <1>2, <1>4
  <1>6. Len(c) \in Nat /\ \A j \in 1 .. m : Len(cs[j]) \in Nat
    BY BytesFacts
  <1>7. TotalUpTo(cs, m) \in Nat /\ TotalUpTo(ds, n) \in Nat
    <2>1. m \in 0 .. m /\ n \in 0 .. n
      BY <1>1
    <2>2. TotalUpTo(cs, m) \in Nat
      BY <2>1, TotalFacts
    <2> HIDE DEF ds, n
    <2>3. TotalUpTo(ds, n) \in Nat
      BY <1>5, <2>1, TotalFacts
    <2>4. QED
      BY <2>2, <2>3
  <1> HIDE DEF ds
  <1>8. CASE i > m
    <2>1. n = m + 1 /\ i = n /\ n \in 1 .. n
      BY <1>1, <1>8
    <2>2. TotalUpTo(ds, n) = TotalUpTo(ds, m) + Len(c)
      <3>1. Len(ds) = m + 1 /\ (m + 1) - 1 = m /\ m + 1 \in 1 .. Len(ds) /\ ds[m + 1] = c
        BY <1>1, <1>3, <1>5, <2>1
      <3>2. TotalUpTo(ds, m + 1) = TotalUpTo(ds, (m + 1) - 1) + Len(ds[m + 1])
        BY <1>5, <3>1, TotalFacts
      <3>3. QED
        BY <2>1, <3>1, <3>2
    <2>3. TotalUpTo(ds, m) = TotalUpTo(cs, m)
      <3>1. \A j \in 1 .. m : cs[j] = ds[j]
        BY <1>1, <1>3, <2>1
      <3>2. m <= Len(cs) /\ m <= Len(ds)
        BY <1>1, <1>5, <2>1
      <3>3. QED
        BY <1>1, <1>5, <3>1, <3>2, TotalOfChange
    <2> HIDE DEF n, m
    <2>4. TotalUpTo(ds, n) = TotalUpTo(cs, m) + Len(c) - 0
      BY <1>6, <1>7, <2>2, <2>3
    <2>5. QED
      BY <1>1, <1>3, <1>5, <1>8, <2>4 DEF n, m, ds
  <1>9. CASE ~(i > m)
    <2>1. n = m /\ i \in 1 .. m
      BY <1>1, <1>9
    <2>2. TotalUpTo(cs, m) + Len(ds[i]) = TotalUpTo(ds, m) + Len(cs[i])
      <3>1. \A j \in 1 .. m : j # i => cs[j] = ds[j]
        BY <1>3, <2>1
      <3>2. m <= Len(cs) /\ m <= Len(ds)
        BY <1>1, <1>5, <2>1
      <3>3. QED
        BY <1>1, <1>5, <2>1, <3>1, <3>2, TotalOfChange
    <2>3. ds[i] = c
      BY <1>3, <1>1
    <2>4. Len(cs[i]) \in Nat
      BY <1>6, <2>1
    <2> HIDE DEF n, m
    <2>5. TotalUpTo(cs, m) + Len(c) = TotalUpTo(ds, n) + Len(cs[i])
      BY <2>1, <2>2, <2>3
    <2>6. TotalUpTo(cs, m) \in Nat /\ TotalUpTo(ds, n) \in Nat /\ Len(c) \in Nat
      BY <1>6, <1>7
    <2> DEFINE old == TotalUpTo(cs, m)
               new == TotalUpTo(ds, n)
               wide == Len(c)
               gone == Len(cs[i])
    <2> HIDE DEF old, new, wide, gone
    <2>7. old + wide = new + gone /\ old \in Nat /\ new \in Nat /\ wide \in Nat /\ gone \in Nat
      BY <2>4, <2>5, <2>6 DEF old, new, wide, gone
    <2>8. new = old + wide - gone
      BY <2>7
    <2>9. TotalUpTo(ds, n) = TotalUpTo(cs, m) + Len(c) - Len(cs[i])
      BY <2>8 DEF old, new, wide, gone
    <2>10. QED
      BY <1>1, <1>3, <1>5, <1>9, <2>9 DEF n, m, ds
  <1>10. QED
    BY <1>8, <1>9

\* InsertRecord finds the record area below the records, so it writes over none of
\* them, and the entry it writes lies below the new record.
LEMMA InsertFacts ==
    ASSUME PageInv, NEW r \in Records, NEW i \in 1 .. Len(slots) + 1, InsertRecord(r, i)
    PROVE  PageInv' /\ LoadRecords' = WithContent(LoadRecords, i, BytesOf(r))
  <1> DEFINE n == Len(slots)
             m == IF i > n THEN i ELSE n
             L == LoadRecords
             M == WithContent(L, i, BytesOf(r))
             offset == free_space_pointer - r.size
  <1>1. /\ n \in Nat /\ DOMAIN slots = 1 .. n /\ m \in Nat /\ i \in 1 .. m
        /\ n <= m /\ (n = m \/ (m = n + 1 /\ i = n + 1))
        /\ i \in 1 .. n + 1 /\ i \in Nat
    <2>1. n \in Nat /\ DOMAIN slots = 1 .. n /\ i \in 1 .. n + 1
      BY LoadFacts
    <2> HIDE DEF n
    <2>2. QED
      BY <2>1
  <1>2. /\ L \in Seq(Contents) /\ Len(L) = n
        /\ \A j \in 1 .. n : /\ L[j] = IF Active(j) THEN Content(j) ELSE <<>>
                             /\ Active(j) <=> L[j] # <<>>
        /\ free_space_pointer = PageSize - TotalUpTo(L, n) /\ TotalUpTo(L, n) \in Nat
        /\ free_space_pointer \in DirectoryEnd(n) .. PageSize
    BY LoadFacts
  <1>3. /\ BytesOf(r) \in Contents /\ BytesOf(r) # <<>> /\ Len(BytesOf(r)) = r.size
        /\ r.size \in Nat \ {0}
    BY BytesFacts
  <1>4. /\ DirectoryEnd(n) \in Nat /\ HeaderSize <= DirectoryEnd(n)
        /\ DirectoryEnd(m) \in Nat /\ DirectoryEnd(n) <= DirectoryEnd(m)
        /\ HeaderSize <= DirectoryEnd(m)
    BY <1>1, DirectoryFacts
  <1>5. DirectoryEnd(m) <= offset /\ offset \in Nat /\ offset + r.size = free_space_pointer
    <2>1. GetFreeSpace >= RequiredSpace(r, i)
      BY DEF InsertRecord
    <2>2. DirectoryEnd(n) + (IF i \in 1 .. n THEN 0 ELSE SlotSize) = DirectoryEnd(m)
      <3>1. CASE i \in 1 .. n
        <4>1. m = n
          <5> HIDE DEF n
          <5>1. QED
            BY <1>1, <3>1
        <4>2. QED
          BY <1>4, <3>1, <4>1
      <3>2. CASE i \notin 1 .. n
        <4>1. m = n + 1
          BY <1>1, <3>2
        <4>2. DirectoryEnd(n + 1) = DirectoryEnd(n) + SlotSize
          BY <1>1, DirectoryFacts
        <4> HIDE DEF m, n
        <4>3. QED
          BY <3>2, <4>1, <4>2
      <3>3. QED
        BY <3>1, <3>2
    <2>3. free_space_pointer - DirectoryEnd(n) >= r.size + (IF i \in 1 .. n THEN 0 ELSE SlotSize)
      BY <1>1, <2>1 DEF GetFreeSpace, RequiredSpace
    <2>4. free_space_pointer \in Int /\ SlotSize \in Nat
      BY <1>2, <1>4, PageSizes
    <2> HIDE DEF n, m
    <2>5. QED
      BY <1>3, <1>4, <2>2, <2>3, <2>4
  <1>6. /\ slots' = [j \in 1 .. m |-> IF j = i THEN [offset |-> offset, length |-> r.size]
                                      ELSE slots[j]]
        /\ free_space_pointer' = offset
        /\ bytes' = SlotWritten(Copied(bytes, offset, BytesOf(r)), i)
    BY DEF InsertRecord
  <1>7. DOMAIN slots' = 1 .. m /\ Len(slots') = m
    <2> HIDE DEF m, n, offset
    <2>1. QED
      BY <1>1, <1>6
  <1>8. /\ M \in Seq(Contents) /\ Len(M) = m
        /\ \A j \in 1 .. m : M[j] = IF j = i THEN BytesOf(r) ELSE L[j]
        /\ TotalUpTo(M, m) = TotalUpTo(L, n) + r.size - (IF i > n THEN 0 ELSE Len(L[i]))
    <2>1. i \in 1 .. Len(L) + 1 /\ Len(L) = n
      BY <1>2
    <2>2. /\ M \in Seq(Contents) /\ Len(M) = IF i > Len(L) THEN i ELSE Len(L)
          /\ \A j \in 1 .. (IF i > Len(L) THEN i ELSE Len(L)) : M[j] = IF j = i THEN BytesOf(r) ELSE L[j]
          /\ TotalUpTo(M, IF i > Len(L) THEN i ELSE Len(L))
                = TotalUpTo(L, Len(L)) + Len(BytesOf(r)) - (IF i > Len(L) THEN 0 ELSE Len(L[i]))
      <3> HIDE DEF L
      <3>1. L \in Seq(Contents) /\ i \in 1 .. Len(L) + 1 /\ BytesOf(r) \in Contents
        BY <1>2, <1>3, <2>1
      <3>2. QED
        BY <3>1, WithContentFacts
    <2> HIDE DEF L, n, M
    <2>3. QED
      BY <1>3, <2>1, <2>2
  <1>9. i \in 1 .. n => ~Active(i)
    <2>1. (i \in DOMAIN slots /\ ~Active(i)) \/ i = n + 1
      BY DEF InsertRecord, SelectedSlot
    <2> HIDE DEF n
    <2>2. QED
      BY <1>1, <2>1
  <1>10. TotalUpTo(M, m) = PageSize - offset
    <2>1. (IF i > n THEN 0 ELSE Len(L[i])) = 0
      <3>1. CASE i > n
        BY <3>1
      <3>2. CASE ~(i > n)
        <4>1. i \in 1 .. n
          BY <1>1, <3>2
        <4>2. L[i] = <<>>
          BY <1>2, <1>9, <4>1
        <4>3. QED
          BY <3>2, <4>2
      <3>3. QED
        BY <3>1, <3>2
    <2>2. TotalUpTo(M, m) = TotalUpTo(L, n) + r.size - 0
      BY <1>8, <2>1
    <2>3. free_space_pointer \in Int
      BY <1>5, <1>3
    <2> HIDE DEF M, L, n, m
    <2>4. QED
      BY <1>2, <1>3, <2>2, <2>3, PageSizes
  <1> HIDE DEF M, offset
  <1>11. /\ offset \in Int /\ r.size \in Nat \ {0} /\ offset >= DirectoryEnd(m)
         /\ offset + r.size = free_space_pointer /\ free_space_pointer \in Int
         /\ free_space_pointer <= PageSize /\ DirectoryEnd(m) \in Nat /\ PageSize \in Nat
         /\ HeaderSize \in Nat /\ HeaderSize <= DirectoryEnd(m)
    BY <1>2, <1>3, <1>4, <1>5, PageSizes DEF offset
  (* The bytes of the records.                                             *)
  <1>12. \A x \in Offsets : x >= DirectoryEnd(m) =>
            bytes'[x] = IF x \in offset .. offset + r.size - 1 THEN BytesOf(r)[x - offset + 1]
                        ELSE bytes[x]
    <2> SUFFICES ASSUME NEW x \in Offsets, x >= DirectoryEnd(m)
                 PROVE  bytes'[x] = IF x \in offset .. offset + r.size - 1
                                    THEN BytesOf(r)[x - offset + 1] ELSE bytes[x]
      OBVIOUS
    <2>1. DirectoryEnd(i) <= DirectoryEnd(m) /\ DirectoryEnd(i) \in Nat /\ x \in Int
      <3>1. i <= m /\ i \in Nat /\ m \in Nat
        <4> HIDE DEF m, n
        <4>1. QED
          BY <1>1
      <3> HIDE DEF m
      <3>2. QED
        BY <3>1, DirectoryFacts, PageSizes DEF Offsets
    <2>2. x \notin DirectoryEnd(i - 1) .. DirectoryEnd(i) - 1
      BY <1>4, <2>1
    <2>3. bytes'[x] = Copied(bytes, offset, BytesOf(r))[x]
      BY <1>6, <2>2 DEF SlotWritten
    <2>4. QED
      BY <1>3, <2>3 DEF Copied
  <1>13. ASSUME NEW j \in 1 .. m
         PROVE  /\ j = i => /\ slots'[j] = [offset |-> offset, length |-> r.size]
                            /\ Active(j)' /\ Content(j)' = BytesOf(r)
                /\ j # i => /\ j \in 1 .. n /\ slots'[j] = slots[j]
                            /\ Active(j)' <=> Active(j)
                            /\ Active(j) => Content(j)' = Content(j)
    <2>1. ASSUME j = i
          PROVE  /\ slots'[j] = [offset |-> offset, length |-> r.size]
                 /\ Active(j)' /\ Content(j)' = BytesOf(r)
      <3>1. slots'[j] = [offset |-> offset, length |-> r.size]
        BY <1>6, <2>1
      <3>2. Active(j)'
        BY <1>3, <3>1 DEF Active, EmptySlot
      <3>3. \A k \in 1 .. r.size : bytes'[offset + k - 1] = BytesOf(r)[k]
        <4> TAKE k \in 1 .. r.size
        <4>1. offset + k - 1 \in Offsets /\ offset + k - 1 >= DirectoryEnd(m)
          BY <1>11 DEF Offsets
        <4>2. offset + k - 1 \in offset .. offset + r.size - 1 /\ (offset + k - 1) - offset + 1 = k
          BY <1>3, <1>5
        <4>3. QED
          BY <1>12, <4>1, <4>2
      <3>4. Content(j)' = [k \in 1 .. r.size |-> bytes'[offset + k - 1]]
        BY <3>1 DEF Content
      <3>5. BytesOf(r) = [k \in 1 .. r.size |-> BytesOf(r)[k]]
        BY <1>3, BytesFacts
      <3>6. QED
        BY <3>1, <3>2, <3>3, <3>4, <3>5
    <2>2. ASSUME j # i
          PROVE  /\ j \in 1 .. n /\ slots'[j] = slots[j]
                 /\ Active(j)' <=> Active(j)
                 /\ Active(j) => Content(j)' = Content(j)
      <3>1. j \in 1 .. n /\ slots'[j] = slots[j]
        <4>1. slots'[j] = slots[j]
          BY <1>6, <2>2
        <4>2. j \in 1 .. n
          <5> HIDE DEF n, m
          <5>1. QED
            BY <1>1, <2>2
        <4>3. QED
          BY <4>1, <4>2
      <3>2. ASSUME Active(j)
            PROVE  Content(j)' = Content(j)
        <4>1. /\ slots[j].offset >= free_space_pointer
              /\ slots[j].offset + slots[j].length <= PageSize
              /\ slots[j].offset \in Int /\ slots[j].length \in Nat
          <5>2. slots[j].offset \in Int /\ slots[j].length \in Nat
            BY <3>1, LoadFacts
          <5>3. QED
            BY <1>1, <3>1, <3>2, <5>2 DEF PageInv, NeverCorrupted
        <4>2. \A k \in 1 .. slots[j].length :
                 bytes'[slots[j].offset + k - 1] = bytes[slots[j].offset + k - 1]
          <5> TAKE k \in 1 .. slots[j].length
          <5> DEFINE x == slots[j].offset + k - 1
          <5>1. x \in Int /\ x >= free_space_pointer /\ x < PageSize
            <6>1. free_space_pointer \in Int /\ k \in Nat /\ k >= 1 /\ k <= slots[j].length
              BY <1>3, <1>5, <4>1
            <6>2. PageSize \in Int
              BY PageSizes
            <6> DEFINE a == slots[j].offset
                       b == slots[j].length
            <6>3. /\ a >= free_space_pointer /\ a + b <= PageSize
                  /\ a \in Int /\ b \in Nat /\ k >= 1 /\ k <= b
              BY <4>1, <6>1
            <6> HIDE DEF a, b
            <6>4. a + k - 1 \in Int /\ a + k - 1 >= free_space_pointer /\ a + k - 1 < PageSize
              BY <6>1, <6>2, <6>3
            <6>5. QED
              BY <6>4 DEF a
          <5>2. x \in Offsets /\ x >= DirectoryEnd(m) /\ x \notin offset .. offset + r.size - 1
            <6> HIDE DEF x
            <6>1. QED
              BY <1>11, <5>1 DEF Offsets
          <5> HIDE DEF x
          <5>3. bytes'[x] = bytes[x]
            BY <1>12, <5>2
          <5>4. QED
            BY <5>3 DEF x
        <4>3. QED
          BY <3>1, <4>2 DEF Content
      <3>3. QED
        BY <3>1, <3>2 DEF Active
    <2>3. QED
      BY <2>1, <2>2
  <1>14. LoadRecords' = M
    <2>1. LoadRecords' = [j \in 1 .. m |-> IF Active(j)' THEN Content(j)' ELSE <<>>]
      BY <1>7 DEF LoadRecords
    <2>2. ASSUME NEW j \in 1 .. m
          PROVE  (IF Active(j)' THEN Content(j)' ELSE <<>>) = M[j]
      BY <1>2, <1>8, <1>13
    <2>3. LoadRecords' = [j \in 1 .. m |-> M[j]]
      BY <2>1, <2>2
    <2>4. M = [j \in 1 .. m |-> M[j]]
      BY <1>8
    <2>5. QED
      BY <2>3, <2>4
  <1>15. NoFragmentation'
    <2>1. offset = PageSize - TotalUpTo(M, m)
      BY <1>5, <1>10, PageSizes
    <2>2. QED
      BY <1>6, <1>7, <1>14, <2>1 DEF NoFragmentation
  <1>16. offset \in Offsets /\ r.size \in 0 .. PageSize /\ offset + r.size <= PageSize
    BY <1>2, <1>3, <1>4, <1>5, PageSizes DEF Offsets
  <1>17. SlottedTypeOK'
    <2> DEFINE Slot == [offset : {0} \cup Offsets, length : 0 .. PageSize]
    <2>1. slots \in Seq(Slot)
      BY DEF PageInv, NeverCorrupted, SlottedTypeOK
    <2>2. [offset |-> offset, length |-> r.size] \in Slot
      BY <1>16
    <2> HIDE DEF Slot
    <2>3. \A j \in 1 .. m : slots'[j] \in Slot
      BY <1>13, <2>1, <2>2
    <2>4. slots' = [j \in 1 .. m |-> slots'[j]]
      BY <1>6
    <2>5. slots' \in Seq(Slot)
      BY <1>1, <2>3, <2>4
    <2>6. DOMAIN bytes' = Offsets
      BY <1>6 DEF SlotWritten
    <2>7. free_space_pointer' \in 0 .. PageSize
      BY <1>3, <1>5, <1>6, <1>16, PageSizes
    <2>8. QED
      BY <2>5, <2>6, <2>7 DEF SlottedTypeOK, Slot
  <1>18. ASSUME NEW j \in 1 .. m, Active(j)'
         PROVE  /\ slots'[j].length # 0
                /\ slots'[j].offset >= DirectoryEnd(m)
                /\ slots'[j].offset + slots'[j].length <= PageSize
                /\ slots'[j].offset >= offset
                /\ Content(j)' \in Contents
    <2>1. CASE j = i
      <3>1. slots'[j] = [offset |-> offset, length |-> r.size] /\ Content(j)' = BytesOf(r)
        BY <1>13, <2>1
      <3>2. QED
        BY <1>3, <1>5, <1>16, <3>1
    <2>2. CASE j # i
      <3>1. j \in 1 .. n /\ slots'[j] = slots[j] /\ Active(j) /\ Content(j)' = Content(j)
        BY <1>13, <1>18, <2>2
      <3>2. /\ slots[j].length # 0 /\ slots[j].offset + slots[j].length <= PageSize
            /\ slots[j].offset >= free_space_pointer /\ Content(j) \in Contents
        BY <1>1, <3>1 DEF PageInv, NeverCorrupted
      <3>3. slots[j].offset \in Int
        BY <3>1, LoadFacts
      <3>4. slots[j].offset >= offset /\ slots[j].offset >= DirectoryEnd(m)
        BY <1>3, <1>4, <1>5, <3>2, <3>3
      <3>5. QED
        BY <3>1, <3>2, <3>4
    <2>3. QED
      BY <2>1, <2>2
  <1>19. NeverCorrupted'
    BY <1>5, <1>6, <1>7, <1>17, <1>18 DEF NeverCorrupted
  <1>20. slots' # <<>> => slots'[m] # EmptySlot
    <2>4. \A j \in 1 .. m : /\ j = i => slots'[j] # EmptySlot
                            /\ j # i => slots'[j] = slots[j]
      BY <1>13 DEF Active
    <2> HIDE DEF m
    <2>1. CASE m = i
      BY <1>1, <2>1, <2>4
    <2>2. CASE m # i
      <3>1. m = n /\ n \in 1 .. n /\ m \in 1 .. m
        <4> HIDE DEF n
        <4>1. QED
          BY <1>1, <2>2
      <3>2. slots # <<>>
        BY <3>1
      <3>3. Active(n)
        BY <3>2 DEF PageInv
      <3>4. QED
        BY <2>2, <2>4, <3>1, <3>3 DEF Active
    <2>3. QED
      BY <2>1, <2>2
  <1>21. QED
    <2>1. slots' # <<>> => Active(Len(slots))'
      BY <1>7, <1>20 DEF Active
    <2>2. QED
      BY <1>6, <1>7, <1>14, <1>15, <1>18, <1>19, <2>1 DEF PageInv, M

\* UpdateRecord rewrites the page with one content replaced.
LEMMA UpdateFacts ==
    ASSUME PageInv, NEW r \in Records, NEW i, UpdateRecord(i, r)
    PROVE  /\ PageInv' /\ i \in 1 .. Len(slots) /\ Active(i)
           /\ LoadRecords' = [LoadRecords EXCEPT ![i] = BytesOf(r)]
  <1> DEFINE L == LoadRecords
             cs == [L EXCEPT ![i] = BytesOf(r)]
  <1>1. i \in 1 .. Len(slots) /\ Active(i) /\ Fit(cs) /\ RewriteRecords(cs)
    BY LoadFacts DEF UpdateRecord
  <1>2. L \in Seq(Contents) /\ Len(L) = Len(slots) /\ (L # <<>> => L[Len(L)] # <<>>)
    BY LoadFacts
  <1>3. BytesOf(r) \in Contents /\ BytesOf(r) # <<>>
    BY BytesFacts
  <1> HIDE DEF L
  <1>4. cs \in Seq(Contents) /\ Len(cs) = Len(L) /\ i \in 1 .. Len(L)
    BY <1>1, <1>2, <1>3
  <1>5. \A j \in 1 .. Len(L) : cs[j] = IF j = i THEN BytesOf(r) ELSE L[j]
    BY <1>2
  <1>6. Len(L) \in 1 .. Len(L) /\ L # <<>>
    BY <1>2, <1>4
  <1>7. cs[Len(cs)] # <<>>
    BY <1>2, <1>3, <1>4, <1>5, <1>6
  <1> HIDE DEF cs
  <1>8. PageInv' /\ LoadRecords' = cs
    BY <1>1, <1>4, <1>7, RewriteFacts
  <1>9. QED
    BY <1>1, <1>8 DEF cs, L

\* Trimmed cuts off the empty contents at the end, and nothing else.
LEMMA TrimmedFacts ==
    ASSUME NEW cs \in Seq(Contents)
    PROVE  /\ Trimmed(cs) \in Seq(Contents) /\ Len(Trimmed(cs)) \in 0 .. Len(cs)
           /\ \A j \in 1 .. Len(Trimmed(cs)) : Trimmed(cs)[j] = cs[j]
           /\ \A j \in Len(Trimmed(cs)) + 1 .. Len(cs) : cs[j] = <<>>
           /\ Trimmed(cs) # <<>> => Trimmed(cs)[Len(Trimmed(cs))] # <<>>
  <1> DEFINE Blank(n) == \A j \in n + 1 .. Len(cs) : cs[j] = <<>>
             Lengths == {n \in 0 .. Len(cs) : Blank(n)}
             Good(n) == Blank(n) /\ (n > 0 => cs[n] # <<>>)
             n0 == CHOOSE n \in 0 .. Len(cs) : Good(n)
  <1>1. Len(cs) \in Nat
    OBVIOUS
  <1>2. Len(cs) \in Lengths /\ Lengths \subseteq Nat
    BY <1>1
  <1>3. PICK e \in Lengths : \A n \in Lengths : e <= n
    <2> HIDE DEF Lengths
    <2>1. QED
      BY <1>2, LeastNatural
  <1>4. e > 0 => cs[e] # <<>>
    <2>1. SUFFICES ASSUME e > 0, cs[e] = <<>> PROVE FALSE
      OBVIOUS
    <2>2. e \in Nat /\ e - 1 \in 0 .. Len(cs) /\ ~ (e <= e - 1)
      BY <1>1, <2>1
    <2>3. \A j \in (e - 1) + 1 .. Len(cs) : j = e \/ j \in e + 1 .. Len(cs)
      BY <1>1, <2>2
    <2>4. Blank(e - 1)
      BY <1>3, <2>1, <2>3
    <2>5. QED
      BY <1>3, <2>2, <2>4
  <1>5. e \in 0 .. Len(cs) /\ Good(e)
    BY <1>3, <1>4
  <1>6. n0 \in 0 .. Len(cs) /\ Good(n0)
    <2> HIDE DEF Good
    <2>1. QED
      BY <1>5
  <1>7. Trimmed(cs) = SubSeq(cs, 1, n0)
    BY DEF Trimmed
  <1> HIDE DEF n0
  <1>8. /\ Trimmed(cs) \in Seq(Contents) /\ Len(Trimmed(cs)) = n0
        /\ \A j \in 1 .. n0 : Trimmed(cs)[j] = cs[j]
    BY <1>1, <1>6, <1>7
  <1>9. Trimmed(cs) # <<>> => n0 > 0 /\ n0 \in 1 .. n0
    BY <1>6, <1>8
  <1>10. QED
    BY <1>6, <1>8, <1>9

\* DeleteRecord rewrites the page with one content taken out and the empty slots at the
\* end dropped; that always fits.
LEMMA DeleteFacts ==
    ASSUME PageInv, NEW i, DeleteRecord(i)
    PROVE  /\ PageInv' /\ i \in 1 .. Len(slots) /\ Active(i)
           /\ LoadRecords' = Trimmed([LoadRecords EXCEPT ![i] = <<>>])
  <1> DEFINE L == LoadRecords
             n == Len(slots)
             cs == [L EXCEPT ![i] = <<>>]
             T == Trimmed(cs)
  <1>1. i \in 1 .. n /\ Active(i) /\ RewriteRecords(T)
    BY LoadFacts DEF DeleteRecord
  <1>2. L \in Seq(Contents) /\ Len(L) = n /\ n \in Nat /\ Fit(L) /\ TotalUpTo(L, n) \in Nat
    BY LoadFacts
  <1> HIDE DEF L, n
  <1>3. <<>> \in Contents
    BY DEF Contents
  <1>4. cs \in Seq(Contents) /\ Len(cs) = n
    BY <1>1, <1>2, <1>3
  <1>5. \A j \in 1 .. n : cs[j] = IF j = i THEN <<>> ELSE L[j]
    BY <1>2
  <1> HIDE DEF cs
  <1>6. /\ T \in Seq(Contents) /\ Len(T) \in 0 .. n
        /\ \A j \in 1 .. Len(T) : T[j] = cs[j]
        /\ T # <<>> => T[Len(T)] # <<>>
    BY <1>4, TrimmedFacts
  <1> HIDE DEF T
  <1>7. TotalUpTo(cs, n) <= TotalUpTo(L, n) /\ TotalUpTo(cs, n) \in Nat
    <2>1. TotalUpTo(L, n) + Len(cs[i]) = TotalUpTo(cs, n) + Len(L[i])
      <3>1. \A j \in 1 .. n : j # i => L[j] = cs[j]
        BY <1>5
      <3>2. n <= Len(L) /\ n <= Len(cs)
        BY <1>2, <1>4
      <3>3. QED
        BY <1>1, <1>2, <1>4, <3>1, <3>2, TotalOfChange
    <2>2. Len(cs[i]) = 0
      BY <1>1, <1>5
    <2>3. Len(L[i]) \in Nat
      BY <1>1, <1>2, BytesFacts
    <2>4. n \in 0 .. Len(cs)
      BY <1>2, <1>4
    <2>5. TotalUpTo(cs, n) \in Nat
      BY <1>4, <2>4, TotalFacts
    <2>6. QED
      BY <1>2, <2>1, <2>2, <2>3, <2>5
  <1>8. TotalUpTo(T, Len(T)) <= TotalUpTo(cs, n) /\ TotalUpTo(T, Len(T)) \in Nat
    <2>1. TotalUpTo(T, Len(T)) = TotalUpTo(cs, Len(T))
      <3>1. Len(T) \in Nat /\ Len(T) <= Len(T) /\ Len(T) <= Len(cs)
        BY <1>2, <1>4, <1>6
      <3>2. QED
        BY <1>4, <1>6, <3>1, TotalOfChange
    <2>2. Len(T) \in 0 .. Len(cs) /\ n \in 0 .. Len(cs) /\ Len(T) <= n
      BY <1>2, <1>4, <1>6
    <2>3. TotalUpTo(cs, Len(T)) <= TotalUpTo(cs, n) /\ TotalUpTo(cs, Len(T)) \in Nat
      BY <1>4, <2>2, TotalFacts
    <2>4. QED
      BY <2>1, <2>3
  <1>9. Fit(T)
    <2>1. DirectoryEnd(Len(T)) <= DirectoryEnd(n) /\ DirectoryEnd(Len(T)) \in Nat /\ DirectoryEnd(n) \in Nat
      <3>1. Len(T) \in Nat /\ n \in Nat /\ Len(T) <= n
        BY <1>2, <1>6
      <3>2. QED
        BY <3>1, DirectoryFacts
    <2>2. DirectoryEnd(n) + TotalUpTo(L, n) <= PageSize /\ PageSize \in Nat
      BY <1>2, PageSizes DEF Fit
    <2>3. DirectoryEnd(Len(T)) + TotalUpTo(T, Len(T)) <= PageSize
      BY <1>2, <1>7, <1>8, <2>1, <2>2
    <2>4. QED
      BY <2>3 DEF Fit
  <1>10. PageInv' /\ LoadRecords' = T
    BY <1>1, <1>6, <1>9, RewriteFacts
  <1>11. QED
    BY <1>1, <1>10 DEF T, cs, L, n

\* A page as SlottedPage::Init leaves it is sound.
LEMMA PageInitInv == SlottedInit => PageInv
  <1> SUFFICES ASSUME SlottedInit PROVE PageInv
    OBVIOUS
  <1>1. slots = <<>> /\ free_space_pointer = PageSize /\ DOMAIN bytes = Offsets
    BY DEF SlottedInit, ClearedBytes
  <1>2. SlottedTypeOK
    BY <1>1, PageSizes DEF SlottedTypeOK
  <1>3. DirectoryEnd(Len(slots)) <= free_space_pointer
    <2>1. DirectoryEnd(0) = HeaderSize
      BY PageSizes DEF DirectoryEnd
    <2>2. QED
      BY <1>1, <2>1, PageSizes
  <1>4. LoadRecords = <<>>
    BY <1>1 DEF LoadRecords
  <1>5. TotalUpTo(<<>>, 0) = 0
    <2>1. <<>> \in Seq(Contents)
      OBVIOUS
    <2>2. QED
      BY <2>1, TotalFacts
  <1>6. NoFragmentation
    BY <1>1, <1>4, <1>5, PageSizes DEF NoFragmentation
  <1>7. NeverCorrupted
    BY <1>1, <1>2, <1>3 DEF NeverCorrupted
  <1>8. QED
    BY <1>1, <1>6, <1>7 DEF PageInv

\* Every operation keeps a page sound.
LEMMA PageStepInv == PageInv /\ [SlottedNext]_pageVars => PageInv'
  <1> SUFFICES ASSUME PageInv, [SlottedNext]_pageVars PROVE PageInv'
    OBVIOUS
  <1>1. ASSUME NEW i \in 1 .. Len(slots) + 1, DeleteRecord(i) PROVE PageInv'
    BY <1>1, DeleteFacts
  <1>2. ASSUME NEW i \in 1 .. Len(slots) + 1, NEW r \in Records, InsertRecord(r, i) PROVE PageInv'
    BY <1>2, InsertFacts
  <1>3. ASSUME NEW i \in 1 .. Len(slots) + 1, NEW r \in Records, UpdateRecord(i, r) PROVE PageInv'
    BY <1>3, UpdateFacts
  <1>4. CASE UNCHANGED pageVars
    <2>1. slots' = slots /\ free_space_pointer' = free_space_pointer /\ bytes' = bytes
      BY <1>4 DEF pageVars
    <2>2. QED
      BY <2>1 DEF PageInv, NeverCorrupted, SlottedTypeOK, NoFragmentation, LoadRecords,
                  Active, Content
  <1>5. QED
    BY <1>1, <1>2, <1>3, <1>4 DEF SlottedNext

\* Every state of the page is sound.
THEOREM PageInvariance == SlottedSpec => []PageInv
  BY PageInitInv, PageStepInv, PTL DEF SlottedSpec

\* SlottedPage: the checks that would report a corrupted page never fail: directory and
\* records do not meet, and every record lies inside the page, for pages, entries and
\* records of any size.
THEOREM PageNeverCorrupted == SlottedSpec => []NeverCorrupted
  <1>1. PageInv => NeverCorrupted
    BY DEF PageInv
  <1>2. QED
    BY <1>1, PageInvariance, PTL

\* SlottedPage: the free space is always in one piece, so that InsertRecord refuses a
\* record only for want of space.
THEOREM PageNeverFragmented == SlottedSpec => []NoFragmentation
  <1>1. PageInv => NoFragmentation
    BY DEF PageInv
  <1>2. QED
    BY <1>1, PageInvariance, PTL

-----------------------------------------------------------------------------
(* The abstract page: the table of records.                                *)

(* The record of slot i, by the contents of the slots.                     *)
RecordOf(cs, i) ==
    IF i \in 1 .. Len(cs) /\ cs[i] # <<>>
    THEN CHOOSE r \in Records : BytesOf(r) = cs[i] ELSE None
TableOf(cs) == [i \in Table!SlotIds |-> RecordOf(cs, i)]

\* A content that is not empty is the bytes of one record, its own.
LEMMA RecordOfFacts ==
    ASSUME NEW cs \in Seq(Contents), NEW i
    PROVE  /\ i \in 1 .. Len(cs) /\ cs[i] # <<>> =>
                 RecordOf(cs, i) \in Records /\ BytesOf(RecordOf(cs, i)) = cs[i]
           /\ ~(i \in 1 .. Len(cs) /\ cs[i] # <<>>) => RecordOf(cs, i) = None
           /\ \A r \in Records : i \in 1 .. Len(cs) /\ cs[i] = BytesOf(r) => RecordOf(cs, i) = r
  <1>1. ASSUME i \in 1 .. Len(cs), cs[i] # <<>>
        PROVE  RecordOf(cs, i) \in Records /\ BytesOf(RecordOf(cs, i)) = cs[i]
    <2>1. cs[i] \in Contents
      BY <1>1
    <2>2. \E r \in Records : BytesOf(r) = cs[i]
      BY <1>1, <2>1 DEF Contents
    <2>3. RecordOf(cs, i) = CHOOSE r \in Records : BytesOf(r) = cs[i]
      BY <1>1 DEF RecordOf
    <2>4. QED
      BY <2>2, <2>3
  <1>2. ASSUME NEW r \in Records, i \in 1 .. Len(cs), cs[i] = BytesOf(r)
        PROVE  RecordOf(cs, i) = r
    <2>1. cs[i] # <<>>
      BY <1>2, BytesFacts
    <2>2. RecordOf(cs, i) \in Records /\ BytesOf(RecordOf(cs, i)) = BytesOf(r)
      BY <1>1, <1>2, <2>1
    <2>3. QED
      BY <2>2, BytesFacts
  <1>3. QED
    BY <1>1, <1>2 DEF RecordOf

\* The abstract page of a sound page is the table of what LoadRecords finds.
LEMMA AbstractPage ==
    PageInv => [i \in 1 .. (PageSize - HeaderSize) \div SlotSize |-> RecordAt(i)]
                  = TableOf(LoadRecords)
  <1> SUFFICES ASSUME PageInv
               PROVE  [i \in 1 .. (PageSize - HeaderSize) \div SlotSize |-> RecordAt(i)]
                         = TableOf(LoadRecords)
    OBVIOUS
  <1> DEFINE L == LoadRecords
  <1>1. /\ DOMAIN slots = 1 .. Len(slots) /\ Len(L) = Len(slots)
        /\ \A i \in 1 .. Len(slots) : /\ L[i] = IF Active(i) THEN Content(i) ELSE <<>>
                                      /\ Active(i) <=> L[i] # <<>>
        /\ L \in Seq(Contents)
    BY LoadFacts
  <1> HIDE DEF L
  <1>2. ASSUME NEW i PROVE RecordAt(i) = RecordOf(L, i)
    <2>1. CASE i \notin DOMAIN slots
      <3>1. RecordAt(i) = None
        BY <2>1 DEF RecordAt
      <3>2. QED
        BY <1>1, <2>1, <3>1, RecordOfFacts
    <2>2. CASE i \in DOMAIN slots /\ ~Active(i)
      <3>1. RecordAt(i) = None
        BY <2>2 DEF RecordAt
      <3>2. QED
        BY <1>1, <2>2, <3>1, RecordOfFacts
    <2>3. CASE i \in DOMAIN slots /\ Active(i)
      <3>1. i \in 1 .. Len(L) /\ L[i] # <<>> /\ L[i] = Content(i)
        BY <1>1, <2>3
      <3>2. RecordOf(L, i) \in Records /\ BytesOf(RecordOf(L, i)) = Content(i)
        BY <1>1, <3>1, RecordOfFacts
      <3>3. \E r \in Records : BytesOf(r) = Content(i)
        BY <3>2
      <3>4. RecordAt(i) = CHOOSE r \in Records : BytesOf(r) = Content(i)
        BY <2>3, <3>3 DEF RecordAt
      <3>5. RecordOf(L, i) = CHOOSE r \in Records : BytesOf(r) = L[i]
        BY <3>1 DEF RecordOf
      <3>6. QED
        BY <3>1, <3>4, <3>5
    <2>4. QED
      BY <2>1, <2>2, <2>3
  <1>3. QED
    BY <1>2 DEF TableOf, Table!SlotIds, Table!MaxSlots, L

\* A directory that fits in the page has no more entries than slot identifiers.
LEMMA SlotsFit ==
    ASSUME NEW n \in Nat, DirectoryEnd(n) <= PageSize
    PROVE  n <= Table!MaxSlots /\ Table!MaxSlots \in Nat
  <1> DEFINE space == PageSize - HeaderSize
             q == space \div SlotSize
  <1>1. space \in Nat /\ SlotSize \in Nat \ {0}
    BY PageSizes
  <1>2. n * SlotSize <= space
    <2>1. n * SlotSize \in Nat
      BY <1>1
    <2>2. QED
      BY <2>1, PageSizes DEF DirectoryEnd
  <1> HIDE DEF space
  <1>3. q \in Nat /\ space < (q + 1) * SlotSize
    BY <1>1
  <1> HIDE DEF q
  <1>4. n < q + 1
    <2>1. SUFFICES ASSUME n >= q + 1 PROVE FALSE
      BY <1>3
    <2>2. PICK d \in Nat : n = (q + 1) + d
      BY <1>3, <2>1
    <2>3. n * SlotSize = (q + 1) * SlotSize + d * SlotSize
      BY <1>1, <1>3, <2>2
    <2>4. d * SlotSize \in Nat /\ (q + 1) * SlotSize \in Nat /\ n * SlotSize \in Nat
      BY <1>1, <1>3
    <2>5. QED
      BY <1>1, <1>2, <1>3, <2>3, <2>4
  <1>5. QED
    BY <1>3, <1>4 DEF Table!MaxSlots, q, space

\* The table of contents that fit in a page, with a record in the last slot, fits as an
\* abstract page, and its used slots are those with a content.
LEMMA TableFits ==
    ASSUME NEW cs \in Seq(Contents), Fit(cs), cs # <<>> => cs[Len(cs)] # <<>>
    PROVE  /\ Len(cs) <= Table!MaxSlots /\ Table!MaxSlots \in Nat
           /\ \A s \in Table!SlotIds :
                 s \in Table!Used(TableOf(cs)) <=> s \in 1 .. Len(cs) /\ cs[s] # <<>>
           /\ Table!Fits(TableOf(cs))
  <1> DEFINE n == Len(cs)
             T == TableOf(cs)
             S == Table!SlotIds
             size == [s \in S |-> IF T[s] = None THEN 0 ELSE T[s].size]
  <1>1. n \in Nat /\ DOMAIN cs = 1 .. n /\ \A s \in 1 .. n : cs[s] \in Contents
    OBVIOUS
  <1>2. TotalUpTo(cs, n) \in Nat /\ DirectoryEnd(n) \in Nat /\ DirectoryEnd(n) + TotalUpTo(cs, n) <= PageSize
    <2>1. n \in 0 .. Len(cs)
      BY <1>1
    <2>2. TotalUpTo(cs, n) \in Nat
      BY <2>1, TotalFacts
    <2>3. QED
      BY <1>1, <2>2, DirectoryFacts DEF Fit
  <1>3. n <= Table!MaxSlots /\ Table!MaxSlots \in Nat
    <2>1. DirectoryEnd(n) <= PageSize
      BY <1>2, PageSizes
    <2> HIDE DEF n
    <2>2. QED
      BY <1>1, <2>1, SlotsFit
  <1>4. S = 1 .. Table!MaxSlots /\ 1 .. n \in SUBSET S /\ IsFiniteSet(S)
    <2>1. S = 1 .. Table!MaxSlots
      BY DEF Table!SlotIds
    <2> HIDE DEF n, S
    <2>2. QED
      BY <1>1, <1>3, <2>1, FS_Interval
  <1>5. ASSUME NEW s \in S
        PROVE  /\ T[s] = RecordOf(cs, s)
               /\ s \in 1 .. n /\ cs[s] # <<>> =>
                     T[s] \in Records /\ T[s] # None /\ T[s].size = Len(cs[s]) /\ T[s].size \in Nat
               /\ ~(s \in 1 .. n /\ cs[s] # <<>>) => T[s] = None
    <2>1. T[s] = RecordOf(cs, s)
      BY DEF TableOf
    <2>2. ASSUME s \in 1 .. n, cs[s] # <<>>
          PROVE  T[s] \in Records /\ T[s] # None /\ T[s].size = Len(cs[s]) /\ T[s].size \in Nat
      <3>1. T[s] \in Records /\ BytesOf(T[s]) = cs[s]
        BY <2>1, <2>2, RecordOfFacts
      <3>2. Len(BytesOf(T[s])) = T[s].size /\ T[s].size \in Nat
        BY <3>1, BytesFacts
      <3>3. QED
        BY <3>1, <3>2, PageAssumption
    <2>3. QED
      BY <2>1, <2>2, RecordOfFacts
  <1> HIDE DEF T
  <1>6. \A s \in S : s \in Table!Used(T) <=> s \in 1 .. n /\ cs[s] # <<>>
    BY <1>5 DEF Table!Used
  <1>7. Table!Used(T) = {s \in 1 .. n : cs[s] # <<>>}
    <2>1. Table!Used(T) \subseteq S
      BY DEF Table!Used
    <2> HIDE DEF S, n
    <2>2. QED
      BY <1>4, <1>6, <2>1
  <1>8. Table!DirectorySize(T) = SlotSize * n
    <2> DEFINE U == Table!Used(T)
    <2>1. CASE n = 0
      <3>1. U = {}
        BY <1>7, <2>1
      <3>2. QED
        BY <2>1, <3>1 DEF Table!DirectorySize
    <2>2. CASE n # 0
      <3>1. n \in 1 .. n /\ cs # <<>>
        BY <1>1, <2>2
      <3>2. n \in U
        BY <1>7, <3>1
      <3>3. \A t \in U : t <= n /\ t \in Nat
        BY <1>7
      <3> HIDE DEF U, n
      <3>4. (CHOOSE s \in U : \A t \in U : t <= s) = n
        <4> DEFINE P(s) == s \in U /\ \A t \in U : t <= s
        <4>1. P(n)
          BY <3>2, <3>3
        <4>2. \A s \in U : P(s) => s = n
          BY <1>1, <3>2, <3>3
        <4>3. QED
          BY <4>1, <4>2
      <3>5. U # {}
        BY <3>2
      <3>6. QED
        BY <3>4, <3>5 DEF Table!DirectorySize, U
    <2>3. QED
      BY <2>1, <2>2
  <1>9. SumFunctionOnSet(size, S) = TotalUpTo(cs, n)
    <2> DEFINE f == [j \in DOMAIN cs |-> Len(cs[j])]
    <2>1. \A s \in S : /\ size[s] \in Nat
                       /\ s \notin 1 .. n => size[s] = 0
                       /\ s \in 1 .. n => size[s] = f[s]
      <3> TAKE s \in S
      <3>1. size[s] = IF T[s] = None THEN 0 ELSE T[s].size
        OBVIOUS
      <3>2. s \in 1 .. n => f[s] = Len(cs[s])
        OBVIOUS
      <3> HIDE DEF size, f
      <3>3. CASE s \in 1 .. n /\ cs[s] # <<>>
        BY <1>5, <3>1, <3>2, <3>3
      <3>4. CASE s \in 1 .. n /\ cs[s] = <<>>
        BY <1>5, <3>1, <3>2, <3>4
      <3>5. CASE s \notin 1 .. n
        BY <1>5, <3>1, <3>5
      <3>6. QED
        BY <3>3, <3>4, <3>5
    <2> HIDE DEF size, f, S
    <2>2. SumFunctionOnSet(size, 1 .. n) = SumFunctionOnSet(size, S)
      BY <1>4, <2>1, SumOfSubset
    <2>3. \A s \in 1 .. n : size[s] = f[s]
      BY <1>4, <2>1
    <2>4. IsFiniteSet(1 .. n)
      BY <1>1, FS_Interval
    <2>5. SumFunctionOnSet(size, 1 .. n) = SumFunctionOnSet(f, 1 .. n)
      BY <2>3, <2>4, SumAgrees
    <2>6. TotalUpTo(cs, n) = SumFunctionOnSet(f, 1 .. n)
      BY DEF TotalUpTo, f
    <2>7. QED
      BY <2>2, <2>5, <2>6
  <1>10. Table!Fits(T)
    <2>1. SlotSize * n = n * SlotSize /\ n * SlotSize \in Nat
      BY <1>1, PageSizes
    <2>2. HeaderSize + SlotSize * n + TotalUpTo(cs, n) <= PageSize
      <3>1. DirectoryEnd(n) = HeaderSize + n * SlotSize
        BY DEF DirectoryEnd
      <3> HIDE DEF n
      <3>2. QED
        BY <1>2, <2>1, <3>1, PageSizes
    <2>3. QED
      <3>1. Table!Fits(T) <=> HeaderSize + Table!DirectorySize(T) + SumFunctionOnSet(size, S) <= PageSize
        <4>1. SumFunctionOnSet(size, S) = Table!SumFunctionOnSet(size, S)
          BY DEF SumFunctionOnSet, FoldFunctionOnSet, MapThenFoldSet,
                 Table!SumFunctionOnSet, Table!FoldFunctionOnSet, Table!MapThenFoldSet
        <4>2. QED
          BY <4>1, Zenon DEF Table!Fits
      <3> HIDE DEF size, S
      <3>2. QED
        BY <1>8, <1>9, <2>2, <3>1
  <1>11. QED
    BY <1>3, <1>6, <1>10 DEF T

\* What a sound page holds fits in it.
LEMMA SoundContents ==
    PageInv => /\ LoadRecords \in Seq(Contents) /\ Fit(LoadRecords)
               /\ LoadRecords # <<>> => LoadRecords[Len(LoadRecords)] # <<>>
  BY LoadFacts

(* What an operation does to the table.                                    *)
InsertsInto(T, U, s, r) == /\ s \in Table!SlotIds /\ s \notin Table!Used(T)
                           /\ \A t \in Table!SlotIds : t < s => t \in Table!Used(T)
                           /\ U = [T EXCEPT ![s] = r] /\ Table!Fits(U)
UpdatesIn(T, U, s, r) == /\ s \in Table!SlotIds /\ s \in Table!Used(T)
                         /\ U = [T EXCEPT ![s] = r] /\ Table!Fits(U)
DeletesFrom(T, U, s) == /\ s \in Table!SlotIds /\ s \in Table!Used(T)
                        /\ U = [T EXCEPT ![s] = None]

\* Equal contents are the same record.
LEMMA RecordOfAgrees ==
    ASSUME NEW cs \in Seq(Contents), NEW ds \in Seq(Contents), NEW i,
           i \in 1 .. Len(ds) /\ ds[i] # <<>> <=> i \in 1 .. Len(cs) /\ cs[i] # <<>>,
           i \in 1 .. Len(cs) /\ i \in 1 .. Len(ds) => ds[i] = cs[i]
    PROVE  RecordOf(ds, i) = RecordOf(cs, i)
  <1>1. CASE i \in 1 .. Len(cs) /\ cs[i] # <<>>
    <2>1. RecordOf(cs, i) \in Records /\ BytesOf(RecordOf(cs, i)) = cs[i]
      BY <1>1, RecordOfFacts
    <2>2. RecordOf(ds, i) \in Records /\ BytesOf(RecordOf(ds, i)) = ds[i] /\ ds[i] = cs[i]
      BY <1>1, RecordOfFacts
    <2>3. QED
      BY <2>1, <2>2, BytesFacts
  <1>2. CASE ~(i \in 1 .. Len(cs) /\ cs[i] # <<>>)
    BY <1>2, RecordOfFacts
  <1>3. QED
    BY <1>1, <1>2

\* InsertRecord puts the record in the lowest unused slot of the table.
LEMMA InsertIsInsert ==
    ASSUME NEW cs \in Seq(Contents), Fit(cs), cs # <<>> => cs[Len(cs)] # <<>>,
           NEW r \in Records, NEW i \in 1 .. Len(cs) + 1, NEW ds \in Seq(Contents), Fit(ds),
           ds # <<>> => ds[Len(ds)] # <<>>,
           ds = WithContent(cs, i, BytesOf(r)),
           i \in 1 .. Len(cs) => cs[i] = <<>>, \A j \in 1 .. i - 1 : cs[j] # <<>>
    PROVE  InsertsInto(TableOf(cs), TableOf(ds), i, r)
  <1> DEFINE n == Len(cs)
             m == Len(ds)
  <1>1. /\ n \in Nat /\ m = (IF i > n THEN i ELSE n) /\ m \in Nat /\ i \in 1 .. m
        /\ \A j \in 1 .. m : ds[j] = IF j = i THEN BytesOf(r) ELSE cs[j]
        /\ BytesOf(r) # <<>>
    <2>1. BytesOf(r) \in Contents /\ BytesOf(r) # <<>>
      BY BytesFacts
    <2>2. /\ m = (IF i > n THEN i ELSE n) /\ m \in Nat /\ i \in 1 .. m
          /\ \A j \in 1 .. m : ds[j] = IF j = i THEN BytesOf(r) ELSE cs[j]
      <3> DEFINE e == WithContent(cs, i, BytesOf(r))
                 k == IF i > Len(cs) THEN i ELSE Len(cs)
      <3>1. /\ Len(e) = k /\ k \in Nat /\ i \in 1 .. k
            /\ \A j \in 1 .. k : e[j] = IF j = i THEN BytesOf(r) ELSE cs[j]
        BY <2>1, WithContentFacts
      <3>2. ds = e
        OBVIOUS
      <3> HIDE DEF e
      <3>3. QED
        BY <3>1, <3>2
    <2>3. QED
      BY <2>1, <2>2
  <1>2. /\ n <= Table!MaxSlots /\ m <= Table!MaxSlots /\ Table!MaxSlots \in Nat
        /\ \A s \in Table!SlotIds :
              s \in Table!Used(TableOf(cs)) <=> s \in 1 .. n /\ cs[s] # <<>>
        /\ Table!Fits(TableOf(ds))
    BY TableFits
  <1> HIDE DEF n, m
  <1>3. i \in Table!SlotIds /\ i \in Nat
    BY <1>1, <1>2 DEF Table!SlotIds
  <1>4. i \notin Table!Used(TableOf(cs))
    BY <1>2, <1>3 DEF n
  <1>5. ASSUME NEW t \in Table!SlotIds, t < i PROVE t \in Table!Used(TableOf(cs))
    <2>1. t \in 1 .. i - 1
      BY <1>2, <1>3, <1>5 DEF Table!SlotIds
    <2>2. t \in 1 .. n
      BY <1>1, <2>1 DEF n
    <2>3. QED
      BY <1>2, <2>1, <2>2
  <1>6. ASSUME NEW t \in Table!SlotIds, t # i PROVE RecordOf(ds, t) = RecordOf(cs, t)
    <2>1. t \in 1 .. m /\ ds[t] # <<>> <=> t \in 1 .. n /\ cs[t] # <<>>
      <3>1. t \in 1 .. n => t \in 1 .. m
        BY <1>1
      <3>2. t \in 1 .. m => t \in 1 .. n \/ t = i
        BY <1>1 DEF n
      <3>3. t \in 1 .. m => ds[t] = cs[t]
        BY <1>1, <1>6
      <3>4. QED
        BY <1>6, <3>1, <3>2, <3>3
    <2>2. t \in 1 .. m => ds[t] = cs[t]
      BY <1>1, <1>6
    <2>3. QED
      BY <2>1, <2>2, RecordOfAgrees DEF n, m
  <1>7. RecordOf(ds, i) = r
    BY <1>1, RecordOfFacts DEF m
  <1>8. TableOf(ds) = [TableOf(cs) EXCEPT ![i] = r]
    BY <1>3, <1>6, <1>7 DEF TableOf
  <1>9. QED
    BY <1>2, <1>3, <1>4, <1>5, <1>8 DEF InsertsInto

\* UpdateRecord puts the record in its slot.
LEMMA UpdateIsUpdate ==
    ASSUME NEW cs \in Seq(Contents), Fit(cs), cs # <<>> => cs[Len(cs)] # <<>>,
           NEW r \in Records, NEW i \in 1 .. Len(cs), NEW ds \in Seq(Contents), Fit(ds),
           ds # <<>> => ds[Len(ds)] # <<>>,
           ds = [cs EXCEPT ![i] = BytesOf(r)], cs[i] # <<>>
    PROVE  UpdatesIn(TableOf(cs), TableOf(ds), i, r)
  <1> DEFINE n == Len(cs)
  <1>1. /\ n \in Nat /\ Len(ds) = n
        /\ \A j \in 1 .. n : ds[j] = IF j = i THEN BytesOf(r) ELSE cs[j]
        /\ BytesOf(r) # <<>>
    BY BytesFacts
  <1>2. /\ n <= Table!MaxSlots /\ Table!MaxSlots \in Nat
        /\ \A s \in Table!SlotIds :
              s \in Table!Used(TableOf(cs)) <=> s \in 1 .. n /\ cs[s] # <<>>
        /\ Table!Fits(TableOf(ds))
    BY TableFits
  <1>3. i \in Table!SlotIds /\ i \in 1 .. n
    BY <1>1, <1>2 DEF Table!SlotIds
  <1>4. i \in Table!Used(TableOf(cs))
    BY <1>2, <1>3
  <1> HIDE DEF n
  <1>5. ASSUME NEW t \in Table!SlotIds, t # i PROVE RecordOf(ds, t) = RecordOf(cs, t)
    BY <1>1, <1>5 DEF RecordOf, n
  <1>6. RecordOf(ds, i) = r
    <2>1. i \in 1 .. Len(ds) /\ ds[i] = BytesOf(r)
      BY <1>1, <1>3
    <2>2. QED
      BY <2>1, RecordOfFacts
  <1>7. TableOf(ds) = [TableOf(cs) EXCEPT ![i] = r]
    BY <1>3, <1>5, <1>6 DEF TableOf
  <1>8. QED
    BY <1>2, <1>3, <1>4, <1>7 DEF UpdatesIn

\* DeleteRecord empties its slot; the entries it drops were empty already.
LEMMA DeleteIsDelete ==
    ASSUME NEW cs \in Seq(Contents), Fit(cs), cs # <<>> => cs[Len(cs)] # <<>>,
           NEW i \in 1 .. Len(cs), NEW ds, ds = Trimmed([cs EXCEPT ![i] = <<>>]),
           cs[i] # <<>>
    PROVE  DeletesFrom(TableOf(cs), TableOf(ds), i)
  <1> DEFINE n == Len(cs)
             es == [cs EXCEPT ![i] = <<>>]
  <1>1. /\ n \in Nat /\ es \in Seq(Contents) /\ Len(es) = n
        /\ \A j \in 1 .. n : es[j] = IF j = i THEN <<>> ELSE cs[j]
    BY DEF Contents
  <1> HIDE DEF es
  <1>2. /\ ds \in Seq(Contents) /\ Len(ds) \in 0 .. n
        /\ \A j \in 1 .. Len(ds) : ds[j] = es[j]
        /\ \A j \in Len(ds) + 1 .. n : es[j] = <<>>
    BY <1>1, TrimmedFacts DEF es
  <1>3. /\ n <= Table!MaxSlots /\ Table!MaxSlots \in Nat
        /\ \A s \in Table!SlotIds :
              s \in Table!Used(TableOf(cs)) <=> s \in 1 .. n /\ cs[s] # <<>>
    BY TableFits
  <1>4. i \in Table!SlotIds /\ i \in 1 .. n
    BY <1>1, <1>3 DEF Table!SlotIds
  <1>5. i \in Table!Used(TableOf(cs))
    BY <1>3, <1>4
  <1> HIDE DEF n
  <1>6. ASSUME NEW t \in Table!SlotIds
        PROVE  t \in 1 .. Len(ds) /\ ds[t] # <<>> <=> t \in 1 .. n /\ es[t] # <<>>
    <2>1. t \in Nat /\ t >= 1
      BY <1>3 DEF Table!SlotIds
    <2>2. t \in 1 .. n => t \in 1 .. Len(ds) \/ t \in Len(ds) + 1 .. n
      BY <1>1, <1>2, <2>1
    <2>3. t \in 1 .. Len(ds) => t \in 1 .. n
      BY <1>1, <1>2
    <2>4. QED
      BY <1>2, <2>2, <2>3
  <1>7. ASSUME NEW t \in Table!SlotIds, t # i PROVE RecordOf(ds, t) = RecordOf(cs, t)
    <2>1. t \in 1 .. n => es[t] = cs[t]
      BY <1>1, <1>7
    <2>2. t \in 1 .. Len(ds) => ds[t] = es[t]
      BY <1>2
    <2>3. t \in 1 .. Len(ds) /\ t \in 1 .. n => ds[t] = cs[t]
      BY <2>1, <2>2
    <2>4. t \in 1 .. Len(ds) /\ ds[t] # <<>> <=> t \in 1 .. n /\ cs[t] # <<>>
      BY <1>6, <2>1
    <2> HIDE DEF es
    <2>5. QED
      BY <1>2, <2>3, <2>4, RecordOfAgrees DEF n
  <1>8. RecordOf(ds, i) = None
    <2>1. es[i] = <<>>
      BY <1>1, <1>4
    <2>2. QED
      BY <1>4, <1>6, <2>1 DEF RecordOf
  <1>9. TableOf(ds) = [TableOf(cs) EXCEPT ![i] = None]
    BY <1>4, <1>7, <1>8 DEF TableOf
  <1>10. QED
    BY <1>4, <1>5, <1>9 DEF DeletesFrom

\* A step of a page is a step of the table it stands for, or none.
LEMMA PageStepImplements ==
    PageInv /\ PageInv' /\ [SlottedNext]_pageVars
      => [Table!PageNext]_[i \in 1 .. (PageSize - HeaderSize) \div SlotSize |-> RecordAt(i)]
  <1> DEFINE records == [i \in 1 .. (PageSize - HeaderSize) \div SlotSize |-> RecordAt(i)]
  <1> SUFFICES ASSUME PageInv, PageInv', [SlottedNext]_pageVars
               PROVE  Table!PageNext \/ records' = records
    OBVIOUS
  <1>1. records = TableOf(LoadRecords) /\ records' = TableOf(LoadRecords')
    <2>1. records = TableOf(LoadRecords)
      BY AbstractPage
    <2>2. PageInv' => (records = TableOf(LoadRecords))'
      BY AbstractPage, PTL
    <2>3. QED
      BY <2>1, <2>2
  <1>2. /\ LoadRecords \in Seq(Contents) /\ Fit(LoadRecords)
        /\ LoadRecords # <<>> => LoadRecords[Len(LoadRecords)] # <<>>
    BY SoundContents
  <1>3. /\ LoadRecords' \in Seq(Contents) /\ Fit(LoadRecords')
        /\ LoadRecords' # <<>> => LoadRecords'[Len(LoadRecords')] # <<>>
    <2>1. PageInv' => (/\ LoadRecords \in Seq(Contents) /\ Fit(LoadRecords)
                       /\ LoadRecords # <<>> => LoadRecords[Len(LoadRecords)] # <<>>)'
      BY SoundContents, PTL
    <2>2. QED
      BY <2>1
  <1>4. /\ DOMAIN slots = 1 .. Len(slots) /\ Len(LoadRecords) = Len(slots) /\ Len(slots) \in Nat
        /\ \A i \in 1 .. Len(slots) : Active(i) <=> LoadRecords[i] # <<>>
    BY LoadFacts
  <1>5. ASSUME NEW i \in 1 .. Len(slots) + 1, NEW r \in Records, InsertRecord(r, i)
        PROVE  Table!PageNext
    <2>1. LoadRecords' = WithContent(LoadRecords, i, BytesOf(r))
      BY <1>5, InsertFacts
    <2>2. /\ i \in 1 .. Len(slots) => LoadRecords[i] = <<>>
          /\ \A j \in 1 .. i - 1 : LoadRecords[j] # <<>>
      <3>1. SelectedSlot(i)
        BY <1>5 DEF InsertRecord
      <3>2. CASE i \in 1 .. Len(slots) /\ ~Active(i) /\ \A j \in 1 .. i - 1 : Active(j)
        BY <1>4, <3>2
      <3>3. CASE i = Len(slots) + 1 /\ \A j \in 1 .. Len(slots) : Active(j)
        BY <1>4, <3>3
      <3>4. QED
        BY <1>4, <3>1, <3>2, <3>3 DEF SelectedSlot
    <2>3. InsertsInto(TableOf(LoadRecords), TableOf(LoadRecords'), i, r)
      BY <1>2, <1>3, <1>4, <2>1, <2>2, InsertIsInsert
    <2> HIDE DEF records
    <2>4. Table!Insert(i, r)
      BY <1>1, <2>3 DEF InsertsInto, Table!Insert, records
    <2>5. QED
      BY <2>3, <2>4 DEF InsertsInto, Table!PageNext
  <1>6. ASSUME NEW i \in 1 .. Len(slots) + 1, NEW r \in Records, UpdateRecord(i, r)
        PROVE  Table!PageNext
    <2>1. /\ LoadRecords' = [LoadRecords EXCEPT ![i] = BytesOf(r)]
          /\ i \in 1 .. Len(LoadRecords) /\ LoadRecords[i] # <<>>
      BY <1>4, <1>6, UpdateFacts
    <2>2. UpdatesIn(TableOf(LoadRecords), TableOf(LoadRecords'), i, r)
      BY <1>2, <1>3, <2>1, UpdateIsUpdate
    <2>3. Table!Update(i, r)
      BY <1>1, <2>2 DEF UpdatesIn, Table!Update
    <2>4. QED
      BY <2>2, <2>3 DEF UpdatesIn, Table!PageNext
  <1>7. ASSUME NEW i \in 1 .. Len(slots) + 1, DeleteRecord(i)
        PROVE  Table!PageNext
    <2>1. /\ LoadRecords' = Trimmed([LoadRecords EXCEPT ![i] = <<>>])
          /\ i \in 1 .. Len(LoadRecords) /\ LoadRecords[i] # <<>>
      BY <1>4, <1>7, DeleteFacts
    <2>2. DeletesFrom(TableOf(LoadRecords), TableOf(LoadRecords'), i)
      BY <1>2, <2>1, DeleteIsDelete
    <2>3. Table!Delete(i)
      BY <1>1, <2>2 DEF DeletesFrom, Table!Delete
    <2>4. QED
      BY <2>2, <2>3 DEF DeletesFrom, Table!PageNext
  <1>8. CASE UNCHANGED pageVars
    <2>1. slots' = slots /\ free_space_pointer' = free_space_pointer /\ bytes' = bytes
      BY <1>8 DEF pageVars
    <2>2. LoadRecords' = LoadRecords
      BY <2>1 DEF LoadRecords, Active, Content
    <2>3. QED
      BY <1>1, <2>2
  <1>9. QED
    BY <1>5, <1>6, <1>7, <1>8 DEF SlottedNext

\* SlottedPage is a table of records by slot number: every operation changes the record
\* of its own slot, uses the lowest free slot, moves the bytes of the others without
\* changing them, and what fits depends on the records that are there.
THEOREM PageImplementsTable == SlottedSpec => ImplementsRecordPage
  <1>1. SlottedInit => Table!PageInit
    <2> SUFFICES ASSUME SlottedInit PROVE Table!PageInit
      OBVIOUS
    <2>1. \A i : RecordAt(i) = None
      BY DEF RecordAt, SlottedInit
    <2>2. QED
      BY <2>1 DEF Table!PageInit, Table!SlotIds, Table!MaxSlots
  <1>2. QED
    BY <1>1, PageStepImplements, PageInvariance, PTL
       DEF SlottedSpec, ImplementsRecordPage, Table!PageSpec

(***************************************************************************)
(* The record codec and the keys of an index.                              *)
(***************************************************************************)

-----------------------------------------------------------------------------
(* Division, and powers of two.                                            *)

\* Division with remainder.
LEMMA DivMod ==
    ASSUME NEW n \in Int, NEW b \in Nat \ {0}
    PROVE  n = b * (n \div b) + (n % b) /\ n % b \in 0 .. b - 1 /\ n \div b \in Int
  OBVIOUS

\* Its result is unique.
LEMMA DivUnique ==
    ASSUME NEW b \in Nat \ {0}, NEW q \in Int, NEW r \in 0 .. b - 1
    PROVE  (b * q + r) \div b = q /\ (b * q + r) % b = r
  OBVIOUS

\* A number below b * c has a quotient below c.
LEMMA DivBelow ==
    ASSUME NEW b \in Nat \ {0}, NEW c \in Nat \ {0}, NEW n \in 0 .. b * c - 1
    PROVE  n \div b \in 0 .. c - 1 /\ n % b \in 0 .. b - 1
  <1> DEFINE q == n \div b
             r == n % b
  <1>1. n = b * q + r /\ r \in 0 .. b - 1 /\ q \in Int
    BY DivMod
  <1> HIDE DEF q, r
  <1>2. q >= 0
    <2>1. SUFFICES ASSUME q <= -1 PROVE FALSE
      BY <1>1
    <2>2. b * q <= -b
      BY <1>1, <2>1
    <2>3. QED
      BY <1>1, <2>2
  <1>3. q <= c - 1
    <2>1. SUFFICES ASSUME q >= c PROVE FALSE
      BY <1>1
    <2>2. b * q >= b * c
      BY <1>1, <2>1
    <2>3. QED
      BY <1>1, <2>2
  <1>4. QED
    BY <1>1, <1>2, <1>3 DEF q, r

\* A power of two is the number of subsets of a set of that many elements.
LEMMA PowerNat ==
    ASSUME NEW n \in Nat
    PROVE  2 ^ n \in Nat \ {0}
  <1>1. IsFiniteSet(1 .. n) /\ Cardinality(1 .. n) = n
    BY FS_Interval
  <1>2. IsFiniteSet(SUBSET (1 .. n)) /\ Cardinality(SUBSET (1 .. n)) = 2 ^ n
    BY <1>1, FS_SUBSET
  <1>3. SUBSET (1 .. n) # {}
    OBVIOUS
  <1>4. Cardinality(SUBSET (1 .. n)) \in Nat /\ Cardinality(SUBSET (1 .. n)) # 0
    BY <1>2, <1>3, FS_CardinalityType, FS_EmptySet
  <1>5. QED
    BY <1>2, <1>4

\* Each power of two is twice the one before: half of the subsets of 1 .. n + 1 have
\* n + 1 in them.
LEMMA PowerStep ==
    ASSUME NEW n \in Nat
    PROVE  2 ^ (n + 1) = 2 * 2 ^ n
  <1> DEFINE S == SUBSET (1 .. n)
             T == {s \cup {n + 1} : s \in S}
             f == [s \in S |-> s \cup {n + 1}]
  <1>1. /\ IsFiniteSet(1 .. n) /\ Cardinality(1 .. n) = n
        /\ IsFiniteSet(1 .. n + 1) /\ Cardinality(1 .. n + 1) = n + 1
    BY FS_Interval
  <1>2. IsFiniteSet(S) /\ Cardinality(S) = 2 ^ n /\ Cardinality(SUBSET (1 .. n + 1)) = 2 ^ (n + 1)
    BY <1>1, FS_SUBSET
  <1>3. n + 1 \notin 1 .. n /\ 1 .. n + 1 = (1 .. n) \cup {n + 1}
    OBVIOUS
  <1>4. f \in Bijection(S, T)
    <2>1. f \in [S -> T]
      OBVIOUS
    <2>2. \A s, t \in S : f[s] = f[t] => s = t
      <3> TAKE s, t \in S
      <3>1. s = f[s] \ {n + 1} /\ t = f[t] \ {n + 1}
        BY <1>3
      <3>2. QED
        BY <3>1
    <2>3. \A t \in T : \E s \in S : f[s] = t
      OBVIOUS
    <2>4. QED
      BY <2>1, <2>2, <2>3 DEF Bijection, Injection, Surjection, IsInjective
  <1>5. IsFiniteSet(T) /\ Cardinality(T) = Cardinality(S)
    BY <1>2, <1>4, FS_Bijection DEF ExistsBijection
  <1>6. SUBSET (1 .. n + 1) = S \cup T
    <2>1. ASSUME NEW u \in SUBSET (1 .. n + 1) PROVE u \in S \cup T
      <3>1. u \ {n + 1} \in S
        BY <1>3
      <3>2. CASE n + 1 \in u
        <4>1. u = (u \ {n + 1}) \cup {n + 1}
          BY <3>2
        <4>2. QED
          BY <3>1, <4>1
      <3>3. CASE n + 1 \notin u
        BY <1>3, <3>3
      <3>4. QED
        BY <3>2, <3>3
    <2>2. ASSUME NEW u \in S \cup T PROVE u \in SUBSET (1 .. n + 1)
      <3>1. CASE u \in S
        BY <1>3, <3>1
      <3>2. CASE u \in T
        <4>1. PICK s \in S : u = s \cup {n + 1}
          BY <3>2
        <4>2. QED
          BY <1>3, <4>1
      <3>3. QED
        BY <3>1, <3>2
    <2> HIDE DEF S, T
    <2>3. QED
      BY <2>1, <2>2
  <1>7. S \cap T = {}
    BY <1>3
  <1> DEFINE a == 2 ^ n
             b == 2 ^ (n + 1)
  <1>8. a = Cardinality(S) /\ a = Cardinality(T) /\ b = Cardinality(S \cup T) /\ a \in Nat
    BY <1>2, <1>5, <1>6, PowerNat
  <1> HIDE DEF S, T, f, a, b
  <1>9. Cardinality({}) = 0
    BY FS_EmptySet
  <1>10. Cardinality(S \cup T) = Cardinality(S) + Cardinality(T) - Cardinality(S \cap T)
    BY <1>2, <1>5, FS_Union
  <1>11. b = a + a - 0
    BY <1>7, <1>8, <1>9, <1>10
  <1>12. b = 2 * a
    BY <1>8, <1>11
  <1>13. QED
    BY <1>12 DEF a, b

\* A smaller power of two divides a larger one, and what it leaves is even.
LEMMA PowerDivides ==
    ASSUME NEW j \in Nat, NEW n \in Nat, j < n
    PROVE  \E q \in Nat : 2 ^ n = 2 ^ j * (2 * q)
  <1> DEFINE Divides(k) == \E q \in Nat : 2 ^ k = 2 ^ j * (2 * q)
             Bad == {k \in Nat : j < k /\ ~Divides(k)}
  <1>1. SUFFICES ASSUME Bad # {} PROVE FALSE
    OBVIOUS
  <1>2. PICK k \in Bad : \A x \in Bad : k <= x
    <2> HIDE DEF Bad
    <2>1. Bad \subseteq Nat
      BY DEF Bad
    <2>2. QED
      BY <1>1, <2>1, LeastNatural
  <1>3. k \in Nat /\ j < k /\ ~Divides(k) /\ k - 1 \in Nat /\ 2 ^ k = 2 * 2 ^ (k - 1)
    <2>1. k - 1 \in Nat /\ (k - 1) + 1 = k
      OBVIOUS
    <2>2. 2 ^ ((k - 1) + 1) = 2 * 2 ^ (k - 1)
      BY <2>1, PowerStep
    <2>3. QED
      BY <2>1, <2>2
  <1>4. CASE k - 1 = j
    <2>1. 2 ^ k = 2 ^ j * (2 * 1)
      <3> DEFINE a == 2 ^ j
                 b == 2 ^ k
      <3>1. a \in Nat /\ b = 2 * a
        BY <1>3, <1>4, PowerNat
      <3> HIDE DEF a, b
      <3>2. b = a * (2 * 1)
        BY <3>1
      <3>3. QED
        BY <3>2 DEF a, b
    <2>2. QED
      BY <1>3, <2>1
  <1>5. CASE k - 1 # j
    <2>1. k - 1 \notin Bad
      BY <1>2, <1>3
    <2>2. PICK q \in Nat : 2 ^ (k - 1) = 2 ^ j * (2 * q)
      BY <1>3, <1>5, <2>1
    <2>3. 2 ^ k = 2 ^ j * (2 * (2 * q))
      <3> DEFINE a == 2 ^ j
                 b == 2 ^ (k - 1)
                 c == 2 ^ k
      <3>1. a \in Nat /\ c = 2 * b /\ b = a * (2 * q)
        BY <1>3, <2>2, PowerNat
      <3> HIDE DEF a, b, c
      <3>2. c = a * (2 * (2 * q))
        BY <3>1
      <3>3. QED
        BY <3>2 DEF a, b, c
    <2>4. 2 * q \in Nat
      OBVIOUS
    <2>5. QED
      BY <1>3, <2>3, <2>4
  <1>6. QED
    BY <1>4, <1>5

-----------------------------------------------------------------------------
(* The bits of a sum of powers of two.                                     *)

\* Adding an even multiple of a does not change the bit that a stands for.
LEMMA SameBit ==
    ASSUME NEW a \in Nat \ {0}, NEW q \in Nat, NEW x \in Nat
    PROVE  ((a * (2 * q) + x) \div a) % 2 = (x \div a) % 2
  <1> DEFINE d == x \div a
             r == x % a
             e == d \div 2
             b == d % 2
  <1>1. x = a * d + r /\ r \in 0 .. a - 1 /\ d \in Int
    BY DivMod
  <1> HIDE DEF d, r
  <1>2. d = 2 * e + b /\ b \in 0 .. 1 /\ e \in Int
    BY <1>1, DivMod
  <1> HIDE DEF e, b
  <1>3. a * (2 * q) + x = a * (2 * q + d) + r
    BY <1>1
  <1>4. (a * (2 * q) + x) \div a = 2 * q + d
    <2>1. 2 * q + d \in Int
      BY <1>1
    <2>2. (a * (2 * q + d) + r) \div a = 2 * q + d
      BY <1>1, <2>1, DivUnique
    <2>3. QED
      BY <1>3, <2>2
  <1>5. 2 * q + d = 2 * (q + e) + b /\ q + e \in Int
    BY <1>2
  <1>6. (2 * (q + e) + b) % 2 = b /\ (2 * e + b) % 2 = b
    BY <1>2, <1>5, DivUnique
  <1>7. d % 2 = b
    BY <1>2, <1>6
  <1>8. QED
    BY <1>4, <1>5, <1>6, <1>7 DEF d

(* Bit j of a number, and that its lowest m bits are those of a set.       *)
BitAt(number, j) == (number \div 2 ^ j) % 2
BitsAre(number, S, m) == \A j \in 0 .. m - 1 : BitAt(number, j) = IF j \in S THEN 1 ELSE 0

\* A set of bits, written as a number: it fits, and each bit can be read again.
LEMMA BitsTold ==
    ASSUME NEW m \in Nat, NEW f, \A k \in 0 .. m - 1 : f[k] = 2 ^ k,
           NEW T \in SUBSET (0 .. m - 1)
    PROVE  /\ SumFunctionOnSet(f, T) \in 0 .. 2 ^ m - 1
           /\ BitsAre(SumFunctionOnSet(f, T), T, m)
  <1> DEFINE Sum(S) == SumFunctionOnSet(f, S)
             Bit(S, j) == BitAt(Sum(S), j)
             Told(n, S) == /\ Sum(S) \in 0 .. 2 ^ n - 1
                           /\ \A j \in 0 .. n - 1 : Bit(S, j) = IF j \in S THEN 1 ELSE 0
             Good(n) == \A S \in SUBSET (0 .. n - 1) : Told(n, S)
             Bad == {n \in 0 .. m : ~Good(n)}
  <1>1. SUFFICES ASSUME Bad # {} PROVE FALSE
    <2>1. SUFFICES Told(m, T)
      BY DEF BitsAre
    <2> HIDE DEF Told
    <2>2. m \in 0 .. m
      OBVIOUS
    <2>3. QED
      BY <2>2
  <1>2. PICK n \in Bad : \A x \in Bad : n <= x
    <2> HIDE DEF Bad
    <2>1. Bad \subseteq Nat
      BY DEF Bad
    <2>2. QED
      BY <1>1, <2>1, LeastNatural
  <1>3. n \in 0 .. m /\ ~Good(n) /\ n \in Nat
    OBVIOUS
  <1>4. PICK S \in SUBSET (0 .. n - 1) : ~Told(n, S)
    BY <1>3
  <1>5. /\ IsFiniteSet(S) /\ \A k \in S : k \in Nat /\ f[k] = 2 ^ k /\ f[k] \in Nat
    <2>1. IsFiniteSet(S)
      <3>1. IsFiniteSet(0 .. n - 1)
        BY <1>3, FS_Interval
      <3>2. QED
        BY <3>1, FS_Subset
    <2>2. ASSUME NEW k \in S PROVE k \in Nat /\ k \in 0 .. m - 1
      BY <1>3
    <2>3. QED
      BY <2>1, <2>2, PowerNat
  <1>6. CASE n = 0
    <2>1. S = {}
      BY <1>6
    <2>2. Sum(S) = 0 /\ 2 ^ 0 \in Nat \ {0}
      <3>1. SumFunctionOnSet(f, {}) = 0
        BY SumUnfolds, FS_EmptySet
      <3>2. 2 ^ 0 \in Nat \ {0}
        BY PowerNat
      <3>3. QED
        BY <2>1, <3>1, <3>2
    <2> HIDE DEF Sum
    <2>3. QED
      BY <1>4, <1>6, <2>2
  <1>7. CASE n # 0
    <2> DEFINE R == S \ {n - 1}
               a == 2 ^ (n - 1)
               b == 2 ^ n
    <2>1. n - 1 \in Nat /\ n - 1 \in 0 .. m /\ n - 1 \notin Bad
      BY <1>2, <1>3, <1>7
    <2>2. R \in SUBSET (0 .. (n - 1) - 1)
      BY <1>3, <2>1
    <2>3. Told(n - 1, R)
      BY <2>1, <2>2
    <2>4. a \in Nat \ {0} /\ b = 2 * a
      <3>1. (n - 1) + 1 = n
        BY <2>1
      <3>2. 2 ^ ((n - 1) + 1) = 2 * 2 ^ (n - 1)
        BY <2>1, PowerStep
      <3>3. QED
        BY <2>1, <3>1, <3>2, PowerNat
    <2>5. Sum(R) \in 0 .. a - 1 /\ \A j \in 0 .. n - 2 : Bit(R, j) = IF j \in R THEN 1 ELSE 0
      <3>1. (n - 1) - 1 = n - 2
        BY <2>1
      <3>2. QED
        BY <2>3, <3>1
    <2>6. CASE n - 1 \notin S
      <3>1. R = S
        BY <2>6
      <3>2. Sum(S) \in 0 .. a - 1 /\ \A j \in 0 .. n - 2 : Bit(S, j) = IF j \in S THEN 1 ELSE 0
        BY <2>5, <3>1
      <3>3. Bit(S, n - 1) = 0
        <4> HIDE DEF Sum, a
        <4>1. (a * 0 + Sum(S)) \div a = 0
          BY <2>4, <3>2, DivUnique
        <4>2. a * 0 + Sum(S) = Sum(S)
          BY <2>4, <3>2
        <4>3. 0 % 2 = 0
          OBVIOUS
        <4>4. QED
          BY <4>1, <4>2, <4>3 DEF a, BitAt
      <3>4. Sum(S) \in 0 .. b - 1
        <4> HIDE DEF Sum, a, b
        <4>1. QED
          BY <2>4, <3>2
      <3>5. \A j \in 0 .. n - 1 : Bit(S, j) = IF j \in S THEN 1 ELSE 0
        <4> HIDE DEF Bit
        <4> TAKE j \in 0 .. n - 1
        <4>1. j \in 0 .. n - 2 \/ j = n - 1
          BY <2>1
        <4>2. QED
          BY <2>6, <3>2, <3>3, <4>1
      <3>6. QED
        BY <1>4, <3>4, <3>5
    <2>7. CASE n - 1 \in S
      <3>1. Sum(S) = f[n - 1] + Sum(R)
        <4>1. IsFiniteSet(S) /\ \A k \in S : f[k] \in Nat
          BY <1>5
        <4>2. \A x \in S : SumFunctionOnSet(f, S) = f[x] + SumFunctionOnSet(f, S \ {x})
          BY <4>1, SumTakeOut
        <4>3. QED
          BY <2>7, <4>2
      <3>2. Sum(S) = a + Sum(R)
        BY <1>5, <2>7, <3>1
      <3>3. Bit(S, n - 1) = 1
        <4> HIDE DEF Sum, a
        <4>1. (a * 1 + Sum(R)) \div a = 1
          <5>1. a \in Nat \ {0} /\ Sum(R) \in 0 .. a - 1 /\ 1 \in Int
            BY <2>4, <2>5
          <5>2. QED
            BY <5>1, DivUnique
        <4>2. a * 1 + Sum(R) = Sum(S)
          BY <2>4, <2>5, <3>2
        <4>3. 1 % 2 = 1
          OBVIOUS
        <4>4. QED
          BY <4>1, <4>2, <4>3 DEF a, BitAt
      <3>4. Sum(S) \in 0 .. b - 1
        <4> HIDE DEF Sum, a, b
        <4>1. QED
          BY <2>4, <2>5, <3>2
      <3>5. ASSUME NEW j \in 0 .. n - 2 PROVE Bit(S, j) = Bit(R, j)
        <4>1. PICK q \in Nat : a = 2 ^ j * (2 * q)
          <5>1. j \in Nat /\ n - 1 \in Nat /\ j < n - 1
            BY <2>1
          <5>2. QED
            BY <5>1, PowerDivides
        <4>2. 2 ^ j \in Nat \ {0} /\ Sum(R) \in Nat
          <5>1. j \in Nat
            BY <2>1
          <5>2. QED
            BY <5>1, <2>4, <2>5, PowerNat
        <4> HIDE DEF Sum, a
        <4>3. ((2 ^ j * (2 * q) + Sum(R)) \div 2 ^ j) % 2 = (Sum(R) \div 2 ^ j) % 2
          BY <4>2, SameBit
        <4>4. QED
          BY <3>2, <4>1, <4>3 DEF BitAt
      <3>6. \A j \in 0 .. n - 1 : Bit(S, j) = IF j \in S THEN 1 ELSE 0
        <4> HIDE DEF Bit
        <4> TAKE j \in 0 .. n - 1
        <4>1. (j \in 0 .. n - 2 /\ j # n - 1) \/ j = n - 1
          BY <2>1
        <4>2. QED
          BY <2>5, <2>7, <3>3, <3>5, <4>1
      <3>7. QED
        BY <1>4, <3>4, <3>6
    <2>8. QED
      BY <2>6, <2>7
  <1>8. QED
    BY <1>6, <1>7

-----------------------------------------------------------------------------
(* Sums of the first elements of a sequence of numbers, and pieces of a    *)
(* sequence put one after the other.                                       *)

\* The sums of the first k numbers, k = 0, 1, ...
LEMMA PrefixSums ==
    ASSUME NEW n \in Nat, NEW h, \A j \in 1 .. n : h[j] \in Nat
    PROVE  /\ SumFunctionOnSet(h, 1 .. 0) = 0
           /\ \A k \in 0 .. n : SumFunctionOnSet(h, 1 .. k) \in Nat
           /\ \A k \in 1 .. n : SumFunctionOnSet(h, 1 .. k) = SumFunctionOnSet(h, 1 .. k - 1) + h[k]
           /\ \A j, k \in 0 .. n : j <= k => SumFunctionOnSet(h, 1 .. j) <= SumFunctionOnSet(h, 1 .. k)
  <1> DEFINE Sum(k) == SumFunctionOnSet(h, 1 .. k)
  <1>1. Sum(0) = 0
    <2>1. SumFunctionOnSet(h, {}) = 0
      BY SumUnfolds, FS_EmptySet
    <2>2. 1 .. 0 = {}
      OBVIOUS
    <2>3. QED
      BY <2>1, <2>2
  <1>2. ASSUME NEW k \in 0 .. n
        PROVE  IsFiniteSet(1 .. k) /\ (\A j \in 1 .. k : h[j] \in Nat) /\ Sum(k) \in Nat
    <2>1. IsFiniteSet(1 .. k) /\ \A j \in 1 .. k : h[j] \in Nat
      BY FS_Interval
    <2>2. QED
      BY <2>1, SumNat
  <1>3. ASSUME NEW k \in 1 .. n
        PROVE  Sum(k) = Sum(k - 1) + h[k]
    <2>1. IsFiniteSet(1 .. k) /\ \A j \in 1 .. k : h[j] \in Nat
      BY <1>2
    <2>2. \A x \in 1 .. k : SumFunctionOnSet(h, 1 .. k) = h[x] + SumFunctionOnSet(h, (1 .. k) \ {x})
      BY <2>1, SumTakeOut
    <2>3. (1 .. k) \ {k} = 1 .. k - 1 /\ k \in 1 .. k
      OBVIOUS
    <2>4. Sum(k) = h[k] + Sum(k - 1)
      BY <2>2, <2>3
    <2>5. h[k] \in Nat /\ k - 1 \in 0 .. n
      OBVIOUS
    <2>6. Sum(k - 1) \in Nat
      BY <1>2, <2>5
    <2> HIDE DEF Sum
    <2>7. QED
      BY <2>4, <2>5, <2>6
  <1> HIDE DEF Sum
  <1>4. ASSUME NEW j \in 0 .. n
        PROVE  \A k \in 0 .. n : j <= k => Sum(j) <= Sum(k)
    <2> DEFINE Bad == {k \in 0 .. n : j <= k /\ ~(Sum(j) <= Sum(k))}
    <2>1. SUFFICES ASSUME Bad # {} PROVE FALSE
      OBVIOUS
    <2>2. PICK k \in Bad : \A x \in Bad : k <= x
      <3> HIDE DEF Bad
      <3>1. Bad \subseteq Nat
        BY DEF Bad
      <3>2. QED
        BY <2>1, <3>1, LeastNatural
    <2>3. k # j /\ k \in 1 .. n /\ k - 1 \in 0 .. n /\ j <= k - 1
      BY <1>2
    <2>4. Sum(j) <= Sum(k - 1)
      BY <2>2, <2>3
    <2>5. Sum(k) = Sum(k - 1) + h[k] /\ h[k] \in Nat /\ Sum(k - 1) \in Nat /\ Sum(j) \in Nat
      BY <1>2, <1>3, <2>3
    <2>6. Sum(j) <= Sum(k)
      BY <2>4, <2>5
    <2>7. QED
      BY <2>6
  <1>5. QED
    BY <1>1, <1>2, <1>3, <1>4 DEF Sum

(* Where piece i of ss starts.                                             *)
Before(ss, i) == SumFunctionOnSet([j \in DOMAIN ss |-> Len(ss[j])], 1 .. i - 1)

\* Each piece starts where the one before it ends.
LEMMA BeforeFacts ==
    ASSUME NEW S, NEW ss \in Seq(Seq(S))
    PROVE  /\ Before(ss, 1) = 0
           /\ \A i \in 1 .. Len(ss) + 1 : Before(ss, i) \in Nat
           /\ \A i \in 1 .. Len(ss) : /\ Before(ss, i + 1) = Before(ss, i) + Len(ss[i])
                                      /\ Len(ss[i]) \in Nat
           /\ \A i, j \in 1 .. Len(ss) + 1 : i <= j => Before(ss, i) <= Before(ss, j)
  <1> DEFINE n == Len(ss)
             h == [j \in DOMAIN ss |-> Len(ss[j])]
  <1>1. n \in Nat /\ DOMAIN ss = 1 .. n /\ \A j \in 1 .. n : ss[j] \in Seq(S)
    OBVIOUS
  <1>2. \A j \in 1 .. n : h[j] = Len(ss[j]) /\ h[j] \in Nat
    BY <1>1
  <1>3. \A i : Before(ss, i) = SumFunctionOnSet(h, 1 .. i - 1)
    BY DEF Before
  <1> HIDE DEF n, h
  <1>4. /\ SumFunctionOnSet(h, 1 .. 0) = 0
        /\ \A k \in 0 .. n : SumFunctionOnSet(h, 1 .. k) \in Nat
        /\ \A k \in 1 .. n : SumFunctionOnSet(h, 1 .. k) = SumFunctionOnSet(h, 1 .. k - 1) + h[k]
        /\ \A j, k \in 0 .. n : j <= k => SumFunctionOnSet(h, 1 .. j) <= SumFunctionOnSet(h, 1 .. k)
    BY <1>1, <1>2, PrefixSums
  <1>5. Before(ss, 1) = 0
    BY <1>3, <1>4
  <1>6. ASSUME NEW i \in 1 .. n + 1 PROVE Before(ss, i) \in Nat
    <2>1. i - 1 \in 0 .. n
      BY <1>1
    <2>2. QED
      BY <1>3, <1>4, <2>1
  <1>7. ASSUME NEW i \in 1 .. n PROVE Before(ss, i + 1) = Before(ss, i) + Len(ss[i])
    <2>1. (i + 1) - 1 = i
      BY <1>1
    <2>2. Before(ss, i + 1) = SumFunctionOnSet(h, 1 .. i)
      BY <1>3, <2>1
    <2>3. QED
      BY <1>2, <1>3, <1>4, <2>2
  <1>8. ASSUME NEW i \in 1 .. n + 1, NEW j \in 1 .. n + 1, i <= j
        PROVE  Before(ss, i) <= Before(ss, j)
    <2>1. i - 1 \in 0 .. n /\ j - 1 \in 0 .. n /\ i - 1 <= j - 1
      BY <1>1, <1>8
    <2>2. SumFunctionOnSet(h, 1 .. i - 1) <= SumFunctionOnSet(h, 1 .. j - 1)
      BY <1>4, <2>1
    <2>3. QED
      BY <1>3, <2>2
  <1>9. QED
    BY <1>2, <1>5, <1>6, <1>7, <1>8 DEF n

(* What FlattenSeq computes: each entry is the one before it and a piece.  *)
Flat(f, ss, n) == f = [i \in 1 .. n |-> IF i = 1 THEN ss[i] ELSE f[i - 1] \o ss[i]]

\* There is such a list.
LEMMA FlatExists ==
    ASSUME NEW ss, NEW n \in Nat
    PROVE  \E f : Flat(f, ss, n)
  <1> DEFINE Bad == {m \in Nat : ~ \E f : Flat(f, ss, m)}
  <1>1. SUFFICES ASSUME Bad # {} PROVE FALSE
    OBVIOUS
  <1>2. PICK m \in Bad : \A x \in Bad : m <= x
    <2> HIDE DEF Bad
    <2>1. Bad \subseteq Nat
      BY DEF Bad
    <2>2. QED
      BY <1>1, <2>1, LeastNatural
  <1>3. m # 0
    <2>1. Flat([i \in 1 .. 0 |-> 0], ss, 0)
      BY DEF Flat
    <2>2. QED
      BY <2>1
  <1>4. PICK f : Flat(f, ss, m - 1)
    <2>1. m - 1 \in Nat /\ m - 1 \notin Bad
      BY <1>2, <1>3
    <2>2. QED
      BY <2>1
  <1> DEFINE g == [i \in 1 .. m |-> IF i < m THEN f[i]
                                    ELSE IF i = 1 THEN ss[i] ELSE f[i - 1] \o ss[i]]
  <1>5. ASSUME NEW i \in 1 .. m
        PROVE  g[i] = IF i = 1 THEN ss[i] ELSE g[i - 1] \o ss[i]
    <2>1. i # 1 => i - 1 \in 1 .. m /\ g[i - 1] = f[i - 1]
      BY <1>3
    <2>2. CASE i < m
      <3>1. i \in 1 .. m - 1 /\ g[i] = f[i]
        BY <1>3, <2>2
      <3>2. f[i] = IF i = 1 THEN ss[i] ELSE f[i - 1] \o ss[i]
        BY <1>4, <3>1 DEF Flat
      <3>3. QED
        BY <2>1, <3>1, <3>2
    <2>3. CASE i = m
      BY <2>1, <2>3
    <2>4. QED
      BY <2>2, <2>3
  <1>6. g = [i \in 1 .. m |-> IF i = 1 THEN ss[i] ELSE g[i - 1] \o ss[i]]
    <2>1. g = [i \in 1 .. m |-> g[i]]
      OBVIOUS
    <2> HIDE DEF g
    <2>2. QED
      BY <1>5, <2>1
  <1>7. Flat(g, ss, m)
    BY <1>6 DEF Flat
  <1>8. QED
    BY <1>2, <1>7

\* A sequence over a set is one over every larger set.
LEMMA MoreElements ==
    ASSUME NEW S, NEW T, S \subseteq T, NEW a \in Seq(S)
    PROVE  a \in Seq(T)
  OBVIOUS

\* Sequences are equal if their lengths and their elements are.
LEMMA SameElements ==
    ASSUME NEW S, NEW a \in Seq(S), NEW b \in Seq(S), Len(a) = Len(b),
           \A k \in 1 .. Len(a) : a[k] = b[k]
    PROVE  a = b
  OBVIOUS

\* Two sequences one after the other.
LEMMA Joined ==
    ASSUME NEW S, NEW a \in Seq(S), NEW b \in Seq(S)
    PROVE  /\ a \o b \in Seq(S) /\ Len(a \o b) = Len(a) + Len(b)
           /\ Len(a) \in Nat /\ Len(b) \in Nat
           /\ \A k \in 1 .. Len(a) : (a \o b)[k] = a[k]
           /\ \A k \in 1 .. Len(b) : (a \o b)[Len(a) + k] = b[k]
  OBVIOUS

\* FlattenSeq puts the pieces one after the other: each element of each piece is found
\* where its piece starts.
LEMMA Flattened ==
    ASSUME NEW S, NEW ss \in Seq(Seq(S))
    PROVE  /\ FlattenSeq(ss) \in Seq(S)
           /\ Len(FlattenSeq(ss)) = Before(ss, Len(ss) + 1)
           /\ \A i \in 1 .. Len(ss) : \A k \in 1 .. Len(ss[i]) :
                 /\ Before(ss, i) + k \in 1 .. Len(FlattenSeq(ss))
                 /\ FlattenSeq(ss)[Before(ss, i) + k] = ss[i][k]
  <1> DEFINE n == Len(ss)
  <1>1. n \in Nat /\ DOMAIN ss = 1 .. n /\ \A j \in 1 .. n : ss[j] \in Seq(S)
    OBVIOUS
  <1>2. /\ Before(ss, 1) = 0
        /\ \A i \in 1 .. n + 1 : Before(ss, i) \in Nat
        /\ \A i \in 1 .. n : /\ Before(ss, i + 1) = Before(ss, i) + Len(ss[i])
                             /\ Len(ss[i]) \in Nat
        /\ \A i, j \in 1 .. n + 1 : i <= j => Before(ss, i) <= Before(ss, j)
    BY BeforeFacts
  <1>3. CASE n = 0
    <2>1. FlattenSeq(ss) = ss /\ ss = <<>>
      BY <1>3 DEF FlattenSeq
    <2>2. ss \in Seq(S) /\ Len(ss) = 0
      BY <2>1
    <2>3. QED
      BY <1>2, <2>1, <2>2
  <1>4. CASE n # 0
    <2> DEFINE f == CHOOSE g : g = [i \in 1 .. n |-> IF i = 1 THEN ss[i] ELSE g[i - 1] \o ss[i]]
               Right(i) == /\ f[i] \in Seq(S) /\ Len(f[i]) = Before(ss, i + 1)
                           /\ \A j \in 1 .. i : \A k \in 1 .. Len(ss[j]) :
                                 f[i][Before(ss, j) + k] = ss[j][k]
               Bad == {i \in 1 .. n : ~Right(i)}
    <2>1. FlattenSeq(ss) = f[n]
      BY <1>4, SMTT(30) DEF FlattenSeq
    <2>2. f = [i \in 1 .. n |-> IF i = 1 THEN ss[i] ELSE f[i - 1] \o ss[i]]
      <3>1. \E g : g = [i \in 1 .. n |-> IF i = 1 THEN ss[i] ELSE g[i - 1] \o ss[i]]
        BY <1>1, FlatExists DEF Flat
      <3>2. QED
        BY <3>1
    <2> HIDE DEF f
    <2>3. \A i \in 1 .. n : f[i] = IF i = 1 THEN ss[i] ELSE f[i - 1] \o ss[i]
      BY <2>2
    <2>4. Bad = {}
      <3>1. SUFFICES ASSUME Bad # {} PROVE FALSE
        OBVIOUS
      <3>2. PICK m \in Bad : \A x \in Bad : m <= x
        <4> HIDE DEF Bad
        <4>1. Bad \subseteq Nat
          BY <1>1 DEF Bad
        <4>2. QED
          BY <3>1, <4>1, LeastNatural
      <3>3. m \in 1 .. n /\ ~Right(m) /\ ss[m] \in Seq(S) /\ m \in Nat
        BY <1>1, <3>2
      <3>4. CASE m = 1
        <4>1. f[m] = ss[m]
          BY <2>3, <3>3, <3>4
        <4>2. Before(ss, m + 1) = Len(ss[m]) /\ Before(ss, m) = 0
          BY <1>2, <3>3, <3>4
        <4>3. \A j \in 1 .. m : j = m
          BY <3>4
        <4>4. \A k \in 1 .. Len(ss[m]) : 0 + k = k
          BY <1>2, <3>3
        <4>5. QED
          BY <3>3, <4>1, <4>2, <4>3, <4>4
      <3>5. CASE m # 1
        <4>1. m - 1 \in 1 .. n /\ Right(m - 1)
          <5>1. m - 1 \in 1 .. n /\ ~(m <= m - 1)
            BY <1>1, <3>3, <3>5
          <5>2. QED
            BY <3>2, <5>1
        <4>2. f[m] = f[m - 1] \o ss[m]
          BY <2>3, <3>3, <3>5
        <4> DEFINE front == f[m - 1]
        <4>3. front \in Seq(S) /\ Len(front) = Before(ss, m)
          <5>1. (m - 1) + 1 = m
            BY <3>3
          <5>2. QED
            BY <4>1, <5>1
        <4>4. f[m] \in Seq(S) /\ Len(f[m]) = Before(ss, m + 1)
          <5> HIDE DEF front
          <5>1. front \o ss[m] \in Seq(S) /\ Len(front \o ss[m]) = Len(front) + Len(ss[m])
            BY <3>3, <4>3, Joined
          <5>2. f[m] = front \o ss[m]
            BY <4>2 DEF front
          <5>3. QED
            BY <1>2, <3>3, <4>3, <5>1, <5>2
        <4>5. ASSUME NEW j \in 1 .. m, NEW k \in 1 .. Len(ss[j])
              PROVE  f[m][Before(ss, j) + k] = ss[j][k]
          <5>1. CASE j = m
            <6> HIDE DEF front
            <6>1. k \in 1 .. Len(ss[m]) /\ (front \o ss[m])[Len(front) + k] = ss[m][k]
              <7>1. k \in 1 .. Len(ss[m])
                BY <5>1
              <7>2. front \in Seq(S) /\ ss[m] \in Seq(S)
                BY <3>3, <4>3
              <7>3. \A x \in 1 .. Len(ss[m]) : (front \o ss[m])[Len(front) + x] = ss[m][x]
                BY <7>2, Joined
              <7>4. QED
                BY <7>1, <7>3
            <6>2. QED
              BY <4>2, <4>3, <5>1, <6>1 DEF front
          <5>2. CASE j # m
            <6>1. j \in 1 .. m - 1 /\ j \in 1 .. n /\ j + 1 \in 1 .. n + 1 /\ m \in 1 .. n + 1 /\ j + 1 <= m
                  /\ j \in 1 .. n + 1
              BY <1>1, <3>3, <5>2
            <6>2. front[Before(ss, j) + k] = ss[j][k]
              BY <4>1, <6>1
            <6>3. Before(ss, j) + k \in 1 .. Len(front)
              <7>1. Before(ss, j + 1) <= Before(ss, m)
                BY <1>2, <6>1
              <7>2. Before(ss, j + 1) = Before(ss, j) + Len(ss[j]) /\ Len(ss[j]) \in Nat
                BY <1>2, <6>1
              <7>3. Before(ss, j) \in Nat /\ Before(ss, m) \in Nat
                BY <1>2, <6>1
              <7> DEFINE a == Before(ss, j)
                         b == Before(ss, m)
                         c == Len(ss[j])
              <7>4. a + c <= b /\ a \in Nat /\ b \in Nat /\ c \in Nat /\ k \in 1 .. c
                BY <7>1, <7>2, <7>3
              <7>5. Len(front) = b
                BY <4>3
              <7> HIDE DEF front, a, b, c
              <7>6. a + k \in 1 .. b
                BY <7>4
              <7>7. QED
                BY <7>5, <7>6 DEF a
            <6> HIDE DEF front
            <6>4. (front \o ss[m])[Before(ss, j) + k] = front[Before(ss, j) + k]
              BY <3>3, <4>3, <6>3
            <6>5. QED
              BY <4>2, <6>2, <6>4 DEF front
          <5>3. QED
            BY <5>1, <5>2
        <4>6. QED
          BY <3>3, <4>4, <4>5
      <3>6. QED
        BY <3>4, <3>5
    <2>5. Right(n) /\ n \in 1 .. n
      <3> HIDE DEF Right, n
      <3>1. n \in 1 .. n
        BY <1>1, <1>4
      <3>2. QED
        BY <2>4, <3>1
    <2>6. ASSUME NEW i \in 1 .. n, NEW k \in 1 .. Len(ss[i])
          PROVE  Before(ss, i) + k \in 1 .. Len(f[n])
      <3>1. i \in 1 .. n + 1 /\ i + 1 \in 1 .. n + 1 /\ n + 1 \in 1 .. n + 1 /\ i + 1 <= n + 1
        BY <1>1
      <3>2. Before(ss, i + 1) <= Before(ss, n + 1)
        BY <1>2, <3>1
      <3>3. Before(ss, i + 1) = Before(ss, i) + Len(ss[i]) /\ Len(ss[i]) \in Nat
        BY <1>2
      <3>4. Before(ss, i) \in Nat /\ Before(ss, n + 1) \in Nat /\ Len(f[n]) = Before(ss, n + 1)
        BY <1>2, <2>5, <3>1
      <3>5. QED
        BY <3>2, <3>3, <3>4
    <2>7. QED
      BY <2>1, <2>5, <2>6
  <1>5. QED
    BY <1>3, <1>4

\* Where pieces of two elements start.
LEMMA PairsBefore ==
    ASSUME NEW S, NEW ss \in Seq(Seq(S)), \A j \in 1 .. Len(ss) : Len(ss[j]) = 2
    PROVE  \A i \in 1 .. Len(ss) + 1 : Before(ss, i) = 2 * (i - 1)
  <1> DEFINE n == Len(ss)
             Bad == {i \in 1 .. n + 1 : Before(ss, i) # 2 * (i - 1)}
  <1>1. SUFFICES ASSUME Bad # {} PROVE FALSE
    OBVIOUS
  <1>2. n \in Nat
    OBVIOUS
  <1>3. PICK i \in Bad : \A x \in Bad : i <= x
    <2> HIDE DEF Bad
    <2>1. Bad \subseteq Nat
      BY <1>2 DEF Bad
    <2>2. QED
      BY <1>1, <2>1, LeastNatural
  <1>4. i \in 1 .. n + 1 /\ Before(ss, i) # 2 * (i - 1) /\ i \in Nat
    BY <1>2
  <1>5. /\ Before(ss, 1) = 0
        /\ \A j \in 1 .. n : Before(ss, j + 1) = Before(ss, j) + 2
    BY BeforeFacts
  <1>6. CASE i = 1
    BY <1>4, <1>5, <1>6
  <1>7. CASE i # 1
    <2>1. i - 1 \in 1 .. n + 1 /\ i - 1 \in 1 .. n /\ ~(i <= i - 1) /\ (i - 1) + 1 = i
      BY <1>2, <1>4, <1>7
    <2>2. Before(ss, i - 1) = 2 * ((i - 1) - 1)
      BY <1>3, <2>1
    <2>3. Before(ss, i) = Before(ss, i - 1) + 2
      BY <1>5, <2>1
    <2>4. QED
      BY <1>4, <2>2, <2>3
  <1>8. QED
    BY <1>6, <1>7

-----------------------------------------------------------------------------
(* The numbers of a record.                                                *)

\* Widths: the values of a byte, of two and of four.
LEMMA WidthFacts ==
    /\ Base \in Nat \ {0, 1} /\ HalfWord \in Nat \ {0, 1} /\ HalfWord = Base * Base
    /\ Word \in Nat \ {0} /\ Word = HalfWord * HalfWord /\ U16Max = HalfWord - 1
    /\ IntMax \in Nat /\ IntMin \in Int /\ IntMax - IntMin = Word - 1 /\ IntMin = -(IntMax + 1)
    /\ Byte = 0 .. Base - 1 /\ 0 \in Byte /\ 1 \in Byte
  <1>1. PICK a \in Nat \ {0} : Base = 2 * a
    <2>1. ByteBits - 1 \in Nat /\ (ByteBits - 1) + 1 = ByteBits
      BY ByteAssumption
    <2>2. 2 ^ ((ByteBits - 1) + 1) = 2 * 2 ^ (ByteBits - 1) /\ 2 ^ (ByteBits - 1) \in Nat \ {0}
      BY <2>1, PowerStep, PowerNat
    <2>3. QED
      BY <2>1, <2>2 DEF Base
  <1>2. Base \in Nat \ {0, 1}
    BY <1>1
  <1> DEFINE h == a * Base * HalfWord
  <1>3. HalfWord = Base * Base /\ HalfWord \in Nat \ {0, 1}
    <2>1. HalfWord = Base * Base
      BY DEF HalfWord
    <2>2. Base * Base \in Nat /\ Base * Base > Base
      BY <1>2
    <2>3. QED
      BY <1>2, <2>1, <2>2
  <1>4. h \in Nat \ {0} /\ Word = 2 * h /\ Word = HalfWord * HalfWord
    <2>1. Word = HalfWord * HalfWord
      BY DEF Word
    <2>2. HalfWord = 2 * (a * Base)
      BY <1>1, <1>2, <1>3
    <2>3. a * Base \in Nat \ {0}
      BY <1>2
    <2>4. (2 * (a * Base)) * HalfWord = 2 * ((a * Base) * HalfWord)
      BY <1>3, <2>3
    <2>5. (a * Base) * HalfWord \in Nat \ {0}
      BY <1>3, <2>3
    <2>6. QED
      BY <2>1, <2>2, <2>4, <2>5
  <1> HIDE DEF h
  <1>5. Word \div 2 = h
    <2>1. (2 * h + 0) \div 2 = h
      BY <1>4, DivUnique
    <2>2. QED
      BY <1>4, <2>1
  <1>6. IntMax = h - 1 /\ IntMin = -h
    BY <1>5 DEF IntMax, IntMin
  <1>7. /\ IntMax \in Nat /\ IntMin \in Int /\ IntMax - IntMin = Word - 1
        /\ IntMin = -(IntMax + 1) /\ Word \in Nat \ {0}
    BY <1>4, <1>6
  <1>8. Byte = 0 .. Base - 1 /\ 0 \in Byte /\ 1 \in Byte
    BY <1>2 DEF Byte
  <1>9. QED
    BY <1>2, <1>3, <1>4, <1>7, <1>8 DEF U16Max

\* Two bytes hold a number up to U16Max.
LEMMA U16Facts ==
    ASSUME NEW n \in 0 .. U16Max
    PROVE  /\ U16(n) \in Seq(Byte) /\ Len(U16(n)) = 2
           /\ U16(n)[1] \in Byte /\ U16(n)[2] \in Byte
           /\ U16(n)[1] + Base * U16(n)[2] = n
  <1>1. n \in 0 .. Base * Base - 1 /\ Base \in Nat \ {0} /\ Byte = 0 .. Base - 1
    BY WidthFacts
  <1>2. n \div Base \in Byte /\ n % Base \in Byte
    BY <1>1, DivBelow
  <1>3. n = Base * (n \div Base) + (n % Base)
    BY <1>1, DivMod
  <1> DEFINE a == n % Base
             b == n \div Base
  <1>4. U16(n) = <<a, b>> /\ a \in Byte /\ b \in Byte /\ n = Base * b + a
    BY <1>2, <1>3 DEF U16
  <1> HIDE DEF a, b
  <1>5. <<a, b>> \in Seq(Byte) /\ Len(<<a, b>>) = 2 /\ <<a, b>>[1] = a /\ <<a, b>>[2] = b
    BY <1>4
  <1>6. a + Base * b = n
    BY <1>1, <1>4
  <1>7. QED
    BY <1>4, <1>5, <1>6

\* Reading two bytes that were written.
LEMMA ReadU16Facts ==
    ASSUME NEW n \in 0 .. U16Max, NEW r, NEW at \in Nat,
           r[at] = U16(n)[1], r[at + 1] = U16(n)[2]
    PROVE  ReadU16(r, at) = n
  BY U16Facts DEF ReadU16

\* Four bytes hold an integer, negative ones as well.
LEMMA I32Facts ==
    ASSUME NEW n \in IntMin .. IntMax
    PROVE  /\ I32(n) \in Seq(Byte) /\ Len(I32(n)) = 4
           /\ \A r : \A at \in Nat :
                 (\A k \in 1 .. 4 : r[at + k - 1] = I32(n)[k]) => ReadI32(r, at) = n
  <1> DEFINE raw == n % Word
             low == raw % HalfWord
             high == raw \div HalfWord
  <1>1. raw \in 0 .. Word - 1 /\ raw = IF n >= 0 THEN n ELSE n + Word
    <2>1. /\ Word \in Nat \ {0} /\ IntMin \in Int /\ IntMax \in Int
          /\ IntMax - IntMin = Word - 1 /\ IntMin = -(IntMax + 1)
      BY WidthFacts
    <2>2. CASE n >= 0
      <3>1. n \in 0 .. Word - 1 /\ Word * 0 + n = n
        BY <2>1, <2>2
      <3>2. (Word * 0 + n) % Word = n
        BY <2>1, <3>1, DivUnique
      <3>3. QED
        BY <2>2, <3>1, <3>2
    <2>3. CASE ~(n >= 0)
      <3>1. n + Word \in 0 .. Word - 1 /\ Word * (-1) + (n + Word) = n
        BY <2>1, <2>3
      <3>2. (Word * (-1) + (n + Word)) % Word = n + Word
        BY <2>1, <3>1, DivUnique
      <3>3. QED
        BY <2>3, <3>1, <3>2
    <2>4. QED
      BY <2>2, <2>3
  <1> HIDE DEF raw
  <1>2. low \in 0 .. U16Max /\ high \in 0 .. U16Max /\ raw = HalfWord * high + low
    <2>1. raw \in 0 .. HalfWord * HalfWord - 1 /\ HalfWord \in Nat \ {0} /\ U16Max = HalfWord - 1
      BY <1>1, WidthFacts
    <2>2. low \in 0 .. HalfWord - 1 /\ high \in 0 .. HalfWord - 1
      BY <2>1, DivBelow
    <2>3. raw \in Int
      BY <2>1
    <2>4. raw = HalfWord * high + low
      BY <2>1, <2>3, DivMod
    <2>5. QED
      BY <2>1, <2>2, <2>4
  <1>3. I32(n) = U16(low) \o U16(high)
    BY DEF I32, raw
  <1> HIDE DEF low, high
  <1>4. /\ U16(low) \in Seq(Byte) /\ Len(U16(low)) = 2
        /\ U16(high) \in Seq(Byte) /\ Len(U16(high)) = 2
    BY <1>2, U16Facts
  <1>5. I32(n) \in Seq(Byte) /\ Len(I32(n)) = 4
    <2>1. 2 + 2 = 4
      OBVIOUS
    <2>2. QED
      BY <1>3, <1>4, <2>1, Joined
  <1>6. /\ I32(n)[1] = U16(low)[1] /\ I32(n)[2] = U16(low)[2]
        /\ I32(n)[3] = U16(high)[1] /\ I32(n)[4] = U16(high)[2]
    <2>1. /\ \A k \in 1 .. 2 : I32(n)[k] = U16(low)[k]
          /\ \A k \in 1 .. 2 : I32(n)[2 + k] = U16(high)[k]
      <3> DEFINE a == U16(low)
                 b == U16(high)
      <3>1. a \in Seq(Byte) /\ Len(a) = 2 /\ b \in Seq(Byte) /\ Len(b) = 2 /\ I32(n) = a \o b
        BY <1>3, <1>4
      <3> HIDE DEF a, b
      <3>2. /\ \A k \in 1 .. Len(a) : (a \o b)[k] = a[k]
            /\ \A k \in 1 .. Len(b) : (a \o b)[Len(a) + k] = b[k]
        <4>1. a \in Seq(Byte) /\ b \in Seq(Byte)
          BY <3>1
        <4>2. QED
          BY <4>1, Joined
      <3>3. QED
        BY <3>1, <3>2 DEF a, b
    <2>2. 1 \in 1 .. 2 /\ 2 \in 1 .. 2 /\ 2 + 1 = 3 /\ 2 + 2 = 4
      OBVIOUS
    <2>3. QED
      BY <2>1, <2>2
  <1>7. ASSUME NEW r, NEW at \in Nat, \A k \in 1 .. 4 : r[at + k - 1] = I32(n)[k]
        PROVE  ReadI32(r, at) = n
    <2>1. /\ r[at] = I32(n)[1] /\ r[at + 1] = I32(n)[2]
          /\ r[at + 2] = I32(n)[3] /\ r[(at + 2) + 1] = I32(n)[4]
      <3>1. at + 1 - 1 = at /\ at + 2 - 1 = at + 1 /\ at + 3 - 1 = at + 2 /\ at + 4 - 1 = (at + 2) + 1
        OBVIOUS
      <3>2. 1 \in 1 .. 4 /\ 2 \in 1 .. 4 /\ 3 \in 1 .. 4 /\ 4 \in 1 .. 4
        OBVIOUS
      <3>3. QED
        BY <1>7, <3>1, <3>2
    <2>2. ReadU16(r, at) = low /\ ReadU16(r, at + 2) = high
      BY <1>2, <1>6, <2>1, ReadU16Facts
    <2>3. low + HalfWord * high = raw
      BY <1>2, WidthFacts
    <2>4. ReadI32(r, at) = IF raw > IntMax THEN raw - Word ELSE raw
      BY <2>2, <2>3 DEF ReadI32
    <2>5. QED
      BY <1>1, <2>4, WidthFacts
  <1>8. QED
    BY <1>5, <1>7

-----------------------------------------------------------------------------
(* Fields and keys.                                                        *)

\* What kinds of values there are.
LEMMA ValueKinds ==
    ASSUME NEW v \in ValueType
    PROVE  \/ v = Null /\ v.type = "NULL"
           \/ v.type = "INTEGER" /\ v.int \in IntMin .. IntMax /\ v = IntValue(v.int)
           \/ v.type = "VARCHAR" /\ v.text \in Seq(Byte) /\ v = TextValue(v.text)
           \/ v.type = "BOOLEAN" /\ v.bool \in BOOLEAN /\ v = BoolValue(v.bool)
  BY DEF ValueType, Null, IntValue, TextValue, BoolValue

\* A field is a sequence of bytes, as many as its type says.
LEMMA FieldFacts ==
    ASSUME NEW v \in ValueType
    PROVE  /\ Field(v) \in Seq(Byte) /\ Len(Field(v)) \in Nat
           /\ v.type = "NULL" => Field(v) = <<>>
           /\ v.type = "INTEGER" => Field(v) = I32(v.int) /\ Len(Field(v)) = 4
           /\ v.type = "VARCHAR" => Field(v) = v.text
           /\ v.type = "BOOLEAN" => Field(v) = <<IF v.bool THEN 1 ELSE 0>> /\ Len(Field(v)) = 1
  <1>1. CASE v.type = "NULL"
    BY <1>1 DEF Field
  <1>2. CASE v.type = "INTEGER"
    <2>1. v.int \in IntMin .. IntMax /\ Field(v) = I32(v.int)
      BY <1>2, ValueKinds DEF Field, Null
    <2>2. QED
      BY <1>2, <2>1, I32Facts
  <1>3. CASE v.type = "VARCHAR"
    <2>1. v.text \in Seq(Byte) /\ Field(v) = v.text
      BY <1>3, ValueKinds DEF Field, Null
    <2>2. QED
      BY <1>3, <2>1
  <1>4. CASE v.type = "BOOLEAN"
    <2>1. Field(v) = <<IF v.bool THEN 1 ELSE 0>>
      BY <1>4 DEF Field
    <2>2. (IF v.bool THEN 1 ELSE 0) \in Byte
      BY WidthFacts
    <2>3. QED
      BY <1>4, <2>1, <2>2
  <1>5. QED
    BY <1>1, <1>2, <1>3, <1>4, ValueKinds

\* Different values have different fields, if they are of one type.
LEMMA FieldTells ==
    ASSUME NEW v \in ValueType, NEW w \in ValueType, v.type = w.type, Field(v) = Field(w)
    PROVE  v = w
  <1>1. CASE v.type = "NULL"
    BY <1>1, ValueKinds
  <1>2. CASE v.type = "INTEGER"
    <2>1. /\ v.int \in IntMin .. IntMax /\ v = IntValue(v.int)
          /\ w.int \in IntMin .. IntMax /\ w = IntValue(w.int)
      BY <1>2, ValueKinds DEF Null
    <2>2. I32(v.int) = I32(w.int)
      BY <1>2, FieldFacts
    <2>3. ASSUME NEW n \in IntMin .. IntMax PROVE ReadI32(I32(n), 1) = n
      <3>1. \A k \in 1 .. 4 : I32(n)[1 + k - 1] = I32(n)[k]
        <4> TAKE k \in 1 .. 4
        <4>1. 1 + k - 1 = k
          OBVIOUS
        <4>2. QED
          BY <4>1
      <3>2. 1 \in Nat
        OBVIOUS
      <3>3. QED
        BY <3>1, <3>2, I32Facts
    <2>4. v.int = w.int
      BY <2>1, <2>2, <2>3
    <2>5. QED
      BY <2>1, <2>4
  <1>3. CASE v.type = "VARCHAR"
    <2>1. v = TextValue(v.text) /\ w = TextValue(w.text)
      BY <1>3, ValueKinds DEF Null
    <2>2. v.text = w.text
      BY <1>3, FieldFacts
    <2>3. QED
      BY <2>1, <2>2
  <1>4. CASE v.type = "BOOLEAN"
    <2>1. /\ v.bool \in BOOLEAN /\ v = BoolValue(v.bool)
          /\ w.bool \in BOOLEAN /\ w = BoolValue(w.bool)
      BY <1>4, ValueKinds DEF Null
    <2>2. <<IF v.bool THEN 1 ELSE 0>> = <<IF w.bool THEN 1 ELSE 0>>
      <3>1. Field(v) = <<IF v.bool THEN 1 ELSE 0>>
        BY <1>4 DEF Field
      <3>2. Field(w) = <<IF w.bool THEN 1 ELSE 0>>
        BY <1>4 DEF Field
      <3>3. QED
        BY <3>1, <3>2
    <2>3. (IF v.bool THEN 1 ELSE 0) = (IF w.bool THEN 1 ELSE 0)
      BY <2>2
    <2>4. v.bool = w.bool
      BY <2>1, <2>3
    <2>5. QED
      BY <2>1, <2>4
  <1>5. QED
    BY <1>1, <1>2, <1>3, <1>4, ValueKinds

\* The number that stands for a type in a key.
TypeTag(v) == CASE v.type = "INTEGER" -> 1
                [] v.type = "VARCHAR" -> 2
                [] v.type = "BOOLEAN" -> 3

\* IndexKey::Encode: a key tells the type and the value, and has room in an entry.
THEOREM KeyFacts ==
    ASSUME NEW v \in ValueType, NEW w \in ValueType, Encodable(v), Encodable(w)
    PROVE  /\ Encode(v) = Encode(w) <=> v = w
           /\ Len(Encode(v)) <= MaxKeyLength
  <1>1. ASSUME NEW x \in ValueType, Encodable(x)
        PROVE  /\ x.type \in {"INTEGER", "VARCHAR", "BOOLEAN"} /\ TypeTag(x) \in Nat
               /\ x.type = "INTEGER" <=> TypeTag(x) = 1
               /\ x.type = "VARCHAR" <=> TypeTag(x) = 2
               /\ x.type = "BOOLEAN" <=> TypeTag(x) = 3
               /\ Encode(x) = <<TypeTag(x)>> \o Field(x) /\ Field(x) \in Seq(Nat)
    <2>1. x.type \in {"INTEGER", "VARCHAR", "BOOLEAN"}
      BY <1>1, ValueKinds DEF Encodable
    <2>2. Field(x) \in Seq(Nat)
      <3>1. Field(x) \in Seq(Byte)
        BY FieldFacts
      <3>2. Byte \subseteq Nat
        BY WidthFacts
      <3>3. QED
        BY <3>1, <3>2, MoreElements
    <2>3. QED
      BY <2>1, <2>2 DEF Encode, TypeTag
  <1> DEFINE a == Field(v)
             b == Field(w)
             i == TypeTag(v)
             j == TypeTag(w)
  <1>2. a \in Seq(Nat) /\ b \in Seq(Nat) /\ i \in Nat /\ j \in Nat
        /\ Encode(v) = <<i>> \o a /\ Encode(w) = <<j>> \o b
    BY <1>1
  <1>3. ASSUME Encode(v) = Encode(w) PROVE v = w
    <2> HIDE DEF a, b, i, j
    <2>1. /\ Len(<<i>>) = 1 /\ <<i>> \in Seq(Nat) /\ <<i>>[1] = i
          /\ Len(<<j>>) = 1 /\ <<j>> \in Seq(Nat) /\ <<j>>[1] = j
      BY <1>2
    <2>2. /\ Len(<<i>> \o a) = 1 + Len(a) /\ (<<i>> \o a)[1] = i /\ Len(a) \in Nat
          /\ \A k \in 1 .. Len(a) : (<<i>> \o a)[1 + k] = a[k]
      BY <1>2, <2>1, Joined
    <2>3. /\ Len(<<j>> \o b) = 1 + Len(b) /\ (<<j>> \o b)[1] = j /\ Len(b) \in Nat
          /\ \A k \in 1 .. Len(b) : (<<j>> \o b)[1 + k] = b[k]
      BY <1>2, <2>1, Joined
    <2>4. i = j
      BY <1>2, <1>3, <2>2, <2>3
    <2>5. Len(a) = Len(b)
      BY <1>2, <1>3, <2>2, <2>3
    <2>6. \A k \in 1 .. Len(a) : a[k] = b[k]
      BY <1>2, <1>3, <2>2, <2>3, <2>5
    <2>7. a = b
      <3>1. a \in Seq(Nat) /\ b \in Seq(Nat)
        BY <1>2
      <3>2. QED
        BY <2>5, <2>6, <3>1, SameElements
    <2>8. v.type = w.type
      <3>1. TypeTag(v) = TypeTag(w)
        BY <2>4 DEF i, j
      <3>2. ASSUME NEW x \in {v, w}
            PROVE  /\ x.type \in {"INTEGER", "VARCHAR", "BOOLEAN"}
                   /\ x.type = "INTEGER" <=> TypeTag(x) = 1
                   /\ x.type = "VARCHAR" <=> TypeTag(x) = 2
                   /\ x.type = "BOOLEAN" <=> TypeTag(x) = 3
        BY <1>1
      <3>3. CASE v.type = "INTEGER"
        BY <3>1, <3>2, <3>3
      <3>4. CASE v.type = "VARCHAR"
        BY <3>1, <3>2, <3>4
      <3>5. CASE v.type = "BOOLEAN"
        BY <3>1, <3>2, <3>5
      <3>6. QED
        BY <3>2, <3>3, <3>4, <3>5
    <2>9. QED
      BY <2>7, <2>8, FieldTells DEF a, b
  <1>4. Len(Encode(v)) <= MaxKeyLength
    <2>1. Len(a) \in Nat /\ Len(a) + 1 <= MaxKeyLength
      <3>1. MaxKeyLength \in Nat /\ MaxKeyLength > 4
        BY CodecAssumption
      <3>2. CASE v.type = "VARCHAR"
        BY <3>2, FieldFacts DEF Encodable
      <3>3. CASE v.type = "INTEGER"
        <4>1. Len(a) = 4
          BY <3>3, FieldFacts
        <4> HIDE DEF a
        <4>2. QED
          BY <3>1, <4>1
      <3>4. CASE v.type = "BOOLEAN"
        <4>1. Len(a) = 1
          BY <3>4, FieldFacts
        <4> HIDE DEF a
        <4>2. QED
          BY <3>1, <4>1
      <3>5. QED
        BY <1>1, <3>2, <3>3, <3>4
    <2> HIDE DEF a, i
    <2>2. Len(<<i>> \o a) = Len(a) + 1
      BY <1>2
    <2>3. QED
      BY <1>2, <2>1, <2>2
  <1>5. QED
    BY <1>3, <1>4

-----------------------------------------------------------------------------
(* Reading any bytes.                                                      *)

\* The bitmap is as long as it needs to be: the bit of each column is in it.
LEMMA BitmapFacts ==
    ASSUME NEW n \in Nat
    PROVE  /\ NullBitmapSize(n) \in Nat
           /\ HeaderLength(n) \in Nat /\ HeaderLength(n) = 2 + NullBitmapSize(n) + 2 * n
           /\ \A i \in 1 .. n : /\ (i - 1) \div ByteBits \in 0 .. NullBitmapSize(n) - 1
                                /\ (i - 1) % ByteBits \in 0 .. ByteBits - 1
                                /\ i - 1 = ByteBits * ((i - 1) \div ByteBits) + ((i - 1) % ByteBits)
  <1> DEFINE q == (n - 1) \div ByteBits
             t == (n - 1) % ByteBits
  <1>1. ByteBits \in Nat \ {0}
    BY ByteAssumption
  <1>2. n - 1 = ByteBits * q + t /\ t \in 0 .. ByteBits - 1 /\ q \in Int
    <2>1. n - 1 \in Int
      OBVIOUS
    <2>2. QED
      BY <1>1, <2>1, DivMod
  <1> HIDE DEF q, t
  <1>3. NullBitmapSize(n) = q + 1
    <2>1. n + ByteBits - 1 = ByteBits * (q + 1) + t
      BY <1>1, <1>2
    <2>2. q + 1 \in Int
      BY <1>2
    <2>3. (ByteBits * (q + 1) + t) \div ByteBits = q + 1
      BY <1>1, <1>2, <2>2, DivUnique
    <2>4. QED
      BY <2>1, <2>3 DEF NullBitmapSize
  <1>4. q + 1 >= 0
    <2>1. SUFFICES ASSUME q <= -2 PROVE FALSE
      BY <1>2
    <2>2. ByteBits * q <= ByteBits * (-2)
      BY <1>1, <1>2, <2>1
    <2>3. QED
      BY <1>1, <1>2, <2>2
  <1>5. ASSUME NEW i \in 1 .. n
        PROVE  /\ (i - 1) \div ByteBits \in 0 .. q
               /\ (i - 1) % ByteBits \in 0 .. ByteBits - 1
               /\ i - 1 = ByteBits * ((i - 1) \div ByteBits) + ((i - 1) % ByteBits)
    <2> DEFINE p == (i - 1) \div ByteBits
               u == (i - 1) % ByteBits
    <2>1. i - 1 = ByteBits * p + u /\ u \in 0 .. ByteBits - 1 /\ p \in Int
      <3>1. i - 1 \in Int
        OBVIOUS
      <3>2. QED
        BY <1>1, <3>1, DivMod
    <2> HIDE DEF p, u
    <2>2. p >= 0
      <3>1. SUFFICES ASSUME p <= -1 PROVE FALSE
        BY <2>1
      <3>2. ByteBits * p <= ByteBits * (-1)
        BY <1>1, <2>1, <3>1
      <3>3. QED
        BY <1>1, <2>1, <3>2
    <2>3. p <= q
      <3>1. SUFFICES ASSUME p >= q + 1 PROVE FALSE
        BY <1>2, <2>1
      <3>2. ByteBits * p >= ByteBits * (q + 1)
        BY <1>1, <1>2, <2>1, <3>1
      <3>3. ByteBits * (q + 1) = ByteBits * q + ByteBits
        BY <1>1, <1>2
      <3>4. QED
        BY <1>1, <1>2, <2>1, <3>2, <3>3
    <2>4. QED
      BY <1>2, <2>1, <2>2, <2>3 DEF p, u
  <1>6. NullBitmapSize(n) \in Nat /\ NullBitmapSize(n) - 1 = q
    BY <1>2, <1>3, <1>4
  <1>7. QED
    BY <1>5, <1>6 DEF HeaderLength

\* Whatever the record holds, every field that is read lies inside it.
LEMMA FieldsInside ==
    ASSUME NEW s \in SchemaType, NEW r \in Seq(Byte)
    PROVE  FieldsRead(s, r) \subseteq 1 .. Len(r)
  <1> DEFINE n == Len(s)
             L == HeaderLength(n)
             Off(i) == StoredOffset(s, r, i)
  <1>1. n \in Nat /\ Len(r) \in Nat /\ DOMAIN r = 1 .. Len(r)
    BY DEF SchemaType
  <1>2. /\ NullBitmapSize(n) \in Nat /\ L \in Nat
        /\ L = 2 + NullBitmapSize(n) + 2 * n
    BY <1>1, BitmapFacts
  <1>3. SUFFICES ASSUME HeaderComplete(s, r), OffsetsInOrder(s, r), NEW i \in 1 .. n,
                        NEW x \in L + Off(i) + 1 .. L + Off(i) + FieldSize(s, r, i)
                 PROVE  x \in 1 .. Len(r)
    BY DEF FieldsRead
  <1>4. L <= Len(r)
    BY <1>3 DEF HeaderComplete
  <1>5. ASSUME NEW j \in 1 .. n PROVE Off(j) \in Nat
    <2> DEFINE at == 3 + NullBitmapSize(n) + 2 * (j - 1)
    <2>1. Off(j) = r[at] + Base * r[at + 1]
      BY DEF StoredOffset, ReadU16
    <2>2. at \in 1 .. Len(r) /\ at + 1 \in 1 .. Len(r)
      <3> HIDE DEF n, L
      <3>1. QED
        BY <1>1, <1>2, <1>4
    <2> HIDE DEF at
    <2>3. r[at] \in Byte /\ r[at + 1] \in Byte
      BY <1>1, <2>2
    <2>4. r[at] \in Nat /\ r[at + 1] \in Nat /\ Base \in Nat
      BY <2>3, WidthFacts
    <2> HIDE DEF Off
    <2>5. QED
      BY <2>1, <2>4
  <1>6. \A j \in 1 .. n : Off(j) <= Len(r) - L
    BY <1>3 DEF OffsetsInOrder, StoredPayload
  <1>7. End(s, r, i) \in Int /\ End(s, r, i) <= Len(r) - L
    <2>1. CASE i < n
      <3>1. i + 1 \in 1 .. n /\ End(s, r, i) = Off(i + 1)
        BY <1>1, <2>1 DEF End
      <3> HIDE DEF Off, n, L
      <3>2. QED
        BY <1>5, <1>6, <3>1
    <2>2. CASE ~(i < n)
      <3>1. End(s, r, i) = Len(r) - L
        BY <2>2 DEF End, StoredPayload
      <3> HIDE DEF L
      <3>2. QED
        BY <1>1, <1>2, <3>1
    <2>3. QED
      BY <2>1, <2>2
  <1>8. FieldSize(s, r, i) = End(s, r, i) - Off(i)
    BY DEF FieldSize
  <1>9. Off(i) \in Nat
    BY <1>5
  <1> DEFINE size == FieldSize(s, r, i)
             end == End(s, r, i)
  <1>10. /\ size = end - Off(i) /\ end \in Int /\ end <= Len(r) - L
         /\ x \in L + Off(i) + 1 .. L + Off(i) + size
    BY <1>7, <1>8
  <1> HIDE DEF Off, L, n, size, end
  <1>11. x \in Int /\ x >= 1
    <2>1. size \in Int /\ L \in Nat
      BY <1>2, <1>9, <1>10
    <2>2. x \in Int /\ x >= L + Off(i) + 1
      BY <1>9, <1>10, <2>1
    <2>3. QED
      BY <1>9, <2>1, <2>2
  <1>12. x <= Len(r)
    <2>1. L + Off(i) + size = L + end
      BY <1>2, <1>9, <1>10
    <2>2. x <= L + end
      BY <1>2, <1>9, <1>10, <2>1
    <2>3. QED
      BY <1>1, <1>2, <1>10, <1>11, <2>2
  <1>13. QED
    BY <1>1, <1>11, <1>12

-----------------------------------------------------------------------------
(* What was written is read again.                                         *)

\* Four sequences one after the other.
LEMMA FourJoined ==
    ASSUME NEW S, NEW a \in Seq(S), NEW b \in Seq(S), NEW c \in Seq(S), NEW d \in Seq(S),
           NEW r, r = a \o b \o c \o d
    PROVE  /\ r \in Seq(S) /\ Len(r) = Len(a) + Len(b) + Len(c) + Len(d)
           /\ \A k \in 1 .. Len(a) : r[k] = a[k]
           /\ \A k \in 1 .. Len(b) : r[Len(a) + k] = b[k]
           /\ \A k \in 1 .. Len(c) : r[Len(a) + Len(b) + k] = c[k]
           /\ \A k \in 1 .. Len(d) : r[Len(a) + Len(b) + Len(c) + k] = d[k]
  <1> DEFINE e == a \o b
             f == e \o c
  <1>4. r = f \o d
    OBVIOUS
  <1>1. /\ e \in Seq(S) /\ Len(e) = Len(a) + Len(b) /\ Len(a) \in Nat /\ Len(b) \in Nat
        /\ \A k \in 1 .. Len(a) : e[k] = a[k]
        /\ \A k \in 1 .. Len(b) : e[Len(a) + k] = b[k]
    BY Joined
  <1> HIDE DEF e
  <1>2. /\ f \in Seq(S) /\ Len(f) = Len(e) + Len(c) /\ Len(c) \in Nat
        /\ \A k \in 1 .. Len(e) : f[k] = e[k]
        /\ \A k \in 1 .. Len(c) : f[Len(e) + k] = c[k]
    <2>1. e \in Seq(S)
      BY <1>1
    <2>2. QED
      BY <2>1, Joined
  <1> HIDE DEF f
  <1>3. /\ r \in Seq(S) /\ Len(r) = Len(f) + Len(d) /\ Len(d) \in Nat
        /\ \A k \in 1 .. Len(f) : r[k] = f[k]
        /\ \A k \in 1 .. Len(d) : r[Len(f) + k] = d[k]
    <2>1. f \in Seq(S)
      BY <1>2
    <2>2. /\ f \o d \in Seq(S) /\ Len(f \o d) = Len(f) + Len(d) /\ Len(d) \in Nat
          /\ \A k \in 1 .. Len(f) : (f \o d)[k] = f[k]
          /\ \A k \in 1 .. Len(d) : (f \o d)[Len(f) + k] = d[k]
      BY <2>1, Joined
    <2>3. QED
      BY <1>4, <2>2
  <1>5. Len(r) = Len(a) + Len(b) + Len(c) + Len(d)
    BY <1>1, <1>2, <1>3
  <1>6. ASSUME NEW k \in 1 .. Len(a) PROVE r[k] = a[k]
    <2>1. k \in 1 .. Len(e) /\ k \in 1 .. Len(f)
      BY <1>1, <1>2
    <2>2. QED
      BY <1>1, <1>2, <1>3, <2>1
  <1>7. ASSUME NEW k \in 1 .. Len(b) PROVE r[Len(a) + k] = b[k]
    <2>1. Len(a) + k \in 1 .. Len(e) /\ Len(a) + k \in 1 .. Len(f)
      BY <1>1, <1>2
    <2>2. QED
      BY <1>1, <1>2, <1>3, <2>1
  <1>8. ASSUME NEW k \in 1 .. Len(c) PROVE r[Len(a) + Len(b) + k] = c[k]
    <2>1. Len(e) + k \in 1 .. Len(f) /\ Len(e) + k = Len(a) + Len(b) + k
      BY <1>1, <1>2
    <2>2. QED
      BY <1>2, <1>3, <2>1
  <1>9. ASSUME NEW k \in 1 .. Len(d) PROVE r[Len(a) + Len(b) + Len(c) + k] = d[k]
    <2>1. Len(f) + k = Len(a) + Len(b) + Len(c) + k
      BY <1>1, <1>2
    <2>2. QED
      BY <1>3, <2>1
  <1>10. QED
    BY <1>3, <1>4, <1>5, <1>6, <1>7, <1>8, <1>9

\* Where fields start: in order, and each where the one before it ends.
LEMMA OffsetFacts ==
    ASSUME NEW vs \in Seq(ValueType)
    PROVE  /\ [i \in 1 .. Len(vs) |-> Field(vs[i])] \in Seq(Seq(Byte))
           /\ Len([i \in 1 .. Len(vs) |-> Field(vs[i])]) = Len(vs)
           /\ \A i : OffsetOf(vs, i) = Before([j \in 1 .. Len(vs) |-> Field(vs[j])], i)
           /\ \A i \in 1 .. Len(vs) + 1 : OffsetOf(vs, i) \in Nat
           /\ \A i \in 1 .. Len(vs) : /\ OffsetOf(vs, i + 1) = OffsetOf(vs, i) + Len(Field(vs[i]))
                                      /\ Len(Field(vs[i])) \in Nat
           /\ \A i, j \in 1 .. Len(vs) + 1 : i <= j => OffsetOf(vs, i) <= OffsetOf(vs, j)
  <1> DEFINE n == Len(vs)
             fs == [i \in 1 .. n |-> Field(vs[i])]
  <1>1. n \in Nat /\ DOMAIN vs = 1 .. n /\ \A i \in 1 .. n : vs[i] \in ValueType
    OBVIOUS
  <1>2. \A i \in 1 .. n : Field(vs[i]) \in Seq(Byte)
    BY <1>1, FieldFacts
  <1>3. fs \in Seq(Seq(Byte)) /\ Len(fs) = n /\ DOMAIN fs = 1 .. n
    <2> HIDE DEF n
    <2>1. QED
      BY <1>1, <1>2
  <1>4. \A i \in 1 .. n : fs[i] = Field(vs[i])
    OBVIOUS
  <1>5. \A i : OffsetOf(vs, i) = Before(fs, i)
    <2>1. [j \in DOMAIN vs |-> Len(Field(vs[j]))] = [j \in DOMAIN fs |-> Len(fs[j])]
      <3> HIDE DEF n, fs
      <3>1. QED
        BY <1>1, <1>3, <1>4
    <2>2. QED
      BY <2>1 DEF OffsetOf, Before
  <1> HIDE DEF n, fs
  <1>6. /\ \A i \in 1 .. n + 1 : Before(fs, i) \in Nat
        /\ \A i \in 1 .. n : Before(fs, i + 1) = Before(fs, i) + Len(fs[i]) /\ Len(fs[i]) \in Nat
        /\ \A i, j \in 1 .. n + 1 : i <= j => Before(fs, i) <= Before(fs, j)
    BY <1>3, BeforeFacts
  <1>7. QED
    BY <1>3, <1>4, <1>5, <1>6 DEF n, fs

\* A row that is refused has a value that does not fit, or is too long.
LEMMA RefusalFacts ==
    ASSUME NEW s \in SchemaType, NEW vs \in Seq(ValueType), ~Serializable(s, vs)
    PROVE  \/ Len(vs) # Len(s)
           \/ \E i \in 1 .. Len(s) : ~Compatible(s[i], vs[i])
           \/ HeaderLength(Len(s)) + PayloadSize(vs) > U16Max
  <1> DEFINE n == Len(s)
             size == HeaderLength(n)
             payload == OffsetOf(vs, n + 1)
  <1>1. SUFFICES ASSUME Len(vs) = n, \A i \in 1 .. n : Compatible(s[i], vs[i]),
                        ~(size + payload > U16Max)
                 PROVE  FALSE
    BY DEF PayloadSize
  <1>2. n \in Nat
    BY DEF SchemaType
  <1>3. /\ NullBitmapSize(n) \in Nat /\ size \in Nat /\ size = 2 + NullBitmapSize(n) + 2 * n
    BY <1>2, BitmapFacts
  <1>4. /\ \A i \in 1 .. n + 1 : OffsetOf(vs, i) \in Nat
        /\ \A i \in 1 .. n + 1 : \A j \in 1 .. n + 1 : i <= j => OffsetOf(vs, i) <= OffsetOf(vs, j)
    BY <1>1, OffsetFacts
  <1>5. n + 1 \in 1 .. n + 1 /\ payload \in Nat
    BY <1>2, <1>4
  <1>6. U16Max \in Nat
    BY WidthFacts
  <1>7. ASSUME NEW i \in 1 .. n PROVE OffsetOf(vs, i) <= U16Max
    <2>1. i \in 1 .. n + 1 /\ i <= n + 1
      BY <1>2
    <2>2. OffsetOf(vs, i) <= payload /\ OffsetOf(vs, i) \in Nat
      BY <1>4, <1>5, <2>1
    <2> HIDE DEF size, payload, n
    <2>3. QED
      BY <1>1, <1>3, <1>5, <1>6, <2>2
  <1>8. n <= U16Max /\ size <= U16Max /\ size + payload <= U16Max
    <2> HIDE DEF size, payload, n
    <2>1. QED
      BY <1>1, <1>2, <1>3, <1>5, <1>6
  <1>9. QED
    BY <1>1, <1>7, <1>8 DEF Serializable, PayloadSize

\* A byte of the bitmap tells which of its columns are NULL.
LEMMA NullByteFacts ==
    ASSUME NEW vs \in Seq(ValueType), NEW b \in Nat
    PROVE  /\ NullByte(vs, b) \in Byte
           /\ \A k \in 0 .. ByteBits - 1 :
                 b * ByteBits + k < Len(vs) =>
                    (BitAt(NullByte(vs, b), k) = 1 <=> vs[b * ByteBits + k + 1] = Null)
  <1> DEFINE bits == {k \in 0 .. ByteBits - 1 :
                         b * ByteBits + k < Len(vs) /\ vs[b * ByteBits + k + 1] = Null}
             f == [k \in 0 .. ByteBits - 1 |-> 2 ^ k]
  <1>1. NullByte(vs, b) = SumFunctionOnSet(f, bits)
    BY DEF NullByte
  <1>2. ByteBits \in Nat
    BY ByteAssumption
  <1>3. \A k \in 0 .. ByteBits - 1 : f[k] = 2 ^ k
    OBVIOUS
  <1>4. bits \in SUBSET (0 .. ByteBits - 1)
    OBVIOUS
  <1>5. \A k \in 0 .. ByteBits - 1 : k \in bits <=> /\ b * ByteBits + k < Len(vs)
                                                    /\ vs[b * ByteBits + k + 1] = Null
    OBVIOUS
  <1> HIDE DEF f, bits
  <1>6. /\ SumFunctionOnSet(f, bits) \in 0 .. 2 ^ ByteBits - 1
        /\ BitsAre(SumFunctionOnSet(f, bits), bits, ByteBits)
    BY <1>2, <1>3, <1>4, BitsTold
  <1>7. NullByte(vs, b) \in Byte
    BY <1>1, <1>6 DEF Byte, Base
  <1>8. ASSUME NEW k \in 0 .. ByteBits - 1, b * ByteBits + k < Len(vs)
        PROVE  BitAt(NullByte(vs, b), k) = 1 <=> vs[b * ByteBits + k + 1] = Null
    <2>1. BitAt(NullByte(vs, b), k) = IF k \in bits THEN 1 ELSE 0
      BY <1>1, <1>6 DEF BitsAre
    <2>2. BitAt(NullByte(vs, b), k) = 1 <=> k \in bits
      <3> DEFINE bit == BitAt(NullByte(vs, b), k)
      <3>1. bit = IF k \in bits THEN 1 ELSE 0
        BY <2>1
      <3> HIDE DEF bit
      <3>2. bit = 1 <=> k \in bits
        BY <3>1
      <3>3. QED
        BY <3>2 DEF bit
    <2>3. k \in bits <=> vs[b * ByteBits + k + 1] = Null
      BY <1>5, <1>8
    <2>4. QED
      BY <2>2, <2>3
  <1>9. QED
    BY <1>7, <1>8

\* The layout of a record: column count, bitmap, offsets and fields are where the
\* header says.
LEMMA Layout ==
    ASSUME NEW s \in SchemaType, NEW vs \in Seq(ValueType), Serializable(s, vs)
    PROVE  LET n == Len(s)
               r == Serialize(s, vs)
           IN /\ r \in Seq(Byte) /\ Len(r) = HeaderLength(n) + OffsetOf(vs, n + 1)
              /\ r[1] = U16(n)[1] /\ r[2] = U16(n)[2]
              /\ \A b \in 1 .. NullBitmapSize(n) : r[2 + b] = NullByte(vs, b - 1)
              /\ \A i \in 1 .. n :
                    /\ r[3 + NullBitmapSize(n) + 2 * (i - 1)] = U16(OffsetOf(vs, i))[1]
                    /\ r[4 + NullBitmapSize(n) + 2 * (i - 1)] = U16(OffsetOf(vs, i))[2]
              /\ \A i \in 1 .. n : \A k \in 1 .. Len(Field(vs[i])) :
                    r[HeaderLength(n) + OffsetOf(vs, i) + k] = Field(vs[i])[k]
  <1> DEFINE n == Len(s)
             m == NullBitmapSize(n)
             us == [i \in 1 .. n |-> U16(OffsetOf(vs, i))]
             fs == [i \in 1 .. n |-> Field(vs[i])]
             A == U16(n)
             B == [b \in 1 .. m |-> NullByte(vs, b - 1)]
             C == FlattenSeq(us)
             D == FlattenSeq(fs)
             r == Serialize(s, vs)
  <1>1. n \in Nat /\ Len(vs) = n /\ n \in 0 .. U16Max
        /\ \A i \in 1 .. n : OffsetOf(vs, i) <= U16Max
    <2>1. n \in Nat
      BY DEF SchemaType
    <2>2. Len(vs) = n /\ n <= U16Max /\ \A i \in 1 .. n : OffsetOf(vs, i) <= U16Max
      BY DEF Serializable
    <2>3. U16Max \in Nat
      BY WidthFacts
    <2> HIDE DEF n
    <2>4. QED
      BY <2>1, <2>2, <2>3
  <1>2. m \in Nat /\ HeaderLength(n) = 2 + m + 2 * n
    BY <1>1, BitmapFacts
  <1>3. /\ fs \in Seq(Seq(Byte)) /\ Len(fs) = n
        /\ \A i : OffsetOf(vs, i) = Before(fs, i)
        /\ \A i \in 1 .. n + 1 : OffsetOf(vs, i) \in Nat
    BY <1>1, OffsetFacts
  <1>4. A \in Seq(Byte) /\ Len(A) = 2
    BY <1>1, U16Facts
  <1>5. B \in Seq(Byte) /\ Len(B) = m
    <2>1. \A b \in 1 .. m : b - 1 \in Nat
      BY <1>2
    <2>2. \A b \in 1 .. m : NullByte(vs, b - 1) \in Byte
      BY <2>1, NullByteFacts
    <2> HIDE DEF m
    <2>3. QED
      BY <1>2, <2>2
  <1>6. us \in Seq(Seq(Byte)) /\ Len(us) = n /\ \A i \in 1 .. n : Len(us[i]) = 2
    <2>1. \A i \in 1 .. n : OffsetOf(vs, i) \in 0 .. U16Max
      <3> TAKE i \in 1 .. n
      <3>1. i \in 1 .. n + 1
        BY <1>1
      <3>2. QED
        BY <1>1, <1>3, <3>1
    <2>2. \A i \in 1 .. n : U16(OffsetOf(vs, i)) \in Seq(Byte) /\ Len(U16(OffsetOf(vs, i))) = 2
      BY <2>1, U16Facts
    <2> HIDE DEF n
    <2>3. QED
      BY <1>1, <2>2
  <1>7. r = A \o B \o C \o D
    BY DEF Serialize
  <1>8. /\ C \in Seq(Byte) /\ Len(C) = 2 * n
        /\ \A i \in 1 .. n : C[2 * (i - 1) + 1] = us[i][1] /\ C[2 * (i - 1) + 2] = us[i][2]
        /\ \A i \in 1 .. n : /\ 2 * (i - 1) + 1 \in 1 .. Len(C)
                             /\ 2 * (i - 1) + 2 \in 1 .. Len(C)
    <2> HIDE DEF us, n
    <2>1. /\ C \in Seq(Byte) /\ Len(C) = Before(us, n + 1)
          /\ \A i \in 1 .. n : \A k \in 1 .. Len(us[i]) :
                Before(us, i) + k \in 1 .. Len(C) /\ C[Before(us, i) + k] = us[i][k]
      BY <1>6, Flattened
    <2>2. \A i \in 1 .. n + 1 : Before(us, i) = 2 * (i - 1)
      BY <1>6, PairsBefore
    <2>3. Len(C) = 2 * n
      <3>1. n + 1 \in 1 .. n + 1 /\ (n + 1) - 1 = n
        BY <1>1
      <3>2. QED
        BY <2>1, <2>2, <3>1
    <2>4. ASSUME NEW i \in 1 .. n
          PROVE  /\ C[2 * (i - 1) + 1] = us[i][1] /\ C[2 * (i - 1) + 2] = us[i][2]
                 /\ 2 * (i - 1) + 1 \in 1 .. Len(C)
                 /\ 2 * (i - 1) + 2 \in 1 .. Len(C)
      <3>1. i \in 1 .. n + 1 /\ 1 \in 1 .. Len(us[i]) /\ 2 \in 1 .. Len(us[i])
        <4>1. Len(us[i]) = 2
          BY <1>6
        <4>2. i \in 1 .. n + 1
          BY <1>1
        <4>3. QED
          BY <4>1, <4>2
      <3>2. Before(us, i) = 2 * (i - 1)
        BY <2>2, <3>1
      <3>3. QED
        BY <2>1, <3>1, <3>2
    <2>5. QED
      BY <2>1, <2>3, <2>4
  <1>9. /\ D \in Seq(Byte) /\ Len(D) = OffsetOf(vs, n + 1)
        /\ \A i \in 1 .. n : \A k \in 1 .. Len(Field(vs[i])) :
              /\ OffsetOf(vs, i) + k \in 1 .. Len(D)
              /\ D[OffsetOf(vs, i) + k] = Field(vs[i])[k]
    <2>1. \A i \in 1 .. n : fs[i] = Field(vs[i])
      OBVIOUS
    <2> HIDE DEF fs, n
    <2>2. /\ D \in Seq(Byte) /\ Len(D) = Before(fs, n + 1)
          /\ \A i \in 1 .. n : \A k \in 1 .. Len(fs[i]) :
                Before(fs, i) + k \in 1 .. Len(D) /\ D[Before(fs, i) + k] = fs[i][k]
      BY <1>3, Flattened
    <2>3. QED
      BY <1>3, <2>1, <2>2
  <1> HIDE DEF A, C, D
  <1>10. \A b \in 1 .. m : B[b] = NullByte(vs, b - 1)
    OBVIOUS
  <1> HIDE DEF B
  <1>11. /\ r \in Seq(Byte) /\ Len(r) = Len(A) + Len(B) + Len(C) + Len(D)
         /\ \A k \in 1 .. Len(A) : r[k] = A[k]
         /\ \A k \in 1 .. Len(B) : r[Len(A) + k] = B[k]
         /\ \A k \in 1 .. Len(C) : r[Len(A) + Len(B) + k] = C[k]
         /\ \A k \in 1 .. Len(D) : r[Len(A) + Len(B) + Len(C) + k] = D[k]
    <2>1. A \in Seq(Byte) /\ B \in Seq(Byte) /\ C \in Seq(Byte) /\ D \in Seq(Byte)
      BY <1>4, <1>5, <1>8, <1>9
    <2> HIDE DEF r
    <2>2. QED
      BY <1>7, <2>1, FourJoined
  <1>12. \A i \in 1 .. n : us[i] = U16(OffsetOf(vs, i))
    OBVIOUS
  <1> HIDE DEF m, us, fs, r
  <1>13. Len(r) = HeaderLength(n) + OffsetOf(vs, n + 1)
    BY <1>2, <1>4, <1>5, <1>8, <1>9, <1>11
  <1>14. r[1] = U16(n)[1] /\ r[2] = U16(n)[2]
    <2>1. 1 \in 1 .. Len(A) /\ 2 \in 1 .. Len(A)
      BY <1>4
    <2>2. QED
      BY <1>11, <2>1 DEF A
  <1>15. \A b \in 1 .. m : r[2 + b] = NullByte(vs, b - 1)
    BY <1>4, <1>5, <1>10, <1>11
  <1>16. ASSUME NEW i \in 1 .. n
         PROVE  /\ r[3 + m + 2 * (i - 1)] = U16(OffsetOf(vs, i))[1]
                /\ r[4 + m + 2 * (i - 1)] = U16(OffsetOf(vs, i))[2]
    <2>1. /\ r[Len(A) + Len(B) + (2 * (i - 1) + 1)] = C[2 * (i - 1) + 1]
          /\ r[Len(A) + Len(B) + (2 * (i - 1) + 2)] = C[2 * (i - 1) + 2]
      BY <1>8, <1>11
    <2>2. /\ Len(A) + Len(B) + (2 * (i - 1) + 1) = 3 + m + 2 * (i - 1)
          /\ Len(A) + Len(B) + (2 * (i - 1) + 2) = 4 + m + 2 * (i - 1)
      BY <1>1, <1>2, <1>4, <1>5
    <2>3. QED
      BY <1>8, <1>12, <2>1, <2>2
  <1>17. ASSUME NEW i \in 1 .. n, NEW k \in 1 .. Len(Field(vs[i]))
         PROVE  r[HeaderLength(n) + OffsetOf(vs, i) + k] = Field(vs[i])[k]
    <2>1. r[Len(A) + Len(B) + Len(C) + (OffsetOf(vs, i) + k)] = D[OffsetOf(vs, i) + k]
      BY <1>9, <1>11
    <2>2. i \in 1 .. n + 1 /\ k \in Int
      BY <1>1
    <2>3. OffsetOf(vs, i) \in Nat
      BY <1>3, <2>2
    <2>4. Len(A) + Len(B) + Len(C) + (OffsetOf(vs, i) + k) = HeaderLength(n) + OffsetOf(vs, i) + k
      BY <1>1, <1>2, <1>4, <1>5, <1>8, <2>2, <2>3
    <2>5. QED
      BY <1>9, <2>1, <2>4
  <1>18. QED
    BY <1>11, <1>13, <1>14, <1>15, <1>16, <1>17 DEF m, r

\* RecordCodec::Deserialize gives back what RecordCodec::Serialize has written.
THEOREM RoundTrip ==
    ASSUME NEW s \in SchemaType, NEW vs \in Seq(ValueType), Serializable(s, vs)
    PROVE  /\ Serialize(s, vs) \in Seq(Byte)
           /\ Readable(s, Serialize(s, vs))
           /\ Deserialize(s, Serialize(s, vs)) = vs
  <1> DEFINE n == Len(s)
             m == NullBitmapSize(n)
             L == HeaderLength(n)
             r == Serialize(s, vs)
             Off(i) == OffsetOf(vs, i)
  <1>1. /\ n \in Nat /\ Len(vs) = n /\ DOMAIN vs = 1 .. n /\ n \in 0 .. U16Max
        /\ \A i \in 1 .. n : /\ s[i].type \in {"INTEGER", "VARCHAR", "BOOLEAN"}
                             /\ vs[i] \in ValueType /\ Compatible(s[i], vs[i])
                             /\ Off(i) <= U16Max
    <2>1. n \in Nat /\ DOMAIN s = 1 .. n
      BY DEF SchemaType
    <2>2. \A i \in 1 .. n : s[i].type \in {"INTEGER", "VARCHAR", "BOOLEAN"}
      <3> DEFINE C == [type : {"INTEGER", "VARCHAR", "BOOLEAN"}, length : Nat]
      <3>1. \A c \in C : c.type \in {"INTEGER", "VARCHAR", "BOOLEAN"}
        OBVIOUS
      <3>2. s \in Seq(C)
        BY DEF SchemaType
      <3> HIDE DEF C
      <3>3. \A i \in 1 .. n : s[i] \in C
        BY <3>2
      <3>4. QED
        BY <3>1, <3>3
    <2>3. /\ Len(vs) = n /\ n <= U16Max
          /\ \A i \in 1 .. n : Compatible(s[i], vs[i]) /\ Off(i) <= U16Max
      BY DEF Serializable
    <2>4. DOMAIN vs = 1 .. n /\ \A i \in 1 .. n : vs[i] \in ValueType
      BY <2>3
    <2>5. U16Max \in Nat
      BY WidthFacts
    <2> HIDE DEF n
    <2>6. n \in 0 .. U16Max
      BY <2>1, <2>3, <2>5
    <2>7. QED
      BY <2>1, <2>2, <2>3, <2>4, <2>6
  <1>2. /\ m \in Nat /\ L \in Nat /\ L = 2 + m + 2 * n
        /\ \A i \in 1 .. n : /\ (i - 1) \div ByteBits \in 0 .. m - 1
                             /\ (i - 1) % ByteBits \in 0 .. ByteBits - 1
                             /\ i - 1 = ByteBits * ((i - 1) \div ByteBits) + ((i - 1) % ByteBits)
    BY <1>1, BitmapFacts
  <1>3. /\ \A i \in 1 .. n + 1 : Off(i) \in Nat
        /\ \A i \in 1 .. n : Off(i + 1) = Off(i) + Len(Field(vs[i])) /\ Len(Field(vs[i])) \in Nat
        /\ \A i, j \in 1 .. n + 1 : i <= j => Off(i) <= Off(j)
    BY <1>1, OffsetFacts
  <1>4. /\ r \in Seq(Byte) /\ Len(r) = L + Off(n + 1)
        /\ r[1] = U16(n)[1] /\ r[2] = U16(n)[2]
        /\ \A b \in 1 .. m : r[2 + b] = NullByte(vs, b - 1)
        /\ \A i \in 1 .. n : /\ r[3 + m + 2 * (i - 1)] = U16(Off(i))[1]
                             /\ r[4 + m + 2 * (i - 1)] = U16(Off(i))[2]
        /\ \A i \in 1 .. n : \A k \in 1 .. Len(Field(vs[i])) : r[L + Off(i) + k] = Field(vs[i])[k]
    BY Layout
  <1>5. /\ HeaderComplete(s, r) <=> Len(r) >= 2 /\ ReadU16(r, 1) = n /\ L <= Len(r)
        /\ \A i : StoredOffset(s, r, i) = ReadU16(r, 3 + m + 2 * (i - 1))
        /\ StoredPayload(s, r) = Len(r) - L
        /\ \A i : IsNull(r, i) <=> BitAt(r[3 + (i - 1) \div ByteBits], (i - 1) % ByteBits) = 1
        /\ \A i : End(s, r, i) = IF i < n THEN StoredOffset(s, r, i + 1) ELSE StoredPayload(s, r)
        /\ \A i : FieldSize(s, r, i) = End(s, r, i) - StoredOffset(s, r, i)
    BY DEF HeaderComplete, StoredOffset, StoredPayload, IsNull, BitAt, End, FieldSize
  <1> HIDE DEF r, L, m, n, Off
  <1>6. n + 1 \in 1 .. n + 1 /\ Off(n + 1) \in Nat
    BY <1>1, <1>3
  <1>7. HeaderComplete(s, r)
    <2>1. Len(r) >= 2 /\ L <= Len(r)
      BY <1>1, <1>2, <1>4, <1>6
    <2>2. r[1] = U16(n)[1] /\ r[1 + 1] = U16(n)[2] /\ 1 \in Nat
      BY <1>4
    <2>3. ReadU16(r, 1) = n
      BY <1>1, <2>2, ReadU16Facts
    <2>4. QED
      BY <1>5, <2>1, <2>3
  <1>8. ASSUME NEW i \in 1 .. n PROVE StoredOffset(s, r, i) = Off(i)
    <2> DEFINE at == 3 + m + 2 * (i - 1)
    <2>1. at \in Nat /\ at + 1 = 4 + m + 2 * (i - 1)
      BY <1>1, <1>2
    <2>2. Off(i) \in 0 .. U16Max
      <3>1. i \in 1 .. n + 1
        BY <1>1
      <3>2. QED
        BY <1>1, <1>3, <3>1
    <2>3. r[at] = U16(Off(i))[1] /\ r[at + 1] = U16(Off(i))[2]
      BY <1>4, <2>1
    <2>4. StoredOffset(s, r, i) = ReadU16(r, at)
      BY <1>5
    <2> HIDE DEF at
    <2>5. QED
      BY <2>1, <2>2, <2>3, <2>4, ReadU16Facts
  <1>9. StoredPayload(s, r) = Off(n + 1)
    BY <1>2, <1>4, <1>5, <1>6
  <1>10. ASSUME NEW i \in 1 .. n
         PROVE  /\ End(s, r, i) = Off(i + 1) /\ FieldSize(s, r, i) = Len(Field(vs[i]))
                /\ Off(i) \in Nat /\ Off(i + 1) \in Nat
    <2>1. i \in 1 .. n + 1 /\ i + 1 \in 1 .. n + 1
      BY <1>1
    <2>2. End(s, r, i) = Off(i + 1)
      <3>1. CASE i < n
        <4>1. i + 1 \in 1 .. n
          BY <1>1, <3>1
        <4>2. QED
          BY <1>5, <1>8, <3>1, <4>1
      <3>2. CASE ~(i < n)
        <4>1. i = n
          BY <1>1, <3>2
        <4>2. QED
          BY <1>5, <1>9, <4>1, <3>2
      <3>3. QED
        BY <3>1, <3>2
    <2>3. FieldSize(s, r, i) = Off(i + 1) - Off(i)
      BY <1>5, <1>8, <2>2
    <2>4. Off(i) \in Nat /\ Off(i + 1) \in Nat
      BY <1>3, <2>1
    <2>5. Off(i + 1) = Off(i) + Len(Field(vs[i])) /\ Len(Field(vs[i])) \in Nat
      BY <1>3
    <2>6. QED
      BY <2>2, <2>3, <2>4, <2>5
  <1>11. OffsetsInOrder(s, r)
    <2>1. ASSUME NEW i \in 1 .. n
          PROVE  /\ StoredOffset(s, r, i) <= StoredPayload(s, r)
                 /\ i > 1 => StoredOffset(s, r, i - 1) <= StoredOffset(s, r, i)
      <3>1. i \in 1 .. n + 1 /\ i <= n + 1
        BY <1>1
      <3>2. Off(i) <= Off(n + 1)
        BY <1>3, <1>6, <3>1
      <3>3. ASSUME i > 1 PROVE Off(i - 1) <= Off(i) /\ i - 1 \in 1 .. n
        <4>1. i - 1 \in 1 .. n + 1 /\ i - 1 <= i /\ i - 1 \in 1 .. n
          BY <1>1, <3>3
        <4>2. QED
          BY <1>3, <3>1, <4>1
      <3>4. QED
        BY <1>8, <1>9, <3>2, <3>3
    <2>2. QED
      BY <2>1 DEF OffsetsInOrder, n
  <1>12. ASSUME NEW i \in 1 .. n PROVE IsNull(r, i) <=> vs[i] = Null
    <2> DEFINE b == (i - 1) \div ByteBits
               k == (i - 1) % ByteBits
    <2>1. b \in 0 .. m - 1 /\ k \in 0 .. ByteBits - 1 /\ i - 1 = ByteBits * b + k
      BY <1>2
    <2>2. IsNull(r, i) <=> BitAt(r[3 + b], k) = 1
      BY <1>5
    <2> HIDE DEF b, k
    <2>3. ByteBits \in Nat
      BY ByteAssumption
    <2>4. /\ b + 1 \in 1 .. m /\ 2 + (b + 1) = 3 + b /\ (b + 1) - 1 = b /\ b \in Nat
      BY <1>2, <2>1
    <2>5. r[3 + b] = NullByte(vs, b)
      BY <1>4, <2>4
    <2>6. b * ByteBits + k = i - 1 /\ b * ByteBits + k + 1 = i
      BY <2>1, <2>3, <2>4
    <2>7. b * ByteBits + k < Len(vs)
      BY <1>1, <2>6
    <2>8. BitAt(NullByte(vs, b), k) = 1 <=> vs[b * ByteBits + k + 1] = Null
      BY <2>1, <2>4, <2>7, NullByteFacts
    <2>9. QED
      BY <2>2, <2>5, <2>6, <2>8
  <1>13. ASSUME NEW i \in 1 .. n
         PROVE  \/ vs[i] = Null /\ IsNull(r, i)
                \/ /\ vs[i] # Null /\ ~IsNull(r, i) /\ vs[i].type = s[i].type
                   /\ s[i].type = "INTEGER" => /\ FieldSize(s, r, i) = 4
                                               /\ vs[i].int \in IntMin .. IntMax
                                               /\ vs[i] = IntValue(vs[i].int)
                                               /\ Field(vs[i]) = I32(vs[i].int)
                   /\ s[i].type = "BOOLEAN" => /\ FieldSize(s, r, i) = 1
                                               /\ vs[i].bool \in BOOLEAN
                                               /\ vs[i] = BoolValue(vs[i].bool)
                                               /\ Field(vs[i]) = <<IF vs[i].bool THEN 1 ELSE 0>>
                   /\ s[i].type = "VARCHAR" => /\ FieldSize(s, r, i) = Len(vs[i].text)
                                               /\ vs[i].text \in Seq(Byte)
                                               /\ vs[i] = TextValue(vs[i].text)
                                               /\ Field(vs[i]) = vs[i].text
    <2>1. CASE vs[i] = Null
      BY <1>12, <2>1
    <2>2. CASE vs[i] # Null
      <3>1. ~IsNull(r, i) /\ vs[i].type = s[i].type /\ vs[i] \in ValueType
        BY <1>1, <1>12, <2>2 DEF Compatible
      <3>2. FieldSize(s, r, i) = Len(Field(vs[i]))
        BY <1>10
      <3>3. ASSUME s[i].type = "INTEGER"
            PROVE  /\ FieldSize(s, r, i) = 4 /\ vs[i].int \in IntMin .. IntMax
                   /\ vs[i] = IntValue(vs[i].int) /\ Field(vs[i]) = I32(vs[i].int)
        BY <2>2, <3>1, <3>2, <3>3, ValueKinds, FieldFacts
      <3>4. ASSUME s[i].type = "BOOLEAN"
            PROVE  /\ FieldSize(s, r, i) = 1 /\ vs[i].bool \in BOOLEAN
                   /\ vs[i] = BoolValue(vs[i].bool)
                   /\ Field(vs[i]) = <<IF vs[i].bool THEN 1 ELSE 0>>
        BY <2>2, <3>1, <3>2, <3>4, ValueKinds, FieldFacts
      <3>5. ASSUME s[i].type = "VARCHAR"
            PROVE  /\ FieldSize(s, r, i) = Len(vs[i].text) /\ vs[i].text \in Seq(Byte)
                   /\ vs[i] = TextValue(vs[i].text) /\ Field(vs[i]) = vs[i].text
        BY <2>2, <3>1, <3>2, <3>5, ValueKinds, FieldFacts
      <3>6. QED
        BY <2>2, <3>1, <3>3, <3>4, <3>5
    <2>3. QED
      BY <2>1, <2>2
  <1>14. ASSUME NEW i \in 1 .. n PROVE FieldSound(s, r, i)
    <2>1. s[i].type \in {"INTEGER", "VARCHAR", "BOOLEAN"}
      BY <1>1
    <2>2. QED
      BY <1>13, <2>1 DEF FieldSound
  <1>15. ASSUME NEW i \in 1 .. n PROVE ReadField(s, r, i) = vs[i]
    <2> DEFINE at == L + StoredOffset(s, r, i) + 1
    <2>1. ReadField(s, r, i) =
            CASE IsNull(r, i) -> Null
              [] ~IsNull(r, i) /\ s[i].type = "INTEGER" -> IntValue(ReadI32(r, at))
              [] ~IsNull(r, i) /\ s[i].type = "BOOLEAN" -> BoolValue(r[at] # 0)
              [] ~IsNull(r, i) /\ s[i].type = "VARCHAR" ->
                     TextValue(SubSeq(r, at, at + FieldSize(s, r, i) - 1))
      BY DEF ReadField, L, n
    <2>2. at = L + Off(i) + 1 /\ at \in Nat
      BY <1>2, <1>8, <1>10
    <2>3. ASSUME NEW k \in 1 .. Len(Field(vs[i])) PROVE r[at + k - 1] = Field(vs[i])[k]
      <3>1. r[L + Off(i) + k] = Field(vs[i])[k]
        BY <1>4
      <3>2. L + Off(i) + k = at + k - 1
        <4> HIDE DEF at
        <4>1. k \in Int /\ Off(i) \in Nat /\ L \in Nat
          BY <1>2, <1>10
        <4>2. QED
          BY <2>2, <4>1
      <3>3. QED
        BY <3>1, <3>2
    <2> HIDE DEF at
    <2>4. CASE vs[i] = Null
      BY <1>12, <2>1, <2>4
    <2>5. CASE vs[i] # Null /\ s[i].type = "INTEGER"
      <3>1. /\ vs[i].int \in IntMin .. IntMax /\ vs[i] = IntValue(vs[i].int)
            /\ Field(vs[i]) = I32(vs[i].int) /\ ~IsNull(r, i)
        BY <1>13, <2>5
      <3>2. Len(I32(vs[i].int)) = 4
        BY <3>1, I32Facts
      <3>3. \A k \in 1 .. 4 : r[at + k - 1] = I32(vs[i].int)[k]
        BY <2>3, <3>1, <3>2
      <3>4. ReadI32(r, at) = vs[i].int
        BY <2>2, <3>1, <3>3, I32Facts
      <3>5. QED
        BY <2>1, <2>5, <3>1, <3>4
    <2>6. CASE vs[i] # Null /\ s[i].type = "BOOLEAN"
      <3>1. /\ vs[i].bool \in BOOLEAN /\ vs[i] = BoolValue(vs[i].bool)
            /\ Field(vs[i]) = <<IF vs[i].bool THEN 1 ELSE 0>> /\ ~IsNull(r, i)
        BY <1>13, <2>6
      <3>2. Len(Field(vs[i])) = 1 /\ Field(vs[i])[1] = IF vs[i].bool THEN 1 ELSE 0
        BY <3>1
      <3>3. at + 1 - 1 = at /\ 1 \in 1 .. Len(Field(vs[i]))
        BY <2>2, <3>2
      <3>4. r[at] = IF vs[i].bool THEN 1 ELSE 0
        BY <2>3, <3>2, <3>3
      <3>5. (r[at] # 0) = vs[i].bool
        BY <3>1, <3>4
      <3>6. QED
        BY <2>1, <2>6, <3>1, <3>5
    <2>7. CASE vs[i] # Null /\ s[i].type = "VARCHAR"
      <3> DEFINE t == vs[i].text
      <3>1. /\ t \in Seq(Byte) /\ vs[i] = TextValue(t) /\ Field(vs[i]) = t
            /\ FieldSize(s, r, i) = Len(t) /\ ~IsNull(r, i)
        BY <1>13, <2>7
      <3>2. SubSeq(r, at, at + Len(t) - 1) = t
        <4> HIDE DEF t
        <4>1. SubSeq(r, at, at + Len(t) - 1)
                 = [k \in 1 .. (at + Len(t) - 1) - at + 1 |-> r[at + k - 1]]
          BY <2>2, <3>1
        <4>2. Len(t) \in Nat /\ (at + Len(t) - 1) - at + 1 = Len(t)
          BY <2>2, <3>1
        <4>3. \A k \in 1 .. Len(t) : r[at + k - 1] = t[k]
          BY <2>3, <3>1
        <4>4. t = [k \in 1 .. Len(t) |-> t[k]]
          BY <3>1
        <4>5. QED
          BY <4>1, <4>2, <4>3, <4>4
      <3>3. QED
        BY <2>1, <2>7, <3>1, <3>2
    <2>8. QED
      BY <1>1, <2>4, <2>5, <2>6, <2>7
  <1>16. Deserialize(s, r) = vs
    <2>1. Deserialize(s, r) = [i \in 1 .. n |-> ReadField(s, r, i)]
      BY DEF Deserialize, n
    <2>2. vs = [i \in 1 .. n |-> vs[i]]
      BY <1>1
    <2>3. QED
      BY <1>15, <2>1, <2>2
  <1>17. Readable(s, r)
    BY <1>7, <1>11, <1>14 DEF Readable, n
  <1>18. QED
    BY <1>4, <1>16, <1>17 DEF r

-----------------------------------------------------------------------------
(* The invariant: rows and records are what their types say, and a row     *)
(* that was written can be read again.                                     *)
CodecTypeOK == schema \in SchemaType /\ values \in Seq(ValueType) /\ record \in Seq(Byte)

CodecInv == CodecTypeOK /\ RowsSurvive

\* What a projection selects has the types of what it is selected from.
LEMMA SelectedFacts ==
    ASSUME NEW S, NEW q \in Seq(S), NEW len \in Nat, NEW n \in Nat,
           NEW columns \in [1 .. n -> 1 .. len], Len(q) = len
    PROVE  Selected(q, columns) \in Seq(S) /\ Len(Selected(q, columns)) = n
  <1>1. Len(columns) = n
    OBVIOUS
  <1>2. \A i \in 1 .. n : q[columns[i]] \in S
    OBVIOUS
  <1>3. QED
    BY <1>1, <1>2 DEF Selected

\* Every row starts sound.
LEMMA CodecInitInv == CodecInit => CodecInv
  <1> SUFFICES ASSUME CodecInit PROVE CodecInv
    OBVIOUS
  <1>1. schema \in Schemas /\ schema \in SchemaType
    BY CodecAssumption DEF CodecInit
  <1>2. /\ <<>> \in Seq(ValueType) /\ <<>> \in Seq(Byte)
        /\ RowsFor(schema) \subseteq Seq(ValueType) /\ RecordsFor(schema) \subseteq Seq(Byte)
    BY <1>1, CodecAssumption
  <1>3. CodecTypeOK
    BY <1>1, <1>2 DEF CodecInit, CodecTypeOK
  <1>4. RowsSurvive
    BY DEF CodecInit, RowsSurvive
  <1>5. QED
    BY <1>3, <1>4 DEF CodecInv

\* A row is written.
LEMMA WriteRowKeeps ==
    ASSUME CodecInv, WriteRow
    PROVE  CodecInv'
  <1>1. /\ schema \in SchemaType /\ values \in Seq(ValueType) /\ record \in Seq(Byte)
        /\ schema' = schema /\ values' = values
    BY DEF CodecInv, CodecTypeOK, WriteRow
  <1>2. CASE Serializable(schema, values)
    <2>1. record' = Serialize(schema, values) /\ stage' = "written"
      BY <1>2 DEF WriteRow
    <2>2. /\ Serialize(schema, values) \in Seq(Byte)
          /\ Readable(schema, Serialize(schema, values))
          /\ Deserialize(schema, Serialize(schema, values)) = values
      BY <1>1, <1>2, RoundTrip
    <2>3. QED
      BY <1>1, <2>1, <2>2 DEF CodecInv, CodecTypeOK, RowsSurvive
  <1>3. CASE ~Serializable(schema, values)
    <2>1. record' = record /\ stage' = "refused"
      BY <1>3 DEF WriteRow
    <2>2. \/ Len(values) # Len(schema)
          \/ \E i \in 1 .. Len(schema) : ~Compatible(schema[i], values[i])
          \/ HeaderLength(Len(schema)) + PayloadSize(values) > U16Max
      BY <1>1, <1>3, RefusalFacts
    <2>3. RowsSurvive'
      BY <1>1, <2>1, <2>2 DEF RowsSurvive
    <2>4. QED
      BY <1>1, <2>1, <2>3 DEF CodecInv, CodecTypeOK
  <1>4. QED
    BY <1>2, <1>3

\* A row that was written is read and some of its columns are written again.
LEMMA ProjectKeeps ==
    ASSUME CodecInv, NEW n \in 1 .. MaxProjection, NEW columns \in [1 .. n -> 1 .. Len(schema)],
           Project(columns)
    PROVE  CodecInv'
  <1> DEFINE s == Selected(schema, columns)
             vs == Selected(values, columns)
  <1>1. /\ schema \in SchemaType /\ values \in Seq(ValueType) /\ record \in Seq(Byte)
        /\ Deserialize(schema, record) = values
    BY DEF CodecInv, CodecTypeOK, RowsSurvive, Project
  <1>2. Len(values) = Len(schema) /\ Len(schema) \in Nat /\ n \in Nat
    <2>1. Len(schema) \in Nat
      BY <1>1 DEF SchemaType
    <2>2. Len([i \in 1 .. Len(schema) |-> ReadField(schema, record, i)]) = Len(schema)
      BY <2>1
    <2>3. QED
      BY <1>1, <2>1, <2>2, CodecAssumption DEF Deserialize
  <1>3. s \in SchemaType /\ vs \in Seq(ValueType)
    <2>1. s \in SchemaType
      BY <1>1, <1>2, SelectedFacts DEF SchemaType
    <2>2. QED
      BY <1>1, <1>2, <2>1, SelectedFacts
  <1>4. schema' = s /\ values' = vs
    BY DEF Project
  <1>5. /\ Serializable(s, vs) => record' = Serialize(s, vs) /\ stage' = "projected"
        /\ ~Serializable(s, vs) => record' = record /\ stage' = "refused"
    BY <1>1 DEF Project
  <1> HIDE DEF s, vs
  <1>6. CASE Serializable(s, vs)
    <2>1. /\ Serialize(s, vs) \in Seq(Byte) /\ Readable(s, Serialize(s, vs))
          /\ Deserialize(s, Serialize(s, vs)) = vs
      BY <1>3, <1>6, RoundTrip
    <2>2. QED
      BY <1>3, <1>4, <1>5, <1>6, <2>1 DEF CodecInv, CodecTypeOK, RowsSurvive
  <1>7. CASE ~Serializable(s, vs)
    <2>1. \/ Len(vs) # Len(s)
          \/ \E i \in 1 .. Len(s) : ~Compatible(s[i], vs[i])
          \/ HeaderLength(Len(s)) + PayloadSize(vs) > U16Max
      BY <1>3, <1>7, RefusalFacts
    <2>2. RowsSurvive'
      BY <1>4, <1>5, <1>7, <2>1 DEF RowsSurvive
    <2>3. QED
      BY <1>1, <1>3, <1>4, <1>5, <1>7, <2>2 DEF CodecInv, CodecTypeOK
  <1>8. QED
    BY <1>6, <1>7

\* Every step keeps the invariant.
LEMMA CodecStepInv == CodecInv /\ [CodecNext]_codecVars => CodecInv'
  <1> SUFFICES ASSUME CodecInv, [CodecNext]_codecVars PROVE CodecInv'
    OBVIOUS
  <1>1. CASE WriteRow
    BY <1>1, WriteRowKeeps
  <1>2. CASE \E n \in 1 .. MaxProjection : \E columns \in [1 .. n -> 1 .. Len(schema)] : Project(columns)
    BY <1>2, ProjectKeeps
  <1>3. CASE UNCHANGED codecVars
    BY <1>3 DEF codecVars, CodecInv, CodecTypeOK, RowsSurvive
  <1>4. QED
    BY <1>1, <1>2, <1>3 DEF CodecNext

\* Rows, the records they are written to, and what is projected from them, always have
\* their types, and every record that was written can be read.
THEOREM CodecInvariance == CodecSpec => []CodecInv
  BY CodecInitInv, CodecStepInv, PTL DEF CodecSpec

\* RecordCodec::Serialize and RecordCodec::Deserialize: for every schema and every row,
\* what was written is read again, NULL, the empty text and negative numbers included,
\* directly and through RecordCodec::Project; and only a row that does not fit is refused.
THEOREM WrittenRowsSurvive == CodecSpec => []RowsSurvive
  <1>1. CodecInv => RowsSurvive
    BY DEF CodecInv
  <1>2. QED
    BY <1>1, CodecInvariance, PTL

\* RecordCodec::Deserialize: whatever bytes a record holds, and whatever the schema, no
\* byte behind its end is read.
THEOREM DeserializeStaysInside == CodecSpec => []ReadsInBounds
  <1>1. CodecInv => ReadsInBounds
    BY FieldsInside DEF CodecInv, CodecTypeOK, ReadsInBounds
  <1>2. QED
    BY <1>1, CodecInvariance, PTL

\* IndexKey::Encode: no two values of a row share a key, and every key has room in an
\* entry of a bucket page.
THEOREM KeysAreInjective == CodecSpec => []KeysTellValuesApart
  <1>1. CodecInv => KeysTellValuesApart
    <2> SUFFICES ASSUME CodecInv, NEW i \in 1 .. Len(values), NEW j \in 1 .. Len(values),
                        Encodable(values[i]), Encodable(values[j])
                 PROVE  /\ Encode(values[i]) = Encode(values[j]) <=> values[i] = values[j]
                        /\ Len(Encode(values[i])) <= MaxKeyLength
      BY DEF KeysTellValuesApart
    <2>1. values[i] \in ValueType /\ values[j] \in ValueType
      BY DEF CodecInv, CodecTypeOK
    <2>2. QED
      BY <2>1, KeyFacts
  <1>2. QED
    BY <1>1, CodecInvariance, PTL

(***************************************************************************)
(* The catalog page.                                                       *)
(***************************************************************************)

(* Names in order.                                                         *)

\* std::string's operator< is a strict total order.
LEMMA TextsOrdered ==
    ASSUME NEW s \in Seq(Nat), NEW t \in Seq(Nat), NEW u \in Seq(Nat)
    PROVE  /\ ~TextLess(s, s)
           /\ s # t => TextLess(s, t) \/ TextLess(t, s)
           /\ TextLess(s, t) /\ TextLess(t, u) => TextLess(s, u)
  <1>1. /\ Len(s) \in Nat /\ Len(t) \in Nat /\ Len(u) \in Nat
        /\ \A i \in 1 .. Len(s) : s[i] \in Nat
        /\ \A i \in 1 .. Len(t) : t[i] \in Nat
        /\ \A i \in 1 .. Len(u) : u[i] \in Nat
    OBVIOUS
  <1>2. ~TextLess(s, s)
    BY <1>1 DEF TextLess
  <1>3. ASSUME s # t PROVE TextLess(s, t) \/ TextLess(t, s)
    <2> DEFINE Differ == {i \in Nat \ {0} : \/ i <= Len(s) /\ i <= Len(t) /\ s[i] # t[i]
                                            \/ i <= Len(s) /\ i > Len(t)
                                            \/ i > Len(s) /\ i <= Len(t)}
    <2>1. Differ # {}
      <3>1. SUFFICES ASSUME Differ = {} PROVE s = t
        BY <1>3
      <3>2. Len(s) = Len(t)
        <4>1. CASE Len(s) < Len(t)
          BY <1>1, <3>1, <4>1, Len(t) \in Differ
        <4>2. CASE Len(t) < Len(s)
          BY <1>1, <3>1, <4>2, Len(s) \in Differ
        <4>3. QED
          BY <1>1, <4>1, <4>2
      <3>3. ASSUME NEW i \in 1 .. Len(s) PROVE s[i] = t[i]
        <4>1. i \in Nat \ {0} /\ i <= Len(s) /\ i <= Len(t)
          BY <1>1, <3>2
        <4>2. i \notin Differ
          BY <3>1
        <4>3. QED
          BY <4>1, <4>2
      <3>4. QED
        BY <3>2, <3>3, SameElements
    <2>2. PICK i \in Differ : \A k \in Differ : i <= k
      <3>1. Differ \subseteq Nat
        OBVIOUS
      <3> HIDE DEF Differ
      <3>2. QED
        BY <2>1, <3>1, LeastNatural
    <2>3. \A j \in 1 .. i - 1 : j <= Len(s) /\ j <= Len(t) /\ s[j] = t[j]
      <3>1. SUFFICES ASSUME NEW j \in 1 .. i - 1 PROVE j <= Len(s) /\ j <= Len(t) /\ s[j] = t[j]
        OBVIOUS
      <3>2. j \in Nat \ {0} /\ ~(i <= j)
        OBVIOUS
      <3>3. j \notin Differ
        BY <2>2, <3>2
      <3>4. i <= Len(s) \/ i <= Len(t)
        BY <1>1
      <3>5. QED
        BY <1>1, <3>2, <3>3, <3>4
    <2>4. CASE i <= Len(s) /\ i <= Len(t) /\ s[i] # t[i]
      <3>1. i \in 1 .. Len(s) /\ i \in 1 .. Len(t)
        BY <2>4
      <3>2. s[i] < t[i] \/ t[i] < s[i]
        BY <1>1, <2>4, <3>1
      <3>3. QED
        BY <2>3, <3>1, <3>2 DEF TextLess
    <2>5. CASE i <= Len(s) /\ i > Len(t)
      <3>1. i \in 1 .. Len(s) /\ ~(i <= Len(t))
        BY <1>1, <2>5
      <3>2. QED
        BY <2>3, <3>1 DEF TextLess
    <2>6. CASE i > Len(s) /\ i <= Len(t)
      <3>1. i \in 1 .. Len(t) /\ ~(i <= Len(s))
        BY <1>1, <2>6
      <3>2. QED
        BY <2>3, <3>1 DEF TextLess
    <2>7. QED
      BY <2>4, <2>5, <2>6
  <1>4. ASSUME TextLess(s, t), TextLess(t, u) PROVE TextLess(s, u)
    <2>1. PICK i \in 1 .. Len(t) : /\ \A j \in 1 .. i - 1 : j <= Len(s) /\ s[j] = t[j]
                                   /\ i <= Len(s) => s[i] < t[i]
      BY <1>4 DEF TextLess
    <2>2. PICK k \in 1 .. Len(u) : /\ \A j \in 1 .. k - 1 : j <= Len(t) /\ t[j] = u[j]
                                   /\ k <= Len(t) => t[k] < u[k]
      BY <1>4 DEF TextLess
    <2>3. CASE i <= k
      <3>1. i \in 1 .. Len(u)
        BY <1>1, <2>3
      <3>2. \A j \in 1 .. i - 1 : j <= Len(s) /\ s[j] = u[j]
        BY <2>1, <2>2, <2>3
      <3>3. i <= Len(s) => s[i] < u[i]
        <4>1. CASE i < k
          <5>1. i \in 1 .. k - 1
            BY <4>1
          <5>2. QED
            BY <2>1, <2>2, <5>1
        <4>2. CASE i = k
          BY <1>1, <2>1, <2>2, <4>2
        <4>3. QED
          BY <2>3, <4>1, <4>2
      <3>4. QED
        BY <3>1, <3>2, <3>3 DEF TextLess
    <2>4. CASE k < i
      <3>1. k \in 1 .. i - 1 /\ k <= Len(t)
        BY <1>1, <2>4
      <3>2. s[k] < u[k]
        BY <2>1, <2>2, <3>1
      <3>3. \A j \in 1 .. k - 1 : j <= Len(s) /\ s[j] = u[j]
        BY <2>1, <2>2, <2>4
      <3>4. QED
        BY <3>2, <3>3 DEF TextLess
    <2>5. QED
      BY <2>3, <2>4
  <1>5. QED
    BY <1>2, <1>3, <1>4

\* std::sort: the sorted names are all the names, each once.
LEMMA InOrderFacts ==
    ASSUME NEW keys, IsFiniteSet(keys), keys \subseteq Seq(Nat)
    PROVE  /\ Cardinality(keys) \in Nat
           /\ InOrder(keys) \in [1 .. Cardinality(keys) -> keys]
           /\ \A i, j \in 1 .. Cardinality(keys) : InOrder(keys)[i] = InOrder(keys)[j] => i = j
           /\ \A k \in keys : \E i \in 1 .. Cardinality(keys) : InOrder(keys)[i] = k
  <1> DEFINE n == Cardinality(keys)
             Less(k) == {x \in keys : TextLess(x, k)}
             rank == [k \in keys |-> Cardinality(Less(k)) + 1]
             Sorted(s) == /\ s \in [1 .. n -> keys]
                          /\ \A i, j \in 1 .. n : i < j => TextLess(s[i], s[j])
  <1>1. n \in Nat
    BY FS_CardinalityType
  <1>2. IsFiniteSet(1 .. n) /\ Cardinality(1 .. n) = n
    <2>1. Cardinality(1 .. n) = IF 1 > n THEN 0 ELSE n - 1 + 1
      BY <1>1, FS_Interval
    <2>2. IsFiniteSet(1 .. n)
      BY <1>1, FS_Interval
    <2> HIDE DEF n
    <2>3. QED
      BY <1>1, <2>1, <2>2
  <1>3. \A k \in keys : k \in Seq(Nat)
    OBVIOUS
  <1>4. ASSUME NEW k \in keys
        PROVE  IsFiniteSet(Less(k)) /\ Cardinality(Less(k)) \in Nat /\ Cardinality(Less(k)) < n
    <2>1. Less(k) \in SUBSET keys /\ k \notin Less(k)
      BY <1>3, TextsOrdered
    <2>2. IsFiniteSet(Less(k)) /\ Cardinality(Less(k)) <= n /\ Cardinality(Less(k)) # n
      BY <2>1, FS_Subset
    <2>3. Cardinality(Less(k)) \in Nat
      BY <2>2, FS_CardinalityType
    <2> HIDE DEF n, Less
    <2>4. QED
      BY <1>1, <2>2, <2>3
  <1>5. ASSUME NEW k \in keys, NEW x \in keys, TextLess(x, k)
        PROVE  rank[x] < rank[k]
    <2>1. Less(x) \in SUBSET Less(k)
      <3>1. \A y \in keys : TextLess(y, x) => TextLess(y, k)
        BY <1>3, <1>5, TextsOrdered
      <3>2. QED
        BY <3>1
    <2>2. x \in Less(k) /\ x \notin Less(x)
      BY <1>3, <1>5, TextsOrdered
    <2>3. Cardinality(Less(x)) <= Cardinality(Less(k)) /\ Cardinality(Less(x)) # Cardinality(Less(k))
      <3>1. IsFiniteSet(Less(k)) /\ Less(k) # Less(x)
        BY <1>4, <2>2
      <3> HIDE DEF Less
      <3>2. QED
        BY <2>1, <3>1, FS_Subset
    <2>4. Cardinality(Less(x)) \in Nat /\ Cardinality(Less(k)) \in Nat
      BY <1>4
    <2>5. rank[x] = Cardinality(Less(x)) + 1 /\ rank[k] = Cardinality(Less(k)) + 1
      OBVIOUS
    <2> HIDE DEF Less, rank
    <2>6. QED
      BY <2>3, <2>4, <2>5
  <1>6. rank \in [keys -> 1 .. n]
    <2>1. ASSUME NEW k \in keys PROVE Cardinality(Less(k)) + 1 \in 1 .. n
      <3>1. Cardinality(Less(k)) \in Nat /\ Cardinality(Less(k)) < n
        BY <1>4
      <3> HIDE DEF Less, n
      <3>2. QED
        BY <1>1, <3>1
    <2> HIDE DEF Less, n
    <2>2. QED
      BY <2>1
  <1> HIDE DEF rank, Less, n
  <1>7. \A k, x \in keys : k # x => rank[x] # rank[k]
    <2>1. SUFFICES ASSUME NEW k \in keys, NEW x \in keys, k # x PROVE rank[x] # rank[k]
      OBVIOUS
    <2>2. TextLess(k, x) \/ TextLess(x, k)
      BY <1>3, <2>1, TextsOrdered
    <2>3. rank[k] < rank[x] \/ rank[x] < rank[k]
      BY <1>5, <2>2
    <2>4. rank[k] \in Int /\ rank[x] \in Int
      BY <1>1, <1>6
    <2>5. QED
      BY <2>3, <2>4
  <1>8. rank \in Injection(keys, 1 .. n)
    BY <1>6, <1>7 DEF Injection, IsInjective
  <1>9. rank \in Surjection(keys, 1 .. n)
    BY <1>2, <1>8, FS_Injection DEF n
  <1>10. PICK s : s \in [1 .. n -> keys] /\ \A i \in 1 .. n : rank[s[i]] = i
    <2> DEFINE t == [i \in 1 .. n |-> CHOOSE k \in keys : rank[k] = i]
    <2>1. \A i \in 1 .. n : \E k \in keys : rank[k] = i
      BY <1>9 DEF Surjection
    <2>2. t \in [1 .. n -> keys] /\ \A i \in 1 .. n : rank[t[i]] = i
      BY <2>1
    <2>3. QED
      BY <2>2
  <1>11. Sorted(s)
    <2>1. SUFFICES ASSUME NEW i \in 1 .. n, NEW j \in 1 .. n, i < j
                   PROVE  TextLess(s[i], s[j])
      BY <1>10
    <2>2. rank[s[i]] = i /\ rank[s[j]] = j /\ s[i] \in keys /\ s[j] \in keys
      BY <1>10
    <2>3. s[i] # s[j] /\ ~(rank[s[j]] < rank[s[i]])
      BY <1>1, <2>1, <2>2
    <2>4. QED
      BY <1>3, <1>5, <2>2, <2>3, TextsOrdered
  <1>12. Sorted(InOrder(keys))
    <2>1. InOrder(keys) = CHOOSE z \in [1 .. n -> keys] :
                             \A i, j \in DOMAIN z : i < j => TextLess(z[i], z[j])
      BY DEF InOrder, n
    <2>2. s \in [1 .. n -> keys] /\ \A i, j \in DOMAIN s : i < j => TextLess(s[i], s[j])
      BY <1>10, <1>11
    <2>3. QED
      BY <2>1, <2>2
  <1> DEFINE z == InOrder(keys)
  <1>13. \A i, j \in 1 .. n : i # j => z[i] # z[j]
    <2>1. SUFFICES ASSUME NEW i \in 1 .. n, NEW j \in 1 .. n, i # j PROVE z[i] # z[j]
      OBVIOUS
    <2>2. i < j \/ j < i
      BY <1>1, <2>1
    <2>3. z[i] \in keys /\ z[j] \in keys /\ (TextLess(z[i], z[j]) \/ TextLess(z[j], z[i]))
      BY <1>12, <2>2
    <2>4. QED
      BY <1>3, <2>3, TextsOrdered
  <1>14. z \in Injection(1 .. n, keys)
    BY <1>12, <1>13 DEF Injection, IsInjective
  <1>15. z \in Surjection(1 .. n, keys)
    BY <1>2, <1>14, FS_Injection DEF n
  <1>16. \A k \in keys : \E i \in 1 .. n : z[i] = k
    BY <1>15 DEF Surjection
  <1>17. QED
    BY <1>1, <1>12, <1>13, <1>16 DEF n

(* The n elements of a set, one after the other.                           *)
IsListOf(s, n, S) == /\ s \in [1 .. n -> S]
                     /\ \A i, j \in 1 .. n : s[i] = s[j] => i = j
                     /\ \A x \in S : \E i \in 1 .. n : s[i] = x

\* A sum over a set is the sum over any list of its elements without repetition.
LEMMA SumOfList ==
    ASSUME NEW n \in Nat, NEW S, NEW s, IsListOf(s, n, S),
           NEW f, \A x \in S : f[x] \in Nat,
           NEW h, \A i \in 1 .. n : h[i] = f[s[i]]
    PROVE  SumFunctionOnSet(h, 1 .. n) = SumFunctionOnSet(f, S)
  <1> DEFINE T(k) == {s[i] : i \in 1 .. k}
             Sums(k) == SumFunctionOnSet(h, 1 .. k) = SumFunctionOnSet(f, T(k))
             Bad == {k \in 0 .. n : ~Sums(k)}
  <1>1. /\ s \in [1 .. n -> S]
        /\ \A i, j \in 1 .. n : s[i] = s[j] => i = j
        /\ \A x \in S : \E i \in 1 .. n : s[i] = x
    BY DEF IsListOf
  <1>2. \A j \in 1 .. n : h[j] = f[s[j]] /\ h[j] \in Nat /\ s[j] \in S
    BY <1>1
  <1>3. T(n) = S /\ \A k \in 0 .. n : T(k) \subseteq S
    <2>1. ASSUME NEW k \in 0 .. n PROVE T(k) \subseteq S
      <3>1. \A i \in 1 .. k : i \in 1 .. n
        OBVIOUS
      <3>2. QED
        BY <1>2, <3>1
    <2>2. n \in 0 .. n
      OBVIOUS
    <2>3. QED
      BY <1>1, <2>1, <2>2
  <1>4. \A k \in 0 .. n : IsFiniteSet(T(k))
    <2>1. SUFFICES ASSUME NEW k \in 0 .. n PROVE IsFiniteSet(T(k))
      OBVIOUS
    <2>2. IsFiniteSet(1 .. k)
      BY FS_Interval
    <2> DEFINE g == [i \in 1 .. k |-> s[i]]
    <2>3. g \in Surjection(1 .. k, T(k))
      BY DEF Surjection
    <2> HIDE DEF g, T
    <2>4. QED
      BY <2>2, <2>3, FS_Surjection
  <1>5. /\ SumFunctionOnSet(h, 1 .. 0) = 0
        /\ \A k \in 1 .. n : SumFunctionOnSet(h, 1 .. k) = SumFunctionOnSet(h, 1 .. k - 1) + h[k]
        /\ \A k \in 0 .. n : SumFunctionOnSet(h, 1 .. k) \in Nat
    <2>1. \A j \in 1 .. n : h[j] \in Nat
      BY <1>2
    <2>2. QED
      BY <2>1, PrefixSums
  <1>6. Bad = {}
    <2>1. SUFFICES ASSUME Bad # {} PROVE FALSE
      OBVIOUS
    <2>2. PICK k \in Bad : \A x \in Bad : k <= x
      <3> HIDE DEF Sums
      <3>1. Bad \subseteq Nat
        OBVIOUS
      <3> HIDE DEF Bad
      <3>2. QED
        BY <2>1, <3>1, LeastNatural
    <2>3. CASE k = 0
      <3>1. 1 .. 0 = {} /\ T(0) = {}
        OBVIOUS
      <3>2. SumFunctionOnSet(f, {}) = 0
        BY FS_EmptySet, SumUnfolds
      <3> HIDE DEF T
      <3>3. QED
        BY <1>5, <2>2, <2>3, <3>1, <3>2
    <2>4. CASE k # 0
      <3>1. k \in 1 .. n /\ k - 1 \in 0 .. n /\ ~(k <= k - 1)
        BY <2>2, <2>4
      <3>2. Sums(k - 1)
        BY <2>2, <3>1
      <3>3. s[k] \in T(k) /\ T(k) \ {s[k]} = T(k - 1)
        <4>1. \A i \in 1 .. k - 1 : i \in 1 .. n /\ s[i] # s[k]
          BY <1>1, <3>1
        <4>2. \A i \in 1 .. k : i = k \/ i \in 1 .. k - 1
          BY <3>1
        <4>3. k \in 1 .. k /\ \A i \in 1 .. k - 1 : i \in 1 .. k
          BY <3>1
        <4>4. QED
          BY <4>1, <4>2, <4>3
      <3>4. \A x \in T(k) : f[x] \in Nat
        BY <1>3, <2>2
      <3>5. IsFiniteSet(T(k))
        BY <1>4, <2>2
      <3>6. f[s[k]] = h[k] /\ h[k] \in Nat
        BY <1>2, <3>1
      <3> HIDE DEF T
      <3>7. SumFunctionOnSet(f, T(k)) = f[s[k]] + SumFunctionOnSet(f, T(k) \ {s[k]})
        BY <3>3, <3>4, <3>5, SumTakeOut
      <3>8. SumFunctionOnSet(h, 1 .. k) = SumFunctionOnSet(h, 1 .. k - 1) + h[k]
            /\ SumFunctionOnSet(h, 1 .. k - 1) \in Nat
        BY <1>5, <3>1
      <3>9. Sums(k)
        <4>1. SumFunctionOnSet(f, T(k)) = h[k] + SumFunctionOnSet(f, T(k - 1))
          BY <3>3, <3>6, <3>7
        <4>2. SumFunctionOnSet(h, 1 .. k - 1) = SumFunctionOnSet(f, T(k - 1))
          BY <3>2
        <4> DEFINE a == SumFunctionOnSet(f, T(k - 1))
        <4>3. a \in Nat /\ SumFunctionOnSet(h, 1 .. k) = a + h[k]
          BY <3>8, <4>2
        <4>4. a + h[k] = h[k] + a
          BY <3>6, <4>3
        <4>5. QED
          BY <4>1, <4>3, <4>4
      <3>10. QED
        BY <2>2, <3>9
    <2>5. QED
      BY <2>3, <2>4
  <1>7. Sums(n)
    <2>1. n \in 0 .. n
      OBVIOUS
    <2>2. QED
      BY <1>6, <2>1
  <1>8. QED
    BY <1>3, <1>7

-----------------------------------------------------------------------------
(* Where the parts of the page are.                                        *)

(* The starts of n parts, the next one from the one before it.             *)
StartsOf(f, size, first, n) ==
    f = [i \in 1 .. n + 1 |-> IF i = 1 THEN first ELSE f[i - 1] + size[f[i - 1]]]

\* There is such a list.
LEMMA StartsExist ==
    ASSUME NEW size, NEW first, NEW n \in Nat
    PROVE  \E f : StartsOf(f, size, first, n)
  <1> DEFINE Bad == {m \in Nat : ~ \E f : StartsOf(f, size, first, m)}
  <1>1. SUFFICES ASSUME Bad # {} PROVE FALSE
    OBVIOUS
  <1>2. PICK m \in Bad : \A x \in Bad : m <= x
    <2> HIDE DEF Bad
    <2>1. Bad \subseteq Nat
      BY DEF Bad
    <2>2. QED
      BY <1>1, <2>1, LeastNatural
  <1>3. m # 0
    <2> DEFINE f == [i \in 1 .. 0 + 1 |-> first]
    <2>1. f = [i \in 1 .. 0 + 1 |-> IF i = 1 THEN first ELSE f[i - 1] + size[f[i - 1]]]
      <3>1. \A i \in 1 .. 0 + 1 : i = 1
        OBVIOUS
      <3>2. QED
        BY <3>1
    <2>2. StartsOf(f, size, first, 0)
      BY <2>1 DEF StartsOf
    <2>3. QED
      BY <2>2
  <1>4. PICK f : StartsOf(f, size, first, m - 1)
    <2>1. m - 1 \in Nat /\ m - 1 \notin Bad
      BY <1>2, <1>3
    <2>2. QED
      BY <2>1
  <1> DEFINE g == [i \in 1 .. m + 1 |-> IF i < m + 1 THEN f[i] ELSE f[m] + size[f[m]]]
  <1>5. ASSUME NEW i \in 1 .. m + 1
        PROVE  g[i] = IF i = 1 THEN first ELSE g[i - 1] + size[g[i - 1]]
    <2>1. CASE i < m + 1
      <3>1. i \in 1 .. (m - 1) + 1 /\ g[i] = f[i]
        BY <1>3, <2>1
      <3>2. f[i] = IF i = 1 THEN first ELSE f[i - 1] + size[f[i - 1]]
        BY <1>4, <3>1 DEF StartsOf
      <3>3. i # 1 => i - 1 \in 1 .. m + 1 /\ i - 1 < m + 1 /\ g[i - 1] = f[i - 1]
        BY <2>1
      <3> HIDE DEF g
      <3>4. QED
        BY <3>1, <3>2, <3>3
    <2>2. CASE i = m + 1
      <3>1. i # 1 /\ i - 1 = m /\ m \in 1 .. m + 1 /\ m < m + 1
        BY <1>3, <2>2
      <3>2. g[i] = f[m] + size[f[m]] /\ g[m] = f[m]
        BY <2>2, <3>1
      <3> HIDE DEF g
      <3>3. QED
        BY <3>1, <3>2
    <2>3. QED
      BY <2>1, <2>2
  <1>6. g = [i \in 1 .. m + 1 |-> IF i = 1 THEN first ELSE g[i - 1] + size[g[i - 1]]]
    <2>1. g = [i \in 1 .. m + 1 |-> g[i]]
      OBVIOUS
    <2> HIDE DEF g
    <2>2. QED
      BY <1>5, <2>1
  <1>7. StartsOf(g, size, first, m)
    BY <1>6 DEF StartsOf
  <1>8. QED
    BY <1>2, <1>7

\* A part starts where the one before it ends.
LEMMA StartsFacts ==
    ASSUME NEW size, NEW first, NEW n \in Nat
    PROVE  /\ Starts(size, first, n)[1] = first
           /\ \A i \in 1 .. n : Starts(size, first, n)[i + 1]
                 = Starts(size, first, n)[i] + size[Starts(size, first, n)[i]]
  <1> DEFINE s == Starts(size, first, n)
  <1>1. s = CHOOSE f : f = [i \in 1 .. n + 1 |-> IF i = 1 THEN first ELSE f[i - 1] + size[f[i - 1]]]
    BY DEF Starts
  <1>2. \E f : f = [i \in 1 .. n + 1 |-> IF i = 1 THEN first ELSE f[i - 1] + size[f[i - 1]]]
    <2>1. PICK g : StartsOf(g, size, first, n)
      BY StartsExist
    <2>2. QED
      BY <2>1 DEF StartsOf
  <1> HIDE DEF s
  <1>3. s = [i \in 1 .. n + 1 |-> IF i = 1 THEN first ELSE s[i - 1] + size[s[i - 1]]]
    BY <1>1, <1>2
  <1>4. \A i \in 1 .. n + 1 : s[i] = IF i = 1 THEN first ELSE s[i - 1] + size[s[i - 1]]
    BY <1>3
  <1>5. s[1] = first
    <2>1. 1 \in 1 .. n + 1
      OBVIOUS
    <2>2. QED
      BY <1>4, <2>1
  <1>6. ASSUME NEW i \in 1 .. n PROVE s[i + 1] = s[i] + size[s[i]]
    <2>1. i + 1 \in 1 .. n + 1 /\ i + 1 # 1 /\ (i + 1) - 1 = i
      OBVIOUS
    <2>2. QED
      BY <1>4, <2>1
  <1>7. QED
    BY <1>5, <1>6 DEF s

\* Where the parts start if they are as large as the pieces of a sequence.
LEMMA StartsOfPieces ==
    ASSUME NEW S, NEW ss \in Seq(Seq(S)), NEW size, NEW first \in Nat,
           \A i \in 1 .. Len(ss) : size[first + Before(ss, i)] = Len(ss[i])
    PROVE  \A i \in 1 .. Len(ss) + 1 : Starts(size, first, Len(ss))[i] = first + Before(ss, i)
  <1> DEFINE n == Len(ss)
             s == Starts(size, first, n)
             Bad == {i \in 1 .. n + 1 : s[i] # first + Before(ss, i)}
  <1>1. n \in Nat
    OBVIOUS
  <1>2. s[1] = first /\ \A i \in 1 .. n : s[i + 1] = s[i] + size[s[i]]
    BY <1>1, StartsFacts
  <1> HIDE DEF s
  <1>3. Bad = {}
    <2>1. SUFFICES ASSUME Bad # {} PROVE FALSE
      OBVIOUS
    <2>2. PICK i \in Bad : \A x \in Bad : i <= x
      <3>1. Bad \subseteq Nat
        OBVIOUS
      <3> HIDE DEF Bad
      <3>2. QED
        BY <2>1, <3>1, LeastNatural
    <2>3. CASE i = 1
      <3>1. Before(ss, 1) = 0
        BY BeforeFacts
      <3>2. QED
        BY <1>2, <2>2, <2>3, <3>1
    <2>4. CASE i # 1
      <3> DEFINE j == i - 1
      <3>1. j \in 1 .. n /\ j \in 1 .. n + 1 /\ j + 1 = i /\ ~(i <= j)
        BY <1>1, <2>2, <2>4
      <3>2. s[j] = first + Before(ss, j)
        BY <2>2, <3>1
      <3>3. Before(ss, j) \in Nat /\ Before(ss, j + 1) = Before(ss, j) + Len(ss[j]) /\ Len(ss[j]) \in Nat
        BY <3>1, BeforeFacts
      <3>4. s[j + 1] = first + Before(ss, j) + Len(ss[j])
        BY <1>2, <3>1, <3>2
      <3> HIDE DEF j
      <3>5. s[j + 1] = first + Before(ss, j + 1)
        BY <3>3, <3>4
      <3>6. QED
        BY <2>2, <3>1, <3>5
    <2>5. QED
      BY <2>3, <2>4
  <1>4. QED
    BY <1>3 DEF s

\* Where parts of any size start.
LEMMA StartsSum ==
    ASSUME NEW size, NEW first \in Nat, NEW n \in Nat,
           NEW h, \A i \in 1 .. n : h[i] = size[Starts(size, first, n)[i]],
           \A i \in 1 .. n : h[i] \in Nat
    PROVE  Starts(size, first, n)[n + 1] = first + SumFunctionOnSet(h, 1 .. n)
  <1> DEFINE s == Starts(size, first, n)
             Sum(k) == SumFunctionOnSet(h, 1 .. k)
             Bad == {k \in 0 .. n : s[k + 1] # first + Sum(k)}
  <1>1. s[1] = first /\ \A i \in 1 .. n : s[i + 1] = s[i] + size[s[i]]
    BY StartsFacts
  <1>2. \A i \in 1 .. n : h[i] = size[s[i]] /\ h[i] \in Nat
    OBVIOUS
  <1> HIDE DEF s
  <1>3. /\ Sum(0) = 0
        /\ \A k \in 0 .. n : Sum(k) \in Nat
        /\ \A k \in 1 .. n : Sum(k) = Sum(k - 1) + h[k]
    BY <1>2, PrefixSums
  <1> HIDE DEF Sum
  <1>4. Bad = {}
    <2>1. SUFFICES ASSUME Bad # {} PROVE FALSE
      OBVIOUS
    <2>2. PICK k \in Bad : \A x \in Bad : k <= x
      <3>1. Bad \subseteq Nat
        OBVIOUS
      <3> HIDE DEF Bad
      <3>2. QED
        BY <2>1, <3>1, LeastNatural
    <2>3. CASE k = 0
      BY <1>1, <1>3, <2>2, <2>3
    <2>4. CASE k # 0
      <3> DEFINE j == k - 1
      <3>1. k \in 1 .. n /\ j \in 0 .. n /\ j + 1 = k /\ ~(k <= j)
        BY <2>2, <2>4
      <3>2. s[k] = first + Sum(j)
        BY <2>2, <3>1
      <3>3. s[k + 1] = s[k] + h[k] /\ Sum(k) = Sum(j) + h[k] /\ Sum(j) \in Nat /\ h[k] \in Nat
        BY <1>1, <1>2, <1>3, <3>1
      <3> HIDE DEF j
      <3>4. s[k + 1] = first + Sum(k)
        BY <3>2, <3>3
      <3>5. QED
        BY <2>2, <3>4
    <2>5. QED
      BY <2>3, <2>4
  <1>5. QED
    <2>1. n \in 0 .. n
      OBVIOUS
    <2>2. QED
      BY <1>4, <2>1 DEF Sum, s

(* The page holds the sequence a from cell at on.                          *)
LiesAt(a, at) == \A k \in 1 .. Len(a) : at + k - 1 \in DOMAIN cells /\ cells[at + k - 1] = a[k]

\* Of two sequences one after the other, each lies where it should.
LEMMA PartsLie ==
    ASSUME NEW S, NEW a \in Seq(S), NEW b \in Seq(S), NEW at \in Nat, LiesAt(a \o b, at)
    PROVE  LiesAt(a, at) /\ LiesAt(b, at + Len(a))
  <1>1. /\ a \o b \in Seq(S) /\ Len(a \o b) = Len(a) + Len(b)
        /\ Len(a) \in Nat /\ Len(b) \in Nat
        /\ \A k \in 1 .. Len(a) : (a \o b)[k] = a[k]
        /\ \A k \in 1 .. Len(b) : (a \o b)[Len(a) + k] = b[k]
    BY Joined
  <1>2. ASSUME NEW k \in 1 .. Len(a) PROVE at + k - 1 \in DOMAIN cells /\ cells[at + k - 1] = a[k]
    <2>1. k \in 1 .. Len(a \o b)
      BY <1>1
    <2>2. QED
      BY <1>1, <2>1 DEF LiesAt
  <1>3. ASSUME NEW k \in 1 .. Len(b)
        PROVE  at + Len(a) + k - 1 \in DOMAIN cells /\ cells[at + Len(a) + k - 1] = b[k]
    <2>1. Len(a) + k \in 1 .. Len(a \o b) /\ at + (Len(a) + k) - 1 = at + Len(a) + k - 1
      BY <1>1
    <2>2. QED
      BY <1>1, <2>1 DEF LiesAt
  <1>4. QED
    BY <1>2, <1>3 DEF LiesAt

\* So does each piece of a flattened sequence.
LEMMA PiecesLie ==
    ASSUME NEW S, NEW ss \in Seq(Seq(S)), NEW at \in Nat, LiesAt(FlattenSeq(ss), at)
    PROVE  \A i \in 1 .. Len(ss) : LiesAt(ss[i], at + Before(ss, i))
  <1> DEFINE F == FlattenSeq(ss)
  <1>1. \A i \in 1 .. Len(ss) : \A k \in 1 .. Len(ss[i]) :
           Before(ss, i) + k \in 1 .. Len(F) /\ F[Before(ss, i) + k] = ss[i][k]
    BY Flattened
  <1> HIDE DEF F
  <1>2. ASSUME NEW i \in 1 .. Len(ss), NEW k \in 1 .. Len(ss[i])
        PROVE  /\ at + Before(ss, i) + k - 1 \in DOMAIN cells
               /\ cells[at + Before(ss, i) + k - 1] = ss[i][k]
    <2>1. Before(ss, i) \in Nat /\ k \in Int
      <3>1. i \in 1 .. Len(ss) + 1
        OBVIOUS
      <3>2. QED
        BY <3>1, BeforeFacts
    <2>2. at + (Before(ss, i) + k) - 1 = at + Before(ss, i) + k - 1
      BY <2>1
    <2>3. /\ at + (Before(ss, i) + k) - 1 \in DOMAIN cells
          /\ cells[at + (Before(ss, i) + k) - 1] = F[Before(ss, i) + k]
      BY <1>1 DEF LiesAt, F
    <2>4. QED
      BY <1>1, <2>2, <2>3
  <1>3. QED
    BY <1>2 DEF LiesAt

\* A name is read where it lies.
LEMMA NameLies ==
    ASSUME NEW S, NEW a \in Seq(S), NEW at \in Nat \ {0}, LiesAt(a, at), cells \in Seq(Nat)
    PROVE  NameAt(at, Len(a)) = a
  <1>1. Len(a) \in Nat
    OBVIOUS
  <1>2. NameAt(at, Len(a)) = [k \in 1 .. Len(a) |-> cells[at + k - 1]]
    <2>1. SubSeq(cells, at, at + Len(a) - 1) = [k \in 1 .. (1 + (at + Len(a) - 1) - at) |-> cells[k + at - 1]]
      BY <1>1
    <2>2. 1 + (at + Len(a) - 1) - at = Len(a) /\ \A k \in 1 .. Len(a) : k + at - 1 = at + k - 1
      BY <1>1
    <2>3. QED
      BY <2>1, <2>2 DEF NameAt
  <1>3. NameAt(at, Len(a)) = [k \in 1 .. Len(a) |-> a[k]]
    BY <1>2 DEF LiesAt
  <1>4. a = [k \in 1 .. Len(a) |-> a[k]]
    OBVIOUS
  <1>5. QED
    BY <1>3, <1>4

-----------------------------------------------------------------------------
(* What Persist writes for a column, a table and an index, and what Load   *)
(* reads where it lies.                                                    *)

\* The number a column type is stored as.
TypeNumber(type) == CHOOSE i \in 0 .. 2 : TypeIds[i + 1] = type

\* The cells of a column.
LEMMA ColumnFieldsFacts ==
    ASSUME NEW c \in ColumnType
    PROVE  /\ TypeNumber(c.type) \in 0 .. 2 /\ TypeIds[TypeNumber(c.type) + 1] = c.type
           /\ c.name \in Seq(Nat) /\ Len(c.name) \in Nat \ {0}
           /\ <<Len(c.name), TypeNumber(c.type), 0, c.length>> \in Seq(Nat)
           /\ ColumnFields(c) = <<Len(c.name), TypeNumber(c.type), 0, c.length>> \o c.name
           /\ ColumnFields(c) \in Seq(Nat) /\ Len(ColumnFields(c)) = ColumnCells + Len(c.name)
  <1>1. c.type \in {"INTEGER", "VARCHAR", "BOOLEAN"} /\ c.name \in Names /\ c.length \in Nat
    BY DEF ColumnType
  <1>2. \E i \in 0 .. 2 : TypeIds[i + 1] = c.type
    <2>1. TypeIds[0 + 1] = "INTEGER" /\ TypeIds[1 + 1] = "VARCHAR" /\ TypeIds[2 + 1] = "BOOLEAN"
      BY DEF TypeIds
    <2>2. 0 \in 0 .. 2 /\ 1 \in 0 .. 2 /\ 2 \in 0 .. 2
      OBVIOUS
    <2>3. QED
      BY <1>1, <2>1, <2>2
  <1>3. TypeNumber(c.type) \in 0 .. 2 /\ TypeIds[TypeNumber(c.type) + 1] = c.type
    BY <1>2 DEF TypeNumber
  <1>4. c.name \in Seq(Nat) /\ Len(c.name) \in Nat \ {0}
    BY <1>1 DEF Names
  <1> DEFINE four == <<Len(c.name), TypeNumber(c.type), 0, c.length>>
  <1>5. four \in Seq(Nat) /\ Len(four) = 4
    BY <1>1, <1>3, <1>4
  <1>6. ColumnFields(c) = four \o c.name
    BY DEF ColumnFields, TypeNumber
  <1>7. four \o c.name \in Seq(Nat) /\ Len(four \o c.name) = ColumnCells + Len(c.name)
    <2> DEFINE name == c.name
    <2>1. name \in Seq(Nat)
      BY <1>4
    <2> HIDE DEF four, name
    <2>2. four \o name \in Seq(Nat) /\ Len(four \o name) = Len(four) + Len(name)
      BY <1>5, <2>1, Joined
    <2>3. Len(four \o name) = 4 + Len(name)
      BY <1>5, <2>2
    <2>4. QED
      BY <2>2, <2>3 DEF ColumnCells, name
  <1> HIDE DEF four
  <1>8. QED
    BY <1>3, <1>4, <1>5, <1>6, <1>7 DEF four

\* A column is read where it lies.
LEMMA ColumnLies ==
    ASSUME NEW c \in ColumnType, NEW at \in Nat \ {0}, cells \in Seq(Nat),
           LiesAt(ColumnFields(c), at),
           NEW last \in Nat, at + Len(ColumnFields(c)) - 1 <= last
    PROVE  /\ ColumnSound(at, last) /\ ColumnAt(at) = c
           /\ ColumnSizes[at] = Len(ColumnFields(c))
  <1> DEFINE four == <<Len(c.name), TypeNumber(c.type), 0, c.length>>
  <1>1. /\ TypeNumber(c.type) \in 0 .. 2 /\ TypeIds[TypeNumber(c.type) + 1] = c.type
        /\ c.name \in Seq(Nat) /\ Len(c.name) \in Nat \ {0}
        /\ four \in Seq(Nat) /\ ColumnFields(c) = four \o c.name
        /\ Len(ColumnFields(c)) = ColumnCells + Len(c.name)
    BY ColumnFieldsFacts
  <1>2. Len(four) = 4
    OBVIOUS
  <1>3. LiesAt(four, at) /\ LiesAt(c.name, at + Len(four))
    <2> HIDE DEF four
    <2>1. LiesAt(four \o c.name, at)
      BY <1>1
    <2>2. QED
      BY <1>1, <2>1, PartsLie
  <1>4. /\ at \in DOMAIN cells /\ cells[at] = Len(c.name)
        /\ cells[at + 1] = TypeNumber(c.type) /\ cells[at + 3] = c.length
    <2>1. four[1] = Len(c.name) /\ four[2] = TypeNumber(c.type) /\ four[4] = c.length
      OBVIOUS
    <2> HIDE DEF four
    <2>2. \A k \in 1 .. 4 : at + k - 1 \in DOMAIN cells /\ cells[at + k - 1] = four[k]
      BY <1>2, <1>3 DEF LiesAt
    <2>3. /\ at + 1 - 1 = at /\ at + 2 - 1 = at + 1 /\ at + 4 - 1 = at + 3
          /\ 1 \in 1 .. 4 /\ 2 \in 1 .. 4 /\ 4 \in 1 .. 4
      OBVIOUS
    <2>4. /\ at \in DOMAIN cells /\ cells[at] = four[1]
          /\ cells[at + 1] = four[2] /\ cells[at + 3] = four[4]
      BY <2>2, <2>3
    <2>5. QED
      BY <2>1, <2>4
  <1>5. NameAt(at + ColumnCells, cells[at]) = c.name
    <2>1. LiesAt(c.name, at + ColumnCells) /\ at + ColumnCells \in Nat \ {0}
      BY <1>2, <1>3 DEF ColumnCells
    <2>2. QED
      BY <1>1, <1>4, <2>1, NameLies
  <1>6. ColumnSound(at, last)
    <2>1. at + ColumnCells - 1 <= last /\ at + ColumnCells + Len(c.name) - 1 <= last
      <3>1. Len(ColumnFields(c)) = 4 + Len(c.name) /\ Len(c.name) \in Nat
        BY <1>1 DEF ColumnCells
      <3> DEFINE a == Len(ColumnFields(c))
                 b == Len(c.name)
      <3>2. at + a - 1 <= last /\ a = 4 + b /\ b \in Nat
        BY <3>1
      <3> HIDE DEF a, b
      <3>3. at + 4 - 1 <= last /\ at + 4 + b - 1 <= last
        BY <3>2
      <3>4. QED
        BY <3>3 DEF ColumnCells, b
    <2>2. Len(c.name) > 0
      BY <1>1
    <2>3. QED
      BY <1>1, <1>4, <2>1, <2>2 DEF ColumnSound, FitsIn, NameSound
  <1>7. ColumnAt(at) = c
    <2>1. c = [name |-> c.name, type |-> c.type, length |-> c.length]
      BY DEF ColumnType
    <2>2. QED
      BY <1>1, <1>4, <1>5, <2>1 DEF ColumnAt
  <1>8. ColumnSizes[at] = ColumnCells + Len(c.name)
    BY <1>4 DEF ColumnSizes
  <1>9. QED
    BY <1>1, <1>6, <1>7, <1>8

\* The cells of all columns of a table.
ColumnPieces(t) == [i \in 1 .. Len(t.columns) |-> ColumnFields(t.columns[i])]

\* The cells of a table.
LEMMA TableEntryFacts ==
    ASSUME NEW t \in TableType
    PROVE  /\ t.name \in Seq(Nat) /\ Len(t.name) \in Nat \ {0}
           /\ Len(t.columns) \in Nat /\ \A i \in 1 .. Len(t.columns) : t.columns[i] \in ColumnType
           /\ t.first_page \in Nat \ {0}
           /\ ColumnPieces(t) \in Seq(Seq(Nat)) /\ Len(ColumnPieces(t)) = Len(t.columns)
           /\ TableEntry(t) = <<Len(TableEntry(t))>> \o
                 (<<Len(t.name), Len(t.columns), 0, t.first_page>> \o t.name
                  \o FlattenSeq(ColumnPieces(t)))
           /\ TableEntry(t) \in Seq(Nat)
           /\ Len(TableEntry(t)) = EntryCells + Len(t.name) + Before(ColumnPieces(t), Len(t.columns) + 1)
           /\ Before(ColumnPieces(t), Len(t.columns) + 1) \in Nat
  <1>1. t.name \in Names /\ t.columns \in Seq(ColumnType) /\ t.first_page \in Nat \ {0}
    BY DEF TableType
  <1>2. t.name \in Seq(Nat) /\ Len(t.name) \in Nat \ {0}
    BY <1>1 DEF Names
  <1>3. Len(t.columns) \in Nat /\ \A i \in 1 .. Len(t.columns) : t.columns[i] \in ColumnType
    BY <1>1
  <1> DEFINE P == ColumnPieces(t)
             four == <<Len(t.name), Len(t.columns), 0, t.first_page>>
             fields == four \o t.name \o FlattenSeq(P)
  <1>4. P \in Seq(Seq(Nat)) /\ Len(P) = Len(t.columns)
    <2>1. \A i \in 1 .. Len(t.columns) : ColumnFields(t.columns[i]) \in Seq(Nat)
      BY <1>3, ColumnFieldsFacts
    <2>2. QED
      BY <1>3, <2>1 DEF ColumnPieces
  <1>5. four \in Seq(Nat) /\ Len(four) = 4
    BY <1>1, <1>2, <1>3
  <1>6. FlattenSeq(P) \in Seq(Nat) /\ Len(FlattenSeq(P)) = Before(P, Len(t.columns) + 1)
    <2> HIDE DEF P
    <2>1. QED
      BY <1>4, Flattened
  <1>7. Before(P, Len(t.columns) + 1) \in Nat
    <2>1. Len(P) + 1 \in 1 .. Len(P) + 1
      BY <1>3, <1>4
    <2> HIDE DEF P
    <2>2. QED
      BY <1>4, <2>1, BeforeFacts
  <1>8. TableEntry(t) = <<Len(fields) + 1>> \o fields
    BY DEF TableEntry, WithSize, ColumnPieces
  <1> HIDE DEF four, P
  <1>9. four \o t.name \in Seq(Nat) /\ Len(four \o t.name) = 4 + Len(t.name)
    <2> DEFINE name == t.name
    <2>1. name \in Seq(Nat)
      BY <1>2
    <2> HIDE DEF name
    <2>2. four \o name \in Seq(Nat) /\ Len(four \o name) = Len(four) + Len(name)
      BY <1>5, <2>1, Joined
    <2>3. Len(four \o name) = 4 + Len(name)
      BY <1>5, <2>2
    <2>4. QED
      BY <2>2, <2>3 DEF name
  <1>10. fields \in Seq(Nat) /\ Len(fields) = 4 + Len(t.name) + Before(P, Len(t.columns) + 1)
    <2> DEFINE front == four \o t.name
    <2>1. front \in Seq(Nat) /\ FlattenSeq(P) \in Seq(Nat)
      BY <1>6, <1>9
    <2> HIDE DEF front
    <2>2. front \o FlattenSeq(P) \in Seq(Nat)
          /\ Len(front \o FlattenSeq(P)) = Len(front) + Len(FlattenSeq(P))
      BY <2>1, Joined
    <2>3. QED
      BY <1>6, <1>9, <2>2 DEF front
  <1> HIDE DEF fields
  <1>11. /\ <<Len(fields) + 1>> \o fields \in Seq(Nat)
         /\ Len(<<Len(fields) + 1>> \o fields) = Len(fields) + 1
    <2>1. Len(fields) + 1 \in Nat
      BY <1>10
    <2>2. <<Len(fields) + 1>> \in Seq(Nat) /\ Len(<<Len(fields) + 1>>) = 1
      BY <2>1
    <2>3. QED
      BY <1>10, <2>2, Joined
  <1>12. Len(TableEntry(t)) = EntryCells + Len(t.name) + Before(P, Len(t.columns) + 1)
    BY <1>2, <1>7, <1>8, <1>10, <1>11 DEF EntryCells
  <1>13. TableEntry(t) = <<Len(TableEntry(t))>> \o fields
    BY <1>8, <1>11
  <1>14. QED
    BY <1>1, <1>2, <1>3, <1>4, <1>7, <1>8, <1>11, <1>12, <1>13 DEF P, four, fields

\* The size of an entry, and its fields.
LEMMA EntryLies ==
    ASSUME NEW e \in Nat, NEW fields \in Seq(Nat), NEW at \in Nat, LiesAt(<<e>> \o fields, at)
    PROVE  at \in DOMAIN cells /\ cells[at] = e /\ LiesAt(fields, at + 1)
  <1> DEFINE one == <<e>>
  <1>1. one \in Seq(Nat) /\ Len(one) = 1 /\ one[1] = e
    OBVIOUS
  <1> HIDE DEF one
  <1>2. LiesAt(one \o fields, at)
    BY DEF one
  <1>3. LiesAt(one, at) /\ LiesAt(fields, at + Len(one))
    BY <1>1, <1>2, PartsLie
  <1>4. at \in DOMAIN cells /\ cells[at] = e
    <2>1. 1 \in 1 .. 1 /\ at + 1 - 1 = at
      OBVIOUS
    <2>2. QED
      BY <1>1, <1>3, <2>1 DEF LiesAt
  <1>5. QED
    BY <1>1, <1>3, <1>4

\* The fields begin with four numbers.
LEMMA HeadLies ==
    ASSUME NEW four \in Seq(Nat), Len(four) = 4,
           NEW rest \in Seq(Nat), NEW at \in Nat, LiesAt(four \o rest, at + 1)
    PROVE  /\ cells[at + 1] = four[1] /\ cells[at + 2] = four[2]
           /\ cells[at + 3] = four[3] /\ cells[at + 4] = four[4]
           /\ LiesAt(rest, at + EntryCells)
  <1>1. at + 1 \in Nat
    OBVIOUS
  <1>2. LiesAt(four, at + 1) /\ LiesAt(rest, at + 1 + Len(four))
    BY <1>1, PartsLie
  <1>3. \A k \in 1 .. 4 : cells[at + 1 + k - 1] = four[k]
    BY <1>2 DEF LiesAt
  <1>4. /\ 1 \in 1 .. 4 /\ 2 \in 1 .. 4 /\ 3 \in 1 .. 4 /\ 4 \in 1 .. 4
        /\ at + 1 + 1 - 1 = at + 1 /\ at + 1 + 2 - 1 = at + 2 /\ at + 1 + 3 - 1 = at + 3
        /\ at + 1 + 4 - 1 = at + 4 /\ at + 1 + Len(four) = at + EntryCells
    BY DEF EntryCells
  <1>5. cells[at + 1] = four[1] /\ cells[at + 2] = four[2]
    BY <1>3, <1>4
  <1>6. cells[at + 3] = four[3] /\ cells[at + 4] = four[4]
    BY <1>3, <1>4
  <1>7. QED
    BY <1>2, <1>4, <1>5, <1>6

\* A table is read where it lies.
LEMMA TableLies ==
    ASSUME NEW t \in TableType, NEW at \in Nat \ {0}, cells \in Seq(Nat), cells[5] \in Nat,
           LiesAt(TableEntry(t), at), at + Len(TableEntry(t)) - 1 <= cells[5]
    PROVE  TableSound(at) /\ TableAt(at) = t /\ cells[at] = Len(TableEntry(t))
  <1> DEFINE e == Len(TableEntry(t))
             m == Len(t.name)
             n == Len(t.columns)
             P == ColumnPieces(t)
             F == FlattenSeq(P)
             name == t.name
             page == t.first_page
             front == <<m, n, 0, page>> \o name
             all == Before(P, n + 1)
             end == cells[5]
  <1>1. /\ name \in Seq(Nat) /\ m = Len(name) /\ m \in Nat \ {0}
        /\ n \in Nat /\ \A i \in 1 .. n : t.columns[i] \in ColumnType
        /\ page \in Nat \ {0}
        /\ P \in Seq(Seq(Nat)) /\ Len(P) = n
        /\ TableEntry(t) = <<e>> \o (front \o F)
        /\ e = EntryCells + m + all /\ all \in Nat
    BY TableEntryFacts
  <1>2. \A i \in 1 .. n : P[i] = ColumnFields(t.columns[i])
    BY DEF ColumnPieces
  <1>3. F \in Seq(Nat)
    <2> HIDE DEF P
    <2>1. QED
      BY <1>1, Flattened
  <1>4. at + e - 1 <= end /\ end \in Nat
    OBVIOUS
  <1>5. all = Before(P, n + 1) /\ cells[5] = end
    OBVIOUS
  <1> HIDE DEF e, m, n, P, F, name, page, all, end
  <1>6. m \in Nat /\ m > 0 /\ n \in Nat /\ page \in Nat /\ page > 0 /\ all \in Nat /\ e = 5 + m + all
    BY <1>1 DEF EntryCells
  <1>7. e \in Nat /\ e >= 5 /\ at \in Nat /\ end \in Nat /\ at + e - 1 <= end
    BY <1>6, <1>4
  <1>8. front \in Seq(Nat) /\ Len(front) = 4 + m
    <2>1. <<m, n, 0, page>> \in Seq(Nat) /\ Len(<<m, n, 0, page>>) = 4
      BY <1>6
    <2> DEFINE four == <<m, n, 0, page>>
    <2>2. four \in Seq(Nat) /\ Len(four) = 4 /\ front = four \o name
      BY <2>1
    <2> HIDE DEF four, front
    <2>3. four \o name \in Seq(Nat) /\ Len(four \o name) = Len(four) + Len(name)
      BY <1>1, <2>2, Joined
    <2>4. QED
      BY <1>1, <2>2, <2>3
  <1>9. cells[at] = e /\ LiesAt(front \o F, at + 1)
    <2> HIDE DEF front
    <2>1. front \o F \in Seq(Nat)
      BY <1>3, <1>8, Joined
    <2>2. LiesAt(<<e>> \o (front \o F), at)
      BY <1>1
    <2>3. QED
      BY <1>7, <2>1, <2>2, EntryLies
  <1>10. LiesAt(front, at + 1) /\ LiesAt(F, at + EntryCells + m)
    <2> HIDE DEF front
    <2>1. at + 1 \in Nat /\ at + 1 + (4 + m) = at + EntryCells + m
      BY <1>6, <1>7 DEF EntryCells
    <2>2. LiesAt(front, at + 1) /\ LiesAt(F, at + 1 + Len(front))
      BY <1>3, <1>8, <1>9, <2>1, PartsLie
    <2>3. QED
      BY <1>8, <2>1, <2>2
  <1>11. /\ cells[at + 1] = m /\ cells[at + 2] = n /\ cells[at + 4] = page
        /\ LiesAt(name, at + EntryCells)
    <2> DEFINE four == <<m, n, 0, page>>
    <2>1. four \in Seq(Nat) /\ Len(four) = 4 /\ LiesAt(four \o name, at + 1)
      BY <1>6, <1>10
    <2>2. four[1] = m /\ four[2] = n /\ four[4] = page
      OBVIOUS
    <2> HIDE DEF four
    <2>3. /\ cells[at + 1] = four[1] /\ cells[at + 2] = four[2] /\ cells[at + 4] = four[4]
          /\ LiesAt(name, at + EntryCells)
      BY <1>1, <1>7, <2>1, HeadLies, ZenonT(40)
    <2>4. QED
      BY <2>2, <2>3
  <1> HIDE DEF front
  <1> DEFINE first == at + 5 + m
             last == at + e - 1
             starts == Starts(ColumnSizes, first, n)
  <1>12. NameAt(at + EntryCells, m) = name
    <2>1. at + EntryCells \in Nat \ {0}
      BY <1>7 DEF EntryCells
    <2>2. QED
      BY <1>1, <1>11, <2>1, NameLies
  <1>13. /\ first \in Nat /\ first # 0 /\ last \in Nat /\ last + 1 = first + all /\ last <= end
         /\ at + EntryCells + m = first /\ at + 5 - 1 <= end /\ at + EntryCells + m - 1 <= last
    BY <1>6, <1>7 DEF EntryCells
  <1>14. LastOf(at) = last
    BY <1>9 DEF LastOf
  <1>15. ColumnStarts(at) = starts
    BY <1>11, <1>13 DEF ColumnStarts
  <1> HIDE DEF first, last
  <1>16. ASSUME NEW i \in 1 .. n
         PROVE  /\ ColumnSound(first + Before(P, i), last)
                /\ ColumnAt(first + Before(P, i)) = t.columns[i]
                /\ ColumnSizes[first + Before(P, i)] = Len(P[i])
    <2>1. LiesAt(P[i], first + Before(P, i))
      <3>1. LiesAt(F, first)
        BY <1>10, <1>13
      <3>2. \A j \in 1 .. Len(P) : LiesAt(P[j], first + Before(P, j))
        BY <1>1, <1>13, <3>1, PiecesLie DEF F
      <3>3. QED
        BY <1>1, <3>2
    <2>2. /\ Before(P, i) \in Nat /\ Before(P, i + 1) = Before(P, i) + Len(P[i])
          /\ Len(P[i]) \in Nat /\ Before(P, i + 1) <= all
      <3>1. /\ i \in 1 .. Len(P) + 1 /\ i + 1 \in 1 .. Len(P) + 1 /\ n + 1 \in 1 .. Len(P) + 1
            /\ i + 1 <= n + 1 /\ i \in 1 .. Len(P)
        BY <1>1
      <3>2. QED
        BY <1>1, <1>5, <3>1, BeforeFacts
    <2>3. P[i] = ColumnFields(t.columns[i]) /\ t.columns[i] \in ColumnType
      BY <1>1, <1>2
    <2> DEFINE b == Before(P, i)
               l == Len(P[i])
    <2>4. first + b \in Nat \ {0} /\ first + b + l - 1 <= last
      <3>1. b \in Nat /\ l \in Nat /\ b + l <= all
        BY <2>2
      <3> HIDE DEF b, l
      <3>2. QED
        BY <1>6, <1>13, <3>1
    <2>5. QED
      BY <1>13, <2>1, <2>3, <2>4, ColumnLies
  <1>17. \A i \in 1 .. n + 1 : starts[i] = first + Before(P, i)
    <2>1. \A i \in 1 .. Len(P) : ColumnSizes[first + Before(P, i)] = Len(P[i])
      BY <1>1, <1>16
    <2>2. \A i \in 1 .. Len(P) + 1 : Starts(ColumnSizes, first, Len(P))[i] = first + Before(P, i)
      BY <1>1, <1>13, <2>1, StartsOfPieces, ZenonT(40)
    <2>3. QED
      BY <1>1, <2>2
  <1> HIDE DEF starts
  <1>18. starts[n + 1] = last + 1
    <2>1. n + 1 \in 1 .. n + 1
      BY <1>6
    <2>2. starts[n + 1] = first + all
      BY <1>5, <1>17, <2>1
    <2>3. QED
      BY <1>13, <2>2
  <1>19. \A i \in 1 .. n : ColumnSound(starts[i], last) /\ ColumnAt(starts[i]) = t.columns[i]
    <2>1. \A i \in 1 .. n : i \in 1 .. n + 1
      BY <1>6
    <2>2. \A i \in 1 .. n : starts[i] = first + Before(P, i)
      BY <1>17, <2>1
    <2>3. QED
      BY <1>16, <2>2
  <1>20. EntrySound(at)
    BY <1>5, <1>6, <1>7, <1>9, <1>11, <1>13 DEF EntrySound, FitsIn, EntryCells
  <1>21. NameSound(at + EntryCells, m, last)
    BY <1>6, <1>13 DEF NameSound, FitsIn
  <1>22. TableSound(at)
    BY <1>11, <1>14, <1>15, <1>18, <1>19, <1>20, <1>21 DEF TableSound
  <1>23. TableAt(at) = t
    <2>1. t = [name |-> t.name, columns |-> t.columns, first_page |-> t.first_page]
      BY DEF TableType
    <2>2. t.columns = [i \in 1 .. n |-> t.columns[i]]
      <3>1. t.columns \in Seq(ColumnType)
        BY DEF TableType
      <3>2. QED
        BY <3>1 DEF n
    <2>3. [i \in 1 .. n |-> ColumnAt(starts[i])] = [i \in 1 .. n |-> t.columns[i]]
      BY <1>19
    <2>4. TableAt(at) = [name |-> NameAt(at + EntryCells, m),
                         columns |-> [i \in 1 .. n |-> ColumnAt(starts[i])], first_page |-> page]
      BY <1>11, <1>15 DEF TableAt
    <2>5. QED
      BY <1>12, <2>1, <2>2, <2>3, <2>4 DEF name, page
  <1>24. QED
    BY <1>9, <1>22, <1>23 DEF e

\* The cells of an index.
LEMMA IndexEntryFacts ==
    ASSUME NEW x \in IndexType
    PROVE  /\ x.name \in Seq(Nat) /\ x.table \in Seq(Nat) /\ x.column \in Seq(Nat)
           /\ Len(x.name) \in Nat \ {0} /\ Len(x.table) \in Nat \ {0} /\ Len(x.column) \in Nat \ {0}
           /\ x.header_page \in Nat \ {0}
           /\ IndexEntry(x) = <<Len(IndexEntry(x))>> \o
                 (<<Len(x.name), Len(x.table), Len(x.column), x.header_page>>
                  \o x.name \o x.table \o x.column)
           /\ IndexEntry(x) \in Seq(Nat) /\ Len(IndexEntry(x)) = IndexNeeds(x)
           /\ IndexNeeds(x) \in Nat
  <1>1. x.name \in Names /\ x.table \in Names /\ x.column \in Names /\ x.header_page \in Nat \ {0}
    BY DEF IndexType
  <1>2. /\ x.name \in Seq(Nat) /\ x.table \in Seq(Nat) /\ x.column \in Seq(Nat)
        /\ Len(x.name) \in Nat \ {0} /\ Len(x.table) \in Nat \ {0} /\ Len(x.column) \in Nat \ {0}
    BY <1>1 DEF Names
  <1> DEFINE four == <<Len(x.name), Len(x.table), Len(x.column), x.header_page>>
             a == x.name
             b == x.table
             c == x.column
             fields == four \o a \o b \o c
             size == <<Len(fields) + 1>>
  <1>3. four \in Seq(Nat) /\ Len(four) = 4
    BY <1>1, <1>2
  <1>4. /\ a \in Seq(Nat) /\ b \in Seq(Nat) /\ c \in Seq(Nat)
        /\ Len(a) \in Nat /\ Len(b) \in Nat /\ Len(c) \in Nat
        /\ IndexNeeds(x) = 5 + Len(a) + Len(b) + Len(c)
    BY <1>2 DEF IndexNeeds, EntryCells
  <1>5. IndexEntry(x) = size \o fields
    BY DEF IndexEntry, WithSize
  <1> HIDE DEF four, a, b, c
  <1>6. four \o a \in Seq(Nat) /\ Len(four \o a) = 4 + Len(a)
    <2>1. four \o a \in Seq(Nat) /\ Len(four \o a) = Len(four) + Len(a)
      BY <1>3, <1>4, Joined
    <2>2. QED
      BY <1>3, <2>1
  <1>7. four \o a \o b \in Seq(Nat) /\ Len(four \o a \o b) = 4 + Len(a) + Len(b)
    <2> DEFINE front == four \o a
    <2>1. front \in Seq(Nat) /\ Len(front) = 4 + Len(a)
      BY <1>6
    <2> HIDE DEF front
    <2>2. front \o b \in Seq(Nat) /\ Len(front \o b) = Len(front) + Len(b)
      BY <1>4, <2>1, Joined
    <2>3. QED
      BY <2>1, <2>2 DEF front
  <1>8. fields \in Seq(Nat) /\ Len(fields) = 4 + Len(a) + Len(b) + Len(c)
    <2> DEFINE front == four \o a \o b
    <2>1. front \in Seq(Nat) /\ Len(front) = 4 + Len(a) + Len(b)
      BY <1>7
    <2> HIDE DEF front
    <2>2. front \o c \in Seq(Nat) /\ Len(front \o c) = Len(front) + Len(c)
      BY <1>4, <2>1, Joined
    <2>3. QED
      BY <2>1, <2>2 DEF front
  <1>9. size \in Seq(Nat) /\ Len(size) = 1
    <2>1. Len(fields) + 1 \in Nat
      BY <1>4, <1>8
    <2> HIDE DEF fields
    <2>2. QED
      BY <2>1
  <1> HIDE DEF fields, size
  <1>10. size \o fields \in Seq(Nat) /\ Len(size \o fields) = Len(size) + Len(fields)
    BY <1>8, <1>9, Joined
  <1>11. Len(size \o fields) = Len(fields) + 1 /\ Len(size \o fields) = IndexNeeds(x)
    BY <1>4, <1>8, <1>9, <1>10
  <1>12. IndexNeeds(x) \in Nat
    BY <1>4
  <1>13. IndexEntry(x) = <<Len(IndexEntry(x))>> \o fields
    BY <1>5, <1>11 DEF size
  <1>14. QED
    BY <1>1, <1>2, <1>5, <1>10, <1>11, <1>12, <1>13 DEF fields, four, a, b, c

\* An index is read where it lies.
LEMMA IndexLies ==
    ASSUME NEW x \in IndexType, NEW at \in Nat \ {0}, cells \in Seq(Nat), cells[5] \in Nat,
           LiesAt(IndexEntry(x), at), at + Len(IndexEntry(x)) - 1 <= cells[5]
    PROVE  IndexSound(at) /\ IndexAt(at) = x /\ cells[at] = Len(IndexEntry(x))
  <1> DEFINE e == Len(IndexEntry(x))
             end == cells[5]
             page == x.header_page
             a == x.name
             b == x.table
             c == x.column
             la == Len(x.name)
             lb == Len(x.table)
             lc == Len(x.column)
             four == <<la, lb, lc, page>>
             fields == four \o a \o b \o c
  <1>1. IndexEntry(x) = <<e>> \o fields
    BY IndexEntryFacts
  <1>2. at + e - 1 <= end /\ end \in Nat /\ cells[5] = end
    OBVIOUS
  <1>3. a \in Seq(Nat) /\ b \in Seq(Nat) /\ c \in Seq(Nat) /\ page \in Nat \ {0}
    BY IndexEntryFacts
  <1>4. la \in Nat \ {0} /\ lb \in Nat \ {0} /\ lc \in Nat \ {0} /\ e = 5 + la + lb + lc
    BY IndexEntryFacts DEF IndexNeeds, EntryCells
  <1>5. Len(a) = la /\ Len(b) = lb /\ Len(c) = lc
    OBVIOUS
  <1> HIDE DEF e, end, page, a, b, c, la, lb, lc
  <1>6. /\ la \in Nat /\ la > 0 /\ lb \in Nat /\ lb > 0 /\ lc \in Nat /\ lc > 0
        /\ page \in Nat /\ page > 0 /\ e \in Nat /\ e >= 5 /\ e = 5 + la + lb + lc /\ at \in Nat
    BY <1>3, <1>4
  <1>7. four \in Seq(Nat) /\ Len(four) = 4
        /\ four[1] = la /\ four[2] = lb /\ four[3] = lc /\ four[4] = page
    BY <1>6
  <1> HIDE DEF four
  <1>8. /\ four \o a \in Seq(Nat) /\ Len(four \o a) = 4 + la
        /\ four \o a \o b \in Seq(Nat) /\ Len(four \o a \o b) = 4 + la + lb
        /\ fields \in Seq(Nat)
    <2> DEFINE one == four \o a
               two == one \o b
    <2>1. one \in Seq(Nat) /\ Len(one) = Len(four) + Len(a)
      BY <1>3, <1>7, Joined
    <2>2. Len(one) = 4 + la
      BY <1>7, <1>5, <2>1
    <2> HIDE DEF one
    <2>3. two \in Seq(Nat) /\ Len(two) = Len(one) + Len(b)
      BY <1>3, <2>1, Joined
    <2>4. Len(two) = 4 + la + lb
      BY <1>5, <2>2, <2>3
    <2> HIDE DEF two
    <2>5. two \o c \in Seq(Nat)
      BY <1>3, <2>3, Joined
    <2>6. QED
      BY <2>1, <2>2, <2>3, <2>4, <2>5 DEF one, two
  <1>9. cells[at] = e /\ LiesAt(fields, at + 1)
    <2>1. LiesAt(<<e>> \o fields, at)
      BY <1>1
    <2> HIDE DEF fields
    <2>2. QED
      BY <1>8, <1>6, <2>1, EntryLies
  <1>10. LiesAt(four \o a \o b, at + 1) /\ LiesAt(c, at + 5 + la + lb)
    <2> DEFINE two == four \o a \o b
    <2>1. two \in Seq(Nat) /\ Len(two) = 4 + la + lb /\ LiesAt(two \o c, at + 1)
      BY <1>8, <1>9
    <2>2. at + 1 \in Nat /\ at + 1 + (4 + la + lb) = at + 5 + la + lb
      BY <1>6
    <2> HIDE DEF two
    <2>3. LiesAt(two, at + 1) /\ LiesAt(c, at + 1 + Len(two))
      BY <1>3, <2>1, <2>2, PartsLie
    <2>4. QED
      BY <2>1, <2>2, <2>3 DEF two
  <1>11. LiesAt(four \o a, at + 1) /\ LiesAt(b, at + 5 + la)
    <2> DEFINE one == four \o a
    <2>1. one \in Seq(Nat) /\ Len(one) = 4 + la /\ LiesAt(one \o b, at + 1)
      BY <1>8, <1>10
    <2>2. at + 1 \in Nat /\ at + 1 + (4 + la) = at + 5 + la
      BY <1>6
    <2> HIDE DEF one
    <2>3. LiesAt(one, at + 1) /\ LiesAt(b, at + 1 + Len(one))
      BY <1>3, <2>1, <2>2, PartsLie
    <2>4. QED
      BY <2>1, <2>2, <2>3 DEF one
  <1>12. /\ cells[at + 1] = la /\ cells[at + 2] = lb /\ cells[at + 3] = lc
        /\ cells[at + 4] = page /\ LiesAt(a, at + EntryCells)
    <2>1. /\ cells[at + 1] = four[1] /\ cells[at + 2] = four[2]
          /\ cells[at + 3] = four[3] /\ cells[at + 4] = four[4]
          /\ LiesAt(a, at + EntryCells)
      BY <1>3, <1>7, <1>11, <1>6, HeadLies
    <2>2. QED
      BY <1>7, <2>1
  <1> HIDE DEF fields
  <1> DEFINE A == at + EntryCells
             B == at + 5 + la
             C == at + 5 + la + lb
             last == at + e - 1
  <1>13. /\ A \in Nat \ {0} /\ B \in Nat \ {0} /\ C \in Nat \ {0}
         /\ at + EntryCells = A /\ A + la = B /\ B + lb = C /\ C + lc = last + 1
         /\ A + la - 1 <= last /\ B + lb - 1 <= last /\ C + lc - 1 <= last
         /\ at + 5 - 1 <= end /\ last <= end
    BY <1>2, <1>6 DEF EntryCells
  <1>14. LiesAt(a, A) /\ LiesAt(b, B) /\ LiesAt(c, C)
    BY <1>10, <1>11, <1>12
  <1>15. LastOf(at) = last
    BY <1>9 DEF LastOf
  <1>16. EntrySound(at)
    BY <1>2, <1>9, <1>12, <1>13, <1>6 DEF EntrySound, FitsIn, EntryCells
  <1> HIDE DEF A, B, C, last
  <1>17. NameAt(A, la) = a /\ NameAt(B, lb) = b /\ NameAt(C, lc) = c
    BY <1>3, <1>13, <1>14, <1>5, NameLies
  <1>18. TableNameOf(at) = B
    BY <1>12, <1>13 DEF TableNameOf
  <1>19. ColumnNameOf(at) = C
    BY <1>12, <1>13, <1>18 DEF ColumnNameOf
  <1>20. IndexSound(at)
    <2>1. NameSound(A, la, last) /\ NameSound(B, lb, last) /\ NameSound(C, lc, last)
      BY <1>13, <1>6 DEF NameSound, FitsIn
    <2>2. QED
      BY <1>12, <1>13, <1>15, <1>16, <1>18, <1>19, <2>1 DEF IndexSound
  <1>21. IndexAt(at) = x
    <2>1. x = [name |-> x.name, table |-> x.table, column |-> x.column, header_page |-> x.header_page]
      BY DEF IndexType
    <2>2. QED
      BY <1>12, <1>13, <1>17, <1>18, <1>19, <2>1 DEF IndexAt, a, b, c, page
  <1>22. QED
    BY <1>9, <1>20, <1>21 DEF e

-----------------------------------------------------------------------------
(* The tables by name and the indexes by key.                              *)

(* Two names with a dot between them.                                      *)
Dotted(k, a, b) ==
    /\ Len(k) = Len(a) + 1 + Len(b)
    /\ \A i \in 1 .. Len(a) : k[i] = a[i] /\ a[i] \in Nat \ {0}
    /\ k[Len(a) + 1] = 0
    /\ \A i \in 1 .. Len(b) : k[Len(a) + 1 + i] = b[i]
    /\ a \in Seq(Nat) /\ b \in Seq(Nat) /\ Len(a) \in Nat /\ Len(b) \in Nat

\* The key of an index: a dot after the name of the table.
LEMMA IndexKeyFacts ==
    ASSUME NEW a \in Names, NEW b \in Names
    PROVE  MakeIndexKey(a, b) \in Seq(Nat) /\ Dotted(MakeIndexKey(a, b), a, b)
  <1>1. a \in Seq(Nat) /\ b \in Seq(Nat) /\ Len(a) \in Nat /\ Len(b) \in Nat
    BY DEF Names, Dot
  <1> DEFINE dot == <<Dot>>
             front == a \o dot
  <1>2. dot \in Seq(Nat) /\ Len(dot) = 1 /\ dot[1] = 0 /\ 1 \in 1 .. 1
    BY DEF Dot
  <1> HIDE DEF dot
  <1>3. /\ front \in Seq(Nat) /\ Len(front) = Len(a) + Len(dot)
        /\ \A i \in 1 .. Len(a) : front[i] = a[i]
        /\ front[Len(a) + 1] = 0
    <2>1. a \in Seq(Nat) /\ dot \in Seq(Nat)
      BY <1>1, <1>2
    <2>2. /\ front \in Seq(Nat) /\ Len(front) = Len(a) + Len(dot)
          /\ \A i \in 1 .. Len(a) : front[i] = a[i]
          /\ \A i \in 1 .. Len(dot) : front[Len(a) + i] = dot[i]
      BY <2>1, Joined
    <2> HIDE DEF front
    <2>3. QED
      BY <1>2, <2>2
  <1> HIDE DEF front
  <1>4. /\ front \o b \in Seq(Nat) /\ Len(front \o b) = Len(front) + Len(b)
        /\ \A i \in 1 .. Len(front) : (front \o b)[i] = front[i]
        /\ \A i \in 1 .. Len(b) : (front \o b)[Len(front) + i] = b[i]
    <2>1. front \in Seq(Nat) /\ b \in Seq(Nat)
      BY <1>1, <1>3
    <2>2. QED
      BY <2>1, Joined
  <1>5. Len(front) = Len(a) + 1
    BY <1>1, <1>2, <1>3
  <1>6. \A i \in 1 .. Len(a) : i \in 1 .. Len(front)
    BY <1>1, <1>5
  <1>7. Len(a) + 1 \in 1 .. Len(front)
    BY <1>1, <1>5
  <1>8. MakeIndexKey(a, b) = front \o b
    BY DEF MakeIndexKey, front, dot
  <1>9. \A i \in 1 .. Len(a) : a[i] \in Nat \ {0}
    BY DEF Names, Dot
  <1>10. QED
    BY <1>1, <1>3, <1>4, <1>5, <1>6, <1>7, <1>8, <1>9 DEF Dotted

\* Two columns have two keys: no letter of a name is a dot.
LEMMA IndexKeysDiffer ==
    ASSUME NEW a \in Names, NEW b \in Names, NEW c \in Names, NEW d \in Names,
           MakeIndexKey(a, b) = MakeIndexKey(c, d)
    PROVE  a = c /\ b = d
  <1> DEFINE k == MakeIndexKey(a, b)
  <1>1. /\ Len(k) = Len(a) + 1 + Len(b)
        /\ \A i \in 1 .. Len(a) : k[i] = a[i] /\ a[i] \in Nat \ {0}
        /\ k[Len(a) + 1] = 0
        /\ \A i \in 1 .. Len(b) : k[Len(a) + 1 + i] = b[i]
        /\ a \in Seq(Nat) /\ b \in Seq(Nat) /\ Len(a) \in Nat /\ Len(b) \in Nat
    <2>1. Dotted(k, a, b)
      BY IndexKeyFacts
    <2> HIDE DEF k
    <2>2. QED
      BY <2>1 DEF Dotted
  <1> DEFINE l == MakeIndexKey(c, d)
  <1>2. /\ Len(l) = Len(c) + 1 + Len(d)
        /\ \A i \in 1 .. Len(c) : l[i] = c[i] /\ c[i] \in Nat \ {0}
        /\ l[Len(c) + 1] = 0
        /\ \A i \in 1 .. Len(d) : l[Len(c) + 1 + i] = d[i]
        /\ c \in Seq(Nat) /\ d \in Seq(Nat) /\ Len(c) \in Nat /\ Len(d) \in Nat
    <2>1. Dotted(l, c, d)
      BY IndexKeyFacts
    <2> HIDE DEF l
    <2>2. QED
      BY <2>1 DEF Dotted
  <1>3. k = l
    OBVIOUS
  <1> HIDE DEF k, l
  <1>4. Len(a) = Len(c)
    <2>1. ~(Len(a) < Len(c))
      <3>1. SUFFICES ASSUME Len(a) < Len(c) PROVE FALSE
        OBVIOUS
      <3>2. Len(a) + 1 \in 1 .. Len(c)
        BY <1>1, <1>2, <1>3, <3>1
      <3>3. QED
        BY <1>1, <1>2, <1>3, <3>2
    <2>2. ~(Len(c) < Len(a))
      <3>1. SUFFICES ASSUME Len(c) < Len(a) PROVE FALSE
        OBVIOUS
      <3>2. Len(c) + 1 \in 1 .. Len(a)
        BY <1>1, <1>2, <1>3, <3>1
      <3>3. QED
        BY <1>1, <1>2, <1>3, <3>2
    <2>3. QED
      BY <1>1, <1>2, <1>3, <2>1, <2>2
  <1>5. a = c
    <2>1. \A i \in 1 .. Len(a) : a[i] = c[i]
      BY <1>1, <1>2, <1>3, <1>4
    <2>2. QED
      BY <1>1, <1>2, <1>3, <1>4, <2>1, SameElements
  <1>6. Len(b) = Len(d)
    BY <1>1, <1>2, <1>3, <1>4
  <1>7. b = d
    <2>1. \A i \in 1 .. Len(b) : b[i] = d[i]
      BY <1>1, <1>2, <1>3, <1>4, <1>6
    <2>2. QED
      BY <1>1, <1>2, <1>3, <1>6, <2>1, SameElements
  <1>8. QED
    BY <1>5, <1>7

(* A std::map: a finite set, the keys of its elements, no two of them      *)
(* equal, and the set of these keys.                                       *)
KeyedBy(S, key, keys) == /\ IsFiniteSet(S) /\ \A x \in S : key[x] \in Seq(Nat) /\ key[x] \in keys
                         /\ \A x, y \in S : key[x] = key[y] => x = y
                         /\ \A k \in keys : \E x \in S : key[x] = k

\* There are as many keys as elements.
LEMMA KeysInOrder ==
    ASSUME NEW S, NEW key, NEW keys, KeyedBy(S, key, keys)
    PROVE  /\ Cardinality(S) \in Nat /\ Len(InOrder(keys)) = Cardinality(S)
           /\ InOrder(keys) \in [1 .. Cardinality(S) -> keys]
           /\ \A i, j \in 1 .. Cardinality(S) : InOrder(keys)[i] = InOrder(keys)[j] => i = j
           /\ \A k \in keys : \E i \in 1 .. Cardinality(S) : InOrder(keys)[i] = k
           /\ \A i \in 1 .. Cardinality(S) : \E x \in S : key[x] = InOrder(keys)[i]
  <1> DEFINE f == [x \in S |-> key[x]]
             n == Cardinality(S)
             o == InOrder(keys)
  <1>1. f \in Surjection(S, keys) /\ f \in Injection(S, keys)
    BY DEF Surjection, Injection, IsInjective, KeyedBy
  <1>2. IsFiniteSet(keys) /\ Cardinality(keys) = n
    <2>1. IsFiniteSet(S)
      BY DEF KeyedBy
    <2> HIDE DEF f
    <2>2. QED
      BY <1>1, <2>1, FS_Surjection
  <1>3. keys \subseteq Seq(Nat)
    BY DEF KeyedBy
  <1>4. /\ n \in Nat /\ o \in [1 .. n -> keys]
        /\ \A i, j \in 1 .. n : o[i] = o[j] => i = j
        /\ \A k \in keys : \E i \in 1 .. n : o[i] = k
    BY <1>2, <1>3, InOrderFacts
  <1> HIDE DEF n, o
  <1>5. Len(o) = n
    BY <1>4
  <1>6. \A i \in 1 .. n : \E x \in S : key[x] = o[i]
    BY <1>4 DEF KeyedBy
  <1>7. QED
    BY <1>4, <1>5, <1>6 DEF n, o

\* The elements in the order of their keys are all the elements, each once.
LEMMA ListByKey ==
    ASSUME NEW S, NEW key, NEW keys, KeyedBy(S, key, keys),
           NEW list \in [1 .. Cardinality(S) -> S],
           \A i \in 1 .. Cardinality(S) : key[list[i]] = InOrder(keys)[i]
    PROVE  IsListOf(list, Cardinality(S), S)
  <1> DEFINE n == Cardinality(S)
             o == InOrder(keys)
  <1>1. /\ n \in Nat
        /\ \A i, j \in 1 .. n : o[i] = o[j] => i = j
        /\ \A k \in keys : \E i \in 1 .. n : o[i] = k
    BY KeysInOrder
  <1>2. list \in [1 .. n -> S] /\ \A i \in 1 .. n : key[list[i]] = o[i]
    OBVIOUS
  <1> HIDE DEF n, o
  <1>3. \A i, j \in 1 .. n : list[i] = list[j] => i = j
    BY <1>1, <1>2
  <1>4. ASSUME NEW x \in S PROVE \E i \in 1 .. n : list[i] = x
    <2>1. key[x] \in keys
      BY DEF KeyedBy
    <2>2. PICK i \in 1 .. n : o[i] = key[x]
      BY <1>1, <2>1
    <2>3. key[list[i]] = key[x] /\ list[i] \in S
      BY <1>2, <2>2
    <2>4. list[i] = x
      BY <2>3 DEF KeyedBy
    <2>5. QED
      BY <2>4
  <1>5. QED
    BY <1>2, <1>3, <1>4 DEF IsListOf, n

(* What CatalogAssumption says of a catalog that is written.               *)
GoodCatalog(c) == /\ c \in [tables : SUBSET TableType, indexes : SUBSET IndexType]
                  /\ IsFiniteSet(c.tables) /\ IsFiniteSet(c.indexes)
                  /\ Consistent(c)

(* The tables and the indexes of a catalog as Persist takes them in turn.  *)
TableNames(c) == {t.name : t \in c.tables}
TableList(c) == [i \in 1 .. Len(InOrder(TableNames(c))) |->
                    CHOOSE t \in c.tables : t.name = InOrder(TableNames(c))[i]]
TablePieces(c) == [i \in 1 .. Len(InOrder(TableNames(c))) |-> TableEntry(TableList(c)[i])]

IndexKeys(c) == {MakeIndexKey(x.table, x.column) : x \in c.indexes}
IndexList(c) == [i \in 1 .. Len(InOrder(IndexKeys(c))) |->
                    CHOOSE x \in c.indexes : MakeIndexKey(x.table, x.column) = InOrder(IndexKeys(c))[i]]
IndexPieces(c) == [i \in 1 .. Len(InOrder(IndexKeys(c))) |-> IndexEntry(IndexList(c)[i])]

\* Each table once, in as many entries as there are tables.
LEMMA TableListFacts ==
    ASSUME NEW c, GoodCatalog(c)
    PROVE  /\ Cardinality(c.tables) \in Nat
           /\ Len(InOrder(TableNames(c))) = Cardinality(c.tables)
           /\ IsListOf(TableList(c), Cardinality(c.tables), c.tables)
  <1> DEFINE S == c.tables
             key == [t \in S |-> t.name]
             keys == TableNames(c)
             n == Cardinality(S)
             o == InOrder(keys)
             list == TableList(c)
  <1>1. \A t \in S : key[t] = t.name /\ key[t] \in Seq(Nat)
    BY DEF GoodCatalog, TableType, Names
  <1>2. IsFiniteSet(S) /\ \A t, u \in S : key[t] = key[u] => t = u
    BY DEF GoodCatalog, Consistent
  <1>3. KeyedBy(S, key, keys)
    BY <1>1, <1>2 DEF KeyedBy, TableNames
  <1>4. list = [i \in 1 .. Len(o) |-> CHOOSE t \in S : t.name = o[i]]
    BY DEF TableList
  <1> HIDE DEF S, key, keys
  <1>5. n \in Nat /\ Len(o) = n /\ \A i \in 1 .. n : \E t \in S : key[t] = o[i]
    BY <1>3, KeysInOrder
  <1>6. ASSUME NEW i \in 1 .. n
        PROVE  list[i] \in S /\ key[list[i]] = o[i]
    <2> HIDE DEF n, o
    <2>1. list[i] = CHOOSE t \in S : t.name = o[i]
      BY <1>4, <1>5
    <2>2. \E t \in S : t.name = o[i]
      BY <1>1, <1>5
    <2>3. list[i] \in S /\ list[i].name = o[i]
      BY <2>1, <2>2
    <2>4. QED
      BY <1>1, <2>3
  <1>7. list \in [1 .. n -> S] /\ \A i \in 1 .. n : key[list[i]] = o[i]
    <2>1. list = [i \in 1 .. n |-> list[i]]
      BY <1>4, <1>5
    <2> HIDE DEF list, n, o
    <2>2. QED
      BY <1>6, <2>1
  <1> HIDE DEF list
  <1>8. IsListOf(list, n, S)
    BY <1>3, <1>7, ListByKey
  <1>9. QED
    BY <1>5, <1>8 DEF n, o, S, keys, list

\* Each index once, in as many entries as there are indexes.
LEMMA IndexListFacts ==
    ASSUME NEW c, GoodCatalog(c)
    PROVE  /\ Cardinality(c.indexes) \in Nat
           /\ Len(InOrder(IndexKeys(c))) = Cardinality(c.indexes)
           /\ IsListOf(IndexList(c), Cardinality(c.indexes), c.indexes)
  <1> DEFINE S == c.indexes
             key == [x \in S |-> MakeIndexKey(x.table, x.column)]
             keys == IndexKeys(c)
             n == Cardinality(S)
             o == InOrder(keys)
             list == IndexList(c)
  <1>1. /\ IsFiniteSet(S) /\ \A x \in S : x.table \in Names /\ x.column \in Names
        /\ \A x, y \in S : x.table = y.table /\ x.column = y.column => x = y
    BY DEF GoodCatalog, Consistent, IndexType
  <1>2. \A x \in S : key[x] = MakeIndexKey(x.table, x.column) /\ key[x] \in Seq(Nat)
    <2>1. SUFFICES ASSUME NEW x \in S PROVE MakeIndexKey(x.table, x.column) \in Seq(Nat)
      OBVIOUS
    <2>2. QED
      BY <1>1, IndexKeyFacts
  <1>3. IsFiniteSet(S) /\ \A x, y \in S : key[x] = key[y] => x = y
    <2>1. SUFFICES ASSUME NEW x \in S, NEW y \in S, key[x] = key[y] PROVE x = y
      BY <1>1
    <2>2. MakeIndexKey(x.table, x.column) = MakeIndexKey(y.table, y.column)
      BY <2>1
    <2>3. x.table = y.table /\ x.column = y.column
      BY <1>1, <2>2, IndexKeysDiffer
    <2>4. QED
      BY <1>1, <2>3
  <1>4. KeyedBy(S, key, keys)
    BY <1>2, <1>3 DEF KeyedBy, IndexKeys
  <1>5. list = [i \in 1 .. Len(o) |-> CHOOSE x \in S : MakeIndexKey(x.table, x.column) = o[i]]
    BY DEF IndexList
  <1> HIDE DEF S, key, keys
  <1>6. n \in Nat /\ Len(o) = n /\ \A i \in 1 .. n : \E x \in S : key[x] = o[i]
    BY <1>4, KeysInOrder
  <1>7. ASSUME NEW i \in 1 .. n
        PROVE  list[i] \in S /\ key[list[i]] = o[i]
    <2> HIDE DEF n, o
    <2>1. list[i] = CHOOSE x \in S : MakeIndexKey(x.table, x.column) = o[i]
      BY <1>5, <1>6
    <2>2. \E x \in S : MakeIndexKey(x.table, x.column) = o[i]
      BY <1>2, <1>6
    <2>3. list[i] \in S /\ MakeIndexKey(list[i].table, list[i].column) = o[i]
      BY <2>1, <2>2
    <2>4. QED
      BY <1>2, <2>3
  <1>8. list \in [1 .. n -> S] /\ \A i \in 1 .. n : key[list[i]] = o[i]
    <2>1. list = [i \in 1 .. n |-> list[i]]
      BY <1>5, <1>6
    <2> HIDE DEF list, n, o
    <2>2. QED
      BY <1>7, <2>1
  <1> HIDE DEF list
  <1>9. IsListOf(list, n, S)
    BY <1>4, <1>8, ListByKey
  <1>10. QED
    BY <1>6, <1>9 DEF n, o, S, keys, list

\* The entries are those of the tables and those of the indexes.
LEMMA CatalogPieces ==
    ASSUME NEW c
    PROVE  CatalogEntries(c) = FlattenSeq(TablePieces(c)) \o FlattenSeq(IndexPieces(c))
  <1> DEFINE names == InOrder(TableNames(c))
             keys == InOrder(IndexKeys(c))
             TheTable(i) == CHOOSE t \in c.tables : t.name = names[i]
             TheIndex(i) == CHOOSE x \in c.indexes : MakeIndexKey(x.table, x.column) = keys[i]
  <1>1. CatalogEntries(c) = FlattenSeq([i \in 1 .. Len(names) |-> TableEntry(TheTable(i))])
                            \o FlattenSeq([i \in 1 .. Len(keys) |-> IndexEntry(TheIndex(i))])
    BY DEF CatalogEntries, TableNames, IndexKeys
  <1>2. TableList(c) = [i \in 1 .. Len(names) |-> TheTable(i)]
    BY DEF TableList
  <1>3. IndexList(c) = [i \in 1 .. Len(keys) |-> TheIndex(i)]
    BY DEF IndexList
  <1>4. TablePieces(c) = [i \in 1 .. Len(names) |-> TableEntry(TableList(c)[i])]
    BY DEF TablePieces
  <1>5. IndexPieces(c) = [i \in 1 .. Len(keys) |-> IndexEntry(IndexList(c)[i])]
    BY DEF IndexPieces
  <1> HIDE DEF names, keys, TheTable, TheIndex
  <1>6. TablePieces(c) = [i \in 1 .. Len(names) |-> TableEntry(TheTable(i))]
    BY <1>2, <1>4
  <1>7. IndexPieces(c) = [i \in 1 .. Len(keys) |-> IndexEntry(TheIndex(i))]
    BY <1>3, <1>5
  <1>8. QED
    BY <1>1, <1>6, <1>7

\* The cells a table needs are those of its entry.
LEMMA TableLength ==
    ASSUME NEW t \in TableType
    PROVE  TableNeeds(t) = Len(TableEntry(t)) /\ TableNeeds(t) \in Nat
  <1> DEFINE n == Len(t.columns)
             P == ColumnPieces(t)
             f == [i \in DOMAIN t.columns |-> ColumnCells + Len(t.columns[i].name)]
             h == [j \in DOMAIN P |-> Len(P[j])]
             m == Len(t.name)
             all == Before(P, n + 1)
  <1>1. /\ m \in Nat /\ n \in Nat /\ all \in Nat /\ Len(P) = n /\ DOMAIN P = 1 .. n
        /\ \A i \in 1 .. n : t.columns[i] \in ColumnType
        /\ Len(TableEntry(t)) = EntryCells + m + all
    <2>1. /\ m \in Nat /\ n \in Nat /\ all \in Nat /\ Len(P) = n
          /\ \A i \in 1 .. n : t.columns[i] \in ColumnType
          /\ Len(TableEntry(t)) = EntryCells + m + all
      BY TableEntryFacts
    <2>2. DOMAIN P = 1 .. n
      BY DEF ColumnPieces
    <2> HIDE DEF m, n, P, all
    <2>3. QED
      BY <2>1, <2>2
  <1>2. DOMAIN t.columns = 1 .. n
    <2>1. t.columns \in Seq(ColumnType)
      BY DEF TableType
    <2>2. QED
      BY <2>1
  <1>3. \A i \in 1 .. n : f[i] = h[i]
    <2>1. SUFFICES ASSUME NEW i \in 1 .. n PROVE f[i] = h[i]
      OBVIOUS
    <2>2. P[i] = ColumnFields(t.columns[i])
      BY DEF ColumnPieces
    <2>3. Len(ColumnFields(t.columns[i])) = ColumnCells + Len(t.columns[i].name)
      BY <1>1, ColumnFieldsFacts
    <2>4. f[i] = ColumnCells + Len(t.columns[i].name)
      BY <1>2
    <2>5. h[i] = Len(P[i])
      BY <1>1
    <2>6. QED
      BY <2>2, <2>3, <2>4, <2>5
  <1>4. ColumnsNeed(t.columns) = SumFunctionOnSet(f, 1 .. n)
    BY <1>2 DEF ColumnsNeed
  <1>5. all = SumFunctionOnSet(h, 1 .. (n + 1) - 1)
    BY DEF Before
  <1> HIDE DEF f, h, n, all, m, P
  <1>6. (n + 1) - 1 = n /\ IsFiniteSet(1 .. n)
    BY <1>1, FS_Interval
  <1>7. SumFunctionOnSet(f, 1 .. n) = SumFunctionOnSet(h, 1 .. n)
    BY <1>3, <1>6, SumAgrees
  <1>8. ColumnsNeed(t.columns) = all
    BY <1>4, <1>5, <1>6, <1>7
  <1>9. TableNeeds(t) = EntryCells + m + all
    BY <1>8 DEF TableNeeds, m
  <1>10. QED
    BY <1>1, <1>9 DEF EntryCells

\* The pieces made of the elements of a set, each once.
LEMMA PiecesTotal ==
    ASSUME NEW n \in Nat, NEW S, NEW s, IsListOf(s, n, S),
           NEW f, \A x \in S : f[x] \in Nat,
           NEW ss \in Seq(Seq(Nat)), Len(ss) = n, \A i \in 1 .. n : Len(ss[i]) = f[s[i]]
    PROVE  Before(ss, n + 1) = SumFunctionOnSet(f, S)
  <1> DEFINE g == [i \in 1 .. n |-> f[s[i]]]
             h == [j \in DOMAIN ss |-> Len(ss[j])]
             D == 1 .. n
  <1>1. \A i \in 1 .. n : g[i] = f[s[i]]
    OBVIOUS
  <1>2. DOMAIN ss = 1 .. n
    OBVIOUS
  <1>3. \A i \in 1 .. n : h[i] = g[i]
    BY <1>2
  <1>4. Before(ss, n + 1) = SumFunctionOnSet(h, 1 .. (n + 1) - 1)
    BY DEF Before
  <1>5. (n + 1) - 1 = n /\ IsFiniteSet(D)
    BY FS_Interval
  <1> HIDE DEF g, h
  <1>6. SumFunctionOnSet(g, 1 .. n) = SumFunctionOnSet(f, S)
    BY <1>1, SumOfList
  <1>7. SumFunctionOnSet(h, D) = SumFunctionOnSet(g, D)
    <2>1. \A i \in D : h[i] = g[i]
      BY <1>3
    <2> HIDE DEF D
    <2>2. QED
      BY <1>5, <2>1, SumAgrees
  <1>8. QED
    BY <1>4, <1>5, <1>6, <1>7

\* The cells of the tables.
LEMMA TablePiecesFacts ==
    ASSUME NEW c, GoodCatalog(c), NEW n, n = Cardinality(c.tables)
    PROVE  /\ n \in Nat /\ TablePieces(c) \in Seq(Seq(Nat)) /\ Len(TablePieces(c)) = n
           /\ \A i \in 1 .. n : TableList(c)[i] \in c.tables /\ TableList(c)[i] \in TableType
           /\ \A i \in 1 .. n : TablePieces(c)[i] = TableEntry(TableList(c)[i])
           /\ Before(TablePieces(c), n + 1) \in Nat
           /\ Before(TablePieces(c), n + 1)
                 = SumFunctionOnSet([t \in c.tables |-> TableNeeds(t)], c.tables)
  <1> DEFINE S == c.tables
             list == TableList(c)
             P == TablePieces(c)
             f == [t \in S |-> TableNeeds(t)]
  <1>1. n \in Nat /\ Len(InOrder(TableNames(c))) = n /\ IsListOf(list, n, S)
    BY TableListFacts
  <1>2. P = [i \in 1 .. n |-> TableEntry(list[i])]
    BY <1>1 DEF TablePieces
  <1>3. \A i \in 1 .. n : list[i] \in S
    BY <1>1 DEF IsListOf
  <1>4. \A t \in S : t \in TableType /\ TableEntry(t) \in Seq(Nat) /\ f[t] = Len(TableEntry(t)) /\ f[t] \in Nat
    <2>1. SUFFICES ASSUME NEW t \in S
                   PROVE  t \in TableType /\ TableEntry(t) \in Seq(Nat) /\ f[t] = Len(TableEntry(t)) /\ f[t] \in Nat
      OBVIOUS
    <2>2. t \in TableType
      BY DEF GoodCatalog
    <2>3. f[t] = TableNeeds(t)
      OBVIOUS
    <2> HIDE DEF f
    <2>4. QED
      BY <2>2, <2>3, TableEntryFacts, TableLength
  <1> HIDE DEF list, f
  <1>5. \A i \in 1 .. n : P[i] = TableEntry(list[i]) /\ P[i] \in Seq(Nat) /\ Len(P[i]) = f[list[i]]
    BY <1>2, <1>3, <1>4
  <1>6. P \in Seq(Seq(Nat)) /\ Len(P) = n
    <2>1. P = [i \in 1 .. n |-> P[i]]
      BY <1>2
    <2> HIDE DEF P
    <2>2. QED
      BY <1>1, <1>5, <2>1
  <1> HIDE DEF P, S
  <1>7. Before(P, n + 1) = SumFunctionOnSet(f, S)
    BY <1>1, <1>4, <1>5, <1>6, PiecesTotal
  <1>8. Before(P, n + 1) \in Nat
    <2>1. n + 1 \in 1 .. Len(P) + 1
      BY <1>1, <1>6
    <2>2. QED
      BY <1>6, <2>1, BeforeFacts
  <1>9. QED
    BY <1>1, <1>3, <1>4, <1>5, <1>6, <1>7, <1>8 DEF P, S, list, f

\* The cells of the indexes.
LEMMA IndexPiecesFacts ==
    ASSUME NEW c, GoodCatalog(c), NEW n, n = Cardinality(c.indexes)
    PROVE  /\ n \in Nat /\ IndexPieces(c) \in Seq(Seq(Nat)) /\ Len(IndexPieces(c)) = n
           /\ \A i \in 1 .. n : IndexList(c)[i] \in c.indexes /\ IndexList(c)[i] \in IndexType
           /\ \A i \in 1 .. n : IndexPieces(c)[i] = IndexEntry(IndexList(c)[i])
           /\ Before(IndexPieces(c), n + 1) \in Nat
           /\ Before(IndexPieces(c), n + 1)
                 = SumFunctionOnSet([x \in c.indexes |-> IndexNeeds(x)], c.indexes)
  <1> DEFINE S == c.indexes
             list == IndexList(c)
             P == IndexPieces(c)
             f == [x \in S |-> IndexNeeds(x)]
  <1>1. n \in Nat /\ Len(InOrder(IndexKeys(c))) = n /\ IsListOf(list, n, S)
    BY IndexListFacts
  <1>2. P = [i \in 1 .. n |-> IndexEntry(list[i])]
    BY <1>1 DEF IndexPieces
  <1>3. \A i \in 1 .. n : list[i] \in S
    BY <1>1 DEF IsListOf
  <1>4. \A x \in S : x \in IndexType /\ IndexEntry(x) \in Seq(Nat) /\ f[x] = Len(IndexEntry(x)) /\ f[x] \in Nat
    <2>1. SUFFICES ASSUME NEW x \in S
                   PROVE  x \in IndexType /\ IndexEntry(x) \in Seq(Nat) /\ f[x] = Len(IndexEntry(x)) /\ f[x] \in Nat
      OBVIOUS
    <2>2. x \in IndexType
      BY DEF GoodCatalog
    <2>3. f[x] = IndexNeeds(x)
      OBVIOUS
    <2> HIDE DEF f
    <2>4. QED
      BY <2>2, <2>3, IndexEntryFacts
  <1> HIDE DEF list, f
  <1>5. \A i \in 1 .. n : P[i] = IndexEntry(list[i]) /\ P[i] \in Seq(Nat) /\ Len(P[i]) = f[list[i]]
    BY <1>2, <1>3, <1>4
  <1>6. P \in Seq(Seq(Nat)) /\ Len(P) = n
    <2>1. P = [i \in 1 .. n |-> P[i]]
      BY <1>2
    <2> HIDE DEF P
    <2>2. QED
      BY <1>1, <1>5, <2>1
  <1> HIDE DEF P, S
  <1>7. Before(P, n + 1) = SumFunctionOnSet(f, S)
    BY <1>1, <1>4, <1>5, <1>6, PiecesTotal
  <1>8. Before(P, n + 1) \in Nat
    <2>1. n + 1 \in 1 .. Len(P) + 1
      BY <1>1, <1>6
    <2>2. QED
      BY <1>6, <2>1, BeforeFacts
  <1>9. QED
    BY <1>1, <1>3, <1>4, <1>5, <1>6, <1>7, <1>8 DEF P, S, list, f

\* Persist counts the cells the catalog needs.
LEMMA CatalogLength ==
    ASSUME NEW c, GoodCatalog(c)
    PROVE  /\ CatalogEntries(c) \in Seq(Nat)
           /\ FlattenSeq(TablePieces(c)) \in Seq(Nat) /\ FlattenSeq(IndexPieces(c)) \in Seq(Nat)
           /\ Len(FlattenSeq(TablePieces(c))) = Before(TablePieces(c), Cardinality(c.tables) + 1)
           /\ Len(FlattenSeq(IndexPieces(c))) = Before(IndexPieces(c), Cardinality(c.indexes) + 1)
           /\ UsedCells(c) = HeaderCells + Before(TablePieces(c), Cardinality(c.tables) + 1)
                                + Before(IndexPieces(c), Cardinality(c.indexes) + 1)
           /\ UsedCells(c) = HeaderCells + Len(CatalogEntries(c))
           /\ UsedCells(c) = CellsNeeded(c)
  <1> DEFINE n == Cardinality(c.tables)
             m == Cardinality(c.indexes)
             P == TablePieces(c)
             Q == IndexPieces(c)
             p == Before(P, n + 1)
             q == Before(Q, m + 1)
             F == FlattenSeq(P)
             G == FlattenSeq(Q)
  <1>1. /\ P \in Seq(Seq(Nat)) /\ Len(P) = n /\ p \in Nat
        /\ p = SumFunctionOnSet([t \in c.tables |-> TableNeeds(t)], c.tables)
    BY TablePiecesFacts
  <1>2. /\ Q \in Seq(Seq(Nat)) /\ Len(Q) = m /\ q \in Nat
        /\ q = SumFunctionOnSet([x \in c.indexes |-> IndexNeeds(x)], c.indexes)
    BY IndexPiecesFacts
  <1>3. CellsNeeded(c) = HeaderCells + p + q
    BY <1>1, <1>2 DEF CellsNeeded
  <1>4. CatalogEntries(c) = F \o G
    BY CatalogPieces
  <1> HIDE DEF n, m, P, Q
  <1>5. F \in Seq(Nat) /\ Len(F) = p
    BY <1>1, Flattened
  <1>6. G \in Seq(Nat) /\ Len(G) = q
    BY <1>2, Flattened
  <1> HIDE DEF F, G, p, q
  <1>7. F \o G \in Seq(Nat) /\ Len(F \o G) = Len(F) + Len(G)
    BY <1>5, <1>6, Joined
  <1>8. UsedCells(c) = HeaderCells + Len(CatalogEntries(c))
    BY DEF UsedCells
  <1>9. HeaderCells + Len(CatalogEntries(c)) = HeaderCells + p + q
    BY <1>1, <1>2, <1>4, <1>5, <1>6, <1>7 DEF HeaderCells
  <1>10. QED
    BY <1>3, <1>4, <1>5, <1>6, <1>7, <1>8, <1>9 DEF F, G, p, q, P, Q, n, m

\* Tables are read where they lie.
LEMMA TablesLie ==
    ASSUME NEW c, GoodCatalog(c), NEW n, n = Cardinality(c.tables),
           cells \in Seq(Nat), cells[5] \in Nat, NEW first \in Nat \ {0},
           LiesAt(FlattenSeq(TablePieces(c)), first),
           first + Before(TablePieces(c), n + 1) - 1 <= cells[5],
           NEW starts, starts = Starts(cells, first, n)
    PROVE  /\ starts[n + 1] = first + Before(TablePieces(c), n + 1)
           /\ \A i \in 1 .. n : TableSound(starts[i]) /\ TableAt(starts[i]) = TableList(c)[i]
  <1> DEFINE P == TablePieces(c)
             list == TableList(c)
             all == Before(P, n + 1)
             end == cells[5]
  <1>1. /\ n \in Nat /\ P \in Seq(Seq(Nat)) /\ Len(P) = n
        /\ \A i \in 1 .. n : list[i] \in TableType
        /\ \A i \in 1 .. n : P[i] = TableEntry(list[i])
        /\ all \in Nat
    BY TablePiecesFacts
  <1>2. end \in Nat /\ first + all - 1 <= end /\ first \in Nat /\ first > 0
    OBVIOUS
  <1> HIDE DEF P, list
  <1>3. \A i \in 1 .. n : LiesAt(P[i], first + Before(P, i))
    BY <1>1, <1>2, PiecesLie DEF P
  <1>4. ASSUME NEW i \in 1 .. n
        PROVE  /\ TableSound(first + Before(P, i)) /\ TableAt(first + Before(P, i)) = list[i]
               /\ cells[first + Before(P, i)] = Len(P[i])
    <2> DEFINE b == Before(P, i)
               l == Len(P[i])
    <2>1. b \in Nat /\ l \in Nat /\ Before(P, i + 1) = b + l /\ Before(P, i + 1) <= all
      <3>1. /\ i \in 1 .. Len(P) + 1 /\ i + 1 \in 1 .. Len(P) + 1 /\ n + 1 \in 1 .. Len(P) + 1
            /\ i + 1 <= n + 1 /\ i \in 1 .. Len(P)
        BY <1>1
      <3>2. QED
        BY <1>1, <3>1, BeforeFacts
    <2>2. P[i] = TableEntry(list[i]) /\ list[i] \in TableType /\ LiesAt(P[i], first + b)
      BY <1>1, <1>3
    <2>3. l = Len(TableEntry(list[i]))
      BY <2>2
    <2> HIDE DEF b, l, all, end
    <2>4. first + b \in Nat \ {0} /\ first + b + l - 1 <= end
      BY <1>1, <1>2, <2>1
    <2>5. TableSound(first + b) /\ TableAt(first + b) = list[i] /\ cells[first + b] = l
      BY <2>2, <2>3, <2>4, TableLies DEF end
    <2>6. QED
      BY <2>5 DEF b, l
  <1> HIDE DEF all, end
  <1>5. \A i \in 1 .. n + 1 : starts[i] = first + Before(P, i)
    <2>1. \A i \in 1 .. Len(P) : cells[first + Before(P, i)] = Len(P[i])
      BY <1>1, <1>4
    <2>2. \A i \in 1 .. Len(P) + 1 : Starts(cells, first, Len(P))[i] = first + Before(P, i)
      BY <1>1, <1>2, <2>1, StartsOfPieces
    <2>3. QED
      BY <1>1, <2>2
  <1>6. n + 1 \in 1 .. n + 1 /\ \A i \in 1 .. n : i \in 1 .. n + 1
    BY <1>1
  <1>7. QED
    BY <1>4, <1>5, <1>6 DEF P, list

\* Indexes are read where they lie.
LEMMA IndexesLie ==
    ASSUME NEW c, GoodCatalog(c), NEW n, n = Cardinality(c.indexes),
           cells \in Seq(Nat), cells[5] \in Nat, NEW first \in Nat \ {0},
           LiesAt(FlattenSeq(IndexPieces(c)), first),
           first + Before(IndexPieces(c), n + 1) - 1 <= cells[5],
           NEW starts, starts = Starts(cells, first, n)
    PROVE  /\ starts[n + 1] = first + Before(IndexPieces(c), n + 1)
           /\ \A i \in 1 .. n : IndexSound(starts[i]) /\ IndexAt(starts[i]) = IndexList(c)[i]
  <1> DEFINE P == IndexPieces(c)
             list == IndexList(c)
             all == Before(P, n + 1)
             end == cells[5]
  <1>1. /\ n \in Nat /\ P \in Seq(Seq(Nat)) /\ Len(P) = n
        /\ \A i \in 1 .. n : list[i] \in IndexType
        /\ \A i \in 1 .. n : P[i] = IndexEntry(list[i])
        /\ all \in Nat
    BY IndexPiecesFacts
  <1>2. end \in Nat /\ first + all - 1 <= end /\ first \in Nat /\ first > 0
    OBVIOUS
  <1> HIDE DEF P, list
  <1>3. \A i \in 1 .. n : LiesAt(P[i], first + Before(P, i))
    BY <1>1, <1>2, PiecesLie DEF P
  <1>4. ASSUME NEW i \in 1 .. n
        PROVE  /\ IndexSound(first + Before(P, i)) /\ IndexAt(first + Before(P, i)) = list[i]
               /\ cells[first + Before(P, i)] = Len(P[i])
    <2> DEFINE b == Before(P, i)
               l == Len(P[i])
    <2>1. b \in Nat /\ l \in Nat /\ Before(P, i + 1) = b + l /\ Before(P, i + 1) <= all
      <3>1. /\ i \in 1 .. Len(P) + 1 /\ i + 1 \in 1 .. Len(P) + 1 /\ n + 1 \in 1 .. Len(P) + 1
            /\ i + 1 <= n + 1 /\ i \in 1 .. Len(P)
        BY <1>1
      <3>2. QED
        BY <1>1, <3>1, BeforeFacts
    <2>2. P[i] = IndexEntry(list[i]) /\ list[i] \in IndexType /\ LiesAt(P[i], first + b)
      BY <1>1, <1>3
    <2>3. l = Len(IndexEntry(list[i]))
      BY <2>2
    <2> HIDE DEF b, l, all, end
    <2>4. first + b \in Nat \ {0} /\ first + b + l - 1 <= end
      BY <1>1, <1>2, <2>1
    <2>5. IndexSound(first + b) /\ IndexAt(first + b) = list[i] /\ cells[first + b] = l
      BY <2>2, <2>3, <2>4, IndexLies DEF end
    <2>6. QED
      BY <2>5 DEF b, l
  <1> HIDE DEF all, end
  <1>5. \A i \in 1 .. n + 1 : starts[i] = first + Before(P, i)
    <2>1. \A i \in 1 .. Len(P) : cells[first + Before(P, i)] = Len(P[i])
      BY <1>1, <1>4
    <2>2. \A i \in 1 .. Len(P) + 1 : Starts(cells, first, Len(P))[i] = first + Before(P, i)
      BY <1>1, <1>2, <2>1, StartsOfPieces
    <2>3. QED
      BY <1>1, <2>2
  <1>6. n + 1 \in 1 .. n + 1 /\ \A i \in 1 .. n : i \in 1 .. n + 1
    BY <1>1
  <1>7. QED
    BY <1>4, <1>5, <1>6 DEF P, list

-----------------------------------------------------------------------------
(* What Persist writes is what Load reads.                                 *)

\* The six cells of the header, the entries and the rest of the page.
LEMMA PageLayout ==
    ASSUME NEW c, GoodCatalog(c), UsedCells(c) <= CatalogSize, cells = PageFor(c)
    PROVE  /\ cells \in Seq(Nat)
           /\ cells[1] = MAGIC /\ cells[2] = VERSION /\ cells[3] = Cardinality(c.tables)
           /\ cells[4] = Cardinality(c.indexes) /\ cells[5] = UsedCells(c)
           /\ UsedCells(c) \in Nat
           /\ LiesAt(FlattenSeq(TablePieces(c)), HeaderCells + 1)
           /\ LiesAt(FlattenSeq(IndexPieces(c)),
                     HeaderCells + 1 + Before(TablePieces(c), Cardinality(c.tables) + 1))
  <1> DEFINE n == Cardinality(c.tables)
             m == Cardinality(c.indexes)
             F == FlattenSeq(TablePieces(c))
             G == FlattenSeq(IndexPieces(c))
             p == Before(TablePieces(c), n + 1)
             q == Before(IndexPieces(c), m + 1)
             E == CatalogEntries(c)
             used == UsedCells(c)
             head == <<MAGIC, VERSION, n, m, used, 0>>
             rest == [i \in 1 .. CatalogSize - used |-> 0]
  <1>1. /\ E \in Seq(Nat) /\ F \in Seq(Nat) /\ G \in Seq(Nat) /\ Len(F) = p
        /\ used = HeaderCells + p + q
    BY CatalogLength
  <1>2. n \in Nat /\ p \in Nat
    BY TablePiecesFacts
  <1>3. m \in Nat /\ q \in Nat
    BY IndexPiecesFacts
  <1>4. E = F \o G
    BY CatalogPieces
  <1>5. cells = head \o E \o rest
    BY DEF PageFor
  <1>6. used <= CatalogSize /\ CatalogSize \in Nat
    BY CatalogAssumption
  <1> HIDE DEF n, m, F, G, p, q, E, used
  <1>7. used \in Nat
    BY <1>1, <1>2, <1>3 DEF HeaderCells
  <1>8. /\ head \in Seq(Nat) /\ Len(head) = 6
        /\ head[1] = MAGIC /\ head[2] = VERSION /\ head[3] = n /\ head[4] = m /\ head[5] = used
    BY <1>2, <1>3, <1>7 DEF MAGIC, VERSION
  <1>9. rest \in Seq(Nat)
    BY <1>6, <1>7
  <1> HIDE DEF head, rest
  <1>10. head \o E \in Seq(Nat)
    BY <1>1, <1>8, Joined
  <1> DEFINE front == head \o E
  <1>11. front \in Seq(Nat) /\ cells = front \o rest
    BY <1>5, <1>10
  <1> HIDE DEF front
  <1>12. front \o rest \in Seq(Nat)
    BY <1>9, <1>11, Joined
  <1>13. cells \in Seq(Nat)
    BY <1>11, <1>12
  <1>14. LiesAt(front \o rest, 1)
    <2>1. \A k \in 1 .. Len(cells) : 1 + k - 1 = k /\ k \in DOMAIN cells
      BY <1>13
    <2>2. LiesAt(cells, 1)
      BY <2>1 DEF LiesAt
    <2>3. QED
      BY <1>11, <2>2
  <1>15. LiesAt(head \o E, 1)
    BY <1>9, <1>11, <1>14, PartsLie DEF front
  <1>16. LiesAt(head, 1) /\ LiesAt(E, 1 + Len(head))
    BY <1>1, <1>8, <1>15, PartsLie
  <1>17. 1 + Len(head) = HeaderCells + 1 /\ HeaderCells + 1 \in Nat
    BY <1>8 DEF HeaderCells
  <1>18. LiesAt(F, HeaderCells + 1) /\ LiesAt(G, HeaderCells + 1 + Len(F))
    <2>1. LiesAt(F \o G, HeaderCells + 1)
      BY <1>4, <1>16, <1>17
    <2>2. QED
      BY <1>1, <1>17, <2>1, PartsLie
  <1>19. \A k \in 1 .. 6 : cells[1 + k - 1] = head[k]
    BY <1>8, <1>16 DEF LiesAt
  <1>20. cells[1] = head[1] /\ cells[2] = head[2] /\ cells[3] = head[3] /\ cells[4] = head[4] /\ cells[5] = head[5]
    <2>1. \A k \in 1 .. 6 : 1 + k - 1 = k
      OBVIOUS
    <2>2. \A k \in 1 .. 6 : cells[k] = head[k]
      BY <1>19, <2>1
    <2>3. 1 \in 1 .. 6 /\ 2 \in 1 .. 6 /\ 3 \in 1 .. 6 /\ 4 \in 1 .. 6 /\ 5 \in 1 .. 6
      OBVIOUS
    <2>4. QED
      BY <2>2, <2>3
  <1>21. QED
    BY <1>1, <1>7, <1>8, <1>13, <1>18, <1>20 DEF n, m, F, G, p, used

\* What CatalogManager::Load reads from the page CatalogManager::Persist has written is
\* the catalog that was written, whatever its tables and indexes are.
THEOREM CatalogRoundTrip ==
    ASSUME NEW c, GoodCatalog(c), UsedCells(c) <= CatalogSize, cells = PageFor(c)
    PROVE  CatalogRead = c
  <1> DEFINE n == Cardinality(c.tables)
             m == Cardinality(c.indexes)
             P == TablePieces(c)
             Q == IndexPieces(c)
             p == Before(P, n + 1)
             q == Before(Q, m + 1)
             F == FlattenSeq(P)
             G == FlattenSeq(Q)
             ts == TableStarts
             is == IndexStarts
             tl == TableList(c)
             il == IndexList(c)
             used == UsedCells(c)
  <1>1. /\ cells \in Seq(Nat)
        /\ cells[1] = MAGIC /\ cells[2] = VERSION /\ cells[3] = n
        /\ cells[4] = m /\ cells[5] = used /\ used \in Nat
        /\ LiesAt(F, HeaderCells + 1) /\ LiesAt(G, HeaderCells + 1 + p)
    BY PageLayout
  <1>2. n \in Nat /\ p \in Nat /\ IsListOf(tl, n, c.tables)
    BY TablePiecesFacts, TableListFacts
  <1>3. m \in Nat /\ q \in Nat /\ IsListOf(il, m, c.indexes)
    BY IndexPiecesFacts, IndexListFacts
  <1>4. used = HeaderCells + p + q
    BY CatalogLength
  <1>5. used <= CatalogSize /\ CatalogSize \in Nat
    BY CatalogAssumption
  <1> HIDE DEF used
  <1>6. HeaderSound
    <2> HIDE DEF p, q
    <2>1. used \in HeaderCells .. CatalogSize
      BY <1>1, <1>2, <1>3, <1>4, <1>5 DEF HeaderCells
    <2>2. QED
      BY <1>1, <2>1 DEF HeaderSound
  <1>7. /\ ts[n + 1] = HeaderCells + 1 + p
        /\ \A i \in 1 .. n : TableSound(ts[i]) /\ TableAt(ts[i]) = tl[i]
    <2> DEFINE first == HeaderCells + 1
    <2>1. first \in Nat \ {0} /\ first + p - 1 <= cells[5] /\ cells[5] \in Nat
      <3> HIDE DEF p, q
      <3>1. QED
        BY <1>1, <1>2, <1>3, <1>4 DEF HeaderCells
    <2>2. ts = Starts(cells, first, n) /\ LiesAt(F, first)
      BY <1>1 DEF TableStarts
    <2> HIDE DEF first, n, ts
    <2>3. /\ ts[n + 1] = first + p
          /\ \A i \in 1 .. n : TableSound(ts[i]) /\ TableAt(ts[i]) = tl[i]
      BY <1>1, <2>1, <2>2, TablesLie DEF n
    <2>4. QED
      BY <2>3 DEF first
  <1>8. /\ is[m + 1] = HeaderCells + 1 + p + q
        /\ \A i \in 1 .. m : IndexSound(is[i]) /\ IndexAt(is[i]) = il[i]
    <2> DEFINE first == HeaderCells + 1 + p
    <2>1. first \in Nat \ {0} /\ first + q - 1 <= cells[5] /\ cells[5] \in Nat
      <3> HIDE DEF p, q
      <3>1. QED
        BY <1>1, <1>2, <1>3, <1>4 DEF HeaderCells
    <2>2. is = Starts(cells, first, m) /\ LiesAt(G, first)
      BY <1>1, <1>7 DEF IndexStarts
    <2> HIDE DEF first, m, is
    <2>3. /\ is[m + 1] = first + q
          /\ \A i \in 1 .. m : IndexSound(is[i]) /\ IndexAt(is[i]) = il[i]
      BY <1>1, <2>1, <2>2, IndexesLie DEF m
    <2>4. QED
      BY <2>3 DEF first
  <1> HIDE DEF n, m, P, Q, F, G, ts, is, tl, il
  <1>9. EntriesSound
    <2> HIDE DEF p, q
    <2>1. is[m + 1] = used + 1
      BY <1>2, <1>3, <1>4, <1>8 DEF HeaderCells
    <2>2. QED
      BY <1>1, <1>7, <1>8, <2>1 DEF EntriesSound, ts, is
  <1> HIDE DEF p, q
  <1>10. TablesRead = c.tables
    <2>1. TablesRead = {TableAt(ts[i]) : i \in {k \in 1 .. n : \A j \in 1 .. k - 1 :
                                                  TableAt(ts[j]).name # TableAt(ts[k]).name}}
      BY <1>1 DEF TablesRead, ts
    <2>2. ASSUME NEW k \in 1 .. n, NEW j \in 1 .. k - 1
          PROVE  TableAt(ts[j]).name # TableAt(ts[k]).name
      <3>1. j \in 1 .. n /\ j # k
        BY <1>2
      <3>2. tl[j] # tl[k] /\ tl[j] \in c.tables /\ tl[k] \in c.tables
        BY <1>2, <3>1 DEF IsListOf
      <3>3. tl[j].name # tl[k].name
        BY <3>2 DEF GoodCatalog, Consistent
      <3>4. QED
        BY <1>7, <3>1, <3>3
    <2>3. {k \in 1 .. n : \A j \in 1 .. k - 1 : TableAt(ts[j]).name # TableAt(ts[k]).name} = 1 .. n
      BY <2>2
    <2>4. TablesRead = {TableAt(ts[i]) : i \in 1 .. n}
      BY <2>1, <2>3
    <2>5. \A t \in TablesRead : t \in c.tables
      BY <1>2, <1>7, <2>4 DEF IsListOf
    <2>6. \A t \in c.tables : t \in TablesRead
      BY <1>2, <1>7, <2>4 DEF IsListOf
    <2>7. QED
      BY <2>5, <2>6
  <1>11. IndexesSound
    <2>1. ASSUME NEW i \in 1 .. m
          PROVE  /\ \E t \in c.tables : t.name = il[i].table /\ HasColumn(t, il[i].column)
                 /\ \A j \in 1 .. i - 1 :
                       /\ il[j].name # il[i].name
                       /\ MakeIndexKey(il[j].table, il[j].column)
                             # MakeIndexKey(il[i].table, il[i].column)
      <3>1. il[i] \in c.indexes
        BY <1>3 DEF IsListOf
      <3>2. \E t \in c.tables : t.name = il[i].table /\ HasColumn(t, il[i].column)
        BY <3>1 DEF GoodCatalog, Consistent
      <3>3. ASSUME NEW j \in 1 .. i - 1
            PROVE  /\ il[j].name # il[i].name
                   /\ MakeIndexKey(il[j].table, il[j].column)
                         # MakeIndexKey(il[i].table, il[i].column)
        <4>1. j \in 1 .. m /\ j # i
          BY <1>3
        <4>2. il[j] # il[i] /\ il[j] \in c.indexes
          BY <1>3, <4>1 DEF IsListOf
        <4>3. /\ il[j].name # il[i].name
              /\ <<il[j].table, il[j].column>> # <<il[i].table, il[i].column>>
          BY <3>1, <4>2 DEF GoodCatalog, Consistent
        <4>4. /\ il[j].table \in Names /\ il[j].column \in Names
              /\ il[i].table \in Names /\ il[i].column \in Names
          BY <3>1, <4>2 DEF GoodCatalog, IndexType
        <4>5. MakeIndexKey(il[j].table, il[j].column) # MakeIndexKey(il[i].table, il[i].column)
          <5>1. SUFFICES ASSUME MakeIndexKey(il[j].table, il[j].column)
                                   = MakeIndexKey(il[i].table, il[i].column)
                         PROVE  FALSE
            OBVIOUS
          <5>2. il[j].table = il[i].table /\ il[j].column = il[i].column
            BY <4>4, <5>1, IndexKeysDiffer
          <5>3. QED
            BY <4>3, <5>2
        <4>6. QED
          BY <4>3, <4>5
      <3>4. QED
        BY <3>2, <3>3
    <2>2. ASSUME NEW i \in 1 .. m
          PROVE  /\ IndexAt(is[i]) = il[i]
                 /\ \A j \in 1 .. i - 1 : IndexAt(is[j]) = il[j]
      <3>1. \A j \in 1 .. i - 1 : j \in 1 .. m
        BY <1>3
      <3>2. QED
        BY <1>8, <3>1
    <2> DEFINE Fits(x) == \E t \in TablesRead : t.name = x.table /\ HasColumn(t, x.column)
               Differ(x, y) == /\ y.name # x.name
                               /\ MakeIndexKey(y.table, y.column) # MakeIndexKey(x.table, x.column)
    <2>3. \A i \in 1 .. m : Fits(il[i]) /\ \A j \in 1 .. i - 1 : Differ(il[i], il[j])
      BY <1>10, <2>1
    <2>4. IndexesSound <=> \A i \in 1 .. m : /\ Fits(IndexAt(is[i]))
                                             /\ \A j \in 1 .. i - 1 : Differ(IndexAt(is[i]), IndexAt(is[j]))
      BY <1>1 DEF IndexesSound, is
    <2> HIDE DEF Fits, Differ
    <2>5. QED
      BY <2>2, <2>3, <2>4
  <1>12. {IndexAt(IndexStarts[i]) : i \in 1 .. cells[4]} = c.indexes
    <2>1. \A i \in 1 .. m : IndexAt(is[i]) \in c.indexes
      BY <1>3, <1>8 DEF IsListOf
    <2>2. \A x \in c.indexes : \E i \in 1 .. m : IndexAt(is[i]) = x
      BY <1>3, <1>8 DEF IsListOf
    <2>3. QED
      BY <1>1, <2>1, <2>2 DEF is
  <1>13. cells[1] # 0
    BY <1>1 DEF MAGIC
  <1>14. CatalogRead = [tables |-> c.tables, indexes |-> c.indexes]
    BY <1>6, <1>9, <1>10, <1>11, <1>12, <1>13 DEF CatalogRead
  <1>15. QED
    BY <1>14 DEF GoodCatalog

-----------------------------------------------------------------------------
(* What Load accepts of a page that something else has changed.            *)

\* Parts that start within the page.
LEMMA StartsStay ==
    ASSUME NEW size, NEW first \in Nat \ {0}, NEW n \in Nat, NEW limit \in Nat,
           \A p \in 1 .. limit : size[p] \in Nat,
           \A i \in 1 .. n : Starts(size, first, n)[i] \in Nat => Starts(size, first, n)[i] <= limit
    PROVE  \A i \in 1 .. n : /\ Starts(size, first, n)[i] \in 1 .. limit
                             /\ size[Starts(size, first, n)[i]] \in Nat
  <1> DEFINE s == Starts(size, first, n)
             Bad == {i \in 1 .. n : s[i] \notin 1 .. limit}
  <1>1. s[1] = first /\ \A i \in 1 .. n : s[i + 1] = s[i] + size[s[i]]
    BY StartsFacts
  <1>2. \A i \in 1 .. n : s[i] \in Nat => s[i] <= limit
    OBVIOUS
  <1> HIDE DEF s
  <1>3. Bad = {}
    <2>1. SUFFICES ASSUME Bad # {} PROVE FALSE
      OBVIOUS
    <2>2. PICK i \in Bad : \A x \in Bad : i <= x
      <3>1. Bad \subseteq Nat
        OBVIOUS
      <3> HIDE DEF Bad
      <3>2. QED
        BY <2>1, <3>1, LeastNatural
    <2>3. CASE i = 1
      <3>1. s[i] \in Nat /\ s[i] > 0
        BY <1>1, <2>3
      <3>2. QED
        BY <1>2, <2>2, <3>1
    <2>4. CASE i # 1
      <3> DEFINE j == i - 1
      <3>1. j \in 1 .. n /\ j + 1 = i /\ ~(i <= j)
        BY <2>2, <2>4
      <3>2. s[j] \in 1 .. limit
        BY <2>2, <3>1
      <3>3. size[s[j]] \in Nat
        BY <3>2
      <3>4. s[i] = s[j] + size[s[j]]
        BY <1>1, <3>1
      <3> HIDE DEF j
      <3>5. s[i] \in Nat /\ s[i] > 0
        BY <3>2, <3>3, <3>4
      <3>6. QED
        BY <1>2, <2>2, <3>5
    <2>5. QED
      BY <2>3, <2>4
  <1>4. \A i \in 1 .. n : s[i] \in 1 .. limit
    BY <1>3
  <1>5. QED
    BY <1>4 DEF s

\* A name has the length it is read with.
LEMMA NameLength ==
    ASSUME NEW at \in Nat, NEW n \in Nat
    PROVE  Len(NameAt(at, n)) = n
  <1>1. NameAt(at, n) = [k \in 1 .. (1 + (at + n - 1) - at) |-> cells[k + at - 1]]
    BY DEF NameAt
  <1>2. 1 + (at + n - 1) - at = n
    OBVIOUS
  <1>3. NameAt(at, n) = [k \in 1 .. n |-> cells[k + at - 1]]
    BY <1>1, <1>2
  <1>4. QED
    BY <1>3

\* A table that is accepted takes the cells its size says.
LEMMA TableCells ==
    ASSUME cells \in [1 .. CatalogSize -> Nat], cells[5] <= CatalogSize,
           NEW at \in 1 .. CatalogSize, TableSound(at)
    PROVE  TableNeeds(TableAt(at)) = cells[at] /\ cells[at] \in Nat
  <1> DEFINE end == cells[5]
             size == cells[at]
             m == cells[at + 1]
             n == cells[at + 2]
             last == at + size - 1
             first == at + 5 + m
             cs == ColumnStarts(at)
             cols == TableAt(at).columns
  <1>1. CatalogSize \in Nat /\ CatalogSize >= 6 /\ at \in Nat /\ at >= 1
    BY CatalogAssumption DEF HeaderCells
  <1>2. end \in Nat /\ end <= CatalogSize /\ size \in Nat
    <2>1. 5 \in 1 .. CatalogSize
      BY <1>1
    <2>2. QED
      BY <2>1
  <1>3. at + 5 - 1 <= end /\ size >= 5 /\ at + size - 1 <= end
    BY DEF TableSound, EntrySound, FitsIn, EntryCells
  <1>4. m \in Nat /\ n \in Nat
    <2>1. at + 1 \in 1 .. CatalogSize /\ at + 2 \in 1 .. CatalogSize
      <3> HIDE DEF end, size
      <3>1. QED
        BY <1>1, <1>2, <1>3
    <2>2. QED
      BY <2>1
  <1>5. LastOf(at) = last
    BY DEF LastOf
  <1>6. cs = Starts(ColumnSizes, first, n)
    BY DEF ColumnStarts, EntryCells
  <1>7. (\A i \in 1 .. n : ColumnSound(cs[i], last)) /\ cs[n + 1] = last + 1
    BY <1>5 DEF TableSound
  <1>8. last \in Nat /\ last <= CatalogSize /\ first \in Nat /\ first # 0
    <2> HIDE DEF end, size, m
    <2>1. QED
      BY <1>1, <1>2, <1>3, <1>4
  <1>9. \A p \in 1 .. CatalogSize : ColumnSizes[p] = ColumnCells + cells[p] /\ ColumnSizes[p] \in Nat
    BY DEF ColumnSizes, ColumnCells
  <1> HIDE DEF last, first, cs
  <1>10. \A i \in 1 .. n : cs[i] \in Nat => cs[i] <= CatalogSize
    <2>1. SUFFICES ASSUME NEW i \in 1 .. n, cs[i] \in Nat PROVE cs[i] <= CatalogSize
      OBVIOUS
    <2>2. cs[i] + 4 - 1 <= last
      BY <1>7 DEF ColumnSound, FitsIn, ColumnCells
    <2> DEFINE x == cs[i]
    <2>3. x \in Nat /\ x + 4 - 1 <= last
      BY <2>1, <2>2
    <2> HIDE DEF x
    <2>4. x <= CatalogSize
      BY <1>1, <1>8, <2>3
    <2>5. QED
      BY <2>4 DEF x
  <1> HIDE DEF end, size, m, n
  <1>11. \A i \in 1 .. n : cs[i] \in 1 .. CatalogSize /\ ColumnSizes[cs[i]] \in Nat
    BY <1>1, <1>4, <1>6, <1>8, <1>9, <1>10, StartsStay
  <1> DEFINE h == [i \in 1 .. n |-> ColumnSizes[cs[i]]]
             all == SumFunctionOnSet(h, 1 .. n)
  <1>12. \A i \in 1 .. n : h[i] = ColumnSizes[cs[i]] /\ h[i] \in Nat
    BY <1>11
  <1>13. h = [i \in 1 .. n |-> h[i]]
    OBVIOUS
  <1> HIDE DEF h
  <1>14. cs[n + 1] = first + all /\ all \in Nat
    <2> DEFINE z == ColumnSizes
    <2>1. n \in Nat /\ first \in Nat /\ cs = Starts(z, first, n)
      BY <1>4, <1>6, <1>8
    <2>2. \A i \in 1 .. n : h[i] = z[Starts(z, first, n)[i]]
      BY <1>12, <2>1
    <2>3. \A i \in 1 .. n : h[i] \in Nat
      BY <1>12
    <2> HIDE DEF z
    <2>4. Starts(z, first, n)[n + 1] = first + SumFunctionOnSet(h, 1 .. n)
      BY <2>1, <2>2, <2>3, StartsSum, ZenonT(40)
    <2>5. cs[n + 1] = first + SumFunctionOnSet(h, 1 .. n)
      BY <2>1, <2>4
    <2>6. n \in 0 .. n
      BY <1>4
    <2>7. SumFunctionOnSet(h, 1 .. n) \in Nat
      BY <1>4, <1>12, <2>6, PrefixSums
    <2>8. QED
      BY <2>5, <2>7
  <1>15. cols = [i \in 1 .. n |-> ColumnAt(cs[i])]
    BY DEF TableAt, n, cs
  <1> DEFINE f == [i \in DOMAIN cols |-> ColumnCells + Len(cols[i].name)]
  <1>16. \A i \in 1 .. n : f[i] = h[i]
    <2>1. SUFFICES ASSUME NEW i \in 1 .. n PROVE f[i] = h[i]
      OBVIOUS
    <2> DEFINE x == cs[i]
    <2>2. x \in 1 .. CatalogSize /\ h[i] = ColumnCells + cells[x]
      BY <1>9, <1>11, <1>12
    <2>3. f[i] = ColumnCells + Len(cols[i].name) /\ cols[i] = ColumnAt(x)
      BY <1>15
    <2>4. ColumnAt(x).name = NameAt(x + ColumnCells, cells[x])
      BY DEF ColumnAt
    <2> HIDE DEF x
    <2>5. x + ColumnCells \in Nat /\ cells[x] \in Nat
      BY <1>1, <2>2 DEF ColumnCells
    <2>6. QED
      BY <2>2, <2>3, <2>4, <2>5, NameLength
  <1>17. ColumnsNeed(cols) = all
    <2>1. ColumnsNeed(cols) = SumFunctionOnSet(f, 1 .. n)
      BY <1>15 DEF ColumnsNeed
    <2> DEFINE D == 1 .. n
    <2>2. IsFiniteSet(D)
      BY <1>4, FS_Interval
    <2>3. \A i \in D : f[i] = h[i]
      BY <1>16
    <2> HIDE DEF f, D
    <2>4. SumFunctionOnSet(f, D) = SumFunctionOnSet(h, D)
      BY <2>2, <2>3, SumAgrees
    <2>5. QED
      BY <2>1, <2>4 DEF D
  <1>18. Len(TableAt(at).name) = m
    <2>1. TableAt(at).name = NameAt(at + EntryCells, m)
      BY DEF TableAt, m
    <2>2. at + EntryCells \in Nat
      BY <1>1 DEF EntryCells
    <2>3. QED
      BY <1>4, <2>1, <2>2, NameLength
  <1>19. TableNeeds(TableAt(at)) = 5 + m + all
    BY <1>17, <1>18 DEF TableNeeds, EntryCells
  <1> HIDE DEF all
  <1>20. 5 + m + all = size
    BY <1>1, <1>2, <1>4, <1>7, <1>14 DEF last, first
  <1>21. QED
    BY <1>2, <1>19, <1>20 DEF size

\* So does an index.
LEMMA IndexCells ==
    ASSUME cells \in [1 .. CatalogSize -> Nat], cells[5] <= CatalogSize,
           NEW at \in 1 .. CatalogSize, IndexSound(at)
    PROVE  IndexNeeds(IndexAt(at)) = cells[at] /\ cells[at] \in Nat
  <1> DEFINE end == cells[5]
             size == cells[at]
             k == cells[at + 1]
             m == cells[at + 2]
             n == cells[at + 3]
  <1>1. CatalogSize \in Nat /\ CatalogSize >= 6 /\ at \in Nat /\ at >= 1
    BY CatalogAssumption DEF HeaderCells
  <1>2. end \in Nat /\ end <= CatalogSize /\ size \in Nat
    <2>1. 5 \in 1 .. CatalogSize
      BY <1>1
    <2>2. QED
      BY <2>1
  <1>3. at + 5 - 1 <= end
    BY DEF IndexSound, EntrySound, FitsIn, EntryCells
  <1>4. k \in Nat /\ m \in Nat /\ n \in Nat
    <2>1. at + 1 \in 1 .. CatalogSize /\ at + 2 \in 1 .. CatalogSize /\ at + 3 \in 1 .. CatalogSize
      <3> HIDE DEF end, size
      <3>1. QED
        BY <1>1, <1>2, <1>3
    <2>2. QED
      BY <2>1
  <1>5. at + 5 + k + m + n = at + size - 1 + 1
    BY DEF IndexSound, LastOf, ColumnNameOf, TableNameOf, EntryCells
  <1>6. /\ IndexAt(at).name = NameAt(at + 5, k)
        /\ IndexAt(at).table = NameAt(at + 5 + k, m)
        /\ IndexAt(at).column = NameAt(at + 5 + k + m, n)
    BY DEF IndexAt, ColumnNameOf, TableNameOf, EntryCells
  <1> HIDE DEF end, size, k, m, n
  <1>7. at + 5 \in Nat /\ at + 5 + k \in Nat /\ at + 5 + k + m \in Nat
    BY <1>1, <1>4
  <1>8. Len(IndexAt(at).name) = k /\ Len(IndexAt(at).table) = m /\ Len(IndexAt(at).column) = n
    BY <1>4, <1>6, <1>7, NameLength
  <1>9. IndexNeeds(IndexAt(at)) = 5 + k + m + n
    BY <1>8 DEF IndexNeeds, EntryCells
  <1>10. 5 + k + m + n = size
    BY <1>1, <1>2, <1>4, <1>5
  <1>11. QED
    BY <1>2, <1>9, <1>10 DEF size

(* The cells each entry of the page takes.                                 *)
TableSizes == [i \in 1 .. cells[3] |-> cells[TableStarts[i]]]
IndexSizes == [i \in 1 .. cells[4] |-> cells[IndexStarts[i]]]

\* The tables of a page that is accepted: the cells up to the first index are theirs.
LEMMA TablesAccepted ==
    ASSUME cells \in [1 .. CatalogSize -> Nat], HeaderSound, EntriesSound
    PROVE  /\ cells[3] \in Nat /\ \A i \in 1 .. cells[3] : TableSizes[i] \in Nat
           /\ \A i \in 1 .. cells[3] : TableNeeds(TableAt(TableStarts[i])) = TableSizes[i]
           /\ TableStarts[cells[3] + 1] = HeaderCells + 1 + SumFunctionOnSet(TableSizes, 1 .. cells[3])
           /\ SumFunctionOnSet(TableSizes, 1 .. cells[3]) \in Nat
  <1> DEFINE n == cells[3]
             h == TableSizes
             first == HeaderCells + 1
             end == cells[5]
             ts == TableStarts
  <1>1. CatalogSize \in Nat /\ CatalogSize >= 6
    BY CatalogAssumption DEF HeaderCells
  <1>2. n \in Nat /\ end \in Nat /\ end <= CatalogSize
    <2>1. 3 \in 1 .. CatalogSize
      BY <1>1
    <2>2. QED
      BY <1>1, <2>1 DEF HeaderSound, HeaderCells
  <1>3. first \in Nat /\ first # 0
    BY DEF HeaderCells
  <1>4. ts = Starts(cells, first, n) /\ \A i \in 1 .. n : TableSound(ts[i])
    BY DEF TableStarts, EntriesSound
  <1>5. \A i \in 1 .. n : h[i] = cells[ts[i]]
    BY DEF TableSizes
  <1> HIDE DEF first, ts, n, h
  <1>6. \A i \in 1 .. n : ts[i] \in Nat => ts[i] <= CatalogSize
    <2>1. SUFFICES ASSUME NEW i \in 1 .. n, ts[i] \in Nat PROVE ts[i] <= CatalogSize
      OBVIOUS
    <2> DEFINE x == ts[i]
    <2>2. x \in Nat /\ x + 5 - 1 <= end
      BY <1>4, <2>1 DEF TableSound, EntrySound, FitsIn, EntryCells
    <2> HIDE DEF x, end
    <2>3. x <= CatalogSize
      BY <1>1, <1>2, <2>2
    <2>4. QED
      BY <2>3 DEF x
  <1>7. \A p \in 1 .. CatalogSize : cells[p] \in Nat
    OBVIOUS
  <1>8. \A i \in 1 .. n : ts[i] \in 1 .. CatalogSize /\ cells[ts[i]] \in Nat
    BY <1>1, <1>2, <1>3, <1>4, <1>6, <1>7, StartsStay
  <1>9. \A i \in 1 .. n : h[i] \in Nat
    BY <1>8, <1>5
  <1>10. \A i \in 1 .. n : TableNeeds(TableAt(ts[i])) = h[i]
    BY <1>2, <1>4, <1>8, <1>5, TableCells DEF end
  <1>11. \A i \in 1 .. n : h[i] = cells[Starts(cells, first, n)[i]]
    BY <1>4, <1>5
  <1>12. Starts(cells, first, n)[n + 1] = first + SumFunctionOnSet(h, 1 .. n)
    <2> DEFINE size == cells
    <2>1. \A i \in 1 .. n : h[i] = size[Starts(size, first, n)[i]]
      BY <1>11
    <2> HIDE DEF size
    <2>2. Starts(size, first, n)[n + 1] = first + SumFunctionOnSet(h, 1 .. n)
      BY <1>2, <1>3, <1>9, <2>1, StartsSum, ZenonT(40)
    <2>3. QED
      BY <2>2 DEF size
  <1>13. SumFunctionOnSet(h, 1 .. n) \in Nat
    <2>1. n \in 0 .. n
      BY <1>2
    <2>2. QED
      BY <1>2, <1>9, <2>1, PrefixSums
  <1>14. QED
    BY <1>2, <1>4, <1>9, <1>10, <1>12, <1>13 DEF first, ts, n, h

\* Its indexes: the cells from there up to the end of the used part are theirs.
LEMMA IndexesAccepted ==
    ASSUME cells \in [1 .. CatalogSize -> Nat], HeaderSound, EntriesSound
    PROVE  /\ cells[4] \in Nat /\ \A i \in 1 .. cells[4] : IndexSizes[i] \in Nat
           /\ \A i \in 1 .. cells[4] : IndexNeeds(IndexAt(IndexStarts[i])) = IndexSizes[i]
           /\ cells[5] = HeaderCells + SumFunctionOnSet(TableSizes, 1 .. cells[3])
                             + SumFunctionOnSet(IndexSizes, 1 .. cells[4])
           /\ SumFunctionOnSet(IndexSizes, 1 .. cells[4]) \in Nat
  <1> DEFINE n == cells[4]
             h == IndexSizes
             first == TableStarts[cells[3] + 1]
             passed == SumFunctionOnSet(TableSizes, 1 .. cells[3])
             end == cells[5]
             is == IndexStarts
  <1>1. CatalogSize \in Nat /\ CatalogSize >= 6
    BY CatalogAssumption DEF HeaderCells
  <1>2. n \in Nat /\ end \in Nat /\ end <= CatalogSize
    <2>1. 4 \in 1 .. CatalogSize
      BY <1>1
    <2>2. QED
      BY <1>1, <2>1 DEF HeaderSound, HeaderCells
  <1>3. first = HeaderCells + 1 + passed /\ passed \in Nat /\ first \in Nat /\ first # 0
    <2>1. first = HeaderCells + 1 + passed /\ passed \in Nat
      BY TablesAccepted
    <2> HIDE DEF first, passed
    <2>2. QED
      BY <2>1 DEF HeaderCells
  <1>4. /\ is = Starts(cells, first, n) /\ \A i \in 1 .. n : IndexSound(is[i])
        /\ is[n + 1] = end + 1
    BY DEF IndexStarts, EntriesSound
  <1>5. \A i \in 1 .. n : h[i] = cells[is[i]]
    BY DEF IndexSizes
  <1> HIDE DEF is, n, h, first, passed
  <1>6. \A i \in 1 .. n : is[i] \in Nat => is[i] <= CatalogSize
    <2>1. SUFFICES ASSUME NEW i \in 1 .. n, is[i] \in Nat PROVE is[i] <= CatalogSize
      OBVIOUS
    <2> DEFINE x == is[i]
    <2>2. x \in Nat /\ x + 5 - 1 <= end
      BY <1>4, <2>1 DEF IndexSound, EntrySound, FitsIn, EntryCells
    <2> HIDE DEF x, end
    <2>3. x <= CatalogSize
      BY <1>1, <1>2, <2>2
    <2>4. QED
      BY <2>3 DEF x
  <1>7. \A p \in 1 .. CatalogSize : cells[p] \in Nat
    OBVIOUS
  <1>8. \A i \in 1 .. n : is[i] \in 1 .. CatalogSize /\ cells[is[i]] \in Nat
    BY <1>1, <1>2, <1>3, <1>4, <1>6, <1>7, StartsStay
  <1>9. \A i \in 1 .. n : h[i] \in Nat
    BY <1>8, <1>5
  <1>10. \A i \in 1 .. n : IndexNeeds(IndexAt(is[i])) = h[i]
    BY <1>2, <1>4, <1>8, <1>5, IndexCells DEF end
  <1>11. \A i \in 1 .. n : h[i] = cells[Starts(cells, first, n)[i]]
    BY <1>4, <1>5
  <1>12. Starts(cells, first, n)[n + 1] = first + SumFunctionOnSet(h, 1 .. n)
    <2> DEFINE size == cells
    <2>1. \A i \in 1 .. n : h[i] = size[Starts(size, first, n)[i]]
      BY <1>11
    <2> HIDE DEF size
    <2>2. n \in Nat /\ first \in Nat
      BY <1>2, <1>3
    <2>3. Starts(size, first, n)[n + 1] = first + SumFunctionOnSet(h, 1 .. n)
      BY <1>9, <2>1, <2>2, StartsSum, ZenonT(40)
    <2>4. QED
      BY <2>3 DEF size
  <1>13. SumFunctionOnSet(h, 1 .. n) \in Nat
    <2>1. n \in 0 .. n
      BY <1>2
    <2>2. QED
      BY <1>2, <1>9, <2>1, PrefixSums
  <1>14. end = HeaderCells + passed + SumFunctionOnSet(h, 1 .. n)
    <2> DEFINE sum == SumFunctionOnSet(h, 1 .. n)
    <2>1. end + 1 = first + sum /\ sum \in Nat
      BY <1>4, <1>12, <1>13
    <2> HIDE DEF sum, end
    <2>2. end = HeaderCells + passed + sum
      BY <1>2, <1>3, <2>1 DEF HeaderCells
    <2>3. QED
      BY <2>2 DEF sum
  <1>15. QED
    BY <1>2, <1>9, <1>10, <1>13, <1>14 DEF end, is, n, h, passed

\* The first numbers are as many as the last of them says.
LEMMA IntervalSize ==
    ASSUME NEW n \in Nat
    PROVE  IsFiniteSet(1 .. n) /\ Cardinality(1 .. n) = n
  <1>1. Cardinality(1 .. n) = IF 1 > n THEN 0 ELSE n - 1 + 1
    BY FS_Interval
  <1>2. IsFiniteSet(1 .. n)
    BY FS_Interval
  <1>3. QED
    BY <1>1, <1>2

\* The tables read are as many as there are entries only if no two have one name.
LEMMA TablesReadFacts ==
    ASSUME NEW n, n = cells[3], n \in Nat
    PROVE  /\ \A t, u \in TablesRead : t.name = u.name => t = u
           /\ Cardinality(TablesRead) = n =>
                 IsListOf([i \in 1 .. n |-> TableAt(TableStarts[i])], n, TablesRead)
  <1> DEFINE T(i) == TableAt(TableStarts[i])
             F == {k \in 1 .. n : \A j \in 1 .. k - 1 : T(j).name # T(k).name}
  <1>1. TablesRead = {T(i) : i \in F}
    BY DEF TablesRead
  <1> HIDE DEF T
  <1>2. ASSUME NEW t \in TablesRead, NEW u \in TablesRead, t.name = u.name
        PROVE  t = u
    <2>1. PICK i \in F : t = T(i)
      BY <1>1
    <2>2. PICK k \in F : u = T(k)
      BY <1>1
    <2>3. ~(i < k)
      <3>1. SUFFICES ASSUME i < k PROVE FALSE
        OBVIOUS
      <3>2. i \in 1 .. k - 1
        BY <3>1
      <3>3. QED
        BY <1>2, <2>1, <2>2, <3>2
    <2>4. ~(k < i)
      <3>1. SUFFICES ASSUME k < i PROVE FALSE
        OBVIOUS
      <3>2. k \in 1 .. i - 1
        BY <3>1
      <3>3. QED
        BY <1>2, <2>1, <2>2, <3>2
    <2>5. i = k
      BY <2>3, <2>4
    <2>6. QED
      BY <2>1, <2>2, <2>5
  <1>3. ASSUME Cardinality(TablesRead) = n
        PROVE  IsListOf([i \in 1 .. n |-> T(i)], n, TablesRead)
    <2>1. IsFiniteSet(1 .. n) /\ Cardinality(1 .. n) = n
      BY IntervalSize
    <2> DEFINE g == [k \in F |-> T(k)]
               D == 1 .. n
    <2>2. F \in SUBSET D
      OBVIOUS
    <2>3. g \in Surjection(F, TablesRead)
      BY <1>1 DEF Surjection
    <2> HIDE DEF F, g, D
    <2>4. IsFiniteSet(F) /\ Cardinality(F) <= n /\ (Cardinality(F) = n => F = D)
      <3>1. IsFiniteSet(D) /\ Cardinality(D) = n
        BY <2>1 DEF D
      <3>2. QED
        BY <2>2, <3>1, FS_Subset
    <2>5. n <= Cardinality(F) /\ Cardinality(F) \in Nat
      <3>1. Cardinality(TablesRead) <= Cardinality(F)
        BY <2>3, <2>4, FS_Surjection
      <3>2. QED
        BY <1>3, <2>4, <3>1, FS_CardinalityType
    <2>6. F = D
      BY <2>4, <2>5
    <2>7. \A i, j \in 1 .. n : T(i) = T(j) => i = j
      <3>1. SUFFICES ASSUME NEW i \in 1 .. n, NEW j \in 1 .. n, T(i) = T(j), i # j PROVE FALSE
        OBVIOUS
      <3>2. i \in F /\ j \in F
        BY <2>6 DEF D
      <3>3. CASE i < j
        <4>1. i \in 1 .. j - 1
          BY <3>3
        <4>2. QED
          BY <3>1, <3>2, <4>1 DEF F
      <3>4. CASE j < i
        <4>1. j \in 1 .. i - 1
          BY <3>4
        <4>2. QED
          BY <3>1, <3>2, <4>1 DEF F
      <3>5. QED
        BY <3>1, <3>3, <3>4
    <2> DEFINE s == [i \in 1 .. n |-> T(i)]
    <2>8. TablesRead = {T(i) : i \in 1 .. n}
      BY <1>1, <2>6 DEF D
    <2>9. s \in [1 .. n -> TablesRead] /\ \A i \in 1 .. n : s[i] = T(i)
      BY <2>8
    <2>10. \A t \in TablesRead : \E i \in 1 .. n : s[i] = t
      BY <2>8, <2>9
    <2> HIDE DEF s
    <2>11. IsListOf(s, n, TablesRead)
      BY <2>7, <2>9, <2>10 DEF IsListOf
    <2>12. QED
      BY <2>11 DEF s
  <1>4. QED
    BY <1>2, <1>3 DEF T

\* Of a page whatever is in it, Load accepts only tables and indexes that fit together,
\* and, unless a table is there twice, whose entries take the cells the header says.
THEOREM ForeignRead ==
    ASSUME cells \in [1 .. CatalogSize -> Nat], CatalogRead \notin {Corrupted, NoCatalog}
    PROVE  /\ Consistent(CatalogRead)
           /\ Cardinality(CatalogRead.tables) = cells[3] => CellsNeeded(CatalogRead) = cells[5]
  <1> DEFINE IR == {IndexAt(IndexStarts[i]) : i \in 1 .. cells[4]}
             c == [tables |-> TablesRead, indexes |-> IR]
  <1>1. HeaderSound /\ EntriesSound /\ IndexesSound /\ CatalogRead = c
    BY DEF CatalogRead
  <1> DEFINE n == cells[3]
             m == cells[4]
             T(i) == TableAt(TableStarts[i])
             X(i) == IndexAt(IndexStarts[i])
             h == TableSizes
             g == IndexSizes
             a == SumFunctionOnSet(h, 1 .. n)
             b == SumFunctionOnSet(g, 1 .. m)
  <1>2. /\ n \in Nat /\ \A i \in 1 .. n : h[i] \in Nat
        /\ \A i \in 1 .. n : TableNeeds(T(i)) = h[i]
    BY <1>1, TablesAccepted
  <1>3. /\ m \in Nat /\ \A i \in 1 .. m : g[i] \in Nat
        /\ \A i \in 1 .. m : IndexNeeds(X(i)) = g[i]
        /\ cells[5] = HeaderCells + a + b
    BY <1>1, IndexesAccepted
  <1>4. IR = {X(i) : i \in 1 .. m}
    OBVIOUS
  <1>5. \A i \in 1 .. m : /\ \E t \in TablesRead : t.name = X(i).table /\ HasColumn(t, X(i).column)
                          /\ \A j \in 1 .. i - 1 :
                                /\ X(j).name # X(i).name
                                /\ MakeIndexKey(X(j).table, X(j).column)
                                      # MakeIndexKey(X(i).table, X(i).column)
    BY <1>1 DEF IndexesSound
  <1> HIDE DEF X, IR
  <1>6. ASSUME NEW i \in 1 .. m, NEW j \in 1 .. m,
               \/ X(i).name = X(j).name
               \/ <<X(i).table, X(i).column>> = <<X(j).table, X(j).column>>
        PROVE  i = j
    <2>1. ASSUME NEW k \in 1 .. m, NEW l \in 1 .. k - 1
          PROVE  /\ X(l).name # X(k).name
                 /\ <<X(l).table, X(l).column>> # <<X(k).table, X(k).column>>
      BY <1>5
    <2>2. ~(i < j)
      <3>1. SUFFICES ASSUME i < j PROVE FALSE
        OBVIOUS
      <3>2. i \in 1 .. j - 1
        BY <3>1
      <3>3. QED
        BY <1>6, <2>1, <3>2
    <2>3. ~(j < i)
      <3>1. SUFFICES ASSUME j < i PROVE FALSE
        OBVIOUS
      <3>2. j \in 1 .. i - 1
        BY <3>1
      <3>3. QED
        BY <1>6, <2>1, <3>2
    <2>4. QED
      BY <2>2, <2>3
  <1>7. Consistent(c)
    <2>1. \A t, u \in TablesRead : t.name = u.name => t = u
      BY <1>2, TablesReadFacts
    <2>2. ASSUME NEW x \in IR, NEW y \in IR,
                 x.name = y.name \/ <<x.table, x.column>> = <<y.table, y.column>>
          PROVE  x = y
      <3>1. PICK i \in 1 .. m : x = X(i)
        BY <1>4
      <3>2. PICK j \in 1 .. m : y = X(j)
        BY <1>4
      <3>3. i = j
        BY <1>6, <2>2, <3>1, <3>2
      <3>4. QED
        BY <3>1, <3>2, <3>3
    <2>3. \A x \in IR : \E t \in TablesRead : t.name = x.table /\ HasColumn(t, x.column)
      BY <1>4, <1>5
    <2>4. QED
      BY <2>1, <2>2, <2>3 DEF Consistent
  <1>8. ASSUME Cardinality(TablesRead) = n PROVE CellsNeeded(c) = cells[5]
    <2> DEFINE s == [i \in 1 .. n |-> T(i)]
               f == [t \in TablesRead |-> TableNeeds(t)]
               r == [i \in 1 .. m |-> X(i)]
               e == [x \in IR |-> IndexNeeds(x)]
    <2>1. IsListOf(s, n, TablesRead)
      BY <1>2, <1>8, TablesReadFacts
    <2>2. IsListOf(r, m, IR)
      <3>1. r \in [1 .. m -> IR] /\ \A i \in 1 .. m : r[i] = X(i)
        BY <1>4
      <3>2. \A x \in IR : \E i \in 1 .. m : r[i] = x
        BY <1>4, <3>1
      <3>3. \A i, j \in 1 .. m : r[i] = r[j] => i = j
        BY <1>6, <3>1
      <3> HIDE DEF r
      <3>4. QED
        BY <3>1, <3>2, <3>3 DEF IsListOf
    <2>3. \A i \in 1 .. n : s[i] = T(i) /\ s[i] \in TablesRead
      BY <2>1 DEF IsListOf
    <2>4. \A i \in 1 .. m : r[i] = X(i) /\ r[i] \in IR
      BY <2>2 DEF IsListOf
    <2>5. \A t \in TablesRead : f[t] = TableNeeds(t)
      OBVIOUS
    <2>6. \A x \in IR : e[x] = IndexNeeds(x)
      OBVIOUS
    <2>7. CellsNeeded(c) = HeaderCells + SumFunctionOnSet(f, TablesRead) + SumFunctionOnSet(e, IR)
      BY DEF CellsNeeded
    <2> HIDE DEF s, f, r, e, h, g, T
    <2>8. \A i \in 1 .. n : h[i] = f[s[i]]
      BY <1>2, <2>3, <2>5
    <2>9. \A i \in 1 .. m : g[i] = e[r[i]]
      BY <1>3, <2>4, <2>6
    <2>10. \A t \in TablesRead : f[t] \in Nat
      BY <1>2, <2>1, <2>8 DEF IsListOf
    <2>11. \A x \in IR : e[x] \in Nat
      BY <1>3, <2>2, <2>9 DEF IsListOf
    <2>12. a = SumFunctionOnSet(f, TablesRead)
      BY <1>2, <2>1, <2>8, <2>10, SumOfList
    <2>13. b = SumFunctionOnSet(e, IR)
      BY <1>3, <2>2, <2>9, <2>11, SumOfList
    <2>14. QED
      BY <1>3, <2>7, <2>12, <2>13
  <1>9. QED
    BY <1>1, <1>7, <1>8

(* The inductive invariant: which catalog Persist writes, which page Load  *)
(* reads, and that what was loaded so far survived.                        *)
CatalogPageInv ==
    /\ phase \in {"changed", "full", "written", "reopened"} => stored \in Catalogs
    /\ phase = "written" => UsedCells(stored) <= CatalogSize /\ cells = PageFor(stored)
    /\ phase = "foreign" => cells \in ForeignPages
    /\ CatalogSurvives

\* What CatalogAssumption says of each of the catalogs.
LEMMA CatalogsAreGood == \A c \in Catalogs : GoodCatalog(c)
  BY CatalogAssumption DEF GoodCatalog

\* A manager that has changed its catalog, or a page that something else has written.
LEMMA CatalogInitInv == CatalogInit => CatalogPageInv
  BY DEF CatalogInit, CatalogPageInv, CatalogSurvives

\* Persist refuses a catalog only because its entries need more than a page.
LEMMA CatalogFullKeeps ==
    ASSUME CatalogPageInv, CatalogFull
    PROVE  CatalogPageInv'
  <1>1. stored \in Catalogs /\ UsedCells(stored) > CatalogSize
    BY DEF CatalogPageInv, CatalogFull
  <1>2. UsedCells(stored) = CellsNeeded(stored)
    BY <1>1, CatalogsAreGood, CatalogLength
  <1>3. CellsNeeded(stored) > CatalogSize
    BY <1>1, <1>2
  <1>4. stored' = stored /\ phase' = "full"
    BY DEF CatalogFull
  <1>5. CellsNeeded(stored') > CatalogSize
    BY <1>3, <1>4
  <1>6. CatalogSurvives'
    BY <1>4, <1>5 DEF CatalogSurvives
  <1>7. QED
    BY <1>1, <1>4, <1>6 DEF CatalogPageInv

\* Persist writes the page of the catalog the manager has.
LEMMA PersistPageKeeps ==
    ASSUME CatalogPageInv, PersistPage
    PROVE  CatalogPageInv'
  <1>1. stored \in Catalogs /\ UsedCells(stored) <= CatalogSize
    BY DEF CatalogPageInv, PersistPage
  <1>2. stored' = stored /\ phase' = "written" /\ cells' = PageFor(stored)
    BY DEF PersistPage
  <1>3. UsedCells(stored') <= CatalogSize /\ cells' = PageFor(stored')
    BY <1>1, <1>2
  <1>4. CatalogSurvives'
    BY <1>2 DEF CatalogSurvives
  <1>5. QED
    BY <1>1, <1>2, <1>3, <1>4 DEF CatalogPageInv

\* Load reads the page Persist has written, or a page whatever is in it.
LEMMA LoadPageKeeps ==
    ASSUME CatalogPageInv, LoadPage
    PROVE  CatalogPageInv'
  <1>1. stored' = stored /\ cells' = cells /\ loaded' = CatalogRead
    BY DEF LoadPage
  <1>2. CASE phase = "written"
    <2>1. phase' = "reopened" /\ stored \in Catalogs
      BY <1>2 DEF LoadPage, CatalogPageInv
    <2>2. GoodCatalog(stored) /\ UsedCells(stored) <= CatalogSize /\ cells = PageFor(stored)
      BY <1>2, <2>1, CatalogsAreGood DEF CatalogPageInv
    <2>3. CatalogRead = stored
      BY <2>2, CatalogRoundTrip
    <2>4. loaded' = stored'
      BY <1>1, <2>3
    <2>5. CatalogSurvives'
      BY <2>1, <2>4 DEF CatalogSurvives
    <2>6. QED
      BY <1>1, <2>1, <2>5 DEF CatalogPageInv
  <1>3. CASE phase = "foreign"
    <2>1. phase' = "opened"
      BY <1>3 DEF LoadPage
    <2>2. cells \in [1 .. CatalogSize -> Nat]
      BY <1>3, CatalogAssumption DEF CatalogPageInv
    <2>3. ASSUME loaded' \notin {Corrupted, NoCatalog}
          PROVE  /\ Consistent(loaded')
                 /\ Cardinality(loaded'.tables) = cells'[3] => CellsNeeded(loaded') = cells'[5]
      <3>1. CatalogRead \notin {Corrupted, NoCatalog}
        BY <1>1, <2>3
      <3>2. /\ Consistent(CatalogRead)
            /\ Cardinality(CatalogRead.tables) = cells[3] => CellsNeeded(CatalogRead) = cells[5]
        BY <2>2, <3>1, ForeignRead
      <3>3. QED
        BY <1>1, <3>2
    <2>4. CatalogSurvives'
      BY <2>1, <2>3 DEF CatalogSurvives, Corrupted, NoCatalog
    <2>5. QED
      BY <1>1, <2>1, <2>4 DEF CatalogPageInv
  <1>4. QED
    BY <1>2, <1>3 DEF LoadPage

\* Every step keeps the invariant.
LEMMA CatalogStepInv == CatalogPageInv /\ [CatalogNext]_catalogVars => CatalogPageInv'
  <1> SUFFICES ASSUME CatalogPageInv, [CatalogNext]_catalogVars PROVE CatalogPageInv'
    OBVIOUS
  <1>1. CASE PersistPage
    BY <1>1, PersistPageKeeps
  <1>2. CASE CatalogFull
    BY <1>2, CatalogFullKeeps
  <1>3. CASE LoadPage
    BY <1>3, LoadPageKeeps
  <1>4. CASE UNCHANGED catalogVars
    BY <1>4 DEF catalogVars, CatalogPageInv, CatalogSurvives
  <1>5. QED
    BY <1>1, <1>2, <1>3, <1>4 DEF CatalogNext

\* The page of the catalog always holds what Persist has written to it, whatever the
\* tables and indexes are, and what was loaded is what was stored.
THEOREM CatalogPageInvariance == CatalogSpec => []CatalogPageInv
  BY CatalogInitInv, CatalogStepInv, PTL DEF CatalogSpec

\* CatalogManager::Persist and CatalogManager::Load: for every catalog and every size of
\* the page, a catalog that is written is loaded again, only one that needs more than a
\* page is refused, and of a page with any cells at all Load accepts only tables and
\* indexes that fit together and take exactly the cells the header says.
THEOREM CatalogAlwaysSurvives == CatalogSpec => []CatalogSurvives
  <1>1. CatalogPageInv => CatalogSurvives
    BY DEF CatalogPageInv
  <1>2. QED
    BY <1>1, CatalogPageInvariance, PTL
=============================================================================
