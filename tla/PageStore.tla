------------------------------ MODULE PageStore ------------------------------
(***************************************************************************)
(* What the buffer pool promises to the layers above it: a set of pages    *)
(* that can be allocated, pinned, written while pinned, and deleted, with  *)
(* contents that nothing but a write changes, and a durable copy that lags *)
(* behind until pages are synchronised with it.  There are no frames, no   *)
(* eviction and no dirty bits.  A restart brings back the durable copy;    *)
(* pages whose durable copy is all zeroes are then no longer allocated.    *)
(***************************************************************************)
EXTENDS Integers

CONSTANTS MaxPages, Data, Zero

VARIABLES store,      \* contents as the clients see them
          durable,    \* contents of the file
          allocated,  \* pages in use
          pins        \* how often each page is pinned

storeVars == <<store, durable, allocated, pins>>

PageIds == 0 .. MaxPages - 1
HEADER_PAGE_ID == 0

(* The pages of S reach the file.                                          *)
Synced(S) == [p \in PageIds |-> IF p \in S THEN store[p] ELSE durable[p]]

(* A page may be written to the file at any time, as long as it is in use. *)
Sync(S) == /\ S \subseteq allocated
           /\ durable' = Synced(S)
           /\ UNCHANGED <<store, allocated, pins>>

(* Pinning and allocating may push one other page, unpinned, to the file.  *)
Evictable(q) == {S \in {{}, {q}} : S \subseteq allocated /\ \A r \in S : pins[r] = 0}

PinPage(p) == /\ p \in allocated
              /\ pins' = [pins EXCEPT ![p] = @ + 1]
              /\ \E q \in PageIds : \E S \in Evictable(q) : durable' = Synced(S)
              /\ UNCHANGED <<store, allocated>>

Release(p) == /\ pins[p] > 0
              /\ pins' = [pins EXCEPT ![p] = @ - 1]
              /\ UNCHANGED <<store, durable, allocated>>

Write(p, v) == /\ pins[p] > 0
               /\ store' = [store EXCEPT ![p] = v]
               /\ UNCHANGED <<durable, allocated, pins>>

(* A new page is empty, and is pinned by whoever asked for it.             *)
Allocate(p) == /\ p \notin allocated
               /\ allocated' = allocated \cup {p}
               /\ store' = [store EXCEPT ![p] = Zero]
               /\ pins' = [pins EXCEPT ![p] = 1]
               /\ \E q \in PageIds : \E S \in Evictable(q) :
                      durable' = [Synced(S) EXCEPT ![p] = Zero]

(* Only an unpinned page other than the header page can be deleted.        *)
Delete(p) == /\ p \in allocated \ {HEADER_PAGE_ID} /\ pins[p] = 0
             /\ allocated' = allocated \ {p}
             /\ store' = [store EXCEPT ![p] = Zero]
             /\ durable' = [durable EXCEPT ![p] = Zero]
             /\ UNCHANGED pins

(* A deletion the file refused: the page stays allocated, and changes that *)
(* were not durable are gone.                                              *)
DeleteRefused(p) == /\ p \in allocated \ {HEADER_PAGE_ID} /\ pins[p] = 0
                    /\ \E v \in {durable[p], Zero} :
                          /\ store' = [store EXCEPT ![p] = v]
                          /\ durable' = [durable EXCEPT ![p] = v]
                    /\ UNCHANGED <<allocated, pins>>

Reopen(S) == /\ S \subseteq allocated
             /\ durable' = Synced(S)
             /\ store' = durable'
             /\ allocated' = {HEADER_PAGE_ID}
                                \cup {p \in allocated : durable'[p] # Zero}
             /\ pins' = [p \in PageIds |-> 0]

StoreInit == /\ store = [p \in PageIds |-> Zero]
             /\ durable = [p \in PageIds |-> Zero]
             /\ allocated = {HEADER_PAGE_ID}
             /\ pins = [p \in PageIds |-> 0]

StoreNext == \/ \E p \in PageIds : \/ PinPage(p) \/ Release(p) \/ Allocate(p)
                                   \/ Delete(p) \/ DeleteRefused(p)
                                   \/ \E v \in Data : Write(p, v)
             \/ \E S \in SUBSET PageIds : Sync(S) \/ Reopen(S)

StoreSpec == StoreInit /\ [][StoreNext]_storeVars
=============================================================================
