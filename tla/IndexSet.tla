------------------------------- MODULE IndexSet -------------------------------
(***************************************************************************)
(* What a hash index promises: a set of entries, key and record identifier *)
(* ("IndexSet" because an entry is there once or not at all).  A request   *)
(* takes effect at one point between its call and its return, and one that *)
(* reports "error" has changed nothing, except that removing all entries   *)
(* of a key may stop half-way.                                             *)
(***************************************************************************)
CONSTANTS Keys, RecordIDs

VARIABLES index,     \* the entries
          request,   \* what is asked for, NoRequest between calls
          result     \* what the last request has reported

NoRequest == <<>>
Requests == ({"insert", "remove"} \X Keys \X RecordIDs) \cup ({"remove all"} \X Keys)

Call == /\ request = NoRequest /\ request' \in Requests
        /\ UNCHANGED <<index, result>>

Report(status) == request' = NoRequest /\ result' = status

Insert(k, r) == /\ request = <<"insert", k, r>>
                /\ index' = index \cup {<<k, r>>}
                /\ Report("ok")

Remove(k, r) == /\ request = <<"remove", k, r>> /\ <<k, r>> \in index
                /\ index' = index \ {<<k, r>>}
                /\ Report("ok")

(* Remove(key) takes the entries of the key page by page.                  *)
Taken(k, S) == S \subseteq {e \in index : e[1] = k} /\ index' = index \ S

RemoveSome(k) == /\ request = <<"remove all", k>>
                 /\ \E S \in SUBSET index : Taken(k, S)
                 /\ UNCHANGED <<request, result>>

RemoveRest(k) == /\ request = <<"remove all", k>>
                 /\ \E S \in SUBSET index : Taken(k, S)
                 /\ \A e \in index' : e[1] # k
                 /\ Report("ok")

Refuse == /\ request \in Requests \cup {NoRequest}
          /\ Report("error") /\ UNCHANGED index

(* The index is dropped as a whole, and nothing is promised about it from  *)
(* then on except that it is empty.                                        *)
Drop == /\ request = NoRequest /\ request' = <<"destroy">>
        /\ index' = {} /\ UNCHANGED result
Dropped == /\ request = <<"destroy">> /\ request' = NoRequest
           /\ UNCHANGED <<index, result>>

IndexInit == index = {} /\ request = NoRequest /\ result = "ok"

IndexNext == \/ Call \/ Refuse \/ Drop \/ Dropped
             \/ \E k \in Keys : \/ RemoveSome(k) \/ RemoveRest(k)
                                \/ \E r \in RecordIDs : Insert(k, r) \/ Remove(k, r)

IndexSpec == IndexInit /\ [][IndexNext]_<<index, request, result>>
=============================================================================
