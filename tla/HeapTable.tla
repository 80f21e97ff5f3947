------------------------------- MODULE HeapTable -------------------------------
(***************************************************************************)
(* What a heap file promises: a set of records under identifiers that do   *)
(* not change while the record lives.  A request either takes effect at    *)
(* the moment it reports "ok", with the record and the identifier asked    *)
(* for, or changes nothing and reports "error".                            *)
(***************************************************************************)
CONSTANTS RecordIDs, Records, None

VARIABLES table,    \* [RecordIDs -> Records \cup {None}]
          request,  \* what is asked for, NoRequest between calls
          result    \* what the last request has reported

NoRequest == <<>>
Requests == ({"insert"} \X Records) \cup ({"update"} \X RecordIDs \X Records)
               \cup ({"delete"} \X RecordIDs)

Call == /\ request = NoRequest /\ request' \in Requests
        /\ UNCHANGED <<table, result>>

(* A request that takes one step is called and answered in that step.      *)
Asked(what) == request \in {NoRequest, what}
Report(status) == request' = NoRequest /\ result' = status

(* The identifier of a new record is the table's choice.                   *)
InsertRecord(rid, r) == /\ Asked(<<"insert", r>>) /\ Report("ok")
                        /\ table[rid] = None
                        /\ table' = [table EXCEPT ![rid] = r]

UpdateRecord(rid, r) == /\ Asked(<<"update", rid, r>>) /\ Report("ok")
                        /\ table[rid] # None
                        /\ table' = [table EXCEPT ![rid] = r]

DeleteRecord(rid) == /\ Asked(<<"delete", rid>>) /\ Report("ok")
                     /\ table[rid] # None
                     /\ table' = [table EXCEPT ![rid] = None]

Refuse == Report("error") /\ UNCHANGED table

TableInit == /\ table = [rid \in RecordIDs |-> None]
             /\ request = NoRequest
             /\ result = "ok"

TableNext == \/ \E rid \in RecordIDs :
                  \/ DeleteRecord(rid)
                  \/ \E r \in Records : InsertRecord(rid, r) \/ UpdateRecord(rid, r)
             \/ Call \/ Refuse

TableSpec == TableInit /\ [][TableNext]_<<table, request, result>>
=============================================================================
