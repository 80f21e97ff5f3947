------------------------------ MODULE MCHeapFile ------------------------------
(* Model checking of HeapFile: three pages with room for two small records *)
(* or one large one, and a record that fits nowhere.  The chain grows to   *)
(* three pages, later pages empty while earlier ones are full, and the     *)
(* device runs out of pages.                                               *)
EXTENDS HeapFile

MCRecords == {[tag |-> "a", size |-> 1], [tag |-> "b", size |-> 4],
              [tag |-> "c", size |-> 5]}
=============================================================================
