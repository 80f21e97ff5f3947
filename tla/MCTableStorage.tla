---------------------------- MODULE MCTableStorage ----------------------------
(* Model checking of TableStorage: two rows and two indexes, so that a     *)
(* failure at the second index finds work of the first one to undo; keys   *)
(* are shared by both rows, and change from and to NULL.  With MaxErrors = *)
(* 2 the rollback may fail as well.                                        *)
EXTENDS TableStorage
=============================================================================
