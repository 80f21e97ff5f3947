---------------------------- MODULE MCClockSweep ----------------------------
(* Model checking of ClockSweep.  With four frames each loop meets frames  *)
(* out of the replacer, referenced and unreferenced ones, in every order.  *)
EXTENDS ClockSweep
=============================================================================
