------------------------------ MODULE MCHashIndex ------------------------------
(* Model checking of HashIndex: two keys share a bucket and one has its    *)
(* own; bucket pages hold one entry, so that chains grow to three pages,   *)
(* earlier pages get space again, and the device runs out of pages.        *)
EXTENDS HashIndex

CONSTANTS k1, k2, k3

MCKeys == {k1, k2, k3}
MCBucketOf == [k \in MCKeys |-> IF k = k3 THEN 1 ELSE 0]
=============================================================================
