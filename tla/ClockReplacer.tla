--------------------------- MODULE ClockReplacer ---------------------------
(***************************************************************************)
(* The Clock replacement policy of the buffer pool                         *)
(* (src/src/buffer/clock_replacer.cpp): a circular hand over the frames,   *)
(* one reference bit per frame, and the set of frames that may be evicted. *)
(*                                                                         *)
(* The state is one record, and every method of the class is an operator   *)
(* on it, so that a buffer pool operation that calls the replacer several  *)
(* times is still a single step.  ClockSweep.tla models the loops of       *)
(* Victim statement by statement and is checked to implement this module.  *)
(***************************************************************************)
EXTENDS Integers

CONSTANT PoolSize   \* number of frames, pool_size_ of the buffer pool

\* The constructor of BufferPoolManager rejects pool_size == 0.
ASSUME PoolSizeAssumption == PoolSize \in Nat \ {0}

VARIABLE replacer   \* [clock_hand, ref_flags, in_replacer]

Frames == 0 .. PoolSize - 1

\* The two vector<bool> are kept as the sets of frames whose entry is true.
ReplacerType == [clock_hand : Frames,
                 ref_flags : SUBSET Frames,
                 in_replacer : SUBSET Frames]

NewReplacer == [clock_hand |-> 0, ref_flags |-> {}, in_replacer |-> {}]

-----------------------------------------------------------------------------
(* Definitions named Bug... are faulty variants of the definition that     *)
(* follows them; no specification uses them.  They show that a property    *)
(* would notice the fault (see "mutants" in PROJECT.json).                 *)

(* Pin: the frame is in use and leaves the replacer.                       *)
Pin(r, f) == [r EXCEPT !.in_replacer = @ \ {f}, !.ref_flags = @ \ {f}]

(* Unpin: the frame may be evicted, and was referenced just now.           *)
Unpin(r, f) == [r EXCEPT !.in_replacer = @ \cup {f}, !.ref_flags = @ \cup {f}]

(* How many frames the hand passes before it stands on f.                  *)
Distance(r, f) == IF f >= r.clock_hand THEN f - r.clock_hand
                                       ELSE f - r.clock_hand + PoolSize

(* All candidates are flagged: the first loop of Victim only clears flags  *)
(* and the second loop makes the choice.                                   *)
AllReferenced(r) == r.in_replacer \subseteq r.ref_flags

(* The frames among which Victim chooses the first one the hand meets.     *)
Candidates(r) == IF AllReferenced(r) THEN r.in_replacer
                                     ELSE r.in_replacer \ r.ref_flags

(* f is the frame Victim returns; no frame is when Size() = 0, and then    *)
(* Victim returns false.                                                   *)
IsVictim(r, f) == /\ f \in Candidates(r)
                  /\ \A g \in Candidates(r) : Distance(r, f) <= Distance(r, g)

(* The replacer after Victim returned f: the hand is just past f, and the  *)
(* flags of the frames the hand swept over are cleared.                    *)
AfterVictim(r, f) ==
    [clock_hand  |-> IF f = PoolSize - 1 THEN 0 ELSE f + 1,
     in_replacer |-> r.in_replacer \ {f},
     ref_flags   |->
        IF AllReferenced(r)
        THEN r.ref_flags \ r.in_replacer
        ELSE r.ref_flags \ {g \in r.in_replacer : Distance(r, g) < Distance(r, f)}]

-----------------------------------------------------------------------------
(* The replacer on its own, driven the way BufferPoolManager drives it: it *)
(* never unpins a frame that is in the replacer already, since it does so  *)
(* only when a pin count drops to 0 or when it hands a victim back.        *)
PinStep(f) == replacer' = Pin(replacer, f)

UnpinStep(f) == /\ f \notin replacer.in_replacer
                /\ replacer' = Unpin(replacer, f)

VictimStep == \E f \in Frames : /\ IsVictim(replacer, f)
                                /\ replacer' = AfterVictim(replacer, f)

ReplacerInit == replacer = NewReplacer

ReplacerNext == \/ VictimStep
                \/ \E f \in Frames : PinStep(f) \/ UnpinStep(f)

ReplacerSpec == ReplacerInit /\ [][ReplacerNext]_replacer

=============================================================================
