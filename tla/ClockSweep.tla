----------------------------- MODULE ClockSweep -----------------------------
(***************************************************************************)
(* ClockReplacer::Victim as it is written: a first loop that gives second  *)
(* chances and a second loop that takes the first candidate, each bounded  *)
(* by the number of frames (src/src/buffer/clock_replacer.cpp).  The       *)
(* module shows that the sweep implements the one-step Victim of           *)
(* ClockReplacer, that it always returns, and that the fall-through after  *)
(* the second loop is dead code.                                           *)
(***************************************************************************)
EXTENDS ClockReplacer

VARIABLES pc,       \* "idle", "first" (loop) or "second" (loop)
          count,    \* loop variable of the loop that is running
          before    \* history variable: replacer when Victim was called

sweepVars == <<replacer, pc, count, before>>

hand == replacer.clock_hand

Advanced(r) == [r EXCEPT !.clock_hand = (@ + 1) % PoolSize]

(* The hand and the bits end where they were before the call.              *)
BugReset == /\ replacer' = [before EXCEPT !.in_replacer = @ \ {hand}, !.ref_flags = @ \ {hand}]
            /\ pc' = "idle"
            /\ UNCHANGED <<count, before>>
(* *frame_id = clock_hand_: the frame leaves the replacer, Victim returns. *)
Select == /\ replacer' = Advanced([replacer EXCEPT !.in_replacer = @ \ {hand}])
          /\ pc' = "idle"
          /\ UNCHANGED <<count, before>>

(* ++count and the hand moves on.                                          *)
Continue(r) == /\ replacer' = Advanced(r)
               /\ count' = count + 1
               /\ UNCHANGED <<pc, before>>

-----------------------------------------------------------------------------
CallPin(f) == /\ pc = "idle"
              /\ PinStep(f)
              /\ UNCHANGED <<pc, count, before>>

CallUnpin(f) == /\ pc = "idle"
                /\ UnpinStep(f)
                /\ UNCHANGED <<pc, count, before>>

(* Victim is called; with Size() = 0 it returns false at once.             *)
CallVictim == /\ pc = "idle"
              /\ replacer.in_replacer # {}
              /\ pc' = "first" /\ count' = 0 /\ before' = replacer
              /\ UNCHANGED replacer

BugFirstLoop == /\ pc = "first" /\ count < PoolSize
                /\ \/ /\ hand \in replacer.in_replacer \ replacer.ref_flags
                      /\ Select
                   \/ /\ hand \notin replacer.in_replacer \ replacer.ref_flags
                      /\ Continue(replacer)

FirstLoop == /\ pc = "first" /\ count < PoolSize
             /\ \/ /\ hand \in replacer.in_replacer \ replacer.ref_flags
                   /\ Select
                \/ /\ hand \in replacer.in_replacer \cap replacer.ref_flags
                   /\ Continue([replacer EXCEPT !.ref_flags = @ \ {hand}])
                \/ /\ hand \notin replacer.in_replacer
                   /\ Continue(replacer)

FirstLoopEnds == /\ pc = "first" /\ count = PoolSize
                 /\ pc' = "second" /\ count' = 0
                 /\ UNCHANGED <<replacer, before>>

BugSecondLoop == /\ pc = "second" /\ count < PoolSize
                 /\ \/ /\ hand \in replacer.in_replacer \cap replacer.ref_flags
                       /\ Select
                    \/ /\ hand \notin replacer.in_replacer \cap replacer.ref_flags
                       /\ Continue(replacer)

SecondLoop == /\ pc = "second" /\ count < PoolSize
              /\ \/ hand \in replacer.in_replacer /\ Select
                 \/ hand \notin replacer.in_replacer /\ Continue(replacer)

SweepInit == ReplacerInit /\ pc = "idle" /\ count = 0 /\ before = replacer

SweepNext == \/ \E f \in Frames : CallPin(f) \/ CallUnpin(f)
             \/ CallVictim
             \/ FirstLoop \/ FirstLoopEnds
             \/ SecondLoop

SweepSpec == SweepInit /\ [][SweepNext]_sweepVars

-----------------------------------------------------------------------------
(* Properties.                                                             *)

\* "Nunca debería llegar aquí" (clock_replacer.cpp:50): the second loop always
\* finds a frame, so Victim never returns false with a candidate present.
SecondLoopNeverRunsDry == ~(pc = "second" /\ count = PoolSize)

(* The call takes effect when it returns.                                  *)
Policy == INSTANCE ClockReplacer
            WITH replacer <- IF pc = "idle" THEN replacer ELSE before

\* The loops implement the one-step policy: the victim is the candidate the
\* hand meets first (unreferenced ones preferred), exactly the bits passed over
\* are cleared, and the hand ends just past the victim.
SweepImplementsPolicy == Policy!ReplacerSpec

\* No starvation: if victims keep being asked for, every frame of the replacer
\* leaves it (evicted or pinned), although new frames keep entering with their
\* bit set.  It rests on the sweep leaving its traces: the cleared bits and the
\* hand past the victim.
EveryCandidateLeaves ==
    []<><<Select>>_sweepVars =>
        \A f \in Frames : (f \in replacer.in_replacer)
                             ~> (f \notin replacer.in_replacer)
=============================================================================
