---------------------------- MODULE MCSyncAlign ----------------------------
(***************************************************************************)
(* Instances of SyncAlign.  Two teeth on a wheel of 18 degrees have the    *)
(* gaps 2, 4, 2 and 10 of the pattern's kind (10, 50 and 170 degrees); the *)
(* midpoint is 7, so the speed may change by a factor of up to 7/4 one way *)
(* and 10/7 the other.                                                     *)
(***************************************************************************)
EXTENDS SyncAlign

TwoTeeth == <<0, 2, 6, 8>>
Shifted == <<1, 3, 7, 9>>           \* tooth 0 is not at angle 0
Faster == <<4, 3, 2>>               \* each step within the factor, not the whole
UpAndDown == <<5, 6, 5, 4>>

(* The schedules meet the hypotheses of the theorems of SyncProofs: in a   *)
(* sweep neighbouring steps have to be close, in a ramp any two the        *)
(* emitter could be apart.                                                 *)
ASSUME HypothesesMet == IF Ramping THEN Tracks(Len(Period)) ELSE SweepHypotheses

(* So does the sweep that ships (default_config.ini:6-12, constants.hpp:   *)
(* 82-85): 100 to 10000 rpm by 100, settling 8 revolutions, 16 samples, on *)
(* a wheel with gaps of 10, 50 and 170 degrees.  This is SweepHypotheses   *)
(* worked out for it, with times in 50000ths of a degree's at 100 rpm.     *)
ASSUME ShippedSweepMeets ==
    \A q \in 2 .. 100 :
        LET before == 50000 \div (q - 1)
            now == 50000 \div q
            Told(gap) == 2 * gap >= (170 + 50) * now
        IN  /\ \A gap \in {10, 50} : ~Told(gap * before) /\ ~Told(gap * now)
            /\ Told(170 * before) /\ Told(170 * now)
            /\ \A revs \in {8 + 6, 2 * (8 + 16 + 8)} :
                   360 * before + 170 * before + 190 * now < revs * (360 * now)
=============================================================================
