----------------------------- MODULE ParkProofs ------------------------------
(***************************************************************************)
(* The park handshake is safe for every choice of its times that meets the *)
(* assumptions of ParkHandshake.  The argument is about time: core 0 can   *)
(* be behind the requests of core 1 only for a while after a poll, and     *)
(* Timing says for how long, at each place where core 0 can be.            *)
(***************************************************************************)
EXTENDS ParkHandshake, TLAPS

(* What the flags say of the two cores. *)
FlagsInv ==
    /\ park_ack <=> pc0 \in {"spin", "exit"}
    /\ park_request <=> pc1 # "run"
    /\ pc1 = "float" => ~hung

(* How long ago the last poll began, by the place where core 0 is. *)
Timing ==
    /\ pc1 # "run" => since <= PollMax
    /\ pc0 = "entry" => since <= PollMax + lag
    /\ pc0 = "spin" /\ pc1 = "run" => since <= PollMax + EntryMax + lag
    /\ pc0 = "exit" => since <= PollMax + EntryMax + Lag + lag
    /\ pc0 = "spin" /\ pc1 # "run" => spun <= since

(* An urgent place is left in time. *)
Urgent ==
    /\ pc0 = "entry" => lag <= EntryMax
    /\ Leaving => lag <= Lag

(* While core 1 lives, core 0 leaves no spin under a standing request, and *)
(* core 1 goes past its wait only with core 0 in the spin.                 *)
Together ==
    /\ pc0 = "exit" => pc1 = "run"
    /\ pc1 \in {"parked", "float"} => pc0 = "spin"

EdgeInv == pc1 = "float" => edge + floated > Guard

IInv ==
    /\ TypeOK /\ FlagsInv /\ Urgent /\ EdgeInv
    /\ ~hung => Timing /\ Together

(* Nothing is parked and no edge is overdue when the hold starts. *)
LEMMA InitIInv == Init => IInv
<1> SUFFICES ASSUME Init PROVE IInv
  OBVIOUS
<1> USE ParkConstants DEF Init
<1>1. TypeOK
  <2>1. edge \in 0 .. MaxGap /\ since \in 0 .. Period /\ floated \in 0 .. ReadTime
    OBVIOUS
  <2> QED
    BY <2>1 DEF TypeOK
<1>2. FlagsInv /\ Together
  BY Zenon DEF FlagsInv, Together
<1>3. Timing /\ Urgent /\ EdgeInv
  BY DEF Timing, Urgent, EdgeInv, Leaving
<1> QED
  BY <1>1, <1>2, <1>3 DEF IInv

(* Every step keeps the invariant. *)
LEMMA NextIInv == IInv /\ [Next]_vars => IInv'
<1> SUFFICES ASSUME IInv, [Next]_vars PROVE IInv'
  OBVIOUS
<1> USE ParkConstants, BackstopAssumption, ThrottleAssumption, GuardAssumption
        DEF IInv, TypeOK, FlagsInv, Urgent, EdgeInv, Timing, Together, Leaving, core0, core1
<1>1. CASE SeeRequest
  BY <1>1 DEF SeeRequest
<1>2. CASE Ack
  BY <1>2 DEF Ack
<1>3. CASE SpinEnds
  BY <1>3 DEF SpinEnds, SpinEndsAt
<1>4. CASE Unpark
  BY <1>4 DEF Unpark
<1>5. CASE PollBegin
  BY <1>5 DEF PollBegin, PollBeginAfter
<1>6. CASE SeeAck
  BY <1>6 DEF SeeAck
<1>7. CASE WaitTimeout
  BY <1>7 DEF WaitTimeout
<1>8. CASE Float
  BY <1>8 DEF Float, FloatIf
<1>9. CASE ReadDone
  BY <1>9 DEF ReadDone
<1>10. CASE PollEnd
  <2>1. TypeOK'
    BY <1>10 DEF PollEnd
  <2>2. FlagsInv'
    BY <1>10 DEF PollEnd
  <2>3. Urgent'
    BY <1>10 DEF PollEnd
  <2>4. EdgeInv'
    BY <1>10 DEF PollEnd
  <2>5. Timing'
    BY <1>10 DEF PollEnd
  <2>6. Together'
    BY <1>10 DEF PollEnd
  <2> QED
    BY <2>1, <2>2, <2>3, <2>4, <2>5, <2>6
<1>11. CASE Hang
  BY <1>11 DEF Hang
<1>12. CASE Emit
  <2>1. UNCHANGED <<core0, core1>> /\ pc1 # "float" /\ edge' \in 1 .. MaxGap
    BY <1>12 DEF Emit, EmitWithin
  <2>2. /\ UNCHANGED <<pc0, lag, spun, park_ack, pc1, since, floated, hung, park_request>>
        /\ pc1' # "float"
    BY <2>1
  <2>3. edge' \in 0 .. MaxGap
    BY <2>1
  <2>4. TypeOK' /\ FlagsInv'
    BY <2>2, <2>3
  <2>5. Urgent' /\ EdgeInv'
    BY <2>2
  <2>6. ~hung' => Timing' /\ Together'
    BY <2>2
  <2> QED
    BY <2>4, <2>5, <2>6
<1>13. CASE Tick
  BY <1>13 DEF Tick
<1>14. CASE UNCHANGED vars
  BY <1>14 DEF vars
<1> QED
  BY <1>1, <1>2, <1>3, <1>4, <1>5, <1>6, <1>7, <1>8, <1>9, <1>10, <1>11, <1>12, <1>13,
     <1>14 DEF Next, Core0, Core1

(* The inductive invariant of the handshake: types, the two flags against *)
(* the two positions, who is urgent, and the timers while core 1 lives.   *)
THEOREM IInvHolds == Spec => []IInv
  BY InitIInv, NextIInv, PTL DEF Spec

(* The timers stay within the bounds of the code they measure. *)
THEOREM TypeCorrect == Spec => []TypeOK
<1>1. IInv => TypeOK
  BY DEF IInv
<1> QED
  BY <1>1, IInvHolds, PTL

(* For every choice of times within the assumptions, core 1 floats the     *)
(* chip select only under a core 0 that spins in RAM.                      *)
THEOREM ReadIsXipSafe == Spec => []XipSafe
<1>1. IInv => XipSafe
  BY DEF IInv, FlagsInv, Together, XipSafe
<1> QED
  BY <1>1, IInvHolds, PTL

(* A read that fits in the guard never makes an edge of the pattern late. *)
THEOREM ReadDelaysNoEdge == Spec => []EdgeOnTime
<1>1. IInv => EdgeOnTime
  <2> SUFFICES ASSUME IInv, pc1 = "float" PROVE edge > 0
    BY DEF EdgeOnTime
  <2>1. edge \in Nat /\ floated \in Nat /\ floated <= ReadTime /\ edge + floated > Guard
    BY ParkConstants DEF IInv, TypeOK, EdgeInv
  <2> QED
    BY <2>1, ParkConstants, GuardAssumption
<1> QED
  BY <1>1, IInvHolds, PTL

(* The throttle and the backstop rule out a stale acknowledgement. *)
THEOREM AckIsFresh == Spec => []NoStaleAck
<1>1. IInv => NoStaleAck
  BY DEF IInv, FlagsInv, Together, NoStaleAck
<1> QED
  BY <1>1, IInvHolds, PTL

=============================================================================
