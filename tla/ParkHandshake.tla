---------------------------- MODULE ParkHandshake ----------------------------
(***************************************************************************)
(* The cooperative park by which core 1 reads BOOTSEL during a hold: it    *)
(* must float the chip select of the flash, so core 0 has to spin in RAM,  *)
(* interrupts off, meanwhile (core0_park_if_requested in app/main.cpp, the *)
(* poll in run_hold of app/core1_main.cpp, read_bootsel in hal/gpio.cpp).  *)
(*                                                                         *)
(* The two flags alone do not make it safe: an acknowledgement that comes  *)
(* too late for one poll could be taken for an answer to the next, and the *)
(* spin gives up after a while.  What makes it safe is time, so time is in *)
(* the model: Tick advances it by one unit, the constants bound how long   *)
(* each stretch of code takes.                                             *)
(***************************************************************************)
EXTENDS Naturals

CONSTANTS
    Period,     \* kPollPeriodUs: least time between the starts of two polls
    ParkWait,   \* kParkWaitUs: how long core 1 waits for the acknowledgement
    PollMax,    \* bound: from park_request set to park_request cleared
    ReadTime,   \* bound: the chip select is floated
    Guard,      \* kPollGuardUs: no edge of the pattern due within this
    Backstop,   \* least time the 2,000,000 iterations of the spin take
    EntryMax,   \* bound: from seeing park_request to setting park_ack
    Lag,        \* bound: to notice the end of the spin; to clear park_ack then
    MaxGap      \* bound: between two edges of the pattern

ASSUME ParkConstants ==
    /\ Period \in Nat /\ ParkWait \in Nat /\ PollMax \in Nat /\ ReadTime \in Nat
    /\ Guard \in Nat /\ Backstop \in Nat /\ EntryMax \in Nat /\ Lag \in Nat
    /\ MaxGap \in Nat \ {0}
(* What the poll relies on: core 0 outlasts a poll, it is back before the  *)
(* next one, and a read fits in the gap it was given.                      *)
ASSUME BackstopAssumption == PollMax < Backstop
ASSUME ThrottleAssumption == PollMax + EntryMax + Lag + Lag < Period
ASSUME GuardAssumption == ReadTime <= Guard

VARIABLES
    pc0,        \* core 0: "flash" (anywhere), "entry", "spin", "exit"
    lag,        \* time core 0 has taken for the step it is at
    spun,       \* time it has been spinning
    pc1,        \* core 1: "run", "wait", "parked", "float", "release"
    since,      \* time since last_poll_us, up to Period
    floated,    \* time the chip select has been floated
    hung,       \* core 1 has died
    edge,       \* time to the next edge of the pattern
    park_request, park_ack

core0 == <<pc0, lag, spun, park_ack>>
core1 == <<pc1, since, floated, hung, park_request>>
vars == <<core0, core1, edge>>

TypeOK ==
    /\ pc0 \in {"flash", "entry", "spin", "exit"}
    /\ lag \in Nat /\ spun \in Nat
    /\ pc1 \in {"run", "wait", "parked", "float", "release"}
    /\ since \in 0 .. Period
    /\ floated \in 0 .. ReadTime
    /\ hung \in BOOLEAN
    /\ edge \in 0 .. MaxGap
    /\ park_request \in BOOLEAN /\ park_ack \in BOOLEAN

(* A hold begins; last_poll_us is the present time. *)
Init ==
    /\ pc0 = "flash" /\ lag = 0 /\ spun = 0
    /\ pc1 = "run" /\ since = 0 /\ floated = 0 /\ hung = FALSE
    /\ edge \in 1 .. MaxGap
    /\ park_request = FALSE /\ park_ack = FALSE

-----------------------------------------------------------------------------
(* Core 0, once per tick of its loop: park if asked to. *)

SeeRequest ==
    /\ pc0 = "flash" /\ park_request
    /\ pc0' = "entry" /\ lag' = 0
    /\ UNCHANGED <<spun, park_ack, core1, edge>>

Ack ==
    /\ pc0 = "entry"
    /\ pc0' = "spin" /\ park_ack' = TRUE
    /\ spun' = 0 /\ lag' = 0
    /\ UNCHANGED <<core1, edge>>

(* The spin ends when the request is withdrawn, or its count runs out. *)
SpinEndsAt(limit) ==
    /\ pc0 = "spin"
    /\ ~park_request \/ spun >= limit
    /\ pc0' = "exit" /\ lag' = 0
    /\ UNCHANGED <<spun, park_ack, core1, edge>>
SpinShort == SpinEndsAt(1)                  \* a backstop of one unit
SpinForever == ~park_request /\ SpinEndsAt(Backstop)    \* no backstop
SpinEnds == SpinEndsAt(Backstop)

Unpark ==
    /\ pc0 = "exit"
    /\ pc0' = "flash" /\ park_ack' = FALSE
    /\ lag' = 0
    /\ UNCHANGED <<spun, core1, edge>>

-----------------------------------------------------------------------------
(* Core 1: one poll. *)

PollBeginAfter(pause) ==
    /\ ~hung /\ pc1 = "run"
    /\ since >= pause
    /\ edge > Guard
    /\ pc1' = "wait" /\ park_request' = TRUE
    /\ since' = 0
    /\ UNCHANGED <<floated, hung, core0, edge>>
PollUnthrottled == PollBeginAfter(0)        \* no poll period
PollBegin == PollBeginAfter(Period)

SeeAck ==
    /\ ~hung /\ pc1 = "wait" /\ park_ack
    /\ pc1' = "parked"
    /\ UNCHANGED <<since, floated, hung, park_request, core0, edge>>

WaitTimeout ==
    /\ ~hung /\ pc1 = "wait" /\ since >= ParkWait
    /\ pc1' = "release"
    /\ UNCHANGED <<since, floated, hung, park_request, core0, edge>>

(* The gap is looked at again: the wait has eaten from it. *)
FloatIf(wide) ==
    /\ ~hung /\ pc1 = "parked"
    /\ pc1' = IF wide THEN "float" ELSE "release"
    /\ floated' = 0
    /\ UNCHANGED <<since, hung, park_request, core0, edge>>
FloatUnchecked == FloatIf(TRUE)             \* the second look is left out
Float == FloatIf(edge > Guard)

ReadDone ==
    /\ ~hung /\ pc1 = "float"
    /\ pc1' = "release" /\ floated' = 0
    /\ UNCHANGED <<since, hung, park_request, core0, edge>>

(* Core 0 may leave from now on: it has Lag to notice. *)
PollEnd ==
    /\ ~hung /\ pc1 = "release"
    /\ pc1' = "run" /\ park_request' = FALSE
    /\ lag' = IF pc0 = "spin" THEN 0 ELSE lag
    /\ UNCHANGED <<since, floated, hung, pc0, spun, park_ack, edge>>

(* Core 1 may die anywhere but inside the read, where its interrupts are   *)
(* off and it runs a fixed loop.                                           *)
Hang ==
    /\ ~hung /\ pc1 # "float"
    /\ hung' = TRUE
    /\ UNCHANGED <<pc1, since, floated, park_request, core0, edge>>

-----------------------------------------------------------------------------
(* An edge is emitted by an alarm interrupt of core 1, which the read      *)
(* keeps off.                                                              *)
EmitWithin(gap) ==
    /\ edge = 0 /\ pc1 # "float"
    /\ edge' \in 1 .. gap
    /\ UNCHANGED <<core0, core1>>
Emit == EmitWithin(MaxGap)

Leaving == pc0 = "exit" \/ (pc0 = "spin" /\ (~park_request \/ spun >= Backstop))

(* Time passes unless somebody is at the end of his time. *)
Tick ==
    /\ pc0 = "entry" => lag < EntryMax
    /\ Leaving => lag < Lag
    /\ pc1 # "run" /\ ~hung => since < PollMax
    /\ pc1 = "float" => floated < ReadTime
    /\ edge = 0 => pc1 = "float"
    /\ lag' = IF Leaving \/ pc0 = "entry" THEN lag + 1 ELSE 0
    /\ spun' = IF pc0 = "spin" /\ spun < Backstop THEN spun + 1 ELSE spun
    /\ since' = IF since < Period THEN since + 1 ELSE since
    /\ floated' = IF pc1 = "float" THEN floated + 1 ELSE floated
    /\ edge' = IF edge > 0 THEN edge - 1 ELSE 0
    /\ UNCHANGED <<pc0, pc1, hung, park_request, park_ack>>

Core0 == SeeRequest \/ Ack \/ SpinEnds \/ Unpark
Core1 == PollBegin \/ SeeAck \/ WaitTimeout \/ Float \/ ReadDone \/ PollEnd
Next == Core0 \/ Core1 \/ Hang \/ Emit \/ Tick

(* Core 0 runs, edges are emitted, time passes; core 1 may die. *)
Spec == Init /\ [][Next]_vars /\ WF_vars(Core0) /\ WF_vars(Core1) /\ WF_vars(Emit)
             /\ WF_vars(Tick)

-----------------------------------------------------------------------------
(* The chip select is floated only while core 0 spins in RAM with its      *)
(* interrupts off (main.cpp:192-200, core1_main.cpp:969-976).              *)
XipSafe == pc1 = "float" => pc0 = "spin"

(* No edge of the pattern comes due while the read keeps core 1's          *)
(* interrupts off (core1_main.cpp:967-968).                                *)
EdgeOnTime == pc1 = "float" => edge > 0

(* An acknowledgement is never left over from an earlier poll when a new   *)
(* one begins (the throttle, core1_main.cpp:923-924).                      *)
NoStaleAck == pc1 = "wait" /\ ~hung /\ park_ack => pc0 = "spin"

(* Core 0 always gets back to serving USB, even if core 1 dies with its    *)
(* request standing (main.cpp:207-210).                                    *)
ParkEnds == (pc0 = "spin") ~> (pc0 = "flash")

=============================================================================
