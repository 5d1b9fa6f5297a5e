------------------------------ MODULE HoldPath ------------------------------
(***************************************************************************)
(* The way of a hold's rows, app/main.cpp with app/spsc.hpp and            *)
(* core/hold_ring.hpp: core 1 pushes them into the ring between the cores, *)
(* core 0 pops one at a time and pushes it into the window, which a new    *)
(* run clears and the flush reads.  Spsc gives every access of the ring,   *)
(* RecentRing the window; here is what core 0 does between them.           *)
(***************************************************************************)
EXTENDS Spsc

CONSTANT W      \* kHoldWindowRows

VARIABLES
    wbuf, whead, wcount,    \* hold_ring
    inHand      \* the row that pop() returned is not yet in the window

winVars == <<wbuf, whead, wcount>>

Window == INSTANCE RecentRing WITH
              N <- W, Rows <- Values, buf <- wbuf, head <- whead, count <- wcount

ASSUME WindowAssumption == Window!SizeAssumption

PathInit == Init /\ Window!Init /\ inHand = FALSE

(* Core 1: resolve_ramp pushes a row and does not look back. *)
Core1 == Producer /\ UNCHANGED <<winVars, inHand>>

(* Core 0: while (pop(row)) hold_ring.push(row). *)
PopBegin == ~inHand /\ (PopEmpty \/ PopAccept \/ ConsumerEmpty) /\ UNCHANGED <<winVars, inHand>>
PopCopy == PopRead /\ UNCHANGED <<winVars, inHand>>
PopReturn == PopPublish /\ inHand' = TRUE /\ UNCHANGED winVars

(* The row is pushed although pop() said FALSE: the one before it again. *)
StoreAgain ==
    /\ cpc = "idle" /\ out # Blank
    /\ Window!Push(out)
    /\ inHand' = FALSE
    /\ UNCHANGED vars

Store ==
    /\ inHand
    /\ Window!Push(out)
    /\ inHand' = FALSE
    /\ UNCHANGED vars

(* Action::BeginRun, once the drain has ended. *)
BeginRun ==
    /\ ~inHand /\ cpc = "idle"
    /\ Window!Clear
    /\ UNCHANGED <<vars, inHand>>

PathNext == Core1 \/ PopBegin \/ PopCopy \/ PopReturn \/ Store \/ BeginRun

PathSpec == PathInit /\ [][PathNext]_<<vars, winVars, inHand>>

-----------------------------------------------------------------------------
(* The types of the two parts; a row in hand is one that was popped. *)
PathTypeOK ==
    /\ TypeOK /\ Window!TypeOK
    /\ inHand \in BOOLEAN /\ (inHand => cpc = "idle" /\ out \in Values)

(* The window holds the last W rows pushed into it since it was cleared,   *)
(* oldest first, as for_each_chronological shows them to the flush.        *)
IsLastRows == Window!IsLastRows

(* A row is on its way from the moment push() has published it until it is *)
(* in the window: in the ring, in the slot being copied, or in core 0's    *)
(* local variable.                                                         *)
InFlight == (IF cpc = "publish" \/ inHand THEN <<out>> ELSE <<>>) \o Queue

(* From core 1's push to the file: whatever the two cores' views of the    *)
(* indices, every row sent reaches the window once, in the order it was    *)
(* sent, and the window at any time is the last W of those that arrived.   *)
Stream == INSTANCE HoldStream WITH
              Size <- W, Flight <- N, kept <- Window!Chronological, flight <- InFlight
IsHoldStream == Stream!Spec
=============================================================================
