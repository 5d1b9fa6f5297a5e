---------------------------- MODULE ProberProofs -----------------------------
(***************************************************************************)
(* What the two cores keep for every run mode, every size of the buffers   *)
(* and any number of runs.  CommonInv holds whatever happens; HandoffInv   *)
(* and RowsInv are the protocol between the cores as long as no run has    *)
(* lost sync (the runs of MCProber show how it fails when one does).       *)
(***************************************************************************)
EXTENDS Prober, SequenceTheorems, TLAPS

(* Which state of the machine each place of the super-loop belongs to. *)
Place ==
    /\ pc0 \in {"boot", "config"} => state = "Boot"
    /\ pc0 \in {"ready", "begin", "begin2", "begin3"} => state = "Ready"
    /\ pc0 = "drain" => state \in {"Running", "Flush"}
    /\ pc0 \in {"lost", "done"} => state = "Running"
    /\ pc0 \in {"idle", "lock", "write", "unlock"} => state = "Flush"
    /\ pc0 \in {"return", "return2"} => state \in {"Done", "Error"}
    /\ pc0 = "boot" <=> pc1 = "off"

(* The writer lock is engaged from BeginRun to the flush or the return. *)
LockInv ==
    /\ readonly <=> \/ pc0 \in {"begin2", "begin3"}
                    \/ /\ state \in {"Running", "Flush", "Error"}
                       /\ pc0 \notin {"unlock", "return2"}
    /\ pc0 \in {"hostlock", "hostwrite", "hostunlock"} => ~readonly /\ state # "Flush"
    /\ pc0 \in {"lock", "write"} => fsFresh

(* Runs are numbered from 1, and never more than MaxRuns. *)
CountInv ==
    /\ pc0 = "begin" => runs < MaxRuns
    /\ pc0 \in {"begin2", "begin3"} \/ flags["run_request"] => runs > 0
    /\ pc1 \notin {"off", "init", "wait"} => job > 0

CommonInv == TypeOK /\ Place /\ LockInv /\ CountInv /\ XipHeld /\ AttentionPending

(* Core 1 works on a run only between core 0's request and its own report. *)
HandoffInv ==
    /\ ~flags["lost_sync"]
    /\ ~flags["capture_idle"] <=> pc1 \in {"measure", "final", "stop"}
    /\ flags["run_request"] => state = "Running" /\ pc1 \in {"init", "wait"}
    /\ pc1 \notin {"off", "init", "wait"} => state = "Running" /\ ~flags["run_request"]
    /\ flags["run_done"] => pc1 = "wait" /\ ~flags["run_request"] 
    /\ pc0 = "begin3" => ~flags["run_done"]

(* How many rows of the present run have left the ring. *)
Drained == Len(sent) - Len(ring)

(* The rows of a run: those in the ring are the last that were sent, those *)
(* in the buffer the first of the others or, for a hold, the last.         *)
Source(i) == IF mode = "Hold" /\ Drained > BufCap THEN Drained - BufCap + i ELSE i
Accounted ==
    /\ Drained >= 0
    /\ \A i \in 1 .. Len(ring) : ring[i] = sent[Drained + i]
    /\ Len(rows) = IF Drained <= BufCap THEN Drained ELSE BufCap
    /\ \A i \in 1 .. Len(rows) : rows[i] = sent[Source(i)]
    /\ mode = "Ramp" => (flags["ramp_truncated"] <=> Drained > BufCap)

Tracked == state \in {"Running", "Flush"} /\ ~flags["run_request"]
RowsInv ==
    /\ Tracked => Accounted
    /\ ~Tracked => ring = <<>>
    /\ pc0 \in {"begin2", "begin3"} \/ (flags["run_request"] /\ state = "Running") =>
         rows = <<>> /\ ~flags["ramp_truncated"]
    /\ state = "Flush" => pc1 = "wait"
    /\ pc0 \in {"idle", "lock", "write", "unlock"} => ring = <<>>

(* A press that has been used is still held; the poll of a hold that saw   *)
(* the button up has not been followed by one.                             *)
PressInv ==
    /\ pressUsed => button
    /\ pc1 = "measure" /\ ~prev_pressed => ~pressUsed

QuietInv == NoneAborted => HandoffInv /\ RowsInv /\ PressInv

IInv == CommonInv /\ QuietInv

(* What Stored does to the buffer: its length, and where its rows come from. *)
LEMMA StoredFacts ==
  ASSUME NEW r \in Rows, rows \in Seq(Rows), Len(rows) <= BufCap
  PROVE  /\ Stored(r) \in Seq(Rows)
         /\ Len(Stored(r)) = IF Len(rows) < BufCap THEN Len(rows) + 1 ELSE BufCap
         /\ Len(rows) < BufCap =>
              /\ Stored(r)[Len(rows) + 1] = r
              /\ \A i \in 1 .. Len(rows) : Stored(r)[i] = rows[i]
         /\ Len(rows) = BufCap /\ mode = "Hold" =>
              /\ Stored(r)[BufCap] = r
              /\ \A i \in 1 .. BufCap - 1 : Stored(r)[i] = rows[i + 1]
         /\ Len(rows) = BufCap /\ mode # "Hold" => Stored(r) = rows
<1> USE SizeAssumption
<1>1. CASE Len(rows) < BufCap
  <2>1. Stored(r) = Append(rows, r)
    BY <1>1 DEF Stored
  <2> QED
    BY <1>1, <2>1, AppendProperties
<1>2. CASE Len(rows) = BufCap /\ mode = "Hold"
  <2>1. Stored(r) = Append(Tail(rows), r)
    BY <1>2 DEF Stored
  <2>2. /\ Tail(rows) \in Seq(Rows) /\ Len(Tail(rows)) = BufCap - 1
        /\ \A i \in 1 .. BufCap - 1 : Tail(rows)[i] = rows[i + 1]
    BY <1>2, HeadTailProperties
  <2> QED
    BY <1>2, <2>1, <2>2, AppendProperties
<1>3. CASE Len(rows) = BufCap /\ mode # "Hold"
  BY <1>3 DEF Stored
<1>4. Len(rows) < BufCap \/ Len(rows) = BufCap
  OBVIOUS
<1> QED
  BY <1>1, <1>2, <1>3, <1>4

(* Every step keeps the first part, whether runs lose sync or not. *)
LEMMA NextCommon == CommonInv /\ [Next]_vars => CommonInv'
<1> SUFFICES ASSUME CommonInv, [Next]_vars PROVE CommonInv'
  OBVIOUS
<1> USE SizeAssumption DEF CommonInv, TypeOK, Place, LockInv, CountInv, XipHeld,
        AttentionPending, Pc0, Pc1, Flags, MediaChangePolls,
        core0Vars, core1Vars, usbVars, userVars, histVars
<1>1. CASE Boot
  BY <1>1 DEF Boot, Goto0
<1>2. CASE LoadConfig
  BY <1>2 DEF LoadConfig, Goto0, Others0
<1>3. CASE HostLock
  BY <1>3 DEF HostLock, Goto0, Others0
<1>4. CASE HostLockTimeout
  BY <1>4 DEF HostLockTimeout, Move0, Goto0, Others0
<1>5. CASE HostProgram
  <2>1. fsFresh' \in BOOLEAN
    BY Zenon, <1>5 DEF HostProgram, Goto0, Others0
  <2>2. TypeOK'
    BY <1>5, <2>1 DEF HostProgram, Goto0, Others0
  <2>3. (Place /\ LockInv /\ CountInv /\ XipHeld /\ AttentionPending)'
    BY <1>5 DEF HostProgram, Goto0, Others0
  <2> QED
    BY <2>2, <2>3
<1>6. CASE HostUnlock
  <2>1. locked' \in BOOLEAN
    BY Zenon, <1>6 DEF HostUnlock, Goto0, Others0
  <2>2. TypeOK'
    BY <1>6, <2>1 DEF HostUnlock, Goto0, Others0
  <2>3. (Place /\ LockInv /\ CountInv /\ XipHeld /\ AttentionPending)'
    BY <1>6 DEF HostUnlock, Goto0, Others0
  <2> QED
    BY <2>2, <2>3
<1>7. CASE PassPark
  BY <1>7 DEF PassPark, Move0, Goto0, Others0
<1>8. CASE StartByButton
  BY <1>8 DEF StartByButton, Goto0
<1>9. CASE StartByProbe
  BY <1>9 DEF StartByProbe, Goto0, Others0, Store
<1>10. CASE NoStart
  BY <1>10 DEF NoStart, Move0, Goto0, Others0
<1>11. CASE BeginRun
  <2>1. readonly' \in BOOLEAN
    BY Zenon, <1>11 DEF BeginRun, BeginWith, Goto0, Others0
  <2>2. runs' \in 0 .. MaxRuns /\ flags' \in [Flags -> BOOLEAN]
    <3>1. runs' = runs + 1 /\ runs < MaxRuns
      BY <1>11 DEF BeginRun, BeginWith, Goto0
    <3>2. flags' = [flags EXCEPT !["ramp_truncated"] = FALSE, !["lost_sync"] = FALSE]
      BY <1>11 DEF BeginRun, BeginWith
    <3>3. flags' \in [Flags -> BOOLEAN]
      BY <3>2, Zenon
    <3> QED
      BY <3>1, <3>3
  <2>3. rows' \in Seq(Rows) /\ Len(rows') <= BufCap
    BY <1>11, EmptySeq DEF BeginRun, BeginWith
  <2>4. TypeOK'
    BY <1>11, <2>1, <2>2, <2>3, ZenonT(30) DEF BeginRun, BeginWith, Goto0, Others0
  <2>5. (Place /\ LockInv /\ CountInv /\ XipHeld /\ AttentionPending)'
    BY <1>11 DEF BeginRun, BeginWith, Goto0, Others0
  <2> QED
    BY <2>4, <2>5
<1>12. CASE BeginRunDone
  BY <1>12 DEF BeginRunDone, Goto0, Others0, Store
<1>13. CASE BeginRunRequest
  BY <1>13 DEF BeginRunRequest, Goto0, Others0, Store
<1>14. CASE DrainRow
  <2>1. Head(ring) \in Rows /\ ring' \in Seq(Rows) /\ Len(ring') <= RingCap
    BY <1>14, HeadTailProperties DEF DrainRow
  <2>2. rows' \in Seq(Rows) /\ Len(rows') <= BufCap
    BY <1>14, <2>1, StoredFacts DEF DrainRow
  <2>3. flags' \in [Flags -> BOOLEAN]
    BY <1>14 DEF DrainRow, Store, Flagged
  <2>4. /\ UNCHANGED <<state, pc0, runs, core1Vars, locked, usbVars, userVars, histVars>>
        /\ flags'["run_request"] = flags["run_request"]
    BY <1>14 DEF DrainRow, Store
  <2>5. TypeOK'
    BY <2>1, <2>2, <2>3, <2>4
  <2>6. (Place /\ LockInv /\ CountInv /\ XipHeld /\ AttentionPending)'
    BY <2>4
  <2> QED
    BY <2>5, <2>6
<1>15. CASE DrainEnd
  BY <1>15 DEF DrainEnd, Move0, Goto0, Others0
<1>16. CASE CheckLost
  BY <1>16 DEF CheckLost, Others0
<1>17. CASE CheckDone
  BY <1>17 DEF CheckDone, Goto0, Others0
<1>18. CASE CheckIdle
  <2>1. /\ pc0' \in {"lock", "usb"} /\ fsFresh' \in BOOLEAN
        /\ UNCHANGED <<state, rows, runs, locked, flags, readonly, media_polls, hostFresh,
                       core1Vars, ring, userVars, histVars>>
    BY <1>18 DEF CheckIdle, FlushIdle, Others0
  <2>2. TypeOK'
    BY <2>1
  <2>3. (Place /\ LockInv /\ CountInv /\ XipHeld /\ AttentionPending)'
    BY <1>18 DEF CheckIdle, FlushIdle, Others0
  <2> QED
    BY <2>2, <2>3
<1>19. CASE FlushLock
  BY <1>19 DEF FlushLock, FlushLockTo, Goto0, Others0
<1>20. CASE FlushWrite
  BY <1>20, ZenonT(30) DEF FlushWrite, Goto0, Others0
<1>21. CASE FlushEnd
  <2>1. locked' \in BOOLEAN
    BY Zenon, <1>21 DEF FlushEnd, FlushEndWith, Goto0, Others0
  <2>2. TypeOK'
    BY <1>21, <2>1 DEF FlushEnd, FlushEndWith, Goto0, Others0
  <2>3. (Place /\ LockInv /\ CountInv /\ XipHeld /\ AttentionPending)'
    BY <1>21 DEF FlushEnd, FlushEndWith, Goto0, Others0
  <2> QED
    BY <2>2, <2>3
<1>22. CASE ReturnReady
  <2>1. readonly' \in BOOLEAN
    BY Zenon, <1>22 DEF ReturnReady, Goto0, Others0, Store
  <2>2. TypeOK'
    BY <1>22, <2>1 DEF ReturnReady, Goto0, Others0, Store
  <2>3. (Place /\ LockInv /\ CountInv /\ XipHeld /\ AttentionPending)'
    BY <1>22 DEF ReturnReady, Goto0, Others0, Store
  <2> QED
    BY <2>2, <2>3
<1>23. CASE ReturnReadyEnd
  BY <1>23 DEF ReturnReadyEnd, Goto0, Others0, Store
<1>24. CASE UsbDone
  BY <1>24 DEF UsbDone, Move0, Goto0, Others0
<1>25. CASE TestUnitReady
  BY <1>25 DEF TestUnitReady, Others0
<1>26. CASE HostWrite
  BY <1>26 DEF HostWrite, Move0, Goto0, Others0
<1>27. CASE Core1Init
  BY <1>27 DEF Core1Init, Move1, Goto1, Keep1, Others1
<1>28. CASE Consume
  BY <1>28 DEF Consume, Goto1, Store, Others1
<1>29. CASE ClearLost
  BY <1>29 DEF ClearLost, Store1, Store, Goto1, Keep1, Others1
<1>30. CASE ClearDone
  BY <1>30 DEF ClearDone, Store1, Store, Goto1, Keep1, Others1
<1>31. CASE ClearStop
  BY <1>31 DEF ClearStop, Store1, Store, Goto1, Keep1, Others1
<1>32. CASE Activate
  BY <1>32 DEF Activate, Store1, Store, Goto1, Keep1, Others1
<1>33. CASE StartCapture
  <2>1. TypeOK'
    BY <1>33, ZenonT(30) DEF StartCapture, Goto1, Store, Others1
  <2>2. (Place /\ LockInv /\ CountInv /\ XipHeld /\ AttentionPending)'
    BY <1>33 DEF StartCapture, Goto1, Store, Others1
  <2> QED
    BY <2>1, <2>2
<1>34. CASE SweepDone
  BY <1>34 DEF SweepDone, Move1, Goto1, Keep1, Others1
<1>35. CASE RampDone
  BY <1>35 DEF RampDone, Move1, Goto1, Keep1, Others1
<1>36. CASE StopSeen
  BY <1>36 DEF StopSeen, Move1, Goto1, Keep1, Others1
<1>37. CASE FinalDone
  BY <1>37 DEF FinalDone, Move1, Goto1, Keep1, Others1
<1>38. CASE StopCapture
  BY <1>38 DEF StopCapture, Store1, Store, Goto1, Keep1, Others1
<1>39. CASE Deactivate
  BY <1>39 DEF Deactivate, Store1, Store, Goto1, Keep1, Others1
<1>40. CASE Report
  BY <1>40 DEF Report, Store1, Store, Goto1, Keep1, Others1
<1>41. CASE PushRow
  <2>1. job \in 1 .. MaxRuns /\ produced + 1 \in 1 .. RowsPerRun
    BY <1>41 DEF PushRow
  <2>2. <<job, produced + 1>> \in Rows
    BY <2>1 DEF Rows
  <2>3. ring' \in Seq(Rows) /\ Len(ring') <= RingCap /\ sent' \in Seq(Rows)
    <3>1. CASE Len(ring) < RingCap
      <4>1. /\ ring' = Append(ring, <<job, produced + 1>>)
            /\ sent' = Append(sent, <<job, produced + 1>>)
        BY <1>41, <3>1 DEF PushRow
      <4> QED
        BY <3>1, <4>1, <2>2, AppendProperties
    <3>2. CASE ~(Len(ring) < RingCap)
      BY <1>41, <3>2 DEF PushRow
    <3> QED
      BY <3>1, <3>2
  <2>4. /\ UNCHANGED <<core0Vars, pc1, job, locked, flags, armed, prev_pressed, usbVars,
                       userVars, aborted>>
        /\ produced' \in 0 .. RowsPerRun
    BY <1>41, <2>1 DEF PushRow, Others1
  <2>5. TypeOK'
    BY <2>3, <2>4
  <2>6. (Place /\ LockInv /\ CountInv /\ XipHeld /\ AttentionPending)'
    BY <2>4
  <2> QED
    BY <2>5, <2>6
<1>42. CASE LoseSync
  BY <1>42 DEF LoseSync, Goto1, Store, Others1
<1>43. CASE HoldPoll
  BY <1>43 DEF HoldPoll, PollWith, Store
<1>44. CASE Press
  BY <1>44 DEF Press
<1>45. CASE Release
  <2>1. button' \in BOOLEAN /\ pressUsed' \in BOOLEAN
    BY Zenon, <1>45 DEF Release
  <2>2. TypeOK'
    BY <1>45, <2>1 DEF Release
  <2>3. (Place /\ LockInv /\ CountInv /\ XipHeld /\ AttentionPending)'
    BY <1>45 DEF Release
  <2> QED
    BY <2>2, <2>3
<1>46. CASE SwdStart
  BY <1>46 DEF SwdStart, SwdRaise, Store
<1>47. CASE SwdStop
  BY <1>47 DEF SwdStop, SwdRaise, Store
<1>48. CASE UNCHANGED vars
  BY <1>48 DEF vars
<1> QED
  BY <1>1, <1>2, <1>3, <1>4, <1>5, <1>6, <1>7, <1>8, <1>9, <1>10, <1>11, <1>12, <1>13,
     <1>14, <1>15, <1>16, <1>17, <1>18, <1>19, <1>20, <1>21, <1>22, <1>23, <1>24,
     <1>25, <1>26, <1>27, <1>28, <1>29, <1>30, <1>31, <1>32, <1>33, <1>34, <1>35,
     <1>36, <1>37, <1>38, <1>39, <1>40, <1>41, <1>42, <1>43, <1>44, <1>45, <1>46,
     <1>47, <1>48
     DEF Next, Core0, Core0Straight, Core1, Core1Straight, Environment

(* A run that loses sync is known to have, for good. *)
LEMMA AbortIsKnown == ASSUME CommonInv, NoneAborted' PROVE ~LoseSync
<1> SUFFICES ASSUME LoseSync PROVE FALSE
  OBVIOUS
<1>1. pc1 = "measure" /\ aborted' = job
  BY DEF LoseSync, Goto1
<1>2. job \in 0 .. MaxRuns /\ job > 0
  BY <1>1 DEF CommonInv, TypeOK, CountInv
<1> QED
  BY <1>1, <1>2 DEF NoneAborted

(* No step takes a lost sync back. *)
LEMMA AbortStays == ASSUME CommonInv, [Next]_vars, NoneAborted' PROVE NoneAborted
<1> USE DEF histVars
<1>1. CASE Core0 \/ Environment \/ HoldPoll \/ UNCHANGED vars
  BY <1>1 DEF Core0, Core0Straight, Boot, LoadConfig, HostLock, HostLockTimeout, HostProgram,
     HostUnlock, PassPark, StartByButton, StartByProbe, NoStart, BeginRun, BeginWith,
     BeginRunDone, BeginRunRequest, DrainRow, DrainEnd, CheckLost, CheckDone, CheckIdle,
     FlushIdle, FlushLock, FlushLockTo, FlushWrite, FlushEnd, FlushEndWith, ReturnReady,
     ReturnReadyEnd, UsbDone, TestUnitReady, HostWrite, Move0, Others0, Environment, Press,
     Release, SwdStart, SwdStop, SwdRaise, HoldPoll, PollWith, vars, NoneAborted
<1>2. CASE Core1Straight \/ PushRow
  BY <1>2 DEF Core1Straight, Core1Init, Consume, ClearLost, ClearDone, ClearStop, Activate,
     StartCapture, SweepDone, RampDone, StopSeen, FinalDone, StopCapture, Deactivate, Report,
     PushRow, Store1, Move1, Keep1, NoneAborted
<1> QED
  BY <1>1, <1>2, AbortIsKnown DEF Next, Core1

(* The handshake of a run, as long as none has lost sync. *)
LEMMA NextHandoff ==
  ASSUME CommonInv, HandoffInv, NoneAborted', [Next]_vars
  PROVE  HandoffInv'
<1> USE DEF CommonInv, TypeOK, Place, HandoffInv, Pc0, Pc1, Flags, core0Vars, core1Vars
(* Steps of core 0 and the environment that store none of these flags. *)
<1>1. CASE \/ UsbDone \/ TestUnitReady \/ HostWrite \/ HostLock \/ HostLockTimeout
           \/ HostProgram \/ HostUnlock
  BY <1>1 DEF UsbDone, TestUnitReady, HostWrite, HostLock, HostLockTimeout, HostProgram,
     HostUnlock, Move0, Goto0, Others0
<1>2. CASE Boot \/ LoadConfig \/ StartByButton \/ NoStart \/ PassPark
  BY <1>2 DEF Boot, LoadConfig, StartByButton, NoStart, PassPark, Move0, Goto0, Others0
<1>3. CASE DrainEnd \/ CheckIdle \/ FlushLock \/ FlushWrite \/ FlushEnd
  BY <1>3 DEF DrainEnd, CheckIdle, FlushIdle, FlushLock, FlushLockTo, FlushWrite,
     FlushEnd, FlushEndWith, Move0, Goto0, Others0
<1>4. CASE Press \/ Release \/ SwdStart \/ SwdStop
  BY <1>4 DEF Press, Release, SwdStart, SwdStop, SwdRaise, Store
(* Steps of core 0 that do. *)
<1>5. CASE StartByProbe \/ DrainRow
  BY <1>5 DEF StartByProbe, DrainRow, Store, Goto0, Others0
<1>6. CASE BeginRun \/ BeginRunDone \/ BeginRunRequest
  BY <1>6 DEF BeginRun, BeginWith, BeginRunDone, BeginRunRequest, Store, Goto0, Others0
<1>7. CASE CheckLost \/ CheckDone \/ ReturnReady \/ ReturnReadyEnd
  BY <1>7 DEF CheckLost, CheckDone, ReturnReady, ReturnReadyEnd, Store, Goto0, Others0
(* Steps of core 1. *)
<1>8. CASE Core1Init \/ SweepDone \/ RampDone \/ StopSeen \/ FinalDone \/ PushRow
  BY <1>8 DEF Core1Init, SweepDone, RampDone, StopSeen, FinalDone, PushRow, Move1, Goto1,
     Keep1, Others1
<1>9. CASE Consume \/ ClearLost \/ ClearDone \/ ClearStop \/ Activate
  BY <1>9 DEF Consume, ClearLost, ClearDone, ClearStop, Activate, Store1, Store, Goto1,
     Keep1, Others1
<1>10. CASE StartCapture \/ StopCapture \/ Deactivate \/ Report
  BY <1>10 DEF StartCapture, StopCapture, Deactivate, Report, Store1, Store, Goto1,
     Keep1, Others1
<1>11. CASE HoldPoll
  BY <1>11 DEF HoldPoll, PollWith, Store
<1>12. ~LoseSync
  BY AbortIsKnown
<1>13. CASE UNCHANGED vars
  BY <1>13 DEF vars
<1> QED
  BY <1>1, <1>2, <1>3, <1>4, <1>5, <1>6, <1>7, <1>8, <1>9, <1>10, <1>11, <1>12, <1>13
     DEF Next, Core0, Core0Straight, Core1, Core1Straight, Environment

(* A pop moves the boundary between ring and buffer by one row. *)
LEMMA DrainAccounts ==
  ASSUME CommonInv, Accounted, DrainRow PROVE Accounted'
<1> DEFINE r == Head(ring)
           d == Drained
<1>1. /\ rows \in Seq(Rows) /\ Len(rows) <= BufCap /\ BufCap \in Nat \ {0}
      /\ ring \in Seq(Rows) /\ ring # <<>> /\ sent \in Seq(Rows)
      /\ flags \in [Flags -> BOOLEAN]
  BY SizeAssumption DEF CommonInv, TypeOK, DrainRow
<1>2. /\ ring' = Tail(ring) /\ rows' = Stored(r) /\ sent' = sent /\ mode' = mode
  BY <1>1 DEF DrainRow, histVars, userVars
<1>3. /\ r \in Rows /\ r = ring[1] /\ Len(ring) \in Nat \ {0}
      /\ Len(ring') = Len(ring) - 1
      /\ \A i \in 1 .. Len(ring') : ring'[i] = ring[i + 1]
  BY <1>1, <1>2, HeadTailProperties
<1>4. d \in Nat /\ Drained' = d + 1 /\ r = sent[d + 1]
  BY <1>1, <1>2, <1>3 DEF Accounted, Drained
<1>5. \A i \in 1 .. Len(ring') : ring'[i] = sent'[Drained' + i]
  <2> SUFFICES ASSUME NEW i \in 1 .. Len(ring') PROVE ring'[i] = sent[d + 1 + i]
    BY <1>2, <1>4
  <2>1. i + 1 \in 1 .. Len(ring) /\ ring'[i] = ring[i + 1]
    BY <1>3
  <2>2. ring[i + 1] = sent[d + (i + 1)]
    BY <2>1 DEF Accounted
  <2> QED
    BY <1>4, <2>1, <2>2
<1>6. mode = "Ramp" =>
        (flags'["ramp_truncated"] <=> flags["ramp_truncated"] \/ Len(rows) = BufCap)
  <2>1. "ramp_truncated" \in Flags /\ flags \in [Flags -> BOOLEAN]
    BY <1>1 DEF Flags
  <2>2. flags' = [flags EXCEPT !["ramp_truncated"] = Flagged]
    BY DEF DrainRow, Store
  <2>3. flags'["ramp_truncated"] = Flagged
    BY <2>1, <2>2
  <2> QED
    BY <2>3, Zenon DEF Flagged
<1>7. CASE d < BufCap
  <2>1. Len(rows) = d /\ \A i \in 1 .. d : rows[i] = sent[i]
    BY <1>4, <1>7, <1>1 DEF Accounted, Source
  <2>2. /\ Len(rows') = d + 1 /\ rows'[d + 1] = r
        /\ \A i \in 1 .. d : rows'[i] = rows[i]
    BY <1>1, <1>2, <1>3, <1>7, <2>1, StoredFacts
  <2>3. \A i \in 1 .. Len(rows') : rows'[i] = sent'[Source(i)']
    BY <1>1, <1>2, <1>4, <1>7, <2>1, <2>2 DEF Source
  <2>4. mode = "Ramp" => (flags'["ramp_truncated"] <=> Drained' > BufCap)
    BY <1>1, <1>4, <1>6, <1>7, <2>1 DEF Accounted
  <2>5. Len(rows') = IF Drained' <= BufCap THEN Drained' ELSE BufCap
    BY <1>1, <1>4, <1>7, <2>2
  <2>6. Drained' >= 0
    BY <1>4
  <2> QED
    BY <1>2, <1>5, <2>3, <2>4, <2>5, <2>6 DEF Accounted
<1>8. CASE d >= BufCap
  <2>1. Len(rows) = BufCap
    BY <1>1, <1>4, <1>8 DEF Accounted
  <2>2. Len(rows') = BufCap
    BY <1>1, <1>2, <1>3, <2>1, StoredFacts
  <2>3. \A i \in 1 .. Len(rows') : rows'[i] = sent'[Source(i)']
    <3> SUFFICES ASSUME NEW i \in 1 .. BufCap PROVE rows'[i] = sent[Source(i)']
      BY <1>2, <2>2
    <3>1. CASE mode = "Hold"
      <4>1. Source(i)' = d + 1 - BufCap + i
        BY <1>1, <1>2, <1>4, <1>8, <3>1 DEF Source
      <4>2. CASE i = BufCap
        <5>1. rows'[i] = r
          BY <1>1, <1>2, <1>3, <2>1, <3>1, <4>2, StoredFacts
        <5> QED
          BY <1>1, <1>4, <4>1, <4>2, <5>1
      <4>3. CASE i # BufCap
        <5>1. i \in 1 .. BufCap - 1 /\ i + 1 \in 1 .. Len(rows)
          BY <1>1, <2>1, <4>3
        <5>2. rows'[i] = rows[i + 1]
          BY <1>1, <1>2, <1>3, <2>1, <3>1, <5>1, StoredFacts
        <5>3. rows[i + 1] = sent[Source(i + 1)]
          BY <5>1 DEF Accounted
        <5>4. Source(i + 1) = d + 1 - BufCap + i
          BY <1>1, <1>4, <1>8, <3>1 DEF Source
        <5> QED
          BY <4>1, <5>2, <5>3, <5>4
      <4> QED
        BY <4>2, <4>3
    <3>2. CASE mode # "Hold"
      <4>1. rows' = rows /\ Source(i)' = i /\ Source(i) = i
        BY <1>1, <1>2, <1>3, <2>1, <3>2, StoredFacts DEF Source
      <4> QED
        BY <2>1, <4>1 DEF Accounted
    <3> QED
      BY <3>1, <3>2
  <2>4. mode = "Ramp" => (flags'["ramp_truncated"] <=> Drained' > BufCap)
    BY <1>1, <1>4, <1>6, <1>8, <2>1
  <2>5. Len(rows') = IF Drained' <= BufCap THEN Drained' ELSE BufCap
    BY <1>1, <1>4, <1>8, <2>2
  <2>6. Drained' >= 0
    BY <1>4
  <2> QED
    BY <1>2, <1>5, <2>3, <2>4, <2>5, <2>6 DEF Accounted
<1> QED
  BY <1>1, <1>4, <1>7, <1>8

(* A row handed over, or dropped by a full ring, leaves the boundary alone. *)
LEMMA PushAccounts ==
  ASSUME CommonInv, Accounted, PushRow PROVE Accounted'
<1> DEFINE row == <<job, produced + 1>>
           n == Len(ring)
           m == Len(sent)
<1>1. /\ ring \in Seq(Rows) /\ sent \in Seq(Rows) /\ n \in Nat /\ m \in Nat
      /\ rows \in Seq(Rows) /\ Len(rows) \in Nat /\ BufCap \in Nat
  BY SizeAssumption DEF CommonInv, TypeOK
<1>2. rows' = rows /\ flags' = flags /\ mode' = mode
  BY DEF PushRow, Others1, core0Vars, userVars
<1>3. CASE n < RingCap
  <2>1. ring' = Append(ring, row) /\ sent' = Append(sent, row)
    BY <1>3 DEF PushRow
  <2>2. row \in Rows
    <3>1. job \in 1 .. MaxRuns /\ produced + 1 \in 1 .. RowsPerRun
      BY SizeAssumption DEF CommonInv, TypeOK, CountInv, PushRow
    <3> QED
      BY <3>1 DEF Rows
  <2>3. /\ Len(ring') = n + 1 /\ ring'[n + 1] = row
        /\ \A i \in 1 .. n : ring'[i] = ring[i]
    BY <1>1, <2>1, <2>2, AppendProperties
  <2>4. /\ Len(sent') = m + 1 /\ sent'[m + 1] = row
        /\ \A i \in 1 .. m : sent'[i] = sent[i]
    BY <1>1, <2>1, <2>2, AppendProperties
  <2>5. Drained \in Nat /\ Drained = m - n /\ Drained' = Drained
    BY <1>1, <2>3, <2>4 DEF Drained, Accounted
  <2>6. \A i \in 1 .. Len(ring') : ring'[i] = sent'[Drained' + i]
    <3> SUFFICES ASSUME NEW i \in 1 .. n + 1 PROVE ring'[i] = sent'[Drained + i]
      BY <2>3, <2>5
    <3>1. CASE i = n + 1
      <4>1. Drained + i = m + 1
        BY <1>1, <2>5, <3>1
      <4> QED
        BY <2>3, <2>4, <3>1, <4>1
    <3>2. CASE i # n + 1
      <4>1. i \in 1 .. n /\ Drained + i \in 1 .. m
        BY <1>1, <2>5, <3>2
      <4>2. ring[i] = sent[Drained + i]
        BY <4>1 DEF Accounted
      <4> QED
        BY <2>3, <2>4, <4>1, <4>2
    <3> QED
      BY <3>1, <3>2
  <2>7. \A i \in 1 .. Len(rows') : rows'[i] = sent'[Source(i)']
    <3> SUFFICES ASSUME NEW i \in 1 .. Len(rows) PROVE rows[i] = sent'[Source(i)']
      BY <1>2
    <3>1. Source(i)' = Source(i)
      BY <1>2, <2>5 DEF Source
    <3>2. Source(i) \in 1 .. m
      BY <1>1, <2>5 DEF Source, Accounted
    <3> QED
      BY <2>4, <3>1, <3>2 DEF Accounted
  <2> QED
    BY <1>2, <2>5, <2>6, <2>7 DEF Accounted
<1>4. CASE ~(n < RingCap)
  <2>1. UNCHANGED <<ring, sent>>
    BY <1>4 DEF PushRow
  <2> QED
    BY <1>2, <2>1 DEF Accounted, Drained, Source
<1> QED
  BY <1>3, <1>4

(* Once the ring is empty, what the buffer holds is what the file must. *)
LEMMA AccountedIsKept ==
  ASSUME CommonInv, Accounted, ring = <<>>
  PROVE  rows = Kept(sent) /\ (mode = "Ramp" => (flags["ramp_truncated"] <=> Len(sent) > BufCap))
<1> DEFINE m == Len(sent)
<1>1. /\ sent \in Seq(Rows) /\ m \in Nat /\ rows \in Seq(Rows) /\ BufCap \in Nat \ {0}
  BY SizeAssumption DEF CommonInv, TypeOK
<1>2. Drained = m
  BY <1>1 DEF Drained
<1>3. CASE m <= BufCap
  <2>1. Len(rows) = m /\ \A i \in 1 .. m : rows[i] = sent[i]
    BY <1>1, <1>2, <1>3 DEF Accounted, Source
  <2>2. rows = sent
    BY <1>1, <2>1, SeqEqual
  <2> QED
    BY <1>2, <1>3, <2>2 DEF Kept, Accounted
<1>4. CASE m > BufCap
  <2>1. Len(rows) = BufCap
    BY <1>1, <1>2, <1>4 DEF Accounted
  <2>2. CASE mode = "Hold"
    <3> DEFINE k == SubSeq(sent, m - BufCap + 1, m)
    <3>1. /\ k \in Seq(Rows) /\ Len(k) = BufCap
          /\ \A i \in 1 .. BufCap : k[i] = sent[m - BufCap + i]
      BY <1>1, <1>4, SubSeqProperties
    <3>2. \A i \in 1 .. BufCap : rows[i] = sent[m - BufCap + i]
      BY <1>2, <1>4, <2>1, <2>2 DEF Accounted, Source
    <3>3. rows = k
      BY <1>1, <2>1, <3>1, <3>2, SeqEqual
    <3> QED
      BY <1>1, <1>4, <2>2, <3>3 DEF Kept
  <2>3. CASE mode # "Hold"
    <3> DEFINE k == SubSeq(sent, 1, BufCap)
    <3>1. k \in Seq(Rows) /\ Len(k) = BufCap /\ \A i \in 1 .. BufCap : k[i] = sent[i]
      BY <1>1, <1>4, SubSeqProperties
    <3>2. \A i \in 1 .. BufCap : rows[i] = sent[i]
      BY <2>1, <2>3 DEF Accounted, Source
    <3>3. rows = k
      BY <1>1, <2>1, <3>1, <3>2, SeqEqual
    <3> QED
      BY <1>1, <1>2, <1>4, <2>3, <3>3 DEF Kept, Accounted
  <2> QED
    BY <2>2, <2>3
<1> QED
  BY <1>1, <1>3, <1>4

(* The accounts are right at every step of a run. *)
LEMMA NextRows ==
  ASSUME CommonInv, HandoffInv, RowsInv, NoneAborted', [Next]_vars
  PROVE  RowsInv'
<1> USE DEF CommonInv, TypeOK, Place, HandoffInv, RowsInv, Tracked, Pc0, Pc1, Flags,
        core0Vars, core1Vars, userVars, histVars
(* Nothing changes in the accounts when no row moves. *)
<1>1. UNCHANGED <<rows, ring, sent, mode>> /\ (flags'["ramp_truncated"] <=> flags["ramp_truncated"])
        => (Accounted' <=> Accounted)
  BY DEF Accounted, Drained, Source
(* Core 0 and the environment. *)
<1>2. CASE \/ UsbDone \/ TestUnitReady \/ HostWrite \/ HostLock \/ HostLockTimeout
           \/ HostProgram \/ HostUnlock
  BY <1>1, <1>2 DEF UsbDone, TestUnitReady, HostWrite, HostLock, HostLockTimeout,
     HostProgram, HostUnlock, Move0, Goto0, Others0
<1>3. CASE Boot \/ LoadConfig \/ StartByButton \/ NoStart \/ PassPark
  BY <1>1, <1>3 DEF Boot, LoadConfig, StartByButton, NoStart, PassPark, Move0, Goto0,
     Others0
<1>4. CASE DrainEnd \/ CheckIdle \/ FlushLock \/ FlushWrite \/ FlushEnd
  BY <1>1, <1>4 DEF DrainEnd, CheckIdle, FlushIdle, FlushLock, FlushLockTo, FlushWrite,
     FlushEnd, FlushEndWith, Move0, Goto0, Others0
<1>5. CASE Press \/ Release \/ SwdStart \/ SwdStop
  BY <1>1, <1>5 DEF Press, Release, SwdStart, SwdStop, SwdRaise, Store
<1>6. CASE DrainRow
  <2>1. Tracked
    BY <1>6 DEF DrainRow
  <2>2. Accounted'
    BY <1>6, <2>1, DrainAccounts
  <2>3. UNCHANGED <<state, pc0, pc1>> /\ flags'["run_request"] = flags["run_request"]
    BY <1>6 DEF DrainRow, Store
  <2> QED
    BY <1>6, <2>1, <2>2, <2>3 DEF DrainRow
<1>7. CASE BeginRun
  BY <1>7 DEF BeginRun, BeginWith, Goto0, Others0
<1>8. CASE StartByProbe \/ BeginRunDone \/ BeginRunRequest
  BY <1>1, <1>8 DEF StartByProbe, BeginRunDone, BeginRunRequest, Store, Goto0, Others0
<1>9. CASE CheckLost \/ CheckDone \/ ReturnReady \/ ReturnReadyEnd
  BY <1>1, <1>9 DEF CheckLost, CheckDone, ReturnReady, ReturnReadyEnd, Store, Goto0, Others0
(* Core 1. *)
<1>10. CASE Core1Init \/ SweepDone \/ RampDone \/ StopSeen \/ FinalDone
  BY <1>1, <1>10 DEF Core1Init, SweepDone, RampDone, StopSeen, FinalDone, Move1, Goto1,
     Keep1, Others1
<1>11. CASE Consume
  <2>1. /\ rows' = <<>> /\ ring' = <<>> /\ sent' = <<>>
        /\ ~flags'["ramp_truncated"] /\ UNCHANGED <<state, pc0>>
        /\ state = "Running" /\ ~flags'["run_request"]
    BY <1>11 DEF Consume, Store, Goto1, Others1
  <2>2. Accounted'
    BY <2>1, SizeAssumption DEF Accounted, Drained
  <2> QED
    BY <2>1, <2>2
<1>12. CASE ClearLost \/ ClearDone \/ ClearStop \/ Activate
  BY <1>1, <1>12 DEF ClearLost, ClearDone, ClearStop, Activate, Store1, Store, Goto1,
     Keep1, Others1
<1>13. CASE StartCapture \/ StopCapture \/ Deactivate \/ Report
  BY <1>1, <1>13 DEF StartCapture, StopCapture, Deactivate, Report, Store1, Store, Goto1,
     Keep1, Others1
<1>14. CASE PushRow
  <2>1. Tracked /\ state = "Running"
    BY <1>14 DEF PushRow
  <2>2. Accounted'
    BY <1>14, <2>1, PushAccounts
  <2>3. UNCHANGED <<state, pc0, pc1, flags>>
    BY <1>14 DEF PushRow, Others1
  <2> QED
    BY <2>1, <2>2, <2>3
<1>15. CASE HoldPoll
  BY <1>1, <1>15 DEF HoldPoll, PollWith, Store
<1>16. ~LoseSync
  BY AbortIsKnown
<1>17. CASE UNCHANGED vars
  BY <1>1, <1>17 DEF vars
<1> QED
  BY <1>2, <1>3, <1>4, <1>5, <1>6, <1>7, <1>8, <1>9, <1>10, <1>11, <1>12, <1>13, <1>14,
     <1>15, <1>16, <1>17
     DEF Next, Core0, Core0Straight, Core1, Core1Straight, Environment

(* The operator's finger and the two places that look at it. *)
LEMMA NextPress ==
  ASSUME CommonInv, HandoffInv, PressInv, [Next]_vars
  PROVE  PressInv'
<1> USE DEF CommonInv, TypeOK, Place, HandoffInv, PressInv, core1Vars, userVars, usbVars,
        histVars
<1>1. CASE Core0Straight \/ UsbDone \/ TestUnitReady \/ HostWrite
  <2>1. CASE StartByButton
    BY <2>1 DEF StartByButton, Goto0
  <2>2. CASE Boot
    BY <2>2 DEF Boot, Goto0
  <2>3. CASE DrainRow
    BY <2>3 DEF DrainRow
  <2>4. ASSUME ~StartByButton, ~Boot, ~DrainRow
        PROVE  UNCHANGED <<core1Vars, userVars>>
    BY <1>1, <2>4 DEF Core0Straight, LoadConfig, HostLock, HostLockTimeout, HostProgram,
       HostUnlock, PassPark, StartByProbe, NoStart, BeginRun, BeginWith, BeginRunDone,
       BeginRunRequest, DrainEnd, CheckLost, CheckDone, CheckIdle, FlushIdle, FlushLock,
       FlushLockTo, FlushWrite, FlushEnd, FlushEndWith, ReturnReady, ReturnReadyEnd,
       UsbDone, TestUnitReady, HostWrite, Move0, Others0
  <2> QED
    BY <2>1, <2>2, <2>3, <2>4
<1>2. CASE Core1Straight \/ PushRow \/ LoseSync
  <2>1. UNCHANGED userVars
    BY <1>2 DEF Core1Straight, Core1Init, Consume, ClearLost, ClearDone, ClearStop,
       Activate, StartCapture, SweepDone, RampDone, StopSeen, FinalDone, StopCapture,
       Deactivate, Report, PushRow, LoseSync, Store1, Move1, Keep1, Others1
  <2>2. CASE StartCapture
    BY <2>1, <2>2 DEF StartCapture
  <2>3. CASE PushRow
    BY <2>1, <2>3 DEF PushRow
  <2>4. ASSUME ~StartCapture, ~PushRow
        PROVE  pc1' # "measure"
    BY <1>2, <2>4 DEF Core1Straight, Core1Init, Consume, ClearLost, ClearDone, ClearStop,
       Activate, SweepDone, RampDone, StopSeen, FinalDone, StopCapture, Deactivate, Report,
       LoseSync, Store1, Move1, Goto1
  <2> QED
    BY <2>1, <2>2, <2>3, <2>4
<1>3. CASE HoldPoll
  BY <1>3 DEF HoldPoll, PollWith
<1>4. CASE Press \/ Release \/ SwdStart \/ SwdStop
  <2>1. UNCHANGED <<pc1, prev_pressed>>
    BY <1>4 DEF Press, Release, SwdStart, SwdStop, SwdRaise
  <2>2. CASE Press
    BY <2>1, <2>2 DEF Press
  <2>3. CASE Release
    <3>1. ~pressUsed'
      BY <2>3, Zenon DEF Release
    <3> QED
      BY <3>1
  <2>4. CASE SwdStart \/ SwdStop
    <3>1. UNCHANGED <<pressUsed, button>>
      BY <2>4 DEF SwdStart, SwdStop, SwdRaise
    <3> QED
      BY <2>1, <3>1
  <2> QED
    BY <1>4, <2>2, <2>3, <2>4
<1>5. CASE UNCHANGED vars
  BY <1>5 DEF vars
<1> QED
  BY <1>1, <1>2, <1>3, <1>4, <1>5 DEF Next, Core0, Core1, Environment

(* Power-up establishes the invariant. *)
LEMMA InitIInv == Init => IInv
<1> SUFFICES ASSUME Init PROVE IInv
  OBVIOUS
<1> USE SizeAssumption DEF Init
<1>1. TypeOK
  <2>1. /\ armed \in BOOLEAN /\ prev_pressed \in BOOLEAN /\ locked \in BOOLEAN
        /\ readonly \in BOOLEAN /\ fsFresh \in BOOLEAN /\ hostFresh \in BOOLEAN
        /\ button \in BOOLEAN /\ pressUsed \in BOOLEAN
    BY Zenon
  <2>2. flags \in [Flags -> BOOLEAN]
    BY Zenon
  <2>3. <<>> \in Seq(Rows) /\ Len(<<>>) = 0
    BY EmptySeq
  <2> QED
    BY <2>1, <2>2, <2>3 DEF TypeOK, Pc0, Pc1, MediaChangePolls
<1>2. Place /\ LockInv /\ CountInv /\ XipHeld /\ AttentionPending
  BY DEF Place, LockInv, CountInv, XipHeld, AttentionPending, Flags
<1>3. HandoffInv /\ RowsInv /\ PressInv
  BY DEF HandoffInv, RowsInv, PressInv, Tracked, Flags
<1> QED
  BY <1>1, <1>2, <1>3 DEF IInv, CommonInv, QuietInv

(* Every step keeps it; the second part only where no run has lost sync. *)
LEMMA NextIInv == IInv /\ [Next]_vars => IInv'
  BY NextCommon, NextHandoff, NextRows, NextPress, AbortStays DEF IInv, QuietInv

(* The inductive invariant of the two cores: what holds always, and what  *)
(* the handshake of a run, the rows under way and the button keep until a *)
(* run loses sync.                                                        *)
THEOREM IInvHolds == Spec => []IInv
  BY InitIInv, NextIInv, PTL DEF Spec

-----------------------------------------------------------------------------
(* The type invariant, for all sizes: in particular no buffer is overrun.  *)
THEOREM TypeCorrect == Spec => []TypeOK
<1>1. IInv => TypeOK
  BY DEF IInv, CommonInv
<1> QED
  BY <1>1, IInvHolds, PTL

(* Core 1 is in its RAM-resident handler exactly while flash is written.   *)
THEOREM FlashIsXipSafe == Spec => []XipHeld
<1>1. IInv => XipHeld
  BY DEF IInv, CommonInv
<1> QED
  BY <1>1, IInvHolds, PTL

(* FatFs always writes through the FAT that is in flash. *)
THEOREM FlushSeesTheFat == Spec => []FatViewFresh
<1>1. IInv => FatViewFresh
  BY DEF IInv, CommonInv, LockInv, FatViewFresh
<1> QED
  BY <1>1, IInvHolds, PTL

(* The host and the firmware never write in each other's time. *)
THEOREM WritersExclude == Spec => []WriterLock
<1>1. IInv => WriterLock
  BY DEF IInv, CommonInv, LockInv, Place, WriterLock
<1> QED
  BY <1>1, IInvHolds, PTL

(* A stale host always has a media change coming. *)
THEOREM HostIsTold == Spec => []AttentionPending
<1>1. IInv => AttentionPending
  BY DEF IInv, CommonInv
<1> QED
  BY <1>1, IInvHolds, PTL

(* Until a run loses sync, flash is never written during a capture, nor    *)
(* disconnected for the button while core 1 has a run in hand.             *)
THEOREM FlashWaits == Spec => []FlashIdle
<1>1. IInv => FlashIdle
  <2> SUFFICES ASSUME IInv, NoneAborted
               PROVE  /\ pc0 \in {"write", "hostwrite"} => flags["capture_idle"] /\ ~Capturing
                      /\ pc0 = "ready" => pc1 \in {"init", "wait"}
    BY DEF FlashIdle
  <2>1. CommonInv /\ HandoffInv /\ RowsInv
    BY DEF IInv, QuietInv
  <2>2. pc0 \in {"write", "hostwrite", "ready"} => state # "Running"
    BY <2>1 DEF CommonInv, Place, LockInv
  <2>3. pc0 = "ready" => pc1 # "off"
    BY <2>1 DEF CommonInv, Place
  <2> QED
    BY <2>1, <2>2, <2>3 DEF HandoffInv, Capturing
<1> QED
  BY <1>1, IInvHolds, PTL

(* Until a run loses sync, the file is the file of its run, in all modes   *)
(* and for all sizes of ring and buffer.                                   *)
THEOREM FileIsFaithful == Spec => []FileIsRun
<1>1. IInv => FileIsRun
  <2> SUFFICES ASSUME IInv, pc0 = "write", NoneAborted
               PROVE  /\ rows = Kept(sent)
                      /\ mode = "Ramp" =>
                           (flags["ramp_truncated"] <=> Len(sent) > BufCap)
    BY DEF FileIsRun
  <2>1. CommonInv /\ HandoffInv /\ RowsInv
    BY DEF IInv, QuietInv
  <2>2. Accounted /\ ring = <<>>
    BY <2>1 DEF CommonInv, Place, HandoffInv, RowsInv, Tracked
  <2> QED
    BY <2>1, <2>2, AccountedIsKept
<1> QED
  BY <1>1, IInvHolds, PTL

(* Until a run loses sync, the press that started a hold never stops it.  *)
THEOREM StartPressIsIgnored == Spec => StartPressNeverStops
<1>1. IInv /\ [Next]_vars =>
        [HoldPoll /\ flags'["stop_request"] /\ ~flags["stop_request"] /\ NoneAborted
           => ~pressUsed]_vars
  <2> SUFFICES ASSUME IInv, HoldPoll, flags'["stop_request"], ~flags["stop_request"],
                      NoneAborted
               PROVE  ~pressUsed
    OBVIOUS
  <2>1. flags \in [Flags -> BOOLEAN] /\ "stop_request" \in Flags /\ PressInv
    BY DEF IInv, CommonInv, TypeOK, QuietInv, Flags
  <2>2. pc1 = "measure" /\ ~prev_pressed
    BY <2>1 DEF HoldPoll, PollWith, Store
  <2> QED
    BY <2>1, <2>2 DEF PressInv
<1> QED
  BY <1>1, IInvHolds, PTL DEF Spec, StartPressNeverStops

=============================================================================
