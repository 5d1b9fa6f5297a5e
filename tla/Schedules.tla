----------------------------- MODULE Schedules -----------------------------
(***************************************************************************)
(* core/config.cpp (the checks of CONFIG.INI's values), app/run_modes.cpp  *)
(* and the schedule's part of run_sweep, run_ramp and run_hold: which      *)
(* speeds a file that is accepted makes the emitter run at.  How the file  *)
(* is read is in ConfigText.                                               *)
(*                                                                         *)
(* Unsigned numbers have Width values.  Floats are counted in quanta, of   *)
(* which Scale make one rpm: a float up to Exact quanta is exact, above it *)
(* every doubling halves its resolution, and what is beyond every float    *)
(* stands for infinity.  NaN as a commanded speed stands for whatever      *)
(* lroundf makes of a NaN.                                                 *)
(***************************************************************************)
EXTENDS ConfigText, FiniteSets

CONSTANTS
    Scale,          \* quanta per rpm
    Exact,          \* 2^24
    Ulps,           \* the distances of neighbouring floats: one quantum, doubled
    DefaultHold,    \* kDefaultHoldRpm
    Leading, Trailing, Wheel,   \* the baked teeth
    TicksPerMin,    \* 60 * kPioClockHz
    MinTicks,       \* kMinTicks
    Floor,          \* kHoldRampInFloorRpm
    Passes,         \* what dt may be in a pass of a ramp's or hold's loop, 0 if the
                    \* clock did not move since prev_us was read
    WallCap,        \* kRampWallCapUs
    Targets,        \* what a debug probe may write to hold_target_rpm
    Retargets       \* bound: how often it does

ASSUME NumbersAssumption ==
    /\ {Floor, Wheel, TicksPerMin, MinTicks} \subseteq Nat \ {0}
    /\ NaN \notin Int /\ Bad \notin Int
    /\ {Leading, Trailing} \subseteq Seq(Nat) /\ Len(Leading) = Len(Trailing)
    /\ Leading # <<>>
ASSUME FloatAssumption ==
    /\ Exact \in Nat \ {0} /\ Exact % 2 = 0
    /\ Ulps \subseteq Nat \ {0} /\ {1, Scale} \subseteq Ulps
    /\ \A u \in Ulps \ {1} : u \div 2 \in Ulps
    /\ \A u, w \in Ulps : u < w => w % (2 * u) = 0
    /\ Infinity \in Nat /\ \A u \in Ulps : Infinity >= Exact * u
ASSUME PassesAssumption ==
    Passes \subseteq Nat /\ WallCap \in Nat /\ Targets \subseteq Nat /\ Retargets \in Nat

VARIABLES
    phase,      \* "read", "load", "rejected", "stepped", "ramp", "hold" or "over"
    c,          \* the Config
    rpm,        \* current_rpm_ of the SteppedSchedule; rpm_ or cur_rpm, in quanta
    target,     \* hold_target_rpm
    retargets,  \* how often it was written
    elapsed,    \* now_us - loop_start_us of a ramp
    speeds      \* the speeds the emitter was given, for the properties only

runVars == <<rpm, target, retargets, elapsed, speeds>>
vars == <<iniVars, phase, c, runVars>>

-----------------------------------------------------------------------------
(* load_config, after the keys were found *)

(* The narrowest interval of the pattern and the speed at which it takes   *)
(* MinTicks.                                                               *)
Teeth == DOMAIN Leading
Gaps ==
    {Trailing[i] - Leading[i] : i \in Teeth}
    \union {(IF i < Len(Leading) THEN Leading[i + 1] ELSE Leading[1] + Wheel) - Trailing[i] :
              i \in Teeth}
rpm_max_hw(interval) == (interval * TicksPerMin) \div (Wheel * MinTicks)
Ceiling == rpm_max_hw(Min(Gaps \union {Wheel}))
(* Teeth are "ascending and non-overlapping" (constants.hpp:80-82), and the *)
(* ceiling, some 200000 rpm, is far below 2^24.                            *)
ASSUME CeilingAssumption ==
    /\ Gaps \subseteq Nat /\ 2 * Ceiling < Width /\ Ceiling <= Exact
    /\ DefaultHold \in 1 .. Ceiling

Config ==
    [mode |-> ParseRunMode(ValueOf(RUN_MODE)),
     start |-> ParseU32(ValueOf(SWEEP_START_RPM)), end |-> ParseU32(ValueOf(SWEEP_END_RPM)),
     step |-> ParseU32(ValueOf(SWEEP_STEP_RPM)), settle |-> ParseU32(ValueOf(SWEEP_SETTLE_REVS)),
     samples |-> ParseU32(ValueOf(SWEEP_SAMPLES)), up |-> ParseF32(ValueOf(RAMP_UP_RPM_PER_S)),
     down |-> ParseF32(ValueOf(RAMP_DOWN_RPM_PER_S)),
     hold |-> IF HasKey(HOLD_RPM) THEN ParseU32(ValueOf(HOLD_RPM)) ELSE DefaultHold]
Empty == [mode |-> "none"]

(* A float comparison with a NaN is false. *)
Less(x, y) == x # NaN /\ y # NaN /\ x < y
AtMost(x, y) == x # NaN /\ y # NaN /\ x <= y

Ramps == {"RampUp", "RampDown"}

NumbersParse == \A k \in DOMAIN c \ {"mode"} : c[k] # Bad
SpanFits == c.start <= c.end /\ (c.mode \in Ramps => c.start < c.end)
CountsFitOrNoStep == c.settle # 0 /\ c.samples # 0    \* any step
CountsFit == c.step # 0 /\ c.settle # 0 /\ c.samples # 0
RatesFit == ~AtMost(c.up, 0) /\ ~AtMost(c.down, 0)
HoldNotZero == c.mode = "Hold" => c.hold # 0             \* no ceiling
HoldFits == c.mode = "Hold" => c.hold # 0 /\ c.hold <= Ceiling

Accepted ==
    /\ c.mode # "none" /\ NumbersParse
    /\ SpanFits /\ CountsFit /\ RatesFit /\ HoldFits
    /\ c.end <= Ceiling

-----------------------------------------------------------------------------
(* Floats.  x is not negative: every sum is of speeds above zero, or one   *)
(* that the schedule clamps.                                               *)

Huge(x) == \A u \in Ulps : x >= Exact * u
Ulp(x) == CHOOSE u \in Ulps : x < Exact * u /\ (u = 1 \/ x >= Exact * (u \div 2))
ToEven(x, u) ==
    LET q == x \div u
        r == x % u IN
    u * (IF 2 * r < u \/ (2 * r = u /\ q % 2 = 0) THEN q ELSE q + 1)
Rounded(x) == IF x <= 0 \/ Huge(x) THEN x ELSE ToEven(x, Ulp(x))
Float(n) == Rounded(Scale * n)      \* float(n) of an unsigned n

(* The sign is taken after the product: a float's negative rounds like it, *)
(* and an infinite rate times no time at all is no number.                 *)
Times(rate, dt) ==
    IF rate = NaN \/ (Huge(rate) /\ dt = 0) THEN NaN ELSE Rounded(rate * dt)
Minus(x) == IF x = NaN THEN NaN ELSE -x
Sum(x, y) == IF x = NaN \/ y = NaN THEN NaN ELSE Rounded(x + y)

NonZero(n) == IF n = 0 THEN 1 ELSE n
Rpm(x) == IF x = NaN THEN NaN ELSE NonZero((2 * x + Scale) \div (2 * Scale))

Floats == {NaN} \union Int
Phases == {"read", "load", "rejected", "stepped", "ramp", "hold", "over"}

TypeOK ==
    /\ phase \in Phases
    /\ phase = "stepped" => rpm \in 0 .. Ceiling
    /\ phase = "ramp" => rpm = NaN \/ rpm \in Nat
    /\ phase = "hold" => rpm \in Nat
    /\ target \in Nat /\ retargets \in 0 .. Retargets /\ elapsed \in Nat
    /\ \A s \in speeds : s = NaN \/ s \in Nat \ {0}

Init ==
    /\ IniInit /\ phase = "read" /\ c = Empty
    /\ rpm = 0 /\ target = 0 /\ retargets = 0 /\ elapsed = 0 /\ speeds = {}

ReadText == phase = "read" /\ IniNext /\ UNCHANGED <<phase, c, runVars>>

LoadConfig ==
    /\ phase = "read" /\ ini = "ok" /\ KeysFit
    /\ phase' = "load" /\ c' = Config
    /\ UNCHANGED <<iniVars, runVars>>

Reject ==
    /\ \/ phase = "read" /\ (ini \notin {"reading", "ok"} \/ (ini = "ok" /\ ~KeysFit))
       \/ phase = "load" /\ ~Accepted
    /\ phase' = "rejected"
    /\ UNCHANGED <<iniVars, c, runVars>>

-----------------------------------------------------------------------------
(* run_sweep *)

StartStepped ==
    /\ phase = "load" /\ Accepted /\ c.mode = "Stepped"
    /\ phase' = "stepped" /\ rpm' = c.start /\ speeds' = {NonZero(c.start)}
    /\ UNCHANGED <<iniVars, c, target, retargets, elapsed>>

PastEndOrAt(next) == next >= c.end          \* the end itself is left out
PastEnd(next) == next > c.end

AdvanceStep ==
    /\ phase = "stepped"
    /\ LET next == (rpm + c.step) % Width IN
       /\ rpm' = next
       /\ IF PastEnd(next)
          THEN phase' = "over" /\ UNCHANGED speeds
          ELSE phase' = phase /\ speeds' = speeds \union {NonZero(next)}
    /\ UNCHANGED <<iniVars, c, target, retargets, elapsed>>

-----------------------------------------------------------------------------
(* run_ramp *)

Up == c.mode = "RampUp"
Gain(dt) == IF Up THEN Times(c.up, dt) ELSE Minus(Times(c.down, dt))
From == Float(IF Up THEN c.start ELSE c.end)
Bound == Float(IF Up THEN c.end ELSE c.start)
Reached(x) == IF Up THEN AtMost(Bound, x) ELSE AtMost(x, Bound)
Tick(dt) == LET x == Sum(rpm, Gain(dt)) IN IF Reached(x) THEN Bound ELSE x

StartRamp ==
    /\ phase = "load" /\ Accepted /\ c.mode \in Ramps
    /\ phase' = "ramp" /\ rpm' = From /\ speeds' = {Rpm(From)}
    /\ UNCHANGED <<iniVars, c, target, retargets, elapsed>>

InTime == elapsed <= WallCap

RampPass(dt) ==
    /\ phase = "ramp" /\ InTime
    /\ rpm' = Tick(dt) /\ elapsed' = elapsed + dt
    /\ speeds' = speeds \union {Rpm(rpm')}
    /\ phase' = IF Reached(rpm') THEN "over" ELSE phase
    /\ UNCHANGED <<iniVars, c, target, retargets>>

RampCapped ==
    /\ phase = "ramp" /\ ~InTime
    /\ phase' = "over"
    /\ UNCHANGED <<iniVars, c, runVars>>

-----------------------------------------------------------------------------
(* run_hold *)

RampIn(n) == IF n < Floor THEN n ELSE Floor

StartHold ==
    /\ phase = "load" /\ Accepted /\ c.mode = "Hold"
    /\ phase' = "hold" /\ target' = NonZero(c.hold)
    /\ rpm' = Float(RampIn(NonZero(c.hold))) /\ speeds' = {Rpm(rpm')}
    /\ UNCHANGED <<iniVars, c, retargets, elapsed>>

Goal == Float(NonZero(target))

Slew(goal, delta) ==
    IF rpm < goal
    THEN LET x == Sum(rpm, delta) IN IF Less(x, goal) THEN x ELSE goal
    ELSE LET x == Sum(rpm, Minus(delta)) IN
         IF Less(goal, x) THEN x ELSE goal

(* The version the comment at core1_main.cpp:902-905 tells of. *)
WholeRpm(d) == IF d = NaN THEN NaN ELSE Scale * (d \div Scale)
SlewTruncated(goal, delta) == Slew(goal, WholeRpm(delta))
SlewUnclamped(goal, delta) ==                  \* runs past the target
    IF rpm < goal THEN Sum(rpm, delta) ELSE IF rpm > goal THEN Sum(rpm, Minus(delta)) ELSE rpm

Slewed(goal, delta) == Slew(goal, delta)

HoldPass(dt) ==
    /\ phase = "hold"
    /\ rpm' = Slewed(Goal, Times(c.up, dt))
    /\ speeds' = speeds \union {Rpm(rpm')}
    /\ UNCHANGED <<iniVars, c, phase, target, retargets, elapsed>>

Retarget ==
    /\ phase = "hold" /\ retargets < Retargets
    /\ target' \in Targets /\ retargets' = retargets + 1
    /\ UNCHANGED <<iniVars, c, phase, rpm, elapsed, speeds>>

(* A lost sync ends a ramp; a stop request or a lost sync ends a hold. *)
Stop ==
    /\ phase \in {"ramp", "hold"} /\ phase' = "over"
    /\ UNCHANGED <<iniVars, c, runVars>>

Pass == \E dt \in Passes : RampPass(dt) \/ HoldPass(dt)
Next ==
    \/ ReadText \/ LoadConfig \/ Reject \/ StartStepped \/ AdvanceStep \/ StartRamp \/ RampCapped
    \/ StartHold \/ Retarget \/ Stop \/ Pass

(* Core 1 runs a busy loop, and core 0 loads the configuration at boot. *)
Fairness ==
    /\ WF_vars(ReadText) /\ WF_vars(LoadConfig) /\ WF_vars(Reject)
    /\ WF_vars(StartStepped) /\ WF_vars(AdvanceStep)
    /\ WF_vars(StartRamp) /\ WF_vars(RampCapped) /\ WF_vars(StartHold)
    /\ WF_vars(Pass)

Spec == Init /\ [][Next]_vars
FairSpec == Spec /\ Fairness

-----------------------------------------------------------------------------
(* What a configuration that is accepted leads to.                         *)

(* A stepped sweep runs at every speed from SWEEP_START_RPM to             *)
(* SWEEP_END_RPM by SWEEP_STEP_RPM, and at no other                        *)
(* (tests/test_run_modes.cpp:16).  The sum must not wrap for this.         *)
Grid == {NonZero(s) : s \in {t \in c.start .. c.end : (t - c.start) % c.step = 0}}
GridSwept == phase = "over" /\ c.mode = "Stepped" => speeds = Grid

(* Whatever mode runs, no interval of the pattern is emitted in fewer than *)
(* MinTicks: the check against the ceiling (config.cpp:158-163) covers     *)
(* every speed that is ever commanded.                                     *)
IntervalsEmittable ==
    \A s \in speeds \ {NaN} : \A g \in Gaps : g * TicksPerMin >= MinTicks * Wheel * s

(* A configuration is what the file says: of a file that fits into the     *)
(* buffer, every key was set by exactly one line, in either case, outside  *)
(* comments, HOLD_RPM by none or one, and to the value on that line.       *)
InComment(i) ==
    \E j \in 1 .. i : file[j] = Comment /\ \A m \in j .. i : file[m] # LineEnd
Setting(k) ==
    {i \in 1 .. Len(file) - 1 :
        /\ file[i].is = "key" /\ file[i].v = k /\ ~InComment(i)
        /\ (i = 1 \/ file[i - 1] = LineEnd) /\ file[i + 1] = Equals}
Said(k) ==
    LET i == CHOOSE j \in Setting(k) : TRUE
        ends == {j \in i + 2 .. Len(file) : file[j] \in {LineEnd, Comment}} IN
    SubSeq(file, i + 2, First(ends, Len(file) + 1) - 1)
ConfigIsFile ==
    phase \notin {"read", "rejected"} /\ Len(file) <= Room =>
        /\ \A k \in kRequiredKeys : Cardinality(Setting(k)) = 1
        /\ Cardinality(Setting(HOLD_RPM)) <= 1
        /\ c.mode = ParseRunMode(Said(RUN_MODE))
        /\ <<c.start, c.end, c.step, c.settle, c.samples>> =
             [i \in 1 .. 5 |-> ParseU32(Said(SWEEP_START_RPM + i - 1))]
        /\ c.up = ParseF32(Said(RAMP_UP_RPM_PER_S))
        /\ c.down = ParseF32(Said(RAMP_DOWN_RPM_PER_S))
        /\ c.hold = IF Setting(HOLD_RPM) = {} THEN DefaultHold ELSE ParseU32(Said(HOLD_RPM))

(* A hold approaches the target it last read from either side and never    *)
(* runs past it (core1_main.cpp:937-938), a rate that is NaN included.     *)
Between(x, a, b) == (a <= x /\ x <= b) \/ (b <= x /\ x <= a)
HoldNoOvershoot ==
    [][phase = "hold" => rpm' # NaN /\ Between(rpm', rpm, Goal)]_vars

(* A hold gets to a target that is left alone, as long as what a pass adds *)
(* is more than half the distance of the floats about the speed it has     *)
(* (core1_main.cpp:901-902: the accumulator is a float so that fractional  *)
(* progress is not lost).  Below that the sum is rounded back to where it  *)
(* was; a NaN and an infinity jump to the target.                          *)
AtTarget == rpm = Goal
Resolves ==
    \A dt \in Passes \ {0} :
        Times(c.up, dt) = NaN \/ 2 * Times(c.up, dt) > Ulp(rpm)
HoldSettles == (phase = "hold") ~> (phase # "hold" \/ AtTarget \/ ~Resolves)

(* Every stepped sweep and every ramp ends, at a rate that is NaN too      *)
(* (core1_main.cpp:828-830), without a stop or a lost sync.                *)
SchedulesEnd == <>(phase \in {"rejected", "hold", "over"})

-----------------------------------------------------------------------------
(* A statement of the code's own comments that fails: both rates of a      *)
(* configuration that is accepted are above zero (core1_main.cpp:899, ">0  *)
(* by config validation").  A rate of nan is not refused.                  *)
RatesPositive == phase # "read" /\ Accepted => Less(0, c.up) /\ Less(0, c.down)

(* Another: in a hold "fractional slew progress is never lost"             *)
(* (core1_main.cpp:901-902), so that it gets to its target at every rate.  *)
(* A low rate that is accepted sticks at a high speed, where every pass's  *)
(* increment is rounded away.                                              *)
HoldAlwaysSettles == (phase = "hold") ~> (phase # "hold" \/ AtTarget)

(* Another: a CONFIG.INI larger than the buffer fails validation           *)
(* (constants.hpp:141-143).  One whose last value or whose optional last   *)
(* line is cut off passes, with another value.                             *)
OversizeRefused == Len(file) > Room => phase \in {"read", "load", "rejected"}
=============================================================================
