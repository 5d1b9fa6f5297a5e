---------------------------- MODULE MCSchedules ----------------------------
(* Speeds of a few rpm, numbers of 5 bits and floats of 3 bits.  The texts *)
(* differ from a plain one in a few values, the files from a plain one in  *)
(* a few lines.                                                            *)
EXTENDS Schedules

Doublings == {1, 2, 4, 8, 16, 32, 64, 128}
Leads == <<0, 2, 4>>
Trails == <<1, 3, 5>>

-----------------------------------------------------------------------------
(* Texts: the values, before they are parsed. *)

Plain ==
    [mode |-> "Stepped", start |-> 2, end |-> 7, step |-> 2, settle |-> 2,
     samples |-> 3, up |-> 2, down |-> 2, hold |-> 5]

Keys == DOMAIN Plain
Ordinary == {"Stepped", "RampUp", "RampDown", "Hold"}

(* Every span and step, also those that are refused. *)
Sweeps ==
    {[Plain EXCEPT !.start = s, !.end = e, !.step = d] :
        s \in 0 .. 9, e \in 0 .. 9, d \in 0 .. 10}

(* One value of any key that a check or the parser turns down. *)
Faulty ==
    {[Plain EXCEPT !.mode = m, ![k] = v] :
        m \in Ordinary, k \in Keys \ {"mode"}, v \in {0, Bad, Width}}
    \union {[Plain EXCEPT !.mode = "Other"]}

Slopes == {1, 3, NaN, Infinity}
Ramped ==
    {[Plain EXCEPT !.mode = m, !.start = s, !.end = e, ![r] = x] :
        m \in Ramps, s \in 0 .. 3, e \in {3, 5, 8}, r \in {"up", "down"}, x \in Slopes}

Holds ==
    {[Plain EXCEPT !.mode = "Hold", !.hold = h, !.up = u] :
        h \in {NaN} \union (0 .. 10), u \in {1, 2, 3, NaN, Infinity}}

-----------------------------------------------------------------------------
(* Files. *)

Number0(v) ==
    IF v = NaN THEN <<Word(NanWord)>>
    ELSE IF v = Infinity THEN <<Word(InfWord)>>
    ELSE IF v = Bad THEN <<Digit(1), Word(OtherWord)>>
    ELSE IF v < 10 THEN <<Digit(v)>>
    ELSE <<Digit(v \div 10), Digit(v % 10)>>
Mode0(m) ==
    <<Word(IF \E w \in DOMAIN Modes : Modes[w] = m
           THEN CHOOSE w \in DOMAIN Modes : Modes[w] = m ELSE OtherWord)>>

Says(k, value) == <<Key(k, TRUE), Equals>> \o value \o <<LineEnd>>

Upto8(t) ==
    Says(RUN_MODE, Mode0(t.mode)) \o Says(SWEEP_START_RPM, Number0(t.start))
    \o Says(SWEEP_END_RPM, Number0(t.end)) \o Says(SWEEP_STEP_RPM, Number0(t.step))
    \o Says(SWEEP_SETTLE_REVS, Number0(t.settle)) \o Says(SWEEP_SAMPLES, Number0(t.samples))
    \o Says(RAMP_UP_RPM_PER_S, Number0(t.up)) \o Says(RAMP_DOWN_RPM_PER_S, Number0(t.down))
Text(t) == Upto8(t) \o Says(HOLD_RPM, Number0(t.hold))

(* Files with lines that are none, twice the same key in either case, keys *)
(* nobody knows, more keys than there is room for, comments, values that   *)
(* are cut off by a comment, and files that do not fit: the buffer ends    *)
(* before, in and after the last value.                                    *)
OnHold == [Plain EXCEPT !.mode = "Hold"]
Lines ==
    { <<LineEnd>>, <<Comment, LineEnd>>, <<Comment>> \o Says(HOLD_RPM, <<Digit(3)>>),
      <<Key(HOLD_RPM, TRUE), LineEnd>>, <<Equals, Digit(3), LineEnd>>,
      <<Key(HOLD_RPM, TRUE), Comment>> \o Says(HOLD_RPM, <<Digit(3)>>) }
    \union {<<Key(k, up), Equals>> \o v \o <<LineEnd>> :
              k \in {RUN_MODE, SWEEP_SAMPLES, HOLD_RPM, 10}, up \in BOOLEAN,
              v \in {<<Digit(3)>>, <<Digit(3), Comment, Digit(1)>>, <<Comment, Digit(3)>>}}
Others ==
    {Upto8(t) : t \in {Plain, OnHold}}
    \union {l \o Text(t) : l \in Lines, t \in {Plain, OnHold}}
    \union {Upto8(OnHold) \o l : l \in Lines}
    \union {Upto8(OnHold) \o l \o Says(HOLD_RPM, v) :
              l \in {<<LineEnd>>, <<Comment, LineEnd>>, [i \in 1 .. 4 |-> LineEnd]},
              v \in {<<Digit(1), Digit(2)>>, <<Digit(0), Digit(6)>>}}
    \union {[i \in 1 .. 33 |-> <<LineEnd, Key(9 + (i + 2) \div 3, TRUE), Equals>>[(i % 3) + 1]]}

All == {Text(t) : t \in Sweeps \union Faulty \union Ramped \union Holds} \union Others
=============================================================================
