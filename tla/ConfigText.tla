----------------------------- MODULE ConfigText -----------------------------
(***************************************************************************)
(* core/ini.cpp, core/parse.cpp and the key lookup of core/config.cpp:     *)
(* CONFIG.INI is read into a buffer, split into lines and made into pairs, *)
(* line by line, until it ends or a line is refused.                       *)
(*                                                                         *)
(* A file is a sequence of tokens: a key (an index into kKnownKeys, spelt  *)
(* in one of two cases), "=", ";", a line end, a digit, or a word that is  *)
(* not a number.  White space is left out: the reader trims it everywhere  *)
(* it may stand.  A key cut in two has no "=" after it, like a whole key   *)
(* at the end of the buffer.                                               *)
(***************************************************************************)
EXTENDS Integers, Sequences, FiniteSetsExt

CONSTANTS
    Files,      \* what CONFIG.INI may hold
    Room,       \* kConfigTextBufBytes
    MaxKeys,    \* kMaxIniKeys
    Width,      \* 2^32
    NaN,        \* what strtof makes of "nan"
    Infinity,   \* and of "inf"
    Bad         \* no number

ASSUME TextAssumption == Room \in Nat /\ MaxKeys \in Nat /\ Width \in Nat \ {0}

RUN_MODE == 1           SWEEP_START_RPM == 2    SWEEP_END_RPM == 3
SWEEP_STEP_RPM == 4     SWEEP_SETTLE_REVS == 5  SWEEP_SAMPLES == 6
RAMP_UP_RPM_PER_S == 7  RAMP_DOWN_RPM_PER_S == 8  HOLD_RPM == 9
kKnownKeys == 1 .. 9
kRequiredKeys == kKnownKeys \ {HOLD_RPM}

Key(k, capital) == [is |-> "key", v |-> k, capital |-> capital]
Digit(d) == [is |-> "digit", v |-> d, capital |-> FALSE]
Word(w) == [is |-> "word", v |-> w, capital |-> FALSE]
Sign(s) == [is |-> s, v |-> 0, capital |-> FALSE]
Equals == Sign("=")
Comment == Sign(";")
LineEnd == Sign("end of line")

Token ==
    [is : {"key", "digit", "word", "=", ";", "end of line"}, v : Nat, capital : BOOLEAN]
ASSUME FilesAssumption == Files \subseteq Seq(Token)

Modes == <<"Stepped", "RampUp", "RampDown", "Hold">>    \* the words 1 to 4
NanWord == 5
InfWord == 6
OtherWord == 7

VARIABLES
    file,       \* CONFIG.INI
    pos,        \* pos: where the next line begins
    pairs,      \* pairs, up to count
    ini         \* "reading", "ok", or the error parse_ini() ended with

iniVars == <<file, pos, pairs, ini>>

IniInit == file \in Files /\ pos = 1 /\ pairs = <<>> /\ ini = "reading"

-----------------------------------------------------------------------------
(* fs_read fills the buffer and drops the rest without an error. *)
Length == IF Len(file) <= Room THEN Len(file) ELSE Room

(* The line at pos, to its end, to its comment and to its "=". *)
First(places, otherwise) == IF places = {} THEN otherwise ELSE Min(places)
LineStop == First({i \in pos .. Length : file[i] = LineEnd}, Length + 1)
Line ==
    LET stop == LineStop IN
    SubSeq(file, pos, First({i \in pos .. stop - 1 : file[i] = Comment}, stop) - 1)
Eq(t) == First({i \in DOMAIN t : t[i] = Equals}, 0)
KeyIn(t) == SubSeq(t, 1, Eq(t) - 1)
ValueIn(t) == SubSeq(t, Eq(t) + 1, Len(t))

iequal(a, b) == Len(a) = Len(b) /\ \A i \in DOMAIN a : a[i].is = b[i].is /\ a[i].v = b[i].v
HasSpelt(key) == \E i \in DOMAIN pairs : pairs[i].key = key
Has(key) == \E i \in DOMAIN pairs : iequal(pairs[i].key, key)

SkipLine(t) == t = <<>> /\ UNCHANGED <<pairs, ini>>

RefuseLine(t) ==
    /\ t # <<>>
    /\ \/ Eq(t) \in {0, 1} /\ ini' = "MalformedLine"
       \/ Eq(t) > 1 /\ Has(KeyIn(t)) /\ ini' = "DuplicateKey"
       \/ Eq(t) > 1 /\ ~Has(KeyIn(t)) /\ Len(pairs) >= MaxKeys /\ ini' = "TooManyKeys"
    /\ UNCHANGED pairs

StorePair(t) ==
    /\ Eq(t) > 1 /\ ~Has(KeyIn(t)) /\ Len(pairs) < MaxKeys
    /\ pairs' = Append(pairs, [key |-> KeyIn(t), value |-> ValueIn(t)])
    /\ UNCHANGED ini

ReadLine ==
    /\ ini = "reading" /\ pos <= Length
    /\ \E t \in {Line} : SkipLine(t) \/ RefuseLine(t) \/ StorePair(t)
    /\ pos' = LineStop + 1 /\ UNCHANGED file

EndOfText ==
    /\ ini = "reading" /\ pos > Length
    /\ ini' = "ok" /\ UNCHANGED <<file, pos, pairs>>

IniNext == ReadLine \/ EndOfText

-----------------------------------------------------------------------------
(* load_config: the keys there have to be and may be, and their values.    *)

HasKey(k) == Has(<<Key(k, TRUE)>>)
KeysFit ==
    /\ \A i \in DOMAIN pairs : \E k \in kKnownKeys : iequal(pairs[i].key, <<Key(k, TRUE)>>)
    /\ \A k \in kRequiredKeys : HasKey(k)
ValueOf(k) == pairs[Min({i \in DOMAIN pairs : iequal(pairs[i].key, <<Key(k, TRUE)>>)})].value

Number(s) ==
    LET v[i \in 0 .. Len(s)] == IF i = 0 THEN 0 ELSE 10 * v[i - 1] + s[i].v IN v[Len(s)]
Digits(s) == s # <<>> /\ \A i \in DOMAIN s : s[i].is = "digit"
ParseU32(s) == IF Digits(s) /\ Number(s) < Width THEN Number(s) ELSE Bad
ParseF32(s) ==
    IF Digits(s) THEN Number(s)
    ELSE IF s = <<Word(NanWord)>> THEN NaN
    ELSE IF s = <<Word(InfWord)>> THEN Infinity ELSE Bad
ParseRunMode(s) ==
    IF \E w \in DOMAIN Modes : s = <<Word(w)>> THEN Modes[s[1].v] ELSE "none"
=============================================================================
