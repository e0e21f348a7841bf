------------------------------ MODULE RtcProof ------------------------------
(***************************************************************************)
(* Theorems about Rtc, for any number of terminals, any device rate, any   *)
(* width of the counter and whatever programs ask for.                     *)
(***************************************************************************)
EXTENDS Rtc, TLAPS

-----------------------------------------------------------------------------
(* Types *)

LEMMA Constants ==
    /\ DFT_COUNT \in Nat \ {0} /\ DFT_COUNT < COUNT_MOD /\ COUNT_MOD \in Nat
    /\ NUM_COLORS - 1 \in Nat \ {0}
    /\ NUM_COLORS \in Nat
<1>1. FREQ_MAX \in Nat /\ FREQ_MAX >= 2
  BY RtcAssumption DEF FREQ_DFT
<1>2. FREQ_MAX \div 2 \in Nat \ {0}
  BY <1>1, SMT
<1> QED BY <1>2, RtcAssumption DEF DFT_COUNT, FREQ_DFT

\* An accepted frequency asks for at most the default count.
LEMMA AcceptedCount ==
    ASSUME NEW freq \in Freq, Accepted(freq)
    PROVE  freq \div FREQ_DFT \in 0 .. DFT_COUNT
<1>1. freq \in Nat /\ freq <= FREQ_MAX /\ FREQ_MAX \in Nat
  BY RtcAssumption DEF Accepted
<1>2. freq \div 2 \in Nat /\ freq \div 2 <= FREQ_MAX \div 2 /\ FREQ_MAX \div 2 \in Nat
  BY <1>1, SMT
<1> QED BY <1>2 DEF FREQ_DFT, DFT_COUNT

LEMMA Remainder ==
    ASSUME NEW k \in Nat, NEW m \in Nat \ {0}
    PROVE  k % m \in 0 .. m - 1
OBVIOUS

LEMMA NextColor ==
    ASSUME NEW n \in Nat
    PROVE  /\ (n + 1) % (NUM_COLORS - 1) \in 0 .. NUM_COLORS - 2
           /\ 0 .. NUM_COLORS - 2 \subseteq Color
<1>1. n + 1 \in Nat /\ NUM_COLORS - 1 \in Nat \ {0} /\ NUM_COLORS \in Nat
  BY Constants
<1>2. (n + 1) % (NUM_COLORS - 1) \in 0 .. (NUM_COLORS - 1) - 1
  BY <1>1, Remainder
<1> QED BY <1>1, <1>2 DEF Color

LEMMA TypeInit == Init => TypeOK
<1> SUFFICES ASSUME Init PROVE TypeOK
  OBVIOUS
<1> QED BY Constants DEF Init, TypeOK, Color

LEMMA TurnTypes ==
    ASSUME TypeOK, NEW T, TurnRainbow(T)
    PROVE  /\ ATTRIB' \in [Terminal -> Color]
           /\ rainbow_ptr' \in [Terminal -> 0 .. NUM_COLORS - 2]
           /\ rainbow_flag' \in [Terminal -> {0, 1}]
<1>1. \A t \in Terminal : rainbow_ptr[t] \in Nat
  BY Constants DEF TypeOK
<1>2. \A t \in Terminal : (rainbow_ptr[t] + 1) % (NUM_COLORS - 1) \in 0 .. NUM_COLORS - 2
  BY <1>1, NextColor
<1>3. \A t \in Terminal : (rainbow_ptr[t] + 1) % (NUM_COLORS - 1) \in Color
  BY <1>1, NextColor
<1> QED BY <1>2, <1>3 DEF TypeOK, TurnRainbow

LEMMA TypeStep == TypeOK /\ [Next]_vars => TypeOK'
<1> SUFFICES ASSUME TypeOK, [Next]_vars PROVE TypeOK'
  OBVIOUS
<1> USE Constants
<1>1. CASE rtc_handler
  <2>1. \A t \in Terminal : Counted(t) \in 0 .. COUNT_MOD - 1
    BY DEF Counted, TypeOK
  <2>2. \A t \in Terminal : Earns(t) \in 0 .. 2 * DFT_COUNT
    BY DEF Earns, Period, TypeOK
  <2>3. counter' \in [Terminal -> 0 .. COUNT_MOD - 1]
    BY <1>1, <2>1 DEF rtc_handler
  <2>4. earned' \in [Terminal -> 0 .. 2 * DFT_COUNT]
    BY <1>1, <2>2 DEF rtc_handler
  <2>5. tick' \in [Terminal -> {0, 1}]
    BY <1>1 DEF rtc_handler, TypeOK
  <2> QED BY <1>1, <2>3, <2>4, <2>5, TurnTypes DEF rtc_handler, TypeOK
<1>2. ASSUME NEW t \in Terminal, Enter(t) PROVE TypeOK'
  BY <1>2, TurnTypes DEF Enter, clock, TypeOK
<1>3. ASSUME NEW t \in Terminal, Step(t) PROVE TypeOK'
  <2>1. CASE OpenCounter(t)
    BY <2>1 DEF OpenCounter, Goto, color, TypeOK
  <2>2. CASE OpenRequired(t)
    BY <2>2 DEF OpenRequired, Goto, color, TypeOK
  <2>3. CASE SeeTick(t)
    BY <2>3 DEF SeeTick, Goto, clock, color, TypeOK
  <2>4. CASE ReadReturns(t)
    BY <2>4 DEF ReadReturns, Pay, Goto, color, TypeOK
  <2>5. CASE RainbowOff(t)
    BY <2>5 DEF RainbowOff, Goto, clock, TypeOK
  <2>6. CASE RainbowPtr(t)
    BY <2>6 DEF RainbowPtr, Goto, clock, TypeOK
  <2>7. CASE RainbowFirst(t)
    BY <2>7 DEF RainbowFirst, Goto, clock, Color, TypeOK
  <2> QED BY <1>3, <2>1, <2>2, <2>3, <2>4, <2>5, <2>6, <2>7 DEF Step
<1>4. ASSUME NEW t \in Terminal, Calls(t) PROVE TypeOK'
  <2>1. CASE rtc_open(t)
    BY <2>1 DEF rtc_open, Goto, color, TypeOK
  <2>2. CASE rtc_read(t)
    BY <2>2 DEF rtc_read, Goto, clock, color, TypeOK
  <2>3. ASSUME NEW freq \in Freq, rtc_write(t, freq) PROVE TypeOK'
    <3>1. freq \div FREQ_DFT \in 0 .. DFT_COUNT
      BY <2>3, AcceptedCount DEF rtc_write
    <3> QED BY <2>3, <3>1 DEF rtc_write, color, TypeOK
  <2>4. ASSUME NEW att \in Att, color_call(t, att) PROVE TypeOK'
    <3>1. att \in Color \cup {RAINBOW}
      BY RtcAssumption DEF Color, RAINBOW
    <3> QED BY <2>4, <3>1 DEF color_call, Goto, clock, TypeOK
  <2> QED BY <1>4, <2>1, <2>2, <2>3, <2>4 DEF Calls
<1>5. ASSUME NEW t \in Terminal, Kill(t) PROVE TypeOK'
  BY <1>5 DEF Kill, Goto, clock, color, TypeOK
<1>6. CASE UNCHANGED vars
  BY <1>6 DEF vars, clock, color, TypeOK
<1> QED BY <1>1, <1>2, <1>3, <1>4, <1>5, <1>6 DEF Next

\* Every variable keeps its type, whatever interrupts come between the stores of
\* the system calls (rtc.c): required_count, above all, is never more than the
\* default one, as rtc_write takes no frequency above FREQ_MAX.
THEOREM RtcTypeCorrect == Spec => []TypeOK
BY TypeInit, TypeStep, PTL DEF Spec

-----------------------------------------------------------------------------
(* The clock *)

\* No period ends between the stores of rtc_open.
ClockQuiet == "OpenRace" \notin Env

\* The part of the period that counter stands for: all of it when counter has
\* passed required_count, as it can after a rtc_write.
PartOf(n, period) == IF n < period THEN n ELSE period

\* What earned says: that part, and a period more when the tick is set.  A read
\* that resets the tick has seen it, and open has reset it.
Paid(t) ==
    earned[t] >= PartOf(counter[t], Period(t)) + (IF tick[t] = 1 THEN Period(t) ELSE 0)

ClockAt(t) ==
    /\ Paid(t)
    /\ pc[t] \in {"open1", "open2"} => tick[t] = 0
    /\ pc[t] = "open2" => counter[t] < DFT_COUNT
    /\ pc[t] = "reset" => tick[t] = 1

ClockInv == TypeOK /\ \A t \in Terminal : ClockAt(t)

\* An action of terminal t leaves the clocks of the others as they are.
SameAt(u) ==
    /\ tick'[u] = tick[u] /\ counter'[u] = counter[u]
    /\ required_count'[u] = required_count[u] /\ pc'[u] = pc[u] /\ earned'[u] = earned[u]

LEMMA ClockAtOthers ==
    ASSUME NEW u \in Terminal, ClockAt(u), SameAt(u)
    PROVE  ClockAt(u)'
BY DEF ClockAt, SameAt, Paid, Period

LEMMA OnlyHere ==
    ASSUME TypeOK, NEW t \in Terminal, NEW u \in Terminal \ {t},
           Step(t) \/ Calls(t) \/ Enter(t) \/ Kill(t)
    PROVE  SameAt(u)
<1> USE DEF SameAt, TypeOK, Goto, clock, color
<1>1. CASE Step(t)
  BY <1>1 DEF Step, OpenCounter, OpenRequired, SeeTick, ReadReturns, RainbowOff, RainbowPtr,
              RainbowFirst
<1>2. CASE Calls(t)
  BY <1>2 DEF Calls, rtc_open, rtc_read, rtc_write, color_call
<1>3. CASE Enter(t)
  BY <1>3 DEF Enter
<1>4. CASE Kill(t)
  BY <1>4 DEF Kill
<1> QED BY <1>1, <1>2, <1>3, <1>4

LEMMA ClockInit == Init => ClockInv
<1> SUFFICES ASSUME Init PROVE ClockInv
  OBVIOUS
<1>1. TypeOK
  BY TypeInit
<1>2. \A t \in Terminal : ClockAt(t)
  BY Constants DEF Init, ClockAt, Paid, PartOf, Period
<1> QED BY <1>1, <1>2 DEF ClockInv

\* One interrupt, at the terminal t.
LEMMA ClockCounts ==
    ASSUME ClockQuiet, ClockInv, rtc_handler, NEW t \in Terminal
    PROVE  ClockAt(t)'
<1> USE Constants
<1>1. /\ counter[t] \in Nat /\ required_count[t] \in Nat /\ earned[t] \in Nat
      /\ required_count[t] <= DFT_COUNT /\ tick[t] \in {0, 1} /\ ClockAt(t)
      /\ Counted(t) \in Nat
  BY DEF ClockInv, TypeOK, Counted
<1>2. Counted(t) = counter[t] + 1 \/ Counted(t) = 0
  BY DEF Counted
<1>3. /\ pc'[t] = pc[t] /\ Period(t)' = Period(t) /\ earned'[t] = Earns(t)
      /\ counter'[t] = (IF Ticks(t) THEN 0 ELSE Counted(t))
      /\ tick'[t] = (IF Ticks(t) THEN 1 ELSE tick[t])
  BY DEF rtc_handler, Period
<1>4. PICK per \in Nat : per = Period(t)
  BY <1>1 DEF Period
<1>5. earned[t] >= PartOf(counter[t], per) + (IF tick[t] = 1 THEN per ELSE 0)
  BY <1>1, <1>4 DEF ClockAt, Paid
<1>6. earned'[t] = IF earned[t] + 1 > 2 * per THEN 2 * per ELSE earned[t] + 1
  BY <1>3, <1>4 DEF Earns
<1>7. CASE Ticks(t)
  <2>1. pc[t] \notin {"open1", "open2"}
    BY <1>7 DEF rtc_handler, ClockQuiet, OpenRace
  <2>2. per = Counted(t)
    BY <1>4, <1>7, <2>1 DEF Period, Ticks
  <2>3. earned'[t] >= per
    BY <1>1, <1>2, <1>4, <1>5, <1>6, <2>2 DEF PartOf
  <2>4. Paid(t)'
    BY <1>1, <1>3, <1>4, <1>7, <2>3 DEF Paid, PartOf
  <2> QED BY <1>1, <1>3, <1>7, <2>1, <2>4 DEF ClockAt
<1>8. CASE ~Ticks(t)
  <2>1. PartOf(Counted(t), per) <= PartOf(counter[t], per) + 1
    BY <1>1, <1>2, <1>4 DEF PartOf
  <2>2. PartOf(Counted(t), per) <= per /\ PartOf(Counted(t), per) \in Nat
        /\ PartOf(counter[t], per) \in Nat
    BY <1>1, <1>4 DEF PartOf
  <2>3. earned'[t] >= PartOf(Counted(t), per) + (IF tick[t] = 1 THEN per ELSE 0)
    BY <1>1, <1>4, <1>5, <1>6, <2>1, <2>2
  <2>4. Paid(t)'
    BY <1>3, <1>4, <1>8, <2>3 DEF Paid
  <2>5. pc[t] = "open2" => Counted(t) < DFT_COUNT
    BY <1>1, <1>2 DEF rtc_handler, ClockQuiet, OpenRace, ClockAt
  <2> QED BY <1>1, <1>3, <1>8, <2>4, <2>5 DEF ClockAt
<1> QED BY <1>7, <1>8

LEMMA ClockCalls ==
    ASSUME ClockQuiet, ClockInv, NEW t \in Terminal,
           Step(t) \/ Calls(t) \/ Enter(t) \/ Kill(t)
    PROVE  ClockAt(t)'
<1> USE Constants DEF Goto, clock, color
<1>1. /\ counter[t] \in Nat /\ required_count[t] \in Nat /\ earned[t] \in Nat
      /\ required_count[t] <= DFT_COUNT /\ tick[t] \in {0, 1} /\ ClockAt(t) /\ TypeOK
  BY DEF ClockInv, TypeOK
<1>2. CASE Step(t)
  <2>1. CASE OpenCounter(t)
    BY <1>1, <2>1 DEF OpenCounter, ClockAt, Paid, PartOf, Period, TypeOK
  <2>2. CASE OpenRequired(t)
    BY <1>1, <2>2 DEF OpenRequired, ClockAt, Paid, PartOf, Period, TypeOK
  <2>3. CASE SeeTick(t)
    BY <1>1, <2>3 DEF SeeTick, ClockAt, Paid, Period, TypeOK
  <2>4. CASE ReadReturns(t)
    BY <1>1, <2>4 DEF ReadReturns, Pay, ClockAt, Paid, PartOf, Period, TypeOK
  <2>5. CASE RainbowOff(t) \/ RainbowPtr(t) \/ RainbowFirst(t)
    BY <1>1, <2>5 DEF RainbowOff, RainbowPtr, RainbowFirst, ClockAt, Paid, Period, TypeOK
  <2> QED BY <1>2, <2>1, <2>2, <2>3, <2>4, <2>5 DEF Step
<1>3. CASE Calls(t)
  <2>1. CASE rtc_open(t)
    BY <1>1, <2>1 DEF rtc_open, ClockAt, Paid, PartOf, Period, TypeOK
  <2>2. CASE rtc_read(t)
    BY <1>1, <2>2 DEF rtc_read, ClockAt, Paid, Period, TypeOK
  <2>3. ASSUME NEW freq \in Freq, rtc_write(t, freq) PROVE ClockAt(t)'
    <3> DEFINE r == freq \div FREQ_DFT
    <3>1. r \in Nat
      BY <2>3, AcceptedCount DEF rtc_write
    <3>2. /\ required_count'[t] = r /\ earned'[t] = 2 * r /\ tick'[t] = tick[t]
          /\ counter'[t] = counter[t] /\ pc'[t] = "user"
      BY <2>3 DEF rtc_write, ClockInv, TypeOK
    <3> HIDE DEF r
    <3> QED BY <1>1, <3>1, <3>2 DEF ClockAt, Paid, PartOf, Period
  <2>4. ASSUME NEW att \in Att, color_call(t, att) PROVE ClockAt(t)'
    BY <1>1, <2>4 DEF color_call, ClockAt, Paid, Period, TypeOK
  <2> QED BY <1>3, <2>1, <2>2, <2>3, <2>4 DEF Calls
<1>4. CASE Enter(t)
  BY <1>1, <1>4 DEF Enter, ClockAt, Paid, Period
<1>5. CASE Kill(t)
  BY <1>1, <1>5 DEF Kill, ClockAt, Paid, PartOf, Period, TypeOK
<1> QED BY <1>2, <1>3, <1>4, <1>5

LEMMA ClockStep ==
    ASSUME ClockQuiet
    PROVE  ClockInv /\ [Next]_vars => ClockInv'
<1> SUFFICES ASSUME ClockInv, [Next]_vars PROVE ClockInv'
  OBVIOUS
<1>1. TypeOK'
  BY TypeStep DEF ClockInv
<1>2. ASSUME NEW u \in Terminal PROVE ClockAt(u)'
  <2>1. CASE rtc_handler
    BY <2>1, ClockCounts
  <2>2. ASSUME NEW t \in Terminal, Step(t) \/ Calls(t) \/ Enter(t) \/ Kill(t)
        PROVE  ClockAt(u)'
    <3>1. CASE u = t
      BY <2>2, <3>1, ClockCalls
    <3>2. CASE u # t
      BY <2>2, <3>2, OnlyHere, ClockAtOthers DEF ClockInv
    <3> QED BY <3>1, <3>2
  <2>3. CASE UNCHANGED vars
    BY <2>3, ClockAtOthers DEF vars, clock, SameAt, ClockInv
  <2> QED BY <2>1, <2>2, <2>3 DEF Next
<1> QED BY <1>1, <1>2 DEF ClockInv

LEMMA ClockInvariant ==
    ASSUME ClockQuiet
    PROVE  Spec => []ClockInv
BY ClockInit, ClockStep, PTL DEF Spec

\* A clock that is on time, or that rtc_open has just set, is on time after a step
\* that is not a rtc_write.
LEMMA TimelyStep ==
    ASSUME ClockQuiet, ClockInv, [Next]_vars, NEW t \in Terminal,
           counter[t] < required_count[t] \/ OpenRequired(t)
    PROVE  counter'[t] < required_count'[t] \/ \E freq \in Freq : rtc_write(t, freq)
<1> SUFFICES ASSUME ~ \E freq \in Freq : rtc_write(t, freq)
             PROVE  counter'[t] < required_count'[t]
  OBVIOUS
<1> USE Constants
<1>1. /\ counter[t] \in Nat /\ required_count[t] \in Nat /\ TypeOK /\ ClockAt(t)
      /\ required_count[t] <= DFT_COUNT
  BY DEF ClockInv, TypeOK
<1>2. CASE OpenRequired(t)
  <2>1. counter'[t] = counter[t] /\ required_count'[t] = DFT_COUNT /\ pc[t] = "open2"
    BY <1>1, <1>2 DEF OpenRequired, TypeOK
  <2> QED BY <1>1, <2>1 DEF ClockAt
<1>3. CASE counter[t] < required_count[t] /\ ~OpenRequired(t)
  <2>1. CASE rtc_handler
    <3>1. /\ required_count'[t] = required_count[t]
          /\ counter'[t] = (IF Counted(t) = required_count[t] THEN 0 ELSE Counted(t))
      BY <2>1 DEF rtc_handler, Ticks
    <3>2. Counted(t) \in Nat /\ (Counted(t) = counter[t] + 1 \/ Counted(t) = 0)
      BY <1>1 DEF Counted
    <3> QED BY <1>1, <1>3, <3>1, <3>2
  <2>2. ASSUME NEW u \in Terminal, Step(u) \/ Calls(u) \/ Enter(u) \/ Kill(u), u # t
        PROVE  counter'[t] < required_count'[t]
    <3>1. SameAt(t)
      BY <1>1, <2>2, OnlyHere
    <3> QED BY <1>3, <3>1 DEF SameAt
  <2>3. CASE OpenCounter(t)
    BY <1>1, <1>3, <2>3 DEF OpenCounter, TypeOK
  <2>4. CASE SeeTick(t) \/ ReadReturns(t) \/ RainbowOff(t) \/ RainbowPtr(t) \/ RainbowFirst(t)
    BY <1>3, <2>4 DEF SeeTick, ReadReturns, RainbowOff, RainbowPtr, RainbowFirst, clock
  <2>5. CASE rtc_open(t) \/ rtc_read(t) \/ Enter(t) \/ Kill(t)
    BY <1>3, <2>5 DEF rtc_open, rtc_read, Enter, Kill, clock
  <2>6. ASSUME NEW att \in Att, color_call(t, att) PROVE counter'[t] < required_count'[t]
    BY <1>3, <2>6 DEF color_call, clock
  <2>7. CASE UNCHANGED vars
    BY <1>3, <2>7 DEF vars, clock
  <2> QED BY <1>3, <2>1, <2>2, <2>3, <2>4, <2>5, <2>6, <2>7 DEF Next, Step, Calls
<1> QED BY <1>2, <1>3

\* OnTime holds for every device rate and width of the counter: rtc_handler
\* (rtc.c:124) finds counter equal to required_count before it passes it, and
\* rtc_open (rtc.c:60-62) sets a clock right that a rate has made late.
THEOREM OnTimeHolds ==
    ASSUME ClockQuiet
    PROVE  Spec => OnTime
<1>1. ClockInv /\ [Next]_vars =>
        (\A t \in Terminal :
            (counter[t] < required_count[t] \/ OpenRequired(t)) =>
               (counter'[t] < required_count'[t] \/ \E freq \in Freq : rtc_write(t, freq)))
  BY TimelyStep
<1> QED BY <1>1, ClockInvariant, PTL DEF Spec, OnTime

\* NotEarly holds: wherever rtc_handler comes between the loop of rtc_read and the
\* reset behind it (rtc.c:89-90), a return has its period of interrupts.
THEOREM NotEarlyHolds ==
    ASSUME ClockQuiet
    PROVE  Spec => NotEarly
<1>1. ClockInv => \A t \in Terminal : pc[t] = "reset" => earned[t] >= required_count[t]
  <2> SUFFICES ASSUME ClockInv, NEW t \in Terminal, pc[t] = "reset"
               PROVE  earned[t] >= required_count[t]
    OBVIOUS
  <2>1. /\ counter[t] \in Nat /\ required_count[t] \in Nat /\ earned[t] \in Nat
        /\ ClockAt(t)
    BY Constants DEF ClockInv, TypeOK
  <2> QED BY <2>1 DEF ClockAt, Paid, PartOf, Period
<1>2. ClockInv => (\A t \in Terminal :
                      pc[t] = "reset" /\ tick'[t] = 0 => earned[t] >= required_count[t])
  BY <1>1
<1> QED BY <1>2, ClockInvariant, PTL DEF NotEarly

-----------------------------------------------------------------------------
(* The colour *)

\* In color a terminal has half of a change done: its colour before the rainbow
\* is off, or the rainbow before its first colour.
ColorAt(t) ==
    /\ pc[t] = "color" => ATTRIB[t] = chosen[t]
    /\ pc[t] \in {"rainbow", "first"} => rainbow_flag[t] = 1
    /\ ~InColor(t) => ATTRIB[t] = IF rainbow_flag[t] = 1 THEN rainbow_ptr[t] ELSE chosen[t]

ColorInv == TypeOK /\ \A t \in Terminal : ColorAt(t)

LEMMA ColorInit == Init => ColorInv
<1> SUFFICES ASSUME Init PROVE ColorInv
  OBVIOUS
<1>1. TypeOK
  BY TypeInit
<1>2. \A t \in Terminal : ColorAt(t)
  BY DEF Init, ColorAt, InColor
<1> QED BY <1>1, <1>2 DEF ColorInv

\* The rainbow turns at the terminals of T, from one program's step to the next.
LEMMA ColorTurns ==
    ASSUME "ColorRace" \notin Env, ColorInv, NEW T, TurnRainbow(T),
           UNCHANGED <<pc, chosen>>, NEW u \in Terminal
    PROVE  ColorAt(u)'
<1>1. CASE u \in T /\ rainbow_flag[u] = 1
  <2>1. ~InColor(u)
    BY <1>1 DEF TurnRainbow
  <2>2. ATTRIB'[u] = rainbow_ptr'[u] /\ rainbow_flag'[u] = 1
    BY <1>1 DEF TurnRainbow
  <2> QED BY <2>1, <2>2 DEF ColorAt, InColor
<1>2. CASE ~(u \in T /\ rainbow_flag[u] = 1)
  <2>1. ATTRIB'[u] = ATTRIB[u] /\ rainbow_ptr'[u] = rainbow_ptr[u]
    BY <1>2 DEF TurnRainbow
  <2>2. rainbow_flag' = rainbow_flag
    BY DEF TurnRainbow
  <2> QED BY <2>1, <2>2 DEF ColorInv, ColorAt, InColor
<1> QED BY <1>1, <1>2

LEMMA ColorCalls ==
    ASSUME "ColorRace" \notin Env, ColorInv, NEW t \in Terminal,
           Step(t) \/ Calls(t) \/ Kill(t), NEW u \in Terminal
    PROVE  ColorAt(u)'
<1> USE DEF Goto, clock, color, ColorAt, InColor
<1>1. TypeOK /\ ColorAt(u) /\ ColorAt(t)
  BY DEF ColorInv
<1>2. CASE Step(t)
  <2>1. CASE OpenCounter(t) \/ OpenRequired(t)
    BY <1>1, <2>1 DEF OpenCounter, OpenRequired, TypeOK
  <2>2. CASE SeeTick(t) \/ ReadReturns(t)
    BY <1>1, <2>2 DEF SeeTick, ReadReturns, TypeOK
  <2>3. CASE RainbowOff(t)
    BY <1>1, <2>3 DEF RainbowOff, TypeOK
  <2>4. CASE RainbowPtr(t)
    BY <1>1, <2>4 DEF RainbowPtr, TypeOK
  <2>5. CASE RainbowFirst(t)
    BY <1>1, <2>5 DEF RainbowFirst, TypeOK
  <2> QED BY <1>2, <2>1, <2>2, <2>3, <2>4, <2>5 DEF Step
<1>3. CASE Calls(t)
  <2>1. CASE rtc_open(t) \/ rtc_read(t)
    BY <1>1, <2>1 DEF rtc_open, rtc_read, TypeOK
  <2>2. ASSUME NEW freq \in Freq, rtc_write(t, freq) PROVE ColorAt(u)'
    BY <1>1, <2>2 DEF rtc_write, TypeOK
  <2>3. ASSUME NEW att \in Att, color_call(t, att) PROVE ColorAt(u)'
    BY <1>1, <2>3 DEF color_call, TypeOK
  <2> QED BY <1>3, <2>1, <2>2, <2>3 DEF Calls
<1>4. CASE Kill(t)
  BY <1>1, <1>4 DEF Kill, TypeOK
<1> QED BY <1>2, <1>3, <1>4

LEMMA ColorStep ==
    ASSUME "ColorRace" \notin Env
    PROVE  ColorInv /\ [Next]_vars => ColorInv'
<1> SUFFICES ASSUME ColorInv, [Next]_vars PROVE ColorInv'
  OBVIOUS
<1>1. TypeOK'
  BY TypeStep DEF ColorInv
<1>2. ASSUME NEW u \in Terminal PROVE ColorAt(u)'
  <2>1. CASE rtc_handler
    BY <2>1, ColorTurns DEF rtc_handler
  <2>2. ASSUME NEW t \in Terminal, Step(t) \/ Calls(t) \/ Kill(t) PROVE ColorAt(u)'
    BY <2>2, ColorCalls
  <2>3. ASSUME NEW t \in Terminal, Enter(t) PROVE ColorAt(u)'
    BY <2>3, ColorTurns DEF Enter
  <2>4. CASE UNCHANGED vars
    BY <2>4 DEF vars, color, ColorInv, ColorAt, InColor
  <2> QED BY <2>1, <2>2, <2>3, <2>4 DEF Next
<1> QED BY <1>1, <1>2 DEF ColorInv

\* ColorShown holds for any number of terminals and colours, unless the rainbow
\* turns or the program is killed between the stores of color
\* (system_call.c:471-481).
THEOREM ColorShownHolds ==
    ASSUME "ColorRace" \notin Env
    PROVE  Spec => []ColorShown
<1>1. ColorInv => ColorShown
  BY DEF ColorInv, ColorAt, ColorShown
<1> QED BY <1>1, ColorInit, ColorStep, PTL DEF Spec
=============================================================================
