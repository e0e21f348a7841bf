-------------------------------- MODULE Rtc --------------------------------
(***************************************************************************)
(* The virtual real-time clock of each terminal (rtc.c) and the colour of  *)
(* its text, which the clock turns when the rainbow is on (color in        *)
(* system_call.c, Enter in terminal.c).                                    *)
(*                                                                         *)
(* The device interrupts FREQ_MAX times a second; rtc_handler counts the   *)
(* interrupts for each terminal and sets its tick when required_count of   *)
(* them have come.  The system calls run with interrupts on, so that       *)
(* rtc_handler comes between any two of their stores; the handlers         *)
(* themselves run with interrupts off.  A terminal has one program that    *)
(* makes calls, whatever its time slices are.  The alarms that rtc_handler *)
(* sends every ALARM_PERIOD interrupts are in Signals.                     *)
(***************************************************************************)
EXTENDS Naturals

CONSTANTS
    NUM_TERMINAL,
    FREQ_MAX,           \* rtc.h: 1024
    COUNT_MOD,          \* 2^32: counter is a uint32_t
    NUM_COLORS,         \* lib.h: 8, the last one is white
    Freq,               \* the frequencies that programs ask for
    Att,                \* the arguments of color they use
    Env                 \* which events of EnvEvents happen

\* Events that leave a clock or a colour wrong for a while:
\*   OpenRace    a period ends between the stores of rtc_open
\*   ColorRace   the rainbow turns, or the program is killed, between the
\*               stores of color
EnvEvents == {"OpenRace", "ColorRace"}

FREQ_DFT == 2           \* rtc.h
DFT_COUNT == FREQ_MAX \div FREQ_DFT
Terminal == 0 .. NUM_TERMINAL - 1
Color == 0 .. NUM_COLORS - 1
RAINBOW == NUM_COLORS   \* the argument of color that starts the rainbow

ASSUME RtcAssumption ==
    /\ NUM_TERMINAL \in Nat \ {0}
    /\ FREQ_MAX \in Nat /\ FREQ_MAX >= FREQ_DFT
    /\ COUNT_MOD \in Nat /\ COUNT_MOD > DFT_COUNT
    /\ NUM_COLORS \in Nat /\ NUM_COLORS > 1
    /\ Freq \subseteq Nat /\ Att \subseteq 0 .. NUM_COLORS
    /\ Env \subseteq EnvEvents

VARIABLES
    tick, counter, required_count,      \* rtc[t], each a function of the terminal
    ATTRIB, rainbow_flag, rainbow_ptr,  \* the colour that t writes in
    pc,             \* where t's program is in a call
    earned,         \* history: interrupts since open that no read was paid with
    chosen          \* history: the last colour that t's program asked for

clock == <<tick, counter, required_count>>
color == <<ATTRIB, rainbow_flag, rainbow_ptr>>
vars == <<clock, color, pc, earned, chosen>>

Goto(t, label) == pc' = [pc EXCEPT ![t] = label]
InColor(t) == pc[t] \in {"color", "rainbow", "first"}

\* The period that earned counts for: rtc_open has not stored its own yet when it
\* starts to count.  The most earned says is a tick that is set and one almost due.
Period(t) == IF pc[t] = "open2" THEN DFT_COUNT ELSE required_count[t]
Earns(t) == IF earned[t] + 1 > 2 * Period(t) THEN 2 * Period(t) ELSE earned[t] + 1

Init ==
    /\ tick = [t \in Terminal |-> 0]
    /\ counter = [t \in Terminal |-> 0]
    /\ required_count = [t \in Terminal |-> DFT_COUNT]
    /\ ATTRIB = [t \in Terminal |-> NUM_COLORS - 1]
    /\ rainbow_flag = [t \in Terminal |-> 0]
    /\ rainbow_ptr = [t \in Terminal |-> 0]
    /\ pc = [t \in Terminal |-> "user"]
    /\ earned = [t \in Terminal |-> 0]
    /\ chosen = [t \in Terminal |-> NUM_COLORS - 1]

-----------------------------------------------------------------------------
(* The interrupts *)

Counted(t) == IF counter[t] = COUNT_MOD - 1 THEN 0 ELSE counter[t] + 1
\* Mutant: the last terminal is left out of the loop.
TicksButLast(t) == t < NUM_TERMINAL - 1 /\ Counted(t) = required_count[t]

Ticks(t) == Counted(t) = required_count[t]

\* A period ends while rtc_open is between its stores.
OpenRace(t) ==
    \/ pc[t] = "open1" /\ Ticks(t)
    \/ pc[t] = "open2" /\ (Ticks(t) \/ Counted(t) = DFT_COUNT)

\* The next colour of the rainbow for the terminals of T.
TurnRainbow(T) ==
    LET Next(t) == (rainbow_ptr[t] + 1) % (NUM_COLORS - 1)
        turns(t) == t \in T /\ rainbow_flag[t] = 1
    IN  /\ \A t \in T : turns(t) /\ InColor(t) => "ColorRace" \in Env
        /\ rainbow_ptr' = [t \in Terminal |-> IF turns(t) THEN Next(t) ELSE rainbow_ptr[t]]
        /\ ATTRIB' = [t \in Terminal |-> IF turns(t) THEN Next(t) ELSE ATTRIB[t]]
        /\ UNCHANGED rainbow_flag

\* Mutant: the count goes on after a tick.
CountsOn ==
    /\ \A t \in Terminal : OpenRace(t) => "OpenRace" \in Env
    /\ counter' = [t \in Terminal |-> Counted(t)]
    /\ tick' = [t \in Terminal |-> IF Ticks(t) THEN 1 ELSE tick[t]]
    /\ TurnRainbow({t \in Terminal : Ticks(t)})
    /\ earned' = [t \in Terminal |-> Earns(t)]
    /\ UNCHANGED <<required_count, pc, chosen>>

rtc_handler ==
    /\ \A t \in Terminal : OpenRace(t) => "OpenRace" \in Env
    /\ counter' = [t \in Terminal |-> IF Ticks(t) THEN 0 ELSE Counted(t)]
    /\ tick' = [t \in Terminal |-> IF Ticks(t) THEN 1 ELSE tick[t]]
    /\ TurnRainbow({t \in Terminal : Ticks(t)})
    /\ earned' = [t \in Terminal |-> Earns(t)]
    /\ UNCHANGED <<required_count, pc, chosen>>

\* Enter on the keyboard turns the rainbow too (fill_line_buffer).
Enter(t) ==
    /\ TurnRainbow({t})
    /\ UNCHANGED <<clock, pc, earned, chosen>>

-----------------------------------------------------------------------------
(* open, read and write of the device *)

\* Mutant: rtc_open leaves the tick of the program before.
OpenKeepsTick(t) ==
    /\ pc[t] = "user" /\ Goto(t, "open1")
    /\ UNCHANGED <<clock, color, earned, chosen>>

\* rtc_open: tick, then counter, then required_count.
rtc_open(t) ==
    /\ pc[t] = "user" /\ Goto(t, "open1")
    /\ tick' = [tick EXCEPT ![t] = 0]
    /\ UNCHANGED <<counter, required_count, color, earned, chosen>>

OpenCounter(t) ==
    /\ pc[t] = "open1" /\ Goto(t, "open2")
    /\ counter' = [counter EXCEPT ![t] = 0]
    /\ earned' = [earned EXCEPT ![t] = 0]
    /\ UNCHANGED <<tick, required_count, color, chosen>>

OpenRequired(t) ==
    /\ pc[t] = "open2" /\ Goto(t, "user")
    /\ required_count' = [required_count EXCEPT ![t] = DFT_COUNT]
    /\ UNCHANGED <<tick, counter, color, earned, chosen>>

\* rtc_read: the loop, left when the tick is seen; then the tick is reset.
rtc_read(t) ==
    /\ pc[t] = "user" /\ Goto(t, "read")
    /\ UNCHANGED <<clock, color, earned, chosen>>

SeeTick(t) ==
    /\ pc[t] = "read" /\ tick[t] = 1 /\ Goto(t, "reset")
    /\ UNCHANGED <<clock, color, earned, chosen>>

Pay(t) == IF earned[t] < required_count[t] THEN 0 ELSE earned[t] - required_count[t]

ReadReturns(t) ==
    /\ pc[t] = "reset" /\ Goto(t, "user")
    /\ tick' = [tick EXCEPT ![t] = 0]
    /\ earned' = [earned EXCEPT ![t] = Pay(t)]
    /\ UNCHANGED <<counter, required_count, color, chosen>>

\* Mutant: no frequency is refused.
AcceptsAll(freq) == TRUE

\* rtc_write takes powers of two up to FREQ_MAX, and 0, and stores the count
\* whatever counter is: what the clock counted at the old rate stays, so the first
\* read may return at once, or wait until counter has gone round.
Accepted(freq) == freq <= FREQ_MAX /\ (freq = 0 \/ \E k \in 0 .. freq : freq = 2 ^ k)

rtc_write(t, freq) ==
    LET required == freq \div FREQ_DFT
    IN  /\ pc[t] = "user" /\ Accepted(freq)
        /\ required_count' = [required_count EXCEPT ![t] = required]
        /\ earned' = [earned EXCEPT ![t] = 2 * required]
        /\ UNCHANGED <<tick, counter, color, pc, chosen>>

-----------------------------------------------------------------------------
(* The system call color: one colour, or the rainbow *)

color_call(t, att) ==
    /\ pc[t] = "user"
    /\ chosen' = [chosen EXCEPT ![t] = att]
    /\ \/ /\ att = RAINBOW
          /\ Goto(t, "rainbow")
          /\ rainbow_flag' = [rainbow_flag EXCEPT ![t] = 1]
          /\ UNCHANGED <<ATTRIB, rainbow_ptr>>
       \/ /\ att # RAINBOW
          /\ Goto(t, "color")
          /\ ATTRIB' = [ATTRIB EXCEPT ![t] = att]
          /\ UNCHANGED <<rainbow_flag, rainbow_ptr>>
    /\ UNCHANGED <<clock, earned>>

\* Mutant: a colour does not end the rainbow.
RainbowStays(t) ==
    /\ pc[t] = "color" /\ Goto(t, "user")
    /\ UNCHANGED <<clock, color, earned, chosen>>

RainbowOff(t) ==
    /\ pc[t] = "color" /\ Goto(t, "user")
    /\ rainbow_flag' = [rainbow_flag EXCEPT ![t] = 0]
    /\ UNCHANGED <<clock, ATTRIB, rainbow_ptr, earned, chosen>>

RainbowPtr(t) ==
    /\ pc[t] = "rainbow" /\ Goto(t, "first")
    /\ rainbow_ptr' = [rainbow_ptr EXCEPT ![t] = 0]
    /\ UNCHANGED <<clock, ATTRIB, rainbow_flag, earned, chosen>>

RainbowFirst(t) ==
    /\ pc[t] = "first" /\ Goto(t, "user")
    /\ ATTRIB' = [ATTRIB EXCEPT ![t] = rainbow_ptr[t]]
    /\ UNCHANGED <<clock, rainbow_flag, rainbow_ptr, earned, chosen>>

\* The program is killed in a call; the parent makes the next ones.
Kill(t) ==
    /\ pc[t] # "user" /\ Goto(t, "user")
    /\ InColor(t) => "ColorRace" \in Env
    /\ UNCHANGED <<clock, color, earned, chosen>>

-----------------------------------------------------------------------------
\* The steps that end a call, or bring it nearer to its end.
Step(t) ==
    \/ OpenCounter(t) \/ OpenRequired(t) \/ SeeTick(t) \/ ReadReturns(t)
    \/ RainbowOff(t) \/ RainbowPtr(t) \/ RainbowFirst(t)

Calls(t) ==
    \/ rtc_open(t) \/ rtc_read(t)
    \/ \E freq \in Freq : rtc_write(t, freq)
    \/ \E att \in Att : color_call(t, att)

Next ==
    \/ rtc_handler
    \/ \E t \in Terminal : Step(t) \/ Calls(t) \/ Enter(t) \/ Kill(t)

\* The device never stops, as rtc_handler reads register C every time (strong
\* fairness: an event of Env that is left out puts an interrupt off, no more),
\* and the scheduler gives every terminal its slices.
Fairness == SF_vars(rtc_handler) /\ \A t \in Terminal : WF_vars(Step(t))

Spec == Init /\ [][Next]_vars /\ Fairness

-----------------------------------------------------------------------------
(* Properties *)

\* Every variable has its type.
TypeOK ==
    /\ tick \in [Terminal -> {0, 1}]
    /\ counter \in [Terminal -> 0 .. COUNT_MOD - 1]
    /\ required_count \in [Terminal -> 0 .. DFT_COUNT]
    /\ ATTRIB \in [Terminal -> Color]
    /\ rainbow_flag \in [Terminal -> {0, 1}]
    /\ rainbow_ptr \in [Terminal -> 0 .. NUM_COLORS - 2]
    /\ pc \in [Terminal -> {"user", "open1", "open2", "read", "reset",
                            "color", "rainbow", "first"}]
    /\ earned \in [Terminal -> 0 .. 2 * DFT_COUNT]
    /\ chosen \in [Terminal -> Color \cup {RAINBOW}]

\* A clock whose next tick comes within its period stays so, wherever rtc_handler
\* comes in between, and rtc_open puts every clock right, however late the program
\* before has left it: only a rate that is written can make one late.
OnTime ==
    [][\A t \in Terminal :
        (counter[t] < required_count[t] \/ OpenRequired(t)) =>
            (counter'[t] < required_count'[t] \/ \E freq \in Freq : rtc_write(t, freq))]_vars

\* What the comment in rtc_handler says: the flag is set when the count reaches the
\* rate, so that counter never passes required_count, whatever rate is written.
Timely == \A t \in Terminal : counter[t] < required_count[t] \/ required_count[t] = 0

\* rtc_read returns at most once for required_count interrupts, counted from the
\* rtc_open: no tick is seen twice, and none from before it is left over.
NotEarly ==
    [][\A t \in Terminal :
        pc[t] = "reset" /\ tick'[t] = 0 => earned[t] >= required_count[t]]_vars

\* Outside of color a terminal writes in the colour that was chosen or, with the
\* rainbow on, in the one that rainbow_ptr says, with rtc_handler and Enter
\* turning it at any time.
ColorShown ==
    \A t \in Terminal : ~InColor(t) =>
        ATTRIB[t] = IF rainbow_flag[t] = 1 THEN rainbow_ptr[t] ELSE chosen[t]

\* Every rtc_read ends, at every rate and on every terminal.
ReadEnds == \A t \in Terminal : pc[t] = "read" ~> pc[t] # "read"
=============================================================================
