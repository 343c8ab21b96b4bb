------------------------------- MODULE Clock --------------------------------
(***************************************************************************)
(* clock, sleep and delay.  The system's timer counts _hz_200 up, from      *)
(* anywhere and around the end of its word; sleep and delay look at it      *)
(* again and again.  The program may be held up between two looks.          *)
(***************************************************************************)
EXTENDS Integers

CONSTANTS
    Half,           \* 2^31 in the code: a clock_t is from -Half to Half - 1
    CLOCKS_PER_SEC,
    Counts,         \* what _hz_200 may be when a program begins to wait
    Waits,          \* the calls
    MaxLate         \* a bound: ticks between two looks

Wait(f, n) == [f |-> f, n |-> n]

ClockAssumption ==
    /\ Half \in Nat \ {0} /\ CLOCKS_PER_SEC \in Nat /\ MaxLate \in Nat \ {0}
    /\ Counts \subseteq 0 .. 2 * Half - 1
    /\ \A w \in Waits : w.f \in {"sleep", "delay"} /\ w.n \in 0 .. 2 * Half - 1

VARIABLES
    wait,       \* the call
    count,      \* _hz_200 when it began
    ticks,      \* since then
    late,       \* since the last look
    begin,      \* start
    waits       \* whether it has not returned

clockVars == <<wait, count, ticks, late, begin, waits>>

Signed(n) == LET m == n % (2 * Half) IN IF m < Half THEN m ELSE m - 2 * Half

clock == Signed(count + ticks)

\* Seconds and milliseconds are unsigned.
cycles ==
    Signed(IF wait.f = "sleep" THEN wait.n * CLOCKS_PER_SEC ELSE wait.n \div 5)

ClockInit ==
    /\ wait \in Waits /\ count \in Counts
    /\ ticks = 0 /\ late = 0
    /\ begin = clock
    /\ waits = TRUE

\* The timer's interrupt.
Tick ==
    /\ waits /\ late < MaxLate
    /\ ticks' = ticks + 1 /\ late' = late + 1
    /\ UNCHANGED <<wait, count, begin, waits>>

\* The difference of two clock_t.
GoesOn == Signed(clock - begin) < cycles

Look ==
    /\ waits
    /\ waits' = GoesOn
    /\ late' = 0
    /\ UNCHANGED <<wait, count, ticks, begin>>

ClockNext == Tick \/ Look

ClockSpec == ClockInit /\ [][ClockNext]_clockVars

-----------------------------------------------------------------------------

ClockTypeOK ==
    /\ wait \in Waits /\ count \in Counts /\ waits \in BOOLEAN
    /\ ticks \in Nat /\ late \in 0 .. MaxLate /\ begin \in -Half .. Half - 1

\* The ticks a call is to wait.
Due == IF wait.f = "sleep" THEN wait.n * CLOCKS_PER_SEC ELSE wait.n \div 5

\* sleep and delay come back no earlier than they are to, and with the first look
\* after that, wherever the counter goes around; but for times that a clock_t
\* does not hold, with what the program may be late.
WaitsAsLong ==
    Due + MaxLate < Half =>
        /\ ~waits => Due <= ticks
        /\ ticks <= Due + MaxLate
=============================================================================
