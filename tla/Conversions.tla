---------------------------- MODULE Conversions -----------------------------
(***************************************************************************)
(* The functions that turn values into text and back: the printf family     *)
(* (Printf), the scanf family (Scanf) with the number conversions it uses   *)
(* (Numbers), and the calendar (Calendar).  A program uses one of them.     *)
(***************************************************************************)
EXTENDS Scanf

CONSTANTS
    Literals, Mixed, Sizes, Unbounded, MaxPrinted, PrintBuffer, WordSize,  \* of Printf
    DEFAULT_DIGITS_REMAINDER, MAX_DIGITS_REMAINDER,
    Alone,                  \* more directives, each a format of its own
    NumberTexts, Bases, FloatTexts, NumbersWritten, Radices,     \* for Numbers
    Zones, TZ_STRLEN_MAX, Starts, Seconds, AskedDays, Formats, StampSizes   \* of Calendar

VARIABLES
    used,       \* what is used
    size, v, xstring, memory, text, printed, buffered, length,  \* of Printf
    number,     \* a text and a base, or a number, and what they were converted to
    day, left, date, slot, pc, tos, began, time, local,         \* of Calendar
    TZ, _tzset, _tzval, timezone, tzname

Out == INSTANCE Printf WITH Directives <- Mixed \cup Alone, MaxItems <- MaxPrinted,
                            BufferSize <- PrintBuffer, items <- printed, result <- length
Cal == INSTANCE Calendar WITH told <- time

ASSUME ConversionsAssumption ==
    /\ NumbersAssumption /\ ScanfAssumption /\ Out!PrintfAssumption
    /\ Cal!CalendarAssumption /\ Cal!ZoneAssumption

printVars == <<size, v, xstring, memory, text, printed, buffered, length>>
timeVars == <<day, left, date, slot, pc, tos, began, time, local,
              TZ, _tzset, _tzval, timezone, tzname>>
conversionVars == <<used, vars, printVars, number, timeVars>>

NoNumber == [f |-> "none"]

\* What is not used stands in one of its initial states.
AnyStart == CHOOSE z \in Starts : TRUE
AnyZone == CHOOSE z \in Zones : TRUE
PrintIdle == size = 0 /\ Out!Init
ScanIdle == input = <<>> /\ Init
CalendarIdle == day = AnyStart.day /\ TZ = AnyZone /\ Cal!CalendarInit

ConversionsInit ==
    /\ number = NoNumber
    /\ \/ used = "printf" /\ ScanIdle /\ CalendarIdle /\ Out!Init
       \/ used = "scanf" /\ PrintIdle /\ CalendarIdle /\ Init
       \/ used = "strtol" /\ PrintIdle /\ ScanIdle /\ CalendarIdle
       \/ used = "calendar" /\ PrintIdle /\ ScanIdle /\ Cal!CalendarInit

IsMixed == \A i \in DOMAIN printed : printed[i].fmt = "" \/ printed[i] \in Mixed

PrintStep ==
    /\ used = "printf"
    /\ \/ Out!Finish
       \/ IsMixed /\ \E c \in Literals : Out!Literal(c)
       \/ IsMixed /\ \E d \in Mixed : Out!Convert(d)
       \/ printed = <<>> /\ size = Unbounded /\ \E d \in Alone : Out!Convert(d)
    /\ UNCHANGED <<used, vars, number, timeVars>>

ScanStep ==
    /\ used = "scanf" /\ Next
    /\ UNCHANGED <<used, printVars, number, timeVars>>

NotYet == number = NoNumber /\ UNCHANGED <<used, vars, printVars, timeVars>>

ConvertNumber ==
    /\ used = "strtol" /\ NotYet
    /\ \E t \in NumberTexts, b \in Bases :
         number' = [f |-> "strtol", text |-> t, base |-> b,
                    strtol |-> strtol(t, b), strtoul |-> strtoul(t, b),
                    strtoll |-> strtoll(t, b), strtoull |-> strtoull(t, b),
                    end |-> Internal(t, b, LongSize).end, atoi |-> atoi(t), atol |-> atol(t)]

ConvertFloat ==
    /\ used = "strtol" /\ NotYet
    /\ \E t \in FloatTexts : number' = [f |-> "strtod", text |-> t, double |-> strtod(t)]

WriteNumber ==
    /\ used = "strtol" /\ NotYet
    /\ \E n \in NumbersWritten, r \in Radices :
         number' = [f |-> "itoa", value |-> n, radix |-> r,
                    itoa |-> itoa(WithSign(n, IntSize), r), ltoa |-> ltoa(WithSign(n, LongSize), r),
                    ultoa |-> ultoa(n, r)]

CalendarStep ==
    /\ used = "calendar" /\ Cal!CalendarNext
    /\ UNCHANGED <<used, vars, printVars, number>>

ConversionsNext ==
    PrintStep \/ ScanStep \/ ConvertNumber \/ ConvertFloat \/ WriteNumber \/ CalendarStep

ConversionsSpec == ConversionsInit /\ [][ConversionsNext]_conversionVars

-----------------------------------------------------------------------------

\* printf: vsnprintf writes what fits and says how much there was.
WritesWhatFits == Out!WritesWhatFits

\* printf: every directive gives the text of the C standard, whatever the
\* directives before it were.
FormatsLikeC == Out!FormatsLikeC

\* scanf: ReadsLikeC is stated in Scanf.

Nearest(exact, max) ==
    IF exact > max THEN max ELSE IF exact < -max - 1 THEN -max - 1 ELSE exact
WordOf(exact, minus, count) ==
    IF exact \in 1 - count .. count - 1 THEN exact % count ELSE IF minus THEN 1 ELSE count - 1

GivesNumber(c, minus, exact) ==
    /\ number.end = c.end
    /\ number.strtol = Nearest(exact, LongSize \div 2 - 1)
    /\ number.strtoll = Nearest(exact, LongLongSize \div 2 - 1)
    /\ number.strtoul = WordOf(exact, minus, LongSize)
    /\ number.strtoull = WordOf(exact, minus, LongLongSize)
    /\ c.radix = 10 /\ Nearest(exact, LongSize \div 2 - 1) = exact => number.atol = exact
    /\ c.radix = 10 /\ Nearest(exact, IntSize \div 2 - 1) = exact => number.atoi = exact

ConvertsTo(c, k) ==
    PromisedNumber(number.text, k, number.base, c) =>
        LET minus == At(number.text, k) = "-"
        IN  GivesNumber(c, minus, IF minus THEN -c.value ELSE c.value)

\* strtol and the others of its kind convert a number to its value, or to the
\* nearest value there is, and say where it ends.  A minus that follows an
\* overflow makes strtoul return one.  strtod reads the longest number there is, and
\* its digits and its power of ten are those of the text.  What itoa, ltoa and ultoa
\* write strtol and strtoul read back.
ConvertsLikeC ==
    /\ number.f = "strtol" =>
        LET k == CSigned(number.text)
        IN  ConvertsTo(CNumber(number.text, k, number.base), k)
    /\ number.f = "strtod" => DoubleConverts(number.text, StartsAt(number.text), number.double)
    /\ number.f = "itoa" => ReadsBack(number)

\* The calendar: gmtime, mktime and ftimtotm agree with a calendar that counts days;
\* gettimeofday never tells a time before the call, localtime uses the zone that
\* TZ means when it is called, mktime leads back from it, and strftime's text too.
TellsTheTime == [](used = "calendar" => Cal!DatesAgree) /\ [][Cal!TimeStep]_timeVars
=============================================================================
