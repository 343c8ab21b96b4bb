------------------------------ MODULE Calendar ------------------------------
(***************************************************************************)
(* gmtime, localtime, mktime, ftimtotm, gettimeofday and strftime, against a *)
(* clock that goes on by itself.  GEMDOS tells the clock's time and its date in   *)
(* two calls.  The date is carried from day to day: it knows nothing of the *)
(* divisions the code does.  What tzset makes of TZ comes first: a text like *)
(* "CET-1CEST" names the zone, its offset, and summer time; it is kept in    *)
(* timezone and tzname, and read again only when TZ has changed.             *)
(***************************************************************************)
EXTENDS Integers, Sequences, SequencesExt, FiniteSets

CONSTANTS
    Zones,          \* values TZ may have, and what they mean
    TZ_STRLEN_MAX

Default == <<" ", " ", " ">>    \* TZ_DEFAULT
Digit == <<"0", "1", "2", "3", "4", "5", "6", "7", "8", "9">>
IsDigit(c) == c \in {"0", "1", "2", "3", "4", "5", "6", "7", "8", "9"}
DigitValue(c) == (CHOOSE i \in 1 .. 10 : Digit[i] = c) - 1

\* The text of TZ; its two names and the offset in seconds for those who know
\* what it means; "error" says that nobody does.
ZoneType == [text: Seq(STRING), name: Seq(STRING), dst: Seq(STRING), offset: Int, error: BOOLEAN]

ZoneAssumption == Zones # {} /\ Zones \subseteq ZoneType /\ TZ_STRLEN_MAX \in Nat

VARIABLES
    TZ,         \* the variable in the environment; an unset one is an empty text
    _tzset, _tzval,
    timezone, tzname

zoneVars == <<TZ, _tzset, _tzval, timezone, tzname>>

ZoneInit ==
    /\ TZ \in Zones
    /\ _tzset = FALSE /\ _tzval = <<>>
    /\ timezone = 0 /\ tzname = <<Default, Default>>

-----------------------------------------------------------------------------

From(s, n) == SubSeq(s, n, Len(s))

\* get_tz_name
EndsName(c) == c \in {",", "+", "-"} \/ IsDigit(c)
get_tz_name(src) ==
    LET Fits(n) == \A i \in 1 .. n : ~EndsName(src[i])
        most == IF Len(src) < TZ_STRLEN_MAX THEN Len(src) ELSE TZ_STRLEN_MAX
        tzlen == IF src # <<>> /\ src[1] = ":" THEN 0
                 ELSE CHOOSE n \in 0 .. most : Fits(n) /\ (n = most \/ EndsName(src[n + 1]))
    IN  [name |-> IF tzlen = 0 THEN Default ELSE SubSeq(src, 1, tzlen),
         rest |-> From(src, tzlen + 1)]

\* A field of one or two digits, or of none; three are not allowed, and a field
\* that is announced by a colon must not be missing.
Field(src) ==
    LET count == CHOOSE n \in 0 .. 2 :
                    /\ n <= Len(src) /\ \A i \in 1 .. n : IsDigit(src[i])
                    /\ n = 2 \/ n = Len(src) \/ ~IsDigit(src[n + 1])
        value == IF count = 0 THEN 0 ELSE IF count = 1 THEN DigitValue(src[1])
                 ELSE 10 * DigitValue(src[1]) + DigitValue(src[2])
    IN  [value |-> value, rest |-> From(src, count + 1),
         invalid |-> src = <<>> \/ (count = 2 /\ Len(src) > 2 /\ IsDigit(src[3]))]

NoField == [value |-> 0, rest |-> <<>>, invalid |-> FALSE]
GoesOn(f) == ~f.invalid /\ f.rest # <<>> /\ f.rest[1] = ":"

\* The field behind f, which ends with a colon.
NextField(f) == Field(Tail(f.rest))

InRange(minutes, seconds) == minutes.value <= 59 /\ seconds.value <= 59

\* get_tz_offset
get_tz_offset(src) ==
    LET mul == IF src # <<>> /\ src[1] = "-" THEN -1 ELSE 1
        digits == IF src # <<>> /\ src[1] \in {"-", "+"} THEN Tail(src) ELSE src
        hours == Field(digits)
        minutes == IF GoesOn(hours) THEN NextField(hours) ELSE NoField
        seconds == IF GoesOn(minutes) THEN NextField(minutes) ELSE NoField
        last == IF GoesOn(minutes) THEN seconds ELSE IF GoesOn(hours) THEN minutes ELSE hours
        valid == ~last.invalid /\ InRange(minutes, seconds)
        rest == IF GoesOn(last) THEN Tail(last.rest) ELSE last.rest
    IN  IF src = <<>> THEN [timezone |-> 0, error |-> FALSE, rest |-> src]
        ELSE [timezone |-> IF valid
                           THEN mul * (seconds.value + 60 * minutes.value + 3600 * hours.value)
                           ELSE 0,
              error |-> ~valid, rest |-> rest]

Changed(tzval) == ~_tzset \/ _tzval # tzval

\* tzset.  A value that is too long to be kept is read each time.
tzset ==
    LET tzval == TZ.text
        name == get_tz_name(tzval)
        offset == get_tz_offset(name.rest)
        fits == Len(tzval) <= TZ_STRLEN_MAX
    IN  IF Changed(tzval)
        THEN /\ _tzset' = fits
             /\ _tzval' = IF fits THEN tzval ELSE _tzval
             /\ timezone' = offset.timezone
             /\ tzname' = IF offset.error THEN <<Default, Default>>
                          ELSE <<name.name, get_tz_name(offset.rest).name>>
        ELSE UNCHANGED <<_tzset, _tzval, timezone, tzname>>

-----------------------------------------------------------------------------

ZoneTypeOK ==
    /\ TZ \in Zones /\ _tzset \in BOOLEAN /\ timezone \in Int
    /\ Len(_tzval) <= TZ_STRLEN_MAX
    /\ \A i \in 1 .. 2 : Len(tzname[i]) <= TZ_STRLEN_MAX

\* Behind a call of tzset, and so of localtime, mktime and strftime, timezone and
\* tzname are those of the TZ there is now, however often it changed before.
FollowsTZ ==
    IF TZ.error THEN timezone' = 0 /\ tzname' = <<Default, Default>>
    ELSE timezone' = TZ.offset /\ tzname' = <<TZ.name, TZ.dst>>

-----------------------------------------------------------------------------

CONSTANTS
    Starts,     \* days the clock may start on, and how many days it runs
    Seconds,    \* the times of a day, even numbers in ascending order
    AskedDays,  \* a bound: the days at the end on which programs run
    Formats,    \* of strftime
    StampSizes  \* its smax

CalendarAssumption ==
    /\ \A i \in 1 .. Len(Seconds) : Seconds[i] \in 0 .. 86399 /\ Seconds[i] % 2 = 0
    /\ \A i, j \in 1 .. Len(Seconds) : i < j => Seconds[i] < Seconds[j]

VARIABLES
    day,        \* days since the first of January 1970
    left,       \* days the clock still runs
    date,       \* the same day, as a date
    slot,       \* the time of day, as an index of Seconds
    pc,         \* how far gettimeofday is
    tos,        \* what it has read: tos_time and tos_date
    began,      \* the time when it began
    told,       \* what it told
    local       \* what localtime made of that, and the zone it did it in

calendarVars == <<day, left, date, slot, pc, tos, began, told, local, zoneVars>>

NoTime == -1
NotRead == [time |-> 0, date |-> 0]
NoDate == [year |-> 0, mon |-> 0, mday |-> 0, hour |-> 0, min |-> 0, sec |-> 0,
           wday |-> 0, yday |-> 0]

-----------------------------------------------------------------------------
(* The calendar as everybody knows it, for the years a long can count.      *)

MonthDays == <<31, 28, 31, 30, 31, 30, 31, 31, 30, 31, 30, 31>>
IsLeap(year) == year % 4 = 0
LastOf(d) == IF d.mon = 1 /\ IsLeap(d.year) THEN 29 ELSE MonthDays[d.mon + 1]

NextDay(d) ==
    LET next == [d EXCEPT !.wday = (d.wday + 1) % 7]
    IN  IF d.mday < LastOf(d)
        THEN [next EXCEPT !.mday = d.mday + 1, !.yday = d.yday + 1]
        ELSE IF d.mon < 11
        THEN [next EXCEPT !.mday = 1, !.mon = d.mon + 1, !.yday = d.yday + 1]
        ELSE [next EXCEPT !.mday = 1, !.mon = 0, !.year = d.year + 1, !.yday = 0]

\* GEMDOS knows no year before 1980.
InUse == date.year >= 1980 /\ left <= AskedDays

Now == day * 86400 + Seconds[slot]

Tick ==
    /\ \/ /\ slot < Len(Seconds)
          /\ slot' = slot + 1
          /\ UNCHANGED <<day, date, left>>
       \/ /\ slot = Len(Seconds) /\ left > 0
          /\ slot' = 1 /\ day' = day + 1 /\ left' = left - 1
          /\ date' = NextDay(date)
   
    /\ UNCHANGED <<pc, tos, began, told, local, zoneVars>>

-----------------------------------------------------------------------------
(* gmtime *)

Quotient(a, b) == IF a < 0 THEN -((-a) \div b) ELSE a \div b    \* as in C

YearDays(year) == IF IsLeap(year) THEN 366 ELSE 365

RECURSIVE Years(_, _, _)
Years(year, days, neg) ==
    IF neg /\ YearDays(year) > days
    THEN [year |-> year, days |-> days, yday |-> YearDays(year) - days - 1]
    ELSE IF ~neg /\ YearDays(year) >= days
    THEN [year |-> year, days |-> days, yday |-> days]
    ELSE Years(IF neg THEN year - 1 ELSE year + 1, days - YearDays(year), neg)

\* The first day of a year is found as the day behind the last month of the
\* one before.
RECURSIVE Months(_, _, _, _)
Months(mon, year, days, neg) ==
    LET monthdays == LastOf([mon |-> mon, year |-> year])
    IN  IF monthdays <= days
        THEN IF mon = 11 /\ ~neg
             THEN [year |-> year + 1, mon |-> 0, mday |-> 1 + days - monthdays]
             ELSE Months(IF neg THEN mon - 1 ELSE mon + 1, year, days - monthdays, neg)
        ELSE [year |-> year, mon |-> mon, mday |-> IF neg THEN monthdays - days ELSE 1 + days]

gmtime(time) ==
    LET neg == time < 0
        t == IF neg THEN -time - 1 ELSE time
        days == t \div 86400
        seconds == IF neg THEN 86399 - (t % 86400) ELSE t % 86400
        y == Years(IF neg THEN 1969 ELSE 1970, days, neg)
        m == Months(IF neg THEN 11 ELSE 0, y.year, y.days, neg)
    IN  [year |-> m.year, mon |-> m.mon, mday |-> m.mday,
         hour |-> seconds \div 3600, min |-> (seconds % 3600) \div 60, sec |-> seconds % 60,
         wday |-> ((IF neg THEN 3 ELSE 4) + days) % 7, yday |-> y.yday]

\* The days in front of a month of an ordinary year.
MonDays == <<0, 31, 59, 90, 120, 151, 181, 212, 243, 273, 304, 334>>

\* The leap days between 1970 and the month.
Leaps(tm, tyears) ==
    LET leap_year == IsLeap(tm.year)
    IN  IF tyears < 0
        THEN Quotient(tyears - 2, 4) + (IF leap_year /\ tm.mon > 1 THEN 1 ELSE 0)
        ELSE (tyears + 2) \div 4 - (IF leap_year /\ tm.mon <= 1 THEN 1 ELSE 0)

\* mktime, behind its call of tzset.
mktime(tm, zone) ==
    LET tyears == tm.year - 1970
        tdays == MonDays[tm.mon + 1] + tm.mday - 1 + tyears * 365 + Leaps(tm, tyears)
    IN  tdays * 86400 + tm.hour * 3600 + tm.min * 60 + tm.sec + zone

-----------------------------------------------------------------------------
(* strftime.  A format is a sequence of characters that stand for           *)
(* themselves and of directives.  The names of days and months are three   *)
(* letters and a rest, which counts as one character.                      *)

Stands(c) == [directive |-> FALSE, c |-> c]
Asks(c) == [directive |-> TRUE, c |-> c]
NUL == "\\0"

wday_name == <<<<"S", "u", "n", "day">>, <<"M", "o", "n", "day">>, <<"T", "u", "e", "sday">>,
               <<"W", "e", "d", "nesday">>, <<"T", "h", "u", "rsday">>, <<"F", "r", "i", "day">>,
               <<"S", "a", "t", "urday">>>>
mon_name == <<<<"J", "a", "n", "uary">>, <<"F", "e", "b", "ruary">>, <<"M", "a", "r", "ch">>,
              <<"A", "p", "r", "il">>, <<"M", "a", "y", "">>, <<"J", "u", "n", "e">>,
              <<"J", "u", "l", "y">>, <<"A", "u", "g", "ust">>, <<"S", "e", "p", "ember">>,
              <<"O", "c", "t", "ober">>, <<"N", "o", "v", "ember">>, <<"D", "e", "c", "ember">>>>
Short(name) == SubSeq(name, 1, 3)

\* A number with count digits, zeros in front.
InDigits(n, count) == [i \in 1 .. count |-> Digit[((n \div 10 ^ (count - i)) % 10) + 1]]

\* The week of the year, from 0.
get_week(tm, start_monday) ==
    LET since == IF start_monday THEN (IF tm.wday = 0 THEN 6 ELSE tm.wday - 1) ELSE tm.wday
    IN  (tm.yday + 7 - since) \div 7

\* The directives that stand for a format.
Formatted == [c |-> <<Asks("a"), Stands(" "), Asks("b"), Stands(" "), Asks("d"), Stands(" "),
                      Asks("x"), Stands(" "), Asks("Y")>>,
              X |-> <<Asks("H"), Stands(":"), Asks("M"), Stands(":"), Asks("S")>>,
              x |-> <<Asks("d"), Stands("."), Asks("m"), Stands("."), Asks("Y")>>]

\* The others; tm_isdst is negative always.
Added(c, tm, zone) ==
    CASE c = "a" -> Short(wday_name[tm.wday + 1])
      [] c = "A" -> wday_name[tm.wday + 1]
      [] c = "b" -> Short(mon_name[tm.mon + 1])
      [] c = "B" -> mon_name[tm.mon + 1]
      [] c = "d" -> InDigits(tm.mday, 2)
      [] c = "H" -> InDigits(tm.hour, 2)
      [] c = "I" -> InDigits(IF tm.hour % 12 = 0 THEN 12 ELSE tm.hour % 12, 2)
      [] c = "j" -> InDigits(tm.yday + 1, 3)
      [] c = "m" -> InDigits(tm.mon + 1, 2)
      [] c = "M" -> InDigits(tm.min, 2)
      [] c = "p" -> <<IF tm.hour \in 1 .. 12 THEN "A" ELSE "P", "M">>
      [] c = "S" -> InDigits(tm.sec, 2)
      [] c = "U" -> InDigits(get_week(tm, FALSE), 2)
      [] c = "W" -> InDigits(get_week(tm, TRUE), 2)
      [] c = "w" -> InDigits(tm.wday, 1)
      [] c = "y" -> InDigits(tm.year - 1900, 2)
      [] c = "Y" -> InDigits(tm.year, 4)
      [] c = "Z" -> zone
      [] c = "%" -> <<"%">>
      [] c = NUL -> <<"%">>
      [] OTHER -> <<"%", c>>

\* What is in s, and count, behind the items from i on.  Characters that stand
\* for themselves are not counted; the NUL is one of them, unless a "%" is the last.
RECURSIVE FormatFrom(_, _, _, _, _, _, _)
RECURSIVE AddedText(_, _, _)
FormatFrom(fmt, i, smax, tm, zone, text, count) ==
    IF i > Len(fmt) THEN
        [count |-> count,
         text |-> IF fmt # <<>> /\ Last(fmt) = Asks(NUL) THEN text ELSE Append(text, NUL)]
    ELSE IF ~fmt[i].directive
    THEN FormatFrom(fmt, i + 1, smax, tm, zone, Append(text, fmt[i].c), count)
    ELSE LET add == AddedText(fmt[i].c, tm, zone)
             len == IF count + Len(add) > smax THEN smax - count ELSE Len(add)
         IN  FormatFrom(fmt, i + 1, smax, tm, zone, text \o SubSeq(add, 1, len), count + len)
AddedText(c, tm, zone) ==
    IF c \in DOMAIN Formatted
    THEN Front(FormatFrom(Formatted[c], 1, 80, tm, zone, <<>>, 0).text)
    ELSE Added(c, tm, zone)

strftime(fmt, smax, tm, zone) == FormatFrom(fmt, 1, smax, tm, zone, <<>>, 0)

-----------------------------------------------------------------------------
(* GEMDOS and the functions that ask it.                                    *)

Tgettime == LET t == Seconds[slot]
            IN  (t \div 3600) * 2048 + ((t % 3600) \div 60) * 32 + (t % 60) \div 2
Tgetdate == (date.year - 1980) * 512 + (date.mon + 1) * 32 + date.mday

\* The date and the time of two words of GEMDOS.
Unpacked(time, d) ==
    [NoDate EXCEPT !.sec = (time % 32) * 2, !.min = (time \div 32) % 64, !.hour = time \div 2048,
                   !.mday = d % 32, !.mon = ((d \div 32) % 16) - 1, !.year = (d \div 512) + 1980]

\* ftimtotm: tm_yday counts from one.
RECURSIVE YearDay(_, _)
YearDay(tm, m) ==
    IF m = tm.mon THEN tm.mday ELSE LastOf([mon |-> m, year |-> tm.year]) + YearDay(tm, m + 1)

ftimtotm(time, d) ==
    LET tm == Unpacked(time, d)
        yday == YearDay(tm, 0)
        full_years == tm.year - 1970
        days == 365 * full_years + Quotient(full_years - 2, 4) + yday - 1
    IN  [tm EXCEPT !.yday = yday, !.wday = (4 + days) % 7]

\* A slip: the date is read first.
Reads_DateFirst(n) ==
    tos' = IF n = 1 THEN [tos EXCEPT !.date = Tgetdate] ELSE [tos EXCEPT !.time = Tgettime]
Reads(n) ==
    tos' = IF n = 1 THEN [tos EXCEPT !.time = Tgettime] ELSE [tos EXCEPT !.date = Tgetdate]

\* gettimeofday, up to its call of Tgettime.
AskTime ==
    /\ pc = "idle" /\ InUse
    /\ Reads(1)
    /\ began' = Now /\ told' = NoTime
    /\ pc' = "time"
    /\ UNCHANGED <<day, left, date, slot, local, zoneVars>>

AskDate ==
    /\ pc = "time"
    /\ Reads(2)
    /\ pc' = "date"
    /\ UNCHANGED <<day, left, date, slot, began, told, local, zoneVars>>

\* mktime, with its tzset.
Tell ==
    /\ pc = "date"
    /\ tzset
    /\ told' = mktime(Unpacked(tos.time, tos.date), timezone')
    /\ pc' = "told"
    /\ tos' = NotRead /\ began' = NoTime
    /\ UNCHANGED <<day, left, date, slot, local, TZ>>

localtime ==
    /\ pc = "told"
    /\ tzset
    /\ local' = [tm |-> gmtime(told - timezone'), zone |-> TZ]
    /\ pc' = "local"
    /\ UNCHANGED <<day, left, date, slot, tos, began, told, TZ>>

\* mktime of what localtime gave.
BackAgain ==
    /\ pc = "local"
    /\ tzset
    /\ told' = mktime(local.tm, timezone')
    /\ pc' = "idle"
    /\ local' = [tm |-> NoDate, zone |-> TZ]
    /\ UNCHANGED <<day, left, date, slot, tos, began, TZ>>

\* strftime of what localtime gave; its text is the program's.
Strftime ==
    /\ pc = "local"
    /\ tzset
    /\ UNCHANGED <<day, left, date, slot, pc, tos, began, told, local, TZ>>

\* The program sets TZ.
Setenv(z) ==
    /\ TZ' = z
    /\ UNCHANGED <<day, left, date, slot, pc, tos, began, told, local,
                   _tzset, _tzval, timezone, tzname>>

CalendarInit ==
    /\ \E s \in Starts : day = s.day /\ left = s.days /\ date = s.date
    /\ slot = 1
    /\ pc = "idle" /\ tos = NotRead
    /\ began = NoTime /\ told = NoTime
    /\ ZoneInit
    /\ local = [tm |-> NoDate, zone |-> TZ]

CalendarNext ==
    \/ Tick
    \/ AskTime
    \/ AskDate
    \/ Tell
    \/ localtime
    \/ BackAgain
    \/ Strftime
    \/ \E z \in Zones : InUse /\ Setenv(z)

CalendarSpec == CalendarInit /\ [][CalendarNext]_calendarVars

-----------------------------------------------------------------------------
(* Properties. *)

CalendarTypeOK ==
    /\ ZoneTypeOK
    /\ day \in Int /\ left \in Nat /\ slot \in 1 .. Len(Seconds)
    /\ date.mon \in 0 .. 11 /\ date.mday \in 1 .. 31
    /\ pc \in {"idle", "time", "date", "told", "local"}

SameDay(tm) == tm.year = date.year /\ tm.mon = date.mon /\ tm.mday = date.mday
SameTime(tm) == tm.hour * 3600 + tm.min * 60 + tm.sec = Seconds[slot]

\* gmtime gives the date, before 1970 too, and mktime leads back.  It gives the day
\* of the week from 1970 on, and the day in the year but on a first of January
\* behind 1970, which is the last one of the year before.
GmtimeAgrees ==
    LET tm == gmtime(Now)
    IN  /\ SameDay(tm) /\ SameTime(tm)
        /\ day >= 0 => tm.wday = date.wday
        /\ date.yday > 0 \/ day <= 0 => tm.yday = date.yday
        /\ mktime(tm, 0) = Now

\* ftimtotm gives the date of a file; its days of the year count from one, and
\* its day of the week is that of leap years.
FileTimeAgrees ==
    date.year >= 1980 =>
        LET tm == ftimtotm(Tgettime, Tgetdate)
        IN  /\ SameDay(tm) /\ SameTime(tm)
            /\ tm.yday = date.yday + 1
            /\ IsLeap(date.year) => tm.wday = date.wday

\* All of a date, in digits; and what it was.
AllDigits == <<Asks("Y"), Asks("m"), Asks("d"), Asks("H"), Asks("M"), Asks("S")>>
ReadDigits(s, from, to) ==
    FoldLeft(LAMBDA n, c : 10 * n + DigitValue(c), 0, SubSeq(s, from, to))
ReadDate(s) ==
    [NoDate EXCEPT !.year = ReadDigits(s, 1, 4), !.mon = ReadDigits(s, 5, 6) - 1,
                   !.mday = ReadDigits(s, 7, 8), !.hour = ReadDigits(s, 9, 10),
                   !.min = ReadDigits(s, 11, 12), !.sec = ReadDigits(s, 13, 14)]

\* Characters of the format itself, and the NUL, unless a "%" is last.
Own(f) == Len(SelectSeq(f, LAMBDA item : ~item.directive))
          + (IF Last(f) = Asks(NUL) THEN 0 ELSE 1)

\* strftime never counts more than smax.  Characters of the format itself come on
\* top of that, and a NUL, unless a "%" is last.  What does not fit is cut off at the
\* end, and mktime of the date read back from its text is the time there is.
StampAgrees ==
    \A tm \in {gmtime(Now)}, f \in Formats, smax \in StampSizes :
        LET out == strftime(f, smax, tm, tzname[1])
        IN  /\ out.count <= smax
            /\ Len(out.text) = out.count + Own(f)
            /\ Last(f) # Asks(NUL) => Last(out.text) = NUL
            /\ f = AllDigits /\ out.count < smax => mktime(ReadDate(out.text), 0) = Now
            /\ f = AllDigits => IsPrefix(Front(out.text), strftime(f, 80, tm, <<>>).text)

\* The library's calendar is the calendar.  It depends on the clock alone, which
\* comes everywhere before anybody asks.
DatesAgree ==
    /\ CalendarTypeOK
    /\ pc = "idle" /\ ~_tzset => GmtimeAgrees /\ FileTimeAgrees
    /\ pc = "idle" /\ ~_tzset /\ InUse => StampAgrees

\* Tell, localtime and BackAgain are these steps.
Moved(from, to) == pc = from /\ pc' = to

\* Whenever gettimeofday is called, and whatever the clock does between its two
\* questions, it never tells a time before the call.  At midnight it may
\* tell one that is a day ahead, no more.
NeverBehind ==
    Moved("date", "told") =>
            /\ began <= told' - timezone'
            /\ told' - timezone' <= Now + 86399

\* mktime leads back from localtime while TZ stays.
LeadsBack == Moved("local", "idle") /\ local.zone = TZ => told' = told

\* strftime's weeks go on by one with each Sunday, or each Monday, and begin with
\* the first one of a year.
WeeksGoOn ==
    LET Counts(start_monday, wday) ==
          get_week(date', start_monday) =
            (IF date'.yday = 0 THEN 0 ELSE get_week(date, start_monday))
            + (IF date'.wday = wday THEN 1 ELSE 0)
    IN  date' # date => Counts(FALSE, 0) /\ Counts(TRUE, 1)

\* The time is told as it is, in the zone there is.
TimeStep ==
    /\ Moved("date", "told") \/ Moved("told", "local") \/ Moved("local", "idle") => FollowsTZ
    /\ Moved("local", "local") /\ Strftime => FollowsTZ
    /\ NeverBehind /\ LeadsBack /\ WeeksGoOn
=============================================================================
