--------------------------- MODULE MCConversions ----------------------------
(***************************************************************************)
(* printf: the repository's test of integer formats, one directive each,    *)
(* and mixed formats.  scanf: every text of up to three characters and some *)
(* longer ones, with every format of two items.  strtol: every text of up   *)
(* to three characters, and longer ones that leave the word.  strtod: points *)
(* and exponents everywhere, digits that are cut off.  itoa: both ends of    *)
(* the words, and what is near zero.  The calendar:                         *)
(* four years on either side of 1970, the ends of the range of a long, and  *)
(* a leap day.                                                              *)
(***************************************************************************)
EXTENDS Conversions

\* The directives of tests/printf_formatting/printf_formatting.c, with fewer
\* widths, precisions and values.
CONSTANT Widths
Precisions == {UNLIMITED, 1, 2, 3, 5}
Values == {0, 5, 79, 188, -5, -79, -188}

Modifiers ==
    {<<FALSE, FALSE, "">>, <<TRUE, FALSE, "">>, <<FALSE, TRUE, "">>,
     <<FALSE, FALSE, "+">>, <<FALSE, FALSE, " ">>, <<TRUE, FALSE, "+">>,
     <<TRUE, FALSE, " ">>, <<TRUE, TRUE, "">>, <<FALSE, TRUE, "+">>,
     <<FALSE, TRUE, " ">>, <<TRUE, TRUE, "+">>, <<TRUE, TRUE, " ">>}

IntegerTest ==
    {[minus |-> l, zero |-> m[1], hash |-> m[2], sign |-> m[3],
      width |-> w, precision |-> p, long |-> FALSE, fmt |-> t, num |-> n, scale |-> 0, str |-> <<>>] :
        l \in BOOLEAN, m \in Modifiers, w \in Widths, p \in Precisions,
        t \in {"d", "i", "u", "o", "x", "X"}, n \in Values}

D(fmt, width, precision, num, str) ==
    [minus |-> FALSE, zero |-> FALSE, hash |-> FALSE, sign |-> "",
     width |-> width, precision |-> precision, long |-> FALSE, fmt |-> fmt,
     num |-> num, scale |-> 0, str |-> str]

\* Floating point numbers: zero, powers of ten and what rounds to them, on
\* both sides of one.
FloatValues ==
    {<<0, 0>>, <<1, 0>>, <<-1, 1>>, <<96, 2>>, <<996, 2>>, <<-996, 3>>, <<94, 3>>, <<96, 3>>,
     <<12345, 2>>, <<99999, 1>>, <<99999, 3>>, <<-25, 4>>, <<12, 6>>, <<9996, 9>>, <<314159, 5>>}

FloatTest ==
    {[minus |-> m[1], zero |-> m[2], hash |-> m[3], sign |-> m[4],
      width |-> w, precision |-> p, long |-> FALSE, fmt |-> t, num |-> n[1], scale |-> n[2],
      str |-> <<>>] :
        m \in {<<FALSE, FALSE, FALSE, "">>, <<FALSE, TRUE, FALSE, "">>, <<TRUE, TRUE, TRUE, "+">>,
               <<FALSE, TRUE, FALSE, " ">>},
        w \in {0, 10}, p \in {UNLIMITED, 0, 1, 3, 4}, t \in {"e", "F", "g", "G"}, n \in FloatValues}

\* A long, with the letter or by the letter, of more than an int.
LongTest ==
    {[D(fmt, 0, UNLIMITED, n, <<>>) EXCEPT !.long = fmt \in {"d", "u", "x"}, !.width = w] :
        fmt \in {"d", "u", "x", "D", "U", "O"}, n \in {4095, 4096, -1, -32768, 32767}, w \in {0, 6}}
SeparateTest == IntegerTest \cup FloatTest \cup LongTest

\* Directives that leave as much as they can to the ones behind them, and
\* every conversion once.
MixedTest ==
    {[D("d", 3, UNLIMITED, 5, <<>>) EXCEPT !.zero = TRUE],
     [D("d", 0, UNLIMITED, 7, <<>>) EXCEPT !.sign = "+"],
     [D("x", 0, UNLIMITED, 10, <<>>) EXCEPT !.hash = TRUE],
     [D("u", 2, UNLIMITED, 3, <<>>) EXCEPT !.minus = TRUE],
     D("d", -3, UNLIMITED, -1, <<>>),
     D("d", 0, 2, -4, <<>>),
     D("i", 2, UNLIMITED, 6, <<>>),
     D("o", 0, UNLIMITED, 9, <<>>),
     D("p", 0, UNLIMITED, 17, <<>>),
     D("s", 0, UNLIMITED, 0, <<"a", "b">>),
     D("s", 0, 1, 0, <<"a", "b">>),
     D("s", 3, UNLIMITED, 0, <<"a", "b">>),
     D("s", 0, -2, 0, <<"a", "b">>),
     D("s", -4, UNLIMITED, 0, <<>>),
     D("c", 2, UNLIMITED, 0, <<"c">>),
     D("c", 0, UNLIMITED, 0, <<"\\0">>),
     [D("e", 0, 1, 25, <<>>) EXCEPT !.scale = 1],
     [D("f", 6, 1, -996, <<>>) EXCEPT !.scale = 2, !.zero = TRUE],
     D("%", 0, UNLIMITED, 0, <<>>),
     D("k", 0, UNLIMITED, 0, <<>>)}

TextsOf(alphabet, lengths) == UNION {[1 .. n -> alphabet] : n \in lengths}

\* Texts for scanf: with signs, prefixes and blanks everywhere, and with what the
\* others are too short for.
MCTexts ==
    TextsOf({"0", "1", "b", "x", "-", " "}, 0 .. 3) \cup
    {<<"0", "x", "1", "b">>, <<"-", "0", "x", "1">>, <<"0", "0", "b", "1">>, <<"0", "1", " ", "1">>,
     <<"1", "1", "LF", "1", "1">>, <<"1", ".", "1", " ", "e">>, <<".", "1", "e", "-", "1">>,
     <<"1", "1", "e", "1", " ">>, <<"b", "x", " ", "1", "1">>}

Wide(item, n) == [item EXCEPT !.maxlen = n]
Suppressed(item) == [item EXCEPT !.suppress = TRUE]

MCItems ==
    {Space, Literal("x"), Wide(Directive("d"), 2), Suppressed(Directive("d")),
     Wide(Directive("c"), 2), Wide(Directive("s"), 1),
     [Directive("[") EXCEPT !.set = {"1", "b"}],
     [Directive("[") EXCEPT !.set = {" "}, !.reverse = TRUE]}
    \cup {Directive(fmt) : fmt \in {"d", "i", "u", "o", "x", "c", "s", "f", "n"}}

MCNumberTexts == TextsOf({"0", "1", "7", "b", "x", "-", " "}, 0 .. 3)
                 \cup TextsOf({"0", "7", "x"}, {4}) \cup TextsOf({"7", "f"}, {5})
                 \cup {<<"-", "0", "x", "7">>, <<"-", "0", "b", "1">>, <<" ", "-", "7", "7">>,
                       <<"6", "5", "5", "3", "9">>, <<"-", "2", "6", "2", "1", "4", "9", "0">>}

MCFloatTexts ==
    TextsOf({"1", "0", ".", "e", "-"}, 0 .. 4) \cup TextsOf({"7", "."}, {5, 6})
    \cup {<<" ", "+", "1", "7", ".", "e", "3">>, <<"7", "E", "+", "1", "e">>, <<"7", "e", "8">>,
          <<"7", ".", "1", "e", "8">>, <<"1", "7", "e", "-", "7">>, <<".", "7", "e", "-", "7">>,
          <<"1", "2", "3", "4", "5", "e", "6">>, <<"1", "2", "3", "4", "5", "6", ".", "7", "e", "-", "1">>}
MCNumbersWritten == {0, 1, 9, 35, 4095, 8191, 8192, 12345, 32767, 32768, 32769, 40000, 65535}

\* 24 November 1965 is a Wednesday, and so on.
On(n, days, year, mon, mday, wday, yday) ==
    [day |-> n, days |-> days,
     date |-> [year |-> year, mon |-> mon, mday |-> mday, hour |-> 0, min |-> 0, sec |-> 0,
                wday |-> wday, yday |-> yday]]

MCStarts ==
    {On(-24855, 30, 1901, 11, 14, 6, 347), On(-1499, 1499, 1965, 10, 24, 3, 327),
     On(0, 1500, 1970, 0, 1, 4, 0), On(11015, 2, 2000, 1, 28, 1, 58),
     On(24836, 17, 2037, 11, 31, 4, 364)}

MCSeconds == <<0, 45296, 86398>>

\* Every directive, characters of the format between them, one that there is not, and
\* a "%" that is the last.
MCFormats ==
    LET Of(c) == [directive |-> TRUE, c |-> c]
        AllOf(letters) == [i \in DOMAIN letters |-> Of(letters[i])]
    IN  {AllOf(<<"Y", "m", "d", "H", "M", "S">>), AllOf(<<"Z">>), AllOf(<<"c", "%">>),
         AllOf(<<"A", "B", "j", "U", "W", "w">>), AllOf(<<"I", "p", "y", "Q">>),
         <<Of("X"), [directive |-> FALSE, c |-> "-"], Of("\\0")>>}

ZoneIs(chars, name, dst, offset) ==
    [text |-> chars, name |-> name, dst |-> dst, offset |-> offset, error |-> FALSE]
NoZone(chars) == [ZoneIs(chars, <<>>, <<>>, 0) EXCEPT !.error = TRUE]

\* No TZ, offsets on both sides, a text that is too long to be kept, three digits, and
\* a minute of 60 seconds.
MCZones ==
    {ZoneIs(<<>>, <<" ", " ", " ">>, <<" ", " ", " ">>, 0),
     ZoneIs(<<"C", "-", "0", "1", ":", "3", "0", "S">>, <<"C">>, <<"S">>, -5400),
     ZoneIs(<<"E", "5", ":", "1", ":", "0", "2", "D", "T">>, <<"E">>, <<"D", "T">>, 18062),
     NoZone(<<"E", "1", "0", "0">>),
     NoZone(<<"E", "0", "0", ":", "0", ":", "6", "0">>)}
=============================================================================
