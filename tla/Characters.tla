----------------------------- MODULE Characters -----------------------------
(***************************************************************************)
(* The classes of characters: two tables of flags for every code, and the   *)
(* macros that look into them, which take a char with its sign as well as   *)
(* the EOF of getc.  And the texts of the error numbers, which strerror     *)
(* finds by offsets that were written down by hand.                         *)
(***************************************************************************)
EXTENDS Integers, SequencesExt

CONSTANTS
    FarNumbers, \* error numbers far from those of the table
    Sizes       \* of the buffers for strerror_r

EOF == -1
NUL == 0
Nowhere == -1   \* NULL: the pointer that points to nothing, where pointers are offsets

ASSUME CharactersAssumption ==
    FarNumbers \subseteq Int /\ Sizes \subseteq Nat

\* What the macros are given: a char, with its sign or without, or EOF.
Chars == -128 .. 255

Digits == 48 .. 57
Upper == 65 .. 90
Lower == 97 .. 122
When(test, flag) == IF test THEN {flag} ELSE {}

\* The table __libc_ctype up to 7F.
CtypeAscii(b) ==
    When(b \in 0 .. 31 \cup {127}, "cntrl") \cup When(b \in 9 .. 13 \cup {32}, "space")
    \cup When(b \in 32 .. 126, "print") \cup When(b \in Digits, "digit")
    \cup When(b \in Digits \cup 65 .. 70 \cup 97 .. 102, "xdigit")
    \cup When(b \in Upper, "upper") \cup When(b \in Lower, "lower")
    \cup When(b \in 33 .. 47 \cup 58 .. 64 \cup 91 .. 96 \cup 123 .. 126, "punct")

\* The table from 80 on: no flag for FF, which EOF has as well.
CtypeHigh(b) == When(b \in 128 .. 254, "cntrl")

\* The table __libc_ctype2.
Ctype2Ascii(b) == When(b \in {9, 32}, "blank") \cup When(b \in 33 .. 126, "graph")
Ctype2High(b) == {}

__libc_ctype == [b \in 0 .. 255 |-> CtypeAscii(b) \cup CtypeHigh(b)]
__libc_ctype2 == [b \in 0 .. 255 |-> Ctype2Ascii(b) \cup Ctype2High(b)]

UChar(c) == c % 256
Flag(c, flags) == __libc_ctype[UChar(c)] \cap flags # {}
Flag2(c, flag) == flag \in __libc_ctype2[UChar(c)]

isalnum(c) == Flag(c, {"upper", "lower", "digit"})
isalpha(c) == Flag(c, {"upper", "lower"})
isdigit(c) == Flag(c, {"digit"})
islower(c) == Flag(c, {"lower"})
isprint(c) == Flag(c, {"print"})
ispunct(c) == Flag(c, {"punct"})
isspace(c) == Flag(c, {"space"})
isupper(c) == Flag(c, {"upper"})
isxdigit(c) == Flag(c, {"xdigit"})
isgraph(c) == Flag2(c, "graph")
isblank(c) == Flag2(c, "blank")
isascii(c) == c \in 0 .. 127
toascii(c) == c % 128

\* A slip: EOF is looked up like a character.
iscntrl_NoEof(c) == UChar(c) = 255 \/ Flag(c, {"cntrl"})

iscntrl(c) == c # -1 /\ (UChar(c) = 255 \/ Flag(c, {"cntrl"}))

\* The code asks for the class of the lowest byte and changes the int.
tolower(c) == IF isupper(c) THEN c + 32 ELSE c
toupper(c) == IF islower(c) THEN c - 32 ELSE c

-----------------------------------------------------------------------------
(***************************************************************************)
(* The error numbers.  strerror.h lists the texts in the order of their     *)
(* numbers, each with its offset in _sys_err_msgs, where they lie one       *)
(* behind the other with a NUL at the end of each.  Here: runs of numbers   *)
(* that have a text, with the lengths and with the offsets.                 *)
(***************************************************************************)

Run(first, lengths, offsets) == [first |-> first, lengths |-> lengths, offsets |-> offsets]

SystemErrors ==
    <<Run(0, <<7, 13, 23, 15, 9, 26, 12, 17, 16, 12, 11, 10, 14, 21, 13, 14, 17, 15, 12, 20, 15,
               16, 25, 21, 14, 16, 33, 21>>,
             <<14, 22, 36, 60, 76, 86, 113, 126, 144, 161, 174, 186, 197, 212, 234, 248, 263, 281,
               297, 310, 331, 347, 364, 390, 412, 427, 444, 478>>),
      Run(32, <<24, 25, 15, 19, 17, 19, 23, 22, 11>>,
              <<500, 525, 551, 567, 587, 605, 625, 649, 672>>),
      Run(46, <<25>>, <<684>>),
      Run(48, <<17, 26, 19>>, <<710, 728, 755>>),
      Run(58, <<16, 12>>, <<775, 792>>),
      Run(64, <<12, 14, 30, 27, 15, 21, 14, 12>>, <<805, 818, 833, 864, 892, 908, 930, 945>>),
      Run(80, <<23, 11, 14, 19>>, <<958, 982, 994, 1009>>),
      Run(85, <<11, 13, 9, 11, 12, 9, 18>>, <<1029, 1041, 1055, 1065, 1077, 1090, 1100>>)>>

ProcessErrors ==
    <<Run(100, <<18, 14, 14, 21, 16, 17, 17, 25, 25, 29, 18, 20, 18, 46, 18, 18, 18, 17, 21, 26,
                 24, 19, 37, 14, 13, 22, 33, 27, 25, 30, 26, 24, 14, 13, 24, 28, 26, 14, 16, 13,
                 8, 20, 12, 20, 29, 24, 15, 13, 27, 18, 37, 36, 31, 47, 37, 18, 24, 27, 29, 16>>,
               <<1119, 1138, 1153, 1168, 1190, 1207, 1225, 1243, 1269, 1295, 1325, 1344, 1365,
                 1384, 1431, 1450, 1469, 1488, 1506, 1528, 1555, 1580, 1600, 1638, 1653, 1667,
                 1690, 1724, 1752, 1778, 1809, 1836, 1861, 1876, 1890, 1915, 1944, 1971, 1986,
                 2003, 2017, 2026, 2047, 2060, 2081, 2111, 2136, 2152, 2166, 2194, 2213, 2251,
                 2288, 2320, 2368, 2406, 2425, 2450, 2478, 2508>>)>>

NetworkErrors ==
    <<Run(300, <<30, 28, 16, 30, 22, 22, 25, 23, 29, 40, 22, 31, 15, 22, 35, 32, 24, 27, 23, 26,
                 20, 18, 12, 16, 29, 25, 21, 25, 19>>,
               <<2525, 2556, 2585, 2602, 2633, 2656, 2679, 2705, 2729, 2759, 2800, 2823, 2855,
                 2871, 2894, 2930, 2963, 2988, 3016, 3040, 3067, 3088, 3107, 3120, 3137, 3167,
                 3193, 3215, 3241>>),
      Run(350, <<24, 18, 10, 21>>, <<3261, 3286, 3305, 3316>>)>>

Runs == SystemErrors \o ProcessErrors \o NetworkErrors
SYS_NERR == 354

\* The error numbers the program asks for.
Numbers == -2 .. SYS_NERR + 1 \cup FarNumbers

\* The numbers that have a text, the texts' lengths and their offsets, all in the order
\* of the table.
Flat(Field(_)) == FoldLeft(LAMBDA all, r : all \o Field(r), <<>>, Runs)
WithText == Flat(LAMBDA r : [i \in DOMAIN r.lengths |-> r.first + i - 1])
Lengths == Flat(LAMBDA r : r.lengths)
Offsets == Flat(LAMBDA r : r.offsets)
HasText == {WithText[i] : i \in DOMAIN WithText}

\* Where the texts lie in _sys_err_msgs: behind "Unknown error" and its NUL, one behind
\* the other.
Places ==
    FoldLeft(LAMBDA places, length : Append(places, Last(places) + length + 1), <<14>>, Lengths)

\* The text that lies at an offset: whose it is, and its length.
TextAt(offset) ==
    IF offset = 0 THEN [of |-> "unknown", number |-> 0, length |-> 13]
    ELSE LET i == CHOOSE i \in DOMAIN Lengths : Places[i] = offset
         IN  [of |-> "number", number |-> WithText[i], length |-> Lengths[i]]

\* _sys_errlist_internal.
Offset(e) == IF e \in HasText THEN Offsets[CHOOSE i \in DOMAIN WithText : WithText[i] = e] ELSE 0

\* An error number as unsigned int of 32 bits: too big for the numbers of TLC, but
\* not what the code asks of it: whether it is below SYS_NERR, and its decimal digits.
DecimalDigits(e) ==
    IF e < 0 THEN 10 ELSE CHOOSE k \in 1 .. 10 : e \div 10^(k - 1) < 10 /\ (k > 1 => e \div 10^(k - 1) > 0)

\* strerror: a text of the table, or one in a buffer of 25 bytes, with the number.
strerror(e) ==
    IF e \in 0 .. SYS_NERR - 1 THEN TextAt(Offset(e))
    ELSE [of |-> "buffer", number |-> e, length |-> 14 + DecimalDigits(e)]
UnknownError2 == 25

\* A slip: a text that just fits loses its end.
strerror_r_Short(e, bufsize) ==
    LET len == strerror(e).length
    IN  [text |-> strerror(e), copied |-> IF len < bufsize - 1 THEN len ELSE bufsize - 2,
         written |-> IF bufsize = 0 THEN 0 ELSE bufsize - 1]

\* strerror_r: how much of the text is copied, and how many bytes are written, with the NUL.
strerror_r(e, bufsize) ==
    LET len == strerror(e).length
        copylen == IF len < bufsize - 1 THEN len ELSE bufsize - 1
    IN  IF bufsize = 0 THEN [text |-> strerror(e), copied |-> 0, written |-> 0]
        ELSE [text |-> strerror(e), copied |-> copylen, written |-> copylen + 1]

\* perror: the pieces that go to stderr, with nothing in front for no string or "".
perror(s, e) ==
    (IF s = <<>> THEN <<>> ELSE <<[of |-> s], [of |-> ": "]>>) \o <<strerror(e), [of |-> "LF"]>>

-----------------------------------------------------------------------------

Classes(c) ==
    [alnum |-> isalnum(c), alpha |-> isalpha(c), digit |-> isdigit(c), lower |-> islower(c),
     print |-> isprint(c), punct |-> ispunct(c), space |-> isspace(c), upper |-> isupper(c),
     xdigit |-> isxdigit(c), graph |-> isgraph(c), blank |-> isblank(c), cntrl |-> iscntrl(c)]

\* The relations of the C standard (7.4.1) between the classes of a character, which are
\* spread over two tables; the comment of ctype.c: what lies above 7F is a control
\* character, and EOF is none.  A char with its sign is in the classes it is in
\* without, except that FF is EOF then.
ClassesAgree(c) ==
    LET k == Classes(c) IN
    /\ k.alpha = (k.upper \/ k.lower) /\ ~(k.upper /\ k.lower)
    /\ k.alnum = (k.alpha \/ k.digit)
    /\ k.graph = (k.alnum \/ k.punct) /\ ~(k.alnum /\ k.punct)
    /\ k.print = (k.graph \/ c = 32)
    /\ k.cntrl = (c # EOF /\ ~k.print)
    /\ k.space = (k.blank \/ c \in 10 .. 13)
    /\ k.blank => k.cntrl # k.print
    /\ k.digit => k.xdigit
    /\ k.xdigit => k.alnum
    /\ c < 0 /\ c # EOF => Classes(c + 256) = k
    /\ c = EOF => \A f \in DOMAIN k : ~k[f]
    /\ isascii(c) = (c = toascii(c))

\* The letters have two cases, and what is none keeps its code (tests/ctype/ctype.c).
CasesAgree(c) ==
    /\ isupper(c) = (tolower(c) # c) /\ islower(c) = (toupper(c) # c)
    /\ toupper(tolower(c)) = toupper(c) /\ tolower(toupper(c)) = tolower(c)
    /\ isalpha(c) => (islower(tolower(c)) /\ isupper(toupper(c)))

\* Each number of strerror.h leads to its own text, every other one that is not too big
\* to the first, and the digits of the rest fit the buffer; strerror_r fills what it is
\* given and no more.
ErrorTold(e, bufsize) ==
    LET r == strerror_r(e, bufsize) IN
    /\ e \in HasText => (r.text.of = "number" /\ r.text.number = e)
    /\ e \notin HasText => r.text.of = (IF e \in 0 .. SYS_NERR - 1 THEN "unknown" ELSE "buffer")
    /\ r.text.of = "buffer" => r.text.length < UnknownError2
    /\ r.written <= bufsize
    /\ bufsize > 0 => r.written = r.copied + 1
    /\ bufsize > r.text.length => r.copied = r.text.length
    /\ bufsize \in 1 .. r.text.length => r.written = bufsize
=============================================================================
