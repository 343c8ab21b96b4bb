------------------------------- MODULE Printf -------------------------------
(***************************************************************************)
(* doprnt, the formatter behind the whole printf family, writing into the  *)
(* memory of vsnprintf or vsprintf.  A format is a sequence of items: a     *)
(* character that stands for itself, or a directive with its argument.     *)
(* One step takes one item; the end of the format is a step of its own.    *)
(* A floating point number is an exact decimal one here: the rounding of    *)
(* doubles is left out.  Long long directives are not compiled.            *)
(***************************************************************************)
EXTENDS Integers, Sequences, SequencesExt, FiniteSets

CONSTANTS
    Literals,       \* characters that stand for themselves
    Directives,     \* the directives a format may hold, with their arguments
    Sizes,          \* values of vsnprintf's size; Unbounded is vsprintf
    Unbounded,      \* more than any text: the address 0x7fffffff
    MaxItems,       \* items in a format
    BufferSize,     \* PRINTF_BUFFER_SIZE
    WordSize,       \* numbers an unsigned int can hold
    LongSize,       \* and an unsigned long
    DEFAULT_DIGITS_REMAINDER, MAX_DIGITS_REMAINDER

NoSign == ""
NUL == "\\0"
Pending == -1       \* vsnprintf has not returned

UNLIMITED == -1

Directive ==
    [minus: BOOLEAN, zero: BOOLEAN, hash: BOOLEAN, sign: {NoSign, "+", " "},
     width: Int, precision: Int, long: BOOLEAN, fmt: STRING,
     num: Int, scale: Nat, str: Seq(STRING)]     \* the argument: num / 10^scale, or str

\* The item of a character that stands for itself.
Plain(c) ==
    [minus |-> FALSE, zero |-> FALSE, hash |-> FALSE, sign |-> NoSign,
     width |-> 0, precision |-> UNLIMITED, long |-> FALSE, fmt |-> "",
     num |-> 0, scale |-> 0, str |-> <<c>>]

PrintfAssumption ==
    /\ \A d \in Directives : d \in Directive
    /\ WordSize \in Nat /\ WordSize > 1 /\ LongSize \in Nat /\ LongSize >= WordSize
    /\ DEFAULT_DIGITS_REMAINDER \in Nat /\ MAX_DIGITS_REMAINDER \in Nat
    /\ Unbounded \in Nat
    /\ Sizes \subseteq 0 .. Unbounded

VARIABLES
    size,       \* vsnprintf's argument
    v,          \* doprnt's variables, which outlive a directive
    xstring,    \* stream.xstring, counted from str
    memory,     \* what was written, by address counted from str
    text,       \* every character doprnt gave to addchar
    items,      \* the format so far
    buffered,   \* the most characters buf has held
    result      \* what vsnprintf returned

vars == <<size, v, xstring, memory, text, items, buffered, result>>

Fresh == [flush_left |-> FALSE, field_width |-> 0, precision |-> UNLIMITED,
          hash |-> FALSE, space_or_sign |-> NoSign, pad |-> " "]

Init ==
    /\ size \in Sizes
    /\ v = Fresh
    /\ xstring = 0
    /\ memory = <<>>
    /\ text = <<>> /\ items = <<>>
    /\ buffered = 0
    /\ result = Pending

-----------------------------------------------------------------------------
(* Reading a directive. *)

\* The variables w after the flags, the width and the precision of d.  A
\* width below zero comes from "*"; one that is written out adds its digits
\* to the ones there are.
Parsed(w, d) ==
    [flush_left    |-> w.flush_left \/ d.minus \/ d.width < 0,
     field_width   |-> IF d.width < 0 THEN -d.width
                                      ELSE w.field_width * 10 + d.width,
     precision     |-> IF d.precision = UNLIMITED THEN w.precision ELSE d.precision,
     hash          |-> w.hash \/ d.hash,
     space_or_sign |-> IF d.sign = NoSign THEN w.space_or_sign ELSE d.sign,
     pad           |-> IF d.zero THEN "0" ELSE w.pad]

-----------------------------------------------------------------------------
(* Converting an argument: the characters a directive stands for.  A number *)
(* is built backwards in buf.                                              *)

Larger(m, n) == IF m > n THEN m ELSE n
Repeat(c, n) == [i \in 1 .. Larger(n, 0) |-> c]

LowerDigits == <<"0", "1", "2", "3", "4", "5", "6", "7",
                 "8", "9", "a", "b", "c", "d", "e", "f">>
UpperDigits == <<"0", "1", "2", "3", "4", "5", "6", "7",
                 "8", "9", "A", "B", "C", "D", "E", "F">>

Base(fmt) == IF fmt \in {"x", "X"} THEN 16 ELSE IF fmt = "o" THEN 8 ELSE 10
Numbers(fmt) == IF fmt = "X" THEN UpperDigits ELSE LowerDigits

\* The digits of n, the lowest first.
Reversed(n, fmt) ==
    LET digits[m \in 0 .. n] ==
          <<Numbers(fmt)[(m % Base(fmt)) + 1]>>
          \o (IF m < Base(fmt) THEN <<>> ELSE digits[m \div Base(fmt)])
    IN  digits[n]

\* The padding and buf, backwards, in a field of the width.
PutField(buf, width, flush_left, pad) ==
    LET room == width - Len(buf)
    IN  IF flush_left THEN Reverse(buf) \o Repeat(" ", room)
                      ELSE Repeat(pad, room) \o Reverse(buf)

\* buf after the sign went behind the zeros, or over the last one of them
\* when they fill a width.
SignAt(w, filled, sign) ==
    IF w.precision > 0 \/ sign = <<>> THEN filled \o sign
    ELSE [filled EXCEPT ![Len(filled)] = sign[1]]

\* "%d" and "%i".
Decimal(w, n) ==
    LET digits == Reversed(IF n < 0 THEN -n ELSE n, "d")
        sign   == IF n < 0 THEN <<"-">>
                  ELSE IF w.space_or_sign = NoSign THEN <<>> ELSE <<w.space_or_sign>>
        exact  == w.precision > 0
        fill   == IF exact THEN w.precision ELSE IF w.pad = "0" THEN w.field_width ELSE 0
        width  == IF exact THEN Larger(w.precision, w.field_width) ELSE w.field_width
        zeros  == fill - Len(digits)
        behind == (w.flush_left /\ ~exact) \/ zeros <= 0
    IN  [buf |-> IF behind THEN digits \o sign
                 ELSE SignAt(w, digits \o Repeat("0", zeros), sign),
         width |-> width,
         pad |-> IF behind /\ ~exact THEN w.pad ELSE " "]

Prefix(w, fmt, n) ==
    IF n = 0 \/ (~w.hash /\ fmt # "p") THEN <<>>
    ELSE IF fmt = "p" THEN <<"x", "0">>
    ELSE IF fmt \in {"x", "X"} THEN <<fmt, "0">>
    ELSE IF fmt = "o" THEN <<"0">> ELSE <<>>

\* "%u", "%o", "%x", "%X" and "%p".
Unsigned(w, fmt, n) ==
    LET digits == Reversed(n, IF fmt = "p" THEN "x" ELSE fmt)
        prefix == Prefix(w, fmt, n)
        exact  == w.precision > 0
        fill   == IF exact THEN w.precision
                  ELSE IF w.pad = "0" /\ ~w.flush_left THEN w.field_width ELSE 0
        width  == IF exact THEN Larger(w.precision, w.field_width) ELSE w.field_width
        pad    == IF exact THEN " " ELSE w.pad
        missing == fill - Len(digits)
        zeros  == IF missing > 0 /\ (fmt = "o" \/ pad = "0")
                  THEN missing - Len(prefix) ELSE missing
    IN  [buf |-> digits \o Repeat("0", zeros) \o prefix,
         width |-> width,
         pad |-> IF zeros > 0 THEN " " ELSE pad]

IsNumber(fmt) == fmt \in {"d", "i", "u", "o", "x", "X", "p"}

\* The letters that stand for a small one and a long.
LongLetter == [D |-> "d", I |-> "i", O |-> "o", U |-> "u"]
Letter(fmt) == IF fmt \in DOMAIN LongLetter THEN LongLetter[fmt] ELSE fmt

\* The values of the argument's type.
Words(d) == IF d.long \/ d.fmt \in {"D", "I", "O", "U", "p"} THEN LongSize ELSE WordSize

Number(w, d) ==
    IF Letter(d.fmt) \in {"d", "i"} THEN Decimal(w, d.num)
    ELSE Unsigned(w, Letter(d.fmt), d.num % Words(d))

\* floatval is at most two; these are its digits below the point, in units of One.
One == 10 ^ 9
MaxPlaces == 9
Length(n) == CHOOSE k \in 0 .. 10 : (IF k = 0 THEN n = 0 ELSE 10 ^ (k - 1) <= n) /\ (k = 10 \/ n < 10 ^ k)

\* Half a unit of the last place that will be written, if floatval has it.
HalfUnit(places) ==
    IF places < 0 THEN 0 ELSE IF places >= MaxPlaces THEN 0 ELSE 5 * 10 ^ (MaxPlaces - 1 - places)

\* normalize_float
normalize_float(num, scale, round_to, eformat) ==
    LET exponent == IF num = 0 THEN 0 ELSE Length(num) - scale
        below == num * 10 ^ (MaxPlaces - Length(num))
    IN  [floatval |-> below + HalfUnit(IF eformat THEN round_to + 1 ELSE round_to + exponent),
         exponent |-> exponent]

\* Places from to to of floatval, the first of which is not below a tenth.
PlacesOf(floatval, from, to) ==
    [i \in 1 .. Larger(to - from + 1, 0) |->
        LowerDigits[((floatval \div 10 ^ (MaxPlaces - (from + i - 1))) % 10) + 1]]

\* Rounding has made a ten of the first place: it is a one, and there is a place more.
Carried(f) ==
    IF f.floatval < One THEN f
    ELSE [floatval |-> f.floatval \div 10, exponent |-> f.exponent + 1]

Point(w, precision) == IF precision > 0 \/ w.hash THEN <<".">> ELSE <<>>

\* "%e".  There are two digits of the exponent at least; that of zero is zero.
Exponential(w, f, precision, letter) ==
    LET c == Carried(f)
        digits == PlacesOf(c.floatval, 1, precision + 1)
        small == c.exponent < 1
        negative == small /\ \E i \in 1 .. precision + 1 : digits[i] # "0"
        exponent == IF negative THEN 1 - c.exponent ELSE IF small THEN 0 ELSE c.exponent - 1
    IN  <<digits[1]>> \o Point(w, precision) \o Tail(digits)
        \o <<letter, IF negative THEN "-" ELSE "+">>
        \o (IF exponent < 10 THEN <<"0">> ELSE <<>>) \o Reverse(Reversed(exponent, "d"))

\* "%f".  A place more that rounding makes is one in front of the point only
\* where there is one already.
Fixed(w, f, precision) ==
    LET c == Carried(f)
        places == IF f.exponent > 0 THEN c.exponent ELSE 0
        zeros == IF f.exponent >= 0 THEN 0
                 ELSE IF -f.exponent < precision THEN -f.exponent ELSE precision
    IN  (IF places = 0 THEN <<"0">> ELSE PlacesOf(c.floatval, 1, places))
        \o Point(w, precision) \o Repeat("0", zeros)
        \o PlacesOf(c.floatval, places + 1, places + precision - zeros)

IsFloat(fmt) == fmt \in {"e", "E", "f", "F", "g", "G"}

Digits(precision) ==
    IF precision = UNLIMITED THEN DEFAULT_DIGITS_REMAINDER
    ELSE IF precision > MAX_DIGITS_REMAINDER THEN MAX_DIGITS_REMAINDER ELSE precision

Float(w, d) ==
    LET precision == Larger(Digits(w.precision), 0)
        num == IF d.num < 0 THEN -d.num ELSE d.num
        f == normalize_float(num, d.scale, precision, d.fmt \in {"e", "E"})
        exponential == \/ d.fmt \in {"e", "E"}
                       \/ d.fmt \in {"g", "G"} /\ (f.exponent < -4 \/ f.exponent >= precision)
    IN  IF exponential
        THEN Exponential(w, normalize_float(num, d.scale, precision, TRUE), precision,
                         IF d.fmt \in {"E", "G"} THEN "E" ELSE "e")
        ELSE Fixed(w, f, precision)

\* The digits in their field; padded with zeros, only a minus is written.
PutFloat(w, d) ==
    LET body == Float(w, d)
        minus == IF d.num < 0 THEN <<"-">> ELSE <<>>
        sign == IF d.num < 0 \/ w.space_or_sign = NoSign THEN minus ELSE <<w.space_or_sign>>
        room == w.field_width - Len(body)
    IN  IF w.flush_left THEN sign \o body \o Repeat(" ", room - Len(sign))
        ELSE IF w.pad = "0" THEN minus \o Repeat("0", room - Len(minus)) \o body
        ELSE Repeat(" ", room - Len(sign)) \o sign \o body

\* The text s in the field; a string's width is counted before it is cut.
PutText(w, s, length, shown) ==
    LET room == w.field_width - length
        cut  == IF shown < Len(s) THEN SubSeq(s, 1, shown) ELSE s
    IN  IF w.flush_left THEN cut \o Repeat(" ", room) ELSE Repeat(w.pad, room) \o cut

Converted(w, d) ==
    IF IsNumber(Letter(d.fmt))
    THEN LET n == Number(w, d) IN PutField(n.buf, n.width, w.flush_left, n.pad)
    ELSE IF IsFloat(d.fmt) THEN PutFloat(w, d)
    ELSE IF d.fmt = "c"
         THEN PutText(w, d.str, IF d.str = <<NUL>> THEN 0 ELSE 1, 1)
    ELSE IF d.fmt = "s"
         THEN PutText(w, d.str, Len(d.str),
                      IF w.precision = UNLIMITED THEN Len(d.str) ELSE w.precision)
    ELSE IF d.fmt = "%" THEN <<"%">> ELSE <<>>

\* A slip: the padding character stays.
Reset_KeepPad(w) == [Fresh EXCEPT !.pad = w.pad]

\* The variables after a directive.
Reset(w) == Fresh

-----------------------------------------------------------------------------
(* The memory that is written to. *)

\* xestring, counted from str.
XEnd == IF size = Unbounded THEN Unbounded ELSE size - 1

\* __addchar stores the character it gets with xstring at this place.
Accepts(at) == size # 0 /\ at < XEnd

\* A slip: xstring stops where the buffer ends.
AddChars_Stop(s) ==
    LET Stored == {at \in xstring .. xstring + Len(s) - 1 : Accepts(at)}
    IN  /\ memory' = [at \in DOMAIN memory \cup Stored |->
                        IF at \in Stored THEN s[at - xstring + 1] ELSE memory[at]]
        /\ xstring' = xstring + Cardinality(Stored)
        /\ text' = text \o s

\* addchar for each character of s.
AddChars(s) ==
    LET Stored == {at \in xstring .. xstring + Len(s) - 1 : Accepts(at)}
    IN  /\ memory' = [at \in DOMAIN memory \cup Stored |->
                        IF at \in Stored THEN s[at - xstring + 1] ELSE memory[at]]
        /\ xstring' = xstring + Len(s)
        /\ text' = text \o s

\* A character that is not part of a directive.
Literal(c) ==
    /\ result = Pending
    /\ Len(items) < MaxItems
    /\ AddChars(<<c>>)
    /\ items' = Append(items, Plain(c))
    /\ UNCHANGED <<size, v, buffered, result>>

\* A directive: parsed, converted, and the variables put back.
Convert(d) ==
    /\ result = Pending
    /\ Len(items) < MaxItems
    /\ LET w == Parsed(v, d)
       IN  /\ AddChars(Converted(w, d))
           /\ v' = Reset(w)
           /\ buffered' = IF IsNumber(Letter(d.fmt)) THEN Larger(buffered, Len(Number(w, d).buf))
                                             ELSE buffered
    /\ items' = Append(items, d)
    /\ UNCHANGED <<size, result>>

\* Where vsnprintf and vsprintf write the NUL.
NulAt == IF size = 0 THEN {} ELSE {IF xstring <= XEnd THEN xstring ELSE XEnd}

\* The format has ended.
Finish ==
    /\ result = Pending
    /\ memory' = [at \in DOMAIN memory \cup NulAt |->
                    IF at \in NulAt THEN NUL ELSE memory[at]]
    /\ result' = xstring
    /\ UNCHANGED <<size, v, xstring, text, items, buffered>>

Next ==
    \/ \E c \in Literals : Literal(c)
    \/ \E d \in Directives : Convert(d)
    \/ Finish

Spec == Init /\ [][Next]_vars

-----------------------------------------------------------------------------
(* What the C standard says of a directive, where it says something and the *)
(* code follows: no ".0" and no negative precision, no text that is cut in  *)
(* a field, no zeros before a text, no NUL in a field.  Of floating point   *)
(* numbers: those that are not in the middle between two texts, do not     *)
(* round up to the next power of ten below one, and need no plus before    *)
(* zeros.  Where the code does not choose the notation of "%g" as C does,   *)
(* the number is still what "%e" or "%f" would write.                      *)

Magnitude(n) == IF n < 0 THEN -n ELSE n

\* n / 10^places to the nearest integer.
Rounded(n, places) ==
    IF places <= 0 THEN n * 10 ^ (-places) ELSE (n + 5 * 10 ^ (places - 1)) \div 10 ^ places
Tie(n, places) == places > 0 /\ n % 10 ^ places = 5 * 10 ^ (places - 1)

\* Places of the argument that are not written.
Dropped(d, exponential) ==
    LET n == Magnitude(d.num)
    IN  IF exponential THEN Length(n) - (Digits(d.precision) + 1) ELSE d.scale - Digits(d.precision)

IsExponential(d) ==
    LET exponent == IF d.num = 0 THEN 0 ELSE Length(Magnitude(d.num)) - d.scale
    IN  \/ d.fmt \in {"e", "E"}
        \/ (d.fmt \in {"g", "G"} /\ (exponent < -4 \/ exponent >= Digits(d.precision)))

PromisedFloat(d) ==
    LET n == Magnitude(d.num)
        dropped == Dropped(d, IsExponential(d))
        shown == Rounded(n, dropped)
    IN  /\ d.precision <= MAX_DIGITS_REMAINDER
        /\ ~Tie(n, dropped)
        /\ ~IsExponential(d) /\ n < 10 ^ d.scale =>
               IF n = 0 THEN TRUE ELSE Length(shown) <= Larger(Length(n) - dropped, 0)
        /\ d.zero /\ ~d.minus => d.sign = NoSign

Promised(d) ==
    IF IsNumber(Letter(d.fmt)) \/ d.fmt = "s" THEN
        /\ d.precision = UNLIMITED \/ d.precision > 0
        /\ d.fmt = "s" => ~d.zero /\ (d.precision < Len(d.str) => d.width = 0 \/ d.precision < 0)
    ELSE IF IsFloat(d.fmt) THEN PromisedFloat(d)
    ELSE d.fmt = "c" => ~d.zero /\ (d.str = <<NUL>> => d.width = 0)

\* The digits of n, the highest first, as many as there must be and no more.
CDigits(n, fmt) ==
    LET b == Base(fmt)
        count == CHOOSE k \in 1 .. n + 1 : b ^ k > n /\ (k > 1 => b ^ (k - 1) <= n)
    IN  [i \in 1 .. count |-> Numbers(fmt)[((n \div b ^ (count - i)) % b) + 1]]

\* The sign or the prefix of a number.
CLead(d, n) ==
    IF Letter(d.fmt) \in {"d", "i"} \/ IsFloat(d.fmt) THEN
        IF d.num < 0 THEN <<"-">> ELSE IF d.sign = NoSign THEN <<>> ELSE <<d.sign>>
    ELSE IF d.hash /\ n # 0 /\ d.fmt \in {"x", "X"} THEN <<"0", d.fmt>>
    ELSE IF d.fmt = "p" /\ n # 0 THEN <<"0", "x">>
    ELSE <<>>

\* A number in its field.
InField(d, lead, digits, zeros) ==
    LET room == Magnitude(d.width) - Len(lead) - Len(digits)
    IN  IF d.minus \/ d.width < 0 THEN lead \o digits \o Repeat(" ", room)
        ELSE IF zeros THEN lead \o Repeat("0", room) \o digits
        ELSE Repeat(" ", room) \o lead \o digits

CNumber(d) ==
    LET n      == IF Letter(d.fmt) \in {"d", "i"} THEN Magnitude(d.num) ELSE d.num % Words(d)
        short  == CDigits(n, IF d.fmt = "p" THEN "x" ELSE Letter(d.fmt))
        given  == Repeat("0", d.precision - Len(short)) \o short
        digits == IF Letter(d.fmt) = "o" /\ d.hash /\ given[1] # "0" THEN <<"0">> \o given ELSE given
    IN  InField(d, CLead(d, n), digits, d.zero /\ d.precision = UNLIMITED)

\* At least count digits of n.
Padded(n, count) == LET short == CDigits(n, "d") IN Repeat("0", count - Len(short)) \o short

\* The digits of a floating point number: with an exponent, and one digit in
\* front of the point, or without.
CFloat(d) ==
    LET n == Magnitude(d.num)
        precision == Digits(d.precision)
        shown == Rounded(n, Dropped(d, IsExponential(d)))
        point == IF precision > 0 \/ d.hash THEN <<".">> ELSE <<>>
        more == IsExponential(d) /\ shown = 10 ^ (precision + 1)
        exponent == IF n = 0 THEN 0 ELSE Length(n) - d.scale - (IF more THEN 0 ELSE 1)
        digits == Padded(IF more THEN shown \div 10 ELSE shown, precision + 1)
        whole == Len(digits) - precision
        written == SubSeq(digits, 1, whole) \o point \o SubSeq(digits, whole + 1, Len(digits))
    IN  IF IsExponential(d)
        THEN written \o <<IF d.fmt \in {"E", "G"} THEN "E" ELSE "e", IF exponent < 0 THEN "-" ELSE "+">>
                     \o Padded(Magnitude(exponent), 2)
        ELSE written

CString(d) ==
    LET shown == IF d.fmt = "s" /\ 0 < d.precision /\ d.precision < Len(d.str)
                 THEN SubSeq(d.str, 1, d.precision) ELSE d.str
        room  == Repeat(" ", Magnitude(d.width) - Len(shown))
    IN  IF d.minus \/ d.width < 0 THEN shown \o room ELSE room \o shown

CText(d) ==
    IF IsNumber(Letter(d.fmt)) THEN CNumber(d)
    ELSE IF IsFloat(d.fmt) THEN InField(d, CLead(d, 0), CFloat(d), d.zero)
    ELSE IF d.fmt \in {"c", "s"} THEN CString(d)
    ELSE IF d.fmt = "%" THEN <<"%">> ELSE d.str

-----------------------------------------------------------------------------
(* Properties. *)

TypeOK ==
    /\ size \in Sizes
    /\ v \in [flush_left: BOOLEAN, field_width: Nat, precision: Nat \cup {UNLIMITED},
             hash: BOOLEAN, space_or_sign: {NoSign, "+", " "}, pad: {" ", "0"}]
    /\ xstring \in Nat /\ buffered \in Nat
    /\ DOMAIN memory \subseteq Nat
    /\ \A at \in DOMAIN memory : memory[at] \in STRING
    /\ text \in Seq(STRING)
    /\ items \in Seq(Directive)
    /\ result \in Nat \cup {Pending}

\* vsnprintf writes to no byte outside the size it was given, and to none at
\* all when the size is zero (the str may be NULL then).
StaysInBuffer == \A at \in DOMAIN memory : at < size

\* What is in the memory after vsnprintf is the whole text, cut to leave room
\* for the NUL behind it, and the result is the length of the text as if
\* there had been room for all of it.
ResultTellsLength ==
    result # Pending =>
        /\ result = Len(text)
        /\ size # 0 =>
             LET kept == IF Len(text) < size THEN Len(text) ELSE size - 1
             IN  /\ DOMAIN memory = 0 .. kept
                 /\ \A at \in 0 .. kept - 1 : memory[at] = text[at + 1]
                 /\ memory[kept] = NUL

\* Every item of a format gives the text the C standard says, whatever the
\* directives before it were.
FormatsLikeC ==
    result # Pending /\ (\A i \in 1 .. Len(items) : Promised(items[i])) =>
        text = FlattenSeq([i \in 1 .. Len(items) |-> CText(items[i])])

\* A number never needs more of buf than its width, or its precision and a
\* sign or prefix: doprnt relies on it and checks nothing.
BufferHolds == buffered <= BufferSize

\* vsnprintf writes what fits, and says how much there was.
WritesWhatFits == TypeOK /\ StaysInBuffer /\ BufferHolds /\ ResultTellsLength
=============================================================================
