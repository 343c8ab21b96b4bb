------------------------------ MODULE Numbers -------------------------------
(***************************************************************************)
(* The conversions of a text to an integer: __strtoul_internal and          *)
(* __strtoull_internal, which differ in the word they compute in, the       *)
(* functions that call them, and atoi; strtod; and itoa, ltoa and ultoa, the *)
(* other way round.  A text is a sequence of characters.                    *)
(***************************************************************************)
EXTENDS Integers, Sequences, SequencesExt

CONSTANTS
    LongSize,       \* numbers an unsigned long can hold
    LongLongSize,   \* and an unsigned long long
    IntSize,        \* and an unsigned int, which is as long as a long or has 16 bits
    HalfDigits,     \* 9 in the code: digits of a mantissa that fit in a long
    maxExponent,    \* 511 in the code
    PowerCount      \* 9 in the code: numbers in powersOf10

NumbersAssumption ==
    /\ LongSize \in Nat /\ LongSize > 1 /\ LongSize % 2 = 0
    /\ LongLongSize \in Nat /\ LongLongSize >= LongSize /\ LongLongSize % 2 = 0
    /\ IntSize \in 2 .. LongSize /\ IntSize % 2 = 0
    /\ HalfDigits \in Nat \ {0} /\ PowerCount \in Nat /\ maxExponent = 2 ^ PowerCount - 1

LowerCase == <<"0", "1", "2", "3", "4", "5", "6", "7", "8", "9", "a", "b", "c", "d", "e", "f", "g",
               "h", "i", "j", "k", "l", "m", "n", "o", "p", "q", "r", "s", "t", "u", "v", "w", "x",
               "y", "z">>
UpperCase == <<"0", "1", "2", "3", "4", "5", "6", "7", "8", "9", "A", "B", "C", "D", "E", "F", "G",
               "H", "I", "J", "K", "L", "M", "N", "O", "P", "Q", "R", "S", "T", "U", "V", "W", "X",
               "Y", "Z">>

\* What a character counts in a number; 37 is more than any base.
Val ==
    LET Counts(c) == {i \in 1 .. 36 : LowerCase[i] = c \/ UpperCase[i] = c}
    IN  [c \in ToSet(LowerCase) \cup ToSet(UpperCase) |->
            (CHOOSE i \in Counts(c) : TRUE) - 1]
ValueOf(c) == IF c \in DOMAIN Val THEN Val[c] ELSE 37

NoChar == ""    \* behind the text
At(s, i) == IF i \in 1 .. Len(s) THEN s[i] ELSE NoChar

DigitsOf == [radix \in 1 .. 36 |-> {c \in DOMAIN Val : Val[c] < radix}]

\* How many characters of s, from the one behind n on, are of the set.
Run(s, n, set) ==
    LET ends == {k \in n .. Len(s) - 1 : s[k + 1] \notin set}
    IN  (IF ends = {} THEN Len(s) ELSE CHOOSE k \in ends : \A j \in ends : k <= j) - n

\* One turn of the loop in __mul32 and __mul64: the next bit of mul, for which in has
\* moved to the left.  A bit that falls out of in while mul has bits is an overflow.
Turn(m, i, mul, size) ==
    LET in == IF i = 0 THEN m.in ELSE 2 * m.in
        ret == IF (mul \div 2 ^ i) % 2 = 1 THEN m.ret + (in % size) ELSE m.ret
    IN  IF m.overflow \/ mul \div 2 ^ i = 0 THEN m
        ELSE [in |-> in % size, ret |-> ret % size, overflow |-> in >= size \/ ret >= size]

\* No base has more than six bits.
Mul(in, mul, size) ==
    LET m[i \in 0 .. 6] ==
          IF i = 0 THEN [in |-> in, ret |-> 0, overflow |-> FALSE]
          ELSE Turn(m[i - 1], i - 1, mul, size)
    IN  m[6]

\* A slip: only the product is checked.
AddDigit_SumOverflows(n, val, radix, size) ==
    LET product == Mul(n.ret, radix, size)
    IN  [ret |-> (product.ret + val) % size, overflow |-> n.overflow \/ product.overflow]

\* One turn of the loop over the digits: the product, unless it is of zero, and __add32.
AddDigit(n, val, radix, size) ==
    LET product == Mul(n.ret, radix, size)
        sum == product.ret + val
    IN  IF n.overflow THEN n
        ELSE [ret |-> sum % size, overflow |-> product.overflow \/ sum >= size]

\* The base of the letter behind a leading 0, or 0 for another character.
PrefixBase(letter) ==
    IF letter \in {"b", "B"} THEN 2 ELSE IF letter \in {"x", "X"} THEN 16 ELSE 0

\* The loop over the digits of the text behind the first ones.
AddDigits(text, from, count, radix, size) ==
    LET number[i \in 0 .. count] ==
          IF i = 0 THEN [ret |-> 0, overflow |-> FALSE]
          ELSE AddDigit(number[i - 1], ValueOf(text[from + i]), radix, size)
    IN  number[count]

Converted(text, from, count, number, sign, size) ==
    [value |-> IF number.overflow THEN size - 1 ELSE number.ret,
     sign |-> sign, end |-> from + count]

Unprefixed(text, from, radix, sign, size) ==
    LET count == Run(text, from, DigitsOf[radix])
    IN  Converted(text, from, count, AddDigits(text, from, count, radix, size), sign, size)

\* Behind the blanks and the sign.
Unsigned(text, start, base, zero, prefix, sign, size) ==
    IF start = Len(text) \/ (prefix # 0 /\ base \notin {0, prefix})
    THEN [value |-> 0, sign |-> sign, end |-> 0]
    ELSE Unprefixed(text,
                    start + (IF prefix # 0 THEN 2 ELSE IF zero THEN 1 ELSE 0),
                    IF prefix # 0 THEN prefix
                    ELSE IF base # 0 THEN base ELSE IF zero THEN 8 ELSE 10,
                    sign, size)

\* __strtoul_internal in words of the size: the value, the sign, and how far
\* behind nptr endptr is left.
Internal(text, base, size) ==
    LET blanks == Run(text, 0, {" ", "TAB"})
        sign   == At(text, blanks + 1) = "-"
        start  == IF sign THEN blanks + 1 ELSE blanks
        zero   == At(text, start + 1) = "0"
    IN  Unsigned(text, start, base, zero,
                 IF zero THEN PrefixBase(At(text, start + 2)) ELSE 0, sign, size)

Clamped(n, size) ==
    IF n.value > size \div 2 - 1 THEN IF n.sign THEN -(size \div 2) ELSE size \div 2 - 1
    ELSE IF n.sign THEN -n.value ELSE n.value

\* A word below zero is the word modulo its size.
Negated(n, size) == IF n.sign THEN (-n.value) % size ELSE n.value

strtol(text, base)   == Clamped(Internal(text, base, LongSize), LongSize)
strtoul(text, base)  == Negated(Internal(text, base, LongSize), LongSize)
strtoll(text, base)  == Clamped(Internal(text, base, LongLongSize), LongLongSize)
strtoull(text, base) == Negated(Internal(text, base, LongLongSize), LongLongSize)

\* atoi and atol in words of the size; a sum that leaves the word wraps.
Decimal(text, size) ==
    LET blanks == Run(text, 0, {" ", "TAB", "LF", "CR", "VT"})
        signed == At(text, blanks + 1) \in {"+", "-"}
        from   == IF signed THEN blanks + 1 ELSE blanks
        count  == Run(text, from, DigitsOf[10])
        value[i \in 0 .. count] ==
            IF i = 0 THEN 0 ELSE (value[i - 1] * 10 + ValueOf(text[from + i])) % size
        number == IF At(text, blanks + 1) = "-" THEN (-value[count]) % size ELSE value[count]
    IN  IF number >= size \div 2 THEN number - size ELSE number

atoi(text) == Decimal(text, IntSize)
atol(text) == Decimal(text, LongSize)

\* The digits of a number without a sign; the last of them is found first.
Written(value, radix) ==
    LET count == CHOOSE n \in 1 .. 32 : value < radix ^ n /\ (n = 1 \/ value >= radix ^ (n - 1))
    IN  [i \in 1 .. count |-> LowerCase[((value \div radix ^ (count - i)) % radix) + 1]]

\* What may lie in front of __itoa_numstr.
InFrontOf == "?"

\* itoa and ltoa in words of the size: the smallest number stays below zero when its
\* sign is turned round, and its remainders are places in front of the digits.
Signed(value, radix, size) ==
    LET written == Written(IF value < 0 THEN -value ELSE value, radix)
    IN  IF value = -(size \div 2)
        THEN <<"-">> \o [i \in DOMAIN written |-> IF written[i] = "0" THEN "0" ELSE InFrontOf]
        ELSE IF value < 0 THEN <<"-">> \o written ELSE written

itoa(value, radix)  == Signed(value, radix, IntSize)
ltoa(value, radix)  == Signed(value, radix, LongSize)
ultoa(value, radix) == Written(value, radix)

-----------------------------------------------------------------------------
(* strtod.  The number it returns is the fraction, multiplied with the power *)
(* of ten or divided by it; the arithmetic of doubles is taken as exact.    *)

MaxDigits == 2 * HalfDigits

\* What the digits that are kept have to be multiplied with.
FracExp(mantSize, decPt) ==
    IF mantSize > MaxDigits THEN decPt - MaxDigits ELSE decPt - mantSize

\* A long made of count digits from the one behind from on.
Worth(digits, from, count) ==
    LET w[i \in 0 .. count] ==
          IF i = 0 THEN 0 ELSE 10 * w[i - 1] + ValueOf(digits[from + i])
    IN  w[count]

\* frac1 and frac2: the last HalfDigits of those that are kept, and the ones before.
Fraction(digits) ==
    LET kept == IF Len(digits) > MaxDigits THEN MaxDigits ELSE Len(digits)
        first == IF kept > HalfDigits THEN kept - HalfDigits ELSE 0
    IN  10 ^ HalfDigits * Worth(digits, 0, first) + Worth(digits, first, kept - first)

powersOf10 == [i \in 1 .. PowerCount |-> 10 ^ (2 ^ (i - 1))]

\* The power of ten, one bit of its exponent after the other.
DblExp(exp) ==
    LET d[i \in 0 .. PowerCount] ==
          IF i = 0 THEN 1
          ELSE IF (exp \div 2 ^ (i - 1)) % 2 = 1 THEN d[i - 1] * powersOf10[i] ELSE d[i - 1]
    IN  d[PowerCount]

Magnitude(exp) == IF exp < 0 THEN -exp ELSE exp

Scaled(fraction, minus, exp, end) ==
    LET most == IF Magnitude(exp) > maxExponent THEN maxExponent ELSE Magnitude(exp)
    IN  [minus |-> minus, fraction |-> fraction, divides |-> exp < 0, dblExp |-> DblExp(most),
         erange |-> Magnitude(exp) > maxExponent, end |-> end]

\* "EX" behind the mantissa, which ends at pExp: where it ends, and its value.
NoExponent == [there |-> FALSE, digits |-> FALSE, end |-> 0, value |-> 0]
Exponent(text, pExp) ==
    LET from == IF At(text, pExp + 2) \in {"+", "-"} THEN pExp + 2 ELSE pExp + 1
        count == Run(text, from, DigitsOf[10])
        exp == Worth(text, from, count)
    IN  IF At(text, pExp + 1) \notin {"E", "e"} THEN NoExponent
        ELSE [there |-> TRUE, digits |-> count # 0, end |-> from + count,
              value |-> IF At(text, pExp + 2) = "-" THEN -exp ELSE exp]

\* A letter without digits behind it is not read, but the mantissa is then returned as
\* if it had no point.
strtod(text) ==
    LET blanks == Run(text, 0, {" ", "TAB"})
        minus == At(text, blanks + 1) = "-"
        p == IF At(text, blanks + 1) \in {"-", "+"} THEN blanks + 1 ELSE blanks
        decPt == Run(text, p, DigitsOf[10])
        behind == IF At(text, p + decPt + 1) = "." THEN Run(text, p + decPt + 1, DigitsOf[10]) ELSE 0
        pExp == IF At(text, p + decPt + 1) = "." THEN p + decPt + 1 + behind ELSE p + decPt
        digits == SubSeq(text, p + 1, p + decPt)
                  \o (IF behind = 0 THEN <<>> ELSE SubSeq(text, pExp - behind + 1, pExp))
        exponent == Exponent(text, pExp)
    IN  IF digits = <<>> THEN Scaled(0, minus, 0, 0)
        ELSE IF exponent.there /\ ~exponent.digits THEN Scaled(Fraction(digits), minus, 0, pExp)
        ELSE Scaled(Fraction(digits), minus,
                    FracExp(Len(digits), decPt) + (IF exponent.there THEN exponent.value ELSE 0),
                    IF exponent.there THEN exponent.end ELSE pExp)

\* A word, as a number with a sign.
WithSign(n, size) == ((n + (size \div 2)) % size) - (size \div 2)

-----------------------------------------------------------------------------
(* What the C standard says of strtol, where it says something and the code *)
(* follows: there is a number, without a plus, and a prefix that stands for *)
(* the base has digits behind it.                                           *)

CDigits(text, from, radix, count) ==
    LET worth[i \in 0 .. count] ==
          IF i = 0 THEN 0
          ELSE worth[i - 1] + ValueOf(text[from + i]) * radix ^ (count - i)
    IN  [radix |-> radix, from |-> from, end |-> from + count, value |-> worth[count]]

CUnprefixed(text, from, radix) == CDigits(text, from, radix, Run(text, from, DigitsOf[radix]))

\* The number after k characters of the text, without its sign.
CNumber(text, k, base) ==
    LET letter == PrefixBase(At(text, k + 2))
        zero == At(text, k + 1) = "0"
    IN  IF zero /\ letter # 0 /\ base \in {0, letter} THEN CUnprefixed(text, k + 2, letter)
        ELSE CUnprefixed(text, k, IF base # 0 THEN base ELSE IF zero THEN 8 ELSE 10)

CSigned(text) ==
    LET k == Run(text, 0, {" ", "TAB"})
    IN  IF At(text, k + 1) = "-" THEN k + 1 ELSE k

PromisedNumber(text, k, base, n) ==
    /\ n.end > n.from
    /\ At(text, k + 1) = "0" =>
         PrefixBase(At(text, k + 2)) \in {0, base} \/ (base = 0 /\ n.from = k + 2)

(* And of strtod.  The number in the text is the longest that has the form   *)
(* of one; hexadecimal ones, infinity and NaN are not read by the code.      *)

AllDigits(text, from, to) == \A i \in from + 1 .. to : text[i] \in DigitsOf[10]

\* Where a number behind the blanks and the sign may have its whole digits and, with a
\* point, a fraction,
Mantissas(text, k) ==
    {m \in (k .. Len(text)) \X (k .. Len(text)) :
        /\ m[1] <= m[2] /\ (m[1] > k \/ m[2] > k + 1)
        /\ AllDigits(text, k, m[1])
        /\ m[1] < m[2] => text[m[1] + 1] = "." /\ AllDigits(text, m[1] + 1, m[2])}

\* where an exponent may have its digits, if there is one,
Exponents(text, p) ==
    {x \in (p .. Len(text)) \X (p .. Len(text)) :
        IF x[1] = p THEN x[2] = p
        ELSE /\ x[1] < x[2] /\ AllDigits(text, x[1], x[2])
             /\ text[p + 1] \in {"e", "E"}
             /\ x[1] = p + 1 \/ (x[1] = p + 2 /\ text[x[1]] \in {"+", "-"})}

\* and so where it may end.
CDoubles(text, k) ==
    UNION {{[whole |-> m[1], frac |-> m[2], exp |-> x[1], end |-> x[2]] : x \in Exponents(text, m[2])} :
            m \in Mantissas(text, k)}

Longest(doubles) == CHOOSE f \in doubles : \A g \in doubles : g.end <= f.end

CExponent(text, f) ==
    LET worth == CDigits(text, f.exp, 10, f.end - f.exp).value
    IN  IF text[f.exp] = "-" THEN -worth ELSE worth

\* Behind a letter without digits the code forgets where the point was.
PromisedDouble(text, f) ==
    At(text, f.end + 1) \in {"e", "E"} /\ f.exp = f.frac => f.frac <= f.whole + 1

\* The digits that are kept and the power of ten make the number, of which digits
\* behind the first MaxDigits are cut off.
GivesDouble(f, text, k, double) ==
    LET count == IF f.frac = f.whole THEN f.whole - k ELSE f.frac - k - 1
        digits == SelectSeq(SubSeq(text, k + 1, f.frac), LAMBDA c : c # ".")
        cut == IF count > MaxDigits THEN count - MaxDigits ELSE 0
        exp == CExponent(text, f) - (IF f.frac = f.whole THEN 0 ELSE f.frac - f.whole - 1) + cut
    IN  /\ double.end = f.end
        /\ double.minus = (At(text, k) = "-")
        /\ double.erange = (Magnitude(exp) > maxExponent)
        /\ double.fraction = CDigits(digits, 0, 10, count - cut).value
        /\ ~double.erange => double.dblExp = 10 ^ Magnitude(exp) /\ double.divides = (exp < 0)

StartsAt(text) ==
    LET k == Run(text, 0, {" ", "TAB"})
    IN  IF At(text, k + 1) \in {"+", "-"} THEN k + 1 ELSE k

DoubleConverts(text, k, double) ==
    LET doubles == CDoubles(text, k)
        f == Longest(doubles)
    IN  IF doubles = {} THEN double.end = 0 /\ double.fraction = 0
        ELSE /\ double.end = f.end
             /\ PromisedDouble(text, f) => GivesDouble(f, text, k, double)

\* What was written is read as the number it was; of the smallest there is only the sign.
ReadsBack(n) ==
    LET int == WithSign(n.value, IntSize)
        long == WithSign(n.value, LongSize)
    IN  /\ strtoul(n.ultoa, n.radix) = n.value
        /\ long # -(LongSize \div 2) => strtol(n.ltoa, n.radix) = long
        /\ int # -(IntSize \div 2) => strtol(n.itoa, n.radix) = int
        /\ n.radix = 10 /\ int # -(IntSize \div 2) => atoi(n.itoa) = int
=============================================================================
