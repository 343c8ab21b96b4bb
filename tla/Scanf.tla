------------------------------- MODULE Scanf --------------------------------
(***************************************************************************)
(* doscan, the scanner behind the whole scanf family.  A format is a        *)
(* sequence of items: white space, a character that stands for itself, or a *)
(* directive.  One step takes one item; the end of the format is a step of  *)
(* its own.  Storing into types narrower or wider than an int is left out,  *)
(* and so is the value of a floating point number, which stays a text.      *)
(***************************************************************************)
EXTENDS Numbers

CONSTANTS
    Texts,          \* what the stream may hold
    Items,          \* items a format may have
    MaxItems,       \* items in a format
    BufferSize      \* SCANF_BUFFER_SIZE

Item == [kind: {"space", "char", "directive"}, c: STRING, fmt: STRING,
         suppress: BOOLEAN, maxlen: Nat, set: SUBSET STRING, reverse: BOOLEAN]

Space == [kind |-> "space", c |-> "", fmt |-> "",
          suppress |-> FALSE, maxlen |-> 0, set |-> {}, reverse |-> FALSE]
Literal(c) == [Space EXCEPT !.kind = "char", !.c = c]
Directive(fmt) == [Space EXCEPT !.kind = "directive", !.fmt = fmt]

ScanfAssumption == Items \subseteq Item /\ BufferSize \in Nat /\ BufferSize > 2

NUL == ""
EOF == "EOF"
UNLIMITED == -1
Pending == -2       \* doscan has not returned

VARIABLES
    input,      \* what the stream held
    items,      \* the format so far
    s,          \* doscan's variables and what the stream still holds
    skipping,   \* the next character of the format is passed over
    told,       \* what "%n" stored, with how much of the stream was used up
    result      \* what doscan returned

vars == <<input, items, s, skipping, told, result>>

Init ==
    /\ input \in Texts
    /\ items = <<>>
    /\ s = [rest |-> input, ch |-> NUL, keepch |-> NUL, num |-> 0, num_chars |-> 0,
            error |-> FALSE, stored |-> <<>>]
    /\ skipping = FALSE
    /\ told = <<>>
    /\ result = Pending

-----------------------------------------------------------------------------
(* Reading characters. *)

Spaces == {" ", "LF"}
IsSpace(c) == c \in Spaces

\* getchar_func.
Get(t) ==
    [t EXCEPT !.ch = IF t.rest = <<>> THEN EOF ELSE Head(t.rest),
              !.rest = IF t.rest = <<>> THEN <<>> ELSE Tail(t.rest),
              !.num_chars = t.num_chars + 1]

\* The character that was kept, or the next one.
First(t) == IF t.keepch # NUL THEN [t EXCEPT !.ch = t.keepch, !.keepch = NUL] ELSE Get(t)

RECURSIVE SkipSpaces(_)
SkipSpaces(t) == IF IsSpace(t.ch) THEN SkipSpaces(Get(t)) ELSE t

\* The last character read is for the next item.
Keep(t) == IF t.ch # EOF THEN [t EXCEPT !.keepch = t.ch] ELSE t

Fail(t) == [t EXCEPT !.error = TRUE]

\* A conversion stores a value and counts, unless it is suppressed.
Store(t, item, value) ==
    IF item.suppress THEN t
    ELSE [t EXCEPT !.stored = Append(t.stored, value), !.num = t.num + 1]

Limit(item) == IF item.maxlen = 0 THEN UNLIMITED ELSE item.maxlen

-----------------------------------------------------------------------------
(* The items. *)

\* White space in the format.
WhiteSpace(t) ==
    IF t.keepch # NUL /\ ~IsSpace(t.keepch) THEN t
    ELSE Keep(SkipSpaces(Get([t EXCEPT !.keepch = NUL])))

\* A character of the format, "%%" too.
Match(t, c) ==
    LET u == First(t) IN IF u.ch # c THEN Fail(u) ELSE u

IsNumber(fmt) == fmt \in {"d", "i", "u", "o", "x", "p"}
IsUnsigned(fmt) == fmt \in {"u", "o", "x", "p"}
BaseOf(fmt) ==
    IF fmt = "i" THEN 0 ELSE IF fmt = "o" THEN 8 ELSE IF fmt \in {"x", "p"} THEN 16 ELSE 10

\* The loop that collects digits; d has its variables.  Base 0 takes any
\* character, and none at the end of the stream: EOF goes into buf.
RECURSIVE Digits(_, _)
Digits(t, d) ==
    LET next(e) == Digits(Get(t), [e EXCEPT !.pos = d.pos + 1, !.maxlen = d.maxlen - 1])
    IN  IF Len(d.buf) >= BufferSize - 1 \/ d.maxlen = 0 THEN [t |-> t, d |-> d]
        ELSE IF d.base \in {0, 8, 16} /\ d.pos = 0 /\ t.ch = "0"
             THEN next([d EXCEPT !.base = IF d.base = 0 THEN 8 ELSE d.base])
        ELSE IF ~d.any_digit /\ d.base \in {8, 16} /\ d.pos = 1 /\ t.ch \in {"x", "X"}
             THEN next([d EXCEPT !.base = 16])
        ELSE IF d.base # 0 /\ ValueOf(t.ch) >= d.base THEN [t |-> t, d |-> d]
        ELSE next([d EXCEPT !.any_digit = TRUE, !.buf = Append(d.buf, t.ch)])

\* "%d", "%i", "%u", "%o", "%x" and "%p".
Number(t, item) ==
    LET u == SkipSpaces(First(t))
        negative == u.ch = "-"
        v == IF negative THEN Get(u) ELSE u
        left == IF negative /\ item.maxlen # 0 THEN item.maxlen - 1 ELSE Limit(item)
        r == Digits(v, [base |-> BaseOf(item.fmt), pos |-> 0, any_digit |-> FALSE,
                        maxlen |-> left, buf |-> IF negative THEN <<"-">> ELSE <<>>])
        value == IF IsUnsigned(item.fmt) THEN strtoul(r.d.buf, r.d.base)
                                         ELSE strtol(r.d.buf, r.d.base)
    IN  IF left = 0 \/ (negative /\ IsUnsigned(item.fmt)) THEN Fail(v)
        ELSE IF ~r.d.any_digit THEN Fail(r.t)
        ELSE Keep(Store(r.t, item, value))

\* The loop of "%c" and "%s"; the string ends at white space.
RECURSIVE Copy(_, _, _, _)
Copy(t, maxlen, dest, string) ==
    LET left == IF maxlen > 0 THEN maxlen - 1 ELSE maxlen
        u == IF left # 0 THEN Get(t) ELSE t
        text == Append(dest, t.ch)
    IN  IF u.ch = EOF \/ left = 0 \/ (string /\ IsSpace(u.ch)) THEN [t |-> u, dest |-> text]
        ELSE Copy(u, left, text, string)

\* "%c" and "%s"; the white space behind a string is used up.
Characters(t, item) ==
    LET u == First(t)
        maxlen == IF item.fmt = "c" /\ item.maxlen = 0 THEN 1 ELSE Limit(item)
        r == Copy(u, maxlen, <<>>, item.fmt = "s")
    IN  IF u.ch = EOF THEN Fail(u) ELSE Store(r.t, item, r.dest)

\* "%[": it counts nothing and knows no width.
RECURSIVE InSet(_, _, _)
InSet(t, item, dest) ==
    IF t.ch = EOF \/ (t.ch \in item.set) = item.reverse THEN [t |-> t, dest |-> dest]
    ELSE InSet(Get(t), item, Append(dest, t.ch))

Scanset(t, item) ==
    LET r == InSet(First(t), item, <<>>)
    IN  Keep(IF item.suppress THEN r.t ELSE [r.t EXCEPT !.stored = Append(r.t.stored, r.dest)])

\* c | 0x20, which also turns a line feed into an asterisk.
Lower(c) == CASE c = "LF" -> "*" [] c = "E" -> "e" [] c = "X" -> "x" [] OTHER -> c

\* Bytes of buf that are read and that nobody has written: the one a sign in the
\* exponent is compared with holds an "e", the one at the end an "e" or a sign.
Garbage == [sign: BOOLEAN, end: BOOLEAN]

\* The loop of "%f".
RECURSIVE Floating(_, _, _)
Floating(t, d, garbage) ==
    LET first == Len(d.buf) = 0
        u == IF first \/ d.is_e THEN t ELSE [t EXCEPT !.ch = Lower(t.ch)]
        isDigit == ValueOf(u.ch) < 10
        next(e) == Floating(Get(u), [e EXCEPT !.buf = Append(d.buf, u.ch),
                                              !.maxlen = d.maxlen - 1], garbage)
        stop == [t |-> u, d |-> d]
    IN  IF Len(d.buf) >= BufferSize - 1 \/ d.maxlen = 0 THEN [t |-> t, d |-> d]
        ELSE IF first THEN
            IF u.ch = "." THEN next([d EXCEPT !.decimal = TRUE])
            ELSE IF u.ch \in {"+", "-"} \/ isDigit THEN next(d) ELSE stop
        ELSE IF d.is_e THEN
            IF isDigit \/ (u.ch \in {"+", "-"} /\ garbage.sign) THEN next(d) ELSE stop
        ELSE IF u.ch = "e" THEN next([d EXCEPT !.is_e = TRUE])
        ELSE IF isDigit THEN next([d EXCEPT !.any_digit = TRUE])
        ELSE IF u.ch = "." /\ ~d.decimal THEN next([d EXCEPT !.decimal = TRUE])
        ELSE stop

\* "%e", "%f" and "%g".
Float(t, item, garbage) ==
    LET r == Floating(SkipSpaces(First(t)),
                      [maxlen |-> Limit(item), buf |-> <<>>, any_digit |-> FALSE,
                       decimal |-> FALSE, is_e |-> FALSE], garbage)
    IN  IF (r.d.is_e /\ garbage.end) \/ ~r.d.any_digit THEN Fail(r.t)
        ELSE Keep(Store(r.t, item, r.d.buf))

\* The characters that were used up: "%n".
Used(t) == IF t.keepch # NUL THEN t.num_chars - 1 ELSE t.num_chars

-----------------------------------------------------------------------------
(* The loop over the format. *)

\* doscan takes one more item, the next one of the format, as it is.
TakesNext(item) ==
    /\ result = Pending /\ ~s.error /\ s.ch # EOF
    /\ Len(items) < MaxItems
    /\ items' = Append(items, item)
    /\ UNCHANGED <<input, result>>

ScanSpace(item) ==
    /\ ~skipping /\ item.kind = "space"
    /\ TakesNext(item)
    /\ s' = WhiteSpace(s)
    /\ UNCHANGED <<skipping, told>>

ScanChar(item) ==
    /\ ~skipping /\ item.kind = "char"
    /\ TakesNext(item)
    /\ s' = Match(s, item.c)
    /\ UNCHANGED <<skipping, told>>

ScanNumber(item) ==
    /\ ~skipping /\ IsNumber(item.fmt)
    /\ TakesNext(item)
    /\ s' = Number(s, item)
    /\ UNCHANGED <<skipping, told>>

ScanCharacters(item) ==
    /\ ~skipping /\ item.fmt \in {"c", "s"}
    /\ TakesNext(item)
    /\ s' = Characters(s, item)
    /\ UNCHANGED <<skipping, told>>

ScanFloat(item) ==
    /\ ~skipping /\ item.fmt = "f"
    /\ TakesNext(item)
    /\ \E garbage \in Garbage : s' = Float(s, item, garbage)
    /\ UNCHANGED <<skipping, told>>

\* f is left one character too far.
ScanSet(item) ==
    /\ ~skipping /\ item.fmt = "["
    /\ TakesNext(item)
    /\ s' = Scanset(s, item)
    /\ skipping' = TRUE
    /\ UNCHANGED told

\* "%n" counts as a conversion.
TellPlace(item) ==
    /\ ~skipping /\ item.fmt = "n"
    /\ TakesNext(item)
    /\ s' = Store(s, item, Used(s))
    /\ told' = IF item.suppress THEN told
               ELSE Append(told, [stored |-> Used(s),
                                  used |-> Len(input) - Len(s.rest)
                                             - (IF s.keepch # NUL THEN 1 ELSE 0)])
    /\ UNCHANGED skipping

\* A directive as it stands behind its "%", with a width of one digit.
Spelled(item) ==
    (IF item.suppress THEN <<"*">> ELSE <<>>)
    \o (IF item.maxlen = 0 THEN <<>> ELSE <<CHOOSE c \in DigitsOf[10] : ValueOf(c) = item.maxlen>>)
    \o <<item.fmt>>

\* Behind "%[" the next character is passed over.  When that is the "%" of a directive,
\* what is left of the directive stands for itself.  "%[" once more is left out.
PassOver(item) ==
    /\ skipping /\ item.fmt # "["
    /\ TakesNext(item)
    /\ skipping' = FALSE
    /\ s' = IF item.kind # "directive" THEN s
            ELSE FoldLeft(LAMBDA t, c : IF t.error THEN t ELSE Match(t, c), s, Spelled(item))
    /\ UNCHANGED told

\* A slip: the last character is given back after a failure too.
GivenBack_Always(t) == IF t.ch # EOF /\ t.ch # NUL THEN <<t.ch>> \o t.rest ELSE t.rest

\* What the stream holds after ungetchar_func.
GivenBack(t) == IF t.keepch # NUL THEN <<t.keepch>> \o t.rest ELSE t.rest

\* The format ends, or the scan.  Behind "%[" the NUL is passed over, and
\* more of a format is found in the memory behind it.
Return ==
    /\ result = Pending
    /\ s.ch = EOF \/ s.error \/ ~skipping
    /\ s' = [s EXCEPT !.rest = GivenBack(s)]
    /\ result' = IF s.ch = EOF /\ s.num = 0 THEN -1 ELSE s.num
    /\ UNCHANGED <<input, items, skipping, told>>

Next ==
    \/ \E item \in Items :
          \/ ScanSpace(item) \/ ScanChar(item) \/ ScanNumber(item) \/ ScanCharacters(item)
          \/ ScanFloat(item) \/ ScanSet(item) \/ TellPlace(item) \/ PassOver(item)
    \/ Return

Spec == Init /\ [][Next]_vars

-----------------------------------------------------------------------------
(* What the C standard says of a format, as far as the code follows it.     *)
(* CItem is one item read at the place p, the number of characters in front *)
(* of it: "ok" with the place behind it, "fail", "eof", or "off" for what   *)
(* the code is known to do in its own way.                                  *)

COk(at, values) == [how |-> "ok", at |-> at, values |-> values]
CEnd(how) == [how |-> how, at |-> 0, values |-> <<>>]

Behind(p) == p + Run(input, p, Spaces)
Window(p, item) ==
    SubSeq(input, p + 1, IF item.maxlen = 0 \/ p + item.maxlen > Len(input)
                         THEN Len(input) ELSE p + item.maxlen)

\* A plus; a minus before an unsigned number; "%i" without a prefix; a zero alone
\* or a hexadecimal prefix in an octal number; hexadecimal digits that
\* begin with "0b" when one zero is gone.
OwnNumber(text, k, fmt) ==
    LET zero == At(text, k + 1) = "0"
        x == zero /\ At(text, k + 2) = "x"
        from == IF x THEN k + 2 ELSE k + 1
    IN  \/ At(text, 1) = "+"
        \/ k > 0 /\ IsUnsigned(fmt)
        \/ fmt = "i" /\ ~zero
        \/ /\ zero /\ BaseOf(fmt) # 10
           /\ \/ ValueOf(At(text, from + 1)) >= (IF x \/ BaseOf(fmt) = 16 THEN 16 ELSE 8)
              \/ x /\ fmt = "o"
              \/ At(text, from + 1) = "0" /\ At(text, from + 2) = "b"

CWhole(q, n, negative) ==
    IF n.end = n.from THEN CEnd("fail")
    ELSE COk(q + n.end, <<IF negative THEN -n.value ELSE n.value>>)

CIntegerAt(q, text, k, fmt) ==
    IF OwnNumber(text, k, fmt) THEN CEnd("off")
    ELSE IF q = Len(input) THEN CEnd("eof")
    ELSE CWhole(q, CNumber(text, k, BaseOf(fmt)), k > 0)

CInteger(p, item) ==
    LET q == Behind(p)
        text == Window(q, item)
    IN  CIntegerAt(q, text, CSigned(text), item.fmt)

\* Fewer characters than "%c" asks for.
CChars(p, item) ==
    LET n == IF item.maxlen = 0 THEN 1 ELSE item.maxlen
    IN  IF p = Len(input) THEN CEnd("eof")
        ELSE IF p + n > Len(input) THEN CEnd("off")
        ELSE COk(p + n, <<SubSeq(input, p + 1, p + n)>>)

\* A string behind white space, or with an item behind it that would see the
\* white space behind the string.
CString(p, item, following) ==
    LET text == Window(p, item)
        n == Run(text, 0, ToSet(text) \ Spaces)
    IN  IF p = Len(input) THEN CEnd("eof")
        ELSE IF n = 0 \/ (n < Len(text) /\ following # "space") THEN CEnd("off")
        ELSE COk(p + n, <<SubSeq(text, 1, n)>>)

\* A number of one digit, an exponent, or a line feed behind the number.
CFloat(p, item) ==
    LET q == Behind(p)
        text == Window(q, item)
        n == Run(text, 0, DigitsOf[10] \cup {"."})
        dots == {i \in 1 .. n : text[i] = "."}
    IN  IF q = Len(input) THEN CEnd("eof")
        ELSE IF n = 0 \/ dots \notin {{}} \cup {{i} : i \in 1 .. n}
                \/ 2 .. n \ dots = {} \/ At(input, q + n + 1) \in {"e", "LF"}
             THEN CEnd("off")
        ELSE COk(q + n, <<SubSeq(text, 1, n)>>)

CItem(item, p, following) ==
    IF item.kind = "space" THEN COk(Behind(p), <<>>)
    ELSE IF item.kind = "char"
         THEN IF p = Len(input) THEN CEnd("eof")
              ELSE IF input[p + 1] = item.c THEN COk(p + 1, <<>>) ELSE CEnd("fail")
    ELSE IF IsNumber(item.fmt) THEN CInteger(p, item)
    ELSE IF item.fmt = "c" THEN CChars(p, item)
    ELSE IF item.fmt = "s" THEN CString(p, item, following)
    ELSE IF item.fmt = "f" THEN CFloat(p, item)
    ELSE IF item.fmt = "n" THEN COk(p, <<p>>)
    ELSE CEnd("off")

\* One more item, the i-th, behind those that ended in c.
CStep(c, r, i) ==
    IF r.how # "ok" THEN [c EXCEPT !.how = r.how]
    ELSE [how |-> "ok", at |-> r.at,
          stored |-> c.stored \o (IF items[i].suppress THEN <<>> ELSE r.values)]

CFollowing(i) == IF i < Len(items) THEN items[i + 1].kind ELSE ""

CScan ==
    FoldLeft(LAMBDA c, i : IF c.how # "ok" THEN c
                           ELSE CStep(c, CItem(items[i], c.at, CFollowing(i)), i),
             [how |-> "ok", at |-> 0, stored |-> <<>>],
             [i \in 1 .. Len(items) |-> i])

-----------------------------------------------------------------------------
(* Properties. *)

TypeOK ==
    /\ input \in Texts /\ items \in Seq(Items)
    /\ s.rest \in Seq(STRING) /\ s.ch \in STRING /\ s.keepch \in STRING
    /\ s.num \in Nat /\ s.num_chars \in Nat /\ s.error \in BOOLEAN
    /\ skipping \in BOOLEAN
    /\ result \in Nat \cup {Pending, -1}

\* The character that is kept is the last one read, or its lower case behind a
\* floating point number: doscan never gives back what was not there.
KeptIsLast ==
    result = Pending =>
        /\ IsSuffix(s.rest, input)
        /\ s.keepch # NUL =>
             /\ Len(s.rest) < Len(input)
             /\ LET last == input[Len(input) - Len(s.rest)]
                IN  s.keepch \in {last, Lower(last)}

\* "%n" tells how much of the stream was used up, whatever was read ahead.
PlacesTold == \A i \in 1 .. Len(told) : told[i].stored = told[i].used

\* The scanner keeps its place in the stream.
KeepsPlace == TypeOK /\ KeptIsLast /\ PlacesTold

AgreesWith(c) ==
    c.how # "off" =>
      /\ s.stored = c.stored
      /\ IF result = -1 THEN c.stored = <<>> /\ s.ch = EOF ELSE result = Len(c.stored)
      /\ c.how = "eof" /\ c.stored = <<>> => result = -1
      /\ c.how = "ok" => s.rest = SubSeq(input, c.at + 1, Len(input))

\* Where the code follows the C standard, doscan stores the values it asks for,
\* returns their number, and leaves the stream behind the last of them when
\* there was one for every directive.  It says EOF, where the standard says 0, when
\* nothing was stored and it has met the end of the stream.  It keeps its place in the
\* stream at every item: what it has read ahead is counted by no "%n" and read once.
ReadsLikeC == KeepsPlace /\ (result # Pending => AgreesWith(CScan))
=============================================================================
