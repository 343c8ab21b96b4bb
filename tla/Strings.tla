------------------------------- MODULE Strings -------------------------------
(***************************************************************************)
(* The functions on strings and on areas of memory.  Each is a loop or two  *)
(* over the bytes of its arguments; here: what the loops leave in the first *)
(* argument, what is returned, and how many bytes of the argument that may  *)
(* be bounded are looked at.                                                *)
(*                                                                         *)
(* An area is a function from 0 .. its size - 1 to bytes, a pointer into it *)
(* an offset.  The promise for each function is stated with sequences,      *)
(* without loops and terminators.                                           *)
(***************************************************************************)
EXTENDS Characters

CONSTANTS
    Alphabets,  \* sets of bytes, of each of which texts are made
    TextLength, \* the length of the longest text
    PathBytes,  \* the bytes of paths, for basename and dirname
    PathLength, \* the length of the longest path
    Bounds,     \* for the functions that take a number of bytes (size_t)
    LongMax,    \* the largest of them that a long can hold
    Room,       \* the size of an area that is written to
    Junk        \* what lies behind the end of a string

\* No string fills the memory: a long holds the length of each.
ASSUME StringsAssumption ==
    /\ \A bytes \in Alphabets \cup {PathBytes} : bytes \subseteq 1 .. 255
    /\ TextLength \in Nat /\ PathLength \in Nat
    /\ Room \in Nat \ {0} /\ 2 * TextLength < Room
    /\ Bounds \subseteq 0 .. Room
    /\ LongMax \in Nat /\ TextLength <= LongMax
    /\ Junk \in 1 .. 255

\* Sequences of bytes, none of them NUL.
UpTo(bytes, n) == UNION {[1 .. k -> bytes] : k \in 0 .. n}
Texts == UNION {UpTo(bytes, TextLength) : bytes \in Alphabets}
Paths == UpTo(PathBytes, PathLength)

VARIABLES
    call,       \* what is called: f, the texts s and t, n
    got         \* what came of it: ret, mem, seen

strings == <<call, got>>

\* The area that holds a text, and as many bytes behind it.
Area(text, size) ==
    [i \in 0 .. size - 1 |-> IF i < Len(text) THEN text[i + 1] ELSE IF i = Len(text) THEN NUL ELSE Junk]

Before(s, c, n) == {i \in DOMAIN s : i < n /\ s[i] = c}

\* How many bytes a loop takes that stops behind the first c, or after n bytes.
Scan(s, c, n) == LET hits == Before(s, c, n) IN IF hits = {} THEN n ELSE Min(hits) + 1

strlen(s) == Min({i \in DOMAIN s : s[i] = NUL})

Copy(d, at, t, k) ==
    [i \in DOMAIN d \cup at .. at + k - 1 |-> IF i \in at .. at + k - 1 THEN t[i - at] ELSE d[i]]
Fill(d, at, k, c) ==
    [i \in DOMAIN d \cup at .. at + k - 1 |-> IF i \in at .. at + k - 1 THEN c ELSE d[i]]

Gives(ret, mem, seen) == [ret |-> ret, mem |-> mem, seen |-> seen]

-----------------------------------------------------------------------------
(***************************************************************************)
(* Copies.  d and t do not overlap.                                         *)
(***************************************************************************)

strcpy(d, t) == Gives(0, Copy(d, 0, t, strlen(t) + 1), 0)
stpcpy(d, t) == Gives(strlen(t), Copy(d, 0, t, strlen(t) + 1), 0)
strcat(d, t) == Gives(0, Copy(d, strlen(d), t, strlen(t) + 1), 0)

\* How often a loop with a count that is a long goes round for a bound: a bound that
\* is too big for it is less than none.
Count(n) == IF n > LongMax THEN 0 ELSE n

strncpy(d, t, n) ==
    LET k == Scan(t, NUL, Count(n)) IN Gives(0, Fill(Copy(d, 0, t, k), k, Count(n) - k, NUL), k)

stpncpy(d, t, n) ==
    LET k == Scan(t, NUL, n)
    IN  Gives(IF Before(t, NUL, n) = {} THEN n ELSE k - 1, Fill(Copy(d, 0, t, k), k, n - k, NUL), k)

strncat(d, t, n) ==
    LET k == Scan(t, NUL, n)
        copied == IF Before(t, NUL, n) = {} THEN n ELSE k - 1
    IN  Gives(0, Fill(Copy(d, strlen(d), t, copied), strlen(d) + copied, 1, NUL), k)

strlcpy(d, t, siz) ==
    LET n == IF siz = 0 THEN 0 ELSE siz - 1
        k == Scan(t, NUL, n)
    IN  IF Before(t, NUL, n) # {} THEN Gives(k - 1, Copy(d, 0, t, k), 0)
        ELSE Gives(strlen(t), Fill(Copy(d, 0, t, k), k, IF siz = 0 THEN 0 ELSE 1, NUL), 0)

strlcat(d, t, siz) ==
    LET dlen == IF Before(d, NUL, siz) = {} THEN siz ELSE strlen(d)
        copied == Min({strlen(t), siz - dlen - 1})
    IN  IF siz = dlen THEN Gives(dlen + strlen(t), d, 0)
        ELSE Gives(dlen + strlen(t), Fill(Copy(d, dlen, t, copied), dlen + copied, 1, NUL), 0)

strxfrm(d, t, n) ==
    Gives(strlen(t), IF n > strlen(t) THEN strcpy(d, t).mem ELSE d, 0)

memccpy(d, t, c, n) ==
    LET k == Scan(t, c, n)
    IN  Gives(IF Before(t, c, n) = {} THEN Nowhere ELSE k, Copy(d, 0, t, k), k)
mempcpy(d, t, n) == Gives(n, Copy(d, 0, t, n), n)

\* malloc gives just what strdup and strndup ask for, or nothing.
NewArea(size) == Area(<<>>, size)
NoArea == Gives(Nowhere, <<>>, 0)
strdup(t) == Gives(0, strcpy(NewArea(strlen(t) + 1), t).mem, 0)

\* strndup looks for the end of t, wherever it is.
strndup(t, n) ==
    LET length == Min({strlen(t), n})
    IN  Gives(0, Copy(Fill(NewArea(length + 1), length, 1, NUL), 0, t, length), strlen(t) + 1)

\* strlwr and strupr hand on an unsigned char.
Map(s, case) == [i \in DOMAIN s |-> IF i < strlen(s) THEN case[s[i]] ELSE s[i]]
LowerCase == [b \in 0 .. 255 |-> tolower(b)]
UpperCase == [b \in 0 .. 255 |-> toupper(b)]
strlwr(s) == Gives(0, Map(s, LowerCase), 0)
strupr(s) == Gives(0, Map(s, UpperCase), 0)

\* p runs up from the front and q down from the end, until q is not behind p.
strrev(s) ==
    LET n == strlen(s)
        swapped == {p \in 0 .. n - 1 : n - 1 - p > p}
    IN  Gives(0, [i \in DOMAIN s |->
                    IF i \in swapped \/ (n - 1 - i) \in swapped THEN s[n - 1 - i] ELSE s[i]], 0)

-----------------------------------------------------------------------------
(***************************************************************************)
(* Searches: an offset, Nowhere, or a number.                               *)
(***************************************************************************)

Answer(ret) == Gives(ret, <<>>, 0)
FirstOf(hits) == IF hits = {} THEN Nowhere ELSE Min(hits)
LastOf(hits) == IF hits = {} THEN Nowhere ELSE Max(hits)

strchr(s, c) == Answer(FirstOf(Before(s, c, strlen(s) + 1)))
strrchr(s, c) == Answer(LastOf(Before(s, c, strlen(s) + 1)))
memchr(s, c, n) == Gives(FirstOf(Before(s, c, n)), <<>>, Scan(s, c, n))
memrchr(s, c, n) == Gives(LastOf(Before(s, c, n)), <<>>, n)
strnlen(s, max) ==
    Gives(IF memchr(s, NUL, max).ret = Nowhere THEN max ELSE memchr(s, NUL, max).ret, <<>>,
          memchr(s, NUL, max).seen)

\* The bytes of a string, and where one of them, or none of them, is in s.
Within(t) == {t[i] : i \in 0 .. strlen(t) - 1}
strspn(s, accept) == Answer(Min({i \in 0 .. strlen(s) : i = strlen(s) \/ s[i] \notin Within(accept)}))
strcspn(s, reject) == Answer(Min({i \in 0 .. strlen(s) : i = strlen(s) \/ s[i] \in Within(reject)}))
strpbrk(s, breakat) == Answer(FirstOf({i \in 0 .. strlen(s) - 1 : s[i] \in Within(breakat)}))

Signed(b) == IF b < 128 THEN b ELSE b - 256

\* The place where a comparison stops: at a difference or at the end.
StopAt(s, t) == Min({i \in DOMAIN s \cap DOMAIN t : s[i] = NUL \/ s[i] # t[i]})

strcmp(s, t) == Answer(s[StopAt(s, t)] - t[StopAt(s, t)])
strcoll(s, t) == strcmp(s, t)

\* A slip: the count is looked at when the bytes have been.
strncmp_Late(s, t, n) ==
    LET i == Min({StopAt(s, t), Count(n)})
    IN  Gives(IF s[i] = t[i] THEN 0
              ELSE IF s[i] = NUL THEN -1 ELSE IF t[i] = NUL THEN 1 ELSE s[i] - t[i], <<>>, i + 1)

\* strncmp fetches the next two bytes before it looks whether there are any.
strncmp(s, t, n) ==
    LET i == Min({StopAt(s, t), Count(n)})
    IN  Gives(IF i = Count(n) \/ s[i] = t[i] THEN 0
              ELSE IF s[i] = NUL THEN -1 ELSE IF t[i] = NUL THEN 1 ELSE s[i] - t[i], <<>>, i + 1)

memcmp(s, t, n) ==
    LET differ == {i \in DOMAIN s \cap DOMAIN t : i < n /\ s[i] # t[i]}
    IN  Gives(IF differ = {} THEN 0 ELSE s[Min(differ)] - t[Min(differ)], <<>>,
              IF differ = {} THEN n ELSE Min(differ) + 1)

\* Like strcmp with the upper case of an unsigned char.
stricmp(s, t) == strcmp(Map(s, UpperCase), Map(t, UpperCase))

\* toupper gets a char with its sign here, so what is above 7F comes before the rest.
SignedUpper(b) == toupper(Signed(b))
strnicmp(s, t, n) ==
    LET stops == {i \in DOMAIN s \cap DOMAIN t :
                    i < n /\ (t[i] = NUL \/ SignedUpper(s[i]) # SignedUpper(t[i]))}
    IN  Gives(IF stops = {} THEN 0 ELSE SignedUpper(s[Min(stops)]) - SignedUpper(t[Min(stops)]),
              <<>>, IF stops = {} THEN n ELSE Min(stops) + 1)

From(s, k) == [i \in {j - k : j \in {x \in DOMAIN s : x >= k}} |-> s[i + k]]

\* The loop over the places stops at the NUL, where the first character is another.
strstr(s, wanted) ==
    IF wanted[0] = NUL THEN Answer(0)
    ELSE Answer(FirstOf({k \in 0 .. strlen(s) - 1 :
                           s[k] = wanted[0] /\ strncmp(From(s, k), wanted, strlen(wanted)).ret = 0}))
strcasestr(s, wanted) ==
    IF wanted[0] = NUL THEN Answer(0)
    ELSE Answer(FirstOf({k \in 0 .. strlen(s) - 1 :
                           /\ SignedUpper(s[k]) = SignedUpper(wanted[0])
                           /\ strnicmp(From(s, k), wanted, strlen(wanted)).ret = 0}))

-----------------------------------------------------------------------------
(***************************************************************************)
(* Paths, with both kinds of slashes.                                       *)
(***************************************************************************)

Slash == 47
Backslash == 92
Colon == 58
IsSlash(b) == b \in {Slash, Backslash}
LastSlash(s, k) == LastOf({i \in 0 .. k - 1 : IsSlash(s[i])})

basename(s) ==
    IF LastSlash(s, strlen(s)) = Nowhere THEN 0 ELSE LastSlash(s, strlen(s)) + 1

\* Where the slashes begin that end before k.
RunStart(s, k) == Min({r \in 0 .. k : \A i \in r .. k - 1 : IsSlash(s[i])})

IsDrive(s) ==
    s[1] = Colon /\ s[2] = NUL /\ (isupper(s[0]) \/ islower(s[0]) \/ isdigit(s[0]))

\* The slash in front of the last name; slashes at the end do not count.
LastComponent(s) ==
    LET last == LastSlash(s, strlen(s))
        run  == RunStart(s, last)
    IN  IF last = Nowhere THEN Nowhere
        ELSE IF last = 0 THEN 1
        ELSE IF s[last + 1] = NUL /\ run # 0 THEN LastSlash(s, run)
        ELSE last

\* dirname cuts the path, or returns a string of its own: here, the text it returns.
dirname(s) ==
    LET last == LastComponent(s)
        run  == RunStart(s, last)
        cut  == IF run # 0 THEN run ELSE IF last = 1 /\ s[0] = s[1] THEN 2 ELSE 1
        all  == [i \in 1 .. strlen(s) |-> s[i - 1]]
    IN  IF IsDrive(s) THEN all
        ELSE IF last = Nowhere THEN <<46>>
        ELSE SubSeq(all, 1, cut)

-----------------------------------------------------------------------------

Room3(text) == Area(text, Len(text) + 3)
Exact(text) == Area(text, Len(text) + 1)

NoCall == [f |-> "none", s |-> <<>>, t |-> <<>>, n |-> 0]
Called(f, s, t, n) == call' = [f |-> f, s |-> s, t |-> t, n |-> n]

\* Each call goes to all functions that take the same arguments.
OnTwo(s, t) ==
    /\ Called("two", s, t, 0)
    /\ LET d == Area(s, Room)
           a == Exact(s)
           b == Exact(t)
       IN  got' = [strcpy |-> strcpy(d, b), stpcpy |-> stpcpy(d, b), strcat |-> strcat(d, b),
                   strcmp |-> strcmp(a, b), strcoll |-> strcoll(a, b), stricmp |-> stricmp(a, b),
                   strstr |-> strstr(a, b), strcasestr |-> strcasestr(a, b),
                   strspn |-> strspn(a, b), strcspn |-> strcspn(a, b), strpbrk |-> strpbrk(a, b)]

OnTwoBounded(s, t, n) ==
    /\ Called("bounded", s, t, n)
    /\ LET d == Area(s, Room)
           b == Area(t, Room)
       IN  got' = [strncpy |-> strncpy(d, b, n), stpncpy |-> stpncpy(d, b, n),
                   strncat |-> strncat(d, b, n), strlcpy |-> strlcpy(d, b, n),
                   strlcat |-> strlcat(d, b, n), strxfrm |-> strxfrm(d, b, n),
                   mempcpy |-> mempcpy(d, b, n), memcmp |-> memcmp(d, b, n),
                   strncmp |-> strncmp(d, b, n), strnicmp |-> strnicmp(d, b, n)]

OnOne(s, c, n) ==
    /\ Called("one", s, <<c>>, n)
    /\ LET a == Area(s, Room)
       IN  got' = [strchr |-> strchr(a, c), strrchr |-> strrchr(a, c), memchr |-> memchr(a, c, n),
                   memrchr |-> memrchr(a, c, n), strnlen |-> strnlen(a, n),
                   memccpy |-> memccpy(Area(<<>>, Room), a, c, n),
                   strlwr |-> strlwr(a), strupr |-> strupr(a), strrev |-> strrev(a)]

\* malloc may fail.
Duplicate(s, n) ==
    /\ Called("duplicate", s, <<>>, n)
    /\ got' \in {[strdup |-> strdup(Exact(s)), strndup |-> strndup(Exact(s), n)],
                 [strdup |-> NoArea, strndup |-> NoArea]}

OnPath(s) ==
    /\ Called("path", s, <<>>, 0)
    /\ got' = [basename |-> basename(Room3(s)), dirname |-> dirname(Room3(s))]

OnError(e, bufsize) ==
    /\ Called("error", <<>>, <<e>>, bufsize)
    /\ got' = [strerror |-> strerror(e), strerror_r |-> strerror_r(e, bufsize),
               perror |-> perror(<<>>, e)]

StringsInit == call = NoCall /\ got = [none |-> 0]

StringsNext ==
    /\ call = NoCall
    /\ \/ \E s, t \in Texts : OnTwo(s, t)
       \/ \E s, t \in Texts, n \in Bounds : OnTwoBounded(s, t, n)
       \/ \E s \in Texts, t \in Texts, n \in Bounds : Len(t) = 1 /\ OnOne(s, t[1], n)
       \/ \E s \in Texts, n \in Bounds : OnOne(s, NUL, n)
       \/ \E s \in Texts, n \in Bounds : Duplicate(s, n)
       \/ \E s \in Paths : OnPath(s)
       \/ \E e \in Numbers, n \in Sizes : OnError(e, n)

StringsSpec == StringsInit /\ [][StringsNext]_strings

-----------------------------------------------------------------------------
(***************************************************************************)
(* What the functions promise, on the texts.                                *)
(***************************************************************************)

Take(text, n) == SubSeq(text, 1, Min({n, Len(text)}))
Ended(text) == Append(text, NUL)
Padded(text, n) == [i \in 1 .. n |-> IF i <= Len(text) THEN text[i] ELSE NUL]

\* The area holds bytes from its start on, and behind them what it held before.
Holds(r, bytes, before) ==
    /\ DOMAIN r.mem = DOMAIN before
    /\ \A i \in DOMAIN before : r.mem[i] = IF i < Len(bytes) THEN bytes[i + 1] ELSE before[i]

Sign(k) == IF k < 0 THEN -1 ELSE IF k > 0 THEN 1 ELSE 0

\* Which of two sequences of bytes comes first in the dictionary.
Order(x, y) ==
    IF x = y THEN 0
    ELSE LET differ == {i \in DOMAIN x \cap DOMAIN y : x[i] # y[i]}
         IN  IF differ = {} THEN Sign(Len(x) - Len(y)) ELSE Sign(x[Min(differ)] - y[Min(differ)])

Folded(text) == [i \in DOMAIN text |-> UpperCase[text[i]]]
Occurs(w, text, k) == k + Len(w) <= Len(text) /\ SubSeq(text, k + 1, k + Len(w)) = w
FoundAt(k, w, text) ==
    IF \E j \in 0 .. Len(text) : Occurs(w, text, j)
    THEN k = Min({j \in 0 .. Len(text) : Occurs(w, text, j)}) ELSE k = Nowhere
Span(text, set) == Min({Len(text)} \cup {i - 1 : i \in {j \in DOMAIN text : text[j] \notin set}})

RangeOf(text) == {text[i] : i \in DOMAIN text}

TwoLikeC(s, t) ==
    LET d == Area(s, Room) IN
    /\ Holds(got.strcpy, Ended(t), d) /\ got.strcpy.ret = 0
    /\ Holds(got.stpcpy, Ended(t), d) /\ got.stpcpy.ret = Len(t)
    /\ Holds(got.strcat, Ended(s \o t), d)
    /\ Sign(got.strcmp.ret) = Order(s, t) /\ got.strcoll = got.strcmp
    /\ Sign(got.stricmp.ret) = Order(Folded(s), Folded(t))
    /\ FoundAt(got.strstr.ret, t, s)
    /\ FoundAt(got.strcasestr.ret, Folded(t), Folded(s))
    /\ got.strspn.ret = Span(s, RangeOf(t))
    /\ got.strcspn.ret = Span(s, 1 .. 255 \ RangeOf(t))
    /\ got.strpbrk.ret = (IF got.strcspn.ret = Len(s) THEN Nowhere ELSE got.strcspn.ret)

\* The bytes of an area up to n.
Bytes(text, n) == [i \in 1 .. n |-> Area(text, Room)[i - 1]]

BoundedLikeC(s, t, n) ==
    LET d == Area(s, Room) IN
    /\ n <= LongMax => Holds(got.strncpy, Padded(t, n), d)
    /\ n > LongMax => Holds(got.strncpy, <<>>, d)
    /\ Holds(got.stpncpy, Padded(t, n), d) /\ got.stpncpy.ret = Min({n, Len(t)})
    /\ Holds(got.strncat, Ended(s \o Take(t, n)), d)
    /\ Holds(got.strlcpy, IF n = 0 THEN <<>> ELSE Ended(Take(t, n - 1)), d)
    /\ got.strlcpy.ret = Len(t)
    /\ Holds(got.strlcat, IF n <= Len(s) THEN <<>> ELSE Ended(Take(s \o t, n - 1)), d)
    /\ got.strlcat.ret = Len(t) + Min({n, Len(s)})
    /\ Holds(got.strxfrm, IF Len(t) < n THEN Ended(t) ELSE <<>>, d) /\ got.strxfrm.ret = Len(t)
    /\ Holds(got.mempcpy, Bytes(t, n), d) /\ got.mempcpy.ret = n
    /\ Sign(got.memcmp.ret) = Order(Bytes(s, n), Bytes(t, n))
    /\ n <= LongMax => Sign(got.strncmp.ret) = Order(Take(s, n), Take(t, n))
    /\ n > LongMax => got.strncmp.ret = 0
    /\ (got.strnicmp.ret = 0) = (Folded(Take(s, n)) = Folded(Take(t, n)))
    /\ (\A i \in DOMAIN s : s[i] < 128) /\ (\A i \in DOMAIN t : t[i] < 128)
         => Sign(got.strnicmp.ret) = Order(Folded(Take(s, n)), Folded(Take(t, n)))
    /\ \A r \in {got.strncpy, got.stpncpy, got.strncat, got.memcmp, got.strnicmp} : r.seen <= n
    /\ got.strncmp.seen <= n + 1

OneLikeC(s, c, n) ==
    LET a == Area(s, Room)
        wanted(bytes) == {i - 1 : i \in {j \in DOMAIN bytes : bytes[j] = c}}
    IN
    /\ got.strchr.ret = FirstOf(wanted(Ended(s)))
    /\ got.strrchr.ret = LastOf(wanted(Ended(s)))
    /\ got.memchr.ret = FirstOf(wanted(Bytes(s, n)))
    /\ got.memrchr.ret = LastOf(wanted(Bytes(s, n)))
    /\ got.strnlen.ret = Min({n, Len(s)})
    /\ LET k == FirstOf(wanted(Bytes(s, n)))
       IN  /\ got.memccpy.ret = (IF k = Nowhere THEN Nowhere ELSE k + 1)
           /\ Holds(got.memccpy, Bytes(s, IF k = Nowhere THEN n ELSE k + 1), Area(<<>>, Room))
    /\ Holds(got.strlwr, [i \in DOMAIN s |-> tolower(s[i])], a)
    /\ Holds(got.strupr, Folded(s), a)
    /\ Holds(got.strrev, [i \in DOMAIN s |-> s[Len(s) + 1 - i]], a)
    /\ \A r \in {got.memchr, got.memrchr, got.strnlen, got.memccpy} : r.seen <= n

DuplicateLikeC(s, n) ==
    got.strdup.ret # Nowhere =>
        /\ Holds(got.strdup, Ended(s), Area(<<>>, Len(s) + 1))
        /\ Holds(got.strndup, Ended(Take(s, n)), Area(<<>>, Min({Len(s), n}) + 1))
        /\ got.strndup.seen = Len(s) + 1

\* Without the slashes at the end; all of them may be slashes.
Stripped(text) == Take(text, LastOf({0} \cup {i \in DOMAIN text : ~IsSlash(text[i])}))
UpToSlash(text) == Take(text, LastOf({0} \cup {i \in DOMAIN text : IsSlash(text[i])}))
RootOf(text) == IF Len(text) = 2 /\ text[1] = text[2] THEN text ELSE Take(text, 1)
Parent(text) ==
    LET above == UpToSlash(Stripped(text))
    IN  IF text = <<>> THEN <<46>>
        ELSE IF Stripped(text) = <<>> THEN RootOf(text)
        ELSE IF above = <<>> THEN <<46>>
        ELSE IF Stripped(above) = <<>> THEN RootOf(above) ELSE Stripped(above)

PathLikeC(s) ==
    /\ SubSeq(s, got.basename + 1, Len(s)) = SubSeq(s, Len(UpToSlash(s)) + 1, Len(s))
    /\ got.dirname = IF IsDrive(Room3(s)) THEN s ELSE Parent(s)

\* Every function leaves the text, and returns the value, that the C standard (and for
\* the others, the comment in the source) says; but with a bound that no long holds
\* strncpy writes nothing, and strncmp finds no difference.  Each writes no byte outside
\* what it is given.  One that is given a bound looks at no byte behind it; but strncmp
\* looks at one, and strndup reads its argument to the NUL whatever the bound.
StringsLikeC ==
    /\ call.f = "two" => TwoLikeC(call.s, call.t)
    /\ call.f = "bounded" => BoundedLikeC(call.s, call.t, call.n)
    /\ call.f = "one" => OneLikeC(call.s, call.t[1], call.n)
    /\ call.f = "duplicate" => DuplicateLikeC(call.s, call.n)
    /\ call.f = "path" => PathLikeC(call.s)

\* The classes of all characters, and the texts of all error numbers.
TablesTell ==
    /\ call = NoCall => \A c \in Chars : ClassesAgree(c) /\ CasesAgree(c)
    /\ call.f = "error" => ErrorTold(call.t[1], call.n)
=============================================================================
