---------------------------- MODULE StdioProofs ----------------------------
(***************************************************************************)
(* Proofs about TextInput and TextOutput, for any number of streams, files  *)
(* and texts of any length and buffers of any size.                         *)
(***************************************************************************)
EXTENDS Stdio, Induction

\* What a stream in state st on a file with this text has yet to give.
AheadOf(text, st) ==
    (IF st.pushback = EOF THEN <<>> ELSE <<st.pushback>>)
       \o SubSeq(text, st.pos + 1, Len(text))

Readers == [pos : Nat, pushback : Chars \cup {EOF}, eof : BOOLEAN, error : BOOLEAN]

\* st lies in the text, and its end-of-file flag does not lie.
Placed(text, st) ==
    /\ st \in Readers
    /\ st.pos <= Len(text)
    /\ st.eof => AheadOf(text, st) = <<>>

LEMMA CharsApart ==
    /\ EOF \notin Chars /\ "0" \notin Chars \cup {EOF}
    /\ LF \in Chars /\ CR \in Chars /\ LF # CR
BY DEF Chars, EOF, LF, CR

\* The part of a text from a place to its end.
LEMMA RestOfText ==
    ASSUME NEW text \in Seq(Chars), NEW at \in Nat, at <= Len(text)
    PROVE  LET r == SubSeq(text, at + 1, Len(text)) IN
           /\ r \in Seq(Chars) /\ Len(r) = Len(text) - at
           /\ \A i \in 1 .. Len(text) - at : r[i] = text[at + i]
  OBVIOUS

LEMMA AheadTyped ==
    ASSUME NEW text \in Seq(Chars), NEW st \in Readers, st.pos <= Len(text)
    PROVE  AheadOf(text, st) \in Seq(Chars)
<1>1. SubSeq(text, st.pos + 1, Len(text)) \in Seq(Chars)
  BY RestOfText DEF Readers
<1>2. (IF st.pushback = EOF THEN <<>> ELSE <<st.pushback>>) \in Seq(Chars)
  <2>1. CASE st.pushback = EOF
    BY <2>1
  <2>2. CASE st.pushback # EOF
    <3>1. st.pushback \in Chars
      BY <2>2 DEF Readers
    <3> QED BY <3>1, <2>2
  <2> QED BY <2>1, <2>2
<1> QED BY <1>1, <1>2 DEF AheadOf

\* A pushed back character comes first; without one the file's next does.
LEMMA AheadPushed ==
    ASSUME NEW text \in Seq(Chars), NEW st \in Readers, st.pos <= Len(text),
           st.pushback # EOF, NEW g \in Readers, g.pos = st.pos, g.pushback = EOF
    PROVE  AheadOf(text, st) = <<st.pushback>> \o AheadOf(text, g)
<1> DEFINE r == SubSeq(text, st.pos + 1, Len(text))
<1>1. r \in Seq(Chars)
  BY RestOfText DEF Readers
<1>2. AheadOf(text, st) = <<st.pushback>> \o r
  BY DEF AheadOf
<1>3. AheadOf(text, g) = <<>> \o r
  BY DEF AheadOf
<1> HIDE DEF r
<1>4. <<>> \o r = r
  BY <1>1, EmptyJoin
<1> QED BY <1>2, <1>3, <1>4

LEMMA AheadFile ==
    ASSUME NEW text \in Seq(Chars), NEW st \in Readers, st.pos <= Len(text),
           st.pushback = EOF
    PROVE  AheadOf(text, st) = SubSeq(text, st.pos + 1, Len(text))
<1> DEFINE r == SubSeq(text, st.pos + 1, Len(text))
<1>1. r \in Seq(Chars)
  BY RestOfText DEF Readers
<1>2. AheadOf(text, st) = <<>> \o r
  BY DEF AheadOf
<1> HIDE DEF r
<1>3. <<>> \o r = r
  BY <1>1, EmptyJoin
<1>4. AheadOf(text, st) = r
  BY <1>2, <1>3
<1> QED BY <1>4 DEF r

\* What is ahead is empty only at the end, with nothing pushed back.
LEMMA AheadEmpty ==
    ASSUME NEW text \in Seq(Chars), NEW st \in Readers, st.pos <= Len(text)
    PROVE  AheadOf(text, st) = <<>> <=> st.pushback = EOF /\ st.pos = Len(text)
<1> DEFINE r == SubSeq(text, st.pos + 1, Len(text))
<1>1. r \in Seq(Chars) /\ Len(r) = Len(text) - st.pos /\ st.pos \in Nat /\ Len(text) \in Nat
  BY RestOfText DEF Readers
<1>2. CASE st.pushback = EOF
  <2>1. AheadOf(text, st) = r
    BY <1>2, AheadFile
  <2> HIDE DEF r
  <2>2. r = <<>> <=> Len(r) = 0
    BY <1>1
  <2> QED BY <1>1, <1>2, <2>1, <2>2
<1>3. CASE st.pushback # EOF
  <2>1. AheadOf(text, st) = <<st.pushback>> \o r
    BY <1>3 DEF AheadOf
  <2>2. st.pushback \in Chars
    BY <1>3 DEF Readers
  <2> HIDE DEF r
  <2>3. Len(<<st.pushback>> \o r) = 1 + Len(r)
    BY <1>1, <2>2
  <2>4. <<st.pushback>> \o r # <<>>
    BY <1>1, <2>3
  <2> QED BY <1>3, <2>1, <2>4
<1> QED BY <1>2, <1>3

\* fgetc gives the first character of what is ahead, and EOF only when nothing is, or
\* when GEMDOS broken; then it leaves the error flag.
LEMMA GetFromReads ==
    ASSUME NEW text \in Seq(Chars), NEW st, Placed(text, st), NEW fails \in BOOLEAN
    PROVE  LET g == GetFrom(text, st, fails) IN
           /\ g.c \in Chars \cup {EOF}
           /\ Placed(text, g.st)
           /\ g.c # EOF => /\ AheadOf(text, st) = <<g.c>> \o AheadOf(text, g.st)
                           /\ g.st.error = st.error
           /\ g.c = EOF => /\ AheadOf(text, g.st) = AheadOf(text, st)
                           /\ g.st.error \/ AheadOf(text, g.st) = <<>>
<1> DEFINE g == GetFrom(text, st, fails)
<1>1. /\ st \in Readers /\ st.pos <= Len(text) /\ st.pos \in Nat /\ Len(text) \in Nat
      /\ st.eof => AheadOf(text, st) = <<>>
      /\ st.eof \in BOOLEAN /\ st.error \in BOOLEAN /\ st.pushback \in Chars \cup {EOF}
  BY DEF Placed, Readers
<1> SUFFICES /\ g.c \in Chars \cup {EOF}
             /\ Placed(text, g.st)
             /\ g.c # EOF => /\ AheadOf(text, st) = <<g.c>> \o AheadOf(text, g.st)
                             /\ g.st.error = st.error
             /\ g.c = EOF => /\ AheadOf(text, g.st) = AheadOf(text, st)
                             /\ g.st.error \/ AheadOf(text, g.st) = <<>>
  OBVIOUS
<1>2. CASE st.pushback # EOF
  <2>1. g.c = st.pushback /\ g.st = [st EXCEPT !.pushback = EOF]
    BY <1>2 DEF GetFrom
  <2>2. g.st \in Readers /\ g.st.pos = st.pos /\ g.st.pushback = EOF
        /\ g.st.eof = st.eof /\ g.st.error = st.error
    BY <1>1, <2>1 DEF Readers
  <2>3. ~st.eof
    BY <1>1, <1>2, AheadEmpty
  <2> HIDE DEF g
  <2>4. AheadOf(text, st) = <<st.pushback>> \o AheadOf(text, g.st)
    BY <1>1, <1>2, <2>2, AheadPushed
  <2>5. Placed(text, g.st)
    BY <1>1, <2>2, <2>3 DEF Placed
  <2> QED BY <1>1, <1>2, <2>1, <2>2, <2>4, <2>5
<1>3. CASE st.pushback = EOF /\ fails
  <2>1. g.c = EOF /\ g.st = [st EXCEPT !.error = TRUE]
    BY <1>3 DEF GetFrom
  <2>2. g.st \in Readers /\ g.st.pos = st.pos /\ g.st.pushback = st.pushback
        /\ g.st.eof = st.eof /\ g.st.error = TRUE
    BY <1>1, <2>1 DEF Readers
  <2>3. AheadOf(text, g.st) = AheadOf(text, st)
    BY <2>2 DEF AheadOf
  <2> HIDE DEF g
  <2>4. Placed(text, g.st)
    BY <1>1, <2>2, <2>3 DEF Placed
  <2> QED BY <2>1, <2>2, <2>3, <2>4
<1>4. CASE st.pushback = EOF /\ ~fails /\ st.pos < Len(text)
  <2>1. g.c = text[st.pos + 1] /\ g.st = [st EXCEPT !.pos = @ + 1]
    BY <1>4 DEF GetFrom
  <2>2. g.st \in Readers /\ g.st.pos = st.pos + 1 /\ g.st.pushback = EOF
        /\ g.st.eof = st.eof /\ g.st.error = st.error
    BY <1>1, <1>4, <2>1 DEF Readers
  <2>3. ~st.eof
    <3>1. st.pos # Len(text)
      BY <1>1, <1>4
    <3> QED BY <3>1, <1>1, AheadEmpty
  <2>4. st.pos + 1 \in 1 .. Len(text) /\ st.pos + 1 <= Len(text)
    BY <1>1, <1>4
  <2>5. g.c \in Chars /\ g.c # EOF
    BY <2>1, <2>4, CharsApart
  <2> HIDE DEF g
  <2>6. AheadOf(text, st) = SubSeq(text, st.pos + 1, Len(text))
    BY <1>1, <1>4, AheadFile
  <2>7. AheadOf(text, g.st) = SubSeq(text, (st.pos + 1) + 1, Len(text))
    BY <2>2, <2>4, AheadFile
  <2>8. SubSeq(text, st.pos + 1, Len(text))
          = <<text[st.pos + 1]>> \o SubSeq(text, (st.pos + 1) + 1, Len(text))
    BY <2>4, PartStarts
  <2>9. Placed(text, g.st)
    BY <2>2, <2>3, <2>4 DEF Placed
  <2> QED BY <2>1, <2>2, <2>5, <2>6, <2>7, <2>8, <2>9
<1>5. CASE st.pushback = EOF /\ ~fails /\ ~(st.pos < Len(text))
  <2>1. g.c = EOF /\ g.st = [st EXCEPT !.eof = TRUE]
    BY <1>5 DEF GetFrom
  <2>2. g.st \in Readers /\ g.st.pos = st.pos /\ g.st.pushback = st.pushback
        /\ g.st.eof = TRUE /\ g.st.error = st.error
    BY <1>1, <2>1 DEF Readers
  <2>3. AheadOf(text, g.st) = AheadOf(text, st)
    BY <2>2 DEF AheadOf
  <2>4. st.pos = Len(text)
    BY <1>1, <1>5
  <2> HIDE DEF g
  <2>5. AheadOf(text, st) = <<>>
    BY <1>1, <1>5, <2>4, AheadEmpty
  <2>6. Placed(text, g.st)
    BY <1>1, <2>2, <2>3, <2>5 DEF Placed
  <2> QED BY <2>1, <2>2, <2>3, <2>5, <2>6
<1> QED BY <1>2, <1>3, <1>4, <1>5

-----------------------------------------------------------------------------
(***************************************************************************)
(* The loop of fgets                                                        *)
(***************************************************************************)

Loops == [st : Readers, out : Seq(Chars), below : BOOLEAN,
          last : Chars \cup {"0"}, c : Chars \cup {EOF, "0"}]

\* No LF but at the end, and none as long as the loop has not seen one.
OneLine(l) ==
    /\ \A i \in 1 .. Len(l.out) - 1 : l.out[i] # LF
    /\ l.c # LF => \A i \in 1 .. Len(l.out) : l.out[i] # LF

\* What the loop on stream s of mode m has read and what is ahead are what was ahead
\* when it began.
LoopInv(text, whole, m, l) ==
    /\ l \in Loops
    /\ Placed(text, l.st)
    /\ OneLine(l)
    /\ m = Plain => l.out \o AheadOf(text, l.st) = whole
    /\ l.c = EOF => l.st.error \/ AheadOf(text, l.st) = <<>>

LEMMA FrontOf ==
    ASSUME NEW out \in Seq(Chars), out # <<>>
    PROVE  /\ Front(out) \in Seq(Chars) /\ Len(Front(out)) = Len(out) - 1
           /\ \A i \in 1 .. Len(out) - 1 : Front(out)[i] = out[i]
<1>1. Len(out) \in Nat /\ Len(out) > 0 /\ Front(out) = SubSeq(out, 1, Len(out) - 1)
  BY DEF Front
<1> DEFINE n == Len(out) - 1
           f == SubSeq(out, 1, n)
<1>2. n \in Nat /\ n <= Len(out)
  BY <1>1
<1>3. f \in Seq(Chars) /\ Len(f) = n /\ \A i \in 1 .. n : f[i] = out[i]
  <2> HIDE DEF n
  <2> QED BY <1>2
<1> HIDE DEF f
<1> QED BY <1>1, <1>3 DEF f

\* One character behind a line without an LF.
LEMMA OneMore ==
    ASSUME NEW out \in Seq(Chars), NEW ch \in Chars,
           \A i \in 1 .. Len(out) : out[i] # LF
    PROVE  /\ Append(out, ch) \in Seq(Chars)
           /\ \A i \in 1 .. Len(Append(out, ch)) - 1 : Append(out, ch)[i] # LF
           /\ ch # LF => \A i \in 1 .. Len(Append(out, ch)) : Append(out, ch)[i] # LF
  OBVIOUS

LEMMA StoredKeeps ==
    ASSUME NEW l \in Loops, NEW c \in Chars, NEW s \in Streams,
           mode \in [Streams -> Modes], \A i \in 1 .. Len(l.out) : l.out[i] # LF
    PROVE  LET k == Stored(l, c, s) IN
           /\ k \in Loops /\ k.st = l.st /\ k.c # EOF /\ OneLine(k)
           /\ mode[s] = Plain => k.out = Append(l.out, c)
<1> DEFINE m == mode[s]
           ch == IF c = CR /\ m.console THEN LF ELSE c
           drops == m.binary /\ c = LF /\ l.last = CR
           kept == IF drops /\ l.out # <<>> THEN Front(l.out) ELSE l.out
           below == drops /\ l.out = <<>>
           k == Stored(l, c, s)
           out == IF below THEN <<>> ELSE Append(kept, ch)
<1>1. /\ l.st \in Readers /\ l.out \in Seq(Chars) /\ l.below \in BOOLEAN
      /\ l.last \in Chars \cup {"0"} /\ l.c \in Chars \cup {EOF, "0"}
      /\ l = [st |-> l.st, out |-> l.out, below |-> l.below, last |-> l.last, c |-> l.c]
  BY DEF Loops
<1>2. ch \in Chars /\ ch # EOF
  BY CharsApart
<1>3. kept \in Seq(Chars) /\ \A i \in 1 .. Len(kept) : kept[i] # LF
  BY <1>1, FrontOf
<1>4. m \in Modes
  OBVIOUS
<1>5. m.binary \in BOOLEAN /\ m.console \in BOOLEAN
      /\ (m = Plain => m.binary = FALSE /\ m.console = FALSE)
  <2>1. ASSUME NEW x \in Modes PROVE x.binary \in BOOLEAN /\ x.console \in BOOLEAN
    <3>1. x = Plain \/ x = [Plain EXCEPT !.binary = TRUE] \/ x = Stdin
      BY DEF Modes
    <3>2. CASE x = Plain
      BY <3>2 DEF Plain
    <3>3. CASE x = Stdin
      BY <3>3 DEF Stdin
    <3>4. CASE x = [Plain EXCEPT !.binary = TRUE]
      <4>1. x = [binary |-> TRUE, console |-> FALSE]
        BY <3>4 DEF Plain
      <4> QED BY <4>1
    <3> QED BY <3>1, <3>2, <3>3, <3>4
  <2>2. Plain.binary = FALSE /\ Plain.console = FALSE
    BY DEF Plain
  <2> HIDE DEF m
  <2> QED BY <1>4, <2>1, <2>2
<1>6. k = [l EXCEPT !.c = ch, !.last = IF m.binary THEN c ELSE @, !.below = below, !.out = out]
  BY DEF Stored
<1>7. below \in BOOLEAN
  OBVIOUS
<1>8. out \in Seq(Chars)
      /\ (\A i \in 1 .. Len(out) - 1 : out[i] # LF)
      /\ (ch # LF => \A i \in 1 .. Len(out) : out[i] # LF)
  <2> HIDE DEF kept, ch
  <2>1. /\ Append(kept, ch) \in Seq(Chars)
        /\ \A i \in 1 .. Len(Append(kept, ch)) - 1 : Append(kept, ch)[i] # LF
        /\ ch # LF => \A i \in 1 .. Len(Append(kept, ch)) : Append(kept, ch)[i] # LF
    BY <1>2, <1>3, OneMore
  <2>2. CASE below
    BY <2>2
  <2>3. CASE ~below
    <3>1. out = Append(kept, ch)
      BY <2>3
    <3> HIDE DEF out
    <3> QED BY <3>1, <2>1
  <2> QED BY <2>2, <2>3
<1>9. m = Plain => out = Append(l.out, c)
  BY <1>5
<1> HIDE DEF out, ch, below, m, k
<1>10. /\ k.st = l.st /\ k.c = ch /\ k.out = out /\ k.below = below
       /\ k.last \in Chars \cup {"0"}
       /\ k = [st |-> k.st, out |-> k.out, below |-> k.below, last |-> k.last, c |-> k.c]
  BY <1>1, <1>6
<1>11. k \in Loops
  BY <1>1, <1>2, <1>7, <1>8, <1>10 DEF Loops
<1>12. OneLine(k)
  BY <1>8, <1>10 DEF OneLine
<1> QED BY <1>2, <1>9, <1>10, <1>11, <1>12 DEF k, m

LEMMA TurnKeeps ==
    ASSUME NEW s \in Streams, mode \in [Streams -> Modes], content[s] \in Seq(Chars),
           NEW l, NEW whole, NEW fails \in BOOLEAN,
           LoopInv(content[s], whole, mode[s], l)
    PROVE  LoopInv(content[s], whole, mode[s], Turn(l, s, fails))
<1> DEFINE text == content[s]
           m == mode[s]
           g == GetFrom(text, l.st, fails)
           k == Turn(l, s, fails)
<1>1. /\ l \in Loops /\ Placed(text, l.st) /\ OneLine(l)
      /\ m = Plain => l.out \o AheadOf(text, l.st) = whole
      /\ l.st \in Readers /\ l.out \in Seq(Chars) /\ l.below \in BOOLEAN
      /\ l.last \in Chars \cup {"0"} /\ l.c \in Chars \cup {EOF, "0"}
      /\ l = [st |-> l.st, out |-> l.out, below |-> l.below, last |-> l.last, c |-> l.c]
  BY DEF Loops, LoopInv
<1>2. /\ g.c \in Chars \cup {EOF}
      /\ Placed(text, g.st)
      /\ g.c # EOF => AheadOf(text, l.st) = <<g.c>> \o AheadOf(text, g.st)
      /\ g.c = EOF => /\ AheadOf(text, g.st) = AheadOf(text, l.st)
                      /\ g.st.error \/ AheadOf(text, g.st) = <<>>
  BY <1>1, GetFromReads
<1>3. g.st \in Readers /\ g.st.pos <= Len(text)
  BY <1>2 DEF Placed
<1>4. k = IF l.c \in {EOF, LF} THEN l
          ELSE IF g.c = EOF THEN [l EXCEPT !.st = g.st, !.c = EOF]
          ELSE Stored([l EXCEPT !.st = g.st], g.c, s)
  BY DEF Turn
<1> HIDE DEF g, k
<1> SUFFICES LoopInv(text, whole, m, k)
  BY DEF k
<1>5. CASE l.c \in {EOF, LF}
  BY <1>4, <1>5
<1>6. CASE l.c \notin {EOF, LF} /\ g.c = EOF
  <2>1. k = [l EXCEPT !.st = g.st, !.c = EOF]
    BY <1>4, <1>6
  <2>2. /\ k.st = g.st /\ k.c = EOF /\ k.out = l.out /\ k.below = l.below /\ k.last = l.last
        /\ k = [st |-> k.st, out |-> k.out, below |-> k.below, last |-> k.last, c |-> k.c]
    BY <1>1, <2>1
  <2>3. k \in Loops
    BY <1>1, <1>3, <2>2 DEF Loops
  <2>4. OneLine(k)
    BY <1>1, <1>6, <2>2 DEF OneLine
  <2> QED BY <1>1, <1>2, <1>6, <2>2, <2>3, <2>4 DEF LoopInv
<1>7. CASE l.c \notin {EOF, LF} /\ g.c # EOF
  <2> DEFINE j == [l EXCEPT !.st = g.st]
  <2>1. k = Stored(j, g.c, s)
    BY <1>4, <1>7
  <2>2. /\ j.st = g.st /\ j.out = l.out
        /\ j = [st |-> g.st, out |-> l.out, below |-> l.below, last |-> l.last, c |-> l.c]
    BY <1>1
  <2>3. j \in Loops
    BY <1>1, <1>3, <2>2 DEF Loops
  <2> HIDE DEF j
  <2>4. g.c \in Chars
    BY <1>2, <1>7
  <2>5. \A i \in 1 .. Len(j.out) : j.out[i] # LF
    BY <1>1, <1>7, <2>2 DEF OneLine
  <2>6. /\ k \in Loops /\ k.st = g.st /\ k.c # EOF /\ OneLine(k)
        /\ m = Plain => k.out = Append(l.out, g.c)
    BY <2>1, <2>2, <2>3, <2>4, <2>5, StoredKeeps
  <2>7. ASSUME m = Plain PROVE k.out \o AheadOf(text, k.st) = whole
    <3> DEFINE a == AheadOf(text, g.st)
               o == l.out
    <3>1. a \in Seq(Chars) /\ o \in Seq(Chars) /\ <<g.c>> \in Seq(Chars)
      BY <1>1, <1>3, <2>4, AheadTyped
    <3>2. k.out = Append(o, g.c) /\ AheadOf(text, k.st) = a
      BY <2>6, <2>7
    <3>3. o \o (<<g.c>> \o a) = whole
      BY <1>1, <1>2, <1>7, <2>7
    <3> HIDE DEF a, o
    <3>4. Append(o, g.c) = o \o <<g.c>>
      BY <3>1
    <3>5. (o \o <<g.c>>) \o a = o \o (<<g.c>> \o a)
      BY <3>1, JoinAssociates
    <3> QED BY <3>2, <3>3, <3>4, <3>5
  <2> QED BY <1>2, <2>6, <2>7 DEF LoopInv
<1> QED BY <1>5, <1>6, <1>7

\* The loop, at its start and after every turn.
LEMMA LineKeeps ==
    ASSUME NEW s \in Streams, mode \in [Streams -> Modes], content[s] \in Seq(Chars),
           Placed(content[s], At(s)), last_char \in Chars \cup {"0"},
           NEW n \in Nat \ {0}, NEW failAt
    PROVE  LoopInv(content[s], AheadOf(content[s], At(s)), mode[s], Line(s, n, failAt))
<1> DEFINE whole == AheadOf(content[s], At(s))
           start == [st |-> At(s), out |-> <<>>, below |-> FALSE,
                     last |-> last_char, c |-> "0"]
           Inv(l) == LoopInv(content[s], whole, mode[s], l)
           Body(h) == [i \in 0 .. n - 1 |->
                         IF i = 0 THEN start ELSE Turn(h[i - 1], s, i = failAt)]
           after == CHOOSE h : h = Body(h)
           T == {l \in Loops : Inv(l)}
           step == [i \in Nat |-> [l \in T |-> Turn(l, s, i = failAt)]]
<1>0. SUFFICES Inv(after[n - 1])
  BY DEF Line
<1>1. start \in Loops /\ Inv(start)
  <2>1. At(s) \in Readers
    BY DEF Placed
  <2>2. start \in Loops
    BY <2>1 DEF Loops
  <2>3. start.st = At(s) /\ start.out = <<>> /\ start.c # EOF /\ OneLine(start)
    BY CharsApart DEF OneLine
  <2>4. <<>> \o whole = whole
    BY <2>1, AheadTyped, EmptyJoin DEF Placed
  <2>5. AheadOf(content[s], start.st) = whole /\ Placed(content[s], start.st)
    BY <2>3
  <2> HIDE DEF start, whole
  <2>6. start.out \o AheadOf(content[s], start.st) = whole
    BY <2>3, <2>4, <2>5
  <2> QED BY <2>2, <2>3, <2>5, <2>6 DEF LoopInv
<1>2. ASSUME NEW l, Inv(l), NEW fails \in BOOLEAN
      PROVE  Inv(Turn(l, s, fails)) /\ Turn(l, s, fails) \in Loops
  <2>1. Inv(Turn(l, s, fails))
    BY <1>2, TurnKeeps
  <2> QED BY <2>1 DEF LoopInv
<1> HIDE DEF start, Inv
<1>3. PICK g : Iterated(T, start, step, n - 1, g)
  <2>1. start \in T /\ n - 1 \in Nat
    BY <1>1
  <2>2. ASSUME NEW i \in Nat, NEW l \in T PROVE step[i][l] \in T
    BY <1>2
  <2> HIDE DEF T, step
  <2> QED BY <2>1, <2>2, Iterates
<1>4. g = Body(g)
  <2>1. g \in [0 .. n - 1 -> T] /\ g[0] = start /\ \A i \in 1 .. n - 1 : g[i] = step[i][g[i - 1]]
    BY <1>3 DEF Iterated
  <2>2. ASSUME NEW i \in 1 .. n - 1 PROVE g[i] = Turn(g[i - 1], s, i = failAt)
    <3>1. i \in Nat /\ i - 1 \in 0 .. n - 1
      OBVIOUS
    <3>2. g[i - 1] \in T
      BY <2>1, <3>1
    <3> HIDE DEF T
    <3> QED BY <2>1, <3>1, <3>2
  <2>3. ASSUME NEW i \in 0 .. n - 1
        PROVE  g[i] = IF i = 0 THEN start ELSE Turn(g[i - 1], s, i = failAt)
    <3>1. i # 0 => i \in 1 .. n - 1
      OBVIOUS
    <3> QED BY <2>1, <2>2, <3>1
  <2> HIDE DEF T, step
  <2> QED BY <2>1, <2>3
<1>5. after = Body(after)
  BY <1>4
<1> HIDE DEF after
<1> DEFINE S == {i \in Nat : i <= n - 1 => Inv(after[i])}
<1>6. 0 \in S
  BY <1>1, <1>5
<1>7. ASSUME NEW i \in Nat, i \in S PROVE i + 1 \in S
  <2>1. CASE i + 1 <= n - 1
    <3>1. i + 1 \in 0 .. n - 1 /\ i + 1 # 0 /\ (i + 1) - 1 = i /\ i <= n - 1
      BY <2>1
    <3>2. after[i + 1] = Turn(after[(i + 1) - 1], s, (i + 1) = failAt)
      BY <1>5, <3>1
    <3>3. Inv(after[i])
      BY <1>7, <3>1
    <3>4. Inv(Turn(after[i], s, (i + 1) = failAt))
      BY <1>2, <3>3
    <3> QED BY <3>1, <3>2, <3>4
  <2>2. CASE ~(i + 1 <= n - 1)
    BY <2>2
  <2> QED BY <2>1, <2>2
<1> HIDE DEF S
<1>8. Nat \subseteq S
  BY <1>6, <1>7, SetInduction
<1>9. n - 1 \in Nat /\ n - 1 <= n - 1
  OBVIOUS
<1> QED BY <1>8, <1>9 DEF S

-----------------------------------------------------------------------------
(***************************************************************************)
(* The calls                                                                *)
(***************************************************************************)

LEMMA ContentsAreTexts == Contents \subseteq Seq(Chars)
<1> SUFFICES ASSUME NEW t \in Contents PROVE t \in Seq(Chars)
  OBVIOUS
<1>1. PICK n \in Lengths : t \in [1 .. n -> Chars]
  BY DEF Contents
<1>2. n \in Nat
  BY TextInputAssumption
<1> HIDE DEF Chars
<1> QED BY <1>1, <1>2

\* What TypeOK and EofIsEnd say of one stream.
LEMMA SoundHere ==
    ASSUME TypeOK, EofIsEnd, NEW s \in Streams
    PROVE  /\ content[s] \in Seq(Chars) /\ Placed(content[s], At(s))
           /\ mode[s] \in Modes /\ last_char \in Chars \cup {"0"}
           /\ Ahead(s) = AheadOf(content[s], At(s))
<1>1. content[s] \in Seq(Chars)
  BY ContentsAreTexts DEF TypeOK
<1>2. At(s) \in Readers /\ At(s).pos = pos[s] /\ At(s).pushback = stream[s].pushback
      /\ At(s).eof = stream[s].eof /\ pos[s] <= Len(content[s])
  BY DEF TypeOK, At, Readers
<1>3. Ahead(s) = AheadOf(content[s], At(s))
  BY <1>2 DEF Ahead, AheadOf
<1>4. stream[s].eof => Ahead(s) = <<>>
  BY DEF EofIsEnd
<1>5. Placed(content[s], At(s))
  BY <1>2, <1>3, <1>4 DEF Placed
<1> QED BY <1>1, <1>3, <1>5 DEF TypeOK

\* A call on s that leaves st.
Leaves(s, st) ==
    /\ pos' = [pos EXCEPT ![s] = st.pos]
    /\ stream' = [stream EXCEPT ![s] =
                    [pushback |-> st.pushback, eof |-> st.eof, error |-> st.error]]
    /\ UNCHANGED <<mode, content>>
    /\ last_char' \in Chars \cup {"0"}

LEMMA LeavesKeeps ==
    ASSUME TypeOK, EofIsEnd, NEW s \in Streams, NEW st, Placed(content[s], st), Leaves(s, st)
    PROVE  /\ TypeOK' /\ EofIsEnd'
           /\ Ahead(s)' = AheadOf(content[s], st)
           /\ stream'[s].error = st.error /\ pos'[s] = st.pos
<1>1. /\ st \in Readers /\ st.pos \in Nat /\ st.pos <= Len(content[s])
      /\ st.pushback \in Chars \cup {EOF} /\ st.eof \in BOOLEAN /\ st.error \in BOOLEAN
      /\ st.eof => AheadOf(content[s], st) = <<>>
  BY DEF Placed, Readers
<1>2. /\ pos \in [Streams -> Nat]
      /\ stream \in [Streams -> [pushback : Chars \cup {EOF}, eof : BOOLEAN, error : BOOLEAN]]
  BY DEF TypeOK
<1>3. /\ pos' \in [Streams -> Nat]
      /\ \A t \in Streams : pos'[t] = IF t = s THEN st.pos ELSE pos[t]
  BY <1>1, <1>2 DEF Leaves
<1>4. /\ stream' \in [Streams -> [pushback : Chars \cup {EOF}, eof : BOOLEAN, error : BOOLEAN]]
      /\ \A t \in Streams : t # s => stream'[t] = stream[t]
      /\ stream'[s].pushback = st.pushback
      /\ stream'[s].eof = st.eof /\ stream'[s].error = st.error
  BY <1>1, <1>2 DEF Leaves
<1>5. mode' = mode /\ content' = content
  BY DEF Leaves
<1>6. TypeOK'
  <2>1. \A t \in Streams : pos'[t] <= Len(content'[t])
    BY <1>1, <1>3, <1>5 DEF TypeOK
  <2> QED BY <2>1, <1>3, <1>4, <1>5 DEF TypeOK, Leaves
<1>7. Ahead(s)' = AheadOf(content[s], st)
  BY <1>3, <1>4, <1>5 DEF Ahead, AheadOf
<1>8. ASSUME NEW t \in Streams, t # s PROVE Ahead(t)' = Ahead(t)
  BY <1>3, <1>4, <1>5, <1>8 DEF Ahead
<1>9. EofIsEnd'
  BY <1>1, <1>4, <1>7, <1>8 DEF EofIsEnd
<1> QED BY <1>3, <1>4, <1>6, <1>7, <1>9

\* What every call does.
Called(s) == InputSound' /\ call'.stream = s /\ GivesNext(s) /\ SeeksRight(s)

\* A call that reads no characters and does not seek.
LEMMA OtherCalls ==
    ASSUME InputSound, NEW s \in Streams, NEW st, Placed(content[s], st), Leaves(s, st),
           call'.stream = s, call'.kind \notin {"fgetc", "fgets", "fread", "rewind", "fseek"}
    PROVE  Called(s)
<1>1. TypeOK' /\ EofIsEnd'
  BY LeavesKeeps DEF InputSound
<1>2. OneLineAtMost'
  BY DEF OneLineAtMost
<1> QED BY <1>1, <1>2 DEF Called, InputSound, GivesNext, Read, SeeksRight

LEMMA DoneLeaves ==
    ASSUME InputSound, NEW s \in Streams, NEW st, NEW kind, NEW ok, NEW text,
           Done(s, st, kind, ok, text), UNCHANGED last_char
    PROVE  /\ Leaves(s, st)
           /\ call'.stream = s /\ call'.kind = kind /\ call'.ok = ok /\ call'.text = text
BY DEF Done, Leaves, InputSound, TypeOK

LEMMA FgetcKeeps ==
    ASSUME InputSound, NEW s \in Streams, Fgetc(s)
    PROVE  Called(s)
<1>1. /\ content[s] \in Seq(Chars) /\ Placed(content[s], At(s))
      /\ Ahead(s) = AheadOf(content[s], At(s)) /\ TypeOK /\ EofIsEnd
  BY SoundHere DEF InputSound
<1>2. MayFail \in BOOLEAN
  BY TextInputAssumption
<1>3. PICK fails \in BOOLEAN :
        LET g == GetFrom(content[s], At(s), fails)
        IN  Done(s, g.st, "fgetc", g.c # EOF, IF g.c = EOF THEN <<>> ELSE <<g.c>>)
  BY <1>2 DEF Fgetc
<1>4. PICK g : g = GetFrom(content[s], At(s), fails)
  OBVIOUS
<1>5. Done(s, g.st, "fgetc", g.c # EOF, IF g.c = EOF THEN <<>> ELSE <<g.c>>)
  BY <1>3, <1>4
<1>6. /\ Placed(content[s], g.st)
      /\ g.c # EOF => Ahead(s) = <<g.c>> \o AheadOf(content[s], g.st)
      /\ g.c = EOF => /\ AheadOf(content[s], g.st) = Ahead(s)
                      /\ g.st.error \/ Ahead(s) = <<>>
  BY <1>1, <1>4, GetFromReads
<1>7. PICK text : text = IF g.c = EOF THEN <<>> ELSE <<g.c>>
  OBVIOUS
<1>8. UNCHANGED last_char
  BY DEF Fgetc
<1>9. /\ Leaves(s, g.st)
      /\ call'.stream = s /\ call'.kind = "fgetc" /\ call'.ok = (g.c # EOF) /\ call'.text = text
  BY <1>5, <1>7, <1>8 DEF Done, Leaves, InputSound, TypeOK
<1>10. /\ TypeOK' /\ EofIsEnd' /\ Ahead(s)' = AheadOf(content[s], g.st)
       /\ stream'[s].error = g.st.error
  BY <1>1, <1>6, <1>9, LeavesKeeps
<1>11. OneLineAtMost'
  BY <1>9 DEF OneLineAtMost
<1>12. GivesNext(s)
  <2>1. CASE g.c # EOF
    BY <1>6, <1>7, <1>9, <1>10, <2>1 DEF GivesNext, Read
  <2>2. CASE g.c = EOF
    <3>1. text = <<>> /\ Ahead(s)' = Ahead(s)
      BY <1>6, <1>7, <1>10, <2>2
    <3>2. Ahead(s) \in Seq(Chars)
      BY <1>1, AheadTyped DEF Placed
    <3>3. <<>> \o Ahead(s) = Ahead(s)
      BY <3>2, EmptyJoin
    <3> QED BY <1>6, <1>9, <1>10, <2>2, <3>1, <3>3 DEF GivesNext, Read
  <2> QED BY <2>1, <2>2
<1>13. SeeksRight(s)
  BY <1>9 DEF SeeksRight
<1> QED BY <1>9, <1>10, <1>11, <1>12, <1>13 DEF Called, InputSound

LEMMA UngetcKeeps ==
    ASSUME InputSound, NEW s \in Streams, NEW c \in Pushed, Ungetc(s, c)
    PROVE  Called(s)
<1>1. Placed(content[s], At(s)) /\ At(s) \in Readers /\ c \in Chars
  BY SoundHere, TextInputAssumption DEF InputSound, Placed
<1>2. PICK st : st = IF stream[s].pushback # EOF THEN At(s)
                     ELSE [At(s) EXCEPT !.pushback = c, !.eof = FALSE]
  OBVIOUS
<1>3. Placed(content[s], st)
  <2>1. CASE stream[s].pushback # EOF
    BY <1>1, <1>2, <2>1
  <2>2. CASE stream[s].pushback = EOF
    <3>1. st = [At(s) EXCEPT !.pushback = c, !.eof = FALSE]
      BY <1>2, <2>2
    <3>2. st \in Readers /\ st.pos = At(s).pos /\ st.eof = FALSE
      BY <1>1, <3>1 DEF Readers
    <3> QED BY <1>1, <3>2 DEF Placed
  <2> QED BY <2>1, <2>2
<1>4. Leaves(s, st) /\ call'.stream = s /\ call'.kind = "ungetc"
  <2>1. UNCHANGED last_char
    BY DEF Ungetc
  <2>2. CASE stream[s].pushback # EOF
    <3>1. Done(s, st, "ungetc", FALSE, <<c>>)
      BY <1>2, <2>2 DEF Ungetc
    <3> QED BY <2>1, <3>1 DEF Done, Leaves, InputSound, TypeOK
  <2>3. CASE stream[s].pushback = EOF
    <3>1. Done(s, st, "ungetc", TRUE, <<c>>)
      BY <1>2, <2>3 DEF Ungetc
    <3> QED BY <2>1, <3>1 DEF Done, Leaves, InputSound, TypeOK
  <2> QED BY <2>2, <2>3
<1> QED BY <1>3, <1>4, OtherCalls

LEMMA FreadKeeps ==
    ASSUME InputSound, FreadAnyTime = FALSE, NEW s \in Streams, NEW n \in Sizes, Fread(s, n)
    PROVE  Called(s)
<1>1. /\ Placed(content[s], At(s)) /\ At(s) \in Readers /\ content[s] \in Seq(Chars) /\ n \in Nat
      /\ At(s).pos \in Nat /\ Len(content[s]) \in Nat /\ At(s).pos <= Len(content[s])
      /\ At(s).pushback = EOF /\ At(s).eof \in BOOLEAN
  BY SoundHere, TextInputAssumption DEF InputSound, Placed, Readers, Fread, At
<1>2. PICK rest : rest = Len(content[s]) - At(s).pos
  OBVIOUS
<1>3. PICK rc : rc = IF n < rest THEN n ELSE rest
  OBVIOUS
<1>4. rc \in Nat /\ rc <= rest /\ rest \in Nat /\ (rc < n => rc = rest)
  BY <1>1, <1>2, <1>3
<1>5. PICK read : read = [At(s) EXCEPT !.pos = @ + rc, !.eof = @ \/ rc < n]
  OBVIOUS
<1>6. PICK broken : broken = [At(s) EXCEPT !.error = TRUE]
  OBVIOUS
<1>7. Placed(content[s], broken)
  <2>1. broken \in Readers /\ broken.pos = At(s).pos /\ broken.eof = At(s).eof
        /\ broken.pushback = At(s).pushback
    BY <1>1, <1>6 DEF Readers
  <2>2. AheadOf(content[s], broken) = AheadOf(content[s], At(s))
    BY <2>1 DEF AheadOf
  <2> QED BY <1>1, <2>1, <2>2 DEF Placed
<1>8. Placed(content[s], read)
  <2>1. read.pos = At(s).pos + rc /\ read.pushback = EOF
        /\ (read.eof = (At(s).eof \/ rc < n)) /\ read.error = At(s).error
        /\ read = [pos |-> read.pos, pushback |-> read.pushback, eof |-> read.eof,
                   error |-> read.error]
    BY <1>1, <1>5 DEF At
  <2>2. read.eof \in BOOLEAN /\ read.error \in BOOLEAN
    <3>1. At(s).error \in BOOLEAN
      BY <1>1 DEF Readers
    <3> QED BY <2>1, <3>1
  <2>a. read.pos \in Nat /\ read.pushback \in Chars \cup {EOF}
    BY <1>1, <1>4, <2>1
  <2>3. read \in Readers
    BY <2>1, <2>2, <2>a DEF Readers
  <2>4. read.pos <= Len(content[s]) /\ read.pos \in Nat
    BY <1>1, <1>2, <1>4, <2>1
  <2>5. ASSUME read.eof PROVE AheadOf(content[s], read) = <<>>
    <3>1. CASE rc < n
      <4>1. read.pos = Len(content[s])
        BY <1>1, <1>2, <1>4, <2>1, <3>1
      <4> QED BY <1>1, <2>1, <2>3, <2>4, <4>1, AheadEmpty
    <3>2. CASE At(s).eof
      <4>1. At(s).pos = Len(content[s])
        BY <1>1, <3>2, AheadEmpty DEF Placed
      <4>2. read.pos = Len(content[s])
        BY <1>1, <2>1, <2>4, <1>4, <4>1
      <4> QED BY <1>1, <2>1, <2>3, <2>4, <4>2, AheadEmpty
    <3> QED BY <2>1, <2>5, <3>1, <3>2
  <2> QED BY <2>3, <2>4, <2>5 DEF Placed
<1>9. UNCHANGED last_char
  BY DEF Fread
<1>10. \/ Done(s, read, "fread", TRUE,
               SubSeq(content[s], At(s).pos + 1, At(s).pos + rc))
       \/ MayFail /\ Done(s, broken, "fread", FALSE, <<>>)
  BY <1>2, <1>3, <1>5, <1>6 DEF Fread
<1> DEFINE part == SubSeq(content[s], At(s).pos + 1, At(s).pos + rc)
<1>11. CASE Done(s, broken, "fread", FALSE, <<>>)
  <2>1. Leaves(s, broken) /\ call'.stream = s /\ call'.kind = "fread"
    BY <1>9, <1>11 DEF Done, Leaves, InputSound, TypeOK
  <2>2. TypeOK' /\ EofIsEnd' /\ stream'[s].error = broken.error
    BY <1>7, <2>1, LeavesKeeps DEF InputSound
  <2>3. broken.error = TRUE
    BY <1>1, <1>6 DEF Readers
  <2>4. OneLineAtMost' /\ GivesNext(s) /\ SeeksRight(s)
    BY <2>1, <2>2, <2>3 DEF OneLineAtMost, GivesNext, Read, SeeksRight
  <2> QED BY <2>1, <2>2, <2>4 DEF Called, InputSound
<1>12. CASE Done(s, read, "fread", TRUE, part)
  <2> HIDE DEF part
  <2>1. /\ Leaves(s, read) /\ call'.stream = s /\ call'.kind = "fread"
        /\ call'.ok = TRUE /\ call'.text = part
    BY <1>9, <1>12 DEF Done, Leaves, InputSound, TypeOK
  <2>2. TypeOK' /\ EofIsEnd' /\ Ahead(s)' = AheadOf(content[s], read)
    BY <1>8, <2>1, LeavesKeeps DEF InputSound
  <2>3. Ahead(s) = part \o Ahead(s)'
    <3> DEFINE text == content[s]
               at == At(s).pos
    <3>1. Ahead(s) = AheadOf(text, At(s))
      BY SoundHere DEF InputSound
    <3>2. AheadOf(text, At(s)) = SubSeq(text, at + 1, Len(text))
      BY <1>1, AheadFile
    <3>3. read \in Readers /\ read.pos <= Len(text) /\ read.pushback = EOF /\ read.pos = at + rc
      BY <1>1, <1>5, <1>8 DEF Placed, At
    <3>4. AheadOf(text, read) = SubSeq(text, (at + rc) + 1, Len(text))
      BY <1>1, <3>3, AheadFile
    <3>5. SubSeq(text, at + 1, at + rc) \o SubSeq(text, (at + rc) + 1, Len(text))
            = SubSeq(text, at + 1, Len(text))
      <4> DEFINE mid == at + rc
      <4>1. /\ text \in Seq(Chars) /\ at + 1 \in Nat \ {0} /\ mid \in Nat /\ Len(text) \in Nat
            /\ at + 1 <= mid + 1 /\ mid <= Len(text) /\ Len(text) <= Len(text)
        BY <1>1, <1>4, <3>3
      <4> HIDE DEF text, at, mid
      <4>2. SubSeq(text, at + 1, mid) \o SubSeq(text, mid + 1, Len(text))
              = SubSeq(text, at + 1, Len(text))
        BY <4>1, PartsJoin
      <4> QED BY <4>2 DEF mid
    <3> QED BY <2>2, <3>1, <3>2, <3>4, <3>5 DEF part
  <2>4. OneLineAtMost' /\ GivesNext(s) /\ SeeksRight(s)
    BY <2>1, <2>3 DEF OneLineAtMost, GivesNext, Read, SeeksRight
  <2> QED BY <2>1, <2>2, <2>4 DEF Called, InputSound
<1> QED BY <1>10, <1>11, <1>12

LEMMA FgetsKeeps ==
    ASSUME InputSound, NEW s \in Streams, NEW n \in Sizes, Fgets(s, n)
    PROVE  Called(s)
<1>1. /\ content[s] \in Seq(Chars) /\ Placed(content[s], At(s)) /\ TypeOK /\ EofIsEnd
      /\ Ahead(s) = AheadOf(content[s], At(s)) /\ last_char \in Chars \cup {"0"}
      /\ mode \in [Streams -> Modes] /\ n \in Nat \ {0}
  BY SoundHere, TextInputAssumption DEF InputSound, TypeOK
<1>2. CASE stream[s].error /\ Done(s, At(s), "fgets", FALSE, <<>>) /\ UNCHANGED last_char
  <2>1. PICK st : st = At(s)
    OBVIOUS
  <2>2. /\ Leaves(s, st) /\ call'.stream = s /\ call'.kind = "fgets" /\ call'.text = <<>>
    BY <1>2, <2>1 DEF Done, Leaves, InputSound, TypeOK
  <2>3. st.error
    BY <1>2, <2>1 DEF At
  <2>4. /\ TypeOK' /\ EofIsEnd' /\ stream'[s].error = st.error
    BY <1>1, <2>1, <2>2, LeavesKeeps
  <2>5. OneLineAtMost'
    BY <2>2 DEF OneLineAtMost
  <2> QED BY <2>2, <2>3, <2>4, <2>5 DEF Called, InputSound, GivesNext, Read, SeeksRight
<1>3. ASSUME NEW failAt,
             LET l == Line(s, n, failAt)
                 fails == l.c = EOF /\ (l.out = <<>> \/ l.st.error)
             IN  /\ pos' = [pos EXCEPT ![s] = l.st.pos]
                 /\ stream' = [stream EXCEPT ![s] =
                      [pushback |-> l.st.pushback, eof |-> l.st.eof, error |-> l.st.error]]
                 /\ call' = [stream |-> s, kind |-> "fgets", ok |-> ~fails,
                             text |-> IF fails THEN <<>> ELSE l.out, below |-> l.below]
                 /\ last_char' = l.last
                 /\ UNCHANGED <<mode, content>>
      PROVE  Called(s)
  <2>1. PICK l : l = Line(s, n, failAt)
    OBVIOUS
  <2>2. LoopInv(content[s], Ahead(s), mode[s], l)
    BY <1>1, <2>1, LineKeeps
  <2>3. PICK fails \in BOOLEAN : fails = (l.c = EOF /\ (l.out = <<>> \/ l.st.error))
    OBVIOUS
  <2>4. PICK text : text = IF fails THEN <<>> ELSE l.out
    OBVIOUS
  <2>5. /\ pos' = [pos EXCEPT ![s] = l.st.pos]
        /\ stream' = [stream EXCEPT ![s] =
             [pushback |-> l.st.pushback, eof |-> l.st.eof, error |-> l.st.error]]
        /\ call'.stream = s /\ call'.kind = "fgets" /\ (call'.ok <=> ~fails)
        /\ call'.text = text
        /\ last_char' = l.last
        /\ UNCHANGED <<mode, content>>
    BY <1>3, <2>1, <2>3, <2>4
  <2>6. /\ l.last \in Chars \cup {"0"} /\ Placed(content[s], l.st) /\ l.out \in Seq(Chars)
        /\ l.st \in Readers
    BY <2>2 DEF LoopInv, Loops
  <2>7. Leaves(s, l.st)
    BY <2>5, <2>6 DEF Leaves
  <2>8. /\ TypeOK' /\ EofIsEnd' /\ Ahead(s)' = AheadOf(content[s], l.st)
        /\ stream'[s].error = l.st.error
    BY <1>1, <2>6, <2>7, LeavesKeeps
  <2>9. OneLineAtMost'
    <3>1. \A i \in 1 .. Len(text) - 1 : text[i] # LF
      BY <2>2, <2>4 DEF LoopInv, OneLine
    <3> QED BY <2>5, <3>1 DEF OneLineAtMost
  <2>10. ASSUME mode[s] = Plain, ~l.st.error
         PROVE  Ahead(s) = l.out \o AheadOf(content[s], l.st) /\ text = l.out
                /\ (fails => Ahead(s) = <<>>)
    <3>1. Ahead(s) = l.out \o AheadOf(content[s], l.st)
      BY <2>2, <2>10 DEF LoopInv
    <3>2. fails => l.out = <<>> /\ AheadOf(content[s], l.st) = <<>>
      BY <2>2, <2>3, <2>10 DEF LoopInv
    <3>3. fails => Ahead(s) = <<>>
      <4>1. <<>> \o <<>> = <<>>
        OBVIOUS
      <4> QED BY <3>1, <3>2, <4>1
    <3> QED BY <2>4, <3>1, <3>2, <3>3
  <2>11. GivesNext(s)
    BY <2>5, <2>8, <2>10 DEF GivesNext, Read
  <2>12. SeeksRight(s)
    BY <2>5 DEF SeeksRight
  <2> QED BY <2>5, <2>8, <2>9, <2>11, <2>12 DEF Called, InputSound
<1> QED BY <1>2, <1>3 DEF Fgets

\* The program's place is GEMDOS's position, but for a character that is pushed back.
LEMMA PlaceIsPosition ==
    ASSUME TypeOK, EofIsEnd, NEW s \in Streams
    PROVE  /\ stream[s].pushback = EOF => Place(s) = pos[s]
           /\ stream[s].pushback # EOF => Place(s) = pos[s] - 1
<1> DEFINE text == content[s]
           r == SubSeq(text, pos[s] + 1, Len(text))
<1>1. /\ text \in Seq(Chars) /\ At(s) \in Readers /\ pos[s] \in Nat /\ pos[s] <= Len(text)
      /\ stream[s].pushback \in Chars \cup {EOF}
  BY SoundHere DEF Placed, TypeOK
<1>2. r \in Seq(Chars) /\ Len(r) = Len(text) - pos[s] /\ Len(text) \in Nat
  <2>1. PICK at : at = pos[s]
    OBVIOUS
  <2> HIDE DEF text
  <2>2. text \in Seq(Chars) /\ at \in Nat /\ at <= Len(text) /\ Len(text) \in Nat
    BY <1>1, <2>1
  <2>3. /\ SubSeq(text, at + 1, Len(text)) \in Seq(Chars)
        /\ Len(SubSeq(text, at + 1, Len(text))) = Len(text) - at
    BY ONLY <2>2, SMT
  <2> QED BY <2>1, <2>2, <2>3
<1>3. Ahead(s) = (IF stream[s].pushback = EOF THEN <<>> ELSE <<stream[s].pushback>>) \o r
  BY DEF Ahead
<1> HIDE DEF text, r
<1>4. CASE stream[s].pushback = EOF
  <2>1. Len(Ahead(s)) = Len(r)
    <3>1. Ahead(s) = <<>> \o r
      BY <1>3, <1>4
    <3> QED BY <1>2, <3>1, EmptyJoin
  <2> QED BY <1>1, <1>2, <1>4, <2>1 DEF Place, text
<1>5. CASE stream[s].pushback # EOF
  <2>1. Ahead(s) = <<stream[s].pushback>> \o r /\ stream[s].pushback \in Chars
    BY <1>1, <1>3, <1>5
  <2>2. Len(Ahead(s)) = 1 + Len(r)
    BY <1>2, <2>1
  <2> QED BY <1>1, <1>2, <1>5, <2>2 DEF Place, text
<1> QED BY <1>4, <1>5

\* GEMDOS goes where the program asked, but for the overshoot.
LEMMA TargetIsAsked ==
    ASSUME TypeOK, EofIsEnd, NEW s \in Streams, NEW offset \in Int, NEW origin \in Origins
    PROVE  Target(s, offset, origin) = AskedFor(s, offset, origin) + Overshoot(s, origin)
<1>1. pos[s] \in Nat /\ Len(content[s]) \in Nat
  BY SoundHere DEF TypeOK
<1>2. CASE origin = "SEEK_SET"
  BY <1>2 DEF Target, AskedFor, Overshoot
<1>3. CASE origin = "SEEK_CUR"
  BY <1>1, <1>3, PlaceIsPosition DEF Target, AskedFor, Overshoot
<1>4. CASE origin = "SEEK_END"
  BY <1>1, <1>4 DEF Target, AskedFor, Overshoot
<1> QED BY <1>2, <1>3, <1>4 DEF Origins

\* An fseek that succeeds leaves the file from its target on ahead, one that fails all.
LEMMA FseekMoves ==
    ASSUME InputSound, NEW s \in Streams, NEW offset \in Int, NEW origin \in Origins,
           Fseek(s, offset, origin)
    PROVE  /\ TypeOK' /\ EofIsEnd' /\ call'.stream = s /\ call'.kind = "fseek"
           /\ call'.ok => Ahead(s)' = From(s, Target(s, offset, origin))
           /\ ~call'.ok => Ahead(s)' = Ahead(s)
<1> DEFINE to == Target(s, offset, origin)
<1>1. /\ content[s] \in Seq(Chars) /\ Placed(content[s], At(s)) /\ TypeOK /\ EofIsEnd
      /\ At(s) \in Readers /\ Ahead(s) = AheadOf(content[s], At(s))
  BY SoundHere DEF InputSound, Placed
<1>2. UNCHANGED last_char
  BY DEF Fseek
<1> DEFINE moved == [At(s) EXCEPT !.pos = to, !.eof = FALSE, !.pushback = EOF]
<1>a. \/ to \in 0 .. Len(content[s]) /\ Done(s, moved, "fseek", TRUE, <<>>)
      \/ Done(s, At(s), "fseek", FALSE, <<>>)
  BY DEF Fseek
<1> HIDE DEF to
<1>3. PICK ok \in BOOLEAN, st \in {moved, At(s)} :
        /\ Done(s, st, "fseek", ok, <<>>)
        /\ ok => to \in 0 .. Len(content[s]) /\ st = moved
        /\ ~ok => st = At(s)
  <2> HIDE DEF moved
  <2> QED BY <1>a
<1>4. Leaves(s, st) /\ call'.stream = s /\ call'.kind = "fseek" /\ (call'.ok <=> ok)
  BY <1>2, <1>3 DEF Done, Leaves, InputSound, TypeOK
<1>5. CASE ok
  <2>1. to \in Nat /\ to <= Len(content[s])
    BY <1>1, <1>3, <1>5
  <2>2. st \in Readers /\ st.pos = to /\ st.eof = FALSE /\ st.pushback = EOF
    BY <1>1, <1>3, <1>5, <2>1 DEF Readers
  <2>3. Placed(content[s], st)
    BY <2>1, <2>2 DEF Placed
  <2>4. /\ TypeOK' /\ EofIsEnd' /\ Ahead(s)' = AheadOf(content[s], st)
    BY <1>1, <1>4, <2>3, LeavesKeeps
  <2>5. AheadOf(content[s], st) = From(s, to)
    BY <1>1, <2>1, <2>2, AheadFile DEF From
  <2> QED BY <1>4, <1>5, <2>4, <2>5 DEF to
<1>6. CASE ~ok
  <2>1. /\ TypeOK' /\ EofIsEnd' /\ Ahead(s)' = AheadOf(content[s], At(s))
    BY <1>1, <1>3, <1>4, <1>6, LeavesKeeps
  <2> QED BY <1>1, <1>4, <1>6, <2>1
<1> QED BY <1>5, <1>6

LEMMA OffsetsAreInts ==
    ASSUME TypeOK, NEW s \in Streams, NEW origin \in Origins, NEW offset \in Offsets(s, origin)
    PROVE  offset \in Int
<1>1. pos[s] \in Nat /\ Len(content[s]) \in Nat
  BY ContentsAreTexts DEF TypeOK
<1>2. Target(s, 0, origin) \in Int
  BY <1>1 DEF Target, Origins
<1> QED BY <1>1, <1>2 DEF Offsets

LEMMA FseekKeeps ==
    ASSUME InputSound, NEW s \in Streams, NEW origin \in Origins,
           NEW offset \in Offsets(s, origin), Fseek(s, offset, origin)
    PROVE  Called(s)
<1>1. offset \in Int
  BY OffsetsAreInts DEF InputSound
<1>2. /\ TypeOK' /\ EofIsEnd' /\ call'.stream = s /\ call'.kind = "fseek"
      /\ ~call'.ok => Ahead(s)' = Ahead(s)
  BY <1>1, FseekMoves
<1>3. ASSUME NEW from \in Origins, NEW by \in Offsets(s, from), Fseek(s, by, from), call'.ok
      PROVE  Ahead(s)' = From(s, AskedFor(s, by, from) + Overshoot(s, from))
  <2>1. by \in Int
    BY OffsetsAreInts DEF InputSound
  <2>2. Ahead(s)' = From(s, Target(s, by, from))
    BY <1>3, <2>1, FseekMoves
  <2> QED BY <2>1, <2>2, TargetIsAsked DEF InputSound
<1>4. OneLineAtMost' /\ GivesNext(s)
  BY <1>2 DEF OneLineAtMost, GivesNext, Read
<1>5. SeeksRight(s)
  BY <1>2, <1>3 DEF SeeksRight, LeadsThere
<1> QED BY <1>2, <1>4, <1>5 DEF Called, InputSound

LEMMA RewindKeeps ==
    ASSUME InputSound, NEW s \in Streams, Rewind(s)
    PROVE  Called(s)
<1>1. /\ content[s] \in Seq(Chars) /\ TypeOK /\ EofIsEnd /\ Len(content[s]) \in Nat
      /\ pos[s] \in Nat /\ pos[s] <= Len(content[s])
  BY SoundHere DEF InputSound, TypeOK
<1>2. PICK refused \in BOOLEAN :
        Done(s, [pos |-> IF refused THEN pos[s] ELSE 0, pushback |-> EOF, eof |-> FALSE,
                 error |-> FALSE], "rewind", ~refused, <<>>)
  BY TextInputAssumption DEF Rewind
<1>3. PICK st : st = [pos |-> IF refused THEN pos[s] ELSE 0, pushback |-> EOF, eof |-> FALSE,
                      error |-> FALSE]
  OBVIOUS
<1>4. /\ st \in Readers /\ st.eof = FALSE /\ st.pushback = EOF /\ st.pos <= Len(content[s])
      /\ ~refused => st.pos = 0
  BY <1>1, <1>3 DEF Readers
<1>5. Placed(content[s], st)
  BY <1>4 DEF Placed
<1>6. Leaves(s, st) /\ call'.stream = s /\ call'.kind = "rewind" /\ (call'.ok <=> ~refused)
  <2>1. UNCHANGED last_char
    BY DEF Rewind
  <2> QED BY <1>2, <1>3, <2>1 DEF Done, Leaves, InputSound, TypeOK
<1>7. /\ TypeOK' /\ EofIsEnd' /\ Ahead(s)' = AheadOf(content[s], st)
  BY <1>1, <1>5, <1>6, LeavesKeeps
<1>8. ~refused => AheadOf(content[s], st) = From(s, 0)
  BY <1>1, <1>4, AheadFile DEF From
<1>9. OneLineAtMost' /\ GivesNext(s) /\ SeeksRight(s)
  BY <1>6, <1>7, <1>8 DEF OneLineAtMost, GivesNext, Read, SeeksRight
<1> QED BY <1>6, <1>7, <1>9 DEF Called, InputSound

LEMMA FlagCallsKeep ==
    ASSUME InputSound, NEW s \in Streams, Fflush(s) \/ Clearerr(s)
    PROVE  Called(s)
<1>1. Placed(content[s], At(s)) /\ At(s) \in Readers
  BY SoundHere DEF InputSound, Placed
<1>2. content[s] \in Seq(Chars) /\ At(s).pos <= Len(content[s])
  BY SoundHere DEF InputSound, Placed
<1>3. CASE Fflush(s)
  <2>1. PICK st : st = [At(s) EXCEPT !.pushback = EOF]
    OBVIOUS
  <2>2. st \in Readers /\ st.pos = At(s).pos /\ st.eof = At(s).eof /\ st.pushback = EOF
    BY <1>1, <2>1 DEF Readers
  <2>3. st.eof => AheadOf(content[s], st) = <<>>
    <3>1. ASSUME st.eof PROVE AheadOf(content[s], st) = <<>>
      <4>1. At(s).pos = Len(content[s])
        BY <1>1, <1>2, <2>2, <3>1, AheadEmpty DEF Placed
      <4> QED BY <1>2, <2>2, <4>1, AheadEmpty
    <3> QED BY <3>1
  <2>4. Placed(content[s], st)
    BY <1>2, <2>2, <2>3 DEF Placed
  <2>5. Leaves(s, st) /\ call'.stream = s /\ call'.kind = "fflush"
    BY <1>3, <2>1 DEF Fflush, Done, Leaves, InputSound, TypeOK
  <2> QED BY <2>4, <2>5, OtherCalls
<1>4. CASE Clearerr(s)
  <2>1. PICK st : st = [At(s) EXCEPT !.eof = FALSE, !.error = FALSE]
    OBVIOUS
  <2>2. st \in Readers /\ st.pos = At(s).pos /\ st.eof = FALSE
    BY <1>1, <2>1 DEF Readers
  <2>3. Placed(content[s], st)
    BY <1>2, <2>2 DEF Placed
  <2>4. Leaves(s, st) /\ call'.stream = s /\ call'.kind = "clearerr"
    BY <1>4, <2>1 DEF Clearerr, Done, Leaves, InputSound, TypeOK
  <2> QED BY <2>3, <2>4, OtherCalls
<1> QED BY <1>3, <1>4

LEMMA InitSound == Init => InputSound
<1> SUFFICES ASSUME Init PROVE InputSound
  OBVIOUS
<1>1. TypeOK
  <2>1. \A s \in Streams : content[s] \in Seq(Chars)
    BY ContentsAreTexts DEF Init
  <2>2. \A s \in Streams : Len(content[s]) \in Nat
    BY <2>1
  <2>3. \A s \in Streams : pos[s] <= Len(content[s])
    BY <2>2 DEF Init
  <2> QED BY <2>3 DEF Init, TypeOK
<1>2. EofIsEnd
  BY DEF Init, EofIsEnd
<1>3. OneLineAtMost
  BY DEF Init, OneLineAtMost
<1> QED BY <1>1, <1>2, <1>3 DEF InputSound

LEMMA CallsKeep ==
    ASSUME InputSound, FreadAnyTime = FALSE, Next
    PROVE  \E s \in Streams : Called(s)
<1>1. PICK s \in Streams :
        \/ Fgetc(s)
        \/ \E c \in Pushed : Ungetc(s, c)
        \/ \E n \in Sizes : Fread(s, n)
        \/ \E n \in Sizes : Fgets(s, n)
        \/ \E origin \in Origins : \E offset \in Offsets(s, origin) :
              Fseek(s, offset, origin)
        \/ Rewind(s)
        \/ Fflush(s)
        \/ Clearerr(s)
  BY DEF Next
<1> QED BY <1>1, FgetcKeeps, UngetcKeeps, FreadKeeps, FgetsKeeps, FseekKeeps, RewindKeeps,
           FlagCallsKeep

\* The flags never lie and fgets never gives more than one line, whatever the program
\* reads, pushes back and seeks and whichever reads fail, as long as it calls fread
\* only with nothing pushed back (fgetc, ungetc, fgets, fread, fseek).
THEOREM InputIsSound ==
    ASSUME FreadAnyTime = FALSE
    PROVE  Spec => []InputSound
<1>1. InputSound /\ [Next]_vars => InputSound'
  <2> SUFFICES ASSUME InputSound, [Next]_vars PROVE InputSound'
    OBVIOUS
  <2>1. CASE Next
    BY <2>1, CallsKeep DEF Called
  <2>2. CASE UNCHANGED vars
    BY <2>2 DEF vars, InputSound, TypeOK, EofIsEnd, Ahead, OneLineAtMost
  <2> QED BY <2>1, <2>2
<1> QED BY <1>1, InitSound, PTL DEF Spec

\* fgetc, fgets and fread deliver the file in order, without gaps or repeats; fgetc and
\* fgets say that nothing is left only when nothing is; and fseek leads to the place the
\* program asked for, counted from its start, its end or the place it has read to, but
\* one too far for the last when a character is pushed back.
THEOREM InputInOrder ==
    ASSUME FreadAnyTime = FALSE
    PROVE  Spec => ReadsFromPlace
<1>1. InputSound /\ [Next]_vars => [\A s \in Streams : GivesNext(s)]_vars
  <2>1. ASSUME InputSound, Next, NEW s \in Streams PROVE GivesNext(s)
    <3>1. PICK t \in Streams : Called(t)
      BY <2>1, CallsKeep
    <3> QED BY <3>1 DEF Called, GivesNext, Read
  <2> QED BY <2>1
<1>2. InputSound /\ [Next]_vars => [\A s \in Streams : SeeksRight(s)]_vars
  <2>1. ASSUME InputSound, Next, NEW s \in Streams PROVE SeeksRight(s)
    <3>1. PICK t \in Streams : Called(t)
      BY <2>1, CallsKeep
    <3> QED BY <3>1 DEF Called, SeeksRight
  <2> QED BY <2>1
<1>3. Spec => []InputSound
  BY InputIsSound
<1>4. Spec => ReadsInOrder
  BY <1>1, <1>3, PTL DEF Spec, ReadsInOrder
<1>5. Spec => SeeksToPlace
  BY <1>2, <1>3, PTL DEF Spec, SeeksToPlace
<1> QED BY <1>4, <1>5 DEF ReadsFromPlace

-----------------------------------------------------------------------------
(* Text output *)

\* What the program sends, and what may stand in front of a text.
Marks == Out!Chars \cup {"flush"}
Seens == Out!Chars \cup {Out!EOF, "flush"}

LEMMA MarksApart ==
    /\ Out!EOF \notin Out!Chars /\ "flush" \notin Out!Chars /\ Out!CR \in Out!Chars
    /\ Out!LF \in Out!Chars /\ Out!LF # Out!CR
    /\ Out!EOF # Out!CR /\ "flush" # Out!CR /\ "flush" # Out!LF
BY DEF Out!Chars, Out!EOF, Out!LF, Out!CR

\* What becomes of x, which follows c.
PieceOf(c, x) ==
    IF x = "flush" THEN <<>> ELSE IF x = Out!LF /\ c # Out!CR THEN <<Out!CR, Out!LF>> ELSE <<x>>
PiecesOf(c, text) ==
    [i \in 1 .. Len(text) |-> PieceOf(IF i = 1 THEN c ELSE text[i - 1], text[i])]

\* The last character there is, which is c when a text is empty.
EndOf(c, text) == IF text = <<>> THEN c ELSE text[Len(text)]

LEMMA PieceTyped ==
    ASSUME NEW c \in Seens, NEW x \in Marks
    PROVE  PieceOf(c, x) \in Seq(Out!Chars)
<1>1. /\ <<>> \in Seq(Out!Chars) /\ <<Out!CR, Out!LF>> \in Seq(Out!Chars)
      /\ x # "flush" => x \in Out!Chars
  BY MarksApart DEF Marks
<1>2. x # "flush" => <<x>> \in Seq(Out!Chars)
  BY <1>1
<1> QED BY <1>1, <1>2 DEF PieceOf

LEMMA PiecesTyped ==
    ASSUME NEW c \in Seens, NEW text \in Seq(Marks)
    PROVE  /\ PiecesOf(c, text) \in Seq(Seq(Out!Chars)) /\ Len(PiecesOf(c, text)) = Len(text)
           /\ Out!TranslateAfter(c, text) = Joined(PiecesOf(c, text))
           /\ Out!TranslateAfter(c, text) \in Seq(Out!Chars)
<1> DEFINE P == PiecesOf(c, text)
           N == Len(text)
<1>1. N \in Nat /\ \A i \in 1 .. N : text[i] \in Marks
  OBVIOUS
<1>2. ASSUME NEW i \in 1 .. N PROVE PieceOf(IF i = 1 THEN c ELSE text[i - 1], text[i]) \in Seq(Out!Chars)
  <2>1. (IF i = 1 THEN c ELSE text[i - 1]) \in Seens
    <3>1. i # 1 => i - 1 \in 1 .. N
      BY <1>1
    <3> QED BY <1>1, <3>1 DEF Seens, Marks
  <2> QED BY <1>1, <2>1, PieceTyped
<1>3. P \in Seq(Seq(Out!Chars)) /\ Len(P) = N
  BY <1>1, <1>2 DEF PiecesOf
<1> DEFINE Q == [i \in 1 .. Len(text) |->
                   CASE text[i] = "flush" -> <<>>
                     [] text[i] = Out!LF /\ (<<c>> \o text)[i] # Out!CR -> <<Out!CR, Out!LF>>
                     [] OTHER -> <<text[i]>>]
<1>4. ASSUME NEW i \in 1 .. N PROVE Q[i] = P[i]
  <2>1. (<<c>> \o text)[i] = IF i = 1 THEN c ELSE text[i - 1]
    BY <1>1
  <2>2. Q[i] = IF text[i] = "flush" THEN <<>>
               ELSE IF text[i] = Out!LF /\ (<<c>> \o text)[i] # Out!CR THEN <<Out!CR, Out!LF>> ELSE <<text[i]>>
    BY MarksApart
  <2>3. P[i] = PieceOf(IF i = 1 THEN c ELSE text[i - 1], text[i])
    BY DEF PiecesOf
  <2> HIDE DEF P, Q
  <2> QED BY <2>1, <2>2, <2>3 DEF PieceOf
<1>5. Q = P
  BY <1>4 DEF PiecesOf
<1>6. Out!TranslateAfter(c, text) = Out!FlattenSeq(Q)
  BY DEF Out!TranslateAfter
<1>7. Out!FlattenSeq(P) = Joined(P)
  BY DEF Out!FlattenSeq, Joined
<1> HIDE DEF P, Q
<1>8. Joined(P) \in Seq(Out!Chars)
  BY <1>3, JoinedMore
<1> QED BY <1>3, <1>5, <1>6, <1>7, <1>8 DEF P

LEMMA EndTyped ==
    ASSUME NEW c \in Seens, NEW a \in Seq(Marks), NEW b \in Seq(Marks)
    PROVE  /\ EndOf(c, a) \in Seens
           /\ a \o b \in Seq(Marks)
           /\ EndOf(EndOf(c, a), b) = EndOf(c, a \o b)
<1>1. a # <<>> => Len(a) \in 1 .. Len(a) /\ a[Len(a)] \in Marks
  OBVIOUS
<1>2. EndOf(c, a) \in Seens
  BY <1>1 DEF EndOf, Seens, Marks
<1>3. EndOf(EndOf(c, a), b) = EndOf(c, a \o b)
  <2>1. CASE b = <<>>
    BY <2>1 DEF EndOf
  <2>2. CASE b # <<>>
    <3>1. a \o b # <<>> /\ Len(a \o b) = Len(a) + Len(b) /\ (a \o b)[Len(a) + Len(b)] = b[Len(b)]
      BY <2>2
    <3> QED BY <2>2, <3>1 DEF EndOf
  <2> QED BY <2>1, <2>2
<1> QED BY <1>2, <1>3

\* A text is translated in parts as it is as a whole.
LEMMA TranslatesOn ==
    ASSUME NEW c \in Seens, NEW a \in Seq(Marks), NEW b \in Seq(Marks)
    PROVE  Out!TranslateAfter(c, a \o b) = Out!TranslateAfter(c, a) \o Out!TranslateAfter(EndOf(c, a), b)
<1> DEFINE d == EndOf(c, a)
           t == a \o b
           P == PiecesOf(c, a)
           Q == PiecesOf(d, b)
           R == PiecesOf(c, t)
           PQ == P \o Q
<1>1. d \in Seens /\ t \in Seq(Marks)
  BY EndTyped
<1>1a. /\ Len(t) = Len(a) + Len(b) /\ Len(a) \in Nat /\ Len(b) \in Nat
       /\ (\A i \in 1 .. Len(a) : t[i] = a[i])
       /\ (\A i \in 1 .. Len(b) : t[Len(a) + i] = b[i])
  OBVIOUS
<1>1b. Len(a) > 0 => d = a[Len(a)]
  BY DEF EndOf
<1>1c. Len(a) = 0 => d = c
  BY DEF EndOf
<1> HIDE DEF d, t
<1>2. /\ P \in Seq(Seq(Out!Chars)) /\ Len(P) = Len(a) /\ Out!TranslateAfter(c, a) = Joined(P)
      /\ Q \in Seq(Seq(Out!Chars)) /\ Len(Q) = Len(b) /\ Out!TranslateAfter(d, b) = Joined(Q)
      /\ R \in Seq(Seq(Out!Chars)) /\ Len(R) = Len(t) /\ Out!TranslateAfter(c, t) = Joined(R)
  BY <1>1, PiecesTyped
<1>3. ASSUME NEW i \in 1 .. Len(a) PROVE R[i] = P[i]
  <2>1. i \in 1 .. Len(t) /\ t[i] = a[i] /\ (i # 1 => t[i - 1] = a[i - 1])
    BY <1>1a
  <2> QED BY <2>1 DEF PiecesOf
<1>4. ASSUME NEW i \in 1 .. Len(b) PROVE R[Len(a) + i] = Q[i]
  <2> DEFINE k == Len(a) + i
  <2>1. k \in 1 .. Len(t) /\ t[k] = b[i]
    BY <1>1a
  <2>2. (IF k = 1 THEN c ELSE t[k - 1]) = (IF i = 1 THEN d ELSE b[i - 1])
    <3>1. CASE i = 1
      <4>1. CASE Len(a) = 0
        BY <3>1, <4>1, <1>1c
      <4>2. CASE Len(a) > 0
        <5>1. k # 1 /\ k - 1 = Len(a) /\ Len(a) \in 1 .. Len(a)
          BY <3>1, <4>2, <1>1a
        <5>2. t[k - 1] = a[Len(a)]
          BY <1>1a, <5>1
        <5> QED BY <3>1, <5>1, <5>2, <4>2, <1>1b
      <4> QED BY <4>1, <4>2, <1>1a
    <3>2. CASE i # 1
      <4>1. k # 1 /\ k - 1 = Len(a) + (i - 1) /\ i - 1 \in 1 .. Len(b)
        BY <3>2, <1>1a
      <4>2. t[Len(a) + (i - 1)] = b[i - 1]
        BY <4>1, <1>1a
      <4> HIDE DEF k
      <4> QED BY <3>2, <4>1, <4>2
    <3> QED BY <3>1, <3>2
  <2> HIDE DEF k
  <2>3. R[k] = PieceOf(IF k = 1 THEN c ELSE t[k - 1], t[k])
    BY <2>1 DEF PiecesOf
  <2>4. Q[i] = PieceOf(IF i = 1 THEN d ELSE b[i - 1], b[i])
    BY DEF PiecesOf
  <2>5. R[k] = Q[i]
    BY <2>1, <2>2, <2>3, <2>4
  <2> QED BY <2>5 DEF k
<1> HIDE DEF P, Q, R
<1>5. R = P \o Q
  <2> DEFINE l == Len(a)
             m == Len(b)
  <2>1. /\ PQ \in Seq(Seq(Out!Chars)) /\ Len(PQ) = Len(P) + Len(Q)
        /\ \A i \in 1 .. Len(P) + Len(Q) : PQ[i] = IF i <= Len(P) THEN P[i] ELSE Q[i - Len(P)]
    BY <1>2, JoinIs
  <2>2. l \in Nat /\ m \in Nat /\ Len(R) = l + m /\ Len(PQ) = l + m /\ Len(P) = l
        /\ (\A i \in 1 .. l : R[i] = P[i]) /\ (\A i \in 1 .. m : R[l + i] = Q[i])
    BY <1>1a, <1>2, <1>3, <1>4, <2>1
  <2> HIDE DEF l, m, PQ
  <2>3. ASSUME NEW i \in 1 .. Len(R) PROVE R[i] = PQ[i]
    <3>1. CASE i <= l
      BY <2>1, <2>2, <3>1
    <3>2. CASE ~(i <= l)
      <4>1. i - l \in 1 .. m /\ l + (i - l) = i /\ i \in 1 .. l + m
        BY <2>2, <3>2
      <4>2. R[l + (i - l)] = Q[i - l]
        BY <2>2, <4>1
      <4>3. PQ[i] = Q[i - l]
        BY <2>1, <2>2, <3>2, <4>1
      <4> QED BY <4>1, <4>2, <4>3
    <3> QED BY <3>1, <3>2
  <2>4. R = PQ
    BY <1>2, <2>1, <2>2, <2>3, SameSequence
  <2> QED BY <2>4 DEF PQ
<1>6. Joined(P \o Q) = Joined(P) \o Joined(Q)
  BY <1>2, JoinedBoth
<1> QED BY <1>2, <1>5, <1>6 DEF d, t

\* The translation of nothing, and of one character.
LEMMA TranslatesFirst ==
    ASSUME NEW c \in Seens
    PROVE  /\ Out!TranslateAfter(c, <<>>) = <<>>
           /\ \A x \in Marks : Out!TranslateAfter(c, <<x>>) = PieceOf(c, x)
<1>1. Out!TranslateAfter(c, <<>>) = <<>>
  <2>1. <<>> \in Seq(Marks) /\ PiecesOf(c, <<>>) = <<>>
    BY DEF PiecesOf
  <2>2. Out!TranslateAfter(c, <<>>) = Joined(<<>>)
    BY <2>1, PiecesTyped
  <2> QED BY <2>2, JoinedMore
<1>2. ASSUME NEW x \in Marks PROVE Out!TranslateAfter(c, <<x>>) = PieceOf(c, x)
  <2> DEFINE p == PieceOf(c, x)
  <2>1. p \in Seq(Out!Chars)
    BY PieceTyped
  <2>2. <<x>> \in Seq(Marks) /\ PiecesOf(c, <<x>>) = <<p>>
    BY DEF PiecesOf
  <2>3. Out!TranslateAfter(c, <<x>>) = Joined(<<p>>)
    BY <2>2, PiecesTyped
  <2> HIDE DEF p
  <2>4. <<p>> = Append(<<>>, p) /\ <<>> \in Seq(Seq(Out!Chars))
    OBVIOUS
  <2>5. Joined(Append(<<>>, p)) = Joined(<<>>) \o p /\ Joined(<<>>) = <<>>
    BY <2>1, <2>4, JoinedMore
  <2>6. <<>> \o p = p
    BY <2>1, EmptyJoin
  <2> QED BY <2>3, <2>4, <2>5, <2>6 DEF p
<1> QED BY <1>1, <1>2

\* Of what was in front it matters only whether it was a Out!CR.
LEMMA SameAfter ==
    ASSUME NEW c \in Seens, NEW d \in Seens, c = Out!CR <=> d = Out!CR, NEW text \in Seq(Marks)
    PROVE  Out!TranslateAfter(c, text) = Out!TranslateAfter(d, text)
<1>1. PiecesOf(c, text) = PiecesOf(d, text)
  <2>1. \A i \in 1 .. Len(text) : PieceOf(IF i = 1 THEN c ELSE text[i - 1], text[i])
                                = PieceOf(IF i = 1 THEN d ELSE text[i - 1], text[i])
    BY DEF PieceOf
  <2> QED BY <2>1 DEF PiecesOf
<1> QED BY <1>1, PiecesTyped

-----------------------------------------------------------------------------
(* A bufferful of fwrite: its loop keeps Filled, and takes in one character, *)
(* one Out!CR, or both.                                                         *)

LEMMA CharsAreMarks ==
    /\ Out!Chars \subseteq Marks /\ Seq(Out!Chars) \subseteq Seq(Marks)
    /\ Out!Chars \cup {Out!EOF} \subseteq Seens
<1>1. Out!Chars \subseteq Marks /\ Out!Chars \cup {Out!EOF} \subseteq Seens
  BY DEF Marks, Seens
<1>2. ASSUME NEW S, NEW T, S \subseteq T PROVE Seq(S) \subseteq Seq(T)
  <2> SUFFICES ASSUME NEW s \in Seq(S) PROVE s \in Seq(T)
    OBVIOUS
  <2>1. Len(s) \in Nat /\ s = [k \in 1 .. Len(s) |-> s[k]] /\ \A k \in 1 .. Len(s) : s[k] \in T
    BY <1>2
  <2> QED BY <2>1
<1> QED BY <1>1, <1>2

\* What is left of a text is translated from its first character on.
LEMMA TranslatesRest ==
    ASSUME NEW e \in Seens, NEW str \in Seq(Out!Chars), NEW n \in Nat, n < Len(str)
    PROVE  /\ str[n + 1] \in Out!Chars
           /\ SubSeq(str, n + 2, Len(str)) \in Seq(Out!Chars)
           /\ Out!TranslateAfter(e, SubSeq(str, n + 1, Len(str)))
                = PieceOf(e, str[n + 1]) \o Out!TranslateAfter(str[n + 1], SubSeq(str, n + 2, Len(str)))
<1> DEFINE x == str[n + 1]
           r == SubSeq(str, n + 2, Len(str))
<1>1. n + 1 \in 1 .. Len(str) /\ (n + 1) + 1 = n + 2
  OBVIOUS
<1>2. SubSeq(str, n + 1, Len(str)) = <<x>> \o r
  BY <1>1, PartStarts
<1>3. x \in Out!Chars /\ r \in Seq(Out!Chars)
  BY <1>1
<1> HIDE DEF x, r
<1>4. <<x>> \in Seq(Marks) /\ r \in Seq(Marks) /\ x \in Marks
  BY <1>3, CharsAreMarks
<1>5. EndOf(e, <<x>>) = x
  BY DEF EndOf
<1>6. Out!TranslateAfter(e, <<x>> \o r) = Out!TranslateAfter(e, <<x>>) \o Out!TranslateAfter(x, r)
  BY ZenonT(60), <1>4, <1>5, TranslatesOn
<1>7. Out!TranslateAfter(e, <<x>>) = PieceOf(e, x)
  BY <1>4, TranslatesFirst
<1> QED BY <1>2, <1>3, <1>6, <1>7 DEF x, r

FillStates == [b : Seq(Out!Chars), got : Nat, addcr : Nat, done : BOOLEAN]

\* s is a buffer on its way: it holds the translation of the got characters it has
\* taken, or of these and the Out!CR of the next.
Filled(str, last, s) ==
    /\ s \in FillStates
    /\ s.got <= Len(str) /\ Len(s.b) = s.got + s.addcr
    /\ Out!TranslateAfter(last, str)
         = s.b \o Out!TranslateAfter(EndOf(last, s.b), SubSeq(str, s.got + 1, Len(str)))
    /\ s.got = 0 => \/ s.b = <<>>
                    \/ s.done /\ s.b = <<Out!CR>> /\ last # Out!CR
    /\ s.got > 0 /\ (~s.done \/ s.got = Len(str)) => s.b # <<>> /\ EndOf(last, s.b) = str[s.got]

\* From s to t one puts p into the buffer: the next character, its Out!CR, or both.
PutInto(str, last, s, t, p) ==
    /\ Filled(str, last, s) /\ s.got < Len(str) /\ ~s.done
    /\ p \in Seq(Out!Chars) /\ p # <<>>
    /\ t \in FillStates /\ t.b = s.b \o p
    /\ t.got = s.got \/ t.got = s.got + 1
    /\ t.got = s.got => t.done /\ p = <<Out!CR>> /\ (s.got = 0 => last # Out!CR)
    /\ t.got = s.got + 1 => p[Len(p)] = str[s.got + 1]
    /\ Len(p) + s.addcr + s.got = t.addcr + t.got

LEMMA PutKeeps ==
    ASSUME NEW str \in Seq(Out!Chars), NEW last \in Out!Chars \cup {Out!EOF}, NEW s, NEW t, NEW p,
           PutInto(str, last, s, t, p),
           NEW Q \in Seq(Out!Chars),
           Out!TranslateAfter(EndOf(last, s.b), SubSeq(str, s.got + 1, Len(str))) = p \o Q,
           Q = Out!TranslateAfter(p[Len(p)], SubSeq(str, t.got + 1, Len(str)))
    PROVE  Filled(str, last, t) /\ t.b # <<>>
<1> DEFINE b == s.b
           q == b \o p
           l == Len(str)
<1>1. /\ b \in Seq(Out!Chars) /\ p \in Seq(Out!Chars) /\ p # <<>> /\ s \in FillStates /\ t \in FillStates
      /\ t.b = q /\ s.got \in Nat /\ s.addcr \in Nat /\ t.got \in Nat /\ t.addcr \in Nat
      /\ Len(b) = s.got + s.addcr /\ Len(p) + s.addcr + s.got = t.addcr + t.got
      /\ l \in Nat /\ s.got < l /\ (t.got = s.got \/ t.got = s.got + 1)
  BY DEF PutInto, Filled, FillStates
<1>2. /\ q \in Seq(Out!Chars) /\ Len(q) = Len(b) + Len(p) /\ q[Len(q)] = p[Len(p)] /\ q # <<>>
      /\ Len(b) \in Nat /\ Len(p) \in Nat
  <2>1. /\ q \in Seq(Out!Chars) /\ Len(q) = Len(b) + Len(p)
        /\ \A i \in 1 .. Len(b) + Len(p) : q[i] = IF i <= Len(b) THEN b[i] ELSE p[i - Len(b)]
    BY <1>1, JoinIs
  <2>2. Len(b) \in Nat /\ Len(p) \in Nat /\ Len(p) > 0
    BY <1>1
  <2> HIDE DEF q, b
  <2>3. q # <<>>
    BY <2>1, <2>2
  <2> DEFINE j == Len(b) + Len(p)
  <2>4. j \in 1 .. j /\ ~(j <= Len(b)) /\ j - Len(b) = Len(p)
    BY <2>2
  <2>5. q[j] = p[Len(p)]
    BY <2>1, <2>4
  <2> QED BY <2>1, <2>2, <2>3, <2>5
<1>3. EndOf(last, q) = p[Len(p)]
  <2> HIDE DEF q
  <2> QED BY <1>2 DEF EndOf
<1>4. Out!TranslateAfter(last, str) = q \o Q
  <2>1. Out!TranslateAfter(last, str) = b \o (p \o Q)
    BY DEF PutInto, Filled
  <2>2. (b \o p) \o Q = b \o (p \o Q)
    <3>1. b \in Seq(Out!Chars) /\ p \in Seq(Out!Chars) /\ Q \in Seq(Out!Chars)
      BY <1>1
    <3> HIDE DEF b
    <3> QED BY ONLY <3>1, JoinAssociates
  <2> QED BY <2>1, <2>2
<1>5. t.got = 0 => q = <<Out!CR>> /\ t.done /\ last # Out!CR
  <2> SUFFICES ASSUME t.got = 0 PROVE q = <<Out!CR>> /\ t.done /\ last # Out!CR
    OBVIOUS
  <2>1. s.got = 0 /\ t.got = s.got
    BY <1>1
  <2>2. b = <<>> /\ p = <<Out!CR>> /\ t.done /\ last # Out!CR
    BY <2>1 DEF PutInto, Filled
  <2>3. <<>> \o p = p
    BY <1>1, EmptyJoin
  <2> HIDE DEF b
  <2> QED BY <2>2, <2>3
<1>6. t.got > 0 /\ (~t.done \/ t.got = l) => EndOf(last, q) = str[t.got]
  <2>1. CASE t.got = s.got
    <3>1. t.got # l /\ t.done
      BY <1>1, <2>1 DEF PutInto
    <3> QED BY <3>1
  <2>2. CASE t.got = s.got + 1
    <3>1. p[Len(p)] = str[s.got + 1]
      BY <2>2 DEF PutInto
    <3> HIDE DEF q, l, b
    <3> QED BY <1>3, <2>2, <3>1
  <2> QED BY <1>1, <2>1, <2>2
<1>7. Out!TranslateAfter(last, str) = q \o Out!TranslateAfter(EndOf(last, q), SubSeq(str, t.got + 1, l))
  <2> HIDE DEF q
  <2> QED BY <1>3, <1>4
<1> HIDE DEF q, b
<1>8. t.got <= l /\ Len(t.b) = t.got + t.addcr
  <2> DEFINE lp == Len(p)
             lb == Len(b)
             lq == Len(t.b)
  <2>1. /\ lq = lb + lp /\ lb \in Nat /\ lp \in Nat /\ lb = s.got + s.addcr
        /\ lp + s.addcr + s.got = t.addcr + t.got
    BY <1>1, <1>2
  <2>2. lq = t.got + t.addcr
    <3> DEFINE sg == s.got
               sa == s.addcr
               tg == t.got
               ta == t.addcr
    <3>1. /\ lq = lb + lp /\ lb = sg + sa /\ lp + sa + sg = ta + tg
          /\ sg \in Nat /\ sa \in Nat /\ tg \in Nat /\ ta \in Nat /\ lp \in Nat
      BY <1>1, <2>1
    <3> HIDE DEF lp, lb, lq, sg, sa, tg, ta
    <3>2. lq = tg + ta
      BY ONLY <3>1
    <3> QED BY <3>2 DEF tg, ta
  <2> HIDE DEF l, lp, lb, lq
  <2>3. t.got <= l
    BY <1>1
  <2> QED BY <2>2, <2>3 DEF lq
<1> QED BY <1>1, <1>2, <1>5, <1>6, <1>7, <1>8 DEF Filled

\* One turn of the loop that fills a buffer.
FillTurn(str, last, limit, s) ==
    IF s.done \/ Len(s.b) >= limit \/ s.got >= Len(str)
    THEN [s EXCEPT !.done = TRUE]
    ELSE IF ~Out!NeedsCR(str, s.got, last)
    THEN [s EXCEPT !.b = Append(@, str[s.got + 1]), !.got = @ + 1]
    ELSE IF Len(s.b) + 1 >= limit
    THEN [s EXCEPT !.b = Append(@, Out!CR), !.addcr = @ + 1, !.done = TRUE]
    ELSE [s EXCEPT !.b = @ \o <<Out!CR, Out!LF>>, !.addcr = @ + 1, !.got = @ + 1]

LEMMA TwoEnds ==
    /\ <<Out!CR>> \in Seq(Out!Chars) /\ <<Out!LF>> \in Seq(Out!Chars) /\ <<Out!CR, Out!LF>> \in Seq(Out!Chars)
    /\ <<Out!CR>> \o <<Out!LF>> = <<Out!CR, Out!LF>>
    /\ Len(<<Out!CR>>) = 1 /\ Len(<<Out!CR, Out!LF>>) = 2
<1>1. Out!CR \in Out!Chars /\ Out!LF \in Out!Chars
  BY MarksApart
<1>2. <<Out!CR>> \in Seq(Out!Chars) /\ <<Out!LF>> \in Seq(Out!Chars) /\ <<Out!CR, Out!LF>> \in Seq(Out!Chars)
  BY <1>1
<1>3. <<Out!CR>> \o <<Out!LF>> = <<Out!CR, Out!LF>>
  <2> DEFINE q == <<Out!CR>> \o <<Out!LF>>
             t == <<Out!CR, Out!LF>>
  <2>1. /\ q \in Seq(Out!Chars) /\ Len(q) = Len(<<Out!CR>>) + Len(<<Out!LF>>)
        /\ \A i \in 1 .. Len(<<Out!CR>>) + Len(<<Out!LF>>) :
             q[i] = IF i <= Len(<<Out!CR>>) THEN <<Out!CR>>[i] ELSE <<Out!LF>>[i - Len(<<Out!CR>>)]
    BY <1>2, JoinIs
  <2>2. t \in Seq(Out!Chars) /\ Len(t) = 2 /\ t[1] = Out!CR /\ t[2] = Out!LF
    BY <1>2
  <2>3. Len(q) = 2 /\ q[1] = Out!CR /\ q[2] = Out!LF
    <3>1. Len(<<Out!CR>>) = 1 /\ Len(<<Out!LF>>) = 1 /\ <<Out!CR>>[1] = Out!CR /\ <<Out!LF>>[1] = Out!LF
      OBVIOUS
    <3> HIDE DEF q
    <3> QED BY <2>1, <3>1
  <2>4. \A i \in 1 .. 2 : i = 1 \/ i = 2
    OBVIOUS
  <2> HIDE DEF q, t
  <2>5. q = t
    BY <2>1, <2>2, <2>3, <2>4, SameSequence
  <2> QED BY <2>5 DEF q, t
<1> QED BY <1>2, <1>3

LEMMA FillTurnKeeps ==
    ASSUME NEW str \in Seq(Out!Chars), NEW last \in Out!Chars \cup {Out!EOF}, NEW limit \in Nat,
           NEW s, Filled(str, last, s), NEW t, t = FillTurn(str, last, limit, s)
    PROVE  /\ Filled(str, last, t)
           /\ s.b # <<>> \/ (~s.done /\ limit > 0 /\ str # <<>>) => t.b # <<>>
<1> DEFINE n == s.got
           b == s.b
           l == Len(str)
           x == str[n + 1]
           e == EndOf(last, b)
           r == SubSeq(str, n + 2, l)
<1>1. /\ s \in FillStates /\ b \in Seq(Out!Chars) /\ n \in Nat /\ s.addcr \in Nat /\ s.done \in BOOLEAN
      /\ n <= l /\ l \in Nat /\ Len(b) = n + s.addcr /\ Len(b) \in Nat
  BY DEF Filled, FillStates
<1>2. CASE s.done \/ Len(b) >= limit \/ n >= l
  <2>1. t = [s EXCEPT !.done = TRUE]
    BY <1>2 DEF FillTurn
  <2>2. t \in FillStates /\ t.b = s.b /\ t.got = s.got /\ t.addcr = s.addcr /\ t.done = TRUE
    BY <1>1, <2>1 DEF FillStates
  <2>3. ~(~s.done /\ limit > 0 /\ str # <<>> /\ b = <<>>)
    <3> SUFFICES ASSUME ~s.done, limit > 0, str # <<>>, b = <<>> PROVE FALSE
      OBVIOUS
    <3>1. Len(b) = 0 /\ l > 0
      OBVIOUS
    <3> HIDE DEF l, b, n
    <3> QED BY <1>1, <1>2, <3>1
  <2>4. Filled(str, last, t)
    <3>1. s.got = 0 => s.b = <<>> \/ (s.b = <<Out!CR>> /\ last # Out!CR)
      BY DEF Filled
    <3>2. s.got > 0 /\ s.got = Len(str) => s.b # <<>> /\ EndOf(last, s.b) = str[s.got]
      BY DEF Filled
    <3>3. Out!TranslateAfter(last, str)
            = s.b \o Out!TranslateAfter(EndOf(last, s.b), SubSeq(str, s.got + 1, Len(str)))
      BY DEF Filled
    <3> QED BY <1>1, <2>2, <3>1, <3>2, <3>3 DEF Filled
  <2> QED BY <2>2, <2>3, <2>4
<1>3. CASE ~(s.done \/ Len(b) >= limit \/ n >= l)
  <2>1. ~s.done /\ n < l
    BY <1>1, <1>3
  <2>2. /\ e \in Seens /\ e = IF n = 0 THEN last ELSE str[n]
    <3>1. CASE n = 0
      <4>1. b = <<>>
        BY <2>1, <3>1 DEF Filled
      <4> QED BY <4>1, <3>1, CharsAreMarks DEF EndOf
    <3>2. CASE n # 0
      <4>1. n > 0 /\ n \in 1 .. l
        BY <1>1, <3>2
      <4>2. e = str[n]
        BY <2>1, <4>1 DEF Filled
      <4>3. str[n] \in Out!Chars
        BY <4>1
      <4> HIDE DEF e
      <4> QED BY <3>2, <4>2, <4>3, CharsAreMarks
    <3> QED BY <3>1, <3>2
  <2> DEFINE R == Out!TranslateAfter(x, r)
             W == Out!TranslateAfter(e, SubSeq(str, n + 1, l))
  <2>3. x \in Out!Chars /\ r \in Seq(Out!Chars) /\ W = PieceOf(e, x) \o R
    <3> HIDE DEF e
    <3> QED BY <1>1, <2>1, <2>2, TranslatesRest
  <2>4. Out!NeedsCR(str, n, last) <=> x = Out!LF /\ e # Out!CR
    <3> HIDE DEF e
    <3> QED BY <2>2 DEF Out!NeedsCR
  <2>5. x # "flush"
    BY <2>3, MarksApart
  <2>6. R \in Seq(Out!Chars)
    <3> HIDE DEF r, x
    <3> QED BY <2>3, CharsAreMarks, PiecesTyped
  <2>7. SubSeq(str, (n + 1) + 1, l) = r
    <3>1. (n + 1) + 1 = n + 2
      BY <1>1
    <3> QED BY <3>1
  <2>8. CASE ~Out!NeedsCR(str, n, last)
    <3> DEFINE p == <<x>>
    <3>1. PieceOf(e, x) = p
      BY <2>4, <2>5, <2>8 DEF PieceOf
    <3>2. p \in Seq(Out!Chars) /\ p # <<>> /\ Len(p) = 1 /\ p[Len(p)] = x
      BY <2>3
    <3>3. t = [s EXCEPT !.b = Append(@, x), !.got = @ + 1]
      BY <1>3, <2>8 DEF FillTurn
    <3>4. Append(s.b, x) = s.b \o p /\ Append(s.b, x) \in Seq(Out!Chars)
      <4>1. s.b \in Seq(Out!Chars) /\ x \in Out!Chars
        BY <1>1, <2>3
      <4> HIDE DEF x, b
      <4> QED BY ONLY <4>1, AppendJoins
    <3>5. /\ t.b = s.b \o p /\ t.got = s.got + 1 /\ t.addcr = s.addcr /\ t.done = s.done
          /\ t \in FillStates
      <4> DEFINE q == Append(s.b, x)
                 k == s.got + 1
                 c == s.addcr + 1
      <4>1. t = [s EXCEPT !.b = q, !.got = k]
        BY <3>3
      <4>2. q = s.b \o p /\ q \in Seq(Out!Chars) /\ k \in Nat /\ c \in Nat
        BY <1>1, <3>4
      <4>3. k = s.got + 1 /\ c = s.addcr + 1
        OBVIOUS
      <4> HIDE DEF p, x, b, q, k, c
      <4>4. s \in FillStates
        BY <1>1
      <4>5. t.b = q /\ t.got = k /\ t.addcr = s.addcr /\ t.done = s.done /\ t \in FillStates
        BY ONLY <4>1, <4>2, <4>4 DEF FillStates
      <4> QED BY <4>2, <4>3, <4>5
    <3> HIDE DEF p, e, r, x
    <3>6. PutInto(str, last, s, t, p)
      <4>1. Len(p) + s.addcr + s.got = t.addcr + t.got /\ t.got # s.got
        <5>1. /\ Len(p) = 1 /\ t.got = s.got + 1 /\ t.addcr = s.addcr
              /\ s.got \in Nat /\ s.addcr \in Nat
          BY <1>1, <3>2, <3>5
        <5> QED BY ONLY <5>1
      <4> QED BY <2>1, <3>2, <3>5, <4>1 DEF PutInto, x
    <3>7. W = p \o R /\ R = Out!TranslateAfter(p[Len(p)], SubSeq(str, t.got + 1, l))
      BY <2>3, <2>7, <3>1, <3>2, <3>5
    <3> HIDE DEF R
    <3>8. Filled(str, last, t) /\ t.b # <<>>
      BY <2>6, <3>6, <3>7, PutKeeps DEF e
    <3> QED BY <3>8
  <2>9. CASE Out!NeedsCR(str, n, last) /\ Len(b) + 1 >= limit
    <3> DEFINE p == <<Out!CR>>
               Q == <<Out!LF>> \o R
    <3>1. x = Out!LF /\ e # Out!CR /\ PieceOf(e, x) = <<Out!CR, Out!LF>> /\ PieceOf(Out!CR, x) = <<Out!LF>>
      BY <2>4, <2>5, <2>9 DEF PieceOf
    <3>2. p \in Seq(Out!Chars) /\ p # <<>> /\ Len(p) = 1 /\ p[Len(p)] = Out!CR /\ Out!CR \in Out!Chars
      BY MarksApart
    <3>3. t = [s EXCEPT !.b = Append(@, Out!CR), !.addcr = @ + 1, !.done = TRUE]
      BY <1>3, <2>9 DEF FillTurn
    <3>4. Append(s.b, Out!CR) = s.b \o p /\ Append(s.b, Out!CR) \in Seq(Out!Chars)
      <4>1. s.b \in Seq(Out!Chars) /\ Out!CR \in Out!Chars
        BY <1>1, <3>2
      <4> QED BY ONLY <4>1, AppendJoins
    <3>5. /\ t.b = s.b \o p /\ t.got = s.got /\ t.addcr = s.addcr + 1 /\ t.done = TRUE
          /\ t \in FillStates
      <4> DEFINE q == Append(s.b, Out!CR)
                 k == s.got + 1
                 c == s.addcr + 1
      <4>1. t = [s EXCEPT !.b = q, !.addcr = c, !.done = TRUE]
        BY <3>3
      <4>2. q = s.b \o p /\ q \in Seq(Out!Chars) /\ k \in Nat /\ c \in Nat
        BY <1>1, <3>4
      <4>3. k = s.got + 1 /\ c = s.addcr + 1
        OBVIOUS
      <4> HIDE DEF p, x, b, q, k, c
      <4>4. s \in FillStates
        BY <1>1
      <4>5. t.b = q /\ t.got = s.got /\ t.addcr = c /\ t.done = TRUE /\ t \in FillStates
        BY ONLY <4>1, <4>2, <4>4 DEF FillStates
      <4> QED BY <4>2, <4>3, <4>5
    <3>6. Out!TranslateAfter(Out!CR, SubSeq(str, n + 1, l)) = Q
      <4>1. Out!CR \in Seens
        BY <3>2, CharsAreMarks
      <4>2. Out!TranslateAfter(Out!CR, SubSeq(str, n + 1, l)) = PieceOf(Out!CR, x) \o R
        BY <1>1, <2>1, <4>1, TranslatesRest
      <4> HIDE DEF R, x
      <4> QED BY <3>1, <4>2
    <3>7. Q \in Seq(Out!Chars) /\ W = p \o Q
      <4> HIDE DEF R, W, x, e
      <4>1. (<<Out!CR>> \o <<Out!LF>>) \o R = <<Out!CR>> \o (<<Out!LF>> \o R) /\ <<Out!LF>> \o R \in Seq(Out!Chars)
        BY <2>6, TwoEnds, JoinAssociates, JoinIs
      <4> QED BY <2>3, <3>1, <4>1, TwoEnds
    <3>8. n = 0 => last # Out!CR
      <4> HIDE DEF e
      <4> QED BY <2>2, <3>1
    <3>9. p = <<Out!CR>>
      OBVIOUS
    <3> HIDE DEF p, e, r, x, Q, R
    <3>10. PutInto(str, last, s, t, p)
      <4>1. Len(p) + s.addcr + s.got = t.addcr + t.got /\ t.got # s.got + 1
        BY <1>1, <3>2, <3>5
      <4> QED BY <2>1, <3>2, <3>5, <3>8, <3>9, <4>1 DEF PutInto
    <3>11. Q = Out!TranslateAfter(p[Len(p)], SubSeq(str, t.got + 1, l))
      BY <3>2, <3>5, <3>6
    <3>12. Filled(str, last, t) /\ t.b # <<>>
      BY <3>7, <3>10, <3>11, PutKeeps DEF e
    <3> QED BY <3>12
  <2>10. CASE Out!NeedsCR(str, n, last) /\ ~(Len(b) + 1 >= limit)
    <3> DEFINE p == <<Out!CR, Out!LF>>
    <3>1. x = Out!LF /\ PieceOf(e, x) = p
      BY <2>4, <2>5, <2>10 DEF PieceOf
    <3>2. p \in Seq(Out!Chars) /\ p # <<>> /\ Len(p) = 2 /\ p[Len(p)] = x
      BY <3>1, TwoEnds
    <3>3. t = [s EXCEPT !.b = @ \o p, !.addcr = @ + 1, !.got = @ + 1]
      BY <1>3, <2>10 DEF FillTurn
    <3>4. s.b \o p \in Seq(Out!Chars)
      BY <1>1, <3>2, JoinIs
    <3>5. /\ t.b = s.b \o p /\ t.got = s.got + 1 /\ t.addcr = s.addcr + 1 /\ t.done = s.done
          /\ t \in FillStates
      <4> DEFINE q == s.b \o p
                 k == s.got + 1
                 c == s.addcr + 1
      <4>1. t = [s EXCEPT !.b = q, !.addcr = c, !.got = k]
        BY <3>3
      <4>2. q = s.b \o p /\ q \in Seq(Out!Chars) /\ k \in Nat /\ c \in Nat
        BY <1>1, <3>4
      <4>3. k = s.got + 1 /\ c = s.addcr + 1
        OBVIOUS
      <4> HIDE DEF p, x, b, q, k, c
      <4>4. s \in FillStates
        BY <1>1
      <4>5. t.b = q /\ t.got = k /\ t.addcr = c /\ t.done = s.done /\ t \in FillStates
        BY ONLY <4>1, <4>2, <4>4 DEF FillStates
      <4> QED BY <4>2, <4>3, <4>5
    <3> HIDE DEF p, e, r, x
    <3>6. PutInto(str, last, s, t, p)
      <4>1. Len(p) + s.addcr + s.got = t.addcr + t.got /\ t.got # s.got
        <5>1. /\ Len(p) = 2 /\ t.got = s.got + 1 /\ t.addcr = s.addcr + 1
              /\ s.got \in Nat /\ s.addcr \in Nat
          BY <1>1, <3>2, <3>5
        <5> QED BY ONLY <5>1
      <4> QED BY <2>1, <3>2, <3>5, <4>1 DEF PutInto, x
    <3>7. W = p \o R /\ R = Out!TranslateAfter(p[Len(p)], SubSeq(str, t.got + 1, l))
      BY <2>3, <2>7, <3>1, <3>2, <3>5
    <3> HIDE DEF R
    <3>8. Filled(str, last, t) /\ t.b # <<>>
      BY <2>6, <3>6, <3>7, PutKeeps DEF e
    <3> QED BY <3>8
  <2> QED BY <2>8, <2>9, <2>10
<1> QED BY <1>2, <1>3

\* The buffer when the loop ends.
LEMMA FillFromGives ==
    ASSUME NEW str \in Seq(Out!Chars), str # <<>>, NEW last \in Out!Chars \cup {Out!EOF}
    PROVE  Filled(str, last, Out!FillFrom(str, last)) /\ Out!FillFrom(str, last).b # <<>>
<1> DEFINE N == Len(str) + 1
           limit == Out!LeastOf(BUFSIZE, Len(str))
           start == [b |-> <<>>, got |-> 0, addcr |-> 0, done |-> FALSE]
           turn(s) ==
             IF s.done \/ Len(s.b) >= limit \/ s.got >= Len(str)
             THEN [s EXCEPT !.done = TRUE]
             ELSE IF ~Out!NeedsCR(str, s.got, last)
             THEN [s EXCEPT !.b = Append(@, str[s.got + 1]), !.got = @ + 1]
             ELSE IF Len(s.b) + 1 >= limit
             THEN [s EXCEPT !.b = Append(@, Out!CR), !.addcr = @ + 1, !.done = TRUE]
             ELSE [s EXCEPT !.b = @ \o <<Out!CR, Out!LF>>, !.addcr = @ + 1, !.got = @ + 1]
           Body(h) == [i \in 0 .. N |-> IF i = 0 THEN start ELSE turn(h[i - 1])]
           after == CHOOSE h : h = Body(h)
           T == {s \in FillStates : Filled(str, last, s)}
           step == [i \in Nat |-> [s \in T |-> turn(s)]]
<1>1. Out!FillFrom(str, last) = after[N]
  BY DEF Out!FillFrom
<1>2. limit \in Nat /\ limit > 0 /\ N \in Nat
  <2>1. BUFSIZE \in Nat \ {0} /\ Len(str) \in Nat /\ Len(str) > 0
    BY StdioAssumption DEF Out!TextOutputAssumption
  <2> QED BY <2>1 DEF Out!LeastOf
<1>3. ASSUME NEW s PROVE turn(s) = FillTurn(str, last, limit, s)
  BY DEF FillTurn
<1>4. start \in T /\ ~start.done
  <2>1. start \in FillStates /\ start.b = <<>> /\ start.got = 0 /\ start.addcr = 0 /\ start.done = FALSE
    BY DEF FillStates
  <2>2. EndOf(last, <<>>) = last /\ SubSeq(str, 0 + 1, Len(str)) = str
    BY PartOfAll DEF EndOf
  <2>3. Out!TranslateAfter(last, str) \in Seq(Out!Chars)
    BY CharsAreMarks, PiecesTyped
  <2>4. Out!TranslateAfter(last, str) = <<>> \o Out!TranslateAfter(last, str)
    BY <2>3, EmptyJoin
  <2>5. Len(<<>>) = 0 + 0 /\ 0 <= Len(str)
    OBVIOUS
  <2> HIDE DEF start
  <2>6. Filled(str, last, start)
    <3>1. start \in FillStates /\ start.got <= Len(str) /\ Len(start.b) = start.got + start.addcr
      BY <2>1, <2>5
    <3>2. Out!TranslateAfter(last, str)
            = start.b \o Out!TranslateAfter(EndOf(last, start.b), SubSeq(str, start.got + 1, Len(str)))
      <4>1. EndOf(last, start.b) = last /\ SubSeq(str, start.got + 1, Len(str)) = str
        BY <2>1, <2>2
      <4> QED BY <2>1, <2>4, <4>1
    <3>3. start.b = <<>> /\ ~(start.got > 0)
      BY <2>1
    <3> QED BY <3>1, <3>2, <3>3 DEF Filled
  <2> QED BY <2>1, <2>6
<1> HIDE DEF turn, limit, start
<1>5. ASSUME NEW s, Filled(str, last, s)
      PROVE  /\ Filled(str, last, turn(s)) /\ turn(s) \in FillStates
             /\ s.b # <<>> \/ ~s.done => turn(s).b # <<>>
  <2> DEFINE t == turn(s)
  <2>1. t = FillTurn(str, last, limit, s)
    BY <1>3
  <2> HIDE DEF t
  <2>2. Filled(str, last, t) /\ (s.b # <<>> \/ (~s.done /\ limit > 0 /\ str # <<>>) => t.b # <<>>)
    BY <1>2, <1>5, <2>1, FillTurnKeeps
  <2>3. t \in FillStates
    BY <2>2 DEF Filled
  <2> QED BY <1>2, <2>2, <2>3 DEF t
<1>6. PICK g : Iterated(T, start, step, N, g)
  <2>1. ASSUME NEW i \in Nat, NEW s \in T PROVE step[i][s] \in T
    BY <1>5
  <2> HIDE DEF T, step, N
  <2> QED BY <1>2, <1>4, <2>1, Iterates
<1>7. g = Body(g)
  <2>1. g \in [0 .. N -> T] /\ g[0] = start /\ \A i \in 1 .. N : g[i] = step[i][g[i - 1]]
    BY <1>6 DEF Iterated
  <2>2. ASSUME NEW i \in 1 .. N PROVE g[i] = turn(g[i - 1])
    <3>1. i \in Nat /\ i - 1 \in 0 .. N
      BY <1>2
    <3>2. g[i - 1] \in T
      BY <2>1, <3>1
    <3> HIDE DEF T, N
    <3> QED BY <2>1, <3>1, <3>2
  <2>3. ASSUME NEW i \in 0 .. N
        PROVE  g[i] = IF i = 0 THEN start ELSE turn(g[i - 1])
    <3>1. i # 0 => i \in 1 .. N
      BY <1>2
    <3> HIDE DEF N
    <3> QED BY <2>1, <2>2, <3>1
  <2> HIDE DEF T, step, N
  <2> QED BY <2>1, <2>3
<1>8. after = Body(after)
  BY <1>7
<1> HIDE DEF after
<1> DEFINE Good(i) == Filled(str, last, after[i]) /\ (IF i = 0 THEN ~after[i].done ELSE after[i].b # <<>>)
           S == {i \in Nat : i <= N => Good(i)}
<1>9. 0 \in S
  <2>1. 0 \in 0 .. N
    BY <1>2
  <2>2. after[0] = start
    BY <1>8, <2>1
  <2> HIDE DEF N
  <2> QED BY <1>4, <2>2
<1>10. ASSUME NEW i \in Nat, i \in S PROVE i + 1 \in S
  <2>1. CASE i + 1 <= N
    <3>1. i + 1 \in 0 .. N /\ i + 1 # 0 /\ (i + 1) - 1 = i /\ i <= N
      BY <1>2, <2>1
    <3>2. after[i + 1] = turn(after[(i + 1) - 1])
      <4> HIDE DEF N
      <4> QED BY <1>8, <3>1
    <3>3. Filled(str, last, after[i]) /\ (after[i].b # <<>> \/ ~after[i].done)
      <4> HIDE DEF N
      <4> QED BY <1>10, <3>1
    <3> HIDE DEF N
    <3>4. Filled(str, last, turn(after[i])) /\ turn(after[i]).b # <<>>
      BY <1>5, <3>3
    <3> QED BY <3>1, <3>2, <3>4
  <2>2. CASE ~(i + 1 <= N)
    BY <2>2
  <2> QED BY <2>1, <2>2
<1> HIDE DEF S
<1>11. Nat \subseteq S
  BY <1>9, <1>10, SetInduction
<1>12. N <= N /\ N # 0
  BY <1>2
<1> HIDE DEF N
<1>13. Good(N)
  BY <1>2, <1>11, <1>12 DEF S
<1> QED BY <1>1, <1>12, <1>13

-----------------------------------------------------------------------------
(* A call of fwrite, turn by turn of its loop: Writing says what the text    *)
(* that is left will come to; and two calls are one, as in puts and vfprintf. *)

WriteStates == [str : Seq(Out!Chars), last : Out!Chars \cup {Out!EOF}, dev : Seq(Out!Chars), rc : Int,
                failed : BOOLEAN, stop : BOOLEAN]

\* w is a write of data on its way, from the state w0.  What is yet to be written goes
\* on from what was; rc is what was written, and less once something was not.
Writing(w0, data, w) ==
    /\ w \in WriteStates
    /\ Len(w.str) <= Len(data) /\ w.rc <= Len(data) - Len(w.str)
    /\ data = <<>> => w.rc = Len(data) - Len(w.str)
    /\ w.stop => w.rc < 0
    /\ EndOf(w.last, w.str) = EndOf(w0.last, data)
    /\ w.rc = Len(data) - Len(w.str) =>
         /\ w.failed = w0.failed
         /\ w.dev \o Out!TranslateAfter(w.last, w.str) = w0.dev \o Out!TranslateAfter(w0.last, data)
    /\ ~w.failed => ~w0.failed /\ w.rc = Len(data) - Len(w.str)

\* It has n turns to go at most.
Left(w, n) ==
    \/ w.str = <<>> \/ w.stop
    \/ 2 * Len(w.str) - (IF w.last = Out!CR THEN 1 ELSE 0) <= n

\* What is left of a text from a place on.
LEMMA RestIs ==
    ASSUME NEW s \in Seq(Out!Chars), NEW n \in 0 .. Len(s)
    PROVE  LET r == SubSeq(s, n + 1, Len(s))
           IN  /\ r \in Seq(Out!Chars) /\ Len(r) = Len(s) - n
               /\ r # <<>> => r[Len(r)] = s[Len(s)] /\ n < Len(s)
               /\ r = <<>> => n = Len(s)
<1> DEFINE r == SubSeq(s, n + 1, Len(s))
           l == Len(s)
<1>1. /\ r \in Seq(Out!Chars) /\ Len(r) = l - n /\ l \in Nat /\ n \in Int /\ 0 <= n /\ n <= l
      /\ \A i \in 1 .. l - n : r[i] = s[n + i]
  OBVIOUS
<1> HIDE DEF r, l
<1>2. r # <<>> => Len(r) > 0
  BY <1>1
<1>3. ASSUME r # <<>> PROVE r[Len(r)] = s[l] /\ n < l
  <2>1. l - n \in 1 .. l - n /\ n + (l - n) = l /\ n < l
    BY <1>1, <1>2, <1>3
  <2>2. r[l - n] = s[n + (l - n)]
    BY <1>1, <2>1
  <2> QED BY <1>1, <2>1, <2>2
<1>4. r = <<>> => n = l
  <2>1. r = <<>> => Len(r) = 0
    OBVIOUS
  <2> QED BY <1>1, <2>1
<1> QED BY <1>1, <1>3, <1>4 DEF r, l

\* A bufferful is written, in part or not at all; each gets the write on.
LEMMA ChunkKeeps ==
    ASSUME NEW w0, w0.last \in Out!Chars \cup {Out!EOF}, w0.dev \in Seq(Out!Chars), NEW data \in Seq(Out!Chars),
           NEW w, Writing(w0, data, w), w.str # <<>>, ~w.stop, NEW x \in Out!Chunks(w)
    PROVE  /\ Writing(w0, data, x)
           /\ \A n \in Int : Left(w, n + 1) => Left(x, n)
<1> DEFINE f == Out!FillFrom(w.str, w.last)
           s == w.str
           l == Len(s)
           lb == Len(f.b)
           rest == SubSeq(s, f.got + 1, l)
<1>1. /\ w \in WriteStates /\ s \in Seq(Out!Chars) /\ w.last \in Out!Chars \cup {Out!EOF} /\ w.dev \in Seq(Out!Chars)
      /\ w.rc \in Int /\ w.failed \in BOOLEAN /\ w.stop \in BOOLEAN
      /\ l \in Nat /\ l > 0 /\ l <= Len(data) /\ Len(data) \in Nat
  BY DEF Writing, WriteStates
<1>2. Filled(s, w.last, f) /\ f.b # <<>>
  BY <1>1, FillFromGives
<1>3. PICK count \in Out!WriteCounts(lb) :
         x = [str  |-> SubSeq(w.str, f.got + 1, Len(w.str)),
              last |-> f.b[Len(f.b)],
              dev  |-> w.dev \o SubSeq(f.b, 1, IF count < 0 THEN 0 ELSE count),
              rc   |-> IF count < 0 THEN count ELSE w.rc + count - f.addcr,
              failed |-> w.failed \/ count # Len(f.b),
              stop |-> count < 0]
  BY DEF Out!Chunks
<1> HIDE DEF f
<1>4. /\ f \in FillStates /\ f.b \in Seq(Out!Chars) /\ f.got \in Nat /\ f.addcr \in Nat
      /\ f.got <= l /\ lb = f.got + f.addcr /\ lb \in Nat /\ lb > 0
      /\ Out!TranslateAfter(w.last, s) = f.b \o Out!TranslateAfter(EndOf(w.last, f.b), rest)
      /\ f.got = 0 => f.b = <<Out!CR>> /\ w.last # Out!CR
      /\ f.got > 0 /\ f.got = l => EndOf(w.last, f.b) = s[f.got]
      /\ EndOf(w.last, f.b) = f.b[lb] /\ f.b[lb] \in Out!Chars
  <2>1. /\ f \in FillStates /\ f.b \in Seq(Out!Chars) /\ f.got \in Nat /\ f.addcr \in Nat
        /\ f.got <= l /\ lb = f.got + f.addcr /\ lb \in Nat /\ lb > 0
    BY <1>2 DEF Filled, FillStates
  <2>2. Out!TranslateAfter(w.last, s) = f.b \o Out!TranslateAfter(EndOf(w.last, f.b), rest)
    BY <1>2 DEF Filled
  <2>3. f.got = 0 => f.b = <<Out!CR>> /\ w.last # Out!CR
    BY <1>2 DEF Filled
  <2>4. f.got > 0 /\ f.got = l => EndOf(w.last, f.b) = s[f.got]
    BY <1>2 DEF Filled
  <2>5. EndOf(w.last, f.b) = f.b[lb] /\ f.b[lb] \in Out!Chars
    BY <1>2, <2>1 DEF EndOf
  <2> QED BY <2>1, <2>2, <2>3, <2>4, <2>5
<1>5. /\ rest \in Seq(Out!Chars) /\ Len(rest) = l - f.got
      /\ rest # <<>> => rest[Len(rest)] = s[l] /\ f.got < l
      /\ rest = <<>> => f.got = l
  <2>1. f.got \in 0 .. l
    BY <1>1, <1>4
  <2> QED BY ONLY <1>1, <2>1, RestIs
<1>6. count \in Int /\ count >= -1 /\ count <= lb
  BY <1>4 DEF Out!WriteCounts
<1> DEFINE cut == IF count < 0 THEN 0 ELSE count
           part == SubSeq(f.b, 1, cut)
<1>7. part \in Seq(Out!Chars) /\ (count = lb => part = f.b)
  <2>1. cut \in 0 .. lb /\ (count = lb => cut = lb)
    BY <1>4, <1>6
  <2> HIDE DEF cut
  <2> QED BY <1>4, <2>1, PartOfAll
<1>8. /\ x.str = rest /\ x.last = f.b[lb] /\ x.dev = w.dev \o part
      /\ x.rc = (IF count < 0 THEN count ELSE (w.rc + count) - f.addcr)
      /\ x.failed = (w.failed \/ count # lb) /\ x.stop = (count < 0)
  <2>1. w.rc + count - f.addcr = (w.rc + count) - f.addcr
    BY <1>1, <1>4, <1>6
  <2> HIDE DEF lb
  <2> QED BY <1>3, <2>1 DEF lb
<1>9. x \in WriteStates
  <2>1. w.dev \o part \in Seq(Out!Chars)
    BY <1>1, <1>7, JoinIs
  <2>2. (IF count < 0 THEN count ELSE (w.rc + count) - f.addcr) \in Int
    BY <1>1, <1>4, <1>6
  <2>3. f.b[lb] \in Out!Chars \cup {Out!EOF}
    BY <1>4
  <2> DEFINE dv == w.dev \o part
             rc == IF count < 0 THEN count ELSE (w.rc + count) - f.addcr
             la == f.b[lb]
             fa == w.failed \/ count # lb
             st == count < 0
  <2>4. x = [str |-> rest, last |-> la, dev |-> dv, rc |-> rc, failed |-> fa, stop |-> st]
    <3>1. w.rc + count - f.addcr = (w.rc + count) - f.addcr
      BY <1>1, <1>4, <1>6
    <3> QED BY ONLY <1>3, <3>1 DEF dv, rc, la, fa, st, lb, part, cut, rest, s, l
  <2>5. fa \in BOOLEAN /\ st \in BOOLEAN
    BY <1>1
  <2>6. /\ rest \in Seq(Out!Chars) /\ la \in Out!Chars \cup {Out!EOF} /\ dv \in Seq(Out!Chars) /\ rc \in Int
        /\ fa \in BOOLEAN /\ st \in BOOLEAN
    BY <1>5, <2>1, <2>2, <2>3, <2>5
  <2> HIDE DEF part, rest, lb, l, s, cut, dv, rc, la, fa, st
  <2> QED BY ONLY <2>4, <2>6 DEF WriteStates
<1> DEFINE ld == Len(data)
           lr == Len(rest)
<1>10. /\ w.rc <= ld - l /\ EndOf(w.last, s) = EndOf(w0.last, data)
       /\ w.rc = ld - l => /\ w.failed = w0.failed
                           /\ w.dev \o Out!TranslateAfter(w.last, s) = w0.dev \o Out!TranslateAfter(w0.last, data)
       /\ ~w.failed => ~w0.failed /\ w.rc = ld - l
  BY DEF Writing
<1>11. lr <= ld /\ x.rc <= ld - lr /\ (x.stop => x.rc < 0)
       /\ (x.rc = ld - lr => count = lb /\ w.rc = ld - l)
       /\ (count = lb /\ w.rc = ld - l => x.rc = ld - lr)
  <2> HIDE DEF ld, lr, l, lb, s, rest
  <2>1. lr = l - f.got /\ ld \in Nat /\ l <= ld
    BY <1>1, <1>5 DEF lr, ld
  <2>2. CASE count < 0
    <3>1. x.rc = count
      BY <1>8, <2>2
    <3> QED BY SMTT(60), <1>1, <1>4, <1>6, <2>1, <2>2, <3>1
  <2>3. CASE ~(count < 0)
    <3> DEFINE rc == x.rc
               wc == w.rc
               fg == f.got
               fa == f.addcr
    <3>1. rc = (wc + count) - fa /\ ~x.stop
      BY <1>8, <2>3
    <3>2. /\ wc \in Int /\ fg \in Nat /\ fa \in Nat /\ count \in Int /\ count <= lb
          /\ lb = fg + fa /\ lr = l - fg /\ l \in Nat /\ fg <= l /\ wc <= ld - l
      BY <1>1, <1>4, <1>6, <1>10, <2>1
    <3> HIDE DEF rc, wc, fg, fa
    <3>3. /\ lr <= ld /\ rc <= ld - lr
          /\ (rc = ld - lr => count = lb /\ wc = ld - l)
          /\ (count = lb /\ wc = ld - l => rc = ld - lr)
      BY ONLY <3>1, <3>2, <2>1
    <3> QED BY <3>1, <3>3 DEF rc, wc
  <2> QED BY <2>2, <2>3
<1>12. EndOf(x.last, rest) = EndOf(w.last, s)
  <2>0. s # <<>> /\ EndOf(w.last, s) = s[l]
    BY DEF EndOf
  <2>1. CASE rest = <<>>
    <3>1. f.got = l /\ f.got > 0
      <4> HIDE DEF l, rest
      <4> QED BY <1>1, <1>5, <2>1
    <3>2. EndOf(x.last, rest) = f.b[lb]
      BY <1>8, <2>1 DEF EndOf
    <3> HIDE DEF s, rest, l, lb
    <3> QED BY <1>4, <2>0, <3>1, <3>2
  <2>2. CASE rest # <<>>
    <3> HIDE DEF s, rest, l, lb
    <3> QED BY <1>5, <2>0, <2>2 DEF EndOf
  <2> QED BY <2>1, <2>2
<1>13. ASSUME count = lb
       PROVE  x.dev \o Out!TranslateAfter(x.last, rest) = w.dev \o Out!TranslateAfter(w.last, s)
  <2> DEFINE R == Out!TranslateAfter(x.last, rest)
  <2>1. x.last \in Seens
    BY <1>4, <1>8, CharsAreMarks
  <2>2. R \in Seq(Out!Chars)
    BY <1>5, <2>1, CharsAreMarks, PiecesTyped
  <2>3. x.dev = w.dev \o f.b /\ Out!TranslateAfter(w.last, s) = f.b \o R
    BY <1>4, <1>7, <1>8, <1>13
  <2>4. w.dev \in Seq(Out!Chars) /\ f.b \in Seq(Out!Chars)
    BY <1>1, <1>4
  <2> HIDE DEF R
  <2>5. (w.dev \o f.b) \o R = w.dev \o (f.b \o R)
    <3> DEFINE A == w.dev
               B == f.b
    <3>1. A \in Seq(Out!Chars) /\ B \in Seq(Out!Chars) /\ R \in Seq(Out!Chars)
      BY <2>2, <2>4
    <3> HIDE DEF A, B
    <3>2. (A \o B) \o R = A \o (B \o R)
      BY ONLY <3>1, JoinAssociates
    <3> QED BY <3>2 DEF A, B
  <2> HIDE DEF s, rest
  <2> QED BY <2>3, <2>5 DEF R
<1>14. Writing(w0, data, x)
  <2>1. x.str = rest /\ Len(rest) = lr /\ Len(data) = ld
    BY <1>8
  <2>2. data # <<>>
    BY <1>1
  <2>3. x.rc = ld - lr =>
          /\ x.failed = w0.failed
          /\ x.dev \o Out!TranslateAfter(x.last, rest) = w0.dev \o Out!TranslateAfter(w0.last, data)
    <3> HIDE DEF ld, lr, l, lb, s, rest
    <3> QED BY <1>8, <1>10, <1>11, <1>13, <1>1
  <2>4. ~x.failed => ~w0.failed /\ x.rc = ld - lr
    <3> HIDE DEF ld, lr, l, lb, s, rest
    <3> QED BY <1>8, <1>10, <1>11
  <2> HIDE DEF ld, lr, l, lb, s, rest, part, cut
  <2> QED BY <1>9, <1>10, <1>11, <1>12, <2>1, <2>2, <2>3, <2>4 DEF Writing
<1>15. ASSUME NEW n \in Int, Left(w, n + 1) PROVE Left(x, n)
  <2>1. 2 * l - (IF w.last = Out!CR THEN 1 ELSE 0) <= n + 1
    BY <1>15 DEF Left
  <2>2. 2 * lr - (IF x.last = Out!CR THEN 1 ELSE 0) <= n
    <3> HIDE DEF l, lb, s, rest
    <3>1. lr = l - f.got
      BY <1>5
    <3> HIDE DEF lr
    <3>2. CASE f.got = 0
      <4>1. w.last # Out!CR /\ x.last = Out!CR
        <5>1. f.b = <<Out!CR>> /\ w.last # Out!CR
          BY <1>4, <3>2
        <5>2. lb = 1 /\ f.b[1] = Out!CR
          BY <5>1 DEF lb
        <5> QED BY <1>8, <5>1, <5>2
      <4> QED BY <1>1, <2>1, <3>1, <3>2, <4>1
    <3>3. CASE f.got # 0
      <4> DEFINE wl == IF w.last = Out!CR THEN 1 ELSE 0
                 xl == IF x.last = Out!CR THEN 1 ELSE 0
                 g == f.got
      <4>1. wl \in 0 .. 1 /\ xl \in 0 .. 1 /\ g \in Nat /\ g >= 1 /\ l \in Nat
        BY <1>1, <1>4, <3>3
      <4>2. 2 * l - wl <= n + 1 /\ lr = l - g
        BY <2>1, <3>1
      <4> HIDE DEF wl, xl, g
      <4>3. 2 * lr - xl <= n
        BY ONLY <4>1, <4>2, n \in Int
      <4> QED BY <4>3 DEF xl
    <3> QED BY <3>2, <3>3
  <2> QED BY <1>8, <2>2 DEF Left
<1> QED BY <1>14, <1>15

\* At the end of the loop nothing is left to be written, or GEMDOS has failed.
LEMMA LoopsGive ==
    ASSUME NEW w0, w0.last \in Out!Chars \cup {Out!EOF}, w0.dev \in Seq(Out!Chars), NEW data \in Seq(Out!Chars),
           NEW w, Writing(w0, data, w), NEW x \in Out!Loops(w)
    PROVE  Writing(w0, data, x) /\ (x.str = <<>> \/ x.stop)
<1> DEFINE N == 2 * Len(w.str)
           over(y) == y.str = <<>> \/ y.stop
           turn(A) == {y \in A : over(y)} \cup UNION {Out!Chunks(y) : y \in {z \in A : ~over(z)}}
           Body(h) == [i \in 0 .. N |->
                         IF i = 0 THEN {w}
                         ELSE {y \in h[i - 1] : over(y)}
                                \cup UNION {Out!Chunks(y) : y \in {z \in h[i - 1] : ~over(z)}}]
           rest == CHOOSE h : h = Body(h)
           Good == {y \in WriteStates : Writing(w0, data, y)}
           T == SUBSET Good
           start == {w}
           step == [i \in Nat |-> [A \in T |-> turn(A)]]
<1>1. Out!Loops(w) = rest[N]
  BY DEF Out!Loops
<1>2. w \in WriteStates /\ N \in Nat
  BY DEF Writing, WriteStates
<1>3. ASSUME NEW A \in T PROVE turn(A) \in T
  <2> SUFFICES ASSUME NEW y \in turn(A) PROVE y \in Good
    OBVIOUS
  <2>1. CASE y \in A
    BY <2>1
  <2>2. CASE y \notin A
    <3>1. PICK z \in A : ~over(z) /\ y \in Out!Chunks(z)
      BY <2>2
    <3>2. Writing(w0, data, z)
      BY <3>1
    <3>3. Writing(w0, data, y)
      <4> HIDE DEF turn, T, Good, N
      <4> QED BY <3>1, <3>2, ChunkKeeps
    <3> QED BY <3>3 DEF Writing
  <2> QED BY <2>1, <2>2
<1>4. start \in T
  BY <1>2
<1>5. PICK g : Iterated(T, start, step, N, g)
  <2>1. ASSUME NEW i \in Nat, NEW A \in T PROVE step[i][A] \in T
    <3>1. step[i][A] = turn(A)
      OBVIOUS
    <3> HIDE DEF turn, step, T
    <3> QED BY <1>3, <3>1
  <2> HIDE DEF T, step, N, start
  <2> QED BY <1>2, <1>4, <2>1, Iterates
<1>6. g = Body(g)
  <2>1. g \in [0 .. N -> T] /\ g[0] = start /\ \A i \in 1 .. N : g[i] = step[i][g[i - 1]]
    BY <1>5 DEF Iterated
  <2>2. ASSUME NEW i \in 1 .. N PROVE g[i] = turn(g[i - 1])
    <3>1. i \in Nat /\ i - 1 \in 0 .. N
      BY <1>2
    <3>2. g[i - 1] \in T
      <4> HIDE DEF T, N
      <4> QED BY <2>1, <3>1
    <3>3. step[i][g[i - 1]] = turn(g[i - 1])
      <4> HIDE DEF T, turn
      <4> QED BY <3>1, <3>2
    <3> HIDE DEF T, N, step, turn
    <3> QED BY <2>1, <3>3
  <2>3. ASSUME NEW i \in 0 .. N
        PROVE  g[i] = IF i = 0 THEN start ELSE turn(g[i - 1])
    <3>1. i # 0 => i \in 1 .. N
      BY <1>2
    <3> HIDE DEF N, turn, start, step, T
    <3> QED BY <2>1, <2>2, <3>1
  <2>4. Body(g) = [i \in 0 .. N |-> IF i = 0 THEN start ELSE turn(g[i - 1])]
    OBVIOUS
  <2> HIDE DEF T, step, N, Body, start, turn
  <2> QED BY <2>1, <2>3, <2>4
<1>7. rest = Body(rest)
  BY <1>6
<1> HIDE DEF rest
<1>8. ASSUME NEW i \in 0 .. N
      PROVE  rest[i] = IF i = 0 THEN start ELSE turn(rest[i - 1])
  <2>1. Body(rest)[i] = IF i = 0 THEN start ELSE turn(rest[i - 1])
    <3> HIDE DEF N
    <3> QED OBVIOUS
  <2> HIDE DEF Body
  <2> QED BY <1>7, <2>1
<1> HIDE DEF Body
<1> DEFINE Ok(i) == \A y \in rest[i] : Writing(w0, data, y) /\ Left(y, N - i)
           S == {i \in Nat : i <= N => Ok(i)}
<1>9. 0 \in S
  <2>1. rest[0] = {w}
    <3>1. 0 \in 0 .. N
      BY <1>2
    <3> HIDE DEF N, turn
    <3> QED BY <1>8, <3>1
  <2>2. Left(w, N)
    <3> DEFINE m == Len(w.str)
    <3>1. m \in Nat
      BY <1>2 DEF WriteStates
    <3> HIDE DEF m
    <3>2. 2 * m - (IF w.last = Out!CR THEN 1 ELSE 0) <= 2 * m
      BY <3>1
    <3> QED BY <3>2 DEF Left, m
  <2>3. N - 0 = N
    BY <1>2
  <2> HIDE DEF N
  <2> QED BY <2>1, <2>2, <2>3
<1>10. ASSUME NEW i \in Nat, i \in S PROVE i + 1 \in S
  <2> SUFFICES ASSUME i + 1 <= N, NEW y \in rest[i + 1]
               PROVE  Writing(w0, data, y) /\ Left(y, N - (i + 1))
    BY DEF S
  <2>1. i + 1 \in 0 .. N /\ i + 1 # 0 /\ (i + 1) - 1 = i /\ i <= N
    BY <1>2
  <2>2. rest[i + 1] = turn(rest[i])
    <3>1. rest[i + 1] = turn(rest[(i + 1) - 1])
      <4> HIDE DEF N, turn
      <4> QED BY <1>8, <2>1
    <3> QED BY <2>1, <3>1
  <2>3. ASSUME NEW z \in rest[i] PROVE Writing(w0, data, z) /\ Left(z, N - i)
    <3> HIDE DEF N
    <3> QED BY <1>10, <2>1
  <2>4. CASE y \in rest[i] /\ over(y)
    <3>1. Writing(w0, data, y)
      BY <2>3, <2>4
    <3> QED BY <2>4, <3>1 DEF Left
  <2>5. CASE ~(y \in rest[i] /\ over(y))
    <3>1. PICK z \in rest[i] : ~over(z) /\ y \in Out!Chunks(z)
      BY <2>2, <2>5
    <3> DEFINE n == N - (i + 1)
    <3>2. n \in Int /\ n + 1 = N - i
      <4> HIDE DEF N
      <4> QED BY <1>2
    <3>3. Writing(w0, data, z) /\ Left(z, n + 1)
      BY <2>3, <3>2
    <3> HIDE DEF n, N
    <3>4. Writing(w0, data, y) /\ Left(y, n)
      BY <3>1, <3>2, <3>3, ChunkKeeps
    <3> QED BY <3>4 DEF n
  <2> QED BY <2>4, <2>5
<1> HIDE DEF S
<1>11. Nat \subseteq S
  BY <1>9, <1>10, SetInduction
<1> HIDE DEF N, over
<1>12. Writing(w0, data, x) /\ Left(x, N - N)
  <2>1. N \in S /\ N <= N
    BY <1>2, <1>11
  <2> QED BY <1>1, <2>1 DEF S
<1>13. x.str = <<>> \/ x.stop
  <2>1. N - N = 0 /\ x.str \in Seq(Out!Chars)
    BY <1>2, <1>12 DEF Writing, WriteStates
  <2>2. ASSUME 2 * Len(x.str) - (IF x.last = Out!CR THEN 1 ELSE 0) <= 0 PROVE x.str = <<>>
    <3>1. Len(x.str) = 0
      <4>1. Len(x.str) \in Nat
        BY <2>1
      <4> QED BY <2>2, <4>1
    <3> QED BY <2>1, <3>1
  <2> QED BY <1>12, <2>1, <2>2 DEF Left
<1> QED BY <1>12, <1>13

\* What a call may find, and leave.
OutStates == [last : Out!Chars \cup {Out!EOF}, dev : Seq(Out!Chars), failed : BOOLEAN, error : BOOLEAN, got : Nat]

\* From w0 the writing of data has led to x.
Gave(w0, data, x) ==
    /\ x \in OutStates
    /\ x.got <= Len(data)
    /\ x.got = Len(data) =>
         /\ x.dev = w0.dev \o Out!TranslateAfter(w0.last, data)
         /\ x.last = EndOf(w0.last, data)
    /\ ~x.failed => ~w0.failed /\ x.got = Len(data)

LEMMA FwriteGives ==
    ASSUME NEW w0 \in OutStates, NEW data \in Seq(Out!Chars), NEW x \in Out!Fwrites(w0, data)
    PROVE  Gave(w0, data, x)
<1> DEFINE w == [str |-> data, last |-> w0.last, dev |-> w0.dev, rc |-> 0,
                 failed |-> w0.failed, stop |-> FALSE]
           ld == Len(data)
<1>1. /\ w0.last \in Out!Chars \cup {Out!EOF} /\ w0.dev \in Seq(Out!Chars) /\ w0.failed \in BOOLEAN
      /\ w0.error \in BOOLEAN /\ ld \in Nat
  BY DEF OutStates
<1>2. PICK y \in Out!Loops(w) :
         x = [last |-> y.last, dev |-> y.dev, failed |-> y.failed,
              error |-> w0.error \/ y.rc < 0, got |-> IF y.rc < 0 THEN 0 ELSE y.rc]
  BY DEF Out!Fwrites
<1>3. /\ w \in WriteStates /\ w.str = data /\ w.last = w0.last /\ w.dev = w0.dev /\ w.rc = 0
      /\ w.failed = w0.failed /\ w.stop = FALSE
  BY <1>1 DEF WriteStates
<1> HIDE DEF w
<1>4. Writing(w0, data, w)
  <2>1. Len(w.str) <= ld /\ ld - Len(w.str) = 0
    BY <1>1, <1>3
  <2> QED BY <1>3, <2>1 DEF Writing
<1>5. Writing(w0, data, y) /\ (y.str = <<>> \/ y.stop)
  BY <1>1, <1>2, <1>4, LoopsGive
<1> DEFINE ly == Len(y.str)
<1>6. /\ y \in WriteStates /\ y.str \in Seq(Out!Chars) /\ y.last \in Out!Chars \cup {Out!EOF}
      /\ y.dev \in Seq(Out!Chars)
      /\ y.rc \in Int /\ y.failed \in BOOLEAN /\ ly \in Nat
      /\ ly <= ld /\ y.rc <= ld - ly /\ (data = <<>> => y.rc = ld - ly) /\ (y.stop => y.rc < 0)
      /\ EndOf(y.last, y.str) = EndOf(w0.last, data)
      /\ (y.rc = ld - ly =>
            y.dev \o Out!TranslateAfter(y.last, y.str) = w0.dev \o Out!TranslateAfter(w0.last, data))
      /\ (~y.failed => ~w0.failed /\ y.rc = ld - ly)
  <2>1. y \in WriteStates
    BY <1>5 DEF Writing
  <2>2. /\ y.str \in Seq(Out!Chars) /\ y.last \in Out!Chars \cup {Out!EOF} /\ y.dev \in Seq(Out!Chars)
        /\ y.rc \in Int /\ y.failed \in BOOLEAN
    BY ONLY <2>1 DEF WriteStates
  <2>3. ly \in Nat
    BY <2>2
  <2>4. ly <= ld /\ y.rc <= ld - ly
    BY <1>5 DEF Writing
  <2>5. (data = <<>> => y.rc = ld - ly) /\ (y.stop => y.rc < 0)
    BY <1>5 DEF Writing
  <2>6. EndOf(y.last, y.str) = EndOf(w0.last, data)
    BY <1>5 DEF Writing
  <2>7. /\ (y.rc = ld - ly =>
              y.dev \o Out!TranslateAfter(y.last, y.str) = w0.dev \o Out!TranslateAfter(w0.last, data))
        /\ (~y.failed => ~w0.failed /\ y.rc = ld - ly)
    BY <1>5 DEF Writing
  <2> QED BY <2>1, <2>2, <2>3, <2>4, <2>5, <2>6, <2>7
<1>7. /\ x.last = y.last /\ x.dev = y.dev /\ x.failed = y.failed
      /\ x.got = IF y.rc < 0 THEN 0 ELSE y.rc
  BY <1>2
<1>8. x \in OutStates
  BY <1>1, <1>2, <1>6 DEF OutStates
<1>9. x.got <= ld /\ (y.rc = ld - ly => y.str = <<>> /\ x.got = ld) /\ (x.got = ld => y.rc = ld - ly)
  <2>1. ly = 0 <=> y.str = <<>>
    BY <1>6
  <2>2. ld = 0 => data = <<>>
    OBVIOUS
  <2>3. y.rc = ld - ly => y.str = <<>>
    <3> DEFINE r == y.rc
    <3>1. y.stop => r < 0
      BY <1>6
    <3>2. r = ld - ly => ~(r < 0)
      <4>1. ld \in Nat /\ ly \in Nat /\ ly <= ld /\ r \in Int
        BY <1>1, <1>6
      <4> HIDE DEF ld, ly, r
      <4> QED BY ONLY <4>1
    <3> QED BY <1>5, <3>1, <3>2
  <2>4. x.got <= ld /\ (y.rc = ld - ly => x.got = ld) /\ (x.got = ld => y.rc = ld - ly)
    <3> DEFINE r == y.rc
               g == x.got
    <3>1. /\ ld \in Nat /\ ly \in Nat /\ ly <= ld /\ r \in Int /\ r <= ld - ly
          /\ (ld = 0 => r = ld - ly) /\ (r = ld - ly => ly = 0) /\ (g = IF r < 0 THEN 0 ELSE r)
      BY <1>1, <1>6, <1>7, <2>1, <2>2, <2>3
    <3> HIDE DEF ld, ly, r, g
    <3>2. g <= ld /\ (r = ld - ly => g = ld) /\ (g = ld => r = ld - ly)
      BY ONLY <3>1
    <3> QED BY <3>2 DEF r, g
  <2> QED BY <2>3, <2>4
<1>10. ASSUME x.got = ld
       PROVE  /\ x.dev = w0.dev \o Out!TranslateAfter(w0.last, data)
              /\ x.last = EndOf(w0.last, data)
  <2>1. y.rc = ld - ly /\ y.str = <<>>
    BY <1>9, <1>10
  <2>2. Out!TranslateAfter(y.last, <<>>) = <<>>
    BY <1>6, CharsAreMarks, TranslatesFirst
  <2>3. y.dev \o <<>> = y.dev
    BY <1>6, EmptyJoin
  <2>4. EndOf(y.last, <<>>) = y.last
    BY DEF EndOf
  <2> QED BY <1>6, <1>7, <2>1, <2>2, <2>3, <2>4
<1>11. ~x.failed => ~w0.failed /\ x.got = ld
  BY <1>6, <1>7, <1>9
<1> QED BY <1>8, <1>9, <1>10, <1>11 DEF Gave

LEMMA GaveNothing ==
    ASSUME NEW w0 \in OutStates, w0.got = 0
    PROVE  Gave(w0, <<>>, w0)
<1>1. w0.last \in Out!Chars \cup {Out!EOF} /\ w0.dev \in Seq(Out!Chars)
  BY DEF OutStates
<1>2. Out!TranslateAfter(w0.last, <<>>) = <<>> /\ w0.dev \o <<>> = w0.dev
  BY <1>1, CharsAreMarks, TranslatesFirst, EmptyJoin
<1>3. EndOf(w0.last, <<>>) = w0.last /\ Len(<<>>) = 0
  BY DEF EndOf
<1>4. w0.got <= Len(<<>>) /\ w0.got = Len(<<>>)
  BY <1>3
<1> QED BY <1>2, <1>3, <1>4 DEF Gave

\* One call after another: the counts are added.
LEMMA GaveMore ==
    ASSUME NEW w0 \in OutStates, NEW a \in Seq(Out!Chars), NEW b \in Seq(Out!Chars),
           NEW x, Gave(w0, a, x), NEW y, Gave(x, b, y),
           NEW z, z = [y EXCEPT !.got = @ + x.got]
    PROVE  Gave(w0, a \o b, z)
<1> DEFINE g == y.got + x.got
           la == Len(a)
           lb == Len(b)
           t == a \o b
<1>1. /\ w0.last \in Out!Chars \cup {Out!EOF} /\ w0.dev \in Seq(Out!Chars) /\ x \in OutStates /\ y \in OutStates
      /\ x.got \in Nat /\ y.got \in Nat /\ x.got <= la /\ y.got <= lb
  BY DEF Gave, OutStates
<1>2. a \in Seq(Marks) /\ b \in Seq(Marks) /\ w0.last \in Seens
  BY <1>1, CharsAreMarks
<1>3. t \in Seq(Out!Chars) /\ Len(t) = la + lb /\ la \in Nat /\ lb \in Nat
  BY JoinIs
<1>4. /\ z.got = g /\ z.dev = y.dev /\ z.last = y.last /\ z.failed = y.failed /\ z \in OutStates
  <2>1. z = [y EXCEPT !.got = g] /\ g \in Nat /\ y \in OutStates
    BY <1>1
  <2> HIDE DEF g
  <2> QED BY ONLY <2>1 DEF OutStates
<1> HIDE DEF t
<1>5. g <= la + lb /\ (g = la + lb => x.got = la /\ y.got = lb) /\ (x.got = la /\ y.got = lb => g = la + lb)
  <2> DEFINE xg == x.got
             yg == y.got
  <2>1. xg \in Nat /\ yg \in Nat /\ xg <= la /\ yg <= lb /\ la \in Nat /\ lb \in Nat /\ g = yg + xg
    BY <1>1, <1>3
  <2> HIDE DEF xg, yg, g, la, lb
  <2>2. g <= la + lb /\ (g = la + lb => xg = la /\ yg = lb) /\ (xg = la /\ yg = lb => g = la + lb)
    BY ONLY <2>1
  <2> QED BY <2>2 DEF xg, yg
<1>6. ASSUME x.got = la, y.got = lb
      PROVE  /\ y.dev = w0.dev \o Out!TranslateAfter(w0.last, t)
             /\ y.last = EndOf(w0.last, t)
  <2> DEFINE D == w0.dev
             A == Out!TranslateAfter(w0.last, a)
             B == Out!TranslateAfter(EndOf(w0.last, a), b)
  <2>1. x.dev = D \o A /\ x.last = EndOf(w0.last, a)
    BY <1>6 DEF Gave
  <2>2. y.dev = x.dev \o Out!TranslateAfter(x.last, b) /\ y.last = EndOf(x.last, b)
    BY <1>6 DEF Gave
  <2>3. Out!TranslateAfter(w0.last, t) = A \o B
    BY <1>2, TranslatesOn DEF t
  <2>4. EndOf(w0.last, a) \in Seens /\ EndOf(EndOf(w0.last, a), b) = EndOf(w0.last, t)
    BY <1>2, EndTyped DEF t
  <2>5. D \in Seq(Out!Chars) /\ A \in Seq(Out!Chars) /\ B \in Seq(Out!Chars)
    BY <1>1, <1>2, <2>4, PiecesTyped
  <2>6. y.dev = (D \o A) \o B
    BY <2>1, <2>2
  <2> HIDE DEF A, B, D
  <2>7. (D \o A) \o B = D \o (A \o B)
    BY ONLY SMTT(60), <2>5, JoinAssociates
  <2>8. y.dev = D \o Out!TranslateAfter(w0.last, t)
    BY <2>3, <2>6, <2>7
  <2>9. y.last = EndOf(w0.last, t)
    BY <2>1, <2>2, <2>4
  <2> QED BY <2>8, <2>9 DEF D
<1>7. ~y.failed => ~w0.failed /\ x.got = la /\ y.got = lb
  BY DEF Gave
<1> HIDE DEF g, la, lb
<1>8. z.got <= Len(t) /\ (z.got = Len(t) => x.got = la /\ y.got = lb)
      /\ (~z.failed => ~w0.failed /\ z.got = Len(t))
  BY <1>3, <1>4, <1>5, <1>7
<1> QED BY <1>4, <1>6, <1>8 DEF Gave, t

-----------------------------------------------------------------------------
(* The calls, with what the program has sent so far.                       *)

\* What the program sent is on the device, and where the next text goes on is known.
SentIsWritten ==
    ~failed => /\ device = Out!Translate(sent)
               /\ end_char = Out!CR <=> EndOf(Out!EOF, sent) = Out!CR
OutInv == Out!TypeOK /\ SentIsWritten /\ Out!CountsAreRight

LEMMA BeforeTyped ==
    ASSUME Out!TypeOK
    PROVE  /\ Out!Before \in OutStates /\ Out!Before.got = 0 /\ Out!Before.last = end_char
           /\ Out!Before.dev = device /\ Out!Before.failed = failed
BY DEF Out!TypeOK, Out!Before, OutStates

LEMMA DataAreTexts == Out!Data \subseteq Seq(Out!Chars) /\ Out!Texts \subseteq Seq(Out!Chars)
<1>1. ASSUME NEW n \in Nat PROVE [1 .. n -> Out!Chars] \subseteq Seq(Out!Chars)
  OBVIOUS
<1>2. DataLengths \subseteq Nat /\ TextLengths \subseteq Nat
  BY StdioAssumption DEF Out!TextOutputAssumption
<1> QED BY <1>1, <1>2 DEF Out!Data, Out!Texts

LEMMA OutLeavesKeeps ==
    ASSUME OutInv, NEW text \in Seq(Out!Chars), NEW w, Gave(Out!Before, text, w), Out!Leaves(w, text)
    PROVE  OutInv' /\ Out!CountsAreRight' /\ Out!FullCountMeansWritten
<1>1. /\ device \in Seq(Out!Chars) /\ end_char \in Out!Chars \cup {Out!EOF} /\ failed \in BOOLEAN
      /\ sent \in Seq(Marks)
  BY DEF OutInv, Out!TypeOK, Marks
<1>2. Out!Before.last = end_char /\ Out!Before.dev = device /\ Out!Before.failed = failed
  BY BeforeTyped DEF OutInv
<1>3. /\ w \in OutStates /\ w.got <= Len(text)
      /\ w.got = Len(text) => /\ w.dev = device \o Out!TranslateAfter(end_char, text)
                              /\ w.last = EndOf(end_char, text)
      /\ ~w.failed => ~failed /\ w.got = Len(text)
  BY <1>2 DEF Gave
<1>4. /\ w.last \in Out!Chars \cup {Out!EOF} /\ w.dev \in Seq(Out!Chars) /\ w.failed \in BOOLEAN
      /\ w.error \in BOOLEAN /\ w.got \in Nat
  BY <1>3 DEF OutStates
<1>5. /\ device' = w.dev /\ end_char' = w.last /\ failed' = w.failed /\ error' = w.error
      /\ ret' = [data |-> text, got |-> w.got] /\ sent' = sent \o text
  BY DEF Out!Leaves
<1>6. text \in Seq(Marks) /\ Out!EOF \in Seens /\ end_char \in Seens
  BY <1>1, CharsAreMarks DEF Seens
<1>7. /\ sent' \in Seq(Marks)
      /\ EndOf(Out!EOF, sent) \in Seens /\ EndOf(EndOf(Out!EOF, sent), text) = EndOf(Out!EOF, sent')
  BY <1>1, <1>5, <1>6, EndTyped
<1>8. Out!TypeOK'
  BY <1>4, <1>5, <1>7 DEF Out!TypeOK, Marks
<1>9. SentIsWritten'
  <2> SUFFICES ASSUME ~w.failed
               PROVE  device' = Out!Translate(sent') /\ (end_char' = Out!CR <=> EndOf(Out!EOF, sent') = Out!CR)
    BY <1>5 DEF SentIsWritten
  <2>1. /\ device = Out!TranslateAfter(Out!EOF, sent) /\ (end_char = Out!CR <=> EndOf(Out!EOF, sent) = Out!CR)
        /\ w.got = Len(text)
    BY <1>3 DEF OutInv, SentIsWritten, Out!Translate
  <2>2. Out!TranslateAfter(end_char, text) = Out!TranslateAfter(EndOf(Out!EOF, sent), text)
    BY <1>6, <1>7, <2>1, SameAfter
  <2>3. Out!TranslateAfter(Out!EOF, sent')
          = Out!TranslateAfter(Out!EOF, sent) \o Out!TranslateAfter(EndOf(Out!EOF, sent), text)
    BY <1>1, <1>5, <1>6, TranslatesOn
  <2>4. device' = Out!Translate(sent')
    BY <1>3, <1>5, <2>1, <2>2, <2>3 DEF Out!Translate
  <2>5. end_char' = EndOf(end_char, text)
    BY <1>3, <1>5, <2>1
  <2>6. EndOf(end_char, text) = Out!CR <=> EndOf(EndOf(Out!EOF, sent), text) = Out!CR
    BY <2>1 DEF EndOf
  <2> QED BY <1>7, <2>4, <2>5, <2>6
<1>10. Out!CountsAreRight'
  BY <1>3, <1>5 DEF Out!CountsAreRight
<1>11. Out!FullCountMeansWritten
  BY <1>3, <1>5 DEF Out!FullCountMeansWritten
<1> QED BY <1>8, <1>9, <1>10, <1>11 DEF OutInv

LEMMA FwriteKeeps ==
    ASSUME OutInv, NEW data \in Seq(Out!Chars), Out!Fwrite(data)
    PROVE  OutInv' /\ Out!CountsAreRight' /\ Out!FullCountMeansWritten
<1>1. PICK w \in Out!Fwrites(Out!Before, data) : Out!Leaves(w, data)
  BY DEF Out!Fwrite
<1>2. Gave(Out!Before, data, w)
  BY <1>1, BeforeTyped, FwriteGives DEF OutInv
<1> QED BY <1>1, <1>2, OutLeavesKeeps

LEMMA PutsKeeps ==
    ASSUME OutInv, NEW data \in Seq(Out!Chars), Out!Puts(data)
    PROVE  OutInv' /\ Out!CountsAreRight' /\ Out!FullCountMeansWritten
<1>1. PICK w \in Out!Fwrites(Out!Before, data) :
         IF w.got # Len(data) THEN Out!Leaves(w, data)
         ELSE \E x \in Out!Fwrites(w, <<Out!LF>>) : Out!Leaves([x EXCEPT !.got = @ + w.got], data \o <<Out!LF>>)
  BY DEF Out!Puts
<1>2. Gave(Out!Before, data, w)
  BY <1>1, BeforeTyped, FwriteGives DEF OutInv
<1>3. CASE w.got # Len(data)
  BY <1>1, <1>2, <1>3, OutLeavesKeeps
<1>4. CASE w.got = Len(data)
  <2>1. PICK x \in Out!Fwrites(w, <<Out!LF>>) : Out!Leaves([x EXCEPT !.got = @ + w.got], data \o <<Out!LF>>)
    BY <1>1, <1>4
  <2> DEFINE y == [x EXCEPT !.got = @ + w.got]
  <2>2. <<Out!LF>> \in Seq(Out!Chars) /\ data \o <<Out!LF>> \in Seq(Out!Chars) /\ w \in OutStates
    BY <1>2, MarksApart DEF Gave
  <2>3. Gave(w, <<Out!LF>>, x)
    BY <2>1, <2>2, FwriteGives
  <2>4. Gave(Out!Before, data \o <<Out!LF>>, y)
    BY <1>2, <2>2, <2>3, BeforeTyped, GaveMore DEF OutInv
  <2> HIDE DEF y
  <2> QED BY <2>1, <2>2, <2>4, OutLeavesKeeps DEF y
<1> QED BY <1>3, <1>4

\* What vfprintf comes to, after each character.
LEMMA PutsEach ==
    ASSUME OutInv, NEW text \in Seq(Out!Chars), Out!Vfprintf(text)
    PROVE  \E w : Gave(Out!Before, text, w) /\ Out!Leaves(w, text)
<1> DEFINE N == Len(text)
           put(w, c) == {[x EXCEPT !.got = @ + w.got] : x \in Out!Fwrites(w, <<c>>)}
           Body(h) == [i \in 0 .. N |->
                         IF i = 0 THEN {Out!Before} ELSE UNION {put(w, text[i]) : w \in h[i - 1]}]
           after == CHOOSE h : h = Body(h)
           start == {Out!Before}
           turn(A, i) == UNION {put(w, text[i]) : w \in A}
           T == SUBSET OutStates
           step == [i \in Nat |-> [A \in T |-> IF i \in 1 .. N THEN turn(A, i) ELSE A]]
<1>1. PICK w \in after[N] : Out!Leaves(w, text)
  BY DEF Out!Vfprintf
<1>2. N \in Nat /\ Out!Before \in OutStates /\ Out!Before.got = 0
  BY BeforeTyped DEF OutInv
<1>3. ASSUME NEW v \in OutStates, NEW c \in Out!Chars, NEW d \in Seq(Out!Chars), Gave(Out!Before, d, v),
             NEW y \in put(v, c)
      PROVE  Gave(Out!Before, d \o <<c>>, y)
  <2>1. PICK x \in Out!Fwrites(v, <<c>>) : y = [x EXCEPT !.got = @ + v.got]
    BY <1>3
  <2>2. <<c>> \in Seq(Out!Chars)
    BY <1>3
  <2>3. Gave(v, <<c>>, x)
    BY <1>3, <2>1, <2>2, FwriteGives
  <2> HIDE DEF put
  <2> QED BY <1>2, <1>3, <2>1, <2>2, <2>3, GaveMore
<1>4. ASSUME NEW i \in 1 .. N, NEW A \in T PROVE turn(A, i) \in T
  <2> SUFFICES ASSUME NEW v \in A, NEW y \in put(v, text[i]) PROVE y \in OutStates
    OBVIOUS
  <2>1. v \in OutStates /\ text[i] \in Out!Chars /\ <<text[i]>> \in Seq(Out!Chars)
    BY <1>4
  <2>2. PICK x \in Out!Fwrites(v, <<text[i]>>) : y = [x EXCEPT !.got = @ + v.got]
    OBVIOUS
  <2>3. Gave(v, <<text[i]>>, x)
    BY <2>1, <2>2, FwriteGives
  <2>4. x \in OutStates /\ v.got \in Nat /\ x.got \in Nat
    BY <2>1, <2>3 DEF Gave, OutStates
  <2> DEFINE g == x.got + v.got
  <2>5. y = [x EXCEPT !.got = g] /\ g \in Nat
    BY <2>2, <2>4
  <2> HIDE DEF g
  <2> QED BY ONLY <2>4, <2>5 DEF OutStates
<1> HIDE DEF put
<1>5. PICK g : Iterated(T, start, step, N, g)
  <2>1. ASSUME NEW i \in Nat, NEW A \in T PROVE step[i][A] \in T
    <3>1. step[i][A] = IF i \in 1 .. N THEN turn(A, i) ELSE A
      OBVIOUS
    <3> HIDE DEF turn, step, T, N
    <3> QED BY <1>4, <3>1
  <2>2. start \in T
    BY <1>2
  <2> HIDE DEF T, step, N, start
  <2> QED BY <1>2, <2>1, <2>2, Iterates
<1>6. g = Body(g)
  <2>1. g \in [0 .. N -> T] /\ g[0] = start /\ \A i \in 1 .. N : g[i] = step[i][g[i - 1]]
    BY <1>5 DEF Iterated
  <2>2. ASSUME NEW i \in 1 .. N PROVE g[i] = turn(g[i - 1], i)
    <3>1. i \in Nat /\ i - 1 \in 0 .. N
      BY <1>2
    <3>2. g[i - 1] \in T
      <4> HIDE DEF T, N
      <4> QED BY <2>1, <3>1
    <3>3. step[i][g[i - 1]] = turn(g[i - 1], i)
      <4> HIDE DEF T, turn, N
      <4> QED BY <3>1, <3>2
    <3> HIDE DEF T, N, step, turn
    <3> QED BY <2>1, <3>3
  <2>3. ASSUME NEW i \in 0 .. N
        PROVE  g[i] = IF i = 0 THEN start ELSE turn(g[i - 1], i)
    <3>1. i # 0 => i \in 1 .. N
      BY <1>2
    <3> HIDE DEF N, turn, start, step, T
    <3> QED BY <2>1, <2>2, <3>1
  <2>4. Body(g) = [i \in 0 .. N |-> IF i = 0 THEN start ELSE turn(g[i - 1], i)]
    OBVIOUS
  <2> HIDE DEF T, step, N, Body, start, turn
  <2> QED BY <2>1, <2>3, <2>4
<1>7. after = Body(after)
  BY <1>6
<1> HIDE DEF after
<1>8. ASSUME NEW i \in 0 .. N
      PROVE  after[i] = IF i = 0 THEN start ELSE turn(after[i - 1], i)
  <2>1. Body(after)[i] = IF i = 0 THEN start ELSE turn(after[i - 1], i)
    <3> HIDE DEF N
    <3> QED OBVIOUS
  <2> HIDE DEF Body
  <2> QED BY <1>7, <2>1
<1> HIDE DEF Body
<1> DEFINE Ok(i) == \A v \in after[i] : Gave(Out!Before, SubSeq(text, 1, i), v)
           S == {i \in Nat : i <= N => Ok(i)}
<1>9. 0 \in S
  <2>1. after[0] = start
    <3>1. 0 \in 0 .. N
      BY <1>2
    <3> HIDE DEF N, turn, start
    <3> QED BY <1>8, <3>1
  <2>2. SubSeq(text, 1, 0) = <<>>
    OBVIOUS
  <2>3. Gave(Out!Before, <<>>, Out!Before)
    BY <1>2, GaveNothing
  <2> QED BY <2>1, <2>2, <2>3
<1>10. ASSUME NEW i \in Nat, i \in S PROVE i + 1 \in S
  <2> SUFFICES ASSUME i + 1 <= N, NEW y \in after[i + 1]
               PROVE  Gave(Out!Before, SubSeq(text, 1, i + 1), y)
    BY DEF S
  <2>1. i + 1 \in 0 .. N /\ i + 1 # 0 /\ (i + 1) - 1 = i /\ i <= N /\ i + 1 \in 1 .. N
    BY <1>2
  <2>2. after[i + 1] = turn(after[i], i + 1)
    <3>1. after[i + 1] = turn(after[(i + 1) - 1], i + 1)
      <4> HIDE DEF N, turn
      <4> QED BY <1>8, <2>1
    <3> QED BY <2>1, <3>1
  <2> DEFINE d == SubSeq(text, 1, i)
             c == text[i + 1]
  <2>3. d \in Seq(Out!Chars) /\ c \in Out!Chars /\ SubSeq(text, 1, i + 1) = d \o <<c>>
    <3>1. SubSeq(text, 1, i) \o SubSeq(text, i + 1, i + 1) = SubSeq(text, 1, i + 1)
      BY <2>1, PartsJoin
    <3>2. SubSeq(text, i + 1, i + 1) = <<c>>
      BY <2>1, PartOfOne
    <3> QED BY <2>1, <3>1, <3>2
  <2>4. PICK v \in after[i] : y \in put(v, c)
    BY <2>2
  <2>5. Gave(Out!Before, d, v)
    <3> HIDE DEF N
    <3> QED BY <1>10, <2>1, <2>4
  <2>6. v \in OutStates
    BY <2>5 DEF Gave
  <2> HIDE DEF d, c, N, turn
  <2>7. Gave(Out!Before, d \o <<c>>, y)
    BY <1>3, <2>3, <2>4, <2>5, <2>6
  <2> QED BY <2>3, <2>7
<1> HIDE DEF S
<1>11. Nat \subseteq S
  BY <1>9, <1>10, SetInduction
<1>12. Ok(N)
  BY <1>2, <1>11 DEF S
<1>13. SubSeq(text, 1, N) = text
  BY PartOfAll
<1> HIDE DEF N
<1> QED BY <1>1, <1>12, <1>13

LEMMA FflushKeeps ==
    ASSUME OutInv, Out!Fflush
    PROVE  OutInv' /\ Out!CountsAreRight' /\ Out!FullCountMeansWritten
<1>1. sent \in Seq(Marks) /\ "flush" \in Marks /\ Out!EOF \in Seens
  BY DEF OutInv, Out!TypeOK, Marks, Seens
<1> DEFINE f == <<"flush">>
<1>2. f \in Seq(Marks) /\ sent' = sent \o f /\ Len(sent') = Len(sent) + 1 /\ Len(sent) \in Nat
      /\ sent' \in Seq(Marks) /\ sent'[Len(sent')] = "flush"
  BY <1>1 DEF Out!Fflush
<1>3. Out!TypeOK'
  BY <1>2 DEF OutInv, Out!TypeOK, Out!Fflush, Marks
<1>4. SentIsWritten'
  <2>1. EndOf(Out!EOF, sent) \in Seens
    BY <1>1, EndTyped
  <2>2. Out!TranslateAfter(EndOf(Out!EOF, sent), f) = <<>>
    BY <1>1, <2>1, TranslatesFirst DEF PieceOf
  <2>3. Out!Translate(sent') = Out!Translate(sent) \o <<>>
    <3>1. Out!TranslateAfter(Out!EOF, sent \o f)
            = Out!TranslateAfter(Out!EOF, sent) \o Out!TranslateAfter(EndOf(Out!EOF, sent), f)
      <4> HIDE DEF f
      <4> QED BY <1>1, <1>2, TranslatesOn
    <3>2. sent' = sent \o f
      BY <1>2
    <3> HIDE DEF f
    <3> QED BY <2>2, <3>1, <3>2 DEF Out!Translate
  <2>4. Out!Translate(sent) \o <<>> = Out!Translate(sent)
    BY <1>1, PiecesTyped, EmptyJoin DEF Out!Translate
  <2>5. EndOf(Out!EOF, sent') # Out!CR /\ end_char' # Out!CR
    BY <1>2, MarksApart DEF EndOf, Out!Fflush
  <2> QED BY <2>3, <2>4, <2>5 DEF OutInv, SentIsWritten, Out!Fflush
<1>5. Out!CountsAreRight'
  BY DEF OutInv, Out!CountsAreRight, Out!Fflush
<1>6. Out!FullCountMeansWritten
  BY <1>2 DEF Out!FullCountMeansWritten, Out!Last
<1> QED BY <1>3, <1>4, <1>5, <1>6 DEF OutInv

LEMMA OutStarts == Out!Init => OutInv
<1> SUFFICES ASSUME Out!Init PROVE OutInv
  OBVIOUS
<1>1. Out!TypeOK
  <2>1. <<>> \in Seq(Out!Chars) /\ <<>> \in Seq(Out!Chars \cup {"flush"})
    OBVIOUS
  <2>2. [data |-> <<>>, got |-> 0] \in [data : Seq(Out!Chars), got : Nat]
    BY <2>1
  <2> QED BY <2>1, <2>2 DEF Out!Init, Out!TypeOK
<1>2. SentIsWritten
  <2>1. Out!EOF \in Seens /\ Out!TranslateAfter(Out!EOF, <<>>) = <<>> /\ EndOf(Out!EOF, <<>>) = Out!EOF
    BY TranslatesFirst DEF Seens, EndOf
  <2> QED BY <2>1 DEF Out!Init, SentIsWritten, Out!Translate
<1>3. Out!CountsAreRight
  BY DEF Out!Init, Out!CountsAreRight
<1> QED BY <1>1, <1>2, <1>3 DEF OutInv

Told == OutInv' /\ Out!CountsAreRight' /\ Out!FullCountMeansWritten

LEMMA CallKeeps ==
    ASSUME OutInv, [Out!Next]_(Out!vars)
    PROVE  OutInv' /\ [Out!CountsAreRight' /\ Out!FullCountMeansWritten]_(Out!vars)
<1>1. CASE UNCHANGED Out!vars
  <2>1. OutInv'
    BY <1>1 DEF OutInv, Out!TypeOK, SentIsWritten, Out!CountsAreRight, Out!vars
  <2> QED BY <1>1, <2>1
<1>2. CASE Out!Next
  <2>1. ASSUME NEW data \in Out!Data, Out!Fwrite(data) PROVE Told
    BY <2>1, DataAreTexts, FwriteKeeps DEF Told
  <2>2. ASSUME NEW c \in Out!Chars, Out!Putc(c) PROVE Told
    <3>1. <<c>> \in Seq(Out!Chars) /\ Out!Fwrite(<<c>>)
      BY <2>2 DEF Out!Putc
    <3> QED BY <3>1, FwriteKeeps DEF Told
  <2>3. ASSUME NEW data \in Out!Data, Out!Puts(data) PROVE Told
    BY <2>3, DataAreTexts, PutsKeeps DEF Told
  <2>4. ASSUME NEW text \in Out!Texts, Out!Vfprintf(text) PROVE Told
    <3>1. text \in Seq(Out!Chars)
      BY DataAreTexts
    <3>2. PICK w : Gave(Out!Before, text, w) /\ Out!Leaves(w, text)
      BY <2>4, <3>1, PutsEach
    <3> QED BY <3>1, <3>2, OutLeavesKeeps DEF Told
  <2>5. ASSUME Out!Fflush PROVE Told
    BY <2>5, FflushKeeps DEF Told
  <2>6. Told
    BY <1>2, <2>1, <2>2, <2>3, <2>4, <2>5 DEF Out!Next
  <2>7. OutInv' /\ Out!CountsAreRight' /\ Out!FullCountMeansWritten
    BY <2>6 DEF Told
  <2> QED BY <2>7
<1> QED BY <1>1, <1>2

-----------------------------------------------------------------------------

\* The program that writes runs TextOutput, the one that reads TextInput, and each
\* leaves the other's streams where they stand: what is proved of each holds of Stdio.
THEOREM StreamsRun == StdioSpec => Spec /\ Out!Spec
<1>1. StdioInit => Init /\ Out!Init
  BY DEF StdioInit, InIdle
<1>2. [StdioNext]_stdioVars => [Next]_vars /\ [Out!Next]_(Out!vars)
  BY DEF StdioNext, InStep, OutStep, stdioVars, outVars, Out!vars
<1> QED BY <1>1, <1>2, PTL DEF StdioSpec, Spec, Out!Spec

\* While every write goes through, the device holds the translation of all that was
\* written: where the calls of fwrite, puts and vfprintf and the bufferfuls begin and
\* end does not show, for buffers and texts of every size.
THEOREM OutputIsSound == StdioSpec => []OutputSound
<1>1. OutInv => OutputSound
  BY DEF OutInv, SentIsWritten, OutputSound, Out!OutputSound, Out!DeviceHoldsTranslation
<1>2. Out!Spec => []OutInv
  BY OutStarts, CallKeeps, PTL DEF Out!Spec
<1> QED BY <1>1, <1>2, StreamsRun, PTL

\* Whatever writes are short or fail: what fwrite, fputs, puts and vfprintf return is
\* never more than there was, is all of it when nothing failed, and when it is all of
\* it the device has got exactly that.
THEOREM CountsAlwaysTell == StdioSpec => CountsTell
<1>1. Out!Spec => CountsTell
  BY OutStarts, CallKeeps, PTL DEF Out!Spec, CountsTell, Out!CountsTell
<1> QED BY <1>1, StreamsRun, PTL

=============================================================================
