----------------------------- MODULE TextOutput -----------------------------
(***************************************************************************)
(* fwrite on a text stream (fwrite.c, built with STDIO_MAP_NEWLINE), and    *)
(* putc, fputs, puts and vfprintf, which write through it.                  *)
(*                                                                         *)
(* fwrite copies the data into a buffer of BUFSIZE characters, puts a CR in *)
(* front of an LF that does not follow one, and hands each bufferful to     *)
(* GEMDOS.  __last_char carries the end of what was written from one        *)
(* bufferful, and from one call, to the next.                               *)
(***************************************************************************)
EXTENDS Integers, Sequences, SequencesExt

CONSTANTS
    BUFSIZE,
    DataLengths,    \* how many characters the program writes in one call
    TextLengths,    \* and how many printf makes of a format
    MaxSent,    \* bound: characters and flushes of a run
    Faults      \* how GEMDOS may fail: a subset of {"error", "short"}

CR == "CR"
LF == "LF"
EOF == "EOF"
Chars == {"a", CR, LF}

TextOutputAssumption ==
    /\ BUFSIZE \in Nat \ {0}
    /\ DataLengths \cup TextLengths \subseteq Nat
    /\ Faults \subseteq {"error", "short"}

\* What the program writes in one call, and what printf makes of a format.
Data == UNION {[1 .. n -> Chars] : n \in DataLengths}
Texts == UNION {[1 .. n -> Chars] : n \in TextLengths}

VARIABLES
    device,     \* what GEMDOS has got
    last_char,
    error,
    sent,       \* what the program asked to be written, with "flush" for fflush
    ret,        \* the last fwrite: its data, and what it returned
    failed      \* some Fwrite failed or was short

vars == <<device, last_char, error, sent, ret, failed>>

-----------------------------------------------------------------------------

LeastOf(m, n) == IF m < n THEN m ELSE n

\* A slip: an LF at the start of a bufferful always gets its CR.
NeedsCR_NoLast(str, got, last) ==
    str[got + 1] = LF /\ (got = 0 \/ str[got] # CR)

\* The LF str[got] needs a CR in front (got counts from 0).
NeedsCR(str, got, last) ==
    /\ str[got + 1] = LF
    /\ IF got = 0 THEN last # CR ELSE str[got] # CR

\* A slip: the LF whose CR filled the buffer is taken as consumed.
FillFrom_SkipsLF(str, last) ==
    LET n == LeastOf(BUFSIZE, Len(str))
    IN  IF NeedsCR(str, 0, last)
        THEN [b |-> <<CR>>, got |-> 1, addcr |-> 1]
        ELSE [b |-> SubSeq(str, 1, n), got |-> n, addcr |-> 0]

\* The buffer when the loop of lines 35 to 53 ends.  b is the buffer so far,
\* got the characters consumed.  A CR that fills the buffer ends the loop with
\* its LF not consumed.
FillFrom(str, last) ==
    LET limit == LeastOf(BUFSIZE, Len(str))
        turn(s) ==
          IF s.done \/ Len(s.b) >= limit \/ s.got >= Len(str)
          THEN [s EXCEPT !.done = TRUE]
          ELSE IF ~NeedsCR(str, s.got, last)
          THEN [s EXCEPT !.b = Append(@, str[s.got + 1]), !.got = @ + 1]
          ELSE IF Len(s.b) + 1 >= limit
          THEN [s EXCEPT !.b = Append(@, CR), !.addcr = @ + 1, !.done = TRUE]
          ELSE [s EXCEPT !.b = @ \o <<CR, LF>>, !.addcr = @ + 1, !.got = @ + 1]
        after[i \in 0 .. Len(str) + 1] ==
          IF i = 0 THEN [b |-> <<>>, got |-> 0, addcr |-> 0, done |-> FALSE]
          ELSE turn(after[i - 1])
    IN  after[Len(str) + 1]

\* GEMDOS Fwrite: how many characters of a bufferful get through.
WriteCounts(put) ==
    {put} \cup (IF "error" \in Faults THEN {-1} ELSE {})
          \cup (IF "short" \in Faults THEN 0 .. put - 1 ELSE {})

\* One turn of the loop of lines 27 to 72: str is what is left to write.
Chunks(w) ==
    LET f == FillFrom(w.str, w.last)
    IN  {[str  |-> SubSeq(w.str, f.got + 1, Len(w.str)),
          last |-> f.b[Len(f.b)],
          dev  |-> w.dev \o SubSeq(f.b, 1, IF count < 0 THEN 0 ELSE count),
          rc   |-> IF count < 0 THEN count ELSE w.rc + count - f.addcr,
          failed |-> w.failed \/ count # Len(f.b),
          stop |-> count < 0] : count \in WriteCounts(Len(f.b))}

\* The same loop run to its end: every bufferful makes progress, by its LF or by
\* the CR before it.
Loops(w) ==
    LET over(x) == x.str = <<>> \/ x.stop
        rest[i \in 0 .. 2 * Len(w.str)] ==
          IF i = 0 THEN {w}
          ELSE {x \in rest[i - 1] : over(x)}
                 \cup UNION {Chunks(x) : x \in {y \in rest[i - 1] : ~over(y)}}
    IN  rest[2 * Len(w.str)]

\* What a fwrite of data may come to when w is what there was before.
Fwrites(w, data) ==
    {[last |-> x.last, dev |-> x.dev, failed |-> x.failed,
      error |-> w.error \/ x.rc < 0,
      got |-> IF x.rc < 0 THEN 0 ELSE x.rc] :
        x \in Loops([str |-> data, last |-> w.last, dev |-> w.dev, rc |-> 0,
                     failed |-> w.failed, stop |-> FALSE])}

Before == [last |-> last_char, dev |-> device, failed |-> failed, error |-> error, got |-> 0]

Leaves(w, data) ==
    /\ device' = w.dev
    /\ last_char' = w.last
    /\ failed' = w.failed
    /\ error' = w.error
    /\ ret' = [data |-> data, got |-> w.got]
    /\ sent' = sent \o data

\* fwrite(data, 1, Len(data), stream), and fputs, which returns EOF unless all of it
\* was written.
Fwrite(data) ==
    /\ Len(sent) + Len(data) <= MaxSent
    /\ \E w \in Fwrites(Before, data) : Leaves(w, data)

\* putc: a write of one character; EOF if it did not go.
Putc(c) == Fwrite(<<c>>)

\* puts: a newline follows when fputs has not returned EOF.  It is as if the newline
\* had not been written when one of them fails.
Puts(data) ==
    /\ Len(sent) + Len(data) < MaxSent
    /\ \E w \in Fwrites(Before, data) :
         IF w.got # Len(data) THEN Leaves(w, data)
         ELSE \E x \in Fwrites(w, <<LF>>) : Leaves([x EXCEPT !.got = @ + w.got], data \o <<LF>>)

\* vfprintf: doprnt calls putc for each character of the text, whatever became of
\* those in front of it, and counts the calls that did not return EOF.
Vfprintf(text) ==
    /\ Len(sent) + Len(text) <= MaxSent
    /\ LET put(w, c) == {[x EXCEPT !.got = @ + w.got] : x \in Fwrites(w, <<c>>)}
           after[i \in 0 .. Len(text)] ==
             IF i = 0 THEN {Before} ELSE UNION {put(w, text[i]) : w \in after[i - 1]}
       IN  \E w \in after[Len(text)] : Leaves(w, text)

Fflush ==
    /\ Len(sent) < MaxSent
    /\ last_char' = EOF
    /\ sent' = Append(sent, "flush")
    /\ UNCHANGED <<device, error, ret, failed>>

Init ==
    /\ device = <<>>
    /\ last_char = EOF
    /\ error = FALSE
    /\ sent = <<>>
    /\ ret = [data |-> <<>>, got |-> 0]
    /\ failed = FALSE

Next ==
    \/ \E data \in Data : Fwrite(data)
    \/ \E c \in Chars : Putc(c)
    \/ \E data \in Data : Puts(data)
    \/ \E text \in Texts : Vfprintf(text)
    \/ Fflush

Spec == Init /\ [][Next]_vars

-----------------------------------------------------------------------------
(***************************************************************************)
(* What the calls are to do, whatever they are cut into.                    *)
(***************************************************************************)

\* The text, which follows the character c, with a CR in front of every LF that
\* does not follow one.
TranslateAfter(c, text) ==
    FlattenSeq([i \in 1 .. Len(text) |->
        CASE text[i] = "flush" -> <<>>
          [] text[i] = LF /\ (<<c>> \o text)[i] # CR -> <<CR, LF>>
          [] OTHER -> <<text[i]>>])

Translate(text) == TranslateAfter(EOF, text)

TypeOK ==
    /\ device \in Seq(Chars)
    /\ last_char \in Chars \cup {EOF}
    /\ error \in BOOLEAN /\ failed \in BOOLEAN
    /\ sent \in Seq(Chars \cup {"flush"})
    /\ ret \in [data : Seq(Chars), got : Nat]

\* While GEMDOS takes everything, the device holds the translation of all the
\* program wrote: where calls and bufferfuls begin and end does not show.
DeviceHoldsTranslation == ~failed => device = Translate(sent)

\* fwrite never says that more was written than was asked for, and says that all
\* was written when it was.
CountsAreRight ==
    /\ ret.got <= Len(ret.data)
    /\ ~failed => ret.got = Len(ret.data)

\* When fwrite says all was written, the device has all of it and nothing else,
\* whatever failed before.
FullCountMeansWritten ==
    LET wrote == sent' # sent /\ Last(sent') # "flush"
    IN  wrote /\ ret'.got = Len(ret'.data)
          => device' = device \o TranslateAfter(last_char, ret'.data)

\* The device and all variables are in order.
OutputSound == TypeOK /\ DeviceHoldsTranslation

\* What fwrite returns tells what was written.
CountsTell == [][CountsAreRight' /\ FullCountMeansWritten]_vars
=============================================================================
