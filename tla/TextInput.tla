------------------------------ MODULE TextInput ------------------------------
(***************************************************************************)
(* Reading from streams: fgetc, ungetc, fgets, fread, fseek, rewind,        *)
(* fflush and clearerr.                                                     *)
(*                                                                         *)
(* A stream has one pushed back character, an end-of-file and an error      *)
(* flag; the position in the file is GEMDOS's.  fgets keeps the last        *)
(* character it saw in a static variable that all streams share.            *)
(***************************************************************************)
EXTENDS Integers, Sequences, SequencesExt

CONSTANTS
    Streams,
    Pushed,         \* the characters the program pushes back
    Lengths,        \* how many characters a file may hold
    Sizes,          \* the n the program gives fgets, and the counts for fread
    MayFail,        \* whether GEMDOS reports read errors
    FreadAnyTime    \* whether the program calls fread with a character pushed back

CR == "CR"
LF == "LF"
EOF == "EOF"
Chars == {"a", CR, LF}

ASSUME TextInputAssumption ==
    /\ Lengths \subseteq Nat /\ Pushed \subseteq Chars
    /\ Sizes \subseteq Nat \ {0}
    /\ {MayFail, FreadAnyTime} \subseteq BOOLEAN

\* What a file may hold.
Contents == UNION {[1 .. n -> Chars] : n \in Lengths}

\* A stream's __mode.__binary, and whether it is on GEMDOS handle 0: one that fopen
\* makes, without or with "b", or stdin.
Plain == [binary |-> FALSE, console |-> FALSE]
Stdin == [binary |-> FALSE, console |-> TRUE]
Modes == {Plain, [Plain EXCEPT !.binary = TRUE], Stdin}

VARIABLES
    mode,       \* of each stream
    content,    \* GEMDOS: the files
    pos,        \* GEMDOS: characters before the position
    stream,     \* pushback, eof and error of each stream
    last_char,  \* the static of fgets
    call        \* the last call: its stream and kind; whether it did not report
                \* EOF, NULL or -1; the text it gave or took; and, of fgets,
                \* whether it wrote below the buffer

vars == <<mode, content, pos, stream, last_char, call>>

-----------------------------------------------------------------------------

\* The state a call works on: a stream and its position.
At(s) == [pos |-> pos[s], pushback |-> stream[s].pushback, eof |-> stream[s].eof,
          error |-> stream[s].error]

\* The call kind on s is over, leaving st.
Done(s, st, kind, ok, text) ==
    /\ pos' = [pos EXCEPT ![s] = st.pos]
    /\ stream' = [stream EXCEPT ![s] =
                    [pushback |-> st.pushback, eof |-> st.eof, error |-> st.error]]
    /\ call' = [stream |-> s, kind |-> kind, ok |-> ok, text |-> text,
                below |-> FALSE]
    /\ UNCHANGED <<mode, content>>

\* A slip: a pushed back character is not used up.
GetFrom_Keeps(text, st, fails) ==
    IF st.pushback # EOF THEN [c |-> st.pushback, st |-> st]
    ELSE IF st.pos < Len(text)
    THEN [c |-> text[st.pos + 1], st |-> [st EXCEPT !.pos = @ + 1]]
    ELSE [c |-> EOF, st |-> [st EXCEPT !.eof = TRUE]]

\* fgetc, when GEMDOS fails or not.
GetFrom(text, st, fails) ==
    IF st.pushback # EOF
    THEN [c |-> st.pushback, st |-> [st EXCEPT !.pushback = EOF]]
    ELSE IF fails
    THEN [c |-> EOF, st |-> [st EXCEPT !.error = TRUE]]
    ELSE IF st.pos < Len(text)
    THEN [c |-> text[st.pos + 1], st |-> [st EXCEPT !.pos = @ + 1]]
    ELSE [c |-> EOF, st |-> [st EXCEPT !.eof = TRUE]]

Fgetc(s) ==
    /\ \E fails \in {FALSE, MayFail} :
         LET g == GetFrom(content[s], At(s), fails)
         IN  Done(s, g.st, "fgetc", g.c # EOF, IF g.c = EOF THEN <<>> ELSE <<g.c>>)
    /\ UNCHANGED last_char

\* A slip: the end-of-file flag stays.
Ungetc_KeepsEof(s, c) ==
    /\ IF stream[s].pushback # EOF
       THEN Done(s, At(s), "ungetc", FALSE, <<c>>)
       ELSE Done(s, [At(s) EXCEPT !.pushback = c], "ungetc", TRUE, <<c>>)
    /\ UNCHANGED last_char

Ungetc(s, c) ==
    /\ IF stream[s].pushback # EOF
       THEN Done(s, At(s), "ungetc", FALSE, <<c>>)
       ELSE Done(s, [At(s) EXCEPT !.pushback = c, !.eof = FALSE],
                 "ungetc", TRUE, <<c>>)
    /\ UNCHANGED last_char

\* fread(ptr, 1, n, stream): the pushed back character is not looked at.
Fread(s, n) ==
    /\ FreadAnyTime \/ stream[s].pushback = EOF
    /\ LET here == At(s)
           rest == Len(content[s]) - here.pos
           rc   == IF n < rest THEN n ELSE rest
           read == [here EXCEPT !.pos = @ + rc, !.eof = @ \/ rc < n]
       IN  \/ Done(s, read, "fread", TRUE,
                   SubSeq(content[s], here.pos + 1, here.pos + rc))
           \/ MayFail /\ Done(s, [here EXCEPT !.error = TRUE], "fread", FALSE, <<>>)
    /\ UNCHANGED last_char

-----------------------------------------------------------------------------
(***************************************************************************)
(* fgets.  The loop's state: the stream st, the characters out that lie in  *)
(* the buffer, below: p stands one below the buffer; the last character     *)
(* fgets saw, and c.                                                        *)
(***************************************************************************)

\* Lines 42 to 57: store c at p, after dropping the CR before an LF.
Stored(l, c, s) ==
    LET drops  == mode[s].binary /\ c = LF /\ l.last = CR
        ch     == IF c = CR /\ mode[s].console THEN LF ELSE c
        kept   == IF drops /\ l.out # <<>> THEN Front(l.out) ELSE l.out
        below  == drops /\ l.out = <<>>
    IN  [l EXCEPT !.c = ch, !.last = IF mode[s].binary THEN c ELSE @,
                  !.below = below,
                  !.out = IF below THEN <<>> ELSE Append(kept, ch)]

\* A turn of the loop, which c = EOF or LF has ended.
Turn(l, s, fails) ==
    LET g == GetFrom(content[s], l.st, fails)
    IN  IF l.c \in {EOF, LF} THEN l
        ELSE IF g.c = EOF THEN [l EXCEPT !.st = g.st, !.c = EOF]
        ELSE Stored([l EXCEPT !.st = g.st], g.c, s)

\* The loop of lines 41 to 62; GEMDOS fails in turn failAt.
Line(s, n, failAt) ==
    LET start == [st |-> At(s), out |-> <<>>, below |-> FALSE,
                  last |-> last_char, c |-> "0"]
        after[i \in 0 .. n - 1] ==
          IF i = 0 THEN start ELSE Turn(after[i - 1], s, i = failAt)
    IN  after[n - 1]

\* NULL, or the string: what it was, and whether it reached below the buffer.
Fgets(s, n) ==
    \/ /\ stream[s].error
       /\ Done(s, At(s), "fgets", FALSE, <<>>)
       /\ UNCHANGED last_char
    \/ /\ ~stream[s].error
       /\ \E failAt \in IF MayFail THEN 0 .. n - 1 ELSE {0} :
            LET l == Line(s, n, failAt)
                fails == l.c = EOF /\ (l.out = <<>> \/ l.st.error)
            IN  /\ pos' = [pos EXCEPT ![s] = l.st.pos]
                /\ stream' = [stream EXCEPT ![s] =
                     [pushback |-> l.st.pushback, eof |-> l.st.eof, error |-> l.st.error]]
                /\ call' = [stream |-> s, kind |-> "fgets", ok |-> ~fails,
                            text |-> IF fails THEN <<>> ELSE l.out, below |-> l.below]
                /\ last_char' = l.last
                /\ UNCHANGED <<mode, content>>

-----------------------------------------------------------------------------

Origins == {"SEEK_SET", "SEEK_CUR", "SEEK_END"}

\* Where GEMDOS goes: it counts from its own position, whatever is pushed back.
Target(s, offset, origin) ==
    offset + CASE origin = "SEEK_SET" -> 0
               [] origin = "SEEK_CUR" -> pos[s]
               [] origin = "SEEK_END" -> Len(content[s])

\* A slip: what was pushed back stays.
Fseek_KeepsPushback(s, offset, origin) ==
    /\ \E refused \in {FALSE, MayFail} :
         LET to == Target(s, offset, origin)
         IN  IF to \in 0 .. Len(content[s]) /\ ~refused
             THEN Done(s, [At(s) EXCEPT !.pos = to, !.eof = FALSE], "fseek", TRUE, <<>>)
             ELSE Done(s, At(s), "fseek", FALSE, <<>>)
    /\ UNCHANGED last_char

\* GEMDOS refuses a place in front of the file or behind its end, or any.  The last
\* character written, which fseek forgets, is none of a stream that is read.
Fseek(s, offset, origin) ==
    /\ \E refused \in {FALSE, MayFail} :
         LET to == Target(s, offset, origin)
         IN  IF to \in 0 .. Len(content[s]) /\ ~refused
             THEN Done(s, [At(s) EXCEPT !.pos = to, !.eof = FALSE, !.pushback = EOF],
                       "fseek", TRUE, <<>>)
             ELSE Done(s, At(s), "fseek", FALSE, <<>>)
    /\ UNCHANGED last_char

\* The result of the fseek in it is not looked at; call has it.
Rewind(s) ==
    /\ \E refused \in {FALSE, MayFail} :
         Done(s, [pos |-> IF refused THEN pos[s] ELSE 0, pushback |-> EOF, eof |-> FALSE,
                  error |-> FALSE], "rewind", ~refused, <<>>)
    /\ UNCHANGED last_char

Fflush(s) ==
    /\ Done(s, [At(s) EXCEPT !.pushback = EOF], "fflush", TRUE, <<>>)
    /\ UNCHANGED last_char

Clearerr(s) ==
    /\ Done(s, [At(s) EXCEPT !.eof = FALSE, !.error = FALSE], "clearerr", TRUE, <<>>)
    /\ UNCHANGED last_char

Init ==
    /\ mode \in [Streams -> Modes]
    /\ content \in [Streams -> Contents]
    /\ pos = [s \in Streams |-> 0]
    /\ stream = [s \in Streams |-> [pushback |-> EOF, eof |-> FALSE, error |-> FALSE]]
    /\ last_char = "0"
    /\ call = [stream |-> "none", kind |-> "none", ok |-> TRUE, text |-> <<>>,
               below |-> FALSE]

\* To anywhere in the file, and one character beyond.
Offsets(s, origin) ==
    {to - Target(s, 0, origin) : to \in -1 .. Len(content[s]) + 1}

Next ==
    \E s \in Streams :
      \/ Fgetc(s)
      \/ \E c \in Pushed : Ungetc(s, c)
      \/ \E n \in Sizes : Fread(s, n)
      \/ \E n \in Sizes : Fgets(s, n)
      \/ \E origin \in Origins : \E offset \in Offsets(s, origin) :
            Fseek(s, offset, origin)
      \/ Rewind(s)
      \/ Fflush(s)
      \/ Clearerr(s)

Spec == Init /\ [][Next]_vars

-----------------------------------------------------------------------------

TypeOK ==
    /\ mode \in [Streams -> Modes]
    /\ content \in [Streams -> Contents]
    /\ pos \in [Streams -> Nat]
    /\ \A s \in Streams : pos[s] <= Len(content[s])
    /\ stream \in [Streams -> [pushback : Chars \cup {EOF}, eof : BOOLEAN,
                               error : BOOLEAN]]
    /\ last_char \in Chars \cup {"0"}

\* What the program has yet to read from s.
Ahead(s) ==
    (IF stream[s].pushback = EOF THEN <<>> ELSE <<stream[s].pushback>>)
       \o SubSeq(content[s], pos[s] + 1, Len(content[s]))

\* A stream that says it is at the end has nothing to read.
EofIsEnd == \A s \in Streams : stream[s].eof => Ahead(s) = <<>>

\* What fgetc, fgets and fread give is what was to be read next, in order and without
\* gaps or repeats; fgetc and fgets report EOF without an error only at the end.  (For
\* fgets on streams that are neither binary nor the console; for fread with nothing
\* pushed back.)
Read(s) ==
    /\ call'.stream = s /\ ~stream'[s].error
    /\ \/ mode[s] = Plain /\ call'.kind \in {"fgetc", "fgets"}
       \/ call'.kind = "fread" /\ stream[s].pushback = EOF
GivesNext(s) ==
    Read(s) => /\ Ahead(s) = call'.text \o Ahead(s)'
               /\ ~call'.ok => Ahead(s) = <<>>
ReadsInOrder == [][\A s \in Streams : GivesNext(s)]_vars

\* How many characters of the file the program has had and not given back.
Place(s) == Len(content[s]) - Len(Ahead(s))

\* The place an fseek asks for, as the program counts.
AskedFor(s, offset, origin) ==
    offset + CASE origin = "SEEK_SET" -> 0
               [] origin = "SEEK_CUR" -> Place(s)
               [] origin = "SEEK_END" -> Len(content[s])

\* fseek counts from behind a character that is pushed back.
Overshoot(s, origin) ==
    IF origin = "SEEK_CUR" /\ stream[s].pushback # EOF THEN 1 ELSE 0

\* What is ahead of a stream whose first n characters are behind it.
From(s, n) == SubSeq(content[s], n + 1, Len(content[s]))

\* After an fseek that succeeds the program reads from the place it asked for, counted
\* from the place it has read to, from the start or from the end, and nothing pushed
\* back comes in between: but one character too far where one was pushed back and the
\* place is relative.  An fseek that fails changes nothing of what is ahead.
LeadsThere(s, offset, origin) ==
    Fseek(s, offset, origin) =>
      Ahead(s)' = From(s, AskedFor(s, offset, origin) + Overshoot(s, origin))

\* After a rewind GEMDOS does not refuse the program reads the file from its start.
SeeksRight(s) ==
    call'.stream = s =>
      /\ call'.kind = "fseek" /\ call'.ok =>
           \A origin \in Origins : \A offset \in Offsets(s, origin) :
             LeadsThere(s, offset, origin)
      /\ call'.kind = "fseek" /\ ~call'.ok => Ahead(s)' = Ahead(s)
      /\ call'.kind = "rewind" /\ call'.ok => Ahead(s)' = From(s, 0)
SeeksToPlace == [][\A s \in Streams : SeeksRight(s)]_vars

\* What is read comes from the place one is at, in order.
ReadsFromPlace == ReadsInOrder /\ SeeksToPlace

\* fgets gives one line at most: an LF is only at its end, and no more than the
\* buffer takes.
OneLineAtMost ==
    call.kind = "fgets" => \A i \in 1 .. Len(call.text) - 1 : call.text[i] # LF

\* The flags, the lines and all variables are in order.
InputSound == TypeOK /\ EofIsEnd /\ OneLineAtMost

\* ungetc.c says: Push the character C back onto the input stream of STREAM.  So
\* the next read from the stream gets it.
PushedBackIsNext ==
    [][call.kind = "ungetc" /\ call.ok /\ call'.kind = "fread" /\ call'.ok
         /\ call'.stream = call.stream
       => call'.text # <<>> /\ Head(call'.text) = Head(call.text)]_vars
=============================================================================
