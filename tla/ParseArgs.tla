----------------------------- MODULE ParseArgs -----------------------------
(***************************************************************************)
(* parseargs of the startup: from the basepage a caller has filled in, it   *)
(* builds environ and argv in the memory behind the bss, and counts the     *)
(* bytes it has used there.                                                 *)
(*                                                                         *)
(* There are three ways for arguments: words in the command line, quoted    *)
(* file names in it (MagXDesk), and strings behind ARGV= in the             *)
(* environment.  The desktop puts a value into the environment as a string  *)
(* of its own.  Strings are sequences of characters here.                   *)
(***************************************************************************)
EXTENDS Integers, Sequences, SequencesExt, FiniteSetsExt

CONSTANTS
    Messages,   \* what callers want to give: environment, arguments, the way
    Pads        \* bytes from the end of the bss to environ: 1 to 4

NUL == "NUL"
Blank == " "
Quote == "'"

VARIABLES
    msg,        \* what the caller means (it has filled in the basepage)
    pad,
    pc,         \* the part of parseargs that runs
    at,         \* from, in the environment; cmdln, in the command line
    left,       \* i: characters of the command line still to be read
    to,         \* what has been written to the buffer for the command line
    inQuote,
    rest,       \* from, in the loop that collects arguments
    nulls,      \* what is left of the list of empty arguments
    environ, argv,
    count       \* bytes used behind the bss, as the code counts them

vars == <<msg, pad, pc, at, left, to, inQuote, rest, nulls, environ, argv, count>>

Ends(s) == Append(s, NUL)
Blanks(n) == [k \in 1 .. n |-> Blank]

-----------------------------------------------------------------------------
(***************************************************************************)
(* The caller: how it writes what it means into the basepage.               *)
(***************************************************************************)

\* A variable as the program should see it; one may have no = at all.
Meant(v) == IF v.kind = "bare" THEN v.name ELSE v.name \o <<"=">> \o v.value

\* The desktop gives a variable's value as the next string.
EnvStrings ==
    FlattenSeq([k \in DOMAIN msg.env |->
        LET v == msg.env[k]
        IN  IF v.kind = "split" THEN << Append(v.name, "="), v.value >>
            ELSE << Meant(v) >>])

\* A quote inside a file name is doubled.
Quoted(s) ==
    <<Quote>> \o FlattenSeq([k \in DOMAIN s |-> IF s[k] = Quote THEN <<Quote, Quote>>
                                                ELSE <<s[k]>>]) \o <<Quote>>

CommandLineOf(w) ==
    LET word(k) == IF w.way = "quoted" THEN Quoted(w.args[k]) ELSE w.args[k]
    IN  IF w.way = "ARGV" THEN <<>>
        ELSE Blanks(w.before) \o FlattenSeq([k \in DOMAIN w.args |->
                IF k = 1 THEN word(k) ELSE Blanks(w.between) \o word(k)])
             \o Blanks(w.after)
CommandLine == CommandLineOf(msg)

\* There are 127 bytes for it in the basepage.
ParseArgsAssumption ==
    /\ Messages \subseteq
         [env : Seq([name : Seq(STRING), value : Seq(STRING), kind : {"set", "split", "bare"}]),
          args : Seq(Seq(STRING)), way : {"words", "quoted", "ARGV"},
          before : Nat, between : Nat, after : Nat, beyond : Nat]
    /\ \A w \in Messages : Len(CommandLineOf(w)) + w.beyond <= 127
    /\ Pads \subseteq 1 .. 4

\* Behind ARGV=: the name of the program and the arguments.  An empty one is
\* written as a blank and stands in the list of ARGV=NULL:, where there may also
\* be the number of an argument that is not there.
ArgvStrings ==
    Ends(<<"p">>) \o FlattenSeq([k \in DOMAIN msg.args |->
        Ends(IF msg.args[k] = <<>> THEN <<Blank>> ELSE msg.args[k])]) \o <<NUL>>
NullList ==
    FlattenSeq([k \in DOMAIN msg.args |-> IF msg.args[k] = <<>> THEN <<k>> ELSE <<>>])
    \o (IF msg.beyond > 0 THEN <<Len(msg.args) + msg.beyond>> ELSE <<>>)

\* What can be said in each way.  Words are divided by blanks, and the first one does
\* not begin with a quote; a quoted name is not empty, and one blank follows it.  No
\* string of the environment is empty, a value on its own has no =, and nothing that is
\* no variable follows a string that ends with =: parseargs would join the two.
Sendable(w) ==
    /\ \A k \in DOMAIN w.args : NUL \notin ToSet(w.args[k])
    /\ w.way = "words" =>
         /\ \A k \in DOMAIN w.args : w.args[k] # <<>> /\ Blank \notin ToSet(w.args[k])
         /\ w.args # <<>> => w.args[1][1] # Quote
         /\ w.between > 0
    /\ w.way = "quoted" =>
         /\ w.args # <<>>
         /\ \A k \in DOMAIN w.args : w.args[k] # <<>>
         /\ w.between = 1
    /\ \A k \in DOMAIN w.env :
         /\ w.env[k].kind = "split" => w.env[k].value # <<>> /\ "=" \notin ToSet(w.env[k].value)
         /\ w.env[k].kind = "bare" =>
              w.env[k].name # <<>> /\ (k > 1 => Last(Meant(w.env[k - 1])) # "=")
Understandable == \A w \in Messages : Sendable(w)

-----------------------------------------------------------------------------

Char(k) == IF k <= Len(CommandLine) THEN CommandLine[k] ELSE NUL

\* The number of blanks from k on, at most n.
BlanksAt(k, n) ==
    Max({b \in 0 .. n : \A j \in k .. k + b - 1 : Char(j) = Blank})

Init ==
    /\ msg \in Messages
    /\ pad \in Pads
    /\ pc = "env" /\ at = 1 /\ left = 0
    /\ to = <<>> /\ inQuote = FALSE /\ rest = <<>> /\ nulls = <<>>
    /\ environ = <<>> /\ argv = <<>>
    /\ count = 4

\* Whether a string belongs to the variable before it.
Joins(s) ==
    /\ "=" \notin ToSet(s)
    /\ Len(environ) >= 1
    /\ Last(Last(environ)) = "="

EnvString ==
    /\ pc = "env" /\ at <= Len(EnvStrings)
    /\ LET s == EnvStrings[at]
       IN  environ' = IF Joins(s) THEN Append(Front(environ), Last(environ) \o s)
                      ELSE Append(environ, s)
    /\ count' = count + 4
    /\ at' = at + 1
    /\ UNCHANGED <<msg, pad, pc, left, to, inQuote, rest, nulls, argv>>

\* ARGV= ends the environment.
FoundArgv ==
    /\ pc = "env" /\ at > Len(EnvStrings) /\ msg.way = "ARGV"
    /\ nulls' = NullList
    /\ argv' = << <<"p">> >>
    /\ rest' = SubSeq(ArgvStrings, 3, Len(ArgvStrings))
    /\ count' = count + 8
    /\ pc' = "collect"
    /\ UNCHANGED <<msg, pad, at, left, to, inQuote, environ>>

\* A slip: the rounded part of the length is all the room there is.
BufferSize_NoEnds(i) == 4 * (i \div 4)

\* The room for the command line.
BufferSize(i) == 4 * (i \div 4) + 8

EnvEnds ==
    /\ pc = "env" /\ at > Len(EnvStrings) /\ msg.way # "ARGV"
    /\ LET i == Len(CommandLine) + msg.beyond
           b == BlanksAt(1, i)
       IN  /\ count' = count + 4 + BufferSize(i) + 4
           /\ at' = 1 + b
           /\ left' = i - b
           /\ pc' = IF Char(1 + b) = Quote THEN "quoted" ELSE "plain"
    /\ argv' = << <<>> >>
    /\ UNCHANGED <<msg, pad, to, inQuote, rest, nulls, environ>>

-----------------------------------------------------------------------------
(***************************************************************************)
(* The command line is copied to the buffer, a NUL after every argument.    *)
(***************************************************************************)

\* A slip: only one blank is skipped.
Word_OneBlank ==
    /\ pc = "plain" /\ left > 0
    /\ to' = Append(to, IF Char(at) = Blank THEN NUL ELSE Char(at))
    /\ at' = at + 1
    /\ left' = IF Char(at) = NUL THEN 0 ELSE left - 1
    /\ UNCHANGED <<msg, pad, pc, inQuote, rest, nulls, environ, argv, count>>

Word ==
    /\ pc = "plain" /\ left > 0
    /\ \/ /\ Char(at) = Blank
          /\ at' = at + BlanksAt(at, left)
          /\ left' = left - BlanksAt(at, left)
          /\ to' = Append(to, NUL)
       \/ /\ Char(at) # Blank
          /\ to' = Append(to, Char(at))
          /\ at' = at + 1
          /\ left' = IF Char(at) = NUL THEN 0 ELSE left - 1
    /\ UNCHANGED <<msg, pad, pc, inQuote, rest, nulls, environ, argv, count>>

\* A closing quote, and the character behind it, whatever it is.
PastQuote == 2

\* i and cmdln go on by n.
Reads(n) == at' = at + n /\ left' = left - n

QuoteChar ==
    /\ pc = "quoted" /\ left > 0 /\ Char(at) = Quote
    /\ \/ /\ ~inQuote
          /\ inQuote' = TRUE
          /\ Reads(1)
          /\ UNCHANGED to
       \/ /\ inQuote /\ Char(at + 1) = Quote
          /\ to' = Append(to, Quote)
          /\ Reads(2)
          /\ UNCHANGED inQuote
       \/ /\ inQuote /\ Char(at + 1) # Quote
          /\ inQuote' = FALSE
          /\ to' = Append(to, NUL)
          /\ Reads(PastQuote)
    /\ UNCHANGED <<msg, pad, pc, rest, nulls, environ, argv, count>>

OtherChar ==
    /\ pc = "quoted" /\ left > 0 /\ Char(at) # Quote
    /\ to' = Append(to, IF Char(at) = Blank /\ ~inQuote THEN NUL ELSE Char(at))
    /\ Reads(1)
    /\ UNCHANGED <<msg, pad, pc, inQuote, rest, nulls, environ, argv, count>>

CommandLineEnds ==
    /\ pc \in {"plain", "quoted"} /\ left <= 0
    /\ to' = to \o <<NUL, NUL>>
    /\ rest' = to \o <<NUL, NUL>>
    /\ pc' = "collect"
    /\ UNCHANGED <<msg, pad, at, left, inQuote, nulls, environ, argv, count>>

-----------------------------------------------------------------------------
(***************************************************************************)
(* The strings are collected until there is an empty one.                   *)
(***************************************************************************)

Argument ==
    /\ pc = "collect" /\ rest[1] # NUL
    /\ LET n == SelectInSeq(rest, LAMBDA c : c = NUL)
       IN  /\ argv' = Append(argv, SubSeq(rest, 1, n - 1))
           /\ rest' = SubSeq(rest, n + 1, Len(rest))
    /\ count' = count + 4
    /\ UNCHANGED <<msg, pad, pc, at, left, to, inQuote, nulls, environ>>

ArgumentsEnd ==
    /\ pc = "collect" /\ rest[1] = NUL
    /\ pc' = "nulls"
    /\ UNCHANGED <<msg, pad, at, left, to, inQuote, rest, nulls, environ, argv, count>>

\* The next one of the list is an empty argument, if there is such an argument.
EmptyArgument ==
    /\ pc = "nulls" /\ nulls # <<>>
    /\ IF Head(nulls) < Len(argv)
       THEN /\ argv' = [argv EXCEPT ![Head(nulls) + 1] = <<>>]
            /\ nulls' = Tail(nulls)
       ELSE nulls' = <<>> /\ UNCHANGED argv
    /\ UNCHANGED <<msg, pad, pc, at, left, to, inQuote, rest, environ, count>>

Returns ==
    /\ pc = "nulls" /\ nulls = <<>>
    /\ pc' = "done"
    /\ count' = count + 4
    /\ UNCHANGED <<msg, pad, at, left, to, inQuote, rest, nulls, environ, argv>>

Next ==
    \/ EnvString \/ FoundArgv \/ EnvEnds
    \/ Word \/ QuoteChar \/ OtherChar \/ CommandLineEnds
    \/ Argument \/ ArgumentsEnd \/ EmptyArgument \/ Returns

Spec == Init /\ [][Next]_vars

-----------------------------------------------------------------------------

TypeOK ==
    /\ pc \in {"env", "plain", "quoted", "collect", "nulls", "done"}
    /\ at \in Nat \ {0}
    /\ left \in -1 .. 127
    /\ inQuote \in BOOLEAN
    /\ count \in Nat

\* The program gets the arguments its caller means, whichever way they come, and
\* the environment, whether or not the desktop has split it.
ArgumentsComeThrough == pc = "done" => Tail(argv) = msg.args
EnvironmentComesThrough ==
    pc = "done" => environ = [k \in DOMAIN msg.env |-> Meant(msg.env[k])]

\* The command line never leaves its buffer: argv stands right behind it.
StaysInBuffer ==
    msg.way # "ARGV" => Len(to) <= BufferSize(Len(CommandLine) + msg.beyond)

\* The bytes from the end of the bss to the end of argv.
Used == pad + 4 * (Len(environ) + 1) + 4 * (Len(argv) + 1)
        + (IF msg.way = "ARGV" THEN 0
           ELSE BufferSize(Len(CommandLine) + msg.beyond))

\* What parseargs returns covers all it has put behind the bss: the startup puts
\* the stack above that.
CountCovers == pc = "done" => count >= Used
=============================================================================
