------------------------------ MODULE Process ------------------------------
(***************************************************************************)
(* The life of a program: parseargs collects its arguments (ParseArgs),     *)
(* _crtinit gives it a stack (Startup), main reads its options (GetOpt) and *)
(* exit ends it (AtExit).                                                   *)
(*                                                                         *)
(* The parts share no variable: the first hands the second the number of    *)
(* bytes it has used behind the bss, and the third the arguments; when main *)
(* calls exit is its own affair.  So each part is looked at from all the    *)
(* states it may be entered in, and a few programs are followed from their  *)
(* arguments to their options.  (_crtinit looks for a private stack before  *)
(* it calls parseargs: the order of these two is of no consequence, neither *)
(* changes what the other reads.)                                           *)
(***************************************************************************)
EXTENDS Startup, Sequences

CONSTANTS
    Messages, Pads,                     \* of ParseArgs
    Lines, Plain, WithArg,              \* of GetOpt
    Functions, Exiting, MaxRegistered,  \* of AtExit
    Followed,   \* the messages that are followed through the parts
    Asked,      \* and what the programs that get them have in _stksize
    Image       \* bytes of their basepage, text, data and bss

VARIABLES
    part,       \* the part that runs
    followed,   \* the program is followed
    msg, pad, parsing, at, left, to, inQuote, rest, nulls, environ, argv, count,
    line, quiet, optind, letter, reports, taken, over,
    array, _at_exit, _num_at_exit, phase, registered, ran

Arguments == INSTANCE ParseArgs WITH pc <- parsing
Options == INSTANCE GetOpt WITH argv <- line, sp <- letter
Ending == INSTANCE AtExit

ASSUME ProcessAssumption ==
    /\ Followed \subseteq Messages /\ Asked \subseteq Sizes
    /\ Image \in Nat
    /\ Arguments!ParseArgsAssumption
    /\ Options!GetOptAssumption
    /\ Ending!AtExitAssumption

argumentVars == <<msg, pad, parsing, at, left, to, inQuote, rest, nulls, environ, argv, count>>
optionVars == <<line, quiet, optind, letter, reports, taken, over>>
endVars == <<array, _at_exit, _num_at_exit, phase, registered, ran>>
processVars == <<part, followed, vars, argumentVars, optionVars, endVars>>

-----------------------------------------------------------------------------

\* A part that is not entered yet stands in one of its initial states.
AnyMessage == CHOOSE w \in Followed : TRUE
AnyTpa == CHOOSE t \in Tpas : TRUE
ArgumentsIdle == msg = AnyMessage /\ pad = 1 /\ Arguments!Init
StackIdle == tpa = AnyTpa /\ asked = 0 /\ Init
OptionsIdle == line = <<>> /\ quiet = TRUE /\ Options!Init

ProcessInit ==
    \/ /\ part = "arguments" /\ followed \in BOOLEAN
       /\ StackIdle /\ OptionsIdle /\ Ending!Init
       /\ Arguments!Init
       /\ followed => msg \in Followed
    \/ /\ part = "stack" /\ followed = FALSE
       /\ ArgumentsIdle /\ OptionsIdle /\ Ending!Init
       /\ Init
    \/ /\ part = "options" /\ followed = FALSE
       /\ ArgumentsIdle /\ StackIdle /\ Ending!Init
       /\ Options!Init
    \/ /\ part = "end" /\ followed = FALSE
       /\ ArgumentsIdle /\ StackIdle /\ OptionsIdle
       /\ Ending!Init

ParseArguments ==
    /\ part = "arguments"
    /\ Arguments!Next
    /\ UNCHANGED <<part, followed, vars, optionVars, endVars>>

\* The bytes behind the bss belong to the program now.
GetStack ==
    /\ part = "arguments" /\ parsing = "done" /\ followed
    /\ part' = "stack"
    /\ tpa' \in {t \in Tpas : t.prog = Image + count}
    /\ asked' \in Asked
    /\ stksize' = asked'
    /\ sp' = tpa'.sp
    /\ UNCHANGED <<followed, pc, m, argumentVars, optionVars, endVars>>

MakeStack ==
    /\ part = "stack"
    /\ Next
    /\ UNCHANGED <<part, followed, argumentVars, optionVars, endVars>>

CallMain ==
    /\ part = "stack" /\ pc \in {"private", "main"} /\ followed
    /\ part' = "options"
    /\ line' = Tail(argv)
    /\ UNCHANGED <<followed, quiet, optind, letter, reports, taken, over,
                   vars, argumentVars, endVars>>

ReadOptions ==
    /\ part = "options"
    /\ Options!Next
    /\ UNCHANGED <<part, followed, vars, argumentVars, endVars>>

End ==
    /\ part = "end"
    /\ Ending!Next
    /\ UNCHANGED <<part, followed, vars, argumentVars, optionVars>>

ProcessNext ==
    \/ ParseArguments \/ GetStack
    \/ MakeStack \/ CallMain
    \/ ReadOptions
    \/ End

\* Once exit is called it goes on to the end.
ExitGoesOn ==
    /\ part = "end"
    /\ Ending!CallNext \/ Ending!CallWild \/ Ending!Pterm
    /\ UNCHANGED <<part, followed, vars, argumentVars, optionVars>>

\* The startup, getopt and exit are plain code: they go on.  main need not.
ProcessSpec ==
    /\ ProcessInit /\ [][ProcessNext]_processVars
    /\ WF_processVars(ParseArguments)
    /\ WF_processVars(ReadOptions)
    /\ WF_processVars(ExitGoesOn)

-----------------------------------------------------------------------------

\* The variables of all the parts have their types.
ProcessTypeOK ==
    /\ part \in {"arguments", "stack", "options", "end"}
    /\ followed \in BOOLEAN
    /\ Arguments!TypeOK /\ TypeOK /\ Options!TypeOK /\ Ending!TypeOK

\* parseargs: the program gets the arguments its caller means, whichever way
\* they come, and the environment, whether or not the desktop has split it.
CallerUnderstood ==
    Arguments!ArgumentsComeThrough /\ Arguments!EnvironmentComesThrough

\* With _crtinit: the program keeps the memory below its stack in which parseargs
\* has put environ, argv and the command line.
StackAboveArguments ==
    part # "arguments" /\ followed /\ pc = "main" =>
        m - stksize >= Image + Arguments!Used

\* parseargs: the command line never leaves its buffer, what parseargs returns
\* covers all it has put behind the bss, and the stack is put above it.
StaysInBuffer ==
    ProcessTypeOK /\ Arguments!StaysInBuffer /\ Arguments!CountCovers /\ StackAboveArguments

\* _crtinit: StackFits is stated in Startup.

\* getopt: every letter and argument is reported once, in the order of the line, up
\* to the end, the first operand or "--", and not before.
LineReported == Options!EverythingReportedOnce /\ Options!StopsAtOperand

\* atexit and exit: the array holds what exit has not called yet, and everything
\* registered has run when the program ends.
AllHaveRun == Ending!ArrayHoldsTheRest /\ Ending!AllHaveRun

\* Whatever the basepage holds, parseargs returns.  A program that asks getopt until it
\* gets -1 comes to an end, and after an illegal letter never.  exit ends the program;
\* but when a function it calls calls exit, it goes on behind the end of the array.
PartsEnd ==
    /\ (part = "arguments") ~> (parsing = "done")
    /\ (part = "options") ~> (over \/ Options!IllegalMet)
    /\ []Options!NoEndAfterIllegal
    /\ Ending!ExitEnds
=============================================================================
