------------------------------- MODULE GetOpt -------------------------------
(***************************************************************************)
(* getopt: one step is one call by a program that asks until the answer is  *)
(* -1; one that stops at an error has made the first of these calls.  An    *)
(* element of the command line is a sequence of characters; the program's   *)
(* name, argv[0], is left out, so element 1 is argv[1].                     *)
(***************************************************************************)
EXTENDS Integers, Sequences, SequencesExt

CONSTANTS
    Lines,      \* command lines
    Plain,      \* option letters without an argument
    WithArg     \* option letters followed by ":" in optstring

GetOptAssumption ==
    /\ Plain \cap WithArg = {}
    /\ \A l \in {"-", ":", "?"} : l \notin Plain \cup WithArg
    /\ \A line \in Lines : line \in Seq(Seq(STRING))

VARIABLES
    argv,
    quiet,      \* optstring starts with ":"
    optind,
    sp,
    reports,    \* what the calls returned, with optarg, up to the first illegal letter
    taken,      \* elements that were given as an argument
    over        \* getopt returned -1

vars == <<argv, quiet, optind, sp, reports, taken, over>>

NoArg == [given |-> FALSE, str |-> <<>>]
Arg(s) == [given |-> TRUE, str |-> s]

Dash == <<"-">>
DashDash == <<"-", "-">>

Init ==
    /\ argv \in Lines
    /\ quiet \in BOOLEAN
    /\ optind = 1 /\ sp = 1
    /\ reports = <<>> /\ taken = {}
    /\ over = FALSE

Element == argv[optind]

\* argv[optind][sp]
Letter == Element[sp + 1]

\* argv[optind][sp + 1] is the end of the element.
AtEnd == sp + 2 > Len(Element)

IsOption(e) == Len(e) > 1 /\ e[1] = "-"

\* On to the next option letter, or element.
NextLetter ==
    IF AtEnd THEN sp' = 1 /\ optind' = optind + 1
             ELSE sp' = sp + 1 /\ UNCHANGED optind

IllegalMet == \E i \in 1 .. Len(reports) :
    reports[i].ret = "?" /\ reports[i].letter \notin WithArg

\* What follows an illegal letter would be the same for ever.
Report(ret, letter, arg) ==
    reports' = IF IllegalMet THEN reports
               ELSE Append(reports, [ret |-> ret, letter |-> letter, arg |-> arg])

\* No (further) options.
Finished ==
    /\ sp = 1
    /\ \/ optind > Len(argv) /\ UNCHANGED optind
       \/ /\ optind <= Len(argv)
          /\ \/ ~IsOption(Element) /\ UNCHANGED optind
             \/ Element = DashDash /\ optind' = optind + 1
    /\ over' = TRUE
    /\ UNCHANGED <<sp, reports, taken>>

Ready == sp > 1 \/ (optind <= Len(argv) /\ IsOption(Element) /\ Element # DashDash)

\* Neither optind nor the element changes: the next call reads it from its start.
Illegal ==
    /\ Letter \notin Plain \cup WithArg
    /\ Report("?", Letter, NoArg)
    /\ sp' = 1
    /\ UNCHANGED <<optind, taken, over>>

PlainOption ==
    /\ Letter \in Plain
    /\ Report(Letter, Letter, NoArg)
    /\ NextLetter
    /\ UNCHANGED <<taken, over>>

\* A slip: an argument in the next element is not skipped.
ArgInNext_Stay ==
    /\ Report(Letter, Letter, Arg(argv[optind + 1]))
    /\ optind' = optind + 1
    /\ taken' = taken \cup {optind + 1}
    /\ UNCHANGED over

\* The argument is the next element.
ArgInNext ==
    /\ Report(Letter, Letter, Arg(argv[optind + 1]))
    /\ optind' = optind + 2
    /\ taken' = taken \cup {optind + 1}
    /\ UNCHANGED over

\* The argument is the rest of this element.
ArgHere ==
    /\ Report(Letter, Letter, Arg(SubSeq(Element, sp + 2, Len(Element))))
    /\ optind' = optind + 1
    /\ UNCHANGED <<taken, over>>

ArgMissing ==
    /\ Report(IF quiet THEN ":" ELSE "?", Letter, NoArg)
    /\ optind' = optind + 1
    /\ UNCHANGED <<taken, over>>

OptionWithArg ==
    /\ Letter \in WithArg
    /\ \/ ~AtEnd /\ ArgHere
       \/ AtEnd /\ optind + 1 > Len(argv) /\ ArgMissing
       \/ AtEnd /\ optind + 1 <= Len(argv) /\ ArgInNext
    /\ sp' = 1

Next ==
    /\ ~over
    /\ \/ Finished
       \/ Ready /\ (Illegal \/ PlainOption \/ OptionWithArg)
    /\ UNCHANGED <<argv, quiet>>

Spec == Init /\ [][Next]_vars

-----------------------------------------------------------------------------
(* Properties. *)

\* Between two calls sp stands on a letter of the element optind names, and
\* is 1 when there is none.
TypeOK ==
    /\ optind \in 1 .. Len(argv) + 1
    /\ sp \in Nat \ {0}
    /\ sp > 1 => optind <= Len(argv) /\ sp + 1 <= Len(Element)
    /\ taken \subseteq 1 .. Len(argv)
    /\ over \in BOOLEAN

\* The characters of the line before the place where getopt stands, without
\* the dashes of the options and without the "--" that ended them.
Consumed ==
    LET ended == over /\ optind > 1 /\ argv[optind - 1] = DashDash
                 /\ optind - 1 \notin taken
        whole(i) == IF i \in taken THEN argv[i]
                    ELSE IF ended /\ i = optind - 1 THEN <<>> ELSE Tail(argv[i])
    IN  FlattenSeq([i \in 1 .. optind - 1 |-> whole(i)])
        \o (IF sp > 1 THEN SubSeq(Element, 2, sp) ELSE <<>>)

\* As long as the letters are legal, every letter and every argument before
\* optind, the "next element to be processed", was reported once, in the
\* order of the line.
EverythingReportedOnce ==
    ~IllegalMet =>
        Consumed = FlattenSeq([i \in 1 .. Len(reports) |->
                                <<reports[i].letter>> \o reports[i].arg.str])

\* -1 comes at the end of the line, at the first element that is not an
\* option, or behind "--", and no option stands before that.
StopsAtOperand ==
    over /\ ~IllegalMet =>
        /\ sp = 1
        /\ \/ optind > Len(argv)
           \/ ~IsOption(Element)
           \/ optind > 1 /\ argv[optind - 1] = DashDash /\ optind - 1 \notin taken

\* A program that asks until -1 gets it, also after a missing argument; after an illegal
\* letter it never does, as getopt goes through the same letters again and again.
NoEndAfterIllegal == IllegalMet => ~over
=============================================================================
