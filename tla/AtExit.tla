------------------------------- MODULE AtExit -------------------------------
(***************************************************************************)
(* The end of a program: atexit, exit, abort and _exit, and __main, which   *)
(* registers the finalizers before anything else runs.                      *)
(*                                                                         *)
(* The registered functions lie in an array that atexit extends with        *)
(* realloc.  exit moves _at_exit along that array and counts _num_at_exit   *)
(* down only when a function has returned; a function may itself call       *)
(* atexit or exit.                                                          *)
(***************************************************************************)
EXTENDS Naturals, Sequences

CONSTANTS
    Functions,      \* the functions the program registers
    Exiting,        \* those of them that call exit or abort
    MaxRegistered   \* bound: functions registered at once

CallFini == "call_fini"
Wild == "wild"      \* a call through memory behind the array

AtExitAssumption ==
    /\ Exiting \subseteq Functions
    /\ Wild \notin Functions
    /\ MaxRegistered \in Nat

VARIABLES
    array,          \* the block with the functions
    _at_exit,       \* how far the pointer is into the block
    _num_at_exit,
    phase,          \* "start", "running", "exiting", "terminated"; "quit" by _exit;
                    \* "lost": nobody knows what the program does
    registered,     \* the functions for which atexit returned 0
    ran             \* the functions exit has called

vars == <<array, _at_exit, _num_at_exit, phase, registered, ran>>

-----------------------------------------------------------------------------

\* A slip: what realloc returned goes to _at_exit before it is looked at.
Register_Loses(f) ==
    \/ /\ array' = SubSeq(array, 1, _num_at_exit) \o <<f>>
       /\ _num_at_exit' = _num_at_exit + 1
       /\ registered' = Append(registered, f)
       /\ UNCHANGED _at_exit
    \/ /\ array' = <<>>
       /\ UNCHANGED <<_at_exit, _num_at_exit, registered>>

\* atexit(f), with memory for it or without.
Register(f) ==
    \/ /\ array' = SubSeq(array, 1, _num_at_exit) \o <<f>>
       /\ _num_at_exit' = _num_at_exit + 1
       /\ registered' = Append(registered, f)
       /\ UNCHANGED _at_exit
    \/ UNCHANGED <<array, _at_exit, _num_at_exit, registered>>

\* __main does not look at what atexit returns.
Main ==
    /\ phase = "start"
    /\ phase' = "running"
    /\ Register(CallFini)
    /\ UNCHANGED ran

Atexit(f) ==
    /\ phase = "running"
    /\ Len(registered) < MaxRegistered
    /\ Register(f)
    /\ UNCHANGED <<phase, ran>>

\* exit, abort, and the return from main.
Exit ==
    /\ phase = "running"
    /\ phase' = "exiting"
    /\ UNCHANGED <<array, _at_exit, _num_at_exit, registered, ran>>

\* _exit and _Exit: none of the functions is called.
QuickExit ==
    /\ phase = "running"
    /\ phase' = "quit"
    /\ UNCHANGED <<array, _at_exit, _num_at_exit, registered, ran>>

\* The function exit calls next.
Called ==
    IF _at_exit < Len(array) THEN array[_at_exit + 1] ELSE Wild

\* A slip: the count stays.
CallNext_Uncounted ==
    /\ phase = "exiting" /\ _num_at_exit > 0
    /\ ran' = Append(ran, Called)
    /\ _at_exit' = _at_exit + 1
    /\ UNCHANGED _num_at_exit
    /\ Called # Wild
    /\ UNCHANGED <<array, phase, registered>>

\* One turn of exit's loop.  A function that calls exit starts a second loop
\* with the count as it is; the first one never goes on.  A function that calls
\* atexit gets -1: realloc does not know the pointer that has moved on (EINVAL).
CallNext ==
    /\ phase = "exiting" /\ _num_at_exit > 0
    /\ ran' = Append(ran, Called)
    /\ _at_exit' = _at_exit + 1
    /\ _num_at_exit' = IF Called \in Exiting THEN _num_at_exit ELSE _num_at_exit - 1
    /\ Called # Wild
    /\ UNCHANGED <<array, phase, registered>>

\* What a call through memory behind the array does nobody knows: it may end the
\* program, come back or never come back.
CallWild ==
    /\ phase = "exiting" /\ _num_at_exit > 0
    /\ Called = Wild
    /\ ran' = Append(ran, Wild)
    /\ phase' = "lost"
    /\ UNCHANGED <<array, _at_exit, _num_at_exit, registered>>

Pterm ==
    /\ phase = "exiting" /\ _num_at_exit = 0
    /\ phase' = "terminated"
    /\ UNCHANGED <<array, _at_exit, _num_at_exit, registered, ran>>

Init ==
    /\ array = <<>>
    /\ _at_exit = 0
    /\ _num_at_exit = 0
    /\ phase = "start"
    /\ registered = <<>>
    /\ ran = <<>>

Next ==
    \/ Main
    \/ \E f \in Functions : Atexit(f)
    \/ Exit
    \/ QuickExit
    \/ CallNext
    \/ CallWild
    \/ Pterm

Spec == Init /\ [][Next]_vars

-----------------------------------------------------------------------------

TypeOK ==
    /\ array \in Seq(Functions \cup {CallFini})
    /\ _at_exit \in Nat
    /\ _num_at_exit \in Nat
    /\ phase \in {"start", "running", "exiting", "terminated", "quit", "lost"}
    /\ registered \in Seq(Functions \cup {CallFini})
    /\ ran \in Seq(Functions \cup {CallFini, Wild})

\* A function that calls exit or abort itself has run.
Nested == \E i \in DOMAIN ran : ran[i] \in Exiting

\* The array holds the registered functions that exit has not called yet, in
\* order; an atexit that fails takes nothing from it.
ArrayHoldsTheRest ==
  ~Nested =>
    /\ Len(array) >= _at_exit + _num_at_exit
    /\ ran \o SubSeq(array, _at_exit + 1, _at_exit + _num_at_exit) = registered

\* When the program ends through exit, and by no second exit on the way, every
\* function registered has run once, in the order of registration: the finalizers first.
AllHaveRun == phase = "terminated" /\ ~Nested => ran = registered

\* exit ends the program; but when one of the functions calls exit or abort, it goes on
\* behind the end of the array.
ExitEnds ==
    (phase = "exiting") ~> (phase = IF Nested THEN "lost" ELSE "terminated")
=============================================================================
