------------------------------- MODULE Stdio -------------------------------
(***************************************************************************)
(* The streams of a program, text going out (TextOutput) and coming in      *)
(* (TextInput).  A program writes one, or reads the others: the functions   *)
(* of one module touch none of the other's fields, so that nothing is gained *)
(* by mixing their calls.                                                   *)
(***************************************************************************)
EXTENDS TextInput

CONSTANTS BUFSIZE, DataLengths, TextLengths, MaxSent, Faults    \* of TextOutput

VARIABLES
    doing,      \* what the program does: "reads" or "writes"
    device, end_char, error, sent, ret, failed

Out == INSTANCE TextOutput WITH last_char <- end_char

ASSUME StdioAssumption == Out!TextOutputAssumption

outVars == <<device, end_char, error, sent, ret, failed>>
stdioVars == <<doing, vars, outVars>>

\* What is not read stands in one of its initial states.
AnyContent == CHOOSE text \in Contents : TRUE
InIdle ==
    /\ mode = [s \in Streams |-> Plain] /\ content = [s \in Streams |-> AnyContent]
    /\ Init

StdioInit ==
    /\ Out!Init
    /\ \/ doing = "reads" /\ Init
       \/ doing = "writes" /\ InIdle

InStep == doing = "reads" /\ Next /\ UNCHANGED <<doing, outVars>>
OutStep == doing = "writes" /\ Out!Next /\ UNCHANGED <<doing, vars>>

StdioNext == InStep \/ OutStep

StdioSpec == StdioInit /\ [][StdioNext]_stdioVars

-----------------------------------------------------------------------------

\* The device holds the translation of what was written, while all of it goes through.
OutputSound == Out!OutputSound

\* What fwrite returns tells what was written.
CountsTell == Out!CountsTell
=============================================================================
