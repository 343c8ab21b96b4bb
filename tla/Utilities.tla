----------------------------- MODULE Utilities -----------------------------
(***************************************************************************)
(* Functions of the library that have nothing to do with each other: qsort  *)
(* (Sort), bsearch (Search), rand and srand (Rand), Getcookie (Cookies),    *)
(* memmove and memset (Memory), strtok and its kind and strchrnul (Tokens), *)
(* the native features of an emulator (NatFeats), and sleep and delay       *)
(* (Clock).  A program uses one of them.                                    *)
(***************************************************************************)
EXTENDS Search, Rand, Sort

CONSTANTS
    Names, Values, Room,                        \* of Cookies
    Top, Moves, Pieces,                         \* of Memory
    Uses, TokenTexts, Delim, ByteBits, Memories, Wanted,    \* of Tokens
    Machines, Features, Modes, Results, Garbage,    \* of NatFeats
    Half, CLOCKS_PER_SEC, Counts, Waits, MaxLate    \* of Clock

VARIABLES
    used,       \* the function that is used
    jar, walk, cookie, at, found, value,
    call, mem, a0, a1, d0, d1, turn, label,
    held, string, scanpoint, got,
    bytes, from, c, char_ptr, how, seen,
    machine, nf_ops, step, does, reg, local, words, vector, sigill, sigsys, asked, answer,
    wait, count, ticks, late, begin, waits

Jar == INSTANCE Cookies WITH pc <- walk
Mem == INSTANCE Memory
Tok == INSTANCE Tokens
NF == INSTANCE NatFeats
Timer == INSTANCE Clock

ASSUME UtilitiesAssumption ==
    /\ Jar!CookiesAssumption
    /\ Mem!MemoryAssumption /\ Tok!TokensAssumption /\ Tok!FindAssumption
    /\ NF!NatFeatsAssumption /\ Timer!ClockAssumption

jarVars == <<jar, walk, cookie, at, found, value>>
memVars == <<call, mem, a0, a1, d0, d1, turn, label>>
tokenVars == <<held, string, scanpoint, got>>
findVars == <<bytes, from, c, char_ptr, how, seen>>
featureVars ==
    <<machine, nf_ops, step, does, reg, local, words, vector, sigill, sigsys, asked, answer>>
clockVars == <<wait, count, ticks, late, begin, waits>>
otherVars == <<memVars, tokenVars, findVars, featureVars, clockVars>>
utilityVars == <<used, vars, randVars, sortVars, jarVars, otherVars>>

\* What is not used stands in one of its initial states.
AnyKey == CHOOSE k \in Keys : TRUE
AnyInput == CHOOSE i \in Inputs : TRUE
SortIdle == input = AnyInput /\ SortInit
SearchIdle == key = AnyKey /\ Init
JarIdle == jar = <<>> /\ Jar!Init
AnyMove == CHOOSE m \in Moves : TRUE
AnyText == CHOOSE t \in TokenTexts : TRUE
AnyMemory == CHOOSE m \in Memories : TRUE
AnyMachine == CHOOSE m \in Machines : TRUE
MoveIdle == call = AnyMove /\ Mem!MemInit
TokensIdle == held = [n \in {u.name : u \in Uses} |-> AnyText] /\ Tok!TokensInit
FindIdle == bytes = AnyMemory /\ from = 0 /\ c = 0 /\ Tok!FindInit
FeaturesIdle == machine = AnyMachine /\ NF!NfInit
AnyWait == CHOOSE w \in Waits : TRUE
AnyCount == CHOOSE n \in Counts : TRUE
ClockIdle == wait = AnyWait /\ count = AnyCount /\ Timer!ClockInit

ToolsIdle == SortIdle /\ SearchIdle /\ JarIdle
OthersIdle == MoveIdle /\ TokensIdle /\ FindIdle /\ FeaturesIdle /\ ClockIdle

UtilitiesInit ==
    /\ RandInit
    /\ \/ used = "qsort" /\ OthersIdle /\ SearchIdle /\ JarIdle /\ SortInit
       \/ used = "bsearch" /\ OthersIdle /\ SortIdle /\ JarIdle /\ Init
       \/ used = "rand" /\ OthersIdle /\ ToolsIdle
       \/ used = "Getcookie" /\ OthersIdle /\ SortIdle /\ SearchIdle /\ Jar!Init
       \/ used = "memmove" /\ ToolsIdle /\ TokensIdle /\ FindIdle /\ FeaturesIdle /\ ClockIdle
          /\ Mem!MemInit
       \/ used = "strtok" /\ ToolsIdle /\ MoveIdle /\ FindIdle /\ FeaturesIdle /\ ClockIdle
          /\ Tok!TokensInit
       \/ used = "strchrnul" /\ ToolsIdle /\ MoveIdle /\ TokensIdle /\ FeaturesIdle /\ ClockIdle
          /\ Tok!FindInit
       \/ used = "nf_init" /\ ToolsIdle /\ MoveIdle /\ TokensIdle /\ FindIdle /\ ClockIdle
          /\ NF!NfInit
       \/ used = "sleep" /\ ToolsIdle /\ MoveIdle /\ TokensIdle /\ FindIdle /\ FeaturesIdle
          /\ Timer!ClockInit

SortStep ==
    /\ used = "qsort" /\ SortNext
    /\ UNCHANGED <<used, vars, randVars, jarVars, otherVars>>

SearchStep ==
    /\ used = "bsearch" /\ Next
    /\ UNCHANGED <<used, randVars, sortVars, jarVars, otherVars>>

RandStep ==
    /\ used = "rand" /\ RandNext
    /\ UNCHANGED <<used, vars, sortVars, jarVars, otherVars>>

JarStep ==
    /\ used = "Getcookie" /\ Jar!Next
    /\ UNCHANGED <<used, vars, randVars, sortVars, otherVars>>

\* The loop of Getcookie goes on.
WalkStep ==
    /\ used = "Getcookie" /\ (Jar!Found \/ Jar!Other)
    /\ UNCHANGED <<used, vars, randVars, sortVars, otherVars>>

MoveStep ==
    /\ used = "memmove" /\ Mem!MemNext
    /\ UNCHANGED <<used, vars, randVars, sortVars, jarVars, tokenVars, findVars, featureVars, clockVars>>

TokenStep ==
    /\ used = "strtok" /\ Tok!TokensNext
    /\ UNCHANGED <<used, vars, randVars, sortVars, jarVars, memVars, findVars, featureVars,
                   clockVars>>

FindStep ==
    /\ used = "strchrnul" /\ Tok!FindNext
    /\ UNCHANGED <<used, vars, randVars, sortVars, jarVars, memVars, tokenVars, featureVars,
                   clockVars>>

FeatureStep ==
    /\ used = "nf_init" /\ NF!NfNext
    /\ UNCHANGED <<used, vars, randVars, sortVars, jarVars, memVars, tokenVars, findVars, clockVars>>

ClockStep ==
    /\ used = "sleep" /\ Timer!ClockNext
    /\ UNCHANGED <<used, vars, randVars, sortVars, jarVars, memVars, tokenVars, findVars,
                   featureVars>>

UtilitiesNext ==
    \/ SortStep \/ SearchStep \/ RandStep \/ JarStep \/ MoveStep \/ TokenStep \/ FindStep
    \/ FeatureStep \/ ClockStep

\* What goes on by itself: plain code and the timer.  The program need not call rand,
\* Getcookie or strtok again.
GoesOn == SortStep \/ SearchStep \/ WalkStep \/ MoveStep \/ FindStep \/ ClockStep

UtilitiesSpec ==
    /\ UtilitiesInit /\ [][UtilitiesNext]_utilityVars
    /\ WF_utilityVars(GoesOn)

-----------------------------------------------------------------------------

\* qsort: InBounds and Sorted are stated in Sort; bsearch: SearchSound, in Search; rand:
\* RandIsExact, in Rand.  Those below hold the types of the variables too.

\* Getcookie finds exactly what is in the jar.  strchrnul, which looks at four
\* characters with one addition, finds the first of its characters and reads no long
\* word behind it.
SearchesAnswer ==
    /\ Jar!TypeOK /\ Jar!AnswersTheJar
    /\ used = "strchrnul" => Tok!FindTypeOK /\ Tok!FindsFirst

\* memmove and memset change all that they are asked to and nothing else, however the
\* areas overlap, with no word or long word at an odd address.
MovesWhole == used = "memmove" => Mem!MemTypeOK /\ Mem!MovesWhole /\ Mem!AccessAligned

\* strtok and its kind hand out every token once and in order.
TokensInOrder == used = "strtok" => Tok!TokensTypeOK /\ Tok!TokensInOrder

\* nf_init leaves stack, vector and SIGILL as they were whatever traps, and keeps SIGSYS;
\* features are found where they are, and an opcode that nothing answers is run behind
\* detection on a secure MiNT only.  sleep and delay come back in time,
\* wherever the timer's counter goes around.
NearTheMachine ==
    /\ used = "nf_init" => NF!NfTypeOK /\ NF!PutsBack /\ NF!FeaturesFound
    /\ used = "sleep" => Timer!ClockTypeOK /\ Timer!WaitsAsLong

Returned ==
    /\ used = "qsort" => pc = "done"
    /\ used = "bsearch" => ret # NotYet
    /\ used = "Getcookie" => walk # "walk"
    /\ used = "memmove" => label = "done"
    /\ used = "strchrnul" => how = "found"
    /\ used = "sleep" => ~waits

\* All functions return, however often they are called.
AllReturn == []<>Returned
=============================================================================
