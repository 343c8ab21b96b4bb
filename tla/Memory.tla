------------------------------- MODULE Memory -------------------------------
(***************************************************************************)
(* memmove (which memcpy and bcopy are other names of) and memset, as the   *)
(* assembler of the 68000 has them, and the memmove of the other machines.  *)
(* An instruction that reads or writes memory is a step.  A byte of memory  *)
(* holds the address it has at first, or Fill.                              *)
(***************************************************************************)
EXTENDS Integers, Sequences

CONSTANTS
    Top,        \* memory is 0 .. Top - 1
    Moves,      \* the calls
    Pieces      \* what each movem of a turn moves: five times 44 bytes, and 36

Fill == -1

\* What the first i of them move, and all of them: 256 in the code.
Moved[i \in 0 .. Len(Pieces)] == IF i = 0 THEN 0 ELSE Moved[i - 1] + Pieces[i]
Block == Moved[Len(Pieces)]

MoveCall == [f: {"memmove", "memset", "portable"}, dest: Nat, src: Nat, length: Nat]

MemoryAssumption ==
    /\ Top \in Nat
    /\ Pieces \in Seq(Nat) /\ Pieces # <<>>
    /\ \A i \in DOMAIN Pieces : Pieces[i] > 0 /\ Pieces[i] % 4 = 0
    /\ Moves \subseteq MoveCall
    /\ \A m \in Moves : m.dest + m.length <= Top /\ m.src + m.length <= Top

VARIABLES
    call,           \* the call
    mem,
    a0, a1, d0, d1, \* registers: where to, where from, what is counted, the rest
    turn,           \* the instruction of the loop that is next
    label           \* where it is

memVars == <<call, mem, a0, a1, d0, d1, turn, label>>

MemInit ==
    /\ call \in Moves
    /\ mem = [i \in 0 .. Top - 1 |-> i]
    /\ a0 = call.dest /\ a1 = call.src
    /\ d0 = call.length /\ d1 = 0
    /\ turn = 1
    /\ label = "start"

-----------------------------------------------------------------------------

\* From the top down: where the destination may lie over what is still to be read.
Down == call.f = "memset" \/ call.dest > call.src

Copies == call.f # "memset"

To(k)   == IF Down THEN a0 - k ELSE a0
From(k) == IF Down THEN a1 - k ELSE a1

\* One instruction moves k bytes: all are read before one is written.
Move(k) ==
    /\ mem' = [i \in DOMAIN mem |->
                  IF i - To(k) \notin 0 .. k - 1 THEN mem[i]
                  ELSE IF Copies THEN mem[From(k) + (i - To(k))] ELSE Fill]
    /\ a0' = IF Down THEN a0 - k ELSE a0 + k
    /\ a1' = IF ~Copies THEN a1 ELSE IF Down THEN a1 - k ELSE a1 + k

MoveNothing == UNCHANGED <<mem, a0, a1>>

Start ==
    /\ label = "start"
    /\ label' = IF call.length = 0 \/ (call.f = "portable" /\ call.dest = call.src) THEN "done"
             ELSE IF call.f = "portable" THEN "bytes" ELSE "align"
    /\ a0' = IF Down THEN a0 + d0 ELSE a0
    /\ a1' = IF Copies /\ Down THEN a1 + d0 ELSE a1
    /\ UNCHANGED <<call, mem, d0, d1, turn>>

\* One even and one odd: the loop of eight is entered in the middle.
Mixed ==
    /\ label = "align" /\ Copies /\ a0 % 2 # a1 % 2
    /\ d0' = (d0 + 7) \div 8
    /\ turn' = (-d0) % 8
    /\ label' = "slow"
    /\ MoveNothing
    /\ UNCHANGED <<call, d1>>

\* A byte is moved if both are odd.
Align ==
    /\ label = "align" /\ (Copies => a0 % 2 = a1 % 2)
    /\ IF a0 % 2 = 1 THEN Move(1) ELSE MoveNothing
    /\ LET n == d0 - (a0 % 2)
       IN  /\ d0' = n \div Block /\ d1' = n % Block
           /\ label' = IF n >= Block THEN "block" ELSE "rest"
    /\ UNCHANGED <<call, turn>>

\* set256 and copy256.
MoveBlock ==
    /\ label = "block"
    /\ Move(Pieces[turn])
    /\ IF turn < Len(Pieces) THEN turn' = turn + 1 /\ UNCHANGED <<d0, label>>
       ELSE turn' = 1 /\ d0' = d0 - 1 /\ label' = IF d0 = 1 THEN "rest" ELSE "block"
    /\ UNCHANGED <<call, d1>>

\* A slip: the jump goes as far into the loop as there are long words too many.
Skipped_NotNegated(n) == n % 4

\* The long words of the loop of four that are jumped over at first.
Skipped(n) == (-n) % 4

\* less256.
Rest ==
    /\ label = "rest"
    /\ LET n == d1 \div 4
       IN  IF n = 0 THEN label' = "word" /\ UNCHANGED <<d0, turn>>
           ELSE /\ d0' = (n - 1) \div 4
                /\ turn' = Skipped(n)
                /\ label' = "long"
    /\ UNCHANGED <<call, mem, a0, a1, d1>>

\* set16 and copy16; dbra ends the loop below zero.
MoveLong ==
    /\ label = "long"
    /\ Move(4)
    /\ IF turn < 3 THEN turn' = turn + 1 /\ UNCHANGED <<d0, label>>
       ELSE turn' = 0 /\ d0' = d0 - 1 /\ label' = IF d0 = 0 THEN "word" ELSE "long"
    /\ UNCHANGED <<call, d1>>

\* less4.
MoveWord ==
    /\ label = "word"
    /\ IF d1 \div 2 % 2 = 1 THEN Move(2) ELSE MoveNothing
    /\ label' = "byte"
    /\ UNCHANGED <<call, d0, d1, turn>>

\* less2.
MoveByte ==
    /\ label = "byte"
    /\ IF d1 % 2 = 1 THEN Move(1) ELSE MoveNothing
    /\ label' = "done"
    /\ UNCHANGED <<call, d0, d1, turn>>

\* slow_copy.
SlowCopy ==
    /\ label = "slow"
    /\ Move(1)
    /\ IF turn < 7 THEN turn' = turn + 1 /\ UNCHANGED <<d0, label>>
       ELSE turn' = 0 /\ d0' = d0 - 1 /\ label' = IF d0 = 1 THEN "done" ELSE "slow"
    /\ UNCHANGED <<call, d1>>

\* The loops of the portable memmove.
PortableCopy ==
    /\ label = "bytes"
    /\ Move(1)
    /\ d0' = d0 - 1
    /\ label' = IF d0 = 1 THEN "done" ELSE "bytes"
    /\ UNCHANGED <<call, d1, turn>>

\* less256 and what is behind it.
LastBytes == Rest \/ MoveLong \/ MoveWord \/ MoveByte

memmove == call.f = "memmove" /\ (Start \/ Mixed \/ Align \/ MoveBlock \/ LastBytes \/ SlowCopy)

\* memset and bzero: the registers that memmove would fill hold the byte already.
memset == call.f = "memset" /\ (Start \/ Align \/ MoveBlock \/ LastBytes)

portable_memmove == call.f = "portable" /\ (Start \/ PortableCopy)

MemNext == memmove \/ memset \/ portable_memmove

MemSpec == MemInit /\ [][MemNext]_memVars

-----------------------------------------------------------------------------

MemTypeOK ==
    /\ call \in Moves
    /\ DOMAIN mem = 0 .. Top - 1
    /\ \A i \in DOMAIN mem : mem[i] \in {Fill} \cup DOMAIN mem
    /\ a0 \in Nat /\ a1 \in Nat /\ d0 \in -1 .. Top /\ d1 \in 0 .. Block - 1
    /\ turn \in 0 .. 7 \cup DOMAIN Pieces
    /\ label \in {"start", "align", "slow", "bytes", "block", "rest", "long", "word", "byte", "done"}

\* The 68000 traps on a word or a long word at an odd address: none is read or
\* written, whatever the addresses and the length are.
AccessAligned ==
    label \in {"block", "long", "word"} => a0 % 2 = 0 /\ (Copies => a1 % 2 = 0)

\* All that is asked for has been moved, as it was before the first step however the
\* areas overlap; nothing else has changed; and memset, which returns the pointer it
\* has counted down, returns its argument.
MovesWhole ==
    label = "done" =>
        /\ \A i \in DOMAIN mem :
             LET k == i - call.dest
             IN  mem[i] = IF k \notin 0 .. call.length - 1 THEN i
                          ELSE IF Copies THEN call.src + k ELSE Fill
        /\ ~Copies => a0 = call.dest
=============================================================================
