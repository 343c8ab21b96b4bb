------------------------------ MODULE Startup ------------------------------
(***************************************************************************)
(* _crtinit: how a program that was started on the top of its TPA gets a    *)
(* stack of the size it asks for in _stksize, and gives the rest of the TPA *)
(* back.  Integers are signed words of the machine; Half is 2^31 there.     *)
(***************************************************************************)
EXTENDS Integers

CONSTANTS
    Tpas,       \* basepages: its address bp, hitpa, the bytes in use from
                \* bp on (prog), and sp as the kernel has set it
    Sizes,      \* what a program may have in _stksize
    MinFree, MinKeep,
    Half

ASSUME StartupAssumption ==
    /\ Half \in Nat \ {0} /\ MinFree \in Nat /\ MinKeep \in Nat
    /\ Tpas \subseteq [bp : Nat, hitpa : Nat, prog : Nat, sp : Nat]
    /\ \A t \in Tpas : t.bp + t.prog + 3 < Half /\ t.hitpa < Half
    /\ Sizes \subseteq -Half .. Half - 1

VARIABLES
    pc,         \* the part of _crtinit that runs
    tpa,        \* the basepage
    asked,      \* _stksize as the program has set it
    stksize,    \* _stksize
    m,          \* the bytes the program keeps
    sp

vars == <<pc, tpa, asked, stksize, m, sp>>

\* The word that is equal to x modulo 2^w.
Wrap(x) == ((x + Half) % (2 * Half)) - Half

Up4(x) == 4 * ((x + 3) \div 4)
Down4(x) == 4 * (x \div 4)

Free(t, n) == t.hitpa - t.bp - MinFree - n

Init ==
    /\ tpa \in Tpas
    /\ asked \in Sizes
    /\ stksize = asked
    /\ m = 0
    /\ sp = tpa.sp
    /\ pc = "crt0"

\* An address space with a private stack: there is nothing to do.
PrivateStack ==
    /\ pc = "crt0"
    /\ sp > tpa.hitpa \/ sp < tpa.bp
    /\ pc' = "private"
    /\ UNCHANGED <<tpa, asked, stksize, m, sp>>

Measure ==
    /\ pc = "crt0"
    /\ sp \in tpa.bp .. tpa.hitpa
    /\ m' = Up4(tpa.prog)
    /\ pc' = IF Free(tpa, m') <= 0 THEN "refused" ELSE "size"
    /\ UNCHANGED <<tpa, asked, stksize, sp>>

\* Small numbers are a share of what is free; others a number of bytes.
Chosen(z, free) ==
    IF z \in {-1, 2} THEN free \div 2
    ELSE IF z = 0 THEN MinKeep
    ELSE IF z = 1 THEN free \div 4
    ELSE IF z = 3 THEN free - free \div 4
    ELSE IF z < -1 THEN Wrap(-z) ELSE z

Size ==
    /\ pc = "size"
    /\ stksize' = Down4(Chosen(stksize, Free(tpa, m)))
    /\ m' = Wrap(m + stksize')
    /\ pc' = "check"
    /\ UNCHANGED <<tpa, asked, sp>>

\* A slip: what is to stay free at the top is forgotten.
TooMuch_ToTheTop == Wrap(tpa.bp + m) > tpa.hitpa

TooMuch == Wrap(tpa.bp + m) > tpa.hitpa - MinFree

\* Mshrink, and the new stack: 64 bytes are left at its top.
Shrink ==
    /\ pc = "check"
    /\ IF TooMuch
       THEN pc' = "refused" /\ UNCHANGED sp
       ELSE pc' = "main" /\ sp' = Wrap(tpa.bp + m - 64)
    /\ UNCHANGED <<tpa, asked, stksize, m>>

Next == PrivateStack \/ Measure \/ Size \/ Shrink

Spec == Init /\ [][Next]_vars

-----------------------------------------------------------------------------

TypeOK ==
    /\ pc \in {"crt0", "private", "size", "check", "main", "refused"}
    /\ tpa \in Tpas /\ asked \in Sizes
    /\ stksize \in Int /\ sp \in Int
    /\ m \in {x \in Int : x % 4 = 0}

\* The sizes for which no word overflows.
Modest == \A t \in Tpas, z \in Sizes :
              t.bp + t.prog + 3 + MinKeep + (IF z < 0 THEN -z ELSE z) < Half

\* A program that runs keeps all that is in use and a stack above it, and leaves
\* MINFREE bytes free at the top of the TPA.
KeepsWhatItNeeds ==
    pc = "main" =>
        /\ stksize >= 0
        /\ m = Up4(tpa.prog) + stksize
        /\ tpa.bp + m <= tpa.hitpa - MinFree

\* A program that asks for a share of the memory is refused only when there is
\* none: then it has not come to choose a size.
ShareAlwaysFits ==
    pc = "refused" /\ asked \in {-1, 1, 2, 3} => Free(tpa, Up4(tpa.prog)) <= 0

\* The stack of a program that runs fits, and who asks for a share gets it.
StackFits == KeepsWhatItNeeds /\ ShareAlwaysFits
=============================================================================
