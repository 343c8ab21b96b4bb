--------------------------- MODULE ProcessProofs ---------------------------
(***************************************************************************)
(* A program that is started keeps what it needs, and one that asks for a   *)
(* share of a TPA with free memory is started; what parseargs writes stays  *)
(* below its stack, and is what the caller meant; getopt reports what       *)
(* stands in the line; what is registered has run when the program ends.    *)
(* Each holds for every caller, TPA, line and set of functions; the first   *)
(* two for every size for which no word overflows.                          *)
(***************************************************************************)
EXTENDS Process, TLAPS, Induction

\* What is known at each part of _crtinit.
StartupInv ==
    LET prog == Up4(tpa.prog)
        free == Free(tpa, prog)
    IN  /\ pc \in {"crt0", "private", "size", "check", "main", "refused"}
        /\ tpa \in Tpas /\ asked \in Sizes
        /\ stksize \in Int /\ m \in Int /\ sp \in Int
        /\ pc \in {"crt0", "private"} => stksize = asked /\ m = 0
        /\ pc = "size" => stksize = asked /\ m = prog /\ free > 0
        /\ pc \in {"check", "main"} =>
             free > 0 /\ stksize = Down4(Chosen(asked, free)) /\ m = prog + stksize
        /\ pc = "main" => tpa.bp + m <= tpa.hitpa - MinFree
        /\ pc = "refused" =>
             /\ \/ free <= 0 /\ m = prog
                \/ m = prog + Down4(Chosen(asked, free))
             /\ asked \in {-1, 1, 2, 3} => free <= 0

\* A number that fits into a word is not changed by it.
LEMMA WrapFits ==
    ASSUME NEW x \in Int, -Half <= x, x < Half
    PROVE  Wrap(x) = x
<1>1. Half \in Nat \ {0}
  BY StartupAssumption
<1>2. x + Half \in Nat /\ x + Half < 2 * Half
  BY <1>1
<1>3. (x + Half) % (2 * Half) = x + Half
  BY <1>1, <1>2
<1> QED
  BY <1>1, <1>3 DEF Wrap

\* Rounding to a multiple of four.
LEMMA RoundsDown ==
    ASSUME NEW x \in Int
    PROVE  /\ Down4(x) \in Int /\ Down4(x) % 4 = 0
           /\ Down4(x) <= x
           /\ x >= 0 => Down4(x) >= 0
  BY DEF Down4

\* And upwards.
LEMMA RoundsUp ==
    ASSUME NEW x \in Int
    PROVE  /\ Up4(x) \in Int /\ Up4(x) % 4 = 0
           /\ x <= Up4(x) /\ Up4(x) < x + 4
  BY DEF Up4

\* The size that is chosen is not negative; a share is at most what is free;
\* and any other is the constant, or the number asked for.
LEMMA ChosenBounds ==
    ASSUME NEW z \in Int, NEW free \in Nat, -Half < z, z < Half
    PROVE  /\ Chosen(z, free) \in Nat
           /\ z \in {-1, 1, 2, 3} => Chosen(z, free) <= free
           /\ z \notin {-1, 1, 2, 3} =>
                Chosen(z, free) = MinKeep \/ Chosen(z, free) = (IF z < 0 THEN -z ELSE z)
<1>1. z < -1 => Wrap(-z) = -z
  BY WrapFits, StartupAssumption
<1>2. MinKeep \in Nat /\ Half \in Nat
  BY StartupAssumption
<1>3. CASE z \in {-1, 2}
  <2>1. Chosen(z, free) = free \div 2
    BY <1>3 DEF Chosen
  <2> QED
    BY <2>1, <1>3
<1>4. CASE z = 0
  BY <1>2, <1>4 DEF Chosen
<1>5. CASE z = 1
  <2>1. Chosen(z, free) = free \div 4
    BY <1>5 DEF Chosen
  <2> QED
    BY <2>1, <1>5
<1>6. CASE z = 3
  <2>1. Chosen(z, free) = free - free \div 4
    BY <1>6 DEF Chosen
  <2> QED
    BY <2>1, <1>6
<1>7. CASE z < -1
  <2>1. Chosen(z, free) = -z
    BY <1>1, <1>7 DEF Chosen
  <2> QED
    BY <2>1, <1>7
<1>8. CASE z > 3
  <2>1. Chosen(z, free) = z
    BY <1>8 DEF Chosen
  <2> QED
    BY <2>1, <1>8
<1> QED
  BY <1>3, <1>4, <1>5, <1>6, <1>7, <1>8

\* What is chosen for a TPA with free memory: no sum overflows.
LEMMA SizeFits ==
    ASSUME Modest, NEW t \in Tpas, NEW z \in Sizes,
           NEW prog, prog = Up4(t.prog),
           NEW free, free = Free(t, prog), free > 0,
           NEW size, size = Down4(Chosen(z, free))
    PROVE  /\ prog \in Nat /\ prog % 4 = 0 /\ prog >= t.prog
           /\ size \in Nat /\ size % 4 = 0
           /\ Wrap(prog + size) = prog + size
           /\ Wrap(t.bp + prog + size) = t.bp + prog + size
           /\ z \in {-1, 1, 2, 3} => size <= free
<1> DEFINE abs == IF z < 0 THEN -z ELSE z
<1>1. /\ t.bp \in Nat /\ t.hitpa \in Nat /\ t.prog \in Nat /\ t.hitpa < Half
      /\ MinFree \in Nat /\ MinKeep \in Nat /\ Half \in Nat \ {0} /\ z \in Int
  BY StartupAssumption
<1>2. t.bp + t.prog + 3 + MinKeep + abs < Half
  BY DEF Modest
<1>3. -Half < z /\ z < Half
  BY <1>1, <1>2
<1>4. prog \in Nat /\ prog % 4 = 0 /\ prog >= t.prog /\ prog <= t.prog + 3
  <2>1. /\ Up4(t.prog) \in Int /\ Up4(t.prog) % 4 = 0
        /\ t.prog <= Up4(t.prog) /\ Up4(t.prog) < t.prog + 4
    BY <1>1, RoundsUp
  <2>2. prog = Up4(t.prog)
    OBVIOUS
  <2> HIDE DEF abs
  <2> QED
    BY <1>1, <2>1, <2>2, Z3
<1>5. free \in Nat /\ free = t.hitpa - t.bp - MinFree - prog
  BY <1>1, <1>4 DEF Free
<1> DEFINE c == Chosen(z, free)
<1>6. /\ c \in Nat
      /\ z \in {-1, 1, 2, 3} => c <= free
      /\ z \notin {-1, 1, 2, 3} => c = MinKeep \/ c = abs
  BY <1>1, <1>3, <1>5, ChosenBounds
<1> HIDE DEF c
<1>7. size \in Nat /\ size % 4 = 0 /\ size <= c
  BY <1>6, RoundsDown DEF c
<1>8. t.bp + prog + size < Half
  <2>1. CASE z \in {-1, 1, 2, 3}
    BY <1>1, <1>4, <1>5, <1>6, <1>7, <2>1
  <2>2. CASE z \notin {-1, 1, 2, 3}
    BY <1>1, <1>2, <1>4, <1>6, <1>7, <2>2
  <2> QED
    BY <2>1, <2>2
<1>9. Wrap(prog + size) = prog + size
  BY <1>1, <1>4, <1>7, <1>8, WrapFits
<1>10. Wrap(t.bp + prog + size) = t.bp + prog + size
  BY <1>1, <1>4, <1>7, <1>8, WrapFits
<1>11. z \in {-1, 1, 2, 3} => size <= free
  BY <1>5, <1>6, <1>7
<1> QED
  BY <1>4, <1>7, <1>9, <1>10, <1>11

\* A step of _crtinit keeps StartupInv.
LEMMA StartupKeeps ==
    ASSUME Modest, StartupInv, Next
    PROVE  StartupInv'
<1> DEFINE prog == Up4(tpa.prog)
           free == Free(tpa, prog)
           size == Down4(Chosen(asked, free))
<1>a. /\ tpa.bp \in Nat /\ tpa.hitpa \in Nat /\ tpa.prog \in Nat
      /\ MinFree \in Nat /\ prog \in Int /\ free \in Int
  <2>1. tpa \in Tpas
    BY DEF StartupInv
  <2>2. /\ tpa.bp \in Nat /\ tpa.hitpa \in Nat /\ tpa.prog \in Nat /\ MinFree \in Nat
    <3>1. tpa \in [bp : Nat, hitpa : Nat, prog : Nat, sp : Nat] /\ MinFree \in Nat
      BY <2>1, StartupAssumption
    <3> QED
      BY <3>1
  <2>3. prog \in Int
    BY <2>2, RoundsUp
  <2> HIDE DEF prog
  <2> QED
    BY <2>2, <2>3 DEF Free
<1>b. free > 0 =>
        /\ size \in Nat /\ prog \in Nat
        /\ Wrap(prog + size) = prog + size
        /\ Wrap(tpa.bp + prog + size) = tpa.bp + prog + size
        /\ asked \in {-1, 1, 2, 3} => size <= free
  BY SizeFits DEF StartupInv
<1> HIDE DEF size
<1>1. CASE PrivateStack
  BY <1>1 DEF PrivateStack, StartupInv
<1>2. CASE Measure
  BY <1>2, <1>a DEF Measure, StartupInv
<1>3. CASE Size
  <2>1. stksize' = size /\ free > 0 /\ m = prog
    BY <1>3 DEF Size, StartupInv, size
  <2>2. m' = prog + size
    BY <1>3, <1>b, <2>1 DEF Size
  <2> QED
    BY <1>3, <1>a, <1>b, <2>1, <2>2 DEF Size, StartupInv, size
<1>4. CASE Shrink
  <2>1. free > 0 /\ stksize = size /\ m = prog + size
    BY <1>4 DEF Shrink, StartupInv, size
  <2>2. Wrap(tpa.bp + m) = tpa.bp + m
    BY <2>1, <1>a, <1>b
  <2>3. free = tpa.hitpa - tpa.bp - MinFree - prog
    BY DEF Free
  <2>4. asked \in {-1, 1, 2, 3} => ~TooMuch
    BY <1>a, <1>b, <2>1, <2>2, <2>3 DEF TooMuch
  <2>5. CASE TooMuch
    BY <1>4, <1>a, <1>b, <2>1, <2>4, <2>5 DEF Shrink, StartupInv, size
  <2>6. CASE ~TooMuch
    <3>1. tpa.bp + m <= tpa.hitpa - MinFree
      BY <2>2, <2>6, <2>1, <1>a, <1>b DEF TooMuch
    <3>2. sp' \in Int
      <4>1. Half \in Nat \ {0}
        BY StartupAssumption
      <4>2. tpa.bp + m - 64 \in Int
        BY <1>a, <1>b, <2>1
      <4> QED
        BY <1>4, <2>6, <4>1, <4>2 DEF Shrink, Wrap
    <3> QED
      BY <1>4, <1>a, <1>b, <2>1, <2>6, <3>1, <3>2 DEF Shrink, StartupInv, size
  <2> QED
    BY <2>5, <2>6
<1> QED
  BY <1>1, <1>2, <1>3, <1>4 DEF Next

\* StartupInv holds of every state.
THEOREM StartupInvariant ==
    ASSUME Modest
    PROVE  Spec => []StartupInv
<1>1. Init => StartupInv
  BY StartupAssumption DEF Init, StartupInv
<1>2. StartupInv /\ [Next]_vars => StartupInv'
  <2>1. StartupInv /\ UNCHANGED vars => StartupInv'
    BY DEF vars, StartupInv
  <2> QED BY <2>1, StartupKeeps
<1> QED
  BY <1>1, <1>2, PTL DEF Spec

\* What StartupInv says.
LEMMA StartupEnough ==
    ASSUME Modest, StartupInv
    PROVE  KeepsWhatItNeeds /\ ShareAlwaysFits /\ TypeOK
<1>1. KeepsWhatItNeeds
  <2> SUFFICES ASSUME pc = "main"
               PROVE  /\ stksize >= 0 /\ m = Up4(tpa.prog) + stksize
                      /\ tpa.bp + m <= tpa.hitpa - MinFree
    BY DEF KeepsWhatItNeeds
  <2> QED
    BY SizeFits DEF StartupInv
<1>2. ShareAlwaysFits
  BY DEF StartupInv, ShareAlwaysFits
<1>3. m % 4 = 0
  <2>1. CASE pc \in {"crt0", "private"}
    BY <2>1 DEF StartupInv
  <2>2. CASE pc \in {"size", "check", "main", "refused"}
    <3>1. Up4(tpa.prog) \in Int /\ Up4(tpa.prog) % 4 = 0
      BY RoundsUp, StartupAssumption DEF StartupInv
    <3>2. \A x \in Int : Down4(x) \in Int /\ Down4(x) % 4 = 0
      BY RoundsDown
    <3>3. Chosen(asked, Free(tpa, Up4(tpa.prog))) \in Int
      <4>1. asked \in Int /\ Half \in Nat \ {0} /\ MinKeep \in Nat /\ Free(tpa, Up4(tpa.prog)) \in Int
        BY <3>1, StartupAssumption DEF StartupInv, Free
      <4>2. Wrap(-asked) \in Int
        BY <4>1 DEF Wrap
      <4> QED
        BY <4>1, <4>2 DEF Chosen
    <3> QED
      BY <2>2, <3>1, <3>2, <3>3 DEF StartupInv
  <2> QED
    BY <2>1, <2>2 DEF StartupInv
<1>4. TypeOK
  BY <1>3 DEF StartupInv, TypeOK
<1> QED
  BY <1>1, <1>2, <1>4

\* A program that is started has what it needs and MINFREE bytes stay free.
THEOREM StartedWithWhatItNeeds ==
    ASSUME Modest
    PROVE  Spec => []KeepsWhatItNeeds
BY StartupInvariant, StartupEnough, PTL

\* Who asks for a share is refused only where no memory is free.
THEOREM SharesAlwaysFit ==
    ASSUME Modest
    PROVE  Spec => []ShareAlwaysFits
BY StartupInvariant, StartupEnough, PTL

\* Both together.
THEOREM StackAlwaysFits ==
    ASSUME Modest
    PROVE  Spec => []StackFits
BY StartedWithWhatItNeeds, SharesAlwaysFit, PTL DEF StackFits

\* The bytes kept are a whole number of long words.
THEOREM StartupTypeCorrect ==
    ASSUME Modest
    PROVE  Spec => []TypeOK
BY StartupInvariant, StartupEnough, PTL

-----------------------------------------------------------------------------
(* Sequences *)

\* What stands in command lines and environments.
Byte == STRING \cup {" ", "'", "=", "NUL", "p"}

LEMMA OfBytes ==
    /\ Seq(STRING) \subseteq Seq(Byte)
    /\ Seq(Seq(STRING)) \subseteq Seq(Seq(Byte))
<1>1. STRING \subseteq Byte
  BY DEF Byte
<1> HIDE DEF Byte
<1>2. ASSUME NEW S, NEW T, S \subseteq T PROVE Seq(S) \subseteq Seq(T)
  <2> SUFFICES ASSUME NEW s \in Seq(S) PROVE s \in Seq(T)
    OBVIOUS
  <2>1. Len(s) \in Nat /\ s = [k \in 1 .. Len(s) |-> s[k]] /\ \A k \in 1 .. Len(s) : s[k] \in T
    BY <1>2
  <2> QED BY <2>1
<1> QED BY <1>1, <1>2

-----------------------------------------------------------------------------
(* exit *)

\* What is known of the array of functions: it is what was registered, exit has called
\* the front part of it, and it ends with nothing left to call.
EndInv ==
    /\ Ending!TypeOK
    /\ phase \in {"start", "running"} => _at_exit = 0 /\ ran = <<>>
    /\ ~Ending!Nested =>
         /\ array = registered
         /\ Len(array) = _at_exit + _num_at_exit
         /\ ran = SubSeq(array, 1, _at_exit)
         /\ phase = "terminated" => _num_at_exit = 0

LEMMA EndStarts ==
    ASSUME Ending!Init
    PROVE  EndInv
  BY DEF Ending!Init, EndInv, Ending!TypeOK

\* atexit, with memory or without, before exit has begun.
LEMMA RegisterKeeps ==
    ASSUME EndInv, phase \in {"start", "running"}, NEW f \in Functions \cup {Ending!CallFini},
           Ending!Register(f), ran' = ran,
           phase' \in {"start", "running"}
    PROVE  EndInv'
<1> DEFINE All == Functions \cup {Ending!CallFini}
<1>1. /\ array \in Seq(All) /\ registered = array /\ _at_exit = 0 /\ _num_at_exit = Len(array)
      /\ ran = <<>> /\ ran' = <<>> /\ _at_exit' = 0
  BY DEF EndInv, Ending!TypeOK, Ending!Nested, Ending!Register
<1>2. \/ UNCHANGED <<array, _num_at_exit, registered>>
      \/ /\ array' = Append(array, f) /\ registered' = array' /\ _num_at_exit' = Len(array) + 1
  <2>1. SubSeq(array, 1, Len(array)) = array /\ array \o <<f>> = Append(array, f)
    BY <1>1
  <2> QED BY <1>1, <2>1 DEF Ending!Register
<1>3. /\ array' \in Seq(All) /\ registered' = array' /\ _num_at_exit' = Len(array')
      /\ Len(array') \in Nat
  BY <1>1, <1>2
<1>4. SubSeq(array', 1, 0) = <<>>
  BY <1>3
<1> QED BY <1>1, <1>3, <1>4 DEF EndInv, Ending!TypeOK, Ending!Nested

\* A turn of exit's loop.
LEMMA CallKeeps ==
    ASSUME EndInv, Ending!CallNext
    PROVE  EndInv'
<1> DEFINE All == Functions \cup {Ending!CallFini}
           f == Ending!Called
<1>1. /\ array \in Seq(All) /\ registered \in Seq(All) /\ _at_exit \in Nat /\ _num_at_exit \in Nat
      /\ ran \in Seq(All \cup {Ending!Wild})
      /\ phase = "exiting" /\ _num_at_exit > 0 /\ ran' = Append(ran, f) /\ _at_exit' = _at_exit + 1
      /\ _num_at_exit' = (IF f \in Exiting THEN _num_at_exit ELSE _num_at_exit - 1)
      /\ f # Ending!Wild /\ UNCHANGED <<array, phase, registered>>
  BY DEF EndInv, Ending!TypeOK, Ending!CallNext
<1>2. _at_exit < Len(array) /\ f = array[_at_exit + 1] /\ f \in All
  BY <1>1 DEF Ending!Called
<1> HIDE DEF f
<1>3. Ending!TypeOK'
  <2>1. ran' \in Seq(All \cup {Ending!Wild})
    BY <1>1, <1>2
  <2>2. _at_exit' \in Nat /\ _num_at_exit' \in Nat
    BY <1>1
  <2> QED BY <1>1, <2>1, <2>2 DEF Ending!TypeOK
<1>4. ASSUME ~Ending!Nested'
      PROVE  /\ ~Ending!Nested /\ f \notin Exiting
  <2>1. Len(ran') = Len(ran) + 1 /\ ran'[Len(ran) + 1] = f /\ Len(ran) \in Nat
    BY <1>1
  <2>2. \A i \in DOMAIN ran : ran'[i] = ran[i] /\ i \in DOMAIN ran'
    BY <1>1
  <2>3. Len(ran) + 1 \in DOMAIN ran'
    BY <1>1, <2>1
  <2> QED BY <1>4, <2>1, <2>2, <2>3 DEF Ending!Nested
<1>5. ASSUME ~Ending!Nested'
      PROVE  /\ array' = registered' /\ Len(array') = _at_exit' + _num_at_exit'
             /\ ran' = SubSeq(array', 1, _at_exit')
  <2>1. array = registered /\ Len(array) = _at_exit + _num_at_exit /\ ran = SubSeq(array, 1, _at_exit)
    BY <1>4, <1>5 DEF EndInv
  <2>2. _num_at_exit' = _num_at_exit - 1
    BY <1>1, <1>4, <1>5
  <2>3. SubSeq(array, 1, _at_exit + 1) = Append(SubSeq(array, 1, _at_exit), array[_at_exit + 1])
    <3> DEFINE k == _at_exit
    <3>1. k \in Nat /\ k < Len(array) /\ Len(array) \in Nat
      BY <1>1, <1>2
    <3> HIDE DEF k
    <3>2. SubSeq(array, 1, k + 1) = Append(SubSeq(array, 1, k), array[k + 1])
      BY <1>1, <3>1
    <3> QED BY <3>2 DEF k
  <2> QED BY <1>1, <1>2, <2>1, <2>2, <2>3
<1> QED BY <1>1, <1>3, <1>5 DEF EndInv

LEMMA EndKeeps ==
    ASSUME Ending!AtExitAssumption, EndInv, Ending!Next
    PROVE  EndInv'
<1>1. CASE Ending!Main
  BY <1>1, RegisterKeeps DEF Ending!Main
<1>2. ASSUME NEW f \in Functions, Ending!Atexit(f) PROVE EndInv'
  BY <1>2, RegisterKeeps DEF Ending!Atexit
<1>3. CASE Ending!Exit \/ Ending!QuickExit
  BY <1>3 DEF Ending!Exit, Ending!QuickExit, EndInv, Ending!TypeOK, Ending!Nested
<1>4. CASE Ending!CallNext
  BY <1>4, CallKeeps
<1>5. CASE Ending!CallWild
  <2>1. /\ array \in Seq(Functions \cup {Ending!CallFini}) /\ _at_exit \in Nat /\ _num_at_exit \in Nat
        /\ _num_at_exit > 0 /\ Ending!Called = Ending!Wild /\ UNCHANGED <<array, _at_exit, _num_at_exit, registered>>
        /\ ran \in Seq(Functions \cup {Ending!CallFini, Ending!Wild})
        /\ ran' = Append(ran, Ending!Wild) /\ phase' = "lost"
    BY <1>5 DEF Ending!CallWild, EndInv, Ending!TypeOK
  <2>2. ~(_at_exit < Len(array))
    <3>1. Ending!Wild \notin Functions \cup {Ending!CallFini}
      BY DEF Ending!AtExitAssumption, Ending!Wild, Ending!CallFini
    <3> QED BY <2>1, <3>1 DEF Ending!Called
  <2>3. Ending!Nested
    BY <2>1, <2>2 DEF EndInv
  <2>4. Ending!Nested'
    <3>1. \A i \in DOMAIN ran : i \in DOMAIN ran' /\ ran'[i] = ran[i]
      BY <2>1
    <3> QED BY <2>3, <3>1 DEF Ending!Nested
  <2>5. ran' \in Seq(Functions \cup {Ending!CallFini, Ending!Wild})
    BY <2>1
  <2> QED BY <1>5, <2>1, <2>4, <2>5 DEF EndInv, Ending!TypeOK
<1>6. CASE Ending!Pterm
  BY <1>6 DEF Ending!Pterm, EndInv, Ending!TypeOK, Ending!Nested
<1> QED BY <1>1, <1>2, <1>3, <1>4, <1>5, <1>6 DEF Ending!Next

LEMMA EndEnough ==
    ASSUME EndInv
    PROVE  AllHaveRun
<1>1. CASE Ending!Nested
  BY <1>1 DEF AllHaveRun, Ending!AllHaveRun, Ending!ArrayHoldsTheRest
<1>2. CASE ~Ending!Nested
  <2> DEFINE k == _at_exit
             n == _num_at_exit
  <2>1. /\ array = registered /\ Len(array) = k + n /\ ran = SubSeq(array, 1, k)
        /\ array \in Seq(Functions \cup {Ending!CallFini}) /\ k \in Nat /\ n \in Nat
        /\ phase = "terminated" => n = 0
    BY <1>2 DEF EndInv, Ending!TypeOK
  <2>5. Len(array) >= k + n
    BY <2>1
  <2> HIDE DEF k, n
  <2>2. SubSeq(array, 1, k) \o SubSeq(array, k + 1, k + n) = array
    <3>1. /\ array \in Seq(Functions \cup {Ending!CallFini}) /\ k \in Nat /\ k + n \in Nat
          /\ k + n = Len(array) /\ 1 <= k + 1 /\ k <= k + n /\ 1 \in Nat \ {0}
      BY <2>1
    <3>2. SubSeq(array, 1, k) \o SubSeq(array, k + 1, k + n) = SubSeq(array, 1, k + n)
      BY <3>1, PartsJoin
    <3> QED BY <3>1, <3>2, PartOfAll
  <2>3. n = 0 => SubSeq(array, 1, k) = array
    BY <2>1
  <2>4. /\ ran \o SubSeq(array, k + 1, k + n) = registered
        /\ phase = "terminated" => ran = registered
    BY <2>1, <2>2, <2>3
  <2> QED BY <2>4, <2>5 DEF AllHaveRun, Ending!AllHaveRun, Ending!ArrayHoldsTheRest, k, n
<1> QED BY <1>1, <1>2

-----------------------------------------------------------------------------
(* getopt *)

LEMMA Associates ==
    ASSUME NEW a \in Seq(Byte), NEW b \in Seq(Byte), NEW c \in Seq(Byte)
    PROVE  (a \o b) \o c = a \o (b \o c)
<1> DEFINE l == (a \o b) \o c
           r == a \o (b \o c)
<1>1. /\ a \o b \in Seq(Byte) /\ Len(a \o b) = Len(a) + Len(b)
      /\ b \o c \in Seq(Byte) /\ Len(b \o c) = Len(b) + Len(c)
  OBVIOUS
<1>2. /\ l \in Seq(Byte) /\ Len(l) = Len(a) + Len(b) + Len(c)
      /\ r \in Seq(Byte) /\ Len(r) = Len(a) + Len(b) + Len(c)
  BY <1>1
<1>3. ASSUME NEW i \in 1 .. Len(l) PROVE l[i] = r[i]
  <2>1. CASE i \in 1 .. Len(a)
    BY <1>1, <1>2, <2>1
  <2>2. CASE i \in Len(a) + 1 .. Len(a) + Len(b)
    BY <1>1, <1>2, <2>2
  <2>3. CASE i \in Len(a) + Len(b) + 1 .. Len(l)
    BY <1>1, <1>2, <2>3
  <2> QED BY <1>2, <2>1, <2>2, <2>3
<1> HIDE DEF l, r
<1>4. l = r
  BY <1>2, <1>3
<1> QED BY <1>4 DEF l, r

\* What an element says: all of it when it was an argument, nothing when it is the "--"
\* that has ended the options, and else all but its dash.
Says(l, tk, skip, i) ==
    IF i \in tk THEN l[i] ELSE IF i = skip THEN <<>> ELSE Tail(l[i])
Said(l, tk, skip, n) == [i \in 1 .. n |-> Says(l, tk, skip, i)]

\* The letters of an element up to k.
Piece(e, k) == IF k > 1 THEN SubSeq(e, 2, k) ELSE <<>>

ReportSet == [ret : Byte \cup {":", "?"}, letter : Byte, arg : [given : BOOLEAN, str : Seq(Byte)]]
Heard(rs) == [i \in 1 .. Len(rs) |-> <<rs[i].letter>> \o rs[i].arg.str]

\* What is known of a program that reads its options.
OptionsInv ==
    /\ line \in Seq(Seq(Byte)) /\ Options!TypeOK
    /\ reports \in Seq(ReportSet)
    /\ taken \subseteq 1 .. optind - 1
    /\ ~over /\ ~Options!IllegalMet =>
         /\ \A i \in 1 .. optind - 1 :
              i \notin taken => Options!IsOption(line[i]) /\ line[i] # Options!DashDash
         /\ letter > 1 => Options!IsOption(Options!Element) /\ Options!Element # Options!DashDash
         /\ Joined(Said(line, taken, 0, optind - 1)) \o Piece(Options!Element, letter)
              = Joined(Heard(reports))
    /\ over => LineReported

LEMMA PieceGives ==
    ASSUME NEW e \in Seq(Byte), NEW k \in Nat \ {0}, k + 1 <= Len(e)
    PROVE  /\ Piece(e, k) \in Seq(Byte) /\ Tail(e) \in Seq(Byte) /\ e[k + 1] \in Byte
           /\ SubSeq(e, k + 2, Len(e)) \in Seq(Byte)
           /\ Piece(e, k + 1) = Piece(e, k) \o <<e[k + 1]>>
           /\ Tail(e) = Piece(e, k) \o (<<e[k + 1]>> \o SubSeq(e, k + 2, Len(e)))
           /\ k + 2 > Len(e) => Tail(e) = Piece(e, k) \o <<e[k + 1]>>
<1> DEFINE n == Len(e)
           c == <<e[k + 1]>>
<1>1. n \in Nat /\ k \in Nat /\ k + 1 \in 1 .. n /\ 2 \in Nat \ {0}
  OBVIOUS
<1>2. Piece(e, k) = SubSeq(e, 2, k) /\ Piece(e, k + 1) = SubSeq(e, 2, k + 1)
  <2>1. k = 1 => SubSeq(e, 2, k) = <<>>
    OBVIOUS
  <2> QED BY <2>1 DEF Piece
<1>3. SubSeq(e, 2, n) = Tail(e)
  BY <1>1, PartOfAll
<1>4. SubSeq(e, k + 1, k + 1) = c
  BY <1>1, PartOfOne
<1>5. (k + 1) + 1 = k + 2
  BY <1>1
<1>6. Tail(e) \in Seq(Byte) /\ e[k + 1] \in Byte
  OBVIOUS
<1> HIDE DEF n, c
<1>7. SubSeq(e, 2, k) \in Seq(Byte) /\ SubSeq(e, 2, k) \o c = SubSeq(e, 2, k + 1)
  <2>1. 2 <= k + 1 /\ k <= k + 1 /\ k + 1 <= Len(e) /\ k + 1 \in Nat
    BY <1>1
  <2>2. /\ SubSeq(e, 2, k) \in Seq(Byte)
        /\ SubSeq(e, 2, k) \o SubSeq(e, k + 1, k + 1) = SubSeq(e, 2, k + 1)
    BY <1>1, <2>1, PartsJoin
  <2> QED BY <1>4, <2>2
<1>8. SubSeq(e, k + 2, n) \in Seq(Byte) /\ c \o SubSeq(e, k + 2, n) = SubSeq(e, k + 1, n)
  <2>1. k + 1 <= (k + 1) + 1 /\ k + 1 <= n /\ k + 1 \in Nat \ {0} /\ n <= Len(e)
    BY <1>1 DEF n
  <2>2. /\ SubSeq(e, (k + 1) + 1, n) \in Seq(Byte)
        /\ SubSeq(e, k + 1, k + 1) \o SubSeq(e, (k + 1) + 1, n) = SubSeq(e, k + 1, n)
    BY <1>1, <2>1, PartsJoin
  <2> QED BY <1>4, <1>5, <2>2
<1>9. SubSeq(e, 2, k) \o SubSeq(e, k + 1, n) = SubSeq(e, 2, n)
  <2>1. 2 <= k + 1 /\ k <= n /\ n <= Len(e)
    BY <1>1 DEF n
  <2> QED BY <1>1, <2>1, PartsJoin
<1>10. k + 2 > n => k + 1 = n
  BY <1>1
<1> QED BY <1>2, <1>3, <1>6, <1>7, <1>8, <1>9, <1>10 DEF n, c

LEMMA HeardMore ==
    ASSUME NEW rs \in Seq(ReportSet)
    PROVE  /\ Heard(rs) \in Seq(Seq(Byte)) /\ Joined(Heard(rs)) \in Seq(Byte)
           /\ \A r \in ReportSet :
                Joined(Heard(Append(rs, r))) = Joined(Heard(rs)) \o (<<r.letter>> \o r.arg.str)
<1>1. \A r \in ReportSet : <<r.letter>> \o r.arg.str \in Seq(Byte)
  BY DEF ReportSet
<1>2. \A i \in 1 .. Len(rs) : rs[i] \in ReportSet
  OBVIOUS
<1>3. Heard(rs) \in Seq(Seq(Byte)) /\ Joined(Heard(rs)) \in Seq(Byte)
  <2>1. Heard(rs) \in [1 .. Len(rs) -> Seq(Byte)] /\ Len(rs) \in Nat
    BY <1>1, <1>2 DEF Heard
  <2>2. Heard(rs) \in Seq(Seq(Byte))
    BY <2>1
  <2> QED BY <2>2, JoinedMore
<1>4. ASSUME NEW r \in ReportSet
      PROVE  Joined(Heard(Append(rs, r))) = Joined(Heard(rs)) \o (<<r.letter>> \o r.arg.str)
  <2> DEFINE x == <<r.letter>> \o r.arg.str
             h == Heard(rs)
             t == Append(rs, r)
  <2>1. x \in Seq(Byte) /\ h \in Seq(Seq(Byte)) /\ Len(h) = Len(rs)
    BY <1>1, <1>3 DEF Heard
  <2>2. Len(t) = Len(rs) + 1 /\ t[Len(rs) + 1] = r /\ \A i \in 1 .. Len(rs) : t[i] = rs[i]
    OBVIOUS
  <2> HIDE DEF t
  <2>3. Heard(t) = Append(h, x)
    <3>1. Append(h, x) \in Seq(Seq(Byte)) /\ Len(Append(h, x)) = Len(rs) + 1
          /\ \A i \in 1 .. Len(rs) + 1 : Append(h, x)[i] = IF i = Len(rs) + 1 THEN x ELSE h[i]
      <4> HIDE DEF x, h
      <4> QED BY <2>1
    <3>2. \A i \in 1 .. Len(rs) : h[i] = <<rs[i].letter>> \o rs[i].arg.str
      BY DEF Heard
    <3>3. ASSUME NEW i \in 1 .. Len(rs) + 1
          PROVE  <<t[i].letter>> \o t[i].arg.str = IF i = Len(rs) + 1 THEN x ELSE h[i]
      <4>1. i # Len(rs) + 1 => i \in 1 .. Len(rs)
        OBVIOUS
      <4> HIDE DEF h
      <4> QED BY <2>2, <3>2, <4>1
    <3>4. /\ Heard(t) \in [1 .. Len(rs) + 1 -> Seq(Byte)] /\ Len(rs) + 1 \in Nat
          /\ \A i \in 1 .. Len(rs) + 1 : Heard(t)[i] = IF i = Len(rs) + 1 THEN x ELSE h[i]
      <4>1. \A i \in 1 .. Len(rs) : i \in 1 .. Len(h)
        BY <2>1
      <4>2. \A i \in 1 .. Len(rs) + 1 : (IF i = Len(rs) + 1 THEN x ELSE h[i]) \in Seq(Byte)
        <5> HIDE DEF x, h
        <5> QED BY <2>1, <4>1
      <4>3. Heard(t) = [i \in 1 .. Len(rs) + 1 |-> <<t[i].letter>> \o t[i].arg.str]
        BY <2>2 DEF Heard
      <4> HIDE DEF x, h
      <4>4. Heard(t) = [i \in 1 .. Len(rs) + 1 |-> IF i = Len(rs) + 1 THEN x ELSE h[i]]
        BY <3>3, <4>3
      <4> QED BY <4>2, <4>4
    <3>5. Heard(t) \in Seq(Seq(Byte)) /\ Len(Heard(t)) = Len(rs) + 1
      <4> DEFINE k == Len(rs) + 1
      <4>1. k \in Nat /\ Heard(t) \in [1 .. k -> Seq(Byte)]
        BY <3>4
      <4> HIDE DEF k
      <4>2. Heard(t) \in Seq(Seq(Byte)) /\ Len(Heard(t)) = k
        BY <4>1
      <4> QED BY <4>2 DEF k
    <3> HIDE DEF x, h
    <3> QED BY <3>1, <3>4, <3>5, SameSequence
  <2> HIDE DEF x, h
  <2>4. Joined(Append(h, x)) = Joined(h) \o x
    BY <2>1, JoinedMore
  <2> QED BY <2>3, <2>4 DEF t, x, h
<1> QED BY <1>3, <1>4

\* One more element of the line lies behind.
LEMMA SaidMore ==
    ASSUME NEW l \in Seq(Seq(Byte)), NEW n \in Nat, n + 1 <= Len(l), NEW tk, NEW tk2,
           NEW skip \in Nat, skip \notin 1 .. n,
           \A i \in 1 .. n : i \in tk <=> i \in tk2,
           \A i \in 1 .. n : i \notin tk => l[i] # <<>>,
           Says(l, tk2, skip, n + 1) \in Seq(Byte)
    PROVE  /\ Joined(Said(l, tk, 0, n)) \in Seq(Byte)
           /\ Joined(Said(l, tk2, skip, n + 1))
                = Joined(Said(l, tk, 0, n)) \o Says(l, tk2, skip, n + 1)
<1> DEFINE s == Said(l, tk, 0, n)
           x == Says(l, tk2, skip, n + 1)
           t == Said(l, tk2, skip, n + 1)
<1>1. ASSUME NEW i \in 1 .. n
      PROVE  Says(l, tk, 0, i) \in Seq(Byte) /\ Says(l, tk2, skip, i) = Says(l, tk, 0, i)
  <2>1. i \in 1 .. Len(l) /\ i # 0 /\ i # skip
    OBVIOUS
  <2>2. l[i] \in Seq(Byte)
    BY <2>1
  <2>3. \A q \in Seq(Byte) : q # <<>> => Tail(q) \in Seq(Byte)
    OBVIOUS
  <2> QED BY <2>1, <2>2, <2>3 DEF Says
<1>2. s \in Seq(Seq(Byte)) /\ Len(s) = n /\ \A i \in 1 .. n : s[i] = Says(l, tk, 0, i)
  <2>1. s \in [1 .. n -> Seq(Byte)]
    BY <1>1 DEF Said
  <2>2. \A i \in 1 .. n : s[i] = Says(l, tk, 0, i)
    BY DEF Said
  <2> HIDE DEF s
  <2> QED BY <2>1, <2>2
<1>3. t = [i \in 1 .. n + 1 |-> Says(l, tk2, skip, i)]
  BY DEF Said
<1>4. x \in Seq(Byte)
  OBVIOUS
<1> HIDE DEF s, t
<1>5. t = Append(s, x)
  <2>1. Append(s, x) \in Seq(Seq(Byte)) /\ Len(Append(s, x)) = n + 1
        /\ \A i \in 1 .. n + 1 : Append(s, x)[i] = IF i = n + 1 THEN x ELSE s[i]
    <3> HIDE DEF x
    <3> QED BY <1>2, <1>4
  <2>2. ASSUME NEW i \in 1 .. n + 1
        PROVE  Says(l, tk2, skip, i) = IF i = n + 1 THEN x ELSE s[i]
    <3>1. i # n + 1 => i \in 1 .. n
      OBVIOUS
    <3> QED BY <1>1, <1>2, <3>1
  <2>3. \A i \in 1 .. n + 1 : (IF i = n + 1 THEN x ELSE s[i]) \in Seq(Byte)
    <3>1. \A i \in 1 .. n : s[i] \in Seq(Byte)
      BY <1>2
    <3> HIDE DEF x
    <3> QED BY <1>4, <3>1
  <2> HIDE DEF x
  <2>4. t \in [1 .. n + 1 -> Seq(Byte)] /\ \A i \in 1 .. n + 1 : t[i] = IF i = n + 1 THEN x ELSE s[i]
    BY <1>3, <2>2, <2>3
  <2>5. t \in Seq(Seq(Byte)) /\ Len(t) = n + 1
    <3> DEFINE k == n + 1
    <3>1. k \in Nat /\ t \in [1 .. k -> Seq(Byte)]
      BY <2>4
    <3> HIDE DEF k
    <3>2. t \in Seq(Seq(Byte)) /\ Len(t) = k
      BY <3>1
    <3> QED BY <3>2 DEF k
  <2> QED BY SMTT(60), <2>1, <2>4, <2>5, SameSequence
<1>6. Joined(s) \in Seq(Byte) /\ Joined(Append(s, x)) = Joined(s) \o x
  <2> HIDE DEF x
  <2> QED BY <1>2, <1>4, JoinedMore
<1> QED BY <1>5, <1>6 DEF s, t

\* The words of a line and the letters that a program hears, before a call that does not
\* come at the end.
OptionsRun ==
    /\ OptionsInv /\ ~over /\ ~Options!IllegalMet
    /\ line' = line

\* Where getopt stands when it is to give a letter.
LEMMA ReadyAt ==
    ASSUME OptionsRun, Options!Ready
    PROVE  /\ optind \in 1 .. Len(line) /\ line[optind] \in Seq(Byte)
           /\ letter \in Nat \ {0} /\ letter + 1 <= Len(line[optind])
           /\ Options!IsOption(line[optind]) /\ line[optind] # Options!DashDash
           /\ Options!Element = line[optind] /\ Options!Letter = line[optind][letter + 1]
           /\ Options!AtEnd <=> letter + 2 > Len(line[optind])
<1>1. /\ line \in Seq(Seq(Byte)) /\ optind \in 1 .. Len(line) + 1 /\ letter \in Nat \ {0}
      /\ letter > 1 => /\ optind <= Len(line) /\ letter + 1 <= Len(Options!Element)
                       /\ Options!IsOption(Options!Element) /\ Options!Element # Options!DashDash
  BY DEF OptionsRun, OptionsInv, Options!TypeOK
<1>2. Options!Element = line[optind] /\ Options!Letter = line[optind][letter + 1]
      /\ (Options!AtEnd <=> letter + 2 > Len(line[optind]))
  BY DEF Options!Element, Options!Letter, Options!AtEnd
<1>3. CASE letter > 1
  BY <1>1, <1>2, <1>3
<1>4. CASE ~(letter > 1)
  <2>1. letter = 1 /\ optind <= Len(line) /\ Options!IsOption(Options!Element) /\ Options!Element # Options!DashDash
    BY <1>1, <1>4 DEF Options!Ready
  <2>2. line[optind] \in Seq(Byte) /\ Len(line[optind]) > 1
    BY <1>1, <1>2, <2>1 DEF Options!IsOption
  <2> QED BY <1>1, <1>2, <2>1, <2>2
<1> QED BY <1>3, <1>4

\* What has been said and heard so far.
LEMMA SoFar ==
    ASSUME OptionsRun
    PROVE  /\ line \in Seq(Seq(Byte)) /\ optind \in Nat \ {0} /\ optind - 1 \in Nat
           /\ reports \in Seq(ReportSet)
           /\ taken \subseteq 1 .. optind - 1
           /\ \A i \in 1 .. optind - 1 : i \notin taken => line[i] # <<>> /\ line[i] # Options!DashDash
           /\ Joined(Said(line, taken, 0, optind - 1)) \o Piece(line[optind], letter)
                = Joined(Heard(reports))
  BY DEF OptionsRun, OptionsInv, Options!TypeOK, Options!IsOption, Options!Element

\* A letter is reported, with its argument or without, and the rest of the element is
\* behind.
LEMMA ElementDone ==
    ASSUME OptionsRun, Options!Ready, NEW r \in ReportSet, reports' = Append(reports, r),
           r.letter = Options!Letter,
           NEW tk, \A i \in 1 .. optind : i \in tk <=> i \in taken,
           NEW x \in Seq(Byte),
           Tail(line[optind]) = Piece(line[optind], letter) \o (<<r.letter>> \o x)
    PROVE  /\ Joined(Said(line, tk, 0, optind)) \in Seq(Byte)
           /\ r.arg.str = x => Joined(Said(line, tk, 0, optind)) = Joined(Heard(reports'))
           /\ x = <<>> => Joined(Said(line, tk, 0, optind)) \o r.arg.str = Joined(Heard(reports'))
<1> DEFINE e == line[optind]
           n == optind - 1
           J == Joined(Said(line, taken, 0, n))
           p == Piece(e, letter)
           c == <<r.letter>>
           H == Joined(Heard(reports))
           a == r.arg.str
<1>1. /\ line \in Seq(Seq(Byte)) /\ optind \in 1 .. Len(line) /\ n \in Nat /\ n + 1 = optind
      /\ reports \in Seq(ReportSet) /\ taken \subseteq 1 .. n /\ e \in Seq(Byte)
      /\ letter \in Nat \ {0} /\ letter + 1 <= Len(e)
      /\ \A i \in 1 .. n : i \notin taken => line[i] # <<>>
      /\ J \o p = H
  <2>1. n \in Nat /\ n + 1 = optind /\ line \in Seq(Seq(Byte)) /\ reports \in Seq(ReportSet)
        /\ taken \subseteq 1 .. n /\ \A i \in 1 .. n : i \notin taken => line[i] # <<>>
    BY SoFar
  <2>2. J \o p = H
    BY SoFar
  <2>3. /\ optind \in 1 .. Len(line) /\ e \in Seq(Byte)
        /\ letter \in Nat \ {0} /\ letter + 1 <= Len(e)
    BY ReadyAt
  <2> HIDE DEF n, e, J, p, H
  <2> QED BY <2>1, <2>2, <2>3
<1>2. p \in Seq(Byte) /\ Tail(e) \in Seq(Byte)
  BY <1>1, PieceGives
<1>3. c \in Seq(Byte) /\ a \in Seq(Byte)
  BY DEF ReportSet
<1>4. Tail(e) = p \o (c \o x)
  OBVIOUS
<1>5. J \in Seq(Byte) /\ Joined(Said(line, tk, 0, n + 1)) = J \o Tail(e)
  <2> DEFINE said == Says(line, tk, 0, n + 1)
  <2>1. n + 1 \notin tk /\ said = Tail(e)
    BY <1>1 DEF Says
  <2>2. \A i \in 1 .. n : i \in taken <=> i \in tk
    BY SMTT(60), <1>1
  <2>3. n + 1 <= Len(line) /\ 0 \notin 1 .. n /\ 0 \in Nat
    BY <1>1
  <2>4. \A i \in 1 .. n : i \notin taken => line[i] # <<>>
    BY <1>1
  <2>5. said \in Seq(Byte) /\ line \in Seq(Seq(Byte)) /\ n \in Nat
    BY <1>1, <1>2, <2>1
  <2> HIDE DEF n, e
  <2> USE DEF said
  <2>6. J \in Seq(Byte) /\ Joined(Said(line, tk, 0, n + 1)) = J \o said
    BY ZenonT(60), <2>2, <2>3, <2>4, <2>5, SaidMore
  <2> HIDE DEF said
  <2> QED BY <2>1, <2>6
<1>6. Joined(Heard(reports')) = H \o (c \o a)
  BY <1>1, HeardMore
<1> DEFINE now == Joined(Said(line, tk, 0, optind))
<1>7. now = J \o Tail(e)
  <2> HIDE DEF n, e, J
  <2> QED BY <1>1, <1>5
<1> HIDE DEF e, n, J, p, c, H, a, now
<1>8. J \o (p \o (c \o x)) = H \o (c \o x)
  <2>1. c \o x \in Seq(Byte)
    BY <1>3
  <2>2. (J \o p) \o (c \o x) = J \o (p \o (c \o x))
    BY <1>2, <1>5, <2>1, Associates
  <2> QED BY <1>1, <2>2
<1>9. now = H \o (c \o x) /\ H \in Seq(Byte) /\ now \in Seq(Byte)
  <2>1. now = H \o (c \o x)
    BY <1>4, <1>7, <1>8
  <2>2. now \in Seq(Byte)
    BY <1>2, <1>5, <1>7
  <2>3. H \in Seq(Byte)
    BY <1>1, HeardMore DEF H
  <2> QED BY <2>1, <2>2, <2>3
<1>10. a = x => now = Joined(Heard(reports'))
  BY <1>6, <1>9
<1>11. x = <<>> => now \o a = Joined(Heard(reports'))
  <2> SUFFICES ASSUME x = <<>> PROVE now \o a = Joined(Heard(reports'))
    OBVIOUS
  <2>1. c \o x = c
    BY <1>3
  <2>2. (H \o c) \o a = H \o (c \o a)
    BY SMTT(60), <1>3, <1>9, Associates
  <2> QED BY <1>6, <1>9, <2>1, <2>2
<1> QED BY <1>9, <1>10, <1>11 DEF now, a

\* What the properties compare, at the start of an element.
LEMMA ConsumedIs ==
    ASSUME line' = line, optind' \in Nat \ {0}, letter' = 1, NEW skip,
           skip = IF over' /\ optind' > 1 /\ line[optind' - 1] = Options!DashDash
                     /\ optind' - 1 \notin taken'
                  THEN optind' - 1 ELSE 0,
           Joined(Said(line, taken', skip, optind' - 1)) \in Seq(Byte)
    PROVE  Options!Consumed' = Joined(Said(line, taken', skip, optind' - 1))
<1> DEFINE ended == over' /\ optind' > 1 /\ line'[optind' - 1] = Options!DashDash
                    /\ optind' - 1 \notin taken'
           whole(i) == IF i \in taken' THEN line'[i]
                       ELSE IF ended /\ i = optind' - 1 THEN <<>> ELSE Tail(line'[i])
           parts == [i \in 1 .. optind' - 1 |-> whole(i)]
<1>1. Options!Consumed' = Options!FlattenSeq(parts) \o <<>>
  BY DEF Options!Consumed
<1>2. ASSUME NEW i \in 1 .. optind' - 1 PROVE whole(i) = Says(line, taken', skip, i)
  <2>1. i = skip <=> ended /\ i = optind' - 1
    <3>1. i # 0
      OBVIOUS
    <3>2. ended <=> (over' /\ optind' > 1 /\ line[optind' - 1] = Options!DashDash
                       /\ optind' - 1 \notin taken')
      OBVIOUS
    <3> HIDE DEF ended
    <3>3. skip = IF ended THEN optind' - 1 ELSE 0
      BY <3>2
    <3> QED BY <3>1, <3>3
  <2> HIDE DEF ended
  <2> QED BY <2>1 DEF Says
<1>3. parts = Said(line, taken', skip, optind' - 1)
  <2> HIDE DEF whole
  <2> QED BY <1>2 DEF Said
<1> HIDE DEF parts
<1>4. Options!FlattenSeq(parts) = Joined(parts)
  BY DEF Options!FlattenSeq, Joined
<1> QED BY <1>1, <1>3, <1>4

LEMMA HeardIs ==
    ASSUME TRUE
    PROVE  Options!EverythingReportedOnce' <=>
             (~Options!IllegalMet' => Options!Consumed' = Joined(Heard(reports')))
<1> DEFINE heard == [i \in 1 .. Len(reports') |-> <<reports'[i].letter>> \o reports'[i].arg.str]
<1>1. heard = Heard(reports')
  BY DEF Heard
<1>2. Options!EverythingReportedOnce' <=>
             (~Options!IllegalMet' => Options!Consumed' = Options!FlattenSeq(heard))
  BY DEF Options!EverythingReportedOnce
<1>3. Options!FlattenSeq(heard) = Joined(heard)
  BY DEF Options!FlattenSeq, Joined
<1> QED BY <1>1, <1>2, <1>3

LEMMA InLine ==
    ASSUME NEW n \in Nat, NEW o \in 1 .. n + 1, NEW S, S \subseteq 1 .. o - 1
    PROVE  S \subseteq 1 .. n
  OBVIOUS

\* A call that leaves more to be read, at the start of an element.
LEMMA OptionsGo ==
    ASSUME OptionsRun, over' = over, reports' \in Seq(ReportSet), ~Options!IllegalMet',
           letter' = 1, optind' \in 1 .. Len(line) + 1, taken' \subseteq 1 .. optind' - 1,
           \A i \in 1 .. optind' - 1 :
             i \notin taken' => Options!IsOption(line[i]) /\ line[i] # Options!DashDash,
           Joined(Said(line, taken', 0, optind' - 1)) \in Seq(Byte),
           Joined(Said(line, taken', 0, optind' - 1)) = Joined(Heard(reports'))
    PROVE  OptionsInv'
<1>1. line' = line /\ line \in Seq(Seq(Byte)) /\ over = FALSE
  BY DEF OptionsRun, OptionsInv, Options!TypeOK
<1>2. Options!TypeOK'
  <2>1. taken' \subseteq 1 .. Len(line)
    <3>1. Len(line) \in Nat
      BY <1>1
    <3> QED BY <3>1, InLine
  <2>2. optind' \in 1 .. Len(line') + 1 /\ taken' \subseteq 1 .. Len(line')
    BY <1>1, <2>1
  <2>3. letter' \in Nat \ {0} /\ ~(letter' > 1)
    OBVIOUS
  <2>4. over' \in BOOLEAN
    BY <1>1
  <2> QED BY <2>2, <2>3, <2>4 DEF Options!TypeOK
<1>3. Joined(Said(line, taken', 0, optind' - 1)) \o Piece(line[optind'], letter')
        = Joined(Heard(reports'))
  BY DEF Piece
<1>4. ~(letter' > 1) /\ ~over' /\ reports' \in Seq(ReportSet)
  BY <1>1
<1> QED BY <1>1, <1>2, <1>3, <1>4 DEF OptionsInv, Options!Element

\* A call that is the last.
LEMMA OptionsStop ==
    ASSUME OptionsRun, over' = TRUE, reports' \in Seq(ReportSet),
           letter' = 1, optind' \in 1 .. Len(line) + 1, taken' \subseteq 1 .. optind' - 1,
           NEW skip,
           skip = IF over' /\ optind' > 1 /\ line[optind' - 1] = Options!DashDash
                     /\ optind' - 1 \notin taken'
                  THEN optind' - 1 ELSE 0,
           ~Options!IllegalMet' =>
             /\ Joined(Said(line, taken', skip, optind' - 1)) \in Seq(Byte)
             /\ Joined(Said(line, taken', skip, optind' - 1)) = Joined(Heard(reports'))
             /\ \/ optind' > Len(line)
                \/ ~Options!IsOption(line[optind'])
                \/ skip # 0
    PROVE  OptionsInv'
<1>1. line' = line /\ line \in Seq(Seq(Byte)) /\ optind' \in Nat \ {0}
  BY DEF OptionsRun, OptionsInv
<1>2. Options!TypeOK'
  <2>1. taken' \subseteq 1 .. Len(line)
    <3>1. Len(line) \in Nat
      BY <1>1
    <3> QED BY <3>1, InLine
  <2> QED BY <1>1, <2>1 DEF Options!TypeOK
<1>3. Options!EverythingReportedOnce'
  <2>1. ~Options!IllegalMet' => Options!Consumed' = Joined(Heard(reports'))
    BY <1>1, ConsumedIs
  <2> QED BY <2>1, HeardIs
<1>4. Options!StopsAtOperand'
  BY <1>1 DEF Options!StopsAtOperand, Options!Element
<1> QED BY <1>1, <1>2, <1>3, <1>4 DEF OptionsInv, LineReported

LEMMA ReportAdds ==
    ASSUME OptionsRun, NEW ret, NEW c, NEW arg, Options!Report(ret, c, arg)
    PROVE  reports' = Append(reports, [ret |-> ret, letter |-> c, arg |-> arg])
  BY DEF OptionsRun, Options!Report

\* A report that is none of an illegal letter.
LEMMA LegalReport ==
    ASSUME OptionsRun, NEW r \in ReportSet, reports' = Append(reports, r),
           r.ret # "?" \/ r.letter \in WithArg
    PROVE  reports' \in Seq(ReportSet) /\ ~Options!IllegalMet'
<1>1. reports \in Seq(ReportSet) /\ ~Options!IllegalMet
  BY DEF OptionsRun, OptionsInv
<1>2. /\ reports' \in Seq(ReportSet) /\ Len(reports') = Len(reports) + 1
      /\ reports'[Len(reports) + 1] = r
      /\ \A i \in 1 .. Len(reports) : reports'[i] = reports[i]
  BY <1>1
<1>3. ASSUME NEW i \in 1 .. Len(reports')
      PROVE  ~(reports'[i].ret = "?" /\ reports'[i].letter \notin WithArg)
  <2>1. i = Len(reports) + 1 \/ i \in 1 .. Len(reports)
    BY <1>1, <1>2
  <2> QED BY <1>1, <1>2, <2>1 DEF Options!IllegalMet
<1> QED BY <1>2, <1>3 DEF Options!IllegalMet

\* An option without an argument.
LEMMA PlainKeeps ==
    ASSUME Options!GetOptAssumption, OptionsRun, Options!Ready, Options!PlainOption
    PROVE  OptionsInv'
<1> DEFINE e == line[optind]
           c == Options!Letter
           r == [ret |-> c, letter |-> c, arg |-> Options!NoArg]
<1>1. /\ optind \in 1 .. Len(line) /\ e \in Seq(Byte) /\ letter \in Nat \ {0} /\ letter + 1 <= Len(e)
      /\ Options!IsOption(e) /\ e # Options!DashDash
      /\ Options!Element = e /\ c = e[letter + 1]
      /\ (Options!AtEnd <=> letter + 2 > Len(e)) /\ c \in Byte
  <2>1. /\ optind \in 1 .. Len(line) /\ e \in Seq(Byte) /\ letter \in Nat \ {0} /\ letter + 1 <= Len(e)
        /\ Options!IsOption(e) /\ e # Options!DashDash
        /\ Options!Element = e /\ c = e[letter + 1] /\ (Options!AtEnd <=> letter + 2 > Len(e))
    BY ReadyAt
  <2> HIDE DEF e, c
  <2>2. e[letter + 1] \in Byte
    BY <2>1, PieceGives
  <2> QED BY <2>1, <2>2
<1>2. /\ c \in Plain /\ reports' = Append(reports, r) /\ UNCHANGED <<taken, over>> /\ Options!NextLetter
      /\ line' = line /\ over = FALSE
  BY ReportAdds DEF Options!PlainOption, OptionsRun, OptionsInv, Options!TypeOK
<1>3. r \in ReportSet /\ r.letter = c /\ r.arg.str = <<>> /\ r.ret # "?"
  BY <1>1, <1>2 DEF ReportSet, Options!NoArg, Options!GetOptAssumption
<1> HIDE DEF r, e, c
<1>4. reports' \in Seq(ReportSet) /\ ~Options!IllegalMet'
  BY <1>2, <1>3, LegalReport
<1>5. /\ line \in Seq(Seq(Byte)) /\ optind \in Nat \ {0} /\ optind - 1 \in Nat
      /\ reports \in Seq(ReportSet) /\ taken \subseteq 1 .. optind - 1
      /\ Joined(Said(line, taken, 0, optind - 1)) \o Piece(e, letter) = Joined(Heard(reports))
  BY SoFar DEF e
<1>6. \A i \in 1 .. optind - 1 : i \notin taken => Options!IsOption(line[i]) /\ line[i] # Options!DashDash
  BY DEF OptionsRun, OptionsInv
<1>7. CASE Options!AtEnd
  <2>1. letter' = 1 /\ optind' = optind + 1
    BY <1>2, <1>7 DEF Options!NextLetter
  <2> DEFINE none == <<>>
  <2>2. Tail(e) = Piece(e, letter) \o (<<r.letter>> \o none) /\ none \in Seq(Byte)
    <3>1. Tail(e) = Piece(e, letter) \o <<e[letter + 1]>>
      BY <1>1, <1>7, PieceGives
    <3>2. <<r.letter>> \o <<>> = <<e[letter + 1]>>
      BY <1>1, <1>3
    <3> QED BY <3>1, <3>2
  <2>3. none = <<>>
    OBVIOUS
  <2> HIDE DEF none
  <2>4. /\ Joined(Said(line, taken, 0, optind)) \in Seq(Byte)
        /\ Joined(Said(line, taken, 0, optind)) = Joined(Heard(reports'))
    <3>1. \A i \in 1 .. optind : i \in taken <=> i \in taken
      OBVIOUS
    <3>2. r.letter = Options!Letter /\ r.arg.str = none
      BY <1>3, <2>3 DEF c
    <3> QED BY <1>2, <1>3, <2>2, <3>1, <3>2, ElementDone DEF e
  <2>5. optind' - 1 = optind /\ optind' \in 1 .. Len(line) + 1 /\ taken' \subseteq 1 .. optind' - 1
    BY <1>1, <1>2, <1>5, <2>1
  <2>6. \A i \in 1 .. optind' - 1 :
             i \notin taken' => Options!IsOption(line[i]) /\ line[i] # Options!DashDash
    <3>1. \A i \in 1 .. optind : i = optind \/ i \in 1 .. optind - 1
      BY <1>5
    <3> QED BY <1>1, <1>2, <1>6, <2>5, <3>1 DEF e
  <2> QED BY <1>2, <1>4, <2>1, <2>4, <2>5, <2>6, OptionsGo
<1>8. CASE ~Options!AtEnd
  <2>1. letter' = letter + 1 /\ optind' = optind
    BY <1>2, <1>8 DEF Options!NextLetter
  <2>2. Piece(e, letter + 1) = Piece(e, letter) \o <<c>> /\ Piece(e, letter) \in Seq(Byte)
    BY <1>1, PieceGives
  <2>3. Joined(Heard(reports')) = Joined(Heard(reports)) \o <<c>>
    <3>1. Joined(Heard(reports')) = Joined(Heard(reports)) \o (<<r.letter>> \o r.arg.str)
      BY <1>2, <1>3, <1>5, HeardMore
    <3>2. <<r.letter>> \o r.arg.str = <<c>>
      BY <1>3
    <3> QED BY <3>1, <3>2
  <2> DEFINE J == Joined(Said(line, taken, 0, optind - 1))
  <2>4. J \in Seq(Byte)
    <3> DEFINE n == optind - 1
    <3>1. /\ n \in Nat /\ n + 1 <= Len(line) /\ 0 \notin 1 .. n /\ 0 \in Nat
          /\ \A i \in 1 .. n : i \in taken <=> i \in taken
          /\ n + 1 = optind /\ optind \notin taken
      BY <1>1, <1>5
    <3>2. \A i \in 1 .. n : i \notin taken => line[i] # <<>>
      BY <1>6 DEF Options!IsOption
    <3>3. Says(line, taken, 0, n + 1) \in Seq(Byte)
      <4>1. Tail(e) \in Seq(Byte)
        BY <1>1, PieceGives
      <4> QED BY <1>5, <3>1, <4>1 DEF Says, e
    <3> HIDE DEF n
    <3>4. Joined(Said(line, taken, 0, n)) \in Seq(Byte)
      BY <1>5, <3>1, <3>2, <3>3, SaidMore
    <3> QED BY <3>4 DEF n
  <2>5. J \o Piece(e, letter + 1) = Joined(Heard(reports'))
    <3>1. <<c>> \in Seq(Byte)
      BY <1>1
    <3>2. (J \o Piece(e, letter)) \o <<c>> = J \o (Piece(e, letter) \o <<c>>)
      <4> DEFINE one == <<c>>
      <4>1. one \in Seq(Byte)
        BY <3>1
      <4> HIDE DEF J, one
      <4>2. (J \o Piece(e, letter)) \o one = J \o (Piece(e, letter) \o one)
        BY <2>2, <2>4, <4>1, Associates
      <4> QED BY <4>2 DEF one
    <3> QED BY <1>5, <2>2, <2>3, <3>2
  <2>6. Options!TypeOK'
    <3>1. letter' \in Nat \ {0} /\ optind' \in 1 .. Len(line') + 1 /\ optind' <= Len(line')
          /\ letter' + 1 <= Len(line'[optind'])
      BY <1>1, <1>2, <1>8, <2>1 DEF e
    <3>2. over' \in BOOLEAN /\ taken' \subseteq 1 .. Len(line')
      BY <1>2 DEF OptionsRun, OptionsInv, Options!TypeOK
    <3> QED BY <3>1, <3>2 DEF Options!TypeOK, Options!Element
  <2>7. /\ Options!Element' = e /\ ~over' /\ line' \in Seq(Seq(Byte)) /\ taken' \subseteq 1 .. optind' - 1
        /\ \A i \in 1 .. optind' - 1 :
             i \notin taken' => Options!IsOption(line'[i]) /\ line'[i] # Options!DashDash
    BY <1>2, <1>5, <1>6, <2>1 DEF Options!Element, e
  <2> HIDE DEF J
  <2>8. Joined(Said(line', taken', 0, optind' - 1)) \o Piece(Options!Element', letter') = Joined(Heard(reports'))
    BY <1>2, <2>1, <2>5, <2>7 DEF J
  <2> QED BY <1>1, <1>4, <2>6, <2>7, <2>8 DEF OptionsInv
<1> QED BY <1>7, <1>8

\* An option with an argument: in the same element, in the next one, or missing.
LEMMA WithArgKeeps ==
    ASSUME Options!GetOptAssumption, OptionsRun, Options!Ready, Options!OptionWithArg
    PROVE  OptionsInv'
<1> DEFINE e == line[optind]
           c == Options!Letter
<1>1. /\ optind \in 1 .. Len(line) /\ e \in Seq(Byte) /\ letter \in Nat \ {0} /\ letter + 1 <= Len(e)
      /\ Options!IsOption(e) /\ e # Options!DashDash
      /\ Options!Element = e /\ c = e[letter + 1]
      /\ (Options!AtEnd <=> letter + 2 > Len(e)) /\ c \in Byte
  <2>1. /\ optind \in 1 .. Len(line) /\ e \in Seq(Byte) /\ letter \in Nat \ {0} /\ letter + 1 <= Len(e)
        /\ Options!IsOption(e) /\ e # Options!DashDash
        /\ Options!Element = e /\ c = e[letter + 1] /\ (Options!AtEnd <=> letter + 2 > Len(e))
    BY ReadyAt
  <2> HIDE DEF e, c
  <2>2. e[letter + 1] \in Byte
    BY <2>1, PieceGives
  <2> QED BY <2>1, <2>2
<1> HIDE DEF c, e
<1>2. /\ line' = line /\ over = FALSE /\ letter' = 1 /\ c \in WithArg
  BY DEF Options!OptionWithArg, OptionsRun, OptionsInv, Options!TypeOK, c
<1>3. /\ line \in Seq(Seq(Byte)) /\ optind \in Nat \ {0} /\ optind - 1 \in Nat
      /\ reports \in Seq(ReportSet) /\ taken \subseteq 1 .. optind - 1
      /\ Joined(Said(line, taken, 0, optind - 1)) \o Piece(e, letter) = Joined(Heard(reports))
  BY SoFar DEF e
<1>4. \A i \in 1 .. optind - 1 : i \notin taken => Options!IsOption(line[i]) /\ line[i] # Options!DashDash
  BY DEF OptionsRun, OptionsInv
<1>5. \A i \in 1 .. optind : i \notin taken => Options!IsOption(line[i]) /\ line[i] # Options!DashDash
  <2>1. \A i \in 1 .. optind : i = optind \/ i \in 1 .. optind - 1
    BY <1>3
  <2> QED BY <1>1, <1>4, <2>1 DEF e
<1>6. /\ Piece(e, letter) \in Seq(Byte) /\ SubSeq(e, letter + 2, Len(e)) \in Seq(Byte)
      /\ Tail(e) = Piece(e, letter) \o (<<c>> \o SubSeq(e, letter + 2, Len(e)))
      /\ Options!AtEnd => Tail(e) = Piece(e, letter) \o (<<c>> \o <<>>)
  <2>1. <<c>> \o <<>> = <<c>>
    BY <1>1
  <2>2. letter + 2 > Len(e) => Tail(e) = Piece(e, letter) \o <<c>>
    BY <1>1, PieceGives
  <2> QED BY <1>1, <2>1, <2>2, PieceGives
<1>7. CASE ~Options!AtEnd /\ Options!ArgHere
  <2> DEFINE x == SubSeq(e, letter + 2, Len(e))
             r == [ret |-> c, letter |-> c, arg |-> Options!Arg(x)]
  <2>1. reports' = Append(reports, r) /\ optind' = optind + 1 /\ UNCHANGED <<taken, over>>
    BY <1>1, <1>7, ReportAdds DEF Options!ArgHere, c
  <2>2. r \in ReportSet /\ r.letter = c /\ r.arg.str = x /\ x \in Seq(Byte)
    <3> HIDE DEF x
    <3>1. x \in Seq(Byte)
      BY <1>6 DEF x
    <3> QED BY <1>1, <3>1 DEF ReportSet, Options!Arg
  <2>3. Tail(e) = Piece(e, letter) \o (<<r.letter>> \o x)
    BY <1>6
  <2> HIDE DEF x, r
  <2>4. reports' \in Seq(ReportSet) /\ ~Options!IllegalMet'
    BY <1>2, <2>1, <2>2, LegalReport
  <2>5. /\ Joined(Said(line, taken, 0, optind)) \in Seq(Byte)
        /\ Joined(Said(line, taken, 0, optind)) = Joined(Heard(reports'))
    <3>1. \A i \in 1 .. optind : i \in taken <=> i \in taken
      OBVIOUS
    <3>2. r.letter = Options!Letter
      BY <2>2 DEF c
    <3> QED BY <2>1, <2>2, <2>3, <3>1, <3>2, ElementDone DEF e
  <2>6. optind' - 1 = optind /\ optind' \in 1 .. Len(line) + 1 /\ taken' \subseteq 1 .. optind' - 1
    BY <1>1, <1>2, <1>3, <2>1
  <2>7. \A i \in 1 .. optind' - 1 :
             i \notin taken' => Options!IsOption(line[i]) /\ line[i] # Options!DashDash
    BY <1>5, <2>1, <2>6
  <2> QED BY <1>2, <2>1, <2>4, <2>5, <2>6, <2>7, OptionsGo
<1>8. CASE Options!AtEnd /\ optind + 1 > Len(line) /\ Options!ArgMissing
  <2> DEFINE x == <<>>
             ret == IF quiet THEN ":" ELSE "?"
             r == [ret |-> ret, letter |-> c, arg |-> Options!NoArg]
  <2>1. reports' = Append(reports, r) /\ optind' = optind + 1 /\ taken' = taken /\ over' = over
    BY <1>1, <1>8, ReportAdds DEF Options!ArgMissing, c
  <2>2. r \in ReportSet /\ r.letter = c /\ r.arg.str = x /\ x \in Seq(Byte)
    <3>1. ret \in Byte \cup {":", "?"}
      OBVIOUS
    <3> HIDE DEF ret
    <3> QED BY <1>1, <3>1 DEF ReportSet, Options!NoArg
  <2>3. Tail(e) = Piece(e, letter) \o (<<r.letter>> \o x)
    BY <1>6, <1>8
  <2> HIDE DEF x, r
  <2>4. reports' \in Seq(ReportSet) /\ ~Options!IllegalMet'
    BY <1>2, <2>1, <2>2, LegalReport
  <2>5. /\ Joined(Said(line, taken, 0, optind)) \in Seq(Byte)
        /\ Joined(Said(line, taken, 0, optind)) = Joined(Heard(reports'))
    <3>1. \A i \in 1 .. optind : i \in taken <=> i \in taken
      OBVIOUS
    <3>2. r.letter = Options!Letter
      BY <2>2 DEF c
    <3> QED BY <2>1, <2>2, <2>3, <3>1, <3>2, ElementDone DEF e
  <2>6. optind' - 1 = optind /\ optind' \in 1 .. Len(line) + 1 /\ taken' \subseteq 1 .. optind' - 1
        /\ optind' > Len(line)
    BY <1>1, <1>2, <1>3, <1>8, <2>1
  <2>7. \A i \in 1 .. optind' - 1 :
             i \notin taken' => Options!IsOption(line[i]) /\ line[i] # Options!DashDash
    BY <1>5, <2>1, <2>6
  <2> QED BY <1>2, <2>1, <2>4, <2>5, <2>6, <2>7, OptionsGo
<1>9. CASE Options!AtEnd /\ optind + 1 <= Len(line) /\ Options!ArgInNext
  <2> DEFINE a == line[optind + 1]
             x == <<>>
             r == [ret |-> c, letter |-> c, arg |-> Options!Arg(a)]
  <2>1. reports' = Append(reports, r) /\ optind' = optind + 2 /\ taken' = taken \cup {optind + 1}
        /\ UNCHANGED over
    BY <1>1, <1>9, ReportAdds DEF Options!ArgInNext, c
  <2>2. r \in ReportSet /\ r.letter = c /\ r.arg.str = a /\ x \in Seq(Byte) /\ a \in Seq(Byte)
    <3>1. a \in Seq(Byte)
      BY <1>3, <1>9
    <3> HIDE DEF a
    <3> QED BY <1>1, <3>1 DEF ReportSet, Options!Arg
  <2>3. Tail(e) = Piece(e, letter) \o (<<r.letter>> \o x) /\ x = <<>>
    BY <1>6, <1>9
  <2> HIDE DEF x, r, a
  <2>4. reports' \in Seq(ReportSet) /\ ~Options!IllegalMet'
    BY <1>2, <2>1, <2>2, LegalReport
  <2>5. \A i \in 1 .. optind : i \in taken' <=> i \in taken
    BY <1>3, <2>1
  <2>6. /\ Joined(Said(line, taken', 0, optind)) \in Seq(Byte)
        /\ Joined(Said(line, taken', 0, optind)) \o a = Joined(Heard(reports'))
    <3>1. r.letter = Options!Letter
      BY <2>2 DEF c
    <3>2. /\ Joined(Said(line, taken', 0, optind)) \in Seq(Byte)
          /\ Joined(Said(line, taken', 0, optind)) \o r.arg.str = Joined(Heard(reports'))
      BY <2>1, <2>2, <2>3, <2>5, <3>1, ElementDone DEF e
    <3> QED BY <2>2, <3>2
  <2>7. /\ Joined(Said(line, taken', 0, optind + 1)) = Joined(Heard(reports'))
        /\ Joined(Said(line, taken', 0, optind + 1)) \in Seq(Byte)
    <3>1. Says(line, taken', 0, optind + 1) = a
      BY <2>1 DEF Says, a
    <3>2. optind \in Nat /\ optind + 1 <= Len(line) /\ 0 \in Nat /\ 0 \notin 1 .. optind
      BY <1>3, <1>9
    <3>3. \A i \in 1 .. optind : i \notin taken' => line[i] # <<>>
      BY <1>5, <2>5 DEF Options!IsOption
    <3>4. Says(line, taken', 0, optind + 1) \in Seq(Byte) /\ \A i \in 1 .. optind : i \in taken' <=> i \in taken'
      BY <2>2, <3>1
    <3>5. Joined(Said(line, taken', 0, optind + 1))
            = Joined(Said(line, taken', 0, optind)) \o Says(line, taken', 0, optind + 1)
      <4> DEFINE tk == taken'
                 n == optind
      <4>1. /\ n \in Nat /\ n + 1 <= Len(line) /\ 0 \in Nat /\ 0 \notin 1 .. n
            /\ (\A i \in 1 .. n : i \notin tk => line[i] # <<>>)
            /\ Says(line, tk, 0, n + 1) \in Seq(Byte) /\ (\A i \in 1 .. n : i \in tk <=> i \in tk)
        BY <3>2, <3>3, <3>4
      <4> HIDE DEF tk, n
      <4>2. Joined(Said(line, tk, 0, n + 1)) = Joined(Said(line, tk, 0, n)) \o Says(line, tk, 0, n + 1)
        BY SMTT(60), <1>3, <4>1, SaidMore
      <4> QED BY <4>2 DEF tk, n
    <3>6. Joined(Said(line, taken', 0, optind)) \o a \in Seq(Byte)
      BY <2>2, <2>6
    <3> QED BY <2>6, <3>1, <3>5, <3>6
  <2>8. optind' - 1 = optind + 1 /\ optind' \in 1 .. Len(line) + 1 /\ taken' \subseteq 1 .. optind' - 1
    BY <1>3, <1>9, <2>1
  <2>9. \A i \in 1 .. optind' - 1 :
             i \notin taken' => Options!IsOption(line[i]) /\ line[i] # Options!DashDash
    <3>1. \A i \in 1 .. optind + 1 : i = optind + 1 \/ i \in 1 .. optind
      BY <1>3
    <3> QED BY <1>5, <2>1, <2>5, <2>8, <3>1
  <2> QED BY <1>2, <2>1, <2>4, <2>7, <2>8, <2>9, OptionsGo
<1> QED BY <1>7, <1>8, <1>9 DEF Options!OptionWithArg

\* Once an illegal letter was met only the types matter.
LEMMA AfterIllegal ==
    ASSUME line' = line, line \in Seq(Seq(Byte)), Options!TypeOK', reports' \in Seq(ReportSet),
           taken' \subseteq 1 .. optind' - 1, Options!IllegalMet'
    PROVE  OptionsInv'
<1>1. LineReported'
  BY DEF LineReported, Options!EverythingReportedOnce, Options!StopsAtOperand
<1> QED BY <1>1 DEF OptionsInv

\* A letter that is none of the program's.
LEMMA IllegalKeeps ==
    ASSUME OptionsRun, Options!Ready, Options!Illegal
    PROVE  OptionsInv'
<1> DEFINE c == Options!Letter
           r == [ret |-> "?", letter |-> c, arg |-> Options!NoArg]
           e == line[optind]
<1>1. /\ reports' = Append(reports, r) /\ letter' = 1 /\ UNCHANGED <<optind, taken, over>>
      /\ c \notin WithArg
  BY ReportAdds DEF Options!Illegal
<1>2. optind \in 1 .. Len(line) /\ taken \subseteq 1 .. optind - 1 /\ reports \in Seq(ReportSet)
      /\ line \in Seq(Seq(Byte))
  BY ReadyAt, SoFar
<1>3. c \in Byte
  <2>1. /\ e \in Seq(Byte) /\ letter \in Nat \ {0} /\ letter + 1 <= Len(e) /\ c = e[letter + 1]
    BY ReadyAt
  <2> HIDE DEF e, c
  <2> QED BY <2>1, PieceGives
<1>4. r \in ReportSet /\ r.ret = "?" /\ r.letter = c
  <2> HIDE DEF c
  <2> QED BY <1>3 DEF ReportSet, Options!NoArg
<1> HIDE DEF r, c
<1>5. reports' \in Seq(ReportSet) /\ Options!IllegalMet'
  <2>1. /\ reports' \in Seq(ReportSet) /\ Len(reports') = Len(reports) + 1
        /\ reports'[Len(reports) + 1] = r /\ Len(reports) + 1 \in 1 .. Len(reports')
    BY <1>1, <1>2, <1>4
  <2> QED BY <1>1, <1>4, <2>1 DEF Options!IllegalMet
<1>6. Options!TypeOK'
  <2>1. /\ line' = line /\ over' \in BOOLEAN /\ taken \subseteq 1 .. Len(line)
        /\ optind \in 1 .. Len(line) + 1
    BY <1>1 DEF OptionsRun, OptionsInv, Options!TypeOK
  <2>2. letter' \in Nat \ {0} /\ ~(letter' > 1)
    BY <1>1
  <2> QED BY <1>1, <2>1, <2>2 DEF Options!TypeOK
<1> QED BY <1>1, <1>2, <1>5, <1>6, AfterIllegal DEF OptionsRun

\* The calls after an illegal letter.
LEMMA IllegalStays ==
    ASSUME OptionsInv, ~over, Options!IllegalMet, line' = line,
           \/ Options!Finished
           \/ Options!Ready /\ (Options!Illegal \/ Options!PlainOption \/ Options!OptionWithArg)
    PROVE  OptionsInv'
<1> DEFINE n == Len(line)
           e == line[optind]
<1>1. /\ line \in Seq(Seq(Byte)) /\ reports \in Seq(ReportSet) /\ taken \subseteq 1 .. optind - 1
      /\ optind \in 1 .. n + 1 /\ letter \in Nat \ {0} /\ over \in BOOLEAN
      /\ letter > 1 => optind <= n /\ letter + 1 <= Len(e)
  BY DEF OptionsInv, Options!TypeOK, Options!Element
<1>2. /\ reports' = reports /\ over' \in BOOLEAN
  BY <1>1 DEF Options!Finished, Options!Illegal, Options!PlainOption, Options!OptionWithArg,
     Options!ArgHere, Options!ArgMissing, Options!ArgInNext, Options!Report
<1>3. n \in Nat
  BY <1>1
<1>4. Options!Ready => optind <= n
  BY <1>1 DEF Options!Ready
<1> HIDE DEF n, e
<1>5. /\ optind' \in 1 .. n + 1 /\ taken' \subseteq 1 .. optind' - 1 /\ letter' \in Nat \ {0}
      /\ letter' > 1 => optind' = optind /\ optind <= n /\ letter' + 1 <= Len(e)
  <2>1. CASE Options!Finished
    <3>1. /\ letter = 1 /\ letter' = letter /\ taken' = taken
          /\ optind' = optind \/ (optind <= n /\ optind' = optind + 1)
      BY <2>1 DEF Options!Finished, n
    <3> QED BY <1>1, <1>3, <3>1
  <2>2. CASE Options!Ready /\ Options!Illegal
    BY <1>1, <1>4, <2>2 DEF Options!Illegal
  <2>3. CASE Options!Ready /\ Options!PlainOption
    <3>1. /\ taken' = taken /\ Options!NextLetter /\ Len(e) \in Nat
      <4>1. e \in Seq(Byte)
        BY <1>1, <1>4, <2>3 DEF e, n
      <4> QED BY <2>3, <4>1 DEF Options!PlainOption
    <3>2. CASE Options!AtEnd
      <4>1. letter' = 1 /\ optind' = optind + 1
        BY <3>1, <3>2 DEF Options!NextLetter
      <4> QED BY <1>1, <1>3, <1>4, <2>3, <3>1, <4>1
    <3>3. CASE ~Options!AtEnd
      <4>1. letter' = letter + 1 /\ optind' = optind /\ ~(letter + 2 > Len(e))
        BY <3>1, <3>3 DEF Options!NextLetter, Options!AtEnd, Options!Element, e
      <4> QED BY <1>1, <1>3, <1>4, <2>3, <3>1, <4>1
    <3> QED BY <3>2, <3>3
  <2>4. CASE Options!Ready /\ Options!OptionWithArg
    <3>1. /\ letter' = 1
          /\ \/ optind' = optind + 1 /\ taken' = taken
             \/ optind' = optind + 2 /\ optind + 1 <= n /\ taken' = taken \cup {optind + 1}
      BY <2>4 DEF Options!OptionWithArg, Options!ArgHere, Options!ArgMissing, Options!ArgInNext, n
    <3>2. optind <= n /\ optind \in Nat \ {0}
      BY <1>1, <1>3, <1>4, <2>4
    <3>3. CASE optind' = optind + 1 /\ taken' = taken
      BY <1>1, <1>3, <3>1, <3>2, <3>3
    <3>4. CASE optind' = optind + 2 /\ optind + 1 <= n /\ taken' = taken \cup {optind + 1}
      <4>1. \A k \in taken' : k \in 1 .. optind' - 1
        BY <1>1, <3>2, <3>4
      <4> QED BY <1>3, <3>1, <3>2, <3>4, <4>1
    <3> QED BY <3>1, <3>3, <3>4
  <2> QED BY <2>1, <2>2, <2>3, <2>4
<1>6. Options!TypeOK'
  <2>1. taken' \subseteq 1 .. n
    BY <1>3, <1>5, InLine
  <2> QED BY <1>2, <1>5, <2>1 DEF Options!TypeOK, Options!Element, n, e
<1>7. Options!IllegalMet'
  BY <1>2 DEF Options!IllegalMet
<1> QED BY <1>1, <1>2, <1>5, <1>6, <1>7, AfterIllegal

\* getopt returns -1: the line has ended, an operand comes, or "--" was there.
LEMMA FinishedKeeps ==
    ASSUME OptionsRun, Options!Finished
    PROVE  OptionsInv'
<1> DEFINE J == Joined(Said(line, taken, 0, optind - 1))
           H == Joined(Heard(reports))
           n == optind - 1
           skip == IF over' /\ optind' > 1 /\ line[optind' - 1] = Options!DashDash
                     /\ optind' - 1 \notin taken'
                  THEN optind' - 1 ELSE 0
<1>1. /\ letter = 1 /\ over' = TRUE /\ UNCHANGED <<letter, reports, taken>> /\ line' = line
      /\ ~Options!IllegalMet
  BY DEF Options!Finished, OptionsRun, OptionsInv
<1>2. /\ line \in Seq(Seq(Byte)) /\ optind \in Nat \ {0} /\ n \in Nat /\ n + 1 = optind
      /\ reports \in Seq(ReportSet)
      /\ taken \subseteq 1 .. n
      /\ \A i \in 1 .. n : i \notin taken => line[i] # <<>> /\ line[i] # Options!DashDash
      /\ J \o Piece(line[optind], letter) = H
  BY SoFar
<1>3. optind \in 1 .. Len(line) + 1 /\ Len(line) \in Nat
  BY <1>2 DEF OptionsRun, OptionsInv, Options!TypeOK
<1>4. H \in Seq(Byte)
  BY <1>2, HeardMore
<1>5. J \in Seq(Byte)
  <2> DEFINE k == n - 1
  <2>1. CASE n = 0
    <3>1. Said(line, taken, 0, n) = <<>>
      BY <2>1 DEF Said
    <3>2. <<>> \in Seq(Byte) /\ Joined(<<>>) = <<>>
      BY JoinedMore
    <3> QED BY <3>1, <3>2
  <2>2. CASE n # 0
    <3>1. /\ k \in Nat /\ k + 1 = n /\ k + 1 <= Len(line) /\ 0 \in Nat /\ 0 \notin 1 .. k
          /\ (\A i \in 1 .. k : i \in taken <=> i \in taken)
          /\ (\A i \in 1 .. k : i \notin taken => line[i] # <<>>)
      BY <1>2, <1>3, <2>2
    <3>2. Says(line, taken, 0, k + 1) \in Seq(Byte)
      <4>1. n \in 1 .. Len(line) /\ n \in 1 .. n
        BY <1>2, <1>3, <2>2
      <4>2. line[n] \in Seq(Byte) /\ (n \notin taken => line[n] # <<>>)
        BY <1>2, <4>1
      <4>3. \A q \in Seq(Byte) : q # <<>> => Tail(q) \in Seq(Byte)
        OBVIOUS
      <4> QED BY <2>2, <3>1, <4>2, <4>3 DEF Says
    <3>3. line \in Seq(Seq(Byte))
      BY <1>2
    <3> DEFINE front == Joined(Said(line, taken, 0, k))
               says == Says(line, taken, 0, k + 1)
    <3> HIDE DEF k, n
    <3>4. Joined(Said(line, taken, 0, k + 1)) = front \o says /\ front \in Seq(Byte)
      BY <3>1, <3>2, <3>3, SaidMore
    <3>5. says \in Seq(Byte)
      BY <3>2
    <3> HIDE DEF front, says
    <3>6. front \o says \in Seq(Byte)
      BY <3>4, <3>5
    <3>7. Joined(Said(line, taken, 0, n)) \in Seq(Byte)
      BY <3>1, <3>4, <3>6
    <3> QED BY <3>7 DEF n
  <2> QED BY <2>1, <2>2
<1>6. J = H
  <2>1. Piece(line[optind], letter) = <<>>
    BY <1>1 DEF Piece
  <2> HIDE DEF J, H
  <2> QED BY <1>2, <1>5, <2>1
<1>7. CASE optind' = optind /\ (optind > Len(line) \/ ~Options!IsOption(line[optind]))
  <2>1. skip = 0
    <3>1. n # 0 => n \in 1 .. n
      BY <1>2
    <3>2. n \in taken \/ n = 0 \/ line[n] # Options!DashDash
      BY <1>2, <3>1
    <3>3. ~(optind' > 1) <=> n = 0
      BY <1>2, <1>7
    <3> QED BY <1>1, <1>2, <1>7, <3>2, <3>3
  <2> HIDE DEF skip
  <2>2. optind' \in 1 .. Len(line) + 1 /\ taken' \subseteq 1 .. optind' - 1
    BY <1>1, <1>2, <1>3, <1>7
  <2>3. /\ Joined(Said(line, taken', skip, optind' - 1)) \in Seq(Byte)
        /\ Joined(Said(line, taken', skip, optind' - 1)) = Joined(Heard(reports'))
        /\ optind' > Len(line) \/ ~Options!IsOption(line[optind'])
    BY <1>1, <1>5, <1>6, <1>7, <2>1
  <2>4. reports' \in Seq(ReportSet) /\ letter' = 1
    BY <1>1, <1>2
  <2> QED BY <1>1, <2>2, <2>3, <2>4, OptionsStop DEF skip
<1>8. CASE optind' = optind + 1 /\ optind <= Len(line) /\ line[optind] = Options!DashDash
  <2>1. skip = optind
    BY <1>1, <1>2, <1>8
  <2> HIDE DEF skip
  <2>2. optind' \in 1 .. Len(line) + 1 /\ taken' \subseteq 1 .. optind' - 1 /\ skip # 0 /\ optind' - 1 = optind
    BY <1>1, <1>2, <1>3, <1>8, <2>1
  <2>3. Joined(Said(line, taken, skip, optind)) = J
    <3>1. /\ n + 1 <= Len(line) /\ skip \in Nat /\ skip \notin 1 .. n
          /\ (\A i \in 1 .. n : i \in taken <=> i \in taken)
          /\ (\A i \in 1 .. n : i \notin taken => line[i] # <<>>)
      BY <1>2, <1>8, <2>1
    <3>2. Says(line, taken, skip, n + 1) = <<>>
      BY <1>2, <2>1 DEF Says
    <3>3. Says(line, taken, skip, n + 1) \in Seq(Byte)
      <4>1. <<>> \in Seq(Byte)
        OBVIOUS
      <4> HIDE DEF n
      <4> QED BY <3>2, <4>1
    <3>7. n \in Nat /\ line \in Seq(Seq(Byte))
      BY <1>2
    <3> HIDE DEF n
    <3>4. Joined(Said(line, taken, skip, n + 1))
            = Joined(Said(line, taken, 0, n)) \o Says(line, taken, skip, n + 1)
      BY <3>1, <3>3, <3>7, SaidMore
    <3> USE DEF n
    <3>5. J \o <<>> = J
      <4> HIDE DEF J
      <4> QED BY <1>5
    <3> HIDE DEF n
    <3>6. J = Joined(Said(line, taken, 0, n))
      BY DEF n
    <3> HIDE DEF J
    <3> QED BY <1>2, <3>2, <3>4, <3>5, <3>6
  <2>4. /\ Joined(Said(line, taken', skip, optind' - 1)) \in Seq(Byte)
        /\ Joined(Said(line, taken', skip, optind' - 1)) = Joined(Heard(reports'))
    <3> HIDE DEF J
    <3> QED BY <1>1, <1>5, <1>6, <2>2, <2>3
  <2>5. reports' \in Seq(ReportSet) /\ letter' = 1
    BY <1>1, <1>2
  <2> QED BY <1>1, <2>2, <2>4, <2>5, OptionsStop DEF skip
<1> QED BY <1>7, <1>8 DEF Options!Finished, Options!Element

\* A program asks again until the end.
LEMMA OptionsKeep ==
    ASSUME Options!GetOptAssumption, OptionsInv, Options!Next
    PROVE  OptionsInv'
<1>1. line' = line /\ ~over
  BY DEF Options!Next
<1>2. CASE Options!IllegalMet
  BY <1>1, <1>2, IllegalStays DEF Options!Next
<1>3. CASE ~Options!IllegalMet
  <2>1. OptionsRun
    BY <1>1, <1>3 DEF OptionsRun
  <2> QED BY <2>1, PlainKeeps, WithArgKeeps, IllegalKeeps, FinishedKeeps DEF Options!Next
<1> QED BY <1>2, <1>3

\* getopt before its first call.
OptionsFresh ==
    /\ line \in Seq(Seq(Byte))
    /\ optind = 1 /\ letter = 1 /\ reports = <<>> /\ taken = {} /\ over = FALSE

LEMMA OptionsStart ==
    ASSUME OptionsFresh
    PROVE  OptionsInv
<1>1. /\ optind = 1 /\ letter = 1 /\ reports = <<>> /\ taken = {} /\ over = FALSE /\ Len(line) \in Nat
  BY DEF OptionsFresh
<1>2. Options!TypeOK
  <2>1. optind \in 1 .. Len(line) + 1 /\ letter \in Nat \ {0} /\ ~(letter > 1) /\ taken \subseteq 1 .. Len(line)
    BY <1>1
  <2>2. over \in BOOLEAN
    BY <1>1
  <2> QED BY <2>1, <2>2 DEF Options!TypeOK
<1>6. ~Options!IllegalMet
  BY <1>1 DEF Options!IllegalMet
<1>3. Said(line, taken, 0, optind - 1) = <<>> /\ Heard(reports) = <<>>
  BY <1>1 DEF Said, Heard
<1>4. Joined(<<>>) = <<>> /\ Piece(Options!Element, letter) = <<>> /\ <<>> \o <<>> = <<>>
  BY <1>1, JoinedMore DEF Piece
<1>5. reports \in Seq(ReportSet)
  BY <1>1
<1>7. /\ taken \subseteq 1 .. optind - 1 /\ ~(letter > 1)
      /\ \A i \in 1 .. optind - 1 : FALSE
  BY <1>1
<1>8. Joined(Said(line, taken, 0, optind - 1)) \o Piece(Options!Element, letter)
              = Joined(Heard(reports))
  BY <1>3, <1>4
<1>9. line \in Seq(Seq(Byte))
  BY DEF OptionsFresh
<1> QED BY <1>1, <1>2, <1>5, <1>6, <1>7, <1>8, <1>9 DEF OptionsInv

\* What OptionsInv says.
LEMMA OptionsEnough ==
    ASSUME OptionsInv
    PROVE  LineReported /\ Options!TypeOK
<1>1. CASE over
  BY <1>1 DEF OptionsInv
<1>4. CASE Options!IllegalMet
  BY <1>4 DEF LineReported, Options!EverythingReportedOnce, Options!StopsAtOperand, OptionsInv
<1>2. CASE ~over /\ ~Options!IllegalMet
  <2> DEFINE ended == over /\ optind > 1 /\ line[optind - 1] = Options!DashDash
                      /\ optind - 1 \notin taken
             whole(i) == IF i \in taken THEN line[i]
                         ELSE IF ended /\ i = optind - 1 THEN <<>> ELSE Tail(line[i])
             parts == [i \in 1 .. optind - 1 |-> whole(i)]
             heard == [i \in 1 .. Len(reports) |-> <<reports[i].letter>> \o reports[i].arg.str]
             piece == IF letter > 1 THEN SubSeq(Options!Element, 2, letter) ELSE <<>>
  <2>1. Options!Consumed = Options!FlattenSeq(parts) \o piece
    BY DEF Options!Consumed
  <2>2. parts = Said(line, taken, 0, optind - 1)
    <3>1. ~ended
      BY <1>2
    <3> HIDE DEF ended
    <3>2. ASSUME NEW i \in 1 .. optind - 1 PROVE whole(i) = Says(line, taken, 0, i)
      <4>1. i # 0
        OBVIOUS
      <4> QED BY <3>1, <4>1 DEF Says
    <3> HIDE DEF whole
    <3> QED BY <3>2 DEF Said
  <2>3. piece = Piece(Options!Element, letter)
    BY DEF Piece
  <2>4. heard = Heard(reports)
    BY DEF Heard
  <2>5. Options!EverythingReportedOnce <=>
          (~Options!IllegalMet => Options!Consumed = Options!FlattenSeq(heard))
    BY DEF Options!EverythingReportedOnce
  <2> HIDE DEF parts, piece, heard
  <2>6. Options!FlattenSeq(parts) = Joined(parts) /\ Options!FlattenSeq(heard) = Joined(heard)
    BY DEF Options!FlattenSeq, Joined
  <2>7. Joined(Said(line, taken, 0, optind - 1)) \o Piece(Options!Element, letter)
          = Joined(Heard(reports))
    BY <1>2 DEF OptionsInv
  <2>8. Options!EverythingReportedOnce
    BY <2>1, <2>2, <2>3, <2>4, <2>5, <2>6, <2>7
  <2>9. Options!StopsAtOperand
    BY <1>2 DEF Options!StopsAtOperand
  <2> QED BY <2>8, <2>9 DEF LineReported, OptionsInv
<1>3. Options!TypeOK
  BY DEF OptionsInv
<1> QED BY <1>1, <1>2, <1>3, <1>4

-----------------------------------------------------------------------------
(* parseargs *)

\* The bytes of the buffer for the command line.
Buffer ==
    IF msg.way = "ARGV" THEN 0
    ELSE Arguments!BufferSize(Len(Arguments!CommandLine) + msg.beyond)

\* The bytes counted at every part of parseargs cover what it has put behind the bss, and
\* what is still to be read of the command line has its place in the buffer.
ArgsInv ==
    /\ Arguments!TypeOK
    /\ msg \in Messages /\ pad \in 1 .. 4
    /\ environ \in Seq(Seq(Byte)) /\ argv \in Seq(Seq(Byte))
    /\ rest \in Seq(Byte) /\ to \in Seq(Byte)
    /\ parsing = "env" =>
         argv = <<>> /\ to = <<>> /\ left = 0 /\ count >= 4 + 4 * Len(environ)
    /\ parsing # "env" => Len(argv) >= 1
    /\ parsing \in {"plain", "quoted", "collect", "nulls"} =>
         count >= 8 + 4 * Len(environ) + 4 * Len(argv) + Buffer
    /\ parsing = "done" => count >= 12 + 4 * Len(environ) + 4 * Len(argv) + Buffer
    /\ parsing \in {"plain", "quoted"} =>
         /\ msg.way # "ARGV"
         /\ Len(to) + (IF left > 0 THEN left ELSE 0) <= Len(Arguments!CommandLine) + msg.beyond
    /\ msg.way # "ARGV" => Len(to) <= Len(Arguments!CommandLine) + msg.beyond + 2

LEMMA JoinedPieces ==
    ASSUME NEW S, NEW n \in Nat, NEW f \in [1 .. n -> Seq(S)]
    PROVE  Arguments!FlattenSeq(f) \in Seq(S)
<1>1. f \in Seq(Seq(S))
  OBVIOUS
<1>2. Arguments!FlattenSeq(f) = Joined(f)
  BY DEF Arguments!FlattenSeq, Joined
<1> QED BY <1>1, <1>2, JoinedMore

\* The least of the numbers for which a set of places is not empty, and the greatest.
LEMMA GreatestUpTo ==
    ASSUME NEW n \in Nat, NEW S, S \subseteq 0 .. n, 0 \in S
    PROVE  /\ Arguments!Max(S) \in S
           /\ \A b \in S : b <= Arguments!Max(S)
<1> DEFINE T == {n - b : b \in S}
<1>1. T \in SUBSET Nat /\ T # {}
  OBVIOUS
<1>2. PICK l \in T : \A t \in T : l <= t
  <2> HIDE DEF T
  <2> QED BY <1>1, LeastNumber
<1>3. PICK x \in S : l = n - x
  BY <1>2
<1>4. ASSUME NEW y \in S PROVE x >= y
  <2>1. n - y \in T /\ x \in 0 .. n /\ y \in 0 .. n
    BY <1>3
  <2>2. l <= n - y
    <3> HIDE DEF T
    <3> QED BY <1>2, <2>1
  <2> QED BY <1>3, <2>1, <2>2
<1>5. \E z \in S : \A y \in S : z >= y
  BY <1>3, <1>4
<1> DEFINE top == CHOOSE z \in S : \A y \in S : z >= y
<1>6. top \in S /\ \A y \in S : top >= y
  BY <1>5
<1>7. Arguments!Max(S) = top
  BY DEF Arguments!Max
<1> HIDE DEF top
<1>8. \A y \in S : y \in 0 .. n
  OBVIOUS
<1> QED BY <1>6, <1>7, <1>8

\* What a caller wants to give.
MessageSet ==
    [env : Seq([name : Seq(STRING), value : Seq(STRING), kind : {"set", "split", "bare"}]),
     args : Seq(Seq(STRING)), way : {"words", "quoted", "ARGV"},
     before : Nat, between : Nat, after : Nat, beyond : Nat]

LEMMA MessageIs ==
    ASSUME Arguments!ParseArgsAssumption, NEW w \in Messages
    PROVE  /\ w \in MessageSet
           /\ \A k \in DOMAIN w.args : w.args[k] \in Seq(Byte)
           /\ \E n \in Nat : DOMAIN w.args = 1 .. n
           /\ \A k \in DOMAIN w.env : /\ w.env[k].name \in Seq(Byte)
                                      /\ w.env[k].value \in Seq(Byte)
           /\ \E n \in Nat : DOMAIN w.env = 1 .. n
<1>1. w \in MessageSet
  BY DEF Arguments!ParseArgsAssumption, MessageSet
<1>2. /\ w.args \in Seq(Seq(STRING))
      /\ w.env \in Seq([name : Seq(STRING), value : Seq(STRING), kind : {"set", "split", "bare"}])
  BY <1>1 DEF MessageSet
<1>3. w.args \in Seq(Seq(Byte))
  BY <1>2, OfBytes
<1>4. /\ \A k \in DOMAIN w.args : w.args[k] \in Seq(Byte)
      /\ \E n \in Nat : DOMAIN w.args = 1 .. n
  <2>1. Len(w.args) \in Nat /\ DOMAIN w.args = 1 .. Len(w.args)
    BY <1>3
  <2> QED BY <1>3, <2>1
<1>5. /\ \A k \in DOMAIN w.env : w.env[k].name \in Seq(STRING) /\ w.env[k].value \in Seq(STRING)
      /\ \E n \in Nat : DOMAIN w.env = 1 .. n
  <2> DEFINE V == [name : Seq(STRING), value : Seq(STRING), kind : {"set", "split", "bare"}]
  <2>1. \A v \in V : v.name \in Seq(STRING) /\ v.value \in Seq(STRING)
    OBVIOUS
  <2>2. w.env \in Seq(V)
    BY <1>2
  <2> HIDE DEF V
  <2>3. Len(w.env) \in Nat /\ DOMAIN w.env = 1 .. Len(w.env)
    BY <2>2
  <2>4. \A k \in DOMAIN w.env : w.env[k] \in V
    BY <2>2
  <2> QED BY <2>1, <2>3, <2>4
<1> QED BY <1>1, <1>4, <1>5, OfBytes

LEMMA BlanksAre ==
    ASSUME NEW n \in Nat
    PROVE  Arguments!Blanks(n) \in Seq(Byte)
<1>1. Arguments!Blank \in Byte
  BY DEF Arguments!Blank, Byte
<1> HIDE DEF Byte
<1> QED BY <1>1 DEF Arguments!Blanks

LEMMA QuotedIs ==
    ASSUME NEW s \in Seq(Byte)
    PROVE  Arguments!Quoted(s) \in Seq(Byte)
<1> DEFINE f == [k \in DOMAIN s |-> IF s[k] = Arguments!Quote THEN <<Arguments!Quote, Arguments!Quote>>
                                    ELSE <<s[k]>>]
           j == Arguments!FlattenSeq(f)
           q == <<Arguments!Quote>>
<1>1. Arguments!Quote \in Byte
  BY DEF Arguments!Quote, Byte
<1> HIDE DEF Byte
<1>2. \A k \in DOMAIN s : s[k] \in Byte
  OBVIOUS
<1>3. Len(s) \in Nat /\ DOMAIN s = 1 .. Len(s)
  OBVIOUS
<1>4. f \in [1 .. Len(s) -> Seq(Byte)]
  BY <1>1, <1>2, <1>3
<1> HIDE DEF f
<1>5. j \in Seq(Byte)
  BY <1>3, <1>4, JoinedPieces
<1>6. q \in Seq(Byte)
  BY <1>1
<1>7. Arguments!Quoted(s) = q \o j \o q
  BY DEF Arguments!Quoted, f
<1> HIDE DEF j, q
<1> QED BY <1>5, <1>6, <1>7

\* The command line is a string of at most 127 characters.
LEMMA CommandLineIs ==
    ASSUME Arguments!ParseArgsAssumption, NEW w \in Messages
    PROVE  /\ Arguments!CommandLineOf(w) \in Seq(Byte)
           /\ Len(Arguments!CommandLineOf(w)) + w.beyond \in 0 .. 127
           /\ w.beyond \in Nat /\ Len(Arguments!CommandLineOf(w)) \in Nat
<1> DEFINE word(k) == IF w.way = "quoted" THEN Arguments!Quoted(w.args[k]) ELSE w.args[k]
           part1(k) == IF k = 1 THEN word(k) ELSE Arguments!Blanks(w.between) \o word(k)
           f == [k \in DOMAIN w.args |-> part1(k)]
           j == Arguments!FlattenSeq(f)
<1>1. /\ w.before \in Nat /\ w.between \in Nat /\ w.after \in Nat /\ w.beyond \in Nat
      /\ \A k \in DOMAIN w.args : w.args[k] \in Seq(Byte)
  BY MessageIs DEF MessageSet
<1>2. PICK n \in Nat : DOMAIN w.args = 1 .. n
  BY MessageIs
<1>3. ASSUME NEW k \in DOMAIN w.args PROVE part1(k) \in Seq(Byte)
  <2>1. word(k) \in Seq(Byte)
    BY <1>1, QuotedIs
  <2>2. Arguments!Blanks(w.between) \in Seq(Byte)
    BY <1>1, BlanksAre
  <2> HIDE DEF word
  <2> QED BY <2>1, <2>2
<1>4. f \in [1 .. n -> Seq(Byte)]
  <2> HIDE DEF part1
  <2> QED BY <1>2, <1>3
<1>5. Arguments!CommandLineOf(w) =
        IF w.way = "ARGV" THEN <<>> ELSE Arguments!Blanks(w.before) \o j \o Arguments!Blanks(w.after)
  BY DEF Arguments!CommandLineOf
<1> HIDE DEF f
<1>6. j \in Seq(Byte)
  BY <1>4, JoinedPieces
<1>7. Arguments!Blanks(w.before) \in Seq(Byte) /\ Arguments!Blanks(w.after) \in Seq(Byte)
  BY <1>1, BlanksAre
<1> HIDE DEF j
<1>8. Arguments!CommandLineOf(w) \in Seq(Byte)
  BY <1>5, <1>6, <1>7
<1>9. Len(Arguments!CommandLineOf(w)) + w.beyond <= 127
  BY DEF Arguments!ParseArgsAssumption
<1>10. Len(Arguments!CommandLineOf(w)) \in Nat
  BY <1>8
<1>11. w.beyond \in Nat
  BY <1>1
<1>12. \A a \in Nat, b \in Nat : a + b <= 127 => a + b \in 0 .. 127
  OBVIOUS
<1>13. Len(Arguments!CommandLineOf(w)) + w.beyond \in 0 .. 127
  BY <1>9, <1>10, <1>11, <1>12
<1> QED BY <1>8, <1>10, <1>11, <1>13

\* A character of the command line, or what lies behind it.
LEMMA CharIs ==
    ASSUME Arguments!ParseArgsAssumption, msg \in Messages, NEW k \in Nat \ {0}
    PROVE  Arguments!Char(k) \in Byte
<1>1. Arguments!CommandLine \in Seq(Byte)
  BY CommandLineIs DEF Arguments!CommandLine
<1>2. Arguments!NUL \in Byte
  BY DEF Arguments!NUL, Byte
<1> HIDE DEF Byte
<1> QED BY <1>1, <1>2 DEF Arguments!Char

\* The blanks that are skipped are among those that are left; at a blank one at least.
LEMMA BlanksSkipped ==
    ASSUME NEW k \in Nat \ {0}, NEW n \in Nat
    PROVE  /\ Arguments!BlanksAt(k, n) \in 0 .. n
           /\ n > 0 /\ Arguments!Char(k) = Arguments!Blank => Arguments!BlanksAt(k, n) >= 1
<1> DEFINE S == {b \in 0 .. n : \A j \in k .. k + b - 1 : Arguments!Char(j) = Arguments!Blank}
<1>1. S \subseteq 0 .. n /\ 0 \in S
  OBVIOUS
<1>2. ASSUME n > 0, Arguments!Char(k) = Arguments!Blank PROVE 1 \in S
  <2>1. 1 \in 0 .. n /\ \A j \in k .. k + 1 - 1 : j = k
    BY <1>2
  <2> QED BY <1>2, <2>1
<1>3. Arguments!BlanksAt(k, n) = Arguments!Max(S)
  BY DEF Arguments!BlanksAt
<1> HIDE DEF S
<1>4. Arguments!Max(S) \in S /\ \A b \in S : b <= Arguments!Max(S)
  BY <1>1, GreatestUpTo
<1> QED BY <1>1, <1>2, <1>3, <1>4

\* The environment of the basepage is a list of strings.
LEMMA EnvStringsAre ==
    ASSUME Arguments!ParseArgsAssumption, msg \in Messages
    PROVE  Arguments!EnvStrings \in Seq(Seq(Byte))
<1> DEFINE strings(v) == IF v.kind = "split" THEN << Append(v.name, "="), v.value >>
                         ELSE << Arguments!Meant(v) >>
           f == [k \in DOMAIN msg.env |-> strings(msg.env[k])]
<1>1. PICK n \in Nat : DOMAIN msg.env = 1 .. n
  BY MessageIs
<1>2. ASSUME NEW k \in DOMAIN msg.env PROVE strings(msg.env[k]) \in Seq(Seq(Byte))
  <2> DEFINE name == msg.env[k].name
             value == msg.env[k].value
  <2>1. name \in Seq(Byte) /\ value \in Seq(Byte)
    BY MessageIs
  <2>2. "=" \in Byte
    BY DEF Byte
  <2>5. strings(msg.env[k]) = IF msg.env[k].kind = "split" THEN << Append(name, "="), value >>
                              ELSE << Arguments!Meant(msg.env[k]) >>
    OBVIOUS
  <2>6. Arguments!Meant(msg.env[k]) = IF msg.env[k].kind = "bare" THEN name
                                      ELSE name \o <<"=">> \o value
    BY DEF Arguments!Meant
  <2> HIDE DEF Byte, name, value, strings
  <2>3. Append(name, "=") \in Seq(Byte) /\ name \o <<"=">> \o value \in Seq(Byte)
    BY <2>1, <2>2
  <2>4. Arguments!Meant(msg.env[k]) \in Seq(Byte)
    BY <2>1, <2>3, <2>6
  <2> QED BY <2>1, <2>3, <2>4, <2>5
<1>3. Arguments!EnvStrings = Arguments!FlattenSeq(f)
  BY DEF Arguments!EnvStrings
<1>4. f \in [1 .. n -> Seq(Seq(Byte))]
  <2> HIDE DEF strings
  <2> QED BY <1>1, <1>2
<1> HIDE DEF f
<1> QED BY <1>3, <1>4, JoinedPieces

\* So are the strings behind ARGV=.
LEMMA ArgvStringsAre ==
    ASSUME Arguments!ParseArgsAssumption, msg \in Messages
    PROVE  Arguments!ArgvStrings \in Seq(Byte)
<1> DEFINE f == [k \in DOMAIN msg.args |->
                   Arguments!Ends(IF msg.args[k] = <<>> THEN <<Arguments!Blank>> ELSE msg.args[k])]
           j == Arguments!FlattenSeq(f)
           first == Arguments!Ends(<<"p">>)
           last == <<Arguments!NUL>>
<1>1. PICK n \in Nat : DOMAIN msg.args = 1 .. n
  BY MessageIs
<1>2. Arguments!NUL \in Byte /\ Arguments!Blank \in Byte /\ "p" \in Byte
  BY DEF Arguments!NUL, Arguments!Blank, Byte
<1> HIDE DEF Byte
<1>3. \A s \in Seq(Byte) : Arguments!Ends(s) \in Seq(Byte)
  BY <1>2 DEF Arguments!Ends
<1>4. \A k \in DOMAIN msg.args : msg.args[k] \in Seq(Byte)
  BY MessageIs
<1>5. f \in [1 .. n -> Seq(Byte)]
  <2>1. ASSUME NEW k \in DOMAIN msg.args
        PROVE  Arguments!Ends(IF msg.args[k] = <<>> THEN <<Arguments!Blank>> ELSE msg.args[k]) \in Seq(Byte)
    <3>1. <<Arguments!Blank>> \in Seq(Byte)
      BY <1>2
    <3> QED BY <1>3, <1>4, <3>1
  <2> QED BY <1>1, <2>1
<1>6. Arguments!ArgvStrings = first \o j \o last
  BY DEF Arguments!ArgvStrings
<1> HIDE DEF f
<1>7. j \in Seq(Byte)
  BY <1>5, JoinedPieces
<1>8. <<"p">> \in Seq(Byte) /\ last \in Seq(Byte)
  BY <1>2
<1>9. first \in Seq(Byte)
  BY <1>3, <1>8
<1> HIDE DEF j, first, last
<1> QED BY <1>6, <1>7, <1>8, <1>9

\* The size of the buffer for i characters: two more have room.
LEMMA RoomInBuffer ==
    ASSUME NEW i \in Nat
    PROVE  Arguments!BufferSize(i) \in Nat /\ i + 2 <= Arguments!BufferSize(i)
  BY DEF Arguments!BufferSize

\* i, in parseargs.
LEMMA BufferIs ==
    ASSUME Arguments!ParseArgsAssumption, msg \in Messages
    PROVE  /\ Buffer \in Nat
           /\ Len(Arguments!CommandLine) + msg.beyond \in 0 .. 127
           /\ msg.way # "ARGV" =>
                Len(Arguments!CommandLine) + msg.beyond + 2 <= Buffer
<1> DEFINE i == Len(Arguments!CommandLine) + msg.beyond
<1>1. i \in 0 .. 127
  BY CommandLineIs DEF Arguments!CommandLine
<1>2. Arguments!BufferSize(i) \in Nat /\ i + 2 <= Arguments!BufferSize(i)
  <2> HIDE DEF i
  <2> QED BY <1>1, RoomInBuffer
<1>3. Buffer = IF msg.way = "ARGV" THEN 0 ELSE Arguments!BufferSize(i)
  BY DEF Buffer
<1> QED BY <1>1, <1>2, <1>3

LEMMA ArgsStart ==
    ASSUME Arguments!ParseArgsAssumption, Arguments!Init
    PROVE  ArgsInv
<1>1. /\ msg \in Messages /\ pad \in 1 .. 4 /\ parsing = "env" /\ at = 1 /\ left = 0
      /\ to = <<>> /\ inQuote = FALSE /\ rest = <<>> /\ environ = <<>> /\ argv = <<>> /\ count = 4
  BY DEF Arguments!Init, Arguments!ParseArgsAssumption
<1>2. Len(Arguments!CommandLine) + msg.beyond \in 0 .. 127
  BY <1>1, BufferIs
<1>3. Arguments!TypeOK
  <2>1. left \in -1 .. 127 /\ at \in Nat \ {0} /\ count \in Nat
    BY <1>1
  <2>2. inQuote \in BOOLEAN
    BY <1>1
  <2>3. parsing \in {"env", "plain", "quoted", "collect", "nulls", "done"}
    BY <1>1
  <2> QED BY <2>1, <2>2, <2>3 DEF Arguments!TypeOK
<1>4. /\ environ \in Seq(Seq(Byte)) /\ argv \in Seq(Seq(Byte))
      /\ rest \in Seq(Byte) /\ to \in Seq(Byte)
      /\ Len(environ) = 0 /\ Len(to) = 0
  BY <1>1
<1> DEFINE i == Len(Arguments!CommandLine) + msg.beyond
<1>5. i \in 0 .. 127
  BY <1>2
<1> HIDE DEF i
<1>6. Len(to) <= i + 2 /\ count >= 4 + 4 * Len(environ)
  BY <1>1, <1>4, <1>5
<1> QED BY <1>1, <1>3, <1>4, <1>6 DEF ArgsInv, i

\* The numbers in ArgsInv, for the steps: b is the room for the command line, i its length.
ArgsNumbers(b, i) ==
    /\ parsing \in {"env", "plain", "quoted", "collect", "nulls", "done"}
    /\ at \in Nat \ {0} /\ left \in -1 .. 127 /\ count \in Nat
    /\ parsing = "env" => Len(to) = 0 /\ left = 0 /\ count >= 4 + 4 * Len(environ)
    /\ parsing # "env" => Len(argv) >= 1
    /\ parsing \in {"plain", "quoted", "collect", "nulls"} =>
         count >= 8 + 4 * Len(environ) + 4 * Len(argv) + b
    /\ parsing = "done" => count >= 12 + 4 * Len(environ) + 4 * Len(argv) + b
    /\ parsing \in {"plain", "quoted"} =>
         /\ msg.way # "ARGV"
         /\ Len(to) + (IF left > 0 THEN left ELSE 0) <= i
    /\ msg.way # "ARGV" => Len(to) <= i + 2
ArgsTexts ==
    /\ msg \in Messages /\ pad \in 1 .. 4
    /\ environ \in Seq(Seq(Byte)) /\ argv \in Seq(Seq(Byte))
    /\ rest \in Seq(Byte) /\ to \in Seq(Byte)
    /\ inQuote \in BOOLEAN
    /\ parsing = "env" => argv = <<>> /\ to = <<>>

LEMMA ArgsParts ==
    ArgsInv <=> ArgsTexts /\ ArgsNumbers(Buffer, Len(Arguments!CommandLine) + msg.beyond)
<1>1. to = <<>> => Len(to) = 0
  OBVIOUS
<1> QED BY <1>1 DEF ArgsInv, ArgsTexts, ArgsNumbers, Arguments!TypeOK

\* A step keeps what the caller has given.
LEMMA ArgsFrame ==
    ASSUME Arguments!ParseArgsAssumption, ArgsInv, msg' = msg, pad' = pad,
           NEW b, b = Buffer, NEW i, i = Len(Arguments!CommandLine) + msg.beyond
    PROVE  /\ ArgsTexts /\ ArgsNumbers(b, i)
           /\ b \in Nat /\ i \in 0 .. 127
           /\ msg \in Messages
           /\ ArgsTexts' /\ ArgsNumbers(b, i)' => ArgsInv'
<1>1. Buffer' = Buffer
  BY DEF Buffer, Arguments!CommandLine
<1>2. Len(Arguments!CommandLine') + msg'.beyond = Len(Arguments!CommandLine) + msg.beyond
  BY DEF Arguments!CommandLine
<1>3. msg \in Messages
  BY DEF ArgsInv
<1>4. b \in Nat /\ i \in 0 .. 127
  BY <1>3, BufferIs
<1>5. ArgsTexts /\ ArgsNumbers(b, i)
  BY ArgsParts
<1>6. ArgsTexts' /\ ArgsNumbers(b, i)' => ArgsInv'
  <2>1. to' = <<>> => Len(to') = 0
    OBVIOUS
  <2> QED BY <1>1, <1>2, <2>1 DEF ArgsInv, ArgsTexts, ArgsNumbers, Arguments!TypeOK
<1> QED BY <1>3, <1>4, <1>5, <1>6

LEMMA EnvStringKeeps ==
    ASSUME Arguments!ParseArgsAssumption, ArgsInv, Arguments!EnvString
    PROVE  ArgsInv'
<1>p. PICK b, i : b = Buffer /\ i = Len(Arguments!CommandLine) + msg.beyond
  OBVIOUS
<1> DEFINE s == Arguments!EnvStrings[at]
<1>1. /\ parsing = "env" /\ at <= Len(Arguments!EnvStrings)
      /\ environ' = (IF Arguments!Joins(s) THEN Append(Arguments!Front(environ), Arguments!Last(environ) \o s)
                     ELSE Append(environ, s))
      /\ count' = count + 4 /\ at' = at + 1
      /\ msg' = msg /\ pad' = pad /\ parsing' = parsing /\ left' = left /\ to' = to
      /\ inQuote' = inQuote /\ rest' = rest /\ argv' = argv
  BY DEF Arguments!EnvString
<1>2. /\ ArgsTexts /\ ArgsNumbers(b, i) /\ b \in Nat /\ i \in 0 .. 127 /\ msg \in Messages
      /\ ArgsTexts' /\ ArgsNumbers(b, i)' => ArgsInv'
  BY <1>1, <1>p, ArgsFrame
<1>3. s \in Seq(Byte)
  <2>1. Arguments!EnvStrings \in Seq(Seq(Byte)) /\ at \in Nat \ {0}
    BY <1>2, EnvStringsAre DEF ArgsNumbers
  <2> QED BY <1>1, <2>1
<1> HIDE DEF s
<1>4. environ' \in Seq(Seq(Byte)) /\ Len(environ') <= Len(environ) + 1
  <2>1. environ \in Seq(Seq(Byte))
    BY <1>2 DEF ArgsTexts
  <2>2. CASE Arguments!Joins(s)
    <3>1. Len(environ) >= 1
      BY <2>2 DEF Arguments!Joins
    <3> DEFINE last == environ[Len(environ)]
               front == SubSeq(environ, 1, Len(environ) - 1)
    <3>2. last \in Seq(Byte) /\ front \in Seq(Seq(Byte)) /\ Len(front) = Len(environ) - 1
      <4>1. Len(environ) \in 1 .. Len(environ) /\ Len(environ) - 1 \in Nat
        BY <2>1, <3>1
      <4>2. last \in Seq(Byte)
        BY <2>1, <4>1
      <4> DEFINE T == Seq(Byte)
                 n == Len(environ) - 1
      <4> HIDE DEF T
      <4>3. environ \in Seq(T) /\ n \in Nat /\ n <= Len(environ) /\ Len(environ) \in Nat
        BY <2>1, <4>1 DEF T
      <4> HIDE DEF n
      <4>4. SubSeq(environ, 1, n) \in Seq(T) /\ Len(SubSeq(environ, 1, n)) = n
        BY <4>3
      <4> QED BY <4>2, <4>4 DEF T, n
    <3>3. environ' = Append(front, last \o s)
      BY <1>1, <2>2 DEF Arguments!Front, Arguments!Last
    <3> HIDE DEF last, front
    <3>4. last \o s \in Seq(Byte)
      BY <1>3, <3>2
    <3>5. Append(front, last \o s) \in Seq(Seq(Byte)) /\ Len(Append(front, last \o s)) = Len(front) + 1
      BY <3>2, <3>4
    <3>6. Len(environ) \in Nat
      BY <2>1
    <3> QED BY <3>2, <3>3, <3>5, <3>6
  <2>3. CASE ~Arguments!Joins(s)
    BY <1>1, <1>3, <2>1, <2>3
  <2> QED BY <2>2, <2>3
<1>5. Len(environ') \in Nat /\ Len(environ) \in Nat
  BY <1>2, <1>4 DEF ArgsTexts
<1>6. ArgsTexts'
  BY <1>1, <1>2, <1>4 DEF ArgsTexts
<1>7. ArgsNumbers(b, i)'
  BY <1>1, <1>2, <1>4, <1>5 DEF ArgsNumbers
<1> QED BY <1>2, <1>6, <1>7

LEMMA FoundArgvKeeps ==
    ASSUME Arguments!ParseArgsAssumption, ArgsInv, Arguments!FoundArgv
    PROVE  ArgsInv'
<1>p. PICK b, i : b = Buffer /\ i = Len(Arguments!CommandLine) + msg.beyond
  OBVIOUS
<1> DEFINE all == Arguments!ArgvStrings
<1>1. /\ parsing = "env" /\ msg.way = "ARGV"
      /\ argv' = << <<"p">> >> /\ rest' = SubSeq(all, 3, Len(all))
      /\ count' = count + 8 /\ parsing' = "collect"
      /\ msg' = msg /\ pad' = pad /\ at' = at /\ left' = left /\ to' = to
      /\ inQuote' = inQuote /\ environ' = environ
  BY DEF Arguments!FoundArgv
<1>a. b = 0
  BY <1>1, <1>p DEF Buffer
<1>2. /\ ArgsTexts /\ ArgsNumbers(b, i) /\ b \in Nat /\ i \in 0 .. 127 /\ msg \in Messages
      /\ ArgsTexts' /\ ArgsNumbers(b, i)' => ArgsInv'
  BY <1>1, <1>p, ArgsFrame
<1>3. all \in Seq(Byte)
  BY <1>2, ArgvStringsAre
<1> HIDE DEF all
<1>4. rest' \in Seq(Byte)
  BY <1>1, <1>3
<1>5. argv' \in Seq(Seq(Byte)) /\ Len(argv') = 1
  <2> DEFINE p == <<"p">>
  <2>1. "p" \in Byte
    BY DEF Byte
  <2> HIDE DEF Byte
  <2>2. p \in Seq(Byte)
    BY <2>1
  <2> HIDE DEF p
  <2>3. <<p>> \in Seq(Seq(Byte)) /\ Len(<<p>>) = 1
    BY <2>2
  <2> QED BY <1>1, <2>3 DEF p
<1>6. ArgsTexts'
  BY <1>1, <1>2, <1>4, <1>5 DEF ArgsTexts
<1>7. Len(environ) \in Nat
  BY <1>2 DEF ArgsTexts
<1>8. ArgsNumbers(b, i)'
  BY <1>1, <1>a, <1>2, <1>5, <1>7 DEF ArgsNumbers
<1> QED BY <1>2, <1>6, <1>8

LEMMA EnvEndsKeeps ==
    ASSUME Arguments!ParseArgsAssumption, ArgsInv, Arguments!EnvEnds
    PROVE  ArgsInv'
<1>p. PICK b, i : b = Buffer /\ i = Len(Arguments!CommandLine) + msg.beyond
  OBVIOUS
<1> DEFINE k == Arguments!BlanksAt(1, i)
           none == <<>>
<1>1. /\ parsing = "env" /\ msg.way # "ARGV"
      /\ count' = count + 4 + Arguments!BufferSize(i) + 4
      /\ at' = 1 + k /\ left' = i - k /\ parsing' \in {"plain", "quoted"}
      /\ argv' = << none >>
      /\ msg' = msg /\ pad' = pad /\ to' = to
      /\ inQuote' = inQuote /\ rest' = rest /\ environ' = environ
  BY <1>p DEF Arguments!EnvEnds
<1>a. b = Arguments!BufferSize(i)
  BY <1>1, <1>p DEF Buffer
<1>2. /\ ArgsTexts /\ ArgsNumbers(b, i) /\ b \in Nat /\ i \in 0 .. 127 /\ msg \in Messages
      /\ ArgsTexts' /\ ArgsNumbers(b, i)' => ArgsInv'
  BY <1>1, <1>p, ArgsFrame
<1>3. k \in 0 .. i
  BY <1>2, BlanksSkipped
<1> HIDE DEF k
<1>5. argv' \in Seq(Seq(Byte)) /\ Len(argv') = 1
  <2>2. none \in Seq(Byte)
    OBVIOUS
  <2> HIDE DEF none
  <2>3. <<none>> \in Seq(Seq(Byte)) /\ Len(<<none>>) = 1
    BY <2>2
  <2> QED BY <1>1, <2>3
<1>6. ArgsTexts'
  BY <1>1, <1>2, <1>5 DEF ArgsTexts
<1>7. Len(environ) \in Nat
  BY <1>2 DEF ArgsTexts
<1>8. ArgsNumbers(b, i)'
  BY <1>1, <1>a, <1>2, <1>3, <1>5, <1>7 DEF ArgsNumbers
<1> QED BY <1>2, <1>6, <1>8

\* Characters go to the buffer while the command line is read: not more of them than of
\* those that are read.
LEMMA CharacterKeeps ==
    ASSUME Arguments!ParseArgsAssumption, ArgsInv, parsing \in {"plain", "quoted"}, left > 0,
           msg' = msg, pad' = pad, parsing' = parsing, rest' = rest, environ' = environ,
           argv' = argv, count' = count, inQuote' \in BOOLEAN,
           at' \in Nat \ {0}, left' \in -1 .. 127, to' \in Seq(Byte),
           \/ to' = to /\ left' <= left - 1
           \/ Len(to') = Len(to) + 1 /\ left' <= left - 1
    PROVE  ArgsInv'
<1>p. PICK b, i : b = Buffer /\ i = Len(Arguments!CommandLine) + msg.beyond
  OBVIOUS
<1>2. /\ ArgsTexts /\ ArgsNumbers(b, i) /\ b \in Nat /\ i \in 0 .. 127 /\ msg \in Messages
      /\ ArgsTexts' /\ ArgsNumbers(b, i)' => ArgsInv'
  BY <1>p, ArgsFrame
<1>3. ArgsTexts'
  BY <1>2 DEF ArgsTexts
<1>4. Len(to) \in Nat /\ Len(to') \in Nat /\ left \in Int /\ left' \in Int
  <2>1. to \in Seq(Byte) /\ left \in -1 .. 127
    BY <1>2 DEF ArgsTexts, ArgsNumbers
  <2> QED BY <2>1
<1>5. Len(to) + left <= i
  BY <1>2 DEF ArgsNumbers
<1>6. Len(to') <= Len(to) + 1 /\ left' <= left - 1
  BY <1>4
<1>7. Len(to') + (IF left' > 0 THEN left' ELSE 0) <= i
  BY <1>2, <1>4, <1>5, <1>6
<1>8. Len(to') <= i + 2
  BY <1>2, <1>4, <1>7
<1>9. ArgsNumbers(b, i)'
  BY <1>2, <1>7, <1>8 DEF ArgsNumbers
<1> QED BY <1>2, <1>3, <1>9

LEMMA WordKeeps ==
    ASSUME Arguments!ParseArgsAssumption, ArgsInv, Arguments!Word
    PROVE  ArgsInv'
<1> DEFINE k == Arguments!BlanksAt(at, left)
           c == Arguments!Char(at)
<1>1. /\ parsing = "plain" /\ left > 0
      /\ \/ /\ c = Arguments!Blank
            /\ at' = at + k /\ left' = left - k /\ to' = Append(to, Arguments!NUL)
         \/ /\ to' = Append(to, c) /\ at' = at + 1
            /\ left' = IF c = Arguments!NUL THEN 0 ELSE left - 1
      /\ msg' = msg /\ pad' = pad /\ parsing' = parsing /\ inQuote' = inQuote /\ rest' = rest
      /\ environ' = environ /\ argv' = argv /\ count' = count
  BY DEF Arguments!Word
<1>2. /\ msg \in Messages /\ to \in Seq(Byte) /\ at \in Nat \ {0} /\ left \in 1 .. 127
  BY <1>1 DEF ArgsInv, Arguments!TypeOK
<1>a. inQuote \in BOOLEAN
  BY DEF ArgsInv, Arguments!TypeOK
<1>3. c \in Byte /\ Arguments!NUL \in Byte
  <2>1. Arguments!NUL \in Byte
    BY DEF Arguments!NUL, Byte
  <2> QED BY <1>2, <2>1, CharIs
<1>4. k \in 0 .. left /\ (c = Arguments!Blank => k >= 1)
  <2>1. at \in Nat \ {0} /\ left \in Nat /\ left > 0
    BY <1>2
  <2> QED BY <2>1, BlanksSkipped
<1> HIDE DEF k, c
<1>5. at' \in Nat \ {0} /\ left' \in -1 .. 127 /\ left' <= left - 1
  <2>1. CASE c = Arguments!Blank /\ at' = at + k /\ left' = left - k
    BY <1>2, <1>4, <2>1
  <2>2. CASE at' = at + 1 /\ (left' = IF c = Arguments!NUL THEN 0 ELSE left - 1)
    BY <1>2, <2>2
  <2> QED BY <1>1, <2>1, <2>2
<1>6. to' \in Seq(Byte) /\ Len(to') = Len(to) + 1
  BY <1>1, <1>2, <1>3
<1> QED BY <1>1, <1>a, <1>5, <1>6, CharacterKeeps

LEMMA QuoteCharKeeps ==
    ASSUME Arguments!ParseArgsAssumption, ArgsInv, Arguments!QuoteChar
    PROVE  ArgsInv'
<1>1. /\ parsing = "quoted" /\ left > 0
      /\ \E n \in 1 .. 2 : at' = at + n /\ left' = left - n
      /\ to' = to \/ to' = Append(to, Arguments!Quote) \/ to' = Append(to, Arguments!NUL)
      /\ msg' = msg /\ pad' = pad /\ parsing' = parsing /\ rest' = rest
      /\ environ' = environ /\ argv' = argv /\ count' = count
  BY DEF Arguments!QuoteChar, Arguments!Reads, Arguments!PastQuote
<1>a. inQuote' \in BOOLEAN
  BY DEF ArgsInv, Arguments!TypeOK, Arguments!QuoteChar
<1>2. to \in Seq(Byte) /\ at \in Nat \ {0} /\ left \in 1 .. 127
  BY <1>1 DEF ArgsInv, Arguments!TypeOK
<1>3. Arguments!NUL \in Byte /\ Arguments!Quote \in Byte
  BY DEF Arguments!NUL, Arguments!Quote, Byte
<1>5. at' \in Nat \ {0} /\ left' \in -1 .. 127 /\ left' <= left - 1
  BY <1>1, <1>2
<1> HIDE DEF Byte
<1>6. to' \in Seq(Byte) /\ (to' = to \/ Len(to') = Len(to) + 1)
  BY <1>1, <1>2, <1>3
<1> QED BY <1>1, <1>a, <1>5, <1>6, CharacterKeeps

LEMMA OtherCharKeeps ==
    ASSUME Arguments!ParseArgsAssumption, ArgsInv, Arguments!OtherChar
    PROVE  ArgsInv'
<1> DEFINE c == Arguments!Char(at)
<1>1. /\ parsing = "quoted" /\ left > 0
      /\ at' = at + 1 /\ left' = left - 1
      /\ to' = Append(to, c) \/ to' = Append(to, Arguments!NUL)
      /\ msg' = msg /\ pad' = pad /\ parsing' = parsing /\ inQuote' = inQuote /\ rest' = rest
      /\ environ' = environ /\ argv' = argv /\ count' = count
  BY DEF Arguments!OtherChar, Arguments!Reads
<1>a. inQuote \in BOOLEAN
  BY DEF ArgsInv, Arguments!TypeOK
<1>2. msg \in Messages /\ to \in Seq(Byte) /\ at \in Nat \ {0} /\ left \in 1 .. 127
  BY <1>1 DEF ArgsInv, Arguments!TypeOK
<1>3. c \in Byte /\ Arguments!NUL \in Byte
  <2>1. Arguments!NUL \in Byte
    BY DEF Arguments!NUL, Byte
  <2> QED BY <1>2, <2>1, CharIs
<1> HIDE DEF c
<1>5. at' \in Nat \ {0} /\ left' \in -1 .. 127 /\ left' <= left - 1
  BY <1>1, <1>2
<1>6. to' \in Seq(Byte) /\ Len(to') = Len(to) + 1
  BY <1>1, <1>2, <1>3
<1> QED BY <1>1, <1>a, <1>5, <1>6, CharacterKeeps

LEMMA CommandLineEndsKeeps ==
    ASSUME Arguments!ParseArgsAssumption, ArgsInv, Arguments!CommandLineEnds
    PROVE  ArgsInv'
<1>p. PICK b, i : b = Buffer /\ i = Len(Arguments!CommandLine) + msg.beyond
  OBVIOUS
<1> DEFINE ends == <<Arguments!NUL, Arguments!NUL>>
<1>1. /\ parsing \in {"plain", "quoted"} /\ left <= 0
      /\ to' = to \o ends /\ rest' = to \o ends /\ parsing' = "collect"
      /\ msg' = msg /\ pad' = pad /\ at' = at /\ left' = left /\ inQuote' = inQuote
      /\ environ' = environ /\ argv' = argv /\ count' = count
  BY DEF Arguments!CommandLineEnds
<1>2. /\ ArgsTexts /\ ArgsNumbers(b, i) /\ b \in Nat /\ i \in 0 .. 127 /\ msg \in Messages
      /\ ArgsTexts' /\ ArgsNumbers(b, i)' => ArgsInv'
  BY <1>1, <1>p, ArgsFrame
<1>3. ends \in Seq(Byte) /\ Len(ends) = 2
  <2>1. Arguments!NUL \in Byte
    BY DEF Arguments!NUL, Byte
  <2> HIDE DEF Byte
  <2> QED BY <2>1
<1> HIDE DEF ends
<1>7. to \in Seq(Byte)
  BY <1>2 DEF ArgsTexts
<1>4. to \in Seq(Byte) /\ to \o ends \in Seq(Byte) /\ Len(to \o ends) = Len(to) + 2
  <2> HIDE DEF Byte
  <2>1. \A s \in Seq(Byte), t \in Seq(Byte) : s \o t \in Seq(Byte) /\ Len(s \o t) = Len(s) + Len(t)
    OBVIOUS
  <2>2. to \o ends \in Seq(Byte) /\ Len(to \o ends) = Len(to) + Len(ends)
    BY <1>3, <1>7, <2>1
  <2> QED BY <1>3, <1>7, <2>2
<1>5. ArgsTexts'
  BY <1>1, <1>2, <1>4 DEF ArgsTexts
<1>6. ArgsNumbers(b, i)'
  BY <1>1, <1>2, <1>4 DEF ArgsNumbers
<1> QED BY <1>2, <1>5, <1>6

LEMMA ArgumentKeeps ==
    ASSUME Arguments!ParseArgsAssumption, ArgsInv, Arguments!Argument
    PROVE  ArgsInv'
<1>p. PICK b, i : b = Buffer /\ i = Len(Arguments!CommandLine) + msg.beyond
  OBVIOUS
<1> DEFINE I == {j \in 1 .. Len(rest) : rest[j] = Arguments!NUL}
           n == IF I # {} THEN Arguments!Min(I) ELSE 0
           word == SubSeq(rest, 1, n - 1)
<1>1. /\ parsing = "collect"
      /\ argv' = Append(argv, word) /\ rest' = SubSeq(rest, n + 1, Len(rest))
      /\ count' = count + 4
      /\ msg' = msg /\ pad' = pad /\ parsing' = parsing /\ at' = at /\ left' = left /\ to' = to
      /\ inQuote' = inQuote /\ environ' = environ
  BY DEF Arguments!Argument, Arguments!SelectInSeq
<1>2. /\ ArgsTexts /\ ArgsNumbers(b, i) /\ b \in Nat /\ i \in 0 .. 127 /\ msg \in Messages
      /\ ArgsTexts' /\ ArgsNumbers(b, i)' => ArgsInv'
  BY <1>1, <1>p, ArgsFrame
<1>3. rest \in Seq(Byte) /\ argv \in Seq(Seq(Byte))
  BY <1>2 DEF ArgsTexts
<1>4. n \in 0 .. Len(rest)
  <2>1. CASE I = {}
    BY <1>3, <2>1
  <2>2. CASE I # {}
    <3>1. I \in SUBSET Nat
      OBVIOUS
    <3>2. \E m0 \in I : \A j \in I : m0 =< j
      <4> HIDE DEF I
      <4> QED BY <2>2, <3>1, LeastNumber
    <3>3. Arguments!Min(I) \in I
      <4> DEFINE least == CHOOSE x \in I : \A y \in I : x =< y
      <4>1. least \in I
        <5> HIDE DEF I
        <5> QED BY <3>2
      <4> QED BY <4>1 DEF Arguments!Min
    <3>4. n = Arguments!Min(I)
      BY <2>2
    <3> HIDE DEF n
    <3> QED BY <3>3, <3>4
  <2> QED BY <2>1, <2>2
<1> HIDE DEF n
<1>5. word \in Seq(Byte) /\ SubSeq(rest, n + 1, Len(rest)) \in Seq(Byte)
  BY <1>3, <1>4
<1> HIDE DEF word
<1>6. argv' \in Seq(Seq(Byte)) /\ Len(argv') = Len(argv) + 1
  BY <1>1, <1>3, <1>5
<1>7. ArgsTexts'
  BY <1>1, <1>2, <1>5, <1>6 DEF ArgsTexts
<1>8. Len(argv) \in Nat /\ Len(environ) \in Nat
  BY <1>2 DEF ArgsTexts
<1>9. ArgsNumbers(b, i)'
  BY <1>1, <1>2, <1>6, <1>8 DEF ArgsNumbers
<1> QED BY <1>2, <1>7, <1>9

LEMMA LastKeep ==
    ASSUME Arguments!ParseArgsAssumption, ArgsInv,
           Arguments!ArgumentsEnd \/ Arguments!EmptyArgument \/ Arguments!Returns
    PROVE  ArgsInv'
<1>p. PICK b, i : b = Buffer /\ i = Len(Arguments!CommandLine) + msg.beyond
  OBVIOUS
<1> DEFINE none == <<>>
           k == Head(nulls) + 1
<1>1. /\ \/ parsing = "collect" /\ parsing' = "nulls" /\ argv' = argv /\ count' = count
         \/ /\ parsing = "nulls" /\ parsing' = parsing /\ count' = count
            /\ argv' = argv \/ argv' = [argv EXCEPT ![k] = none]
         \/ parsing = "nulls" /\ parsing' = "done" /\ argv' = argv /\ count' = count + 4
      /\ msg' = msg /\ pad' = pad /\ at' = at /\ left' = left /\ to' = to /\ rest' = rest
      /\ inQuote' = inQuote /\ environ' = environ
  BY DEF Arguments!ArgumentsEnd, Arguments!EmptyArgument, Arguments!Returns
<1>2. /\ ArgsTexts /\ ArgsNumbers(b, i) /\ b \in Nat /\ i \in 0 .. 127 /\ msg \in Messages
      /\ ArgsTexts' /\ ArgsNumbers(b, i)' => ArgsInv'
  BY <1>1, <1>p, ArgsFrame
<1>3. argv \in Seq(Seq(Byte)) /\ Len(argv) \in Nat /\ Len(environ) \in Nat
  BY <1>2 DEF ArgsTexts
<1>4. none \in Seq(Byte)
  OBVIOUS
<1> HIDE DEF none, k
<1>5. argv' \in Seq(Seq(Byte)) /\ Len(argv') = Len(argv)
  <2> DEFINE T == Seq(Byte)
  <2>1. argv \in Seq(T) /\ none \in T
    BY <1>3, <1>4
  <2> HIDE DEF T
  <2> DEFINE n == Len(argv)
             a == [j \in 1 .. n |-> IF j = k THEN none ELSE argv[j]]
  <2>3. [argv EXCEPT ![k] = none] = a
    BY <2>1
  <2>4. n \in Nat /\ \A j \in 1 .. n : argv[j] \in T
    BY <2>1
  <2>5. a \in [1 .. n -> T]
    <3> HIDE DEF n
    <3> QED BY <2>1, <2>4
  <2>6. a \in Seq(T) /\ Len(a) = n
    <3> HIDE DEF n, a
    <3> QED BY <2>4, <2>5
  <2>2. [argv EXCEPT ![k] = none] \in Seq(T) /\ Len([argv EXCEPT ![k] = none]) = Len(argv)
    <3> HIDE DEF a
    <3> QED BY <2>3, <2>6
  <2> QED BY <1>1, <2>1, <2>2 DEF T
<1>6. ArgsTexts'
  BY <1>1, <1>2, <1>5 DEF ArgsTexts
<1>7. ArgsNumbers(b, i)'
  BY <1>1, <1>2, <1>3, <1>5 DEF ArgsNumbers
<1> QED BY <1>2, <1>6, <1>7

LEMMA ArgsKeep ==
    ASSUME Arguments!ParseArgsAssumption, ArgsInv, Arguments!Next
    PROVE  ArgsInv'
BY EnvStringKeeps, FoundArgvKeeps, EnvEndsKeeps, WordKeeps, QuoteCharKeeps, OtherCharKeeps,
   CommandLineEndsKeeps, ArgumentKeeps, LastKeep DEF Arguments!Next

\* What ArgsInv says.
LEMMA ArgsEnough ==
    ASSUME Arguments!ParseArgsAssumption, ArgsInv
    PROVE  /\ Arguments!StaysInBuffer /\ Arguments!CountCovers /\ Arguments!TypeOK
           /\ parsing = "done" => argv \in Seq(Seq(Byte)) /\ Len(argv) >= 1
<1> DEFINE i == Len(Arguments!CommandLine) + msg.beyond
           used == Arguments!Used
<1>1. /\ msg \in Messages /\ environ \in Seq(Seq(Byte)) /\ argv \in Seq(Seq(Byte)) /\ to \in Seq(Byte)
      /\ pad \in 1 .. 4 /\ Arguments!TypeOK /\ count \in Nat
      /\ parsing = "done" => count >= 12 + 4 * Len(environ) + 4 * Len(argv) + Buffer
      /\ parsing # "env" => Len(argv) >= 1
      /\ msg.way # "ARGV" => Len(to) <= i + 2
  BY DEF ArgsInv, Arguments!TypeOK
<1>2. Buffer \in Nat /\ (msg.way # "ARGV" => Buffer = Arguments!BufferSize(i))
  BY <1>1, BufferIs DEF Buffer
<1>3. i \in Nat /\ i + 2 <= Arguments!BufferSize(i) /\ Arguments!BufferSize(i) \in Nat
  <2>1. i \in 0 .. 127
    BY <1>1, BufferIs
  <2> HIDE DEF i
  <2>2. i \in Nat
    BY <2>1
  <2> QED BY <2>2, RoomInBuffer
<1>4. Arguments!StaysInBuffer
  <2> HIDE DEF i
  <2>1. Len(to) \in Nat
    BY <1>1
  <2>2. msg.way # "ARGV" => Len(to) <= Arguments!BufferSize(i)
    BY <1>1, <1>3, <2>1
  <2> QED BY <2>2 DEF Arguments!StaysInBuffer, i
<1>5. used = pad + 4 * (Len(environ) + 1) + 4 * (Len(argv) + 1) + Buffer
  BY DEF Arguments!Used, Buffer
<1> HIDE DEF used
<1>6. Arguments!CountCovers
  <2>1. Len(environ) \in Nat /\ Len(argv) \in Nat
    BY <1>1
  <2>2. parsing = "done" => count >= used
    BY <1>1, <1>2, <1>5, <2>1
  <2> QED BY <2>2 DEF Arguments!CountCovers, used
<1> QED BY <1>1, <1>4, <1>6

-----------------------------------------------------------------------------
(* The parts of a process: while one runs, the others stand still. *)

LEMMA ArgumentsStand ==
    ASSUME ArgsInv, UNCHANGED argumentVars
    PROVE  ArgsInv'
<1>1. /\ msg' = msg /\ pad' = pad /\ parsing' = parsing /\ at' = at /\ left' = left /\ to' = to
      /\ inQuote' = inQuote /\ rest' = rest /\ environ' = environ /\ argv' = argv /\ count' = count
  BY DEF argumentVars
<1>2. Arguments!CommandLine' = Arguments!CommandLine
  BY <1>1 DEF Arguments!CommandLine
<1>3. Buffer' = Buffer
  BY <1>1, <1>2 DEF Buffer
<1>4. Arguments!TypeOK'
  BY <1>1 DEF ArgsInv, Arguments!TypeOK
<1> QED BY <1>1, <1>2, <1>3, <1>4 DEF ArgsInv

LEMMA StackStands ==
    ASSUME StartupInv, UNCHANGED vars
    PROVE  StartupInv'
  BY DEF StartupInv, vars

LEMMA OptionsStand ==
    ASSUME OptionsInv, UNCHANGED optionVars
    PROVE  OptionsInv'
<1>1. /\ line' = line /\ quiet' = quiet /\ optind' = optind /\ letter' = letter
      /\ reports' = reports /\ taken' = taken /\ over' = over
  BY DEF optionVars
<1>2. Options!Element' = Options!Element
  BY <1>1 DEF Options!Element
<1>3. Options!IllegalMet' <=> Options!IllegalMet
  BY <1>1 DEF Options!IllegalMet
<1>4. Options!TypeOK'
  BY <1>1, <1>2 DEF OptionsInv, Options!TypeOK
<1>5. Options!Consumed' = Options!Consumed
  BY <1>1, <1>2 DEF Options!Consumed
<1>6. Options!EverythingReportedOnce' <=> Options!EverythingReportedOnce
  BY <1>1, <1>3, <1>5 DEF Options!EverythingReportedOnce
<1>7. Options!StopsAtOperand' <=> Options!StopsAtOperand
  BY <1>1, <1>2, <1>3 DEF Options!StopsAtOperand
<1>8. LineReported' <=> LineReported
  BY <1>6, <1>7 DEF LineReported
<1> QED BY <1>1, <1>2, <1>3, <1>4, <1>8 DEF OptionsInv

LEMMA EndStands ==
    ASSUME EndInv, UNCHANGED endVars
    PROVE  EndInv'
<1>1. /\ array' = array /\ _at_exit' = _at_exit /\ _num_at_exit' = _num_at_exit
      /\ phase' = phase /\ registered' = registered /\ ran' = ran
  BY DEF endVars
<1>2. Ending!Nested' <=> Ending!Nested
  BY <1>1 DEF Ending!Nested
<1>3. Ending!TypeOK'
  BY <1>1 DEF EndInv, Ending!TypeOK
<1> QED BY <1>1, <1>2, <1>3 DEF EndInv

\* exit: what EndInv knows holds whatever the other parts do.
LEMMA EndInvariant ==
    ProcessSpec => []EndInv
<1>1. ProcessInit => EndInv
  BY EndStarts DEF ProcessInit
<1>2. EndInv /\ [ProcessNext]_processVars => EndInv'
  <2> SUFFICES ASSUME EndInv, [ProcessNext]_processVars PROVE EndInv'
    OBVIOUS
  <2>1. CASE End
    BY <2>1, EndKeeps, ProcessAssumption DEF End
  <2>2. CASE ~End
    <3>1. UNCHANGED endVars
      BY <2>2 DEF ProcessNext, ParseArguments, GetStack, MakeStack, CallMain, ReadOptions,
                  processVars
    <3> QED BY <3>1, EndStands
  <2> QED BY <2>1, <2>2
<1> QED BY <1>1, <1>2, PTL DEF ProcessSpec

\* atexit and exit: for every set of functions, every choice of those that exit again,
\* and every number of them, the array holds what exit has still to call, and what was
\* registered has run when the program ends.
THEOREM RegisteredFunctionsRun ==
    ProcessSpec => []AllHaveRun
BY EndInvariant, EndEnough, PTL

\* parseargs and getopt, and the way from the one to the other: the arguments are
\* complete when main gets them, and getopt has not begun before.
ArgumentsInv ==
    /\ part \in {"arguments", "stack", "options", "end"}
    /\ followed \in BOOLEAN
    /\ ArgsInv /\ OptionsInv
    /\ part \in {"arguments", "stack"} => OptionsFresh
    /\ followed /\ part # "arguments" => parsing = "done"

LEMMA ArgumentsInvStarts ==
    ASSUME ProcessInit
    PROVE  ArgumentsInv
<1>1. /\ part \in {"arguments", "stack", "options", "end"}
      /\ part # "arguments" => followed = FALSE
      /\ followed \in BOOLEAN
  BY DEF ProcessInit
<1>2. ArgsInv
  BY ArgsStart, ProcessAssumption DEF ProcessInit, ArgumentsIdle
<1>3. Options!Init /\ (line = <<>> \/ line \in Lines)
  BY DEF ProcessInit, OptionsIdle, Options!Init
<1>4. line \in Seq(Seq(Byte))
  <2>1. CASE line = <<>>
    BY <2>1
  <2>2. CASE line \in Lines
    <3>1. line \in Seq(Seq(STRING))
      BY <2>2, ProcessAssumption DEF Options!GetOptAssumption
    <3> QED BY <3>1, OfBytes
  <2> QED BY <1>3, <2>1, <2>2
<1>5. OptionsFresh
  BY <1>3, <1>4 DEF Options!Init, OptionsFresh
<1> QED BY <1>1, <1>2, <1>5, OptionsStart DEF ArgumentsInv

LEMMA FreshStands ==
    ASSUME OptionsFresh, UNCHANGED optionVars
    PROVE  OptionsFresh'
  BY DEF OptionsFresh, optionVars

LEMMA FreshOptions == OptionsFresh => OptionsInv
  BY OptionsStart

LEMMA ArgumentsInvKept ==
    ArgumentsInv /\ [ProcessNext]_processVars => ArgumentsInv'
<1> SUFFICES ASSUME ArgumentsInv, [ProcessNext]_processVars PROVE ArgumentsInv'
  OBVIOUS
<1>0. ArgsInv /\ OptionsInv
  BY DEF ArgumentsInv
<1>1. CASE ParseArguments
  <2>1. ArgsInv'
    BY <1>0, <1>1, ArgsKeep, ProcessAssumption DEF ParseArguments
  <2>2. /\ UNCHANGED <<part, followed>> /\ UNCHANGED optionVars /\ part = "arguments"
    BY <1>1 DEF ParseArguments
  <2>3. OptionsInv' /\ OptionsFresh'
    BY <1>0, <2>2, OptionsStand, FreshStands DEF ArgumentsInv
  <2> QED BY <2>1, <2>2, <2>3 DEF ArgumentsInv
<1>2. CASE GetStack
  <2>1. /\ part = "arguments" /\ parsing = "done" /\ part' = "stack" /\ followed' = followed
        /\ UNCHANGED argumentVars /\ UNCHANGED optionVars /\ parsing' = parsing
    BY <1>2 DEF GetStack, argumentVars
  <2>2. ArgsInv' /\ OptionsInv' /\ OptionsFresh'
    BY <1>0, <2>1, ArgumentsStand, OptionsStand, FreshStands DEF ArgumentsInv
  <2> QED BY <2>1, <2>2 DEF ArgumentsInv
<1>3. CASE CallMain
  <2>1. /\ part = "stack" /\ followed /\ followed' = followed /\ part' = "options"
        /\ line' = Tail(argv) /\ UNCHANGED <<optind, letter, reports, taken, over>>
        /\ UNCHANGED argumentVars /\ parsing' = parsing
    BY <1>3 DEF CallMain, argumentVars
  <2>2. parsing = "done" /\ OptionsFresh /\ ArgsInv'
    BY <1>0, <2>1, ArgumentsStand DEF ArgumentsInv
  <2>3. argv \in Seq(Seq(Byte)) /\ Len(argv) >= 1
    BY <1>0, <2>2, ArgsEnough, ProcessAssumption
  <2>4. line' \in Seq(Seq(Byte))
    <3> DEFINE T == Seq(Byte)
    <3>1. argv \in Seq(T)
      BY <2>3
    <3> HIDE DEF T
    <3>2. Tail(argv) \in Seq(T)
      BY <2>3, <3>1
    <3> QED BY <2>1, <3>2 DEF T
  <2>5. OptionsFresh'
    BY <2>1, <2>2, <2>4 DEF OptionsFresh
  <2>6. OptionsInv'
    <3>1. OptionsFresh' => OptionsInv'
      BY FreshOptions, PTL
    <3> QED BY <2>5, <3>1
  <2> QED BY <2>1, <2>2, <2>6 DEF ArgumentsInv
<1>4. CASE ReadOptions
  <2>1. /\ part = "options" /\ UNCHANGED <<part, followed>> /\ UNCHANGED argumentVars
        /\ parsing' = parsing /\ Options!Next
    BY <1>4 DEF ReadOptions, argumentVars
  <2>2. ArgsInv' /\ OptionsInv'
    BY <1>0, <2>1, ArgumentsStand, OptionsKeep, ProcessAssumption
  <2> QED BY <2>1, <2>2 DEF ArgumentsInv
<1>5. CASE MakeStack \/ End \/ UNCHANGED processVars
  <2>1. /\ UNCHANGED <<part, followed>> /\ UNCHANGED argumentVars /\ UNCHANGED optionVars
        /\ parsing' = parsing
    BY <1>5 DEF MakeStack, End, processVars, argumentVars
  <2>2. ArgsInv' /\ OptionsInv' /\ (OptionsFresh => OptionsFresh')
    BY <1>0, <2>1, ArgumentsStand, OptionsStand, FreshStands
  <2> QED BY <2>1, <2>2 DEF ArgumentsInv
<1> QED BY <1>1, <1>2, <1>3, <1>4, <1>5 DEF ProcessNext

LEMMA ArgumentsInvariant ==
    ProcessSpec => []ArgumentsInv
<1>1. ProcessInit => ArgumentsInv
  BY ArgumentsInvStarts
<1> QED BY <1>1, ArgumentsInvKept, PTL DEF ProcessSpec

LEMMA ArgumentsEnough ==
    ArgumentsInv => LineReported
BY OptionsEnough DEF ArgumentsInv

\* getopt: whatever the line, the options and the letters, and whichever call it is,
\* what getopt has reported is what stands in the line before the place where it is.
THEOREM LinesReported ==
    ProcessSpec => []LineReported
BY ArgumentsInvariant, ArgumentsEnough, PTL

\* _crtinit, and the way from parseargs to it: the bytes in use are those of the image
\* and those that parseargs has counted.
StackInv ==
    /\ StartupInv
    /\ part = "arguments" => pc = "crt0" /\ m = 0
    /\ followed /\ part # "arguments" => tpa.prog = Image + count

LEMMA StackInvStarts ==
    ASSUME ProcessInit
    PROVE  StackInv
<1>1. Init /\ (part # "arguments" => followed = FALSE)
  BY DEF ProcessInit, StackIdle
<1>2. StartupInv
  BY <1>1, StartupAssumption DEF Init, StartupInv
<1> QED BY <1>1, <1>2 DEF StackInv, Init

LEMMA StackInvKept ==
    ASSUME Modest
    PROVE  StackInv /\ [ProcessNext]_processVars => StackInv'
<1> SUFFICES ASSUME StackInv, [ProcessNext]_processVars PROVE StackInv'
  OBVIOUS
<1>0. StartupInv
  BY DEF StackInv
<1>1. CASE ParseArguments
  <2>1. UNCHANGED <<part, followed>> /\ UNCHANGED vars /\ part = "arguments"
    BY <1>1 DEF ParseArguments
  <2>2. StartupInv' /\ pc' = pc /\ m' = m
    BY <1>0, <2>1, StackStands DEF vars
  <2> QED BY <2>1, <2>2 DEF StackInv
<1>2. CASE GetStack
  <2>1. /\ part = "arguments" /\ part' = "stack" /\ count' = count
        /\ tpa' \in Tpas /\ tpa'.prog = Image + count /\ asked' \in Asked /\ stksize' = asked'
        /\ sp' = tpa'.sp /\ pc' = pc /\ m' = m /\ pc = "crt0" /\ m = 0
    BY <1>2 DEF GetStack, argumentVars, StackInv
  <2>2. asked' \in Sizes
    BY <2>1, ProcessAssumption
  <2>3. sp' \in Int /\ stksize' \in Int
    <3>1. tpa' \in [bp : Nat, hitpa : Nat, prog : Nat, sp : Nat] /\ asked' \in -Half .. Half - 1
      BY <2>1, <2>2, StartupAssumption
    <3> QED BY <2>1, <3>1
  <2>4. StartupInv'
    BY <2>1, <2>2, <2>3 DEF StartupInv
  <2> QED BY <2>1, <2>4 DEF StackInv
<1>3. CASE MakeStack
  <2>1. /\ part = "stack" /\ UNCHANGED <<part, followed>> /\ count' = count /\ Next /\ tpa' = tpa
    BY <1>3 DEF MakeStack, argumentVars, Next, PrivateStack, Measure, Size, Shrink
  <2>2. StartupInv'
    BY <1>0, <2>1, StartupKeeps
  <2> QED BY <2>1, <2>2 DEF StackInv
<1>4. CASE CallMain \/ ReadOptions \/ End \/ UNCHANGED processVars
  <2>1. /\ UNCHANGED vars /\ count' = count /\ followed' = followed
        /\ (part # "arguments" /\ part' # "arguments") \/ part' = part
    BY <1>4 DEF CallMain, ReadOptions, End, processVars, argumentVars
  <2>2. StartupInv' /\ pc' = pc /\ m' = m /\ tpa' = tpa
    BY <1>0, <2>1, StackStands DEF vars
  <2> QED BY <2>1, <2>2 DEF StackInv
<1> QED BY <1>1, <1>2, <1>3, <1>4 DEF ProcessNext

LEMMA StackInvariant ==
    ASSUME Modest
    PROVE  ProcessSpec => []StackInv
<1>1. ProcessInit => StackInv
  BY StackInvStarts
<1>2. StackInv /\ [ProcessNext]_processVars => StackInv'
  BY StackInvKept
<1> QED BY <1>1, <1>2, PTL DEF ProcessSpec

LEMMA StackEnough ==
    ASSUME Modest
    PROVE  StackInv => StackFits
<1>1. StackInv => StartupInv
  BY DEF StackInv
<1> QED BY <1>1, StartupEnough DEF StackFits

\* _crtinit, in the life of a program: it gets a stack that fits, whatever parseargs has
\* put behind the bss.
THEOREM ProcessStackFits ==
    ASSUME Modest
    PROVE  ProcessSpec => []StackFits
BY StackInvariant, StackEnough, PTL

LEMMA BufferEnough ==
    ASSUME Modest
    PROVE  ArgumentsInv /\ StackInv /\ EndInv => StaysInBuffer
<1> SUFFICES ASSUME ArgumentsInv, StackInv, EndInv PROVE StaysInBuffer
  OBVIOUS
<1>1. Arguments!StaysInBuffer /\ Arguments!CountCovers /\ Arguments!TypeOK
  BY ArgsEnough, ProcessAssumption DEF ArgumentsInv
<1>2. KeepsWhatItNeeds /\ TypeOK
  BY StartupEnough DEF StackInv
<1>3. ProcessTypeOK
  BY <1>1, <1>2, OptionsEnough DEF ProcessTypeOK, ArgumentsInv, EndInv
<1>4. StackAboveArguments
  <2> SUFFICES ASSUME part # "arguments", followed, pc = "main"
               PROVE  m - stksize >= Image + Arguments!Used
    BY DEF StackAboveArguments
  <2> DEFINE used == Arguments!Used
  <2>1. parsing = "done" /\ tpa.prog = Image + count
    BY DEF ArgumentsInv, StackInv
  <2>2. count >= used /\ count \in Nat
    BY <1>1, <2>1 DEF Arguments!CountCovers, Arguments!TypeOK
  <2>3. m = Up4(tpa.prog) + stksize /\ stksize \in Int
    BY <1>2 DEF KeepsWhatItNeeds, TypeOK
  <2>4. used \in Int
    <3>1. /\ msg \in Messages /\ pad \in 1 .. 4 /\ Len(environ) \in Nat /\ Len(argv) \in Nat
      BY DEF ArgumentsInv, ArgsInv
    <3>2. Buffer \in Nat
      BY <3>1, BufferIs, ProcessAssumption
    <3>3. used = pad + 4 * (Len(environ) + 1) + 4 * (Len(argv) + 1) + Buffer
      BY DEF Arguments!Used, Buffer
    <3> HIDE DEF used
    <3> QED BY <3>1, <3>2, <3>3
  <2> HIDE DEF used
  <2>5. Image \in Nat
    BY ProcessAssumption
  <2>6. tpa.prog \in Int /\ tpa.prog <= Up4(tpa.prog) /\ Up4(tpa.prog) \in Int
    <3>1. Image + count \in Int
      BY <2>2, <2>5
    <3> QED BY <2>1, <3>1, RoundsUp
  <2>7. m - stksize >= Image + used
    BY <2>1, <2>2, <2>3, <2>4, <2>5, <2>6
  <2> QED BY <2>7 DEF used
<1> QED BY <1>1, <1>3, <1>4 DEF StaysInBuffer

\* parseargs: whatever a caller means, and whichever way it goes, the command line stays in
\* its buffer, and the stack of the program is put above all that parseargs has written.
THEOREM ArgumentsStayInBuffer ==
    ASSUME Modest
    PROVE  ProcessSpec => []StaysInBuffer
<1>1. ProcessSpec => []ArgumentsInv
  BY ArgumentsInvariant
<1>2. ProcessSpec => []StackInv
  BY StackInvariant
<1>3. ProcessSpec => []EndInv
  BY EndInvariant
<1>4. ArgumentsInv /\ StackInv /\ EndInv => StaysInBuffer
  BY BufferEnough
<1> QED BY <1>1, <1>2, <1>3, <1>4, PTL

-----------------------------------------------------------------------------
(* parseargs: what the caller means *)

\* The arguments as they are sent, each with its end, and the NULs that follow them.
GivenOf(w) == [k \in DOMAIN w.args |-> IF w.args[k] = <<>> THEN <<Arguments!Blank>> ELSE w.args[k]]
EndedOf(w) == [k \in DOMAIN w.args |-> Arguments!Ends(GivenOf(w)[k])]
Nuls(n) == [k \in 1 .. n |-> Arguments!NUL]

\* A word of the command line, with the blanks in front of it; what stands behind the kth.
WordOf(w, k) == IF w.way = "quoted" THEN Arguments!Quoted(w.args[k]) ELSE w.args[k]
PiecesOf(w) == [k \in DOMAIN w.args |-> IF k = 1 THEN WordOf(w, k)
                                        ELSE Arguments!Blanks(w.between) \o WordOf(w, k)]
After(w, k) == JoinedBehind(PiecesOf(w), k) \o Arguments!Blanks(w.after)

\* What parseargs has still to read of the command line.
Ahead == Rest(Arguments!CommandLine, at)

\* A file name as it stands between its quotes.
Doubles(s) == [k \in DOMAIN s |-> IF s[k] = Arguments!Quote THEN <<Arguments!Quote, Arguments!Quote>>
                                  ELSE <<s[k]>>]
Doubled(s) == Joined(Doubles(s))

\* u of the argument behind the kth is in the buffer, v is not.
Divides(k, u, v) == u \o v = msg.args[k + 1] /\ to = JoinedUpto(EndedOf(msg), k) \o u

InWord(k, u, v) ==
    Divides(k, u, v) /\ Ahead = v \o After(msg, k + 1)
InName(k, u, v) ==
    Divides(k, u, v) /\ Ahead = Doubled(v) \o <<Arguments!Quote>> \o After(msg, k + 1)
BeforeName(k) ==
    to = JoinedUpto(EndedOf(msg), k) /\ Ahead = WordOf(msg, k + 1) \o After(msg, k + 1)

\* All arguments are in the buffer, and some NULs behind them; only blanks follow.
PastWords ==
    /\ \E n \in 0 .. Len(to) : to = Joined(EndedOf(msg)) \o Nuls(n)
    /\ \E n \in 0 .. 127 : Ahead = Arguments!Blanks(n)

PlainSent ==
    /\ \/ \E k \in 0 .. Len(msg.args) - 1 :
            /\ msg.way = "words"
            /\ \E p \in 0 .. Len(msg.args[k + 1]) :
                 InWord(k, SubSeq(msg.args[k + 1], 1, p),
                           SubSeq(msg.args[k + 1], p + 1, Len(msg.args[k + 1])))
       \/ PastWords /\ Ahead = <<>>
QuotedSent ==
    \/ /\ inQuote
       /\ \E k \in 0 .. Len(msg.args) - 1 : \E p \in 0 .. Len(msg.args[k + 1]) :
            InName(k, SubSeq(msg.args[k + 1], 1, p),
                      SubSeq(msg.args[k + 1], p + 1, Len(msg.args[k + 1])))
    \/ ~inQuote /\ \E k \in 0 .. Len(msg.args) - 1 : BeforeName(k)
    \/ ~inQuote /\ PastWords

\* The arguments that are collected, and the strings that are not.
CollectSent ==
    \E k \in 0 .. Len(msg.args) :
        /\ Len(argv) = k + 1
        /\ \A j \in 1 .. k : argv[j + 1] = GivenOf(msg)[j]
        /\ \E n \in 1 .. Len(rest) : rest = JoinedBehind(EndedOf(msg), k) \o Nuls(n)

\* Every empty argument is empty, or in the list; a number that is no argument's is the
\* last in the list.
NullsSent ==
    /\ Len(argv) = Len(msg.args) + 1
    /\ nulls \in Seq(Nat \ {0})
    /\ \A k \in DOMAIN msg.args :
         IF msg.args[k] = <<>> THEN argv[k + 1] = <<>> \/ \E q \in 1 .. Len(nulls) : nulls[q] = k
         ELSE argv[k + 1] = msg.args[k] /\ \A q \in 1 .. Len(nulls) : nulls[q] # k
    /\ \A q \in 1 .. Len(nulls) : nulls[q] > Len(msg.args) => q = Len(nulls)

\* The strings of each variable; those that are still to be read.
StringsOf(v) ==
    IF v.kind = "split" THEN << Append(v.name, "="), v.value >> ELSE << Arguments!Meant(v) >>
StringsFor(w) == [k \in DOMAIN w.env |-> StringsOf(w.env[k])]
MeantBy(w) == [k \in DOMAIN w.env |-> Arguments!Meant(w.env[k])]
AheadInEnv == Rest(Arguments!EnvStrings, at)

EnvSent ==
    \/ \E k \in 0 .. Len(msg.env) :
         /\ environ = SubSeq(MeantBy(msg), 1, k)
         /\ AheadInEnv = JoinedBehind(StringsFor(msg), k)
    \/ \E k \in 0 .. Len(msg.env) - 1 :
         /\ msg.env[k + 1].kind = "split"
         /\ environ = Append(SubSeq(MeantBy(msg), 1, k), Append(msg.env[k + 1].name, "="))
         /\ AheadInEnv = <<msg.env[k + 1].value>> \o JoinedBehind(StringsFor(msg), k + 1)

\* What has been read of the caller's texts is where it belongs, and what has not is
\* still ahead.
SentInv ==
    /\ parsing = "env" => EnvSent /\ inQuote = FALSE /\ nulls = <<>>
    /\ parsing # "env" => environ = MeantBy(msg)
    /\ parsing \in {"plain", "quoted"} =>
         /\ nulls = <<>> /\ Len(argv) = 1 /\ msg.way # "ARGV"
         /\ Ahead # <<>> => Len(Ahead) <= left
         /\ parsing = "plain" => PlainSent
         /\ parsing = "quoted" => msg.way = "quoted" /\ QuotedSent
    /\ parsing = "collect" =>
         CollectSent /\ nulls = IF msg.way = "ARGV" THEN Arguments!NullList ELSE <<>>
    /\ parsing = "nulls" => NullsSent
    /\ parsing = "done" =>
         /\ Len(argv) = Len(msg.args) + 1
         /\ \A k \in DOMAIN msg.args : argv[k + 1] = msg.args[k]

LEMMA BytesAre ==
    /\ Arguments!NUL \in Byte /\ Arguments!Blank \in Byte /\ Arguments!Quote \in Byte /\ "=" \in Byte
    /\ Arguments!NUL # Arguments!Blank /\ Arguments!NUL # Arguments!Quote
    /\ Arguments!Blank # Arguments!Quote
  BY DEF Arguments!NUL, Arguments!Blank, Arguments!Quote, Byte

\* The strings of the environment of w, variable by variable, and what they mean.
LEMMA EnvIs ==
    ASSUME Arguments!ParseArgsAssumption, NEW w \in Messages
    PROVE  /\ w.env \in Seq([name : Seq(STRING), value : Seq(STRING), kind : {"set", "split", "bare"}])
           /\ Len(w.env) \in Nat /\ DOMAIN w.env = 1 .. Len(w.env)
           /\ StringsFor(w) \in Seq(Seq(Seq(Byte))) /\ Len(StringsFor(w)) = Len(w.env)
           /\ MeantBy(w) \in Seq(Seq(Byte)) /\ Len(MeantBy(w)) = Len(w.env)
           /\ \A k \in 1 .. Len(w.env) :
                /\ w.env[k].name \in Seq(Byte) /\ w.env[k].value \in Seq(Byte)
                /\ w.env[k].kind \in {"set", "split", "bare"}
                /\ MeantBy(w)[k] = Arguments!Meant(w.env[k]) /\ Arguments!Meant(w.env[k]) \in Seq(Byte)
                /\ StringsFor(w)[k] = StringsOf(w.env[k])
<1> DEFINE V == [name : Seq(STRING), value : Seq(STRING), kind : {"set", "split", "bare"}]
           n == Len(w.env)
           sf == StringsFor(w)
           mb == MeantBy(w)
<1>1. w.env \in Seq(V)
  BY MessageIs DEF MessageSet
<1>2. n \in Nat /\ DOMAIN w.env = 1 .. n /\ \A k \in 1 .. n : w.env[k] \in V
  <2> HIDE DEF V
  <2> QED BY <1>1
<1>3. ASSUME NEW k \in 1 .. n
      PROVE  /\ w.env[k].name \in Seq(Byte) /\ w.env[k].value \in Seq(Byte)
             /\ w.env[k].kind \in {"set", "split", "bare"}
             /\ Arguments!Meant(w.env[k]) \in Seq(Byte)
             /\ StringsOf(w.env[k]) \in Seq(Seq(Byte))
  <2> DEFINE v == w.env[k]
             name == v.name
             value == v.value
             eq == <<"=">>
             me == Arguments!Meant(v)
  <2>1. v \in V
    BY <1>2
  <2>2. v.name \in Seq(STRING) /\ v.value \in Seq(STRING) /\ v.kind \in {"set", "split", "bare"}
    <3> HIDE DEF v
    <3> QED BY <2>1
  <2>3. name \in Seq(Byte) /\ value \in Seq(Byte)
    BY <2>2, OfBytes
  <2>4. eq \in Seq(Byte)
    BY BytesAre
  <2>5. me = IF v.kind = "bare" THEN name ELSE name \o eq \o value
    BY DEF Arguments!Meant
  <2>6. StringsOf(v) = IF v.kind = "split" THEN << Append(name, "="), value >> ELSE << me >>
    BY DEF StringsOf
  <2> HIDE DEF v, name, value, eq, me
  <2>7. name \o eq \o value \in Seq(Byte)
    BY <2>3, <2>4
  <2>8. Append(name, "=") \in Seq(Byte)
    BY <2>3, BytesAre
  <2>9. me \in Seq(Byte)
    BY <2>3, <2>5, <2>7
  <2>10. StringsOf(v) \in Seq(Seq(Byte))
    <3> DEFINE B == Seq(Byte)
               a == Append(name, "=")
    <3>1. a \in B /\ value \in B /\ me \in B
      BY <2>3, <2>8, <2>9
    <3> HIDE DEF B, a
    <3>2. <<a, value>> \in Seq(B) /\ <<me>> \in Seq(B)
      BY <3>1
    <3> QED BY <2>6, <3>2 DEF a, B
  <2> QED BY <2>2, <2>3, <2>9, <2>10 DEF name, value, me, v
<1>4. /\ sf = [k \in 1 .. n |-> StringsOf(w.env[k])]
      /\ mb = [k \in 1 .. n |-> Arguments!Meant(w.env[k])]
  BY <1>2 DEF StringsFor, MeantBy
<1> HIDE DEF sf, mb, n, V
<1>5. sf \in Seq(Seq(Seq(Byte))) /\ Len(sf) = n
  <2> DEFINE T == Seq(Seq(Byte))
  <2>1. \A k \in 1 .. n : StringsOf(w.env[k]) \in T
    BY <1>3
  <2> HIDE DEF T
  <2>2. sf \in Seq(T) /\ Len(sf) = n
    BY <1>2, <1>4, <2>1
  <2> QED BY <2>2 DEF T
<1>6. mb \in Seq(Seq(Byte)) /\ Len(mb) = n
  <2> DEFINE T == Seq(Byte)
  <2>1. \A k \in 1 .. n : Arguments!Meant(w.env[k]) \in T
    BY <1>3
  <2> HIDE DEF T
  <2>2. mb \in Seq(T) /\ Len(mb) = n
    BY <1>2, <1>4, <2>1
  <2> QED BY <2>2 DEF T
<1> QED BY <1>1, <1>2, <1>3, <1>4, <1>5, <1>6 DEF sf, mb, n, V

LEMMA EnvStringsJoin ==
    Arguments!EnvStrings = Joined(StringsFor(msg))
  BY DEF Arguments!EnvStrings, StringsFor, StringsOf, Arguments!FlattenSeq, Joined

\* What a step keeps of what was sent.
LEMMA SentFrame ==
    ASSUME msg' = msg
    PROVE  /\ EndedOf(msg)' = EndedOf(msg) /\ GivenOf(msg)' = GivenOf(msg)
           /\ MeantBy(msg)' = MeantBy(msg) /\ StringsFor(msg)' = StringsFor(msg)
           /\ PiecesOf(msg)' = PiecesOf(msg)
           /\ Arguments!CommandLine' = Arguments!CommandLine
           /\ Arguments!EnvStrings' = Arguments!EnvStrings
           /\ Arguments!NullList' = Arguments!NullList
  BY DEF EndedOf, GivenOf, MeantBy, StringsFor, StringsOf, PiecesOf, WordOf,
         Arguments!Ends, Arguments!Meant, Arguments!CommandLine, Arguments!EnvStrings,
         Arguments!NullList

\* parseargs joins the value that is a string of its own to its name, and nothing else.
LEMMA EnvStringSent ==
    ASSUME Arguments!ParseArgsAssumption, Arguments!Sendable(msg), msg \in Messages,
           at \in Nat \ {0}, EnvSent, Arguments!EnvString
    PROVE  EnvSent'
<1> DEFINE E == Arguments!EnvStrings
           s == E[at]
           SF == StringsFor(msg)
           M == MeantBy(msg)
           e == Len(msg.env)
           B == Seq(Byte)
<1>1. /\ e \in Nat /\ SF \in Seq(Seq(B)) /\ Len(SF) = e /\ M \in Seq(B) /\ Len(M) = e
      /\ DOMAIN msg.env = 1 .. e
      /\ \A k \in 1 .. e :
           /\ msg.env[k].name \in Seq(Byte) /\ msg.env[k].value \in Seq(Byte)
           /\ msg.env[k].kind \in {"set", "split", "bare"}
           /\ M[k] = Arguments!Meant(msg.env[k]) /\ Arguments!Meant(msg.env[k]) \in Seq(Byte)
           /\ SF[k] = StringsOf(msg.env[k])
  BY EnvIs
<1>2. E \in Seq(B)
  BY EnvStringsAre
<1>3. /\ at' = at + 1 /\ msg' = msg
      /\ environ' = IF Arguments!Joins(s)
                    THEN Append(Arguments!Front(environ), Arguments!Last(environ) \o s)
                    ELSE Append(environ, s)
      /\ at <= Len(E) /\ E' = E /\ SF' = SF /\ M' = M
  BY SentFrame DEF Arguments!EnvString
<1>4. AheadInEnv = SubSeq(E, at, Len(E)) /\ AheadInEnv' = SubSeq(E, at + 1, Len(E))
  BY <1>3 DEF AheadInEnv, Rest
<1>5. ASSUME NEW x \in B, NEW Y \in Seq(B), AheadInEnv = <<x>> \o Y
      PROVE  s = x /\ AheadInEnv' = Y
  <2> HIDE DEF B, E
  <2>1. E \in Seq(B)
    BY <1>2
  <2>2. Rest(E, at) = <<x>> \o Y
    BY <1>4, <1>5 DEF Rest
  <2>3. Rest(E, at + 1) = Y /\ E[at] = x
    BY ONLY at \in Nat \ {0}, x \in B, Y \in Seq(B), <2>1, <2>2, RestBegins
  <2> QED BY <1>4, <2>3 DEF Rest
<1>6. ~(AheadInEnv = <<>>)
  <2> DEFINE r == SubSeq(E, at, Len(E))
  <2> HIDE DEF E, B
  <2>1. r \in Seq(B) /\ Len(r) > 0
    BY <1>2, <1>3
  <2>2. AheadInEnv = r
    BY <1>4
  <2> HIDE DEF r
  <2>3. ~(r = <<>>)
    BY <2>1
  <2> QED BY ONLY <2>2, <2>3
<1> DEFINE JB(k) == JoinedBehind(SF, k)
<1>7. /\ \A k \in 0 .. e : JB(k) \in Seq(B)
      /\ JB(e) = <<>>
      /\ \A k \in 0 .. e - 1 : JB(k) = SF[k + 1] \o JB(k + 1)
  <2> HIDE DEF B, SF
  <2> QED BY <1>1, JoinedInTwo
<1>8. ASSUME NEW k \in 0 .. e - 1
      PROVE  /\ SubSeq(M, 1, k) \in Seq(B) /\ Len(SubSeq(M, 1, k)) = k
             /\ Append(SubSeq(M, 1, k), M[k + 1]) = SubSeq(M, 1, k + 1)
             /\ k > 0 => SubSeq(M, 1, k)[k] = M[k]
  <2> HIDE DEF B, M
  <2> QED BY <1>1, FrontGrows
<1> DEFINE first(k) == /\ environ = SubSeq(M, 1, k)
                       /\ AheadInEnv = JB(k)
           second(k) == /\ msg.env[k + 1].kind = "split"
                        /\ environ = Append(SubSeq(M, 1, k), Append(msg.env[k + 1].name, "="))
                        /\ AheadInEnv = <<msg.env[k + 1].value>> \o JB(k + 1)
           first1(k) == /\ environ' = SubSeq(M, 1, k)
                        /\ AheadInEnv' = JB(k)
           second1(k) == /\ msg.env[k + 1].kind = "split"
                         /\ environ' = Append(SubSeq(M, 1, k), Append(msg.env[k + 1].name, "="))
                         /\ AheadInEnv' = <<msg.env[k + 1].value>> \o JB(k + 1)
<1>9. (\E k \in 0 .. e : first(k)) \/ (\E k \in 0 .. e - 1 : second(k))
  BY DEF EnvSent
<1>10. (\E k \in 0 .. e : first1(k)) \/ (\E k \in 0 .. e - 1 : second1(k)) => EnvSent'
  BY <1>3 DEF EnvSent
<1>11. ASSUME NEW k \in 1 .. e
       PROVE  /\ msg.env[k].kind = "split" => "=" \notin Arguments!ToSet(msg.env[k].value)
              /\ msg.env[k].kind = "bare" /\ k > 1 =>
                   ~(Arguments!Last(Arguments!Meant(msg.env[k - 1])) = "=")
  BY <1>1 DEF Arguments!Sendable
<1> HIDE DEF JB, M, SF, E, e
<1>12. ASSUME NEW k \in 0 .. e, first(k), k # e, msg.env[k + 1].kind # "split"
       PROVE  first1(k + 1)
  <2> DEFINE v == msg.env[k + 1]
             me == Arguments!Meant(v)
  <2>1. k \in 0 .. e - 1 /\ k + 1 \in 1 .. e /\ k + 1 \in 0 .. e /\ (k + 1) - 1 = k
    BY <1>1, <1>12
  <2>2. SF[k + 1] = <<me>> /\ me \in B /\ M[k + 1] = me
    BY <1>1, <1>12, <2>1 DEF StringsOf
  <2>3. AheadInEnv = <<me>> \o JB(k + 1) /\ JB(k + 1) \in Seq(B)
    BY <1>7, <1>12, <2>1, <2>2
  <2>4. s = me /\ AheadInEnv' = JB(k + 1)
    BY <1>5, <2>2, <2>3
  <2>5. ~Arguments!Joins(s)
    <3> SUFFICES ASSUME Arguments!Joins(s) PROVE FALSE
      OBVIOUS
    <3>1. /\ "=" \notin Arguments!ToSet(me) /\ Len(environ) >= 1
          /\ Arguments!Last(Arguments!Last(environ)) = "="
      BY <2>4 DEF Arguments!Joins
    <3>2. v.kind = "bare"
      <4> SUFFICES ASSUME v.kind # "bare" PROVE "=" \in Arguments!ToSet(me)
        BY <3>1
      <4> DEFINE name == v.name
                 eq == <<"=">>
                 value == v.value
                 front == name \o eq
      <4>1. name \in Seq(Byte) /\ value \in Seq(Byte) /\ eq \in Seq(Byte) /\ Len(eq) = 1 /\ eq[1] = "="
        BY <1>1, <2>1, BytesAre
      <4>2. me = front \o value
        BY DEF Arguments!Meant
      <4> HIDE DEF me, v, name, value, eq
      <4>a. "=" \in Byte
        BY BytesAre
      <4>b. front = Append(name, "=")
        BY ONLY <4>1, <4>a, EndsWith DEF eq
      <4>3. front \in Seq(Byte) /\ Len(front) = Len(name) + 1 /\ front[Len(name) + 1] = "="
        BY ONLY <4>1, <4>a, <4>b, EndsWith
      <4> HIDE DEF front
      <4>4. Len(name) + 1 \in DOMAIN me /\ me[Len(name) + 1] = "="
        BY <4>1, <4>2, <4>3
      <4> QED BY <4>4 DEF Arguments!ToSet
    <3>3. environ = SubSeq(M, 1, k) /\ Len(environ) = k
      BY <1>8, <1>12, <2>1
    <3>4. k > 0 /\ k \in 1 .. e
      BY <2>1, <3>1, <3>3
    <3>5. Arguments!Last(environ) = Arguments!Meant(msg.env[k])
      <4>1. environ[k] = M[k]
        BY <1>8, <2>1, <3>3, <3>4
      <4> QED BY <1>1, <3>3, <3>4, <4>1 DEF Arguments!Last
    <3>6. k + 1 > 1
      BY <3>4
    <3> QED BY <1>11, <2>1, <3>1, <3>2, <3>5, <3>6
  <2>6. environ' = Append(SubSeq(M, 1, k), M[k + 1])
    BY <1>3, <1>12, <2>2, <2>4, <2>5
  <2> QED BY <1>8, <2>1, <2>4, <2>6
<1>13. ASSUME NEW k \in 0 .. e, first(k), k # e, msg.env[k + 1].kind = "split"
       PROVE  second1(k)
  <2> DEFINE v == msg.env[k + 1]
             nm == Append(v.name, "=")
             val == v.value
  <2>1. k \in 0 .. e - 1 /\ k + 1 \in 1 .. e /\ k + 1 \in 0 .. e
    BY <1>1, <1>13
  <2>2. v.name \in Seq(Byte) /\ val \in B
    BY <1>1, <2>1
  <2>3. nm \in B /\ "=" \in Arguments!ToSet(nm)
    <3>1. nm \in Seq(Byte) /\ Len(nm) = Len(v.name) + 1 /\ nm[Len(v.name) + 1] = "=" /\ Len(v.name) \in Nat
      BY SMTT(60), <2>2, BytesAre
    <3> HIDE DEF nm
    <3>2. Len(v.name) + 1 \in DOMAIN nm
      BY <3>1
    <3> QED BY <3>1, <3>2 DEF Arguments!ToSet
  <2>4. SF[k + 1] = <<nm, val>>
    BY <1>1, <1>13, <2>1 DEF StringsOf
  <2>5. JB(k + 1) \in Seq(B) /\ AheadInEnv = <<nm, val>> \o JB(k + 1)
    BY <1>7, <1>13, <2>1, <2>4
  <2> DEFINE jb == JB(k + 1)
             Y == <<val>> \o jb
  <2>6. Y \in Seq(B) /\ AheadInEnv = <<nm>> \o Y
    <3>1. jb \in Seq(B) /\ AheadInEnv = <<nm, val>> \o jb /\ nm \in B /\ val \in B
      BY <2>2, <2>3, <2>5
    <3> HIDE DEF nm, val, B, jb
    <3>2. <<nm, val>> \o jb = <<nm>> \o (<<val>> \o jb) /\ <<val>> \o jb \in Seq(B)
      BY ONLY <3>1, TwoAhead
    <3> QED BY ONLY <3>1, <3>2
  <2> HIDE DEF Y, nm, val, jb
  <2>7. s = nm /\ AheadInEnv' = Y
    BY <1>5, <2>3, <2>6
  <2>8. ~Arguments!Joins(s)
    BY <2>3, <2>7 DEF Arguments!Joins
  <2>9. environ' = Append(SubSeq(M, 1, k), nm)
    BY <1>3, <1>13, <2>7, <2>8
  <2> QED BY <1>13, <2>7, <2>9 DEF nm, val, Y, jb
<1>14. ASSUME NEW k \in 0 .. e - 1, second(k)
       PROVE  first1(k + 1)
  <2> DEFINE v == msg.env[k + 1]
             name == v.name
             nm == Append(v.name, "=")
             val == v.value
             F == SubSeq(M, 1, k)
  <2>1. k + 1 \in 1 .. e /\ k + 1 \in 0 .. e
    BY <1>1
  <2>2. name \in Seq(Byte) /\ val \in B /\ v.kind = "split"
    BY <1>1, <1>14, <2>1
  <2>3. s = val /\ AheadInEnv' = JB(k + 1)
    BY <1>5, <1>7, <1>14, <2>1, <2>2
  <2>4. F \in Seq(B) /\ Len(F) = k /\ Append(F, M[k + 1]) = SubSeq(M, 1, k + 1)
    BY <1>8
  <2>5. nm \in B /\ Arguments!Last(nm) = "="
    <3>1. nm \in Seq(Byte) /\ Len(nm) = Len(v.name) + 1 /\ nm[Len(v.name) + 1] = "="
      BY <2>2, BytesAre
    <3> HIDE DEF nm
    <3> QED BY <3>1 DEF Arguments!Last
  <2> DEFINE G == Append(F, nm)
  <2>6. environ = G
    BY <1>14
  <2> HIDE DEF F
  <2>7. Arguments!Last(G) = nm /\ Arguments!Front(G) = F /\ Len(G) >= 1
    <3> HIDE DEF B, nm
    <3>1. G \in Seq(B) /\ Len(G) = k + 1 /\ G[k + 1] = nm /\ \A i \in 1 .. k : G[i] = F[i]
      BY <2>4, <2>5
    <3> HIDE DEF G
    <3> DEFINE f == SubSeq(G, 1, k)
    <3>2. f \in Seq(B) /\ Len(f) = k /\ \A i \in 1 .. k : f[i] = G[i]
      BY <3>1
    <3> HIDE DEF f
    <3>3. f = F
      BY <2>4, <3>1, <3>2, SameSequence
    <3>4. (k + 1) - 1 = k
      OBVIOUS
    <3> QED BY <3>1, <3>3, <3>4 DEF Arguments!Last, Arguments!Front, f
  <2>8. Arguments!Joins(s)
    <3>1. "=" \notin Arguments!ToSet(val)
      BY <1>11, <2>1, <2>2
    <3> HIDE DEF nm, val, G
    <3> QED BY <2>3, <2>5, <2>6, <2>7, <3>1 DEF Arguments!Joins
  <2>9. nm \o val = M[k + 1]
    <3> DEFINE eq == <<"=">>
    <3>1. M[k + 1] = name \o eq \o val
      BY <1>1, <2>1, <2>2 DEF Arguments!Meant
    <3>2. nm = name \o eq
      <4>1. "=" \in Byte /\ name \in Seq(Byte)
        BY <2>2, BytesAre
      <4> HIDE DEF name
      <4>2. Append(name, "=") = name \o <<"=">>
        BY ONLY <4>1, EndsWith
      <4> QED BY ONLY <4>2 DEF nm, eq, name
    <3> QED BY <3>1, <3>2
  <2>10. environ' = Append(F, M[k + 1])
    <3> HIDE DEF G, nm, val
    <3> QED BY <1>3, <2>3, <2>6, <2>7, <2>8, <2>9
  <2> QED BY <2>3, <2>4, <2>10 DEF F
<1>15. \A k \in 0 .. e : first(k) => k # e
  BY <1>6, <1>7
<1> HIDE DEF first1, second1, first, second
<1>16. \A k \in 0 .. e : k # e => k + 1 \in 0 .. e /\ k \in 0 .. e - 1
  BY <1>1
<1>17. \A k \in 0 .. e - 1 : k + 1 \in 0 .. e
  BY <1>1
<1> QED BY <1>9, <1>10, <1>12, <1>13, <1>14, <1>15, <1>16, <1>17 DEF e

\* parseargs begins with all the strings of the environment, and has read them all when
\* none is left.
LEMMA EnvSentStarts ==
    ASSUME Arguments!ParseArgsAssumption, Arguments!Init
    PROVE  EnvSent
<1> DEFINE E == Arguments!EnvStrings
           SF == StringsFor(msg)
           M == MeantBy(msg)
           B == Seq(Byte)
<1>1. msg \in Messages /\ at = 1 /\ environ = <<>>
  BY DEF Arguments!Init
<1>2. E \in Seq(B) /\ E = Joined(SF)
  BY <1>1, EnvStringsAre, EnvStringsJoin
<1>3. SF \in Seq(Seq(B)) /\ M \in Seq(B) /\ Len(msg.env) \in Nat
  BY <1>1, EnvIs
<1> HIDE DEF E, SF, M, B
<1>4. JoinedBehind(SF, 0) = Joined(SF)
  BY <1>3, JoinedInTwo
<1>5. AheadInEnv = E
  <2>1. SubSeq(E, 1, Len(E)) = E
    BY <1>2, PartOfAll
  <2> QED BY <1>1, <2>1 DEF AheadInEnv, Rest, E
<1>6. SubSeq(M, 1, 0) = <<>>
  BY <1>3
<1>7. 0 \in 0 .. Len(msg.env)
  BY <1>3
<1> QED BY <1>1, <1>2, <1>4, <1>5, <1>6, <1>7 DEF EnvSent, SF, M

LEMMA EnvSentEnds ==
    ASSUME Arguments!ParseArgsAssumption, msg \in Messages, at \in Nat \ {0}, EnvSent,
           at > Len(Arguments!EnvStrings)
    PROVE  environ = MeantBy(msg)
<1> DEFINE E == Arguments!EnvStrings
           SF == StringsFor(msg)
           M == MeantBy(msg)
           B == Seq(Byte)
           e == Len(msg.env)
<1>1. E \in Seq(B)
  BY EnvStringsAre
<1>2. /\ SF \in Seq(Seq(B)) /\ Len(SF) = e /\ M \in Seq(B) /\ Len(M) = e /\ e \in Nat
      /\ \A k \in 1 .. e : /\ SF[k] = StringsOf(msg.env[k]) /\ Arguments!Meant(msg.env[k]) \in B
                           /\ msg.env[k].name \in B /\ msg.env[k].value \in B
  BY EnvIs
<1>3. AheadInEnv = <<>>
  <2> HIDE DEF B, E
  <2>1. SubSeq(E, at, Len(E)) = <<>>
    BY <1>1 DEF E
  <2> QED BY <2>1 DEF AheadInEnv, Rest, E
<1> HIDE DEF E
<1>4. /\ \A k \in 0 .. e : JoinedBehind(SF, k) \in Seq(B)
      /\ \A k \in 0 .. e - 1 : JoinedBehind(SF, k) = SF[k + 1] \o JoinedBehind(SF, k + 1)
  <2> HIDE DEF B, SF
  <2> QED BY <1>2, JoinedInTwo
<1>5. SubSeq(M, 1, e) = M
  <2> HIDE DEF M, B, e
  <2> QED BY <1>2, PartOfAll
<1>6. CASE \E k \in 0 .. e : environ = SubSeq(M, 1, k) /\ AheadInEnv = JoinedBehind(SF, k)
  <2>1. PICK k \in 0 .. e : environ = SubSeq(M, 1, k) /\ AheadInEnv = JoinedBehind(SF, k)
    BY <1>6
  <2>2. ASSUME k # e PROVE FALSE
    <3> DEFINE v == msg.env[k + 1]
               jb == JoinedBehind(SF, k + 1)
               me == Arguments!Meant(v)
               nm == Append(v.name, "=")
               val == v.value
    <3>1. k \in 0 .. e - 1 /\ k + 1 \in 1 .. e /\ k + 1 \in 0 .. e
      BY <1>2, <2>2
    <3>2. <<>> = SF[k + 1] \o jb /\ jb \in Seq(B)
      BY <1>3, <1>4, <2>1, <3>1
    <3>3. SF[k + 1] = IF v.kind = "split" THEN <<nm, val>> ELSE <<me>>
      BY <1>2, <3>1 DEF StringsOf
    <3>4. nm \in B /\ val \in B /\ me \in B
      BY <1>2, <3>1, BytesAre
    <3> HIDE DEF nm, val, me, jb, B, v, SF
    <3>5. <<val>> \o jb \in Seq(B) /\ <<nm, val>> \o jb = <<nm>> \o (<<val>> \o jb)
      BY SMTT(60), <3>2, <3>4, TwoAhead
    <3>6. <<nm, val>> \o jb # <<>>
      BY <3>4, <3>5, NotEmpty
    <3>7. <<me>> \o jb # <<>>
      BY <3>2, <3>4, NotEmpty
    <3> QED BY <3>2, <3>3, <3>6, <3>7
  <2> QED BY <1>5, <2>1, <2>2
<1>7. CASE \E k \in 0 .. e - 1 : AheadInEnv = <<msg.env[k + 1].value>> \o JoinedBehind(SF, k + 1)
  <2>1. PICK k \in 0 .. e - 1 : AheadInEnv = <<msg.env[k + 1].value>> \o JoinedBehind(SF, k + 1)
    BY <1>7
  <2> DEFINE val == msg.env[k + 1].value
             jb == JoinedBehind(SF, k + 1)
  <2>3. k + 1 \in 1 .. e /\ k + 1 \in 0 .. e
    BY <1>2
  <2>4. val \in B
    BY <1>2, <2>3
  <2>5. jb \in Seq(B)
    BY <1>4, <2>3
  <2>2. val \in B /\ jb \in Seq(B) /\ <<>> = <<val>> \o jb
    BY <1>3, <2>1, <2>4, <2>5
  <2> HIDE DEF val, jb, B
  <2> QED BY <2>2, NotEmpty
<1> QED BY <1>6, <1>7 DEF EnvSent

\* The arguments of w: as they are sent, with their ends, and as words of a command line.
LEMMA ArgsAre ==
    ASSUME Arguments!ParseArgsAssumption, NEW w \in Messages
    PROVE  /\ w.args \in Seq(Seq(Byte)) /\ Len(w.args) \in Nat /\ DOMAIN w.args = 1 .. Len(w.args)
           /\ GivenOf(w) \in Seq(Seq(Byte)) /\ Len(GivenOf(w)) = Len(w.args)
           /\ EndedOf(w) \in Seq(Seq(Byte)) /\ Len(EndedOf(w)) = Len(w.args)
           /\ PiecesOf(w) \in Seq(Seq(Byte)) /\ Len(PiecesOf(w)) = Len(w.args)
           /\ \A k \in 1 .. Len(w.args) :
                /\ w.args[k] \in Seq(Byte) /\ WordOf(w, k) \in Seq(Byte)
                /\ GivenOf(w)[k] \in Seq(Byte)
                /\ GivenOf(w)[k] = IF w.args[k] = <<>> THEN <<Arguments!Blank>> ELSE w.args[k]
                /\ EndedOf(w)[k] = Append(GivenOf(w)[k], Arguments!NUL)
                /\ PiecesOf(w)[k] = IF k = 1 THEN WordOf(w, k)
                                    ELSE Arguments!Blanks(w.between) \o WordOf(w, k)
<1> DEFINE B == Seq(Byte)
           n == Len(w.args)
           blank == <<Arguments!Blank>>
           given(k) == IF w.args[k] = <<>> THEN blank ELSE w.args[k]
           gap == Arguments!Blanks(w.between)
           piece(k) == IF k = 1 THEN WordOf(w, k) ELSE gap \o WordOf(w, k)
           ended(k) == Append(given(k), Arguments!NUL)
<1>1. w.args \in Seq(B) /\ w.between \in Nat
  <2>1. w.args \in Seq(Seq(STRING)) /\ w.between \in Nat
    BY MessageIs DEF MessageSet
  <2> QED BY <2>1, OfBytes
<1>2. n \in Nat /\ DOMAIN w.args = 1 .. n /\ \A k \in 1 .. n : w.args[k] \in B
  <2> HIDE DEF B
  <2> QED BY <1>1
<1>3. gap \in B
  BY <1>1, BlanksAre
<1>4. blank \in B
  BY BytesAre
<1>5. \A k \in 1 .. n : WordOf(w, k) \in B /\ given(k) \in B
  <2>1. \A k \in 1 .. n : Arguments!Quoted(w.args[k]) \in B
    BY <1>2, QuotedIs
  <2> HIDE DEF B, blank
  <2> QED BY <1>2, <1>4, <2>1 DEF WordOf
<1>6. \A k \in 1 .. n : ended(k) \in B
  <2>1. Arguments!NUL \in Byte
    BY BytesAre
  <2> HIDE DEF given
  <2> QED BY <1>5, <2>1
<1>7. \A k \in 1 .. n : piece(k) \in B
  <2>1. ASSUME NEW k \in 1 .. n PROVE gap \o WordOf(w, k) \in B
    <3> DEFINE wo == WordOf(w, k)
    <3>1. wo \in Seq(Byte) /\ gap \in Seq(Byte)
      BY <1>3, <1>5
    <3> HIDE DEF wo, gap
    <3>2. gap \o wo \in Seq(Byte)
      BY <3>1, JoinIs
    <3> QED BY <3>2 DEF wo
  <2> QED BY <1>5, <2>1
<1>8. /\ GivenOf(w) = [k \in 1 .. n |-> given(k)]
      /\ PiecesOf(w) = [k \in 1 .. n |-> piece(k)]
      /\ EndedOf(w) = [k \in 1 .. n |-> Append(GivenOf(w)[k], Arguments!NUL)]
  BY <1>2 DEF GivenOf, PiecesOf, EndedOf, Arguments!Ends
<1> DEFINE ge == GivenOf(w)
           pi == PiecesOf(w)
           en == EndedOf(w)
<1>11. en = [k \in 1 .. n |-> ended(k)]
  <2> HIDE DEF given, n
  <2>1. \A k \in 1 .. n : GivenOf(w)[k] = given(k)
    BY <1>8
  <2> QED BY <1>8, <2>1
<1> HIDE DEF B, n, given, piece, ended, ge, pi, en
<1>9. ge \in Seq(B) /\ Len(ge) = n /\ \A k \in 1 .. n : ge[k] = given(k)
  BY <1>2, <1>5, <1>8 DEF ge
<1>10. pi \in Seq(B) /\ Len(pi) = n /\ \A k \in 1 .. n : pi[k] = piece(k)
  BY <1>2, <1>7, <1>8 DEF pi
<1>12. en \in Seq(B) /\ Len(en) = n /\ \A k \in 1 .. n : en[k] = ended(k)
  BY <1>2, <1>6, <1>11
<1> QED BY <1>1, <1>2, <1>5, <1>9, <1>10, <1>12 DEF B, n, given, piece, ended, ge, pi, en

\* The command line begins with blanks, and the first argument follows.
LEMMA CommandLineStarts ==
    ASSUME Arguments!ParseArgsAssumption, msg \in Messages, msg.way # "ARGV"
    PROVE  /\ After(msg, 0) \in Seq(Byte)
           /\ Arguments!CommandLine = Arguments!Blanks(msg.before) \o After(msg, 0)
<1> DEFINE P == PiecesOf(msg)
           j == Joined(P)
           before == Arguments!Blanks(msg.before)
           after == Arguments!Blanks(msg.after)
<1>1. msg.before \in Nat /\ msg.after \in Nat
  BY MessageIs DEF MessageSet
<1>2. before \in Seq(Byte) /\ after \in Seq(Byte)
  BY <1>1, BlanksAre
<1>3. P \in Seq(Seq(Byte))
  BY ArgsAre
<1>4. j \in Seq(Byte) /\ JoinedBehind(P, 0) = j
  BY <1>3, JoinedInTwo, JoinedMore
<1>5. Arguments!CommandLine = before \o j \o after
  BY DEF Arguments!CommandLine, Arguments!CommandLineOf, PiecesOf, WordOf, Arguments!FlattenSeq, Joined
<1>6. After(msg, 0) = j \o after
  BY <1>4 DEF After
<1> HIDE DEF before, j, after
<1>7. (before \o j) \o after = before \o (j \o after) /\ j \o after \in Seq(Byte)
  <2>1. (before \o j) \o after = before \o (j \o after)
    BY <1>2, <1>4, JoinAssociates
  <2> QED BY <1>2, <1>4, <2>1, JoinIs
<1> QED BY <1>5, <1>6, <1>7 DEF before

\* What stands behind an argument: blanks and the next one, or blanks.
LEMMA AfterIs ==
    ASSUME Arguments!ParseArgsAssumption, msg \in Messages
    PROVE  /\ \A k \in 0 .. Len(msg.args) : After(msg, k) \in Seq(Byte)
           /\ After(msg, Len(msg.args)) = Arguments!Blanks(msg.after)
           /\ Len(msg.args) > 0 => After(msg, 0) = WordOf(msg, 1) \o After(msg, 1)
           /\ \A k \in 1 .. Len(msg.args) - 1 :
                /\ After(msg, k) = Arguments!Blanks(msg.between)
                                     \o (WordOf(msg, k + 1) \o After(msg, k + 1))
                /\ WordOf(msg, k + 1) \o After(msg, k + 1) \in Seq(Byte)
<1> DEFINE P == PiecesOf(msg)
           n == Len(msg.args)
           after == Arguments!Blanks(msg.after)
           gap == Arguments!Blanks(msg.between)
           jb(k) == JoinedBehind(P, k)
           wo(k) == WordOf(msg, k)
<1>1. msg.between \in Nat /\ msg.after \in Nat
  BY MessageIs DEF MessageSet
<1>2. gap \in Seq(Byte) /\ after \in Seq(Byte)
  BY <1>1, BlanksAre
<1>3. /\ P \in Seq(Seq(Byte)) /\ Len(P) = n /\ n \in Nat
      /\ \A k \in 1 .. n : wo(k) \in Seq(Byte) /\ P[k] = IF k = 1 THEN wo(k) ELSE gap \o wo(k)
  BY ArgsAre
<1> HIDE DEF P
<1>4. /\ jb(n) = <<>> /\ \A k \in 0 .. n : jb(k) \in Seq(Byte)
      /\ \A k \in 0 .. n - 1 : jb(k) = P[k + 1] \o jb(k + 1)
  BY <1>3, JoinedInTwo
<1>5. \A k \in 0 .. n : After(msg, k) = jb(k) \o after
  BY DEF After, P
<1> HIDE DEF jb, wo, gap, after, n
<1>6. \A k \in 0 .. n : jb(k) \o after \in Seq(Byte)
  BY <1>2, <1>4, JoinIs
<1>7. After(msg, n) = after
  <2>1. <<>> \o after = after
    BY <1>2, EmptyJoin
  <2>2. n \in 0 .. n
    BY <1>3
  <2>3. After(msg, n) = jb(n) \o after
    BY <1>5, <2>2
  <2> QED BY <1>4, <2>1, <2>3
<1>8. ASSUME NEW k \in 0 .. n - 1
      PROVE  After(msg, k) = P[k + 1] \o After(msg, k + 1) /\ P[k + 1] \in Seq(Byte)
  <2>1. k \in 0 .. n /\ k + 1 \in 0 .. n /\ k + 1 \in 1 .. Len(P)
    BY <1>3
  <2>2. P[k + 1] \in Seq(Byte)
    <3> DEFINE B == Seq(Byte)
    <3> HIDE DEF B
    <3>1. P \in Seq(B) => P[k + 1] \in B
      BY <2>1
    <3> QED BY <1>3, <3>1 DEF B
  <2>3. jb(k) = P[k + 1] \o jb(k + 1) /\ jb(k + 1) \in Seq(Byte)
    BY <1>4, <2>1
  <2> DEFINE x == P[k + 1]
             y == jb(k + 1)
  <2>4. (x \o y) \o after = x \o (y \o after)
    <3>1. x \in Seq(Byte) /\ y \in Seq(Byte)
      BY <2>2, <2>3
    <3> HIDE DEF x, y
    <3> QED BY SMTT(60), <1>2, <3>1, JoinAssociates
  <2>5. After(msg, k + 1) = y \o after
    BY <1>5, <2>1
  <2> HIDE DEF x, y
  <2>6. After(msg, k) = (x \o y) \o after
    BY <1>5, <2>1, <2>3 DEF x, y
  <2> QED BY <2>2, <2>4, <2>5, <2>6 DEF x
<1>9. n > 0 => After(msg, 0) = wo(1) \o After(msg, 1)
  <2>1. SUFFICES ASSUME n > 0 PROVE After(msg, 0) = wo(1) \o After(msg, 1)
    OBVIOUS
  <2>2. 0 \in 0 .. n - 1 /\ 1 \in 1 .. n /\ 0 + 1 = 1
    BY <1>3, <2>1
  <2>3. After(msg, 0) = P[0 + 1] \o After(msg, 0 + 1)
    BY <1>8, <2>2
  <2> QED BY <1>3, <2>2, <2>3
<1>10. ASSUME NEW k \in 1 .. n - 1
       PROVE  /\ After(msg, k) = gap \o (wo(k + 1) \o After(msg, k + 1))
              /\ wo(k + 1) \o After(msg, k + 1) \in Seq(Byte)
  <2>1. k \in 0 .. n - 1 /\ k + 1 \in 1 .. n /\ k + 1 \in 0 .. n /\ k + 1 # 1
    BY <1>3
  <2> DEFINE x == wo(k + 1)
             y == After(msg, k + 1)
  <2>2. x \in Seq(Byte) /\ y \in Seq(Byte) /\ After(msg, k) = (gap \o x) \o y
    <3>1. y \in Seq(Byte)
      BY <1>5, <1>6, <2>1
    <3>2. x \in Seq(Byte) /\ P[k + 1] = gap \o x
      BY <1>3, <2>1
    <3>3. After(msg, k) = P[k + 1] \o y
      BY <1>8, <2>1
    <3> QED BY <3>1, <3>2, <3>3
  <2> HIDE DEF x, y
  <2>3. (gap \o x) \o y = gap \o (x \o y)
    BY SMTT(60), <1>2, <2>2, JoinAssociates
  <2>4. x \o y \in Seq(Byte)
    BY <2>2, JoinIs
  <2> QED BY <2>2, <2>3, <2>4 DEF x, y
<1> QED BY <1>5, <1>6, <1>7, <1>9, <1>10 DEF wo, gap, after, n

LEMMA BlanksHave ==
    ASSUME NEW d \in Nat
    PROVE  /\ Arguments!Blanks(d) \in Seq(Byte) /\ Len(Arguments!Blanks(d)) = d
           /\ \A i \in 1 .. d : Arguments!Blanks(d)[i] = Arguments!Blank
           /\ d = 0 => Arguments!Blanks(d) = <<>>
           /\ d > 0 => /\ Arguments!Blanks(d) = <<Arguments!Blank>> \o Arguments!Blanks(d - 1)
                       /\ Arguments!Blanks(d - 1) \in Seq(Byte)
<1> DEFINE bl(n) == Arguments!Blanks(n)
<1>1. ASSUME NEW n \in Nat
      PROVE  bl(n) \in Seq(Byte) /\ Len(bl(n)) = n /\ \A i \in 1 .. n : bl(n)[i] = Arguments!Blank
  <2>1. bl(n) = [k \in 1 .. n |-> Arguments!Blank]
    BY DEF Arguments!Blanks
  <2>2. bl(n) \in Seq(Byte)
    BY BlanksAre
  <2> HIDE DEF bl
  <2> QED BY <2>1, <2>2
<1>2. ASSUME d = 0 PROVE bl(d) = <<>>
  <2>1. bl(d) \in Seq(Byte) /\ Len(bl(d)) = 0
    BY <1>1, <1>2
  <2> HIDE DEF bl
  <2> QED BY <2>1
<1>3. ASSUME d > 0 PROVE bl(d) = <<Arguments!Blank>> \o bl(d - 1) /\ bl(d - 1) \in Seq(Byte)
  <2> DEFINE one == <<Arguments!Blank>>
             r == bl(d - 1)
             s == one \o r
  <2>1. d - 1 \in Nat
    BY <1>3
  <2>2. r \in Seq(Byte) /\ Len(r) = d - 1 /\ \A i \in 1 .. d - 1 : r[i] = Arguments!Blank
    BY <1>1, <2>1
  <2>3. one \in Seq(Byte) /\ Len(one) = 1 /\ one[1] = Arguments!Blank
    BY BytesAre
  <2> HIDE DEF one, r, bl
  <2>4. /\ s \in Seq(Byte) /\ Len(s) = 1 + (d - 1)
        /\ \A i \in 1 .. 1 + (d - 1) : s[i] = IF i <= 1 THEN one[i] ELSE r[i - 1]
    <3>1. /\ s \in Seq(Byte) /\ Len(s) = Len(one) + Len(r)
          /\ \A i \in 1 .. Len(one) + Len(r) : s[i] = IF i <= Len(one) THEN one[i] ELSE r[i - Len(one)]
      BY <2>2, <2>3, JoinIs
    <3> HIDE DEF s
    <3> QED BY <2>2, <2>3, <3>1
  <2> HIDE DEF s
  <2>5. ASSUME NEW i \in 1 .. d PROVE s[i] = bl(d)[i]
    <3>1. bl(d)[i] = Arguments!Blank
      BY <1>1
    <3>2. CASE i = 1
      BY <2>3, <2>4, <3>1, <3>2
    <3>3. CASE i # 1
      <4>1. i - 1 \in 1 .. d - 1 /\ ~(i <= 1) /\ i \in 1 .. 1 + (d - 1)
        BY <3>3
      <4> QED BY <2>2, <2>4, <3>1, <4>1
    <3> QED BY <3>2, <3>3
  <2>6. 1 + (d - 1) = d
    OBVIOUS
  <2>7. s = bl(d)
    BY <1>1, <2>4, <2>5, <2>6, SameSequence
  <2> QED BY <2>2, <2>7 DEF s, one, r
<1> QED BY <1>1, <1>2, <1>3

\* What stands in the command line from z on.
From(z) == Rest(Arguments!CommandLine, z)

LEMMA FromIs ==
    ASSUME Arguments!ParseArgsAssumption, msg \in Messages, NEW z \in Nat \ {0}
    PROVE  /\ From(z) \in Seq(Byte) /\ Len(From(z)) \in Nat
           /\ \A i \in Nat : Arguments!Char(z + i) = IF i < Len(From(z)) THEN From(z)[i + 1]
                                                      ELSE Arguments!NUL
<1> DEFINE T == Arguments!CommandLine
           n == Len(T)
           R == SubSeq(T, z, n)
<1>1. T \in Seq(Byte)
  BY CommandLineIs DEF Arguments!CommandLine
<1>2. \A i \in Nat : Arguments!Char(z + i) = IF z + i <= n THEN T[z + i] ELSE Arguments!NUL
  BY DEF Arguments!Char
<1>3. From(z) = R
  BY DEF From, Rest
<1> HIDE DEF T
<1>4. n \in Nat
  BY <1>1
<1>5. /\ R \in Seq(Byte) /\ Len(R) = IF z <= n THEN n - z + 1 ELSE 0
      /\ \A i \in 1 .. Len(R) : R[i] = T[z + i - 1]
  BY <1>1
<1> HIDE DEF R, n
<1>6. ASSUME NEW i \in Nat
      PROVE  (IF z + i <= n THEN T[z + i] ELSE Arguments!NUL)
               = IF i < Len(R) THEN R[i + 1] ELSE Arguments!NUL
  <2>1. CASE z + i <= n
    <3>1. i + 1 \in 1 .. Len(R) /\ i < Len(R) /\ z + (i + 1) - 1 = z + i
      BY <1>4, <1>5, <2>1
    <3> QED BY <1>5, <2>1, <3>1
  <2>2. CASE ~(z + i <= n)
    <3>1. ~(i < Len(R))
      BY <1>4, <1>5, <2>2
    <3> QED BY <2>2, <3>1
  <2> QED BY <2>1, <2>2
<1>7. Len(R) \in Nat
  BY <1>5
<1> QED BY <1>2, <1>3, <1>5, <1>6, <1>7

\* What is still ahead of parseargs, character by character.
LEMMA AheadIs ==
    ASSUME Arguments!ParseArgsAssumption, msg \in Messages, at \in Nat \ {0}
    PROVE  /\ Ahead \in Seq(Byte) /\ Len(Ahead) \in Nat
           /\ \A i \in Nat : Arguments!Char(at + i) = IF i < Len(Ahead) THEN Ahead[i + 1]
                                                      ELSE Arguments!NUL
<1>1. Ahead = From(at)
  BY DEF Ahead, From
<1> QED BY <1>1, FromIs

LEMMA AheadMoves ==
    ASSUME Arguments!ParseArgsAssumption, msg \in Messages, at \in Nat \ {0}, msg' = msg,
           NEW X \in Seq(Byte), NEW Y \in Seq(Byte), Ahead = X \o Y, at' = at + Len(X)
    PROVE  Ahead' = Y
<1> DEFINE T == Arguments!CommandLine
           n == Len(X)
<1>1. T \in Seq(Byte)
  BY CommandLineIs DEF Arguments!CommandLine
<1>2. Ahead = Rest(T, at) /\ Ahead' = Rest(T, at + n)
  BY SentFrame DEF Ahead, Rest
<1> HIDE DEF T
<1>3. Rest(T, at) = X \o Y
  BY <1>2
<1>5. n \in Nat /\ Len(X) = n
  OBVIOUS
<1> HIDE DEF n
<1>4. Rest(T, at + n) = Y
  BY ONLY ZenonT(60), at \in Nat \ {0}, X \in Seq(Byte), Y \in Seq(Byte), <1>1, <1>3, <1>5, RestMoves
<1> QED BY <1>2, <1>4

LEMMA NothingAhead ==
    ASSUME Arguments!ParseArgsAssumption, msg \in Messages, at \in Nat \ {0}, Ahead = <<>>
    PROVE  /\ Arguments!Char(at) = Arguments!NUL
           /\ \A n \in Nat : msg' = msg /\ at' = at + n => Ahead' = <<>>
<1> DEFINE T == Arguments!CommandLine
           A == Ahead
<1>1. T \in Seq(Byte)
  BY CommandLineIs DEF Arguments!CommandLine
<1>2. A \in Seq(Byte) /\ A = <<>>
  BY AheadIs
<1>3. Len(A) = 0
  <2> HIDE DEF A
  <2> QED BY <1>2
<1>4. Arguments!Char(at) = Arguments!NUL
  <2>1. Arguments!Char(at + 0) = IF 0 < Len(Ahead) THEN Ahead[0 + 1] ELSE Arguments!NUL
    BY AheadIs
  <2>2. at + 0 = at /\ ~(0 < Len(Ahead))
    BY <1>3
  <2> QED BY <2>1, <2>2
<1>5. A = SubSeq(T, at, Len(T))
  BY DEF Ahead, Rest
<1>6. ASSUME NEW n \in Nat, msg' = msg, at' = at + n PROVE Ahead' = <<>>
  <2>1. Ahead' = SubSeq(T, at + n, Len(T))
    BY <1>6, SentFrame DEF Ahead, Rest
  <2> HIDE DEF T, A
  <2>2. at > Len(T) /\ Len(T) \in Nat
    BY <1>1, <1>3, <1>5
  <2>3. SubSeq(T, at + n, Len(T)) = <<>>
    <3> DEFINE r == SubSeq(T, at + n, Len(T))
    <3>1. r \in Seq(Byte) /\ Len(r) = 0
      BY <1>1, <2>2
    <3> HIDE DEF r
    <3>2. r = <<>>
      BY <3>1
    <3> QED BY <3>2 DEF r
  <2> QED BY <2>1, <2>3
<1> QED BY <1>4, <1>6

LEMMA OneAhead ==
    ASSUME Arguments!ParseArgsAssumption, msg \in Messages, at \in Nat \ {0},
           NEW c \in Byte, NEW Y \in Seq(Byte), Ahead = <<c>> \o Y
    PROVE  /\ Arguments!Char(at) = c /\ Ahead # <<>> /\ Len(Ahead) = Len(Y) + 1 /\ Len(Y) \in Nat
           /\ Arguments!Char(at + 1) = IF Y = <<>> THEN Arguments!NUL ELSE Y[1]
           /\ msg' = msg /\ at' = at + 1 => Ahead' = Y
<1> DEFINE one == <<c>>
           A == one \o Y
<1>1. one \in Seq(Byte) /\ Len(one) = 1 /\ one[1] = c
  OBVIOUS
<1>2. msg' = msg /\ at' = at + 1 => Ahead' = Y
  <2>1. SUFFICES ASSUME msg' = msg, at' = at + 1 PROVE Ahead' = Y
    OBVIOUS
  <2>2. Ahead = one \o Y
    OBVIOUS
  <2> HIDE DEF one
  <2> QED BY <1>1, <2>1, <2>2, AheadMoves
<1> HIDE DEF one
<1>3. /\ A \in Seq(Byte) /\ Len(A) = 1 + Len(Y) /\ Len(Y) \in Nat
      /\ \A i \in 1 .. 1 + Len(Y) : A[i] = IF i <= 1 THEN one[i] ELSE Y[i - 1]
  <2>1. Len(Y) \in Nat
    OBVIOUS
  <2>2. /\ A \in Seq(Byte) /\ Len(A) = Len(one) + Len(Y)
        /\ \A i \in 1 .. Len(one) + Len(Y) : A[i] = IF i <= Len(one) THEN one[i] ELSE Y[i - Len(one)]
    BY <1>1, JoinIs
  <2> HIDE DEF A
  <2> QED BY <1>1, <2>1, <2>2
<1> HIDE DEF A
<1>4. A # <<>>
  BY <1>3
<1>5. /\ Arguments!Char(at + 0) = IF 0 < Len(A) THEN A[0 + 1] ELSE Arguments!NUL
      /\ Arguments!Char(at + 1) = IF 1 < Len(A) THEN A[1 + 1] ELSE Arguments!NUL
  <2>1. Ahead = A
    BY DEF A, one
  <2> QED BY <2>1, AheadIs
<1>6. A[1] = c
  <2>1. 1 \in 1 .. 1 + Len(Y)
    BY SMTT(60), <1>3
  <2> QED BY <1>1, <1>3, <2>1
<1>7. Arguments!Char(at) = c
  <2>1. at + 0 = at /\ 0 < Len(A) /\ 0 + 1 = 1
    BY <1>3
  <2> QED BY <1>5, <1>6, <2>1
<1>8. Arguments!Char(at + 1) = IF Y = <<>> THEN Arguments!NUL ELSE Y[1]
  <2>1. CASE Y = <<>>
    <3>1. Len(Y) = 0
      BY <2>1
    <3>2. ~(1 < Len(A))
      BY <1>3, <3>1
    <3> QED BY <1>5, <2>1, <3>2
  <2>2. CASE Y # <<>>
    <3>1. Len(Y) >= 1
      BY <2>2
    <3>2. 1 < Len(A) /\ 1 + 1 = 2 /\ 2 \in 1 .. 1 + Len(Y) /\ ~(2 <= 1) /\ 2 - 1 = 1
      BY <1>3, <3>1
    <3> QED BY <1>3, <1>5, <2>2, <3>2
  <2> QED BY <2>1, <2>2
<1>9. Ahead = A
  BY DEF A, one
<1>10. 1 + Len(Y) = Len(Y) + 1
  BY <1>3
<1> QED BY <1>2, <1>3, <1>4, <1>7, <1>8, <1>9, <1>10

LEMMA PastTwo ==
    ASSUME Arguments!ParseArgsAssumption, msg \in Messages, at \in Nat \ {0},
           NEW c \in Byte, NEW Y \in Seq(Byte), Ahead = <<c>> \o Y, msg' = msg, at' = at + 2
    PROVE  /\ Y = <<>> => Ahead' = <<>>
           /\ \A d \in Byte : \A Z \in Seq(Byte) : Y = <<d>> \o Z => Ahead' = Z
<1>1. ASSUME NEW d \in Byte, NEW Z \in Seq(Byte), Y = <<d>> \o Z PROVE Ahead' = Z
  <2> DEFINE X == <<c, d>>
  <2>1. X \in Seq(Byte) /\ Len(X) = 2
    OBVIOUS
  <2>2. Ahead = X \o Z
    <3>1. X \o Z = <<c>> \o (<<d>> \o Z)
      BY SMTT(60), TwoAhead
    <3> HIDE DEF X
    <3> QED BY <1>1, <3>1
  <2> HIDE DEF X
  <2> QED BY <2>1, <2>2, AheadMoves
<1>2. ASSUME Y = <<>> PROVE Ahead' = <<>>
  <2> DEFINE T == Arguments!CommandLine
             one == <<c>>
             A == Ahead
  <2>1. T \in Seq(Byte)
    BY CommandLineIs DEF Arguments!CommandLine
  <2>2. Len(A) = 0 + 1
    <3>1. Len(Y) = 0
      BY <1>2
    <3> QED BY <3>1, OneAhead
  <2>3. A = SubSeq(T, at, Len(T)) /\ Ahead' = SubSeq(T, at + 2, Len(T))
    BY SentFrame DEF Ahead, Rest
  <2> DEFINE r == SubSeq(T, at + 2, Len(T))
  <2> HIDE DEF T, A
  <2>4. r \in Seq(Byte) /\ Len(r) = 0
    BY <2>1, <2>2, <2>3
  <2> HIDE DEF r
  <2>5. r = <<>>
    BY <2>4
  <2> QED BY <2>3, <2>5 DEF r
<1> QED BY <1>1, <1>2

BlanksThen(d, Y) == Arguments!Blanks(d) \o Y
NoBlank(Y) == Y = <<>> \/ Y[1] # Arguments!Blank

LEMMA BlanksFrom ==
    ASSUME Arguments!ParseArgsAssumption, msg \in Messages, NEW z \in Nat \ {0},
           NEW d \in Nat, NEW Y \in Seq(Byte), From(z) = BlanksThen(d, Y), NoBlank(Y)
    PROVE  /\ \A l \in Nat : d <= l => Arguments!BlanksAt(z, l) = d
           /\ Len(From(z)) = d + Len(Y) /\ Len(Y) \in Nat
           /\ d > 0 => Arguments!Char(z) = Arguments!Blank /\ From(z) # <<>>
           /\ Arguments!Char(z + d) = IF Y = <<>> THEN Arguments!NUL ELSE Y[1]
           /\ msg' = msg /\ at' = z + d => Ahead' = Y
<1> DEFINE bl == Arguments!Blanks(d)
           A == bl \o Y
<1>1. bl \in Seq(Byte) /\ Len(bl) = d /\ \A i \in 1 .. d : bl[i] = Arguments!Blank
  BY BlanksHave
<1>2. From(z) = A
  BY DEF BlanksThen
<1> HIDE DEF bl
<1>3. msg' = msg /\ at' = z + d => Ahead' = Y
  <2> DEFINE T == Arguments!CommandLine
  <2>1. T \in Seq(Byte)
    BY CommandLineIs DEF Arguments!CommandLine
  <2>2. SubSeq(T, z, Len(T)) = A
    BY <1>2 DEF From, Rest
  <2>3. ASSUME msg' = msg, at' = z + d PROVE Ahead' = SubSeq(T, z + d, Len(T))
    BY <2>3, SentFrame DEF Ahead, Rest
  <2> HIDE DEF T
  <2>4. SubSeq(T, z + d, Len(T)) = Y
    <3>1. bl \in Seq(Byte)
      BY <1>1
    <3>2. Len(bl) = d
      BY <1>1
    <3>3. Rest(T, z) = bl \o Y
      BY <2>2 DEF Rest
    <3>4. Rest(T, z + d) = Y
      BY ONLY z \in Nat \ {0}, d \in Nat, Y \in Seq(Byte), <2>1, <3>1, <3>2, <3>3, RestMoves
    <3> QED BY <3>4 DEF Rest
  <2> QED BY <2>3, <2>4
<1>4. /\ A \in Seq(Byte) /\ Len(A) = d + Len(Y) /\ Len(Y) \in Nat
      /\ \A i \in 1 .. d + Len(Y) : A[i] = IF i <= d THEN bl[i] ELSE Y[i - d]
  <2>1. Len(Y) \in Nat
    OBVIOUS
  <2> QED BY <1>1, <2>1, JoinIs
<1> HIDE DEF A
<1>5. \A i \in Nat : Arguments!Char(z + i) = IF i < Len(A) THEN A[i + 1] ELSE Arguments!NUL
  BY <1>2, FromIs
<1>6. ASSUME NEW i \in Nat, i < d PROVE Arguments!Char(z + i) = Arguments!Blank
  <2>1. i < Len(A) /\ i + 1 \in 1 .. d + Len(Y) /\ i + 1 <= d /\ i + 1 \in 1 .. d
    BY <1>4, <1>6
  <2> QED BY <1>1, <1>4, <1>5, <2>1
<1>7. /\ Arguments!Char(z + d) # Arguments!Blank
      /\ Arguments!Char(z + d) = IF Y = <<>> THEN Arguments!NUL ELSE Y[1]
  <2>1. CASE Y = <<>>
    <3>1. Len(Y) = 0
      BY <2>1
    <3>2. ~(d < Len(A))
      BY <1>4, <3>1
    <3>3. Arguments!Char(z + d) = Arguments!NUL
      BY <1>5, <3>2
    <3> QED BY <2>1, <3>3, BytesAre
  <2>2. CASE Y # <<>>
    <3>1. Len(Y) >= 1
      BY <2>2
    <3>2. d < Len(A) /\ d + 1 \in 1 .. d + Len(Y) /\ ~(d + 1 <= d) /\ (d + 1) - d = 1
      BY <1>4, <3>1
    <3>3. Arguments!Char(z + d) = Y[1]
      <4>1. Arguments!Char(z + d) = A[d + 1]
        BY <1>5, <3>2
      <4>2. A[d + 1] = Y[(d + 1) - d]
        BY <1>4, <3>2
      <4> QED BY <3>2, <4>1, <4>2
    <3> QED BY <2>2, <3>3 DEF NoBlank
  <2> QED BY <2>1, <2>2
<1>8. ASSUME NEW l \in Nat, d <= l PROVE Arguments!BlanksAt(z, l) = d
  <2> DEFINE S == {b \in 0 .. l : \A j \in z .. z + b - 1 : Arguments!Char(j) = Arguments!Blank}
             top == Arguments!Max(S)
  <2>1. S \subseteq 0 .. l /\ 0 \in S
    OBVIOUS
  <2>2. d \in S
    <3>1. ASSUME NEW j \in z .. z + d - 1 PROVE Arguments!Char(j) = Arguments!Blank
      <4>1. j - z \in Nat /\ j - z < d /\ z + (j - z) = j
        OBVIOUS
      <4> QED BY <1>6, <4>1
    <3>2. d \in 0 .. l
      BY <1>8
    <3> QED BY <3>1, <3>2
  <2>3. ASSUME NEW b \in S PROVE ~(b > d)
    <3>1. b \in 0 .. l /\ \A j \in z .. z + b - 1 : Arguments!Char(j) = Arguments!Blank
      OBVIOUS
    <3> HIDE DEF S
    <3> SUFFICES ASSUME b > d PROVE FALSE
      OBVIOUS
    <3>2. z + d \in z .. z + b - 1
      BY <3>1
    <3> QED BY <1>7, <3>1, <3>2
  <2>4. Arguments!BlanksAt(z, l) = top
    BY DEF Arguments!BlanksAt
  <2> HIDE DEF S
  <2>5. top \in S /\ \A b \in S : b <= top
    BY <2>1, GreatestUpTo
  <2>6. top \in Nat
    <3>1. \A b \in 0 .. l : b \in Nat
      OBVIOUS
    <3> HIDE DEF top
    <3> QED BY <2>1, <2>5, <3>1
  <2>7. d <= top /\ ~(top > d)
    BY <2>2, <2>3, <2>5
  <2> HIDE DEF top
  <2> QED BY <2>4, <2>6, <2>7 DEF top
<1>9. ASSUME d > 0 PROVE Arguments!Char(z) = Arguments!Blank /\ A # <<>>
  <2>1. Arguments!Char(z + 0) = Arguments!Blank /\ z + 0 = z
    BY <1>6, <1>9
  <2>2. Len(A) > 0
    BY <1>4, <1>9
  <2>3. A # <<>>
    BY <1>4, <2>2
  <2> QED BY <2>1, <2>3
<1> QED BY <1>2, <1>3, <1>4, <1>7, <1>8, <1>9

\* The blanks that parseargs skips are those that are there.
LEMMA BlanksAhead ==
    ASSUME Arguments!ParseArgsAssumption, msg \in Messages, at \in Nat \ {0},
           NEW d \in Nat, NEW Y \in Seq(Byte), Ahead = Arguments!Blanks(d) \o Y,
           Y = <<>> \/ Y[1] # Arguments!Blank
    PROVE  /\ \A l \in Nat : d <= l => Arguments!BlanksAt(at, l) = d
           /\ Len(Ahead) = d + Len(Y) /\ Len(Y) \in Nat
           /\ d > 0 => Arguments!Char(at) = Arguments!Blank /\ Ahead # <<>>
           /\ msg' = msg /\ at' = at + d => Ahead' = Y
<1>1. Ahead = From(at)
  BY DEF Ahead, From
<1>2. From(at) = BlanksThen(d, Y) /\ NoBlank(Y)
  BY <1>1 DEF BlanksThen, NoBlank
<1>3. /\ \A l \in Nat : d <= l => Arguments!BlanksAt(at, l) = d
      /\ Len(From(at)) = d + Len(Y) /\ Len(Y) \in Nat
      /\ d > 0 => Arguments!Char(at) = Arguments!Blank /\ From(at) # <<>>
      /\ msg' = msg /\ at' = at + d => Ahead' = Y
  BY ONLY Arguments!ParseArgsAssumption, msg \in Messages, at \in Nat \ {0}, d \in Nat,
          Y \in Seq(Byte), <1>2, BlanksFrom
<1> QED BY <1>1, <1>3

LEMMA NulsAre ==
    ASSUME NEW n \in Nat
    PROVE  /\ Nuls(n) \in Seq(Byte) /\ Len(Nuls(n)) = n /\ Nuls(0) = <<>>
           /\ \A i \in 1 .. n : Nuls(n)[i] = Arguments!NUL
           /\ Append(Nuls(n), Arguments!NUL) = Nuls(n + 1)
<1>1. ASSUME NEW m1 \in Nat
      PROVE  Nuls(m1) \in Seq(Byte) /\ Len(Nuls(m1)) = m1 /\ \A i \in 1 .. m1 : Nuls(m1)[i] = Arguments!NUL
  <2> DEFINE s == Nuls(m1)
  <2>1. s = [k \in 1 .. m1 |-> Arguments!NUL]
    BY DEF Nuls
  <2>2. Arguments!NUL \in Byte
    BY BytesAre
  <2> HIDE DEF s
  <2>3. s \in Seq(Byte) /\ Len(s) = m1 /\ \A i \in 1 .. m1 : s[i] = Arguments!NUL
    BY <2>1, <2>2
  <2> QED BY <2>3 DEF s
<1>2. Nuls(0) = <<>>
  <2> DEFINE s == Nuls(0)
  <2>1. s \in Seq(Byte) /\ Len(s) = 0
    BY <1>1
  <2> HIDE DEF s
  <2>2. s = <<>>
    BY <2>1
  <2> QED BY <2>2 DEF s
<1>3. Append(Nuls(n), Arguments!NUL) = Nuls(n + 1)
  <2> DEFINE s == Nuls(n)
             t == Nuls(n + 1)
             a == Append(s, Arguments!NUL)
  <2>1. s \in Seq(Byte) /\ Len(s) = n /\ \A i \in 1 .. n : s[i] = Arguments!NUL
    BY <1>1
  <2>2. t \in Seq(Byte) /\ Len(t) = n + 1 /\ \A i \in 1 .. n + 1 : t[i] = Arguments!NUL
    BY <1>1
  <2>3. Arguments!NUL \in Byte
    BY BytesAre
  <2> HIDE DEF s, t
  <2>4. /\ a \in Seq(Byte) /\ Len(a) = n + 1 /\ a[n + 1] = Arguments!NUL
        /\ \A i \in 1 .. n : a[i] = s[i]
    BY <2>1, <2>3, LongerByOne
  <2> HIDE DEF a
  <2>5. \A i \in 1 .. n + 1 : a[i] = t[i]
    <3>1. \A i \in 1 .. n + 1 : i \in 1 .. n \/ i = n + 1
      OBVIOUS
    <3> QED BY <2>1, <2>2, <2>4, <3>1
  <2>6. a = t
    BY <2>2, <2>4, <2>5, SameSequence
  <2> QED BY <2>6 DEF a, s, t
<1> QED BY <1>1, <1>2, <1>3

LEMMA DoubledIs ==
    /\ \A s \in Seq(Byte) : Doubled(s) \in Seq(Byte)
    /\ Doubled(<<>>) = <<>>
    /\ \A c \in Byte, v \in Seq(Byte) :
         /\ c = Arguments!Quote => Doubled(<<c>> \o v) = <<c>> \o (<<c>> \o Doubled(v))
         /\ c # Arguments!Quote => Doubled(<<c>> \o v) = <<c>> \o Doubled(v)
<1> DEFINE Q == Arguments!Quote
           B == Seq(Byte)
           double(c) == IF c = Q THEN <<Q, Q>> ELSE <<c>>
<1>1. Q \in Byte
  BY BytesAre
<1>2. \A c \in Byte : double(c) \in B
  BY <1>1
<1>3. ASSUME NEW s \in Seq(Byte)
      PROVE  Doubles(s) \in Seq(B) /\ Len(Doubles(s)) = Len(s) /\ Len(s) \in Nat
             /\ \A k \in 1 .. Len(s) : Doubles(s)[k] = double(s[k])
  <2> DEFINE n == Len(s)
             d == Doubles(s)
  <2>1. n \in Nat /\ DOMAIN s = 1 .. n /\ \A k \in 1 .. n : s[k] \in Byte
    OBVIOUS
  <2>2. d = [k \in 1 .. n |-> double(s[k])]
    BY <2>1 DEF Doubles
  <2>3. \A k \in 1 .. n : double(s[k]) \in B
    BY <1>2, <2>1
  <2> HIDE DEF d, n, double, B
  <2>4. d \in Seq(B) /\ Len(d) = n /\ \A k \in 1 .. n : d[k] = double(s[k])
    BY <2>1, <2>2, <2>3
  <2> QED BY <2>1, <2>4 DEF d, n
<1>4. ASSUME NEW s \in Seq(Byte) PROVE Doubled(s) \in Seq(Byte)
  <2>1. Doubles(s) \in Seq(Seq(Byte))
    BY <1>3
  <2> QED BY <2>1, JoinedMore DEF Doubled
<1>5. Doubled(<<>>) = <<>>
  <2> DEFINE none == <<>>
             d == Doubles(none)
  <2>1. none \in Seq(Byte) /\ Len(none) = 0
    OBVIOUS
  <2>2. d \in Seq(B) /\ Len(d) = 0
    <3> HIDE DEF none
    <3> QED BY <1>3, <2>1
  <2> HIDE DEF d, B
  <2>3. d = <<>>
    BY <2>2
  <2> QED BY <2>3, JoinedMore DEF Doubled, d, B
<1>6. ASSUME NEW c \in Byte, NEW v \in Seq(Byte)
      PROVE  Doubled(<<c>> \o v) = double(c) \o Doubled(v)
  <2> DEFINE one == <<c>>
             s == one \o v
             d == double(c)
             piece == <<d>>
             r == Doubles(v)
             l == Doubles(s)
             m1 == piece \o r
             n == Len(v)
  <2>1. one \in Seq(Byte) /\ Len(one) = 1 /\ one[1] = c
    OBVIOUS
  <2> HIDE DEF one
  <2>2. /\ s \in Seq(Byte) /\ Len(s) = Len(one) + n
        /\ \A i \in 1 .. Len(one) + n : s[i] = IF i <= Len(one) THEN one[i] ELSE v[i - Len(one)]
    BY <2>1, JoinIs
  <2> HIDE DEF s
  <2>3. r \in Seq(B) /\ Len(r) = n /\ n \in Nat /\ \A k \in 1 .. n : r[k] = double(v[k])
    BY <1>3
  <2>4. l \in Seq(B) /\ Len(l) = Len(s) /\ \A k \in 1 .. Len(s) : l[k] = double(s[k])
    BY <1>3, <2>2
  <2>5. d \in B
    BY <1>2
  <2> HIDE DEF d, r, l, n, B, double
  <2>6. piece \in Seq(B) /\ Len(piece) = 1 /\ piece[1] = d
    BY <2>5
  <2> HIDE DEF piece
  <2>7. /\ m1 \in Seq(B) /\ Len(m1) = Len(piece) + Len(r)
        /\ \A i \in 1 .. Len(piece) + Len(r) : m1[i] = IF i <= Len(piece) THEN piece[i] ELSE r[i - Len(piece)]
    BY <2>3, <2>6, JoinIs
  <2> HIDE DEF m1
  <2>8. ASSUME NEW i \in 1 .. 1 + n PROVE l[i] = m1[i]
    <3>0. l[i] = double(s[i])
      BY <2>1, <2>2, <2>4
    <3>1. CASE i = 1
      <4>1. s[i] = c
        BY <2>1, <2>2, <2>3, <3>1
      <4>2. m1[i] = d
        BY <2>3, <2>6, <2>7, <3>1
      <4> QED BY <3>0, <4>1, <4>2 DEF d
    <3>2. CASE i # 1
      <4>1. i - 1 \in 1 .. n /\ ~(i <= 1)
        BY <2>3, <3>2
      <4>2. s[i] = v[i - 1]
        BY <2>1, <2>2, <4>1
      <4>3. m1[i] = r[i - 1]
        BY <2>3, <2>6, <2>7, <4>1
      <4> QED BY <2>3, <3>0, <4>1, <4>2, <4>3
    <3> QED BY <3>1, <3>2
  <2>9. Len(l) = 1 + n /\ Len(m1) = 1 + n
    BY <2>1, <2>2, <2>3, <2>4, <2>6, <2>7
  <2>10. l = m1
    BY <2>4, <2>7, <2>8, <2>9, SameSequence
  <2>11. Joined(piece \o r) = Joined(piece) \o Joined(r)
    BY <2>3, <2>6, JoinedBoth DEF B
  <2>12. Joined(piece) = d
    <3> DEFINE none == <<>>
    <3>1. none \in Seq(B) /\ d \in Seq(Byte) /\ none \o d = d
      BY <2>5, EmptyJoin DEF B
    <3>2. Joined(none) = none
      BY JoinedMore
    <3>3. Append(none, d) = piece
      <4> DEFINE a == Append(none, d)
      <4>1. Len(none) = 0
        OBVIOUS
      <4> HIDE DEF none
      <4>2. a \in Seq(B) /\ Len(a) = 1 /\ a[1] = d
        <5>1. a \in Seq(B) /\ Len(a) = Len(none) + 1 /\ a[Len(none) + 1] = d
          BY <2>5, <3>1, LongerByOne
        <5> QED BY <4>1, <5>1
      <4> HIDE DEF a
      <4>3. \A i \in 1 .. 1 : i = 1
        OBVIOUS
      <4>4. a = piece
        BY <2>6, <4>2, <4>3, SameSequence
      <4> QED BY <4>4 DEF a
    <3> HIDE DEF none
    <3>4. Joined(Append(none, d)) = Joined(none) \o d
      BY <3>1, JoinedMore DEF B
    <3> QED BY <3>1, <3>2, <3>3, <3>4
  <2> QED BY <2>10, <2>11, <2>12 DEF Doubled, l, m1, r, s, one, d
<1>7. ASSUME NEW c \in Byte, NEW v \in Seq(Byte), c = Q
      PROVE  Doubled(<<c>> \o v) = <<c>> \o (<<c>> \o Doubled(v))
  <2> DEFINE dv == Doubled(v)
  <2>1. dv \in Seq(Byte)
    BY <1>4
  <2>2. Doubled(<<c>> \o v) = <<c, c>> \o dv
    BY <1>6, <1>7
  <2> HIDE DEF dv, Q
  <2>3. <<c, c>> \o dv = <<c>> \o (<<c>> \o dv)
    BY <2>1, TwoAhead
  <2> QED BY <2>2, <2>3 DEF dv
<1> QED BY <1>4, <1>5, <1>6, <1>7

\* A quoted name begins with a quote.
LEMMA QuotedWord ==
    ASSUME NEW s \in Seq(Byte)
    PROVE  /\ Arguments!Quoted(s) = <<Arguments!Quote>> \o (Doubled(s) \o <<Arguments!Quote>>)
           /\ Doubled(s) \o <<Arguments!Quote>> \in Seq(Byte)
<1> DEFINE q == <<Arguments!Quote>>
           d == Doubled(s)
<1>1. Arguments!Quoted(s) = q \o d \o q
  BY DEF Arguments!Quoted, Doubled, Doubles, Arguments!FlattenSeq, Joined
<1>2. q \in Seq(Byte) /\ d \in Seq(Byte)
  <2>1. Arguments!Quote \in Byte
    BY BytesAre
  <2> QED BY <2>1, DoubledIs
<1> HIDE DEF q, d
<1>3. (q \o d) \o q = q \o (d \o q)
  BY <1>2, JoinAssociates
<1>4. d \o q \in Seq(Byte)
  BY <1>2, JoinIs
<1> QED BY <1>1, <1>3, <1>4 DEF q, d

\* The buffer when an argument is complete.
LEMMA BufferGrows ==
    ASSUME Arguments!ParseArgsAssumption, msg \in Messages
    PROVE  /\ JoinedUpto(EndedOf(msg), 0) = <<>>
           /\ JoinedUpto(EndedOf(msg), Len(msg.args)) = Joined(EndedOf(msg))
           /\ \A k \in 0 .. Len(msg.args) : JoinedUpto(EndedOf(msg), k) \in Seq(Byte)
           /\ \A k \in 0 .. Len(msg.args) - 1 : msg.args[k + 1] # <<>> =>
                Append(JoinedUpto(EndedOf(msg), k) \o msg.args[k + 1], Arguments!NUL)
                  = JoinedUpto(EndedOf(msg), k + 1)
<1> DEFINE n == Len(msg.args)
           E == EndedOf(msg)
           ju(k) == JoinedUpto(E, k)
<1>1. /\ E \in Seq(Seq(Byte)) /\ Len(E) = n /\ n \in Nat
      /\ \A k \in 1 .. n : msg.args[k] \in Seq(Byte)
      /\ \A k \in 1 .. n : msg.args[k] # <<>> => E[k] = Append(msg.args[k], Arguments!NUL)
  BY ZenonT(60), ArgsAre
<1> HIDE DEF E
<1>2. /\ ju(0) = <<>> /\ ju(n) = Joined(E) /\ \A k \in 0 .. n : ju(k) \in Seq(Byte)
      /\ \A k \in 0 .. n - 1 : ju(k + 1) = ju(k) \o E[k + 1]
  BY <1>1, JoinedInTwo
<1>3. ASSUME NEW k \in 0 .. n - 1, msg.args[k + 1] # <<>>
      PROVE  Append(ju(k) \o msg.args[k + 1], Arguments!NUL) = ju(k + 1)
  <2> DEFINE a == msg.args[k + 1]
             j == ju(k)
  <2>1. k \in 0 .. n /\ k + 1 \in 1 .. n
    BY <1>1
  <2>2. a \in Seq(Byte) /\ j \in Seq(Byte) /\ E[k + 1] = Append(a, Arguments!NUL)
    BY <1>1, <1>2, <1>3, <2>1
  <2>3. Arguments!NUL \in Byte
    BY BytesAre
  <2> DEFINE nul == Arguments!NUL
  <2>5. nul \in Byte
    BY <2>3
  <2>8. j \in Seq(Byte)
    BY <2>2
  <2>9. a \in Seq(Byte)
    BY <2>2
  <2> DEFINE l == j \o a
             r == Append(a, nul)
  <2>6. ju(k + 1) = j \o r
    BY <1>2, <2>2
  <2>7. l = j \o a /\ r = Append(a, nul)
    OBVIOUS
  <2> HIDE DEF a, j, nul, l, r
  <2>4. Append(l, nul) = j \o r
    <3> DEFINE one == <<nul>>
    <3>1. one \in Seq(Byte)
      BY <2>5
    <3>2. l \in Seq(Byte)
      BY <2>7, <2>8, <2>9, JoinIs
    <3>3. Append(l, nul) = l \o one
      BY <2>5, <3>2, AppendJoins
    <3>4. r = a \o one
      BY <2>5, <2>7, <2>9, AppendJoins
    <3> HIDE DEF one
    <3>5. (j \o a) \o one = j \o (a \o one)
      BY <2>8, <2>9, <3>1, JoinAssociates
    <3> QED BY <2>7, <3>3, <3>4, <3>5
  <2> QED BY <2>4, <2>6 DEF a, j, nul, l
<1> QED BY <1>2, <1>3 DEF E

\* What is sent stays: the invariant of a state that has moved on in a word or a name,
\* or behind the last one.
LEMMA BehindStays ==
    ASSUME msg' = msg
    PROVE  \A k : After(msg, k)' = After(msg, k) /\ WordOf(msg, k)' = WordOf(msg, k)
  BY DEF After, WordOf, PiecesOf, JoinedBehind, Arguments!Quoted, Arguments!Blanks

LEMMA PlainGoesOn ==
    ASSUME Arguments!ParseArgsAssumption, msg \in Messages, msg' = msg, msg.way = "words",
           NEW k \in 0 .. Len(msg.args) - 1, NEW p \in 0 .. Len(msg.args[k + 1]),
           to' = JoinedUpto(EndedOf(msg), k) \o SubSeq(msg.args[k + 1], 1, p),
           Ahead' = SubSeq(msg.args[k + 1], p + 1, Len(msg.args[k + 1])) \o After(msg, k + 1)
    PROVE  PlainSent'
<1> DEFINE a == msg.args[k + 1]
           u == SubSeq(a, 1, p)
           v == SubSeq(a, p + 1, Len(a))
<1>1. k + 1 \in 1 .. Len(msg.args)
  BY ArgsAre
<1>2. a \in Seq(Byte)
  BY <1>1, ArgsAre
<1>3. u \o v = a
  <2>1. p \in 0 .. Len(a)
    OBVIOUS
  <2> HIDE DEF a
  <2>2. SubSeq(a, 1, p) \o SubSeq(a, p + 1, Len(a)) = a
    BY ZenonT(60), <1>2, <2>1, SplitAt
  <2> QED BY <2>2 DEF a
<1>4. InWord(k, u, v)'
  <2>1. Divides(k, u, v)'
    BY <1>3, SentFrame DEF Divides
  <2>2. Ahead' = v \o After(msg, k + 1)'
    BY BehindStays
  <2> QED BY <2>1, <2>2 DEF InWord
<1> QED BY <1>4 DEF PlainSent

LEMMA PlainOver ==
    ASSUME msg' = msg, to' \in Seq(Byte), NEW n \in 0 .. Len(to'),
           to' = Joined(EndedOf(msg)) \o Nuls(n), Ahead' = <<>>
    PROVE  PlainSent'
<1>1. Ahead' = Arguments!Blanks(0) /\ 0 \in 0 .. 127
  BY BlanksHave
<1>2. Joined(EndedOf(msg))' = Joined(EndedOf(msg))
  BY SentFrame
<1>3. PastWords'
  BY <1>1, <1>2 DEF PastWords
<1> QED BY <1>3 DEF PlainSent

LEMMA NameGoesOn ==
    ASSUME Arguments!ParseArgsAssumption, msg \in Messages, msg' = msg, inQuote' = TRUE,
           NEW k \in 0 .. Len(msg.args) - 1, NEW p \in 0 .. Len(msg.args[k + 1]),
           to' = JoinedUpto(EndedOf(msg), k) \o SubSeq(msg.args[k + 1], 1, p),
           Ahead' = Doubled(SubSeq(msg.args[k + 1], p + 1, Len(msg.args[k + 1])))
                      \o <<Arguments!Quote>> \o After(msg, k + 1)
    PROVE  QuotedSent'
<1> DEFINE a == msg.args[k + 1]
           u == SubSeq(a, 1, p)
           v == SubSeq(a, p + 1, Len(a))
<1>1. k + 1 \in 1 .. Len(msg.args)
  BY ArgsAre
<1>2. a \in Seq(Byte)
  BY <1>1, ArgsAre
<1>3. u \o v = a
  <2>1. p \in 0 .. Len(a)
    OBVIOUS
  <2> HIDE DEF a
  <2>2. SubSeq(a, 1, p) \o SubSeq(a, p + 1, Len(a)) = a
    BY ZenonT(60), <1>2, <2>1, SplitAt
  <2> QED BY <2>2 DEF a
<1>4. InName(k, u, v)'
  <2>1. Divides(k, u, v)'
    BY <1>3, SentFrame DEF Divides
  <2>2. Ahead' = Doubled(v) \o <<Arguments!Quote>> \o After(msg, k + 1)'
    BY BehindStays
  <2>3. Doubled(v)' = Doubled(v)
    OBVIOUS
  <2> QED BY <2>1, <2>2, <2>3 DEF InName
<1> QED BY <1>4 DEF QuotedSent

LEMMA NameComes ==
    ASSUME msg' = msg, inQuote' = FALSE, NEW k \in 0 .. Len(msg.args) - 1,
           to' = JoinedUpto(EndedOf(msg), k), Ahead' = WordOf(msg, k + 1) \o After(msg, k + 1)
    PROVE  QuotedSent'
<1>1. BeforeName(k)'
  BY SentFrame, BehindStays DEF BeforeName
<1> QED BY <1>1 DEF QuotedSent

LEMMA QuotedOver ==
    ASSUME msg' = msg, inQuote' = FALSE, to' \in Seq(Byte), NEW n \in 0 .. Len(to'),
           to' = Joined(EndedOf(msg)) \o Nuls(n),
           NEW d \in 0 .. 127, Ahead' = Arguments!Blanks(d)
    PROVE  QuotedSent'
<1>1. Joined(EndedOf(msg))' = Joined(EndedOf(msg))
  BY SentFrame
<1>2. PastWords'
  BY <1>1 DEF PastWords
<1> QED BY <1>2 DEF QuotedSent

\* A character goes to the buffer.
LEMMA BufferGets ==
    ASSUME NEW s \in Seq(Byte), NEW u \in Seq(Byte), NEW c \in Byte,
           to = s \o u, to' = Append(to, c)
    PROVE  /\ to' \in Seq(Byte) /\ Len(to') = Len(to) + 1 /\ Len(to) \in Nat
           /\ \A w : w = Append(u, c) => to' = s \o w
<1>1. to \in Seq(Byte)
  BY JoinIs
<1>2. to' \in Seq(Byte) /\ Len(to') = Len(to) + 1 /\ Len(to) \in Nat
  BY <1>1
<1>3. ASSUME NEW w, w = Append(u, c) PROVE to' = s \o w
  <2> DEFINE one == <<c>>
  <2>1. one \in Seq(Byte)
    OBVIOUS
  <2>2. Append(to, c) = to \o one
    BY <1>1, AppendJoins
  <2>3. w = u \o one
    BY <1>3, AppendJoins
  <2> HIDE DEF one
  <2>4. (s \o u) \o one = s \o (u \o one)
    BY <2>1, JoinAssociates
  <2> QED BY <2>2, <2>3, <2>4
<1> QED BY <1>2, <1>3

\* A word has a character more.
LEMMA LetterSent ==
    ASSUME Arguments!ParseArgsAssumption, Arguments!Sendable(msg), msg \in Messages,
           at \in Nat \ {0}, left \in 1 .. 127, msg.way = "words",
           NEW k \in 0 .. Len(msg.args) - 1, NEW p \in 0 .. Len(msg.args[k + 1]),
           InWord(k, SubSeq(msg.args[k + 1], 1, p),
                     SubSeq(msg.args[k + 1], p + 1, Len(msg.args[k + 1]))),
           p # Len(msg.args[k + 1]), Len(Ahead) <= left, Arguments!Word
    PROVE  PlainSent' /\ Len(Ahead') <= left'
<1> DEFINE a == msg.args[k + 1]
           c == a[p + 1]
           u == SubSeq(a, 1, p)
           v == SubSeq(a, p + 1, Len(a))
           u1 == SubSeq(a, 1, p + 1)
           v1 == SubSeq(a, (p + 1) + 1, Len(a))
           A == After(msg, k + 1)
           j == JoinedUpto(EndedOf(msg), k)
           Y == v1 \o A
<1>1. k + 1 \in 1 .. Len(msg.args) /\ k + 1 \in 0 .. Len(msg.args) /\ k \in 0 .. Len(msg.args)
      /\ a \in Seq(Byte) /\ DOMAIN msg.args = 1 .. Len(msg.args)
  <2>1. Len(msg.args) \in Nat /\ DOMAIN msg.args = 1 .. Len(msg.args)
    BY ArgsAre
  <2>2. k + 1 \in 1 .. Len(msg.args) /\ k + 1 \in 0 .. Len(msg.args) /\ k \in 0 .. Len(msg.args)
    BY <2>1
  <2> QED BY <2>1, <2>2, ArgsAre
<1>2. A \in Seq(Byte)
  BY <1>1, AfterIs
<1>3. j \in Seq(Byte)
  BY <1>1, BufferGrows
<1>4. /\ u \in Seq(Byte) /\ v1 \in Seq(Byte) /\ c \in Byte /\ p + 1 \in 0 .. Len(a)
      /\ u1 = Append(u, c) /\ v = <<c>> \o v1
  <2>1. p \in 0 .. Len(a) /\ p # Len(a)
    OBVIOUS
  <2> HIDE DEF a
  <2> QED BY <1>1, <2>1, SplitAt
<1>5. c # Arguments!Blank /\ c # Arguments!NUL
  <2>1. Arguments!Blank \notin Arguments!ToSet(a) /\ Arguments!NUL \notin Arguments!ToSet(a)
    BY <1>1 DEF Arguments!Sendable
  <2>2. p + 1 \in DOMAIN a
    <3> HIDE DEF a
    <3>1. p + 1 \in 1 .. Len(a)
      BY <1>4
    <3> QED BY <1>1, <3>1
  <2> HIDE DEF a
  <2> QED BY <2>1, <2>2 DEF Arguments!ToSet
<1>6. to = j \o u /\ Ahead = v \o A
  BY DEF InWord, Divides
<1> HIDE DEF a, c, u, v, u1, v1, A, j
<1>7. Y \in Seq(Byte) /\ Ahead = <<c>> \o Y
  <2> DEFINE one == <<c>>
  <2>1. one \in Seq(Byte)
    BY <1>4
  <2>2. Ahead = (one \o v1) \o A
    BY <1>4, <1>6
  <2> HIDE DEF one
  <2>5. v1 \in Seq(Byte)
    BY <1>4
  <2>3. (one \o v1) \o A = one \o (v1 \o A)
    BY ONLY SMTT(60), <1>2, <2>1, <2>5, JoinAssociates
  <2>4. Y \in Seq(Byte)
    BY <1>2, <1>4, JoinIs
  <2> QED BY <2>2, <2>3, <2>4 DEF one
<1> HIDE DEF Y
<1>8. /\ Arguments!Char(at) = c /\ Len(Ahead) = Len(Y) + 1 /\ Len(Y) \in Nat
      /\ msg' = msg /\ at' = at + 1 => Ahead' = Y
  BY <1>4, <1>7, OneAhead
<1>9. msg' = msg /\ at' = at + 1 /\ left' = left - 1 /\ to' = Append(to, c)
  BY <1>5, <1>8 DEF Arguments!Word
<1>10. Ahead' = Y
  BY <1>8, <1>9
<1>11. to' = j \o u1
  <2>1. j \in Seq(Byte) /\ u \in Seq(Byte) /\ c \in Byte
    BY <1>3, <1>4
  <2>2. to = j \o u /\ to' = Append(to, c)
    BY <1>6, <1>9
  <2>3. \A w : w = Append(u, c) => to' = j \o w
    BY ONLY <2>1, <2>2, BufferGets
  <2> QED BY <1>4, <2>3
<1>12. PlainSent'
  <2>1. to' = JoinedUpto(EndedOf(msg), k) \o SubSeq(msg.args[k + 1], 1, p + 1)
    BY <1>11 DEF j, u1, a
  <2>2. Ahead' = SubSeq(msg.args[k + 1], (p + 1) + 1, Len(msg.args[k + 1])) \o After(msg, k + 1)
    BY <1>10 DEF Y, v1, A, a
  <2>3. p + 1 \in 0 .. Len(msg.args[k + 1])
    BY <1>4 DEF a
  <2> QED BY <1>9, <2>1, <2>2, <2>3, PlainGoesOn
<1> QED BY <1>8, <1>9, <1>10, <1>12

\* The blanks behind a word end it.
LEMMA WordEndSent ==
    ASSUME Arguments!ParseArgsAssumption, Arguments!Sendable(msg), msg \in Messages,
           at \in Nat \ {0}, left \in 1 .. 127, msg.way = "words",
           NEW k \in 0 .. Len(msg.args) - 1,
           to = JoinedUpto(EndedOf(msg), k) \o msg.args[k + 1], Ahead = After(msg, k + 1),
           Ahead # <<>> => Len(Ahead) <= left, Arguments!Word
    PROVE  PlainSent' /\ (Ahead' # <<>> => Len(Ahead') <= left')
<1> DEFINE n == Len(msg.args)
           a == msg.args[k + 1]
           k1 == k + 1
           j == JoinedUpto(EndedOf(msg), k1)
           c == Arguments!Char(at)
           b == Arguments!BlanksAt(at, left)
           nul == Arguments!NUL
<1>1. k1 \in 1 .. n /\ k1 \in 0 .. n /\ n \in Nat /\ DOMAIN msg.args = 1 .. n /\ a \in Seq(Byte)
  <2>1. n \in Nat /\ DOMAIN msg.args = 1 .. n
    BY ArgsAre
  <2>2. k1 \in 1 .. n /\ k1 \in 0 .. n
    BY <2>1
  <2> QED BY <2>1, <2>2, ArgsAre
<1>2. \A i \in 1 .. n : /\ msg.args[i] \in Seq(Byte) /\ msg.args[i] # <<>> /\ WordOf(msg, i) = msg.args[i]
                        /\ Arguments!Blank \notin Arguments!ToSet(msg.args[i])
  BY <1>1, ArgsAre DEF Arguments!Sendable, WordOf
<1>3. msg.between \in Nat /\ msg.between > 0 /\ msg.after \in Nat
  <2>1. msg.args # <<>> /\ msg.between > 0
    BY <1>1 DEF Arguments!Sendable
  <2> QED BY <2>1, MessageIs DEF MessageSet
<1>4. Append(to, nul) = j /\ j \in Seq(Byte)
  BY <1>1, <1>2, BufferGrows
<1>5. /\ msg' = msg
      /\ \/ c = Arguments!Blank /\ at' = at + b /\ left' = left - b /\ to' = Append(to, nul)
         \/ /\ c # Arguments!Blank /\ to' = Append(to, c) /\ at' = at + 1
            /\ left' = IF c = nul THEN 0 ELSE left - 1
  BY DEF Arguments!Word
<1>6. CASE k1 # n
  <2> DEFINE a2 == msg.args[k1 + 1]
             A2 == After(msg, k1 + 1)
             Y == a2 \o A2
  <2>1. k1 \in 1 .. n - 1 /\ k1 + 1 \in 1 .. n /\ k1 + 1 \in 0 .. n /\ k1 \in 0 .. n - 1
    BY <1>1, <1>6
  <2>2. Ahead = Arguments!Blanks(msg.between) \o Y /\ Y \in Seq(Byte)
    BY <1>2, <2>1, AfterIs
  <2>3. a2 \in Seq(Byte) /\ a2 # <<>> /\ Arguments!Blank \notin Arguments!ToSet(a2)
    BY <1>2, <2>1
  <2>4. A2 \in Seq(Byte)
    BY <2>1, AfterIs
  <2> DEFINE d == msg.between
             l == left
  <2> HIDE DEF a2, A2, d, l
  <2>5. Y # <<>> /\ Y[1] # Arguments!Blank
    <3>1. Len(a2) \in Nat /\ Len(a2) >= 1 /\ a2[1] # Arguments!Blank
      <4>1. Len(a2) \in Nat /\ Len(a2) >= 1
        BY <2>3
      <4>2. 1 \in DOMAIN a2
        BY <2>3, <4>1
      <4> QED BY <2>3, <4>1, <4>2 DEF Arguments!ToSet
    <3>2. /\ Len(Y) = Len(a2) + Len(A2) /\ Len(A2) \in Nat
          /\ \A i \in 1 .. Len(a2) + Len(A2) : Y[i] = IF i <= Len(a2) THEN a2[i] ELSE A2[i - Len(a2)]
      <4>1. Len(A2) \in Nat
        BY <2>4
      <4> QED BY <2>3, <2>4, <4>1, JoinIs
    <3> HIDE DEF Y
    <3>3. 1 \in 1 .. Len(a2) + Len(A2) /\ 1 <= Len(a2) /\ Len(Y) >= 1
      BY <3>1, <3>2
    <3>4. Y[1] = a2[1]
      BY <3>2, <3>3
    <3>5. Y # <<>>
      BY <2>2, <3>3
    <3> QED BY <3>1, <3>4, <3>5
  <2> HIDE DEF Y
  <2>a. Ahead = Arguments!Blanks(d) \o Y /\ Y \in Seq(Byte) /\ d \in Nat /\ d > 0
    BY <1>3, <2>2 DEF d
  <2>6. /\ \A i \in Nat : d <= i => Arguments!BlanksAt(at, i) = d
        /\ Len(Ahead) = d + Len(Y) /\ Len(Y) \in Nat
        /\ c = Arguments!Blank /\ Ahead # <<>>
        /\ msg' = msg /\ at' = at + d => Ahead' = Y
    BY <2>5, <2>a, BlanksAhead
  <2>7. b = d
    <3>1. l \in Nat /\ d <= l
      BY <2>6, <2>a DEF l
    <3> QED BY <2>6, <3>1 DEF l
  <2>8. at' = at + d /\ left' = left - d /\ to' = j
    BY <1>4, <1>5, <2>6, <2>7
  <2>9. Ahead' = Y
    BY <1>5, <2>6, <2>8
  <2>10. Len(Ahead') <= left'
    BY <2>6, <2>8, <2>9, <2>a
  <2>11. PlainSent'
    <3>1. SubSeq(a2, 1, 0) = <<>> /\ SubSeq(a2, 0 + 1, Len(a2)) = a2 /\ 0 \in 0 .. Len(a2)
      <4>1. 0 \in 0 .. Len(a2)
        BY <2>3
      <4> QED BY <2>3, <4>1, SplitAt
    <3>2. j \o <<>> = j
      BY <1>4, EmptyJoin
    <3>3. to' = JoinedUpto(EndedOf(msg), k1) \o SubSeq(msg.args[k1 + 1], 1, 0)
      BY <2>8, <3>1, <3>2 DEF a2
    <3>4. Ahead' = SubSeq(msg.args[k1 + 1], 0 + 1, Len(msg.args[k1 + 1])) \o After(msg, k1 + 1)
      BY <2>9, <3>1 DEF Y, a2, A2
    <3>5. 0 \in 0 .. Len(msg.args[k1 + 1])
      BY <3>1 DEF a2
    <3> HIDE DEF k1
    <3> QED BY <1>5, <2>1, <3>3, <3>4, <3>5, PlainGoesOn DEF n
  <2> QED BY <2>10, <2>11
<1>7. CASE k1 = n
  <2> DEFINE d == msg.after
             none == <<>>
  <2>1. Ahead = Arguments!Blanks(d)
    BY <1>7, AfterIs
  <2>2. Arguments!Blanks(d) \in Seq(Byte) /\ d \in Nat
    BY <1>3, BlanksAre
  <2>3. none \in Seq(Byte) /\ Len(none) = 0
    OBVIOUS
  <2>4. Ahead = Arguments!Blanks(d) \o none
    BY <2>1, <2>2, EmptyJoin
  <2> HIDE DEF d
  <2>5. Ahead' = <<>> /\ to' = j
    <3>1. CASE d > 0
      <4>1. /\ \A i \in Nat : d <= i => Arguments!BlanksAt(at, i) = d
            /\ Len(Ahead) = d + Len(none)
            /\ c = Arguments!Blank /\ Ahead # <<>>
            /\ msg' = msg /\ at' = at + d => Ahead' = none
        <5> HIDE DEF none
        <5>1. none = <<>>
          BY DEF none
        <5> QED BY <2>2, <2>3, <2>4, <3>1, <5>1, BlanksAhead
      <4>2. b = d
        <5>1. left \in Nat /\ d <= left
          BY <2>2, <2>3, <4>1
        <5> QED BY <4>1, <5>1
      <4> QED BY <1>4, <1>5, <4>1, <4>2
    <3>2. CASE d = 0
      <4>1. Ahead = <<>>
        BY <2>1, <3>2, BlanksHave
      <4>2. c = nul /\ \A i \in Nat : msg' = msg /\ at' = at + i => Ahead' = <<>>
        BY <4>1, NothingAhead
      <4>3. c # Arguments!Blank
        BY <4>2, BytesAre
      <4> QED BY <1>4, <1>5, <4>2, <4>3
    <3> QED BY <2>2, <3>1, <3>2
  <2>6. PlainSent'
    <3>1. j = Joined(EndedOf(msg))
      BY <1>7, BufferGrows
    <3>2. j \o Nuls(0) = j
      BY <1>4, NulsAre, EmptyJoin
    <3>3. to' = Joined(EndedOf(msg)) \o Nuls(0) /\ to' \in Seq(Byte)
      BY <1>4, <2>5, <3>1, <3>2
    <3>4. 0 \in 0 .. Len(to')
      BY <3>3
    <3> QED BY <1>5, <2>5, <3>3, <3>4, PlainOver
  <2> QED BY <2>5, <2>6
<1> QED BY <1>6, <1>7

\* A NUL more behind the last word.
LEMMA PastWordsSent ==
    ASSUME Arguments!ParseArgsAssumption, msg \in Messages, at \in Nat \ {0}, msg' = msg,
           to \in Seq(Byte), to' = Append(to, Arguments!NUL),
           NEW n \in 0 .. Len(to), to = Joined(EndedOf(msg)) \o Nuls(n)
    PROVE  /\ n + 1 \in 0 .. Len(to') /\ to' = Joined(EndedOf(msg)) \o Nuls(n + 1)
           /\ to' \in Seq(Byte)
<1> DEFINE j == Joined(EndedOf(msg))
           u == Nuls(n)
           nul == Arguments!NUL
<1>1. j \in Seq(Byte)
  <2>1. EndedOf(msg) \in Seq(Seq(Byte))
    BY ArgsAre
  <2> QED BY <2>1, JoinedMore
<1>2. n \in Nat
  OBVIOUS
<1>3. u \in Seq(Byte)
  BY <1>2, NulsAre
<1>4. Nuls(n + 1) = Append(u, nul)
  BY <1>2, NulsAre
<1>5. nul \in Byte
  BY BytesAre
<1>6. to = j \o u /\ to' = Append(to, nul)
  OBVIOUS
<1> HIDE DEF j, u, nul
<1>7. to' = j \o Nuls(n + 1) /\ to' \in Seq(Byte) /\ Len(to') = Len(to) + 1 /\ Len(to) \in Nat
  BY <1>1, <1>3, <1>4, <1>5, <1>6, BufferGets
<1>8. n + 1 \in 0 .. Len(to')
  BY <1>7
<1> QED BY <1>7, <1>8 DEF j

LEMMA WordSent ==
    ASSUME Arguments!ParseArgsAssumption, Arguments!Sendable(msg), msg \in Messages,
           at \in Nat \ {0}, left \in 1 .. 127, to \in Seq(Byte), PlainSent,
           Ahead # <<>> => Len(Ahead) <= left, Arguments!Word
    PROVE  PlainSent' /\ (Ahead' # <<>> => Len(Ahead') <= left')
<1>1. ASSUME msg.way = "words",
             NEW k \in 0 .. Len(msg.args) - 1, NEW p \in 0 .. Len(msg.args[k + 1]),
             InWord(k, SubSeq(msg.args[k + 1], 1, p),
                       SubSeq(msg.args[k + 1], p + 1, Len(msg.args[k + 1])))
      PROVE  PlainSent' /\ (Ahead' # <<>> => Len(Ahead') <= left')
  <2> DEFINE a == msg.args[k + 1]
             u == SubSeq(a, 1, p)
             v == SubSeq(a, p + 1, Len(a))
             A == After(msg, k + 1)
  <2>1. a \in Seq(Byte) /\ A \in Seq(Byte)
    <3>1. Len(msg.args) \in Nat
      BY ArgsAre
    <3>2. k + 1 \in 1 .. Len(msg.args) /\ k + 1 \in 0 .. Len(msg.args)
      BY <3>1
    <3> QED BY <3>2, ArgsAre, AfterIs
  <2>2. to = JoinedUpto(EndedOf(msg), k) \o u /\ Ahead = v \o A
    BY <1>1 DEF InWord, Divides
  <2>3. CASE p # Len(a)
    <3>1. Ahead # <<>>
      <4> DEFINE v1 == SubSeq(a, (p + 1) + 1, Len(a))
                 c == a[p + 1]
                 one == <<c>>
                 r == v \o A
      <4>1. v1 \in Seq(Byte) /\ c \in Byte /\ v = one \o v1 /\ v \in Seq(Byte)
        <5>1. p \in 0 .. Len(a)
          OBVIOUS
        <5> HIDE DEF a
        <5> QED BY <2>1, <2>3, <5>1, SplitAt
      <4> HIDE DEF a, v, v1, c, A
      <4>2. v # <<>>
        BY <4>1, NotEmpty
      <4>3. Len(v) >= 1 /\ Len(v) \in Nat
        BY <4>1, <4>2
      <4>4. r \in Seq(Byte) /\ Len(r) = Len(v) + Len(A) /\ Len(A) \in Nat
        <5>1. Len(A) \in Nat
          BY <2>1
        <5> QED BY <2>1, <4>1, <5>1, JoinIs
      <4>5. Ahead = r
        BY <2>2
      <4> HIDE DEF r
      <4>6. r # <<>>
        BY <4>3, <4>4
      <4> QED BY <4>5, <4>6
    <3> QED BY <1>1, <2>3, <3>1, LetterSent
  <2>4. CASE p = Len(a)
    <3>1. u = a /\ v = <<>>
      <4>1. p \in 0 .. Len(a)
        OBVIOUS
      <4> HIDE DEF a
      <4> QED BY <2>1, <2>4, <4>1, SplitAt
    <3>2. <<>> \o A = A
      BY <2>1, EmptyJoin
    <3>3. to = JoinedUpto(EndedOf(msg), k) \o msg.args[k + 1] /\ Ahead = After(msg, k + 1)
      BY <2>2, <3>1, <3>2
    <3> QED BY <1>1, <3>3, WordEndSent
  <2> QED BY <2>3, <2>4
<1>2. ASSUME PastWords, Ahead = <<>>
      PROVE  PlainSent' /\ (Ahead' # <<>> => Len(Ahead') <= left')
  <2>1. PICK n \in 0 .. Len(to) : to = Joined(EndedOf(msg)) \o Nuls(n)
    BY <1>2 DEF PastWords
  <2>2. Arguments!Char(at) = Arguments!NUL /\ \A i \in Nat : msg' = msg /\ at' = at + i => Ahead' = <<>>
    BY <1>2, NothingAhead
  <2>3. msg' = msg /\ to' = Append(to, Arguments!NUL) /\ at' = at + 1
    BY <2>2, BytesAre DEF Arguments!Word
  <2>4. n + 1 \in 0 .. Len(to') /\ to' = Joined(EndedOf(msg)) \o Nuls(n + 1) /\ to' \in Seq(Byte)
    BY <2>1, <2>3, PastWordsSent
  <2>5. Ahead' = <<>>
    BY <2>2, <2>3
  <2>6. PlainSent'
    BY <2>3, <2>4, <2>5, PlainOver
  <2> QED BY <2>5, <2>6
<1> QED BY <1>1, <1>2 DEF PlainSent

\* What parseargs does with the next character of the quoted names.
LEMMA QuotedReads ==
    ASSUME inQuote \in BOOLEAN, Arguments!QuoteChar \/ Arguments!OtherChar
    PROVE  /\ msg' = msg
           /\ Arguments!Char(at) = Arguments!Quote /\ inQuote = FALSE =>
                inQuote' = TRUE /\ to' = to /\ at' = at + 1 /\ left' = left - 1
           /\ Arguments!Char(at) = Arguments!Quote /\ inQuote = TRUE
                /\ Arguments!Char(at + 1) = Arguments!Quote =>
                inQuote' = TRUE /\ to' = Append(to, Arguments!Quote) /\ at' = at + 2 /\ left' = left - 2
           /\ Arguments!Char(at) = Arguments!Quote /\ inQuote = TRUE
                /\ Arguments!Char(at + 1) # Arguments!Quote =>
                inQuote' = FALSE /\ to' = Append(to, Arguments!NUL) /\ at' = at + 2 /\ left' = left - 2
           /\ Arguments!Char(at) # Arguments!Quote /\ inQuote = TRUE =>
                inQuote' = TRUE /\ to' = Append(to, Arguments!Char(at)) /\ at' = at + 1 /\ left' = left - 1
           /\ Arguments!Char(at) # Arguments!Quote /\ inQuote = FALSE
                /\ (Arguments!Char(at) = Arguments!Blank \/ Arguments!Char(at) = Arguments!NUL) =>
                inQuote' = FALSE /\ to' = Append(to, Arguments!NUL) /\ at' = at + 1 /\ left' = left - 1
<1>1. CASE Arguments!QuoteChar
  <2>1. CASE inQuote = TRUE
    BY <1>1, <2>1 DEF Arguments!QuoteChar, Arguments!Reads, Arguments!PastQuote
  <2>2. CASE inQuote = FALSE
    BY <1>1, <2>2 DEF Arguments!QuoteChar, Arguments!Reads, Arguments!PastQuote
  <2> QED BY <2>1, <2>2
<1>2. CASE Arguments!OtherChar
  <2>1. CASE inQuote = TRUE
    BY <1>2, <2>1 DEF Arguments!OtherChar, Arguments!Reads
  <2>2. CASE inQuote = FALSE
    BY <1>2, <2>2 DEF Arguments!OtherChar, Arguments!Reads
  <2> QED BY <2>1, <2>2
<1> QED BY <1>1, <1>2

LEMMA PlaceOf ==
    ASSUME Arguments!ParseArgsAssumption, msg \in Messages, NEW k \in 0 .. Len(msg.args) - 1
    PROVE  /\ Len(msg.args) \in Nat /\ k + 1 \in 1 .. Len(msg.args) /\ k + 1 \in 0 .. Len(msg.args)
           /\ k \in 0 .. Len(msg.args) /\ msg.args[k + 1] \in Seq(Byte)
           /\ k + 1 # Len(msg.args) => /\ k + 1 \in 0 .. Len(msg.args) - 1
                                       /\ k + 1 \in 1 .. Len(msg.args) - 1
           /\ After(msg, k + 1) \in Seq(Byte) /\ WordOf(msg, k + 1) \in Seq(Byte)
           /\ JoinedUpto(EndedOf(msg), k) \in Seq(Byte)
<1>1. Len(msg.args) \in Nat /\ DOMAIN msg.args = 1 .. Len(msg.args)
  BY ArgsAre
<1>2. k + 1 \in 1 .. Len(msg.args) /\ k + 1 \in 0 .. Len(msg.args) /\ k \in 0 .. Len(msg.args)
      /\ (k + 1 # Len(msg.args) => /\ k + 1 \in 0 .. Len(msg.args) - 1
                                   /\ k + 1 \in 1 .. Len(msg.args) - 1)
  BY <1>1
<1>3. After(msg, k + 1) \in Seq(Byte)
  BY <1>2, AfterIs
<1>4. JoinedUpto(EndedOf(msg), k) \in Seq(Byte)
  BY <1>2, BufferGrows
<1> QED BY <1>1, <1>2, <1>3, <1>4, ArgsAre

\* The quote that ends a name, and the blank behind it.
LEMMA NameEndSent ==
    ASSUME Arguments!ParseArgsAssumption, Arguments!Sendable(msg), msg \in Messages,
           at \in Nat \ {0}, left \in 1 .. 127, msg.way = "quoted", inQuote \in BOOLEAN, inQuote = TRUE,
           NEW k \in 0 .. Len(msg.args) - 1,
           to = JoinedUpto(EndedOf(msg), k) \o msg.args[k + 1],
           Ahead = <<Arguments!Quote>> \o After(msg, k + 1),
           Len(Ahead) <= left, Arguments!QuoteChar \/ Arguments!OtherChar
    PROVE  QuotedSent' /\ (Ahead' # <<>> => Len(Ahead') <= left')
<1> DEFINE n == Len(msg.args)
           a == msg.args[k + 1]
           k1 == k + 1
           j == JoinedUpto(EndedOf(msg), k1)
           A == After(msg, k1)
           q == Arguments!Quote
           nul == Arguments!NUL
<1>1. n \in Nat /\ k1 \in 1 .. n /\ k1 \in 0 .. n /\ a \in Seq(Byte) /\ A \in Seq(Byte)
      /\ (k1 # n => k1 \in 0 .. n - 1 /\ k1 \in 1 .. n - 1)
  BY PlaceOf
<1>2. a # <<>> /\ msg.between = 1 /\ msg.after \in Nat
  <2>1. DOMAIN msg.args = 1 .. n
    BY ArgsAre
  <2>2. a # <<>> /\ msg.between = 1
    BY <1>1, <2>1 DEF Arguments!Sendable
  <2> QED BY <2>2, MessageIs DEF MessageSet
<1>3. Append(to, nul) = j /\ j \in Seq(Byte)
  BY <1>1, <1>2, BufferGrows
<1>4. q \in Byte /\ Arguments!Blank \in Byte /\ Arguments!Blank # q /\ nul # q
  BY BytesAre
<1>5. Ahead = <<q>> \o A
  OBVIOUS
<1> HIDE DEF A, a, j, q, nul
<1>6. /\ Arguments!Char(at) = q /\ Len(Ahead) = Len(A) + 1 /\ Len(A) \in Nat
      /\ Arguments!Char(at + 1) = IF A = <<>> THEN nul ELSE A[1]
  BY <1>1, <1>4, <1>5, OneAhead DEF nul
<1>7. CASE k1 # n
  <2> DEFINE Y == WordOf(msg, k1 + 1) \o After(msg, k1 + 1)
             b == Arguments!Blank
  <2>1. A = <<b>> \o Y /\ Y \in Seq(Byte)
    <3>1. A = Arguments!Blanks(1) \o Y /\ Y \in Seq(Byte)
      BY <1>1, <1>2, <1>7, AfterIs DEF A
    <3>2. Arguments!Blanks(1) = <<b>> \o Arguments!Blanks(0) /\ Arguments!Blanks(0) = <<>>
      <4>1. 1 \in Nat /\ 1 > 0 /\ 1 - 1 = 0
        OBVIOUS
      <4>2. Arguments!Blanks(1) = <<Arguments!Blank>> \o Arguments!Blanks(1 - 1)
        BY ONLY <4>1, BlanksHave
      <4> QED BY <4>1, <4>2, BlanksHave
    <3>3. <<b>> \in Seq(Byte)
      BY <1>4
    <3>4. <<b>> \o <<>> = <<b>>
      BY <3>3, EmptyJoin
    <3> QED BY <3>1, <3>2, <3>4
  <2> HIDE DEF Y
  <2>2. A # <<>> /\ A[1] = b /\ Len(A) = 1 + Len(Y) /\ Len(Y) \in Nat
    <3>1. Len(Y) \in Nat
      BY <2>1
    <3> HIDE DEF b
    <3>2. b \in Byte
      BY <1>4 DEF b
    <3> QED BY <2>1, <3>1, <3>2, NotEmpty
  <2>3. inQuote' = FALSE /\ to' = j /\ at' = at + 2 /\ left' = left - 2 /\ msg' = msg
    <3>1. Arguments!Char(at) = Arguments!Quote /\ Arguments!Char(at + 1) # Arguments!Quote
      BY <1>4, <1>6, <2>2 DEF q
    <3>2. inQuote' = FALSE /\ to' = Append(to, Arguments!NUL) /\ at' = at + 2 /\ left' = left - 2 /\ msg' = msg
      BY <3>1, QuotedReads
    <3> QED BY <1>3, <3>2 DEF nul
  <2>4. Ahead' = Y
    BY <1>1, <1>4, <1>5, <2>1, <2>3, PastTwo
  <2>5. Len(Ahead') <= left'
    BY <1>6, <2>2, <2>3, <2>4
  <2>6. QuotedSent'
    <3>1. to' = JoinedUpto(EndedOf(msg), k1)
      BY <2>3 DEF j
    <3>2. Ahead' = WordOf(msg, k1 + 1) \o After(msg, k1 + 1)
      BY <2>4 DEF Y
    <3>3. k1 \in 0 .. Len(msg.args) - 1
      BY <1>1, <1>7
    <3> HIDE DEF k1
    <3> QED BY <2>3, <3>1, <3>2, <3>3, NameComes
  <2> QED BY <2>5, <2>6
<1>8. CASE k1 = n
  <2> DEFINE d == msg.after
  <2>1. A = Arguments!Blanks(d) /\ d \in Nat
    BY <1>2, <1>8, AfterIs DEF A
  <2>2. /\ d = 0 => A = <<>>
        /\ d > 0 => A = <<Arguments!Blank>> \o Arguments!Blanks(d - 1)
                    /\ Arguments!Blanks(d - 1) \in Seq(Byte)
        /\ Len(A) = d
    BY <2>1, BlanksHave
  <2> HIDE DEF d
  <2>3. Arguments!Char(at + 1) # q
    <3>1. CASE d = 0
      BY <1>4, <1>6, <2>2, <3>1
    <3>2. CASE d > 0
      <4>1. A # <<>> /\ A[1] = Arguments!Blank
        BY <1>4, <2>2, <3>2, NotEmpty
      <4> QED BY <1>4, <1>6, <4>1
    <3> QED BY <2>1, <3>1, <3>2
  <2>4. inQuote' = FALSE /\ to' = j /\ at' = at + 2 /\ left' = left - 2 /\ msg' = msg
    <3>1. Arguments!Char(at) = Arguments!Quote /\ Arguments!Char(at + 1) # Arguments!Quote
      BY <1>6, <2>3 DEF q
    <3>2. inQuote' = FALSE /\ to' = Append(to, Arguments!NUL) /\ at' = at + 2 /\ left' = left - 2 /\ msg' = msg
      BY <3>1, QuotedReads
    <3> QED BY <1>3, <3>2 DEF nul
  <2>5. PICK gone \in 0 .. 127 : Ahead' = Arguments!Blanks(gone) /\ (gone > 0 => d > 0 /\ gone = d - 1)
    <3>1. CASE d = 0
      <4>1. Ahead' = <<>>
        BY <1>1, <1>4, <1>5, <2>2, <2>4, <3>1, PastTwo
      <4>2. Ahead' = Arguments!Blanks(0)
        BY <4>1, BlanksHave
      <4> QED BY <4>2
    <3>2. CASE d > 0
      <4>1. Ahead' = Arguments!Blanks(d - 1)
        BY <1>1, <1>4, <1>5, <2>2, <2>4, <3>2, PastTwo
      <4>2. d - 1 \in 0 .. 127
        <5>1. d \in Nat /\ Len(Ahead) = d + 1 /\ Len(Ahead) <= left /\ left \in 1 .. 127
          BY <1>6, <2>1, <2>2
        <5> QED BY ONLY <3>2, <5>1
      <4> QED BY <3>2, <4>1, <4>2
    <3> QED BY <2>1, <3>1, <3>2
  <2>6. Ahead' # <<>> => Len(Ahead') <= left'
    <3>1. ASSUME Ahead' # <<>> PROVE Len(Ahead') <= left'
      <4>1. Len(Ahead') = gone /\ (gone = 0 => Ahead' = <<>>)
        <5>1. gone \in 0 .. 127 /\ gone \in Nat
          OBVIOUS
        <5> QED BY <2>5, <5>1, BlanksHave
      <4>2. gone > 0
        BY <3>1, <4>1
      <4> QED BY <1>6, <2>1, <2>2, <2>4, <2>5, <4>1, <4>2
    <3> QED BY <3>1
  <2>7. QuotedSent'
    <3>1. j = Joined(EndedOf(msg))
      BY <1>8, BufferGrows DEF j
    <3>2. j \o Nuls(0) = j
      BY <1>3, NulsAre, EmptyJoin
    <3>3. to' = Joined(EndedOf(msg)) \o Nuls(0) /\ to' \in Seq(Byte)
      BY <1>3, <2>4, <3>1, <3>2
    <3>4. 0 \in 0 .. Len(to')
      BY <3>3
    <3>5. Ahead' = Arguments!Blanks(gone)
      BY <2>5
    <3> QED BY <2>4, <3>3, <3>4, <3>5, QuotedOver
  <2> QED BY <2>6, <2>7
<1> QED BY <1>7, <1>8

\* A name has a character more.
LEMMA NameLetterSent ==
    ASSUME Arguments!ParseArgsAssumption, msg \in Messages,
           at \in Nat \ {0}, left \in 1 .. 127, inQuote \in BOOLEAN, inQuote = TRUE,
           NEW k \in 0 .. Len(msg.args) - 1, NEW p \in 0 .. Len(msg.args[k + 1]),
           InName(k, SubSeq(msg.args[k + 1], 1, p),
                     SubSeq(msg.args[k + 1], p + 1, Len(msg.args[k + 1]))),
           p # Len(msg.args[k + 1]), Len(Ahead) <= left,
           Arguments!QuoteChar \/ Arguments!OtherChar
    PROVE  QuotedSent' /\ Len(Ahead') <= left'
<1> DEFINE a == msg.args[k + 1]
           c == a[p + 1]
           u == SubSeq(a, 1, p)
           v == SubSeq(a, p + 1, Len(a))
           u1 == SubSeq(a, 1, p + 1)
           v1 == SubSeq(a, (p + 1) + 1, Len(a))
           A == After(msg, k + 1)
           j == JoinedUpto(EndedOf(msg), k)
           d1 == Doubled(v1)
           Q == Arguments!Quote
           end == <<Q>>
           Z == (d1 \o end) \o A
<1>1. a \in Seq(Byte) /\ A \in Seq(Byte) /\ j \in Seq(Byte)
  BY PlaceOf
<1>2. Q \in Byte /\ end \in Seq(Byte)
  <2>1. Q \in Byte
    BY BytesAre
  <2> QED BY <2>1
<1>3. /\ u \in Seq(Byte) /\ v1 \in Seq(Byte) /\ c \in Byte /\ p + 1 \in 0 .. Len(a)
      /\ u1 = Append(u, c) /\ v = <<c>> \o v1
  <2>1. p \in 0 .. Len(a) /\ p # Len(a)
    OBVIOUS
  <2> HIDE DEF a
  <2> QED BY SMTT(60), <1>1, <2>1, SplitAt
<1>4. to = j \o u /\ Ahead = (Doubled(v) \o end) \o A
  BY DEF InName, Divides
<1> HIDE DEF a, c, u, v, u1, v1, A, j
<1>5. d1 \in Seq(Byte)
  BY <1>3, DoubledIs
<1>6. /\ c = Q => Doubled(v) = <<c>> \o (<<c>> \o d1)
      /\ c # Q => Doubled(v) = <<c>> \o d1
  BY <1>3, DoubledIs
<1> HIDE DEF d1, Q, end
<1>7. Z \in Seq(Byte)
  BY <1>1, <1>2, <1>3, <1>5, JoinsInside
<1> HIDE DEF Z
<1>8. (c = Q => Ahead = <<c>> \o (<<c>> \o Z)) /\ (c # Q => Ahead = <<c>> \o Z)
  <2>a. A \in Seq(Byte)
    BY <1>1
  <2>b. end \in Seq(Byte)
    BY <1>2
  <2>c. c \in Byte
    BY <1>3
  <2>1. ASSUME c # Q PROVE Ahead = <<c>> \o Z
    <3>1. Doubled(v) = <<c>> \o d1
      BY <1>6, <2>1
    <3>2. (Doubled(v) \o end) \o A = <<c>> \o ((d1 \o end) \o A)
      BY ONLY SMTT(60), <1>5, <2>a, <2>b, <2>c, <3>1, JoinsInside
    <3> QED BY <1>4, <3>2 DEF Z
  <2>2. ASSUME c = Q PROVE Ahead = <<c>> \o (<<c>> \o Z)
    <3> DEFINE cd == <<c>> \o d1
    <3>1. cd \in Seq(Byte)
      BY <1>3, <1>5, NotEmpty
    <3>2. (cd \o end) \o A = <<c>> \o Z
      BY ONLY <1>5, <2>a, <2>b, <2>c, JoinsInside DEF Z, cd
    <3>3. Doubled(v) = <<c>> \o cd
      BY <1>6, <2>2
    <3> HIDE DEF cd
    <3>4. (Doubled(v) \o end) \o A = <<c>> \o ((cd \o end) \o A)
      BY ONLY SMTT(60), <2>a, <2>b, <2>c, <3>1, <3>3, JoinsInside
    <3> QED BY <1>4, <3>2, <3>4
  <2> QED BY <2>1, <2>2
<1>9. /\ msg' = msg /\ inQuote' = TRUE /\ to' = Append(to, c) /\ Ahead' = Z
      /\ left' \in Int /\ Len(Z) \in Nat /\ Len(Z) <= left'
  <2>1. CASE c = Q
    <3> DEFINE Y == <<c>> \o Z
    <3>1. Y \in Seq(Byte) /\ Len(Y) = 1 + Len(Z) /\ Y # <<>> /\ Y[1] = c /\ Len(Z) \in Nat
      BY <1>3, <1>7, NotEmpty
    <3>2. Ahead = <<c>> \o Y
      BY <1>8, <2>1
    <3> HIDE DEF Y
    <3>3. Arguments!Char(at) = c /\ Arguments!Char(at + 1) = c /\ Len(Ahead) = Len(Y) + 1
      BY <1>3, <3>1, <3>2, OneAhead
    <3>4. /\ msg' = msg /\ inQuote' = TRUE /\ to' = Append(to, Arguments!Quote)
          /\ at' = at + 2 /\ left' = left - 2
      <4>1. Arguments!Char(at) = Arguments!Quote /\ Arguments!Char(at + 1) = Arguments!Quote
        BY <2>1, <3>3 DEF Q
      <4> QED BY <4>1, QuotedReads
    <3>5. Ahead' = Z
      BY <1>3, <1>7, <3>1, <3>2, <3>4, PastTwo DEF Y
    <3>6. left' \in Int /\ Len(Z) <= left'
      BY <3>1, <3>3, <3>4
    <3> QED BY <2>1, <3>1, <3>4, <3>5, <3>6 DEF Q
  <2>2. CASE c # Q
    <3>1. Ahead = <<c>> \o Z
      BY <1>8, <2>2
    <3>2. Arguments!Char(at) = c /\ Len(Ahead) = Len(Z) + 1 /\ Len(Z) \in Nat
      BY <1>3, <1>7, <3>1, OneAhead
    <3>3. msg' = msg /\ inQuote' = TRUE /\ to' = Append(to, c) /\ at' = at + 1 /\ left' = left - 1
      <4>1. Arguments!Char(at) # Arguments!Quote
        BY <2>2, <3>2 DEF Q
      <4> QED BY <3>2, <4>1, QuotedReads
    <3>4. Ahead' = Z
      BY <1>3, <1>7, <3>1, <3>3, OneAhead
    <3>5. left' \in Int /\ Len(Z) <= left'
      BY <3>2, <3>3
    <3> QED BY <3>2, <3>3, <3>4, <3>5
  <2> QED BY <2>1, <2>2
<1>10. to' = j \o u1
  BY ZenonT(60), <1>1, <1>3, <1>4, <1>9, BufferGets
<1>11. QuotedSent'
  <2>1. to' = JoinedUpto(EndedOf(msg), k) \o SubSeq(msg.args[k + 1], 1, p + 1)
    BY <1>10 DEF j, u1, a
  <2>2. Ahead' = Doubled(SubSeq(msg.args[k + 1], (p + 1) + 1, Len(msg.args[k + 1])))
                   \o <<Arguments!Quote>> \o After(msg, k + 1)
    BY <1>9 DEF Z, d1, end, Q, v1, A, a
  <2>3. p + 1 \in 0 .. Len(msg.args[k + 1])
    BY <1>3 DEF a
  <2> QED BY <1>9, <2>1, <2>2, <2>3, NameGoesOn
<1> QED BY <1>9, <1>11

\* The quote in front of a name.
LEMMA NameStartSent ==
    ASSUME Arguments!ParseArgsAssumption, msg \in Messages, msg.way = "quoted",
           at \in Nat \ {0}, left \in 1 .. 127, inQuote \in BOOLEAN, inQuote = FALSE,
           NEW k \in 0 .. Len(msg.args) - 1, BeforeName(k),
           Ahead # <<>> => Len(Ahead) <= left,
           Arguments!QuoteChar \/ Arguments!OtherChar
    PROVE  QuotedSent' /\ Len(Ahead') <= left'
<1> DEFINE a == msg.args[k + 1]
           A == After(msg, k + 1)
           j == JoinedUpto(EndedOf(msg), k)
           Q == Arguments!Quote
           w == Doubled(a) \o <<Q>>
           Z == w \o A
<1>1. a \in Seq(Byte) /\ A \in Seq(Byte) /\ j \in Seq(Byte)
  BY PlaceOf
<1>2. Q \in Byte
  BY BytesAre
<1>3. WordOf(msg, k + 1) = <<Q>> \o w /\ w \in Seq(Byte)
  BY <1>1, QuotedWord DEF WordOf
<1>4. to = j /\ Ahead = WordOf(msg, k + 1) \o A
  BY DEF BeforeName
<1> HIDE DEF w, a, A, j
<1>5. Ahead = <<Q>> \o Z /\ Z \in Seq(Byte)
  <2> DEFINE one == <<Q>>
  <2>1. one \in Seq(Byte)
    BY <1>2
  <2>2. Ahead = (one \o w) \o A
    BY <1>3, <1>4
  <2> HIDE DEF one
  <2>3. (one \o w) \o A = one \o (w \o A)
    <3>1. A \in Seq(Byte)
      BY <1>1
    <3>2. w \in Seq(Byte)
      BY <1>3
    <3> QED BY ONLY <2>1, <3>1, <3>2, JoinAssociates
  <2>4. Z \in Seq(Byte)
    BY <1>1, <1>3, JoinIs
  <2> QED BY <2>2, <2>3, <2>4 DEF one
<1> HIDE DEF Z
<1>6. Arguments!Char(at) = Q /\ Ahead # <<>> /\ Len(Ahead) = Len(Z) + 1 /\ Len(Z) \in Nat
  BY <1>2, <1>5, OneAhead
<1>7. msg' = msg /\ inQuote' = TRUE /\ to' = to /\ at' = at + 1 /\ left' = left - 1
  BY <1>6, QuotedReads
<1>8. Ahead' = Z
  BY <1>2, <1>5, <1>7, OneAhead
<1>9. Len(Ahead') <= left'
  BY <1>6, <1>7, <1>8
<1>10. QuotedSent'
  <2>1. SubSeq(a, 1, 0) = <<>> /\ SubSeq(a, 0 + 1, Len(a)) = a /\ 0 \in 0 .. Len(a)
    <3>1. 0 \in 0 .. Len(a)
      BY <1>1
    <3> QED BY <1>1, <3>1, SplitAt
  <2>2. j \o <<>> = j
    BY <1>1, EmptyJoin
  <2>3. to' = JoinedUpto(EndedOf(msg), k) \o SubSeq(msg.args[k + 1], 1, 0)
    BY <1>4, <1>7, <2>1, <2>2 DEF a, j
  <2>4. Ahead' = Doubled(SubSeq(msg.args[k + 1], 0 + 1, Len(msg.args[k + 1])))
                   \o <<Arguments!Quote>> \o After(msg, k + 1)
    BY <1>8, <2>1 DEF Z, w, A, a
  <2>5. 0 \in 0 .. Len(msg.args[k + 1])
    BY <2>1 DEF a
  <2> QED BY <1>7, <2>3, <2>4, <2>5, NameGoesOn
<1> QED BY <1>9, <1>10

\* The blanks behind the last name.
LEMMA PastNamesSent ==
    ASSUME Arguments!ParseArgsAssumption, msg \in Messages,
           at \in Nat \ {0}, left \in 1 .. 127, inQuote \in BOOLEAN, inQuote = FALSE,
           to \in Seq(Byte), PastWords, Ahead # <<>> => Len(Ahead) <= left,
           Arguments!QuoteChar \/ Arguments!OtherChar
    PROVE  QuotedSent' /\ (Ahead' # <<>> => Len(Ahead') <= left')
<1>1. PICK n \in 0 .. Len(to) : to = Joined(EndedOf(msg)) \o Nuls(n)
  BY DEF PastWords
<1>2. PICK d \in 0 .. 127 : Ahead = Arguments!Blanks(d)
  BY DEF PastWords
<1>3. d \in Nat
  BY <1>2
<1> DEFINE c == Arguments!Char(at)
           b == Arguments!Blank
           nul == Arguments!NUL
<1>4. PICK e \in 0 .. 127 : /\ (c = b \/ c = nul)
                            /\ msg' = msg /\ at' = at + 1 => Ahead' = Arguments!Blanks(e)
                            /\ e > 0 => e = d - 1 /\ Ahead # <<>>
  <2>1. CASE d = 0
    <3>1. Ahead = <<>> /\ Arguments!Blanks(0) = <<>>
      BY <1>2, <2>1, BlanksHave
    <3>2. c = nul /\ (msg' = msg /\ at' = at + 1 => Ahead' = <<>>)
      BY <3>1, NothingAhead
    <3>3. 0 \in 0 .. 127 /\ ~(0 > 0)
      OBVIOUS
    <3> QED BY <3>1, <3>2, <3>3
  <2>2. CASE d > 0
    <3>1. Ahead = <<b>> \o Arguments!Blanks(d - 1) /\ Arguments!Blanks(d - 1) \in Seq(Byte)
      BY <1>2, <1>3, <2>2, BlanksHave
    <3>2. b \in Byte
      BY BytesAre
    <3> DEFINE Y == Arguments!Blanks(d - 1)
    <3> HIDE DEF Y, b, c
    <3>3. c = b /\ Ahead # <<>> /\ (msg' = msg /\ at' = at + 1 => Ahead' = Y)
      BY <3>1, <3>2, OneAhead DEF Y, c
    <3>4. d - 1 \in 0 .. 127
      BY <1>2, <2>2
    <3> QED BY <3>3, <3>4 DEF Y
  <2> QED BY <1>3, <2>1, <2>2
<1>5. msg' = msg /\ inQuote' = FALSE /\ to' = Append(to, nul) /\ at' = at + 1 /\ left' = left - 1
  <2>1. c # Arguments!Quote
    BY <1>4, BytesAre
  <2> QED BY <1>4, <2>1, QuotedReads
<1>6. n + 1 \in 0 .. Len(to') /\ to' = Joined(EndedOf(msg)) \o Nuls(n + 1) /\ to' \in Seq(Byte)
  BY <1>1, <1>5, PastWordsSent
<1>7. Ahead' = Arguments!Blanks(e)
  BY <1>4, <1>5
<1>8. QuotedSent'
  BY <1>5, <1>6, <1>7, QuotedOver
<1>9. ASSUME Ahead' # <<>> PROVE Len(Ahead') <= left'
  <2>1. e \in Nat
    BY <1>4
  <2>2. Len(Ahead') = e /\ (e = 0 => Ahead' = <<>>)
    BY <1>7, <2>1, BlanksHave
  <2>3. e = d - 1 /\ Ahead # <<>> /\ Len(Ahead) <= left
    BY <1>4, <1>9, <2>1, <2>2
  <2>4. Len(Ahead) = d
    BY <1>2, <1>3, BlanksHave
  <2> QED BY <1>3, <1>5, <2>2, <2>3, <2>4
<1> QED BY <1>8, <1>9

LEMMA QuotesSent ==
    ASSUME Arguments!ParseArgsAssumption, Arguments!Sendable(msg), msg \in Messages,
           msg.way = "quoted", at \in Nat \ {0}, left \in 1 .. 127, inQuote \in BOOLEAN,
           to \in Seq(Byte), QuotedSent, Ahead # <<>> => Len(Ahead) <= left,
           Arguments!QuoteChar \/ Arguments!OtherChar
    PROVE  QuotedSent' /\ (Ahead' # <<>> => Len(Ahead') <= left')
<1>1. ASSUME inQuote = TRUE,
             NEW k \in 0 .. Len(msg.args) - 1, NEW p \in 0 .. Len(msg.args[k + 1]),
             InName(k, SubSeq(msg.args[k + 1], 1, p),
                       SubSeq(msg.args[k + 1], p + 1, Len(msg.args[k + 1])))
      PROVE  QuotedSent' /\ (Ahead' # <<>> => Len(Ahead') <= left')
  <2> DEFINE a == msg.args[k + 1]
             u == SubSeq(a, 1, p)
             v == SubSeq(a, p + 1, Len(a))
             A == After(msg, k + 1)
             q == <<Arguments!Quote>>
  <2>1. a \in Seq(Byte) /\ A \in Seq(Byte)
    BY PlaceOf
  <2>2. to = JoinedUpto(EndedOf(msg), k) \o u /\ Ahead = (Doubled(v) \o q) \o A
    BY <1>1 DEF InName, Divides
  <2>3. Arguments!Quote \in Byte
    BY BytesAre
  <2>4. q \in Seq(Byte) /\ Len(q) = 1
    BY <2>3
  <2>5. v \in Seq(Byte)
    <3>1. p \in 0 .. Len(a)
      OBVIOUS
    <3> HIDE DEF a
    <3> QED BY <2>1, <3>1, SplitAt
  <2>6. Ahead # <<>>
    <3> DEFINE d == Doubled(v)
               dq == d \o q
               all == dq \o A
    <3>1. d \in Seq(Byte)
      BY <2>5, DoubledIs
    <3> HIDE DEF d, q, A
    <3>2. dq \in Seq(Byte) /\ Len(dq) = Len(d) + Len(q) /\ Len(d) \in Nat
      <4>1. Len(d) \in Nat
        BY <3>1
      <4> QED BY <2>4, <3>1, <4>1, JoinIs
    <3> HIDE DEF dq
    <3>3. all \in Seq(Byte) /\ Len(all) = Len(dq) + Len(A) /\ Len(A) \in Nat
      <4>1. Len(A) \in Nat
        BY <2>1
      <4> QED BY <2>1, <3>2, <4>1, JoinIs
    <3>4. Ahead = all
      BY <2>2 DEF dq, d
    <3> HIDE DEF all
    <3>5. all # <<>>
      BY <2>4, <3>2, <3>3
    <3> QED BY <3>4, <3>5
  <2>7. CASE p # Len(a)
    BY <1>1, <2>6, <2>7, NameLetterSent
  <2>8. CASE p = Len(a)
    <3>1. u = a /\ v = <<>>
      <4>1. p \in 0 .. Len(a)
        OBVIOUS
      <4> HIDE DEF a
      <4> QED BY <2>1, <2>8, <4>1, SplitAt
    <3>2. <<>> \o q = q
      BY <2>4, EmptyJoin
    <3>3. Doubled(v) = <<>>
      BY <3>1, DoubledIs
    <3>4. to = JoinedUpto(EndedOf(msg), k) \o msg.args[k + 1]
          /\ Ahead = <<Arguments!Quote>> \o After(msg, k + 1)
      BY <2>2, <3>1, <3>2, <3>3
    <3> QED BY <1>1, <2>6, <3>4, NameEndSent
  <2> QED BY <2>7, <2>8
<1>2. ASSUME inQuote = FALSE, NEW k \in 0 .. Len(msg.args) - 1, BeforeName(k)
      PROVE  QuotedSent' /\ (Ahead' # <<>> => Len(Ahead') <= left')
  BY <1>2, NameStartSent
<1>3. ASSUME inQuote = FALSE, PastWords
      PROVE  QuotedSent' /\ (Ahead' # <<>> => Len(Ahead') <= left')
  BY <1>3, PastNamesSent
<1>4. \/ /\ inQuote = TRUE
         /\ \E k \in 0 .. Len(msg.args) - 1 : \E p \in 0 .. Len(msg.args[k + 1]) :
              InName(k, SubSeq(msg.args[k + 1], 1, p),
                        SubSeq(msg.args[k + 1], p + 1, Len(msg.args[k + 1])))
      \/ inQuote = FALSE /\ \E k \in 0 .. Len(msg.args) - 1 : BeforeName(k)
      \/ inQuote = FALSE /\ PastWords
  BY DEF QuotedSent
<1> QED BY <1>1, <1>2, <1>3, <1>4

LEMMA BlanksTogether ==
    ASSUME NEW a \in Nat, NEW b \in Nat
    PROVE  Arguments!Blanks(a) \o Arguments!Blanks(b) = Arguments!Blanks(a + b)
<1> DEFINE s == Arguments!Blanks(a)
           t == Arguments!Blanks(b)
           r == Arguments!Blanks(a + b)
           l == s \o t
<1>1. s \in Seq(Byte) /\ Len(s) = a /\ \A i \in 1 .. a : s[i] = Arguments!Blank
  BY BlanksHave
<1>2. t \in Seq(Byte) /\ Len(t) = b /\ \A i \in 1 .. b : t[i] = Arguments!Blank
  BY BlanksHave
<1>3. a + b \in Nat
  OBVIOUS
<1>4. r \in Seq(Byte) /\ Len(r) = a + b /\ \A i \in 1 .. a + b : r[i] = Arguments!Blank
  BY <1>3, BlanksHave
<1> HIDE DEF s, t, r
<1>5. /\ l \in Seq(Byte) /\ Len(l) = a + b
      /\ \A i \in 1 .. a + b : l[i] = IF i <= a THEN s[i] ELSE t[i - a]
  BY <1>1, <1>2, JoinIs
<1> HIDE DEF l
<1>6. ASSUME NEW i \in 1 .. a + b PROVE l[i] = r[i]
  <2>1. CASE i <= a
    <3>1. i \in 1 .. a
      BY <2>1
    <3> QED BY <1>1, <1>4, <1>5, <2>1, <3>1
  <2>2. CASE ~(i <= a)
    <3>1. i - a \in 1 .. b
      BY <2>2
    <3> QED BY <1>2, <1>4, <1>5, <2>2, <3>1
  <2> QED BY <2>1, <2>2
<1>7. l = r
  BY <1>4, <1>5, <1>6, SameSequence
<1> QED BY <1>7 DEF l, r, s, t

\* The blanks in front of the first word are skipped.
LEMMA EnvEndsSent ==
    ASSUME Arguments!ParseArgsAssumption, Arguments!Sendable(msg), msg \in Messages,
           inQuote = FALSE, to = <<>>, Arguments!EnvEnds
    PROVE  /\ parsing' = "plain" => PlainSent'
           /\ parsing' = "quoted" => msg.way = "quoted" /\ QuotedSent'
           /\ Ahead' # <<>> => Len(Ahead') <= left'
<1> DEFINE n == Len(msg.args)
           CL == Arguments!CommandLine
           i == Len(CL) + msg.beyond
           b == Arguments!BlanksAt(1, i)
           Q == Arguments!Quote
<1>1. /\ msg' = msg /\ msg.way # "ARGV" /\ at' = 1 + b /\ left' = i - b
      /\ parsing' = (IF Arguments!Char(1 + b) = Q THEN "quoted" ELSE "plain")
      /\ to' = <<>> /\ inQuote' = FALSE
  BY DEF Arguments!EnvEnds
<1>2. /\ msg.before \in Nat /\ msg.after \in Nat /\ msg.beyond \in Nat
      /\ msg.way \in {"words", "quoted", "ARGV"}
  BY MessageIs DEF MessageSet
<1>3. n \in Nat /\ DOMAIN msg.args = 1 .. n
  BY ArgsAre
<1>4. CL \in Seq(Byte) /\ Len(CL) \in Nat
  <2>1. CL \in Seq(Byte)
    BY CommandLineIs DEF Arguments!CommandLine
  <2> HIDE DEF CL
  <2> QED BY <2>1
<1>5. From(1) = CL
  <2> HIDE DEF CL
  <2>1. SubSeq(CL, 1, Len(CL)) = CL
    BY <1>4, PartOfAll
  <2> QED BY <2>1 DEF From, Rest, CL
<1>6. CL = Arguments!Blanks(msg.before) \o After(msg, 0) /\ After(msg, 0) \in Seq(Byte)
  BY <1>1, CommandLineStarts
<1> HIDE DEF CL
<1>7. i \in Nat /\ Len(CL) <= i
  BY <1>2, <1>4
<1>8. ASSUME NEW d \in Nat, NEW Y \in Seq(Byte), From(1) = BlanksThen(d, Y), NoBlank(Y)
      PROVE  /\ b = d /\ Len(Y) \in Nat /\ Ahead' = Y /\ (Ahead' # <<>> => Len(Ahead') <= left')
             /\ Arguments!Char(1 + b) = IF Y = <<>> THEN Arguments!NUL ELSE Y[1]
  <2>1. /\ \A l \in Nat : d <= l => Arguments!BlanksAt(1, l) = d
        /\ Len(From(1)) = d + Len(Y) /\ Len(Y) \in Nat
        /\ Arguments!Char(1 + d) = IF Y = <<>> THEN Arguments!NUL ELSE Y[1]
        /\ msg' = msg /\ at' = 1 + d => Ahead' = Y
    <3> DEFINE z == 1
    <3>1. z \in Nat \ {0} /\ From(z) = BlanksThen(d, Y)
      BY <1>8
    <3> HIDE DEF z
    <3>2. /\ \A l \in Nat : d <= l => Arguments!BlanksAt(z, l) = d
          /\ Len(From(z)) = d + Len(Y) /\ Len(Y) \in Nat
          /\ Arguments!Char(z + d) = IF Y = <<>> THEN Arguments!NUL ELSE Y[1]
          /\ msg' = msg /\ at' = z + d => Ahead' = Y
      BY ONLY Arguments!ParseArgsAssumption, msg \in Messages, d \in Nat, Y \in Seq(Byte),
              NoBlank(Y), <3>1, BlanksFrom
    <3> QED BY <3>2 DEF z
  <2>2. d <= i
    BY <1>5, <1>7, <2>1
  <2>3. b = d
    BY <1>7, <2>1, <2>2
  <2>4. Ahead' = Y
    BY <1>1, <2>1, <2>3
  <2>5. Len(Y) <= left'
    BY <1>1, <1>5, <1>7, <2>1, <2>3
  <2> QED BY <2>1, <2>3, <2>4, <2>5
<1>9. CASE n > 0
  <2> DEFINE a == msg.args[1]
             A == After(msg, 1)
             Y == WordOf(msg, 1) \o A
  <2>1. 0 \in 0 .. n - 1 /\ 1 \in 1 .. n /\ 0 + 1 = 1 /\ 0 \in 0 .. n
    BY <1>3, <1>9
  <2>2. a \in Seq(Byte) /\ A \in Seq(Byte) /\ WordOf(msg, 1) \in Seq(Byte)
    <3>1. msg.args[0 + 1] \in Seq(Byte) /\ After(msg, 0 + 1) \in Seq(Byte) /\ WordOf(msg, 0 + 1) \in Seq(Byte)
      BY <2>1, PlaceOf
    <3> QED BY <2>1, <3>1
  <2>3. Y \in Seq(Byte) /\ From(1) = BlanksThen(msg.before, Y)
    <3>1. After(msg, 0) = Y
      BY <1>9, AfterIs
    <3> QED BY <1>5, <1>6, <3>1 DEF BlanksThen
  <2>4. JoinedUpto(EndedOf(msg), 0) = <<>>
    BY BufferGrows
  <2>5. CASE msg.way = "words"
    <3>1. a # <<>> /\ Arguments!Blank \notin Arguments!ToSet(a) /\ a[1] # Q
      <4>1. msg.args # <<>>
        BY <1>9
      <4> QED BY <1>3, <2>1, <2>5, <4>1 DEF Arguments!Sendable
    <3>2. WordOf(msg, 1) = a
      BY <2>5 DEF WordOf
    <3> DEFINE v == a \o A
    <3>3. v = Y
      BY <3>2
    <3> HIDE DEF Y, a, A
    <3>4. Len(a) \in Nat /\ Len(a) >= 1 /\ a[1] # Arguments!Blank
      <4>1. Len(a) \in Nat /\ Len(a) >= 1
        BY <2>2, <3>1
      <4>2. 1 \in DOMAIN a
        BY <2>2, <4>1
      <4> QED BY <3>1, <4>1, <4>2 DEF Arguments!ToSet
    <3>5. v # <<>> /\ v[1] = a[1]
      <4>1. /\ Len(v) = Len(a) + Len(A) /\ Len(A) \in Nat /\ v \in Seq(Byte)
            /\ \A k \in 1 .. Len(a) + Len(A) : v[k] = IF k <= Len(a) THEN a[k] ELSE A[k - Len(a)]
        <5>1. Len(A) \in Nat
          BY <2>2
        <5> QED BY <2>2, <5>1, JoinIs
      <4> HIDE DEF v
      <4>2. 1 \in 1 .. Len(a) + Len(A) /\ Len(v) >= 1
        BY <3>4, <4>1
      <4>3. v # <<>>
        BY <4>1, <4>2
      <4> QED BY <3>4, <4>1, <4>2, <4>3
    <3> HIDE DEF v
    <3>6. NoBlank(Y)
      BY <3>3, <3>4, <3>5 DEF NoBlank
    <3>7. /\ b = msg.before /\ Ahead' = Y /\ (Ahead' # <<>> => Len(Ahead') <= left')
          /\ Arguments!Char(1 + b) = Y[1]
      BY <1>2, <1>8, <2>3, <3>3, <3>5, <3>6
    <3>8. parsing' = "plain"
      BY <1>1, <3>1, <3>3, <3>5, <3>7
    <3>9. PlainSent'
      <4>1. SubSeq(a, 1, 0) = <<>> /\ SubSeq(a, 0 + 1, Len(a)) = a /\ 0 \in 0 .. Len(a)
        <5>1. 0 \in 0 .. Len(a)
          BY <3>4
        <5> QED BY <2>2, <5>1, SplitAt
      <4>2. to' = JoinedUpto(EndedOf(msg), 0) \o SubSeq(a, 1, 0)
        <5>1. <<>> \o <<>> = <<>>
          OBVIOUS
        <5> QED BY <1>1, <2>4, <4>1, <5>1
      <4>3. Ahead' = SubSeq(a, 0 + 1, Len(a)) \o A
        BY <3>3, <3>7, <4>1 DEF v
      <4> DEFINE k == 0
      <4>4. /\ k \in 0 .. Len(msg.args) - 1 /\ 0 \in 0 .. Len(msg.args[k + 1])
            /\ to' = JoinedUpto(EndedOf(msg), k) \o SubSeq(msg.args[k + 1], 1, 0)
            /\ Ahead' = SubSeq(msg.args[k + 1], 0 + 1, Len(msg.args[k + 1])) \o After(msg, k + 1)
        BY <2>1, <4>1, <4>2, <4>3 DEF a, A
      <4> HIDE DEF k
      <4> QED BY <1>1, <2>5, <4>4, PlainGoesOn
    <3> QED BY <3>7, <3>8, <3>9
  <2>6. CASE msg.way = "quoted"
    <3> DEFINE w == Doubled(a) \o <<Q>>
               Z == w \o A
    <3>1. WordOf(msg, 1) = <<Q>> \o w /\ w \in Seq(Byte)
      BY <2>2, <2>6, QuotedWord DEF WordOf
    <3>2. Q \in Byte /\ Q # Arguments!Blank
      BY BytesAre
    <3> HIDE DEF w, A, Q
    <3>3. Y = <<Q>> \o Z /\ Z \in Seq(Byte)
      <4> DEFINE one == <<Q>>
      <4>1. one \in Seq(Byte)
        BY <3>2
      <4>2. A \in Seq(Byte)
        BY <2>2
      <4>3. w \in Seq(Byte)
        BY <3>1
      <4>4. Y = (one \o w) \o A
        BY <3>1
      <4> HIDE DEF one
      <4>5. (one \o w) \o A = one \o (w \o A)
        BY ONLY <4>1, <4>2, <4>3, JoinAssociates
      <4>6. Z \in Seq(Byte)
        BY <4>2, <4>3, JoinIs
      <4> QED BY <4>4, <4>5, <4>6 DEF one
    <3> HIDE DEF Z
    <3>4. <<Q>> \o Z # <<>> /\ (<<Q>> \o Z)[1] = Q
      BY <3>2, <3>3, NotEmpty
    <3>5. Y # <<>> /\ Y[1] = Q
      BY <3>3, <3>4
    <3>6. NoBlank(Y)
      BY <3>2, <3>5 DEF NoBlank
    <3> HIDE DEF Y
    <3>7. /\ b = msg.before /\ Ahead' = Y /\ (Ahead' # <<>> => Len(Ahead') <= left')
          /\ Arguments!Char(1 + b) = Y[1]
      BY <1>2, <1>8, <2>3, <3>5, <3>6
    <3>8. parsing' = "quoted"
      BY <1>1, <3>5, <3>7
    <3>9. QuotedSent'
      <4> DEFINE k == 0
      <4>1. /\ k \in 0 .. Len(msg.args) - 1 /\ to' = JoinedUpto(EndedOf(msg), k)
            /\ Ahead' = WordOf(msg, k + 1) \o After(msg, k + 1)
        BY <1>1, <2>1, <2>4, <3>7 DEF Y, A
      <4> HIDE DEF k
      <4> QED BY <1>1, <4>1, NameComes
    <3> QED BY <2>6, <3>7, <3>8, <3>9
  <2> QED BY <1>1, <1>2, <2>5, <2>6
<1>10. CASE n = 0
  <2> DEFINE none == <<>>
             d == msg.before + msg.after
  <2>1. msg.way = "words"
    <3>1. msg.args = <<>>
      <4>1. msg.args \in Seq(Seq(Byte))
        BY ArgsAre
      <4> QED BY <1>10, <4>1
    <3> QED BY <1>1, <1>2, <3>1 DEF Arguments!Sendable
  <2>2. d \in Nat /\ none \in Seq(Byte) /\ Len(none) = 0
    BY <1>2
  <2>3. From(1) = BlanksThen(d, none)
    <3>1. After(msg, 0) = Arguments!Blanks(msg.after)
      BY <1>10, AfterIs
    <3>2. CL = Arguments!Blanks(d)
      BY <1>2, <1>6, <3>1, BlanksTogether
    <3>3. Arguments!Blanks(d) \in Seq(Byte)
      BY <2>2, BlanksHave
    <3>4. Arguments!Blanks(d) \o none = Arguments!Blanks(d)
      BY <3>3, EmptyJoin
    <3> QED BY <1>5, <3>2, <3>4 DEF BlanksThen
  <2>4. NoBlank(none)
    BY DEF NoBlank
  <2> HIDE DEF d
  <2>5. Ahead' = <<>> /\ Arguments!Char(1 + b) = Arguments!NUL
    <3>1. ASSUME NEW Y \in Seq(Byte), From(1) = BlanksThen(d, Y), NoBlank(Y), Y = <<>>
          PROVE  Ahead' = Y /\ Arguments!Char(1 + b) = Arguments!NUL
      BY <1>8, <2>2, <3>1
    <3> QED BY <2>2, <2>3, <2>4, <3>1
  <2>6. parsing' = "plain"
    BY <1>1, <2>5, BytesAre
  <2>7. PlainSent'
    <3>1. Joined(EndedOf(msg)) = <<>>
      BY <1>10, BufferGrows
    <3>2. Joined(EndedOf(msg)) \o Nuls(0) = <<>>
      <4>1. Nuls(0) = <<>> /\ <<>> \o <<>> = <<>>
        BY NulsAre
      <4> QED BY <3>1, <4>1
    <3>3. to' \in Seq(Byte) /\ 0 \in 0 .. Len(to')
      BY <1>1
    <3> QED BY <1>1, <2>5, <3>2, <3>3, PlainOver
  <2> QED BY <2>5, <2>6, <2>7
<1> QED BY <1>3, <1>9, <1>10

LEMMA OneNul ==
    Nuls(1) = <<Arguments!NUL>>
<1> DEFINE one == <<Arguments!NUL>>
           u == Nuls(1)
<1>1. one \in Seq(Byte) /\ Len(one) = 1 /\ one[1] = Arguments!NUL
  BY BytesAre
<1>2. 1 \in Nat
  OBVIOUS
<1>3. u \in Seq(Byte) /\ Len(u) = 1 /\ \A i \in 1 .. 1 : u[i] = Arguments!NUL
  BY <1>2, NulsAre
<1> HIDE DEF one, u
<1>4. \A i \in 1 .. 1 : u[i] = one[i]
  BY <1>1, <1>3
<1>5. u = one
  BY <1>1, <1>3, <1>4, SameSequence
<1> QED BY <1>5 DEF u, one

\* The strings behind ARGV= are collected: the first of them is the name of the program.
LEMMA FoundArgvSent ==
    ASSUME Arguments!ParseArgsAssumption, msg \in Messages, Arguments!FoundArgv
    PROVE  CollectSent' /\ nulls' = Arguments!NullList
<1> DEFINE E == EndedOf(msg)
           j == Joined(E)
           nul == Arguments!NUL
           tail == j \o <<nul>>
           P == Arguments!Ends(<<"p">>)
           F == Arguments!ArgvStrings
           none == <<"p">>
<1>1. /\ msg' = msg /\ nulls' = Arguments!NullList /\ argv' = << none >>
      /\ rest' = SubSeq(F, 3, Len(F))
  BY DEF Arguments!FoundArgv
<1>2. E \in Seq(Seq(Byte)) /\ Len(E) = Len(msg.args) /\ Len(msg.args) \in Nat
  BY ArgsAre
<1>3. j \in Seq(Byte) /\ nul \in Byte
  BY <1>2, JoinedMore, BytesAre
<1>4. P \in Seq(Byte) /\ Len(P) = 2 /\ 2 \in Nat
  <2> DEFINE x == "p"
  <2>1. x \in Byte
    BY DEF Byte
  <2> DEFINE one == <<x>>
  <2> HIDE DEF x
  <2>2. one \in Seq(Byte) /\ Len(one) = 1
    BY <2>1
  <2> HIDE DEF one, nul
  <2>3. Append(one, nul) \in Seq(Byte) /\ Len(Append(one, nul)) = Len(one) + 1
    BY <1>3, <2>2, LongerByOne
  <2>4. P = Append(one, nul)
    BY DEF Arguments!Ends, one, nul, x
  <2>5. 1 + 1 = 2 /\ 2 \in Nat
    OBVIOUS
  <2> HIDE DEF P
  <2> QED BY <2>2, <2>3, <2>4, <2>5
<1>5. F = (P \o j) \o <<nul>>
  <2>1. E = [k \in DOMAIN msg.args |->
               Arguments!Ends(IF msg.args[k] = <<>> THEN <<Arguments!Blank>> ELSE msg.args[k])]
    BY DEF EndedOf, GivenOf
  <2>2. F = (P \o Arguments!FlattenSeq([k \in DOMAIN msg.args |->
               Arguments!Ends(IF msg.args[k] = <<>> THEN <<Arguments!Blank>> ELSE msg.args[k])]))
              \o <<nul>>
    BY DEF Arguments!ArgvStrings
  <2>3. Arguments!FlattenSeq(E) = j
    BY DEF Joined, Arguments!FlattenSeq
  <2> HIDE DEF F, P, E, j, nul
  <2> QED BY <2>1, <2>2, <2>3
<1>6. tail \in Seq(Byte) /\ (P \o j) \o <<nul>> = P \o tail /\ F \in Seq(Byte)
      /\ Len(tail) \in Nat /\ Len(tail) >= 1
  <2> DEFINE one == <<nul>>
  <2>1. one \in Seq(Byte) /\ Len(one) = 1
    BY <1>3
  <2> HIDE DEF one, j, P, nul
  <2>2. (P \o j) \o one = P \o (j \o one)
    BY <1>3, <1>4, <2>1, JoinAssociates
  <2>3. j \o one \in Seq(Byte) /\ Len(j \o one) = Len(j) + Len(one)
    BY <1>3, <2>1, JoinIs
  <2>4. P \o (j \o one) \in Seq(Byte)
    BY <1>4, <2>3, JoinIs
  <2>5. Len(j) \in Nat
    BY <1>3
  <2> QED BY <1>5, <2>1, <2>2, <2>3, <2>4, <2>5 DEF one
<1> HIDE DEF E, j, nul, P, F, tail
<1>7. Rest(F, 1 + 2) = tail
  <2> DEFINE z == 1
             n == 2
  <2>1. Rest(F, z) = P \o tail
    <3>1. SubSeq(F, 1, Len(F)) = F
      BY <1>6, PartOfAll
    <3> QED BY <1>5, <1>6, <3>1 DEF Rest
  <2>2. z \in Nat \ {0} /\ n \in Nat /\ Len(P) = n
    BY <1>4
  <2> HIDE DEF z, n
  <2>3. P \in Seq(Byte)
    BY <1>4
  <2>4. tail \in Seq(Byte)
    BY <1>6
  <2>5. F \in Seq(Byte)
    BY <1>6
  <2>6. Rest(F, z + n) = tail
    BY ONLY <2>1, <2>2, <2>3, <2>4, <2>5, RestMoves
  <2> QED BY <2>6 DEF z, n
<1>8. rest' = tail
  BY <1>1, <1>7 DEF Rest
<1>9. rest' = JoinedBehind(E, 0) \o Nuls(1)
  <2>1. JoinedBehind(E, 0) = j
    BY <1>2, JoinedInTwo DEF j
  <2>2. Nuls(1) = <<nul>>
    BY OneNul DEF nul
  <2> QED BY <1>8, <2>1, <2>2 DEF tail
<1>10. Len(argv') = 0 + 1
  BY <1>1
<1>11. 0 \in 0 .. Len(msg.args) /\ 1 \in 1 .. Len(rest')
  BY <1>2, <1>6, <1>8
<1>12. E' = E
  BY <1>1, SentFrame DEF E
<1>13. CollectSent'
  <2>1. rest' = JoinedBehind(EndedOf(msg), 0)' \o Nuls(1)
    BY <1>9, <1>12 DEF E, JoinedBehind
  <2> QED BY SMTT(60), <1>1, <1>10, <1>11, <2>1 DEF CollectSent
<1> QED BY <1>1, <1>13

\* The NULs that end the buffer end its last argument, or stand behind it.
LEMMA CollectBegins ==
    ASSUME Arguments!ParseArgsAssumption, msg \in Messages, msg' = msg, argv' = argv, Len(argv) = 1,
           rest' \in Seq(Byte), NEW n \in Nat \ {0}, rest' = Joined(EndedOf(msg)) \o Nuls(n)
    PROVE  CollectSent'
<1> DEFINE E == EndedOf(msg)
           j == Joined(E)
           u == Nuls(n)
<1>1. E \in Seq(Seq(Byte)) /\ Len(E) = Len(msg.args) /\ Len(msg.args) \in Nat
  BY ArgsAre
<1>2. j \in Seq(Byte) /\ u \in Seq(Byte) /\ Len(u) = n
  <2>1. j \in Seq(Byte)
    BY <1>1, JoinedMore
  <2>2. n \in Nat
    OBVIOUS
  <2> QED BY <2>1, <2>2, NulsAre
<1>3. rest' = j \o u
  OBVIOUS
<1> HIDE DEF E, j, u
<1>4. n \in 1 .. Len(rest')
  <2>1. Len(j \o u) = Len(j) + Len(u) /\ Len(j) \in Nat
    <3>1. Len(j) \in Nat
      BY <1>2
    <3> QED BY <1>2, <3>1, JoinIs
  <2> QED BY <1>2, <1>3, <2>1
<1>5. rest' = JoinedBehind(EndedOf(msg), 0)' \o Nuls(n)
  <2>1. JoinedBehind(E, 0) = j
    BY <1>1, JoinedInTwo DEF j
  <2>2. E' = E
    BY SentFrame DEF E
  <2>3. JoinedBehind(EndedOf(msg), 0)' = JoinedBehind(E, 0)
    BY <2>2 DEF E, JoinedBehind
  <2> QED BY <1>3, <2>1, <2>3 DEF u
<1>6. 0 \in 0 .. Len(msg.args) /\ Len(argv) = 0 + 1
  BY <1>1
<1>7. \A q \in 1 .. 0 : argv'[q + 1] = GivenOf(msg)'[q]
  OBVIOUS
<1>8. Len(argv') = 0 + 1 /\ 0 \in 0 .. Len(msg'.args)
  BY <1>6
<1> QED BY <1>4, <1>5, <1>7, <1>8 DEF CollectSent

LEMMA TwoNuls ==
    ASSUME NEW s \in Seq(Byte), NEW t \in Seq(Byte), NEW n \in Nat, s = t \o Nuls(n)
    PROVE  s \o <<Arguments!NUL, Arguments!NUL>> = t \o Nuls((n + 1) + 1)
           /\ s \o <<Arguments!NUL, Arguments!NUL>> \in Seq(Byte)
<1> DEFINE nul == Arguments!NUL
           u == Nuls(n)
           two == <<nul, nul>>
           v == Nuls((n + 1) + 1)
<1>1. nul \in Byte
  BY BytesAre
<1>2. u \in Seq(Byte) /\ Append(Append(u, nul), nul) = v
  <2>1. n + 1 \in Nat
    OBVIOUS
  <2>2. Append(Nuls(n), Arguments!NUL) = Nuls(n + 1) /\ Nuls(n) \in Seq(Byte)
    BY NulsAre
  <2>3. Append(Nuls(n + 1), Arguments!NUL) = Nuls((n + 1) + 1)
    BY <2>1, NulsAre
  <2> QED BY <2>2, <2>3
<1>3. two \in Seq(Byte) /\ Len(two) = 2 /\ two[1] = nul /\ two[2] = nul
  BY <1>1
<1> HIDE DEF u, v, nul
<1>4. Append(Append(u, nul), nul) = u \o two
  <2> DEFINE a == Append(u, nul)
             l == Append(a, nul)
             r == u \o two
             m1 == Len(u)
  <2>1. m1 \in Nat
    BY <1>2
  <2>2. a \in Seq(Byte) /\ Len(a) = m1 + 1 /\ a[m1 + 1] = nul /\ \A i \in 1 .. m1 : a[i] = u[i]
    BY <1>1, <1>2, LongerByOne
  <2> HIDE DEF a
  <2>3. /\ l \in Seq(Byte) /\ Len(l) = Len(a) + 1 /\ l[Len(a) + 1] = nul
        /\ \A i \in 1 .. Len(a) : l[i] = a[i]
    BY <1>1, <2>2, LongerByOne
  <2> HIDE DEF two
  <2>4. /\ r \in Seq(Byte) /\ Len(r) = m1 + Len(two)
        /\ \A i \in 1 .. m1 + Len(two) : r[i] = IF i <= m1 THEN u[i] ELSE two[i - m1]
    BY <1>2, <1>3, JoinIs
  <2> HIDE DEF l, r, m1
  <2>5. ASSUME NEW i \in 1 .. m1 + 2 PROVE l[i] = r[i]
    <3>1. CASE i <= m1
      <4>1. i \in 1 .. m1 /\ i \in 1 .. Len(a) /\ i \in 1 .. m1 + Len(two)
        BY <1>3, <2>1, <2>2, <3>1
      <4> QED BY <2>2, <2>3, <2>4, <3>1, <4>1
    <3>2. CASE i = m1 + 1
      <4>1. i \in 1 .. Len(a) /\ i \in 1 .. m1 + Len(two) /\ ~(i <= m1) /\ i - m1 = 1
        BY <1>3, <2>1, <2>2, <3>2
      <4>2. l[i] = nul
        BY <2>2, <2>3, <3>2, <4>1
      <4>3. r[i] = two[i - m1]
        BY <2>4, <4>1
      <4> QED BY <1>3, <4>1, <4>2, <4>3
    <3>3. CASE i = m1 + 2
      <4>1. i = Len(a) + 1 /\ i \in 1 .. m1 + Len(two) /\ ~(i <= m1) /\ i - m1 = 2
        BY <1>3, <2>1, <2>2, <3>3
      <4>2. l[i] = nul
        BY <2>3, <4>1
      <4>3. r[i] = two[i - m1]
        BY <2>4, <4>1
      <4> QED BY <1>3, <4>1, <4>2, <4>3
    <3> QED BY <2>1, <3>1, <3>2, <3>3
  <2>6. l = r
    <3>1. Len(l) = m1 + 2 /\ Len(r) = m1 + 2
      BY <1>3, <2>1, <2>2, <2>3, <2>4
    <3> QED BY <2>3, <2>4, <2>5, <3>1, SameSequence
  <2> QED BY <2>6 DEF l, r, a
<1> HIDE DEF two
<1>5. (t \o u) \o two = t \o (u \o two)
  BY SMTT(60), <1>2, <1>3, JoinAssociates
<1>6. s \o two \in Seq(Byte)
  BY <1>3, JoinIs
<1> QED BY <1>2, <1>4, <1>5, <1>6 DEF two, v, nul, u

\* The buffer is complete when nothing is left of the command line.
LEMMA CommandLineEndsSent ==
    ASSUME Arguments!ParseArgsAssumption, Arguments!Sendable(msg), msg \in Messages,
           at \in Nat \ {0}, left \in -1 .. 127, to \in Seq(Byte), inQuote \in BOOLEAN,
           parsing = "plain" => PlainSent, parsing = "quoted" => msg.way = "quoted" /\ QuotedSent,
           Ahead # <<>> => Len(Ahead) <= left, Len(argv) = 1, Arguments!CommandLineEnds
    PROVE  CollectSent'
<1> DEFINE j == Joined(EndedOf(msg))
           two == <<Arguments!NUL, Arguments!NUL>>
           n == Len(msg.args)
<1>1. /\ parsing \in {"plain", "quoted"} /\ left <= 0 /\ msg' = msg /\ argv' = argv
      /\ rest' = to \o two
  BY DEF Arguments!CommandLineEnds
<1>2. Ahead = <<>>
  <2>1. Ahead \in Seq(Byte)
    BY AheadIs
  <2> DEFINE A == Ahead
  <2> HIDE DEF A
  <2>2. A \in Seq(Byte) /\ (A # <<>> => Len(A) <= 0)
    BY <1>1, <2>1 DEF A
  <2>3. A = <<>>
    BY <2>2
  <2> QED BY <2>3 DEF A
<1>3. j \in Seq(Byte)
  <2>1. EndedOf(msg) \in Seq(Seq(Byte))
    BY ArgsAre
  <2> QED BY <2>1, JoinedMore
<1>4. ASSUME PastWords PROVE CollectSent'
  <2>1. PICK m1 \in 0 .. Len(to) : to = j \o Nuls(m1)
    BY <1>4 DEF PastWords
  <2>2. m1 \in Nat
    BY <2>1
  <2> HIDE DEF j
  <2>3. rest' = j \o Nuls((m1 + 1) + 1) /\ rest' \in Seq(Byte)
    BY <1>1, <1>3, <2>1, <2>2, TwoNuls
  <2>4. (m1 + 1) + 1 \in Nat \ {0}
    BY <2>2
  <2> QED BY <1>1, <2>3, <2>4, CollectBegins DEF j
<1>5. ASSUME msg.way = "words",
             NEW k \in 0 .. Len(msg.args) - 1, NEW p \in 0 .. Len(msg.args[k + 1]),
             InWord(k, SubSeq(msg.args[k + 1], 1, p),
                       SubSeq(msg.args[k + 1], p + 1, Len(msg.args[k + 1])))
      PROVE  CollectSent'
  <2> DEFINE a == msg.args[k + 1]
             u == SubSeq(a, 1, p)
             v == SubSeq(a, p + 1, Len(a))
             A == After(msg, k + 1)
             k1 == k + 1
  <2>1. /\ n \in Nat /\ k1 \in 1 .. n /\ k1 \in 0 .. n /\ a \in Seq(Byte) /\ A \in Seq(Byte)
        /\ (k1 # n => k1 \in 0 .. n - 1 /\ k1 \in 1 .. n - 1)
        /\ JoinedUpto(EndedOf(msg), k) \in Seq(Byte)
    BY PlaceOf
  <2>2. u \o v = a /\ to = JoinedUpto(EndedOf(msg), k) \o u /\ v \o A = <<>>
    BY <1>2, <1>5 DEF InWord, Divides
  <2>3. v \in Seq(Byte) /\ u \in Seq(Byte)
    <3>1. p \in 0 .. Len(a)
      OBVIOUS
    <3> HIDE DEF a
    <3> QED BY <2>1, <3>1, SplitAt
  <2>4. a # <<>>
    <3>1. DOMAIN msg.args = 1 .. n
      BY ArgsAre
    <3> QED BY <1>5, <2>1, <3>1 DEF Arguments!Sendable
  <2>5. v = <<>> /\ A = <<>>
    <3> HIDE DEF v, A
    <3>1. Len(v \o A) = Len(v) + Len(A) /\ Len(v) \in Nat /\ Len(A) \in Nat
      <4>1. Len(v) \in Nat /\ Len(A) \in Nat
        BY <2>1, <2>3
      <4> QED BY <2>1, <2>3, <4>1, JoinIs
    <3>2. Len(v) = 0 /\ Len(A) = 0
      <4>1. Len(v \o A) = 0
        BY <2>2
      <4> QED BY <3>1, <4>1
    <3> QED BY <2>1, <2>3, <3>2
  <2>6. k1 = n
    <3> SUFFICES ASSUME k1 # n PROVE FALSE
      OBVIOUS
    <3> DEFINE Y == WordOf(msg, k1 + 1) \o After(msg, k1 + 1)
               bl == Arguments!Blanks(msg.between)
    <3>1. A = bl \o Y /\ Y \in Seq(Byte)
      BY <2>1, AfterIs
    <3>2. msg.between \in Nat /\ msg.between > 0
      <4>1. msg.args # <<>>
        BY <2>1
      <4> QED BY <1>5, <4>1, MessageIs DEF Arguments!Sendable, MessageSet
    <3>3. bl \in Seq(Byte) /\ Len(bl) = msg.between
      BY <3>2, BlanksHave
    <3> HIDE DEF bl, Y, A
    <3>4. Len(bl \o Y) = Len(bl) + Len(Y) /\ Len(Y) \in Nat
      <4>1. Len(Y) \in Nat
        BY <3>1
      <4> QED BY <3>1, <3>3, <4>1, JoinIs
    <3>5. Len(bl \o Y) = 0
      BY <2>5, <3>1
    <3> QED BY <3>2, <3>3, <3>4, <3>5
  <2>7. u = a
    <3> HIDE DEF u, v, a
    <3>1. u \o <<>> = u
      BY <2>3, EmptyJoin
    <3> QED BY <2>2, <2>5, <3>1
  <2>8. Append(to, Arguments!NUL) = j
    <3>1. Append(JoinedUpto(EndedOf(msg), k) \o a, Arguments!NUL) = JoinedUpto(EndedOf(msg), k1)
      BY <2>4, BufferGrows
    <3>2. JoinedUpto(EndedOf(msg), n) = j
      BY BufferGrows
    <3> QED BY <2>2, <2>6, <2>7, <3>1, <3>2
  <2>9. rest' = j \o Nuls(1)
    <3> DEFINE nul == Arguments!NUL
               one == <<nul>>
    <3>1. nul \in Byte
      BY BytesAre
    <3>2. one \in Seq(Byte) /\ two = one \o one
      <4> HIDE DEF nul
      <4> DEFINE none == <<>>
                 pair == <<nul, nul>>
      <4>1. one \in Seq(Byte) /\ pair \in Seq(Byte) /\ none \in Seq(Byte)
        BY <3>1
      <4> HIDE DEF none
      <4>2. pair \o none = one \o (one \o none)
        BY SMTT(60), <3>1, <4>1, TwoAhead
      <4> HIDE DEF one, pair
      <4>3. pair \o none = pair /\ one \o none = one
        BY <4>1, EmptyJoin DEF none
      <4>4. pair = two
        BY DEF pair, nul
      <4> QED BY <4>1, <4>2, <4>3, <4>4
    <3>3. Append(to, nul) = to \o one
      BY <3>1, AppendJoins
    <3>4. Nuls(1) = one
      BY OneNul
    <3> HIDE DEF one, nul, two
    <3>5. (to \o one) \o one = to \o (one \o one)
      <4>1. one \in Seq(Byte)
        BY <3>2
      <4> QED BY ONLY to \in Seq(Byte), <4>1, JoinAssociates
    <3> QED BY <1>1, <2>8, <3>2, <3>3, <3>4, <3>5 DEF nul
  <2>10. rest' \in Seq(Byte)
    <3> HIDE DEF j
    <3>1. Nuls(1) \in Seq(Byte)
      BY NulsAre
    <3> QED BY <1>3, <2>9, <3>1, JoinIs
  <2>11. 1 \in Nat \ {0}
    OBVIOUS
  <2> QED BY <1>1, <2>9, <2>10, <2>11, CollectBegins
<1>6. ASSUME NEW k \in 0 .. Len(msg.args) - 1, NEW v \in Seq(Byte), NEW x \in Seq(Byte),
             Ahead = (x \o <<Arguments!Quote>>) \o After(msg, k + 1)
      PROVE  FALSE
  <2> DEFINE q == <<Arguments!Quote>>
             A == After(msg, k + 1)
             xq == x \o q
  <2>1. A \in Seq(Byte)
    BY PlaceOf
  <2>2. q \in Seq(Byte) /\ Len(q) = 1
    BY BytesAre
  <2> HIDE DEF q, A
  <2>3. xq \in Seq(Byte) /\ Len(xq) = Len(x) + Len(q) /\ Len(x) \in Nat
    <3>1. Len(x) \in Nat
      OBVIOUS
    <3> QED BY <2>2, <3>1, JoinIs
  <2> HIDE DEF xq
  <2>4. Len(xq \o A) = Len(xq) + Len(A) /\ Len(A) \in Nat
    <3>1. Len(A) \in Nat
      BY <2>1
    <3> QED BY <2>1, <2>3, <3>1, JoinIs
  <2>5. xq \o A = <<>>
    BY <1>2, <1>6 DEF xq, q, A
  <2>6. Len(xq \o A) = 0
    BY <2>5
  <2> QED BY <2>2, <2>3, <2>4, <2>6
<1>7. ASSUME NEW k \in 0 .. Len(msg.args) - 1, NEW p \in 0 .. Len(msg.args[k + 1]),
             InName(k, SubSeq(msg.args[k + 1], 1, p),
                       SubSeq(msg.args[k + 1], p + 1, Len(msg.args[k + 1])))
      PROVE  FALSE
  <2> DEFINE a == msg.args[k + 1]
             v == SubSeq(a, p + 1, Len(a))
  <2>1. a \in Seq(Byte)
    BY PlaceOf
  <2>2. v \in Seq(Byte)
    <3>1. p \in 0 .. Len(a)
      OBVIOUS
    <3> HIDE DEF a
    <3> QED BY <2>1, <3>1, SplitAt
  <2>3. Doubled(v) \in Seq(Byte)
    BY <2>2, DoubledIs
  <2>4. Ahead = (Doubled(v) \o <<Arguments!Quote>>) \o After(msg, k + 1)
    BY <1>7 DEF InName
  <2> QED BY <1>6, <2>2, <2>3, <2>4
<1>8. ASSUME msg.way = "quoted", NEW k \in 0 .. Len(msg.args) - 1, BeforeName(k)
      PROVE  FALSE
  <2> DEFINE a == msg.args[k + 1]
             q == <<Arguments!Quote>>
             x == q \o Doubled(a)
  <2>1. a \in Seq(Byte)
    BY PlaceOf
  <2>2. Doubled(a) \in Seq(Byte) /\ q \in Seq(Byte)
    BY <2>1, DoubledIs, BytesAre
  <2>3. WordOf(msg, k + 1) = x \o q
    <3> DEFINE d == Doubled(a)
    <3>1. WordOf(msg, k + 1) = q \o (d \o q)
      BY <1>8, <2>1, QuotedWord DEF WordOf
    <3>2. d \in Seq(Byte)
      BY <2>2
    <3>3. q \in Seq(Byte)
      BY <2>2
    <3> HIDE DEF d, q
    <3>4. (q \o d) \o q = q \o (d \o q)
      BY ONLY <3>2, <3>3, JoinAssociates
    <3> QED BY <3>1, <3>4 DEF d
  <2>4. x \in Seq(Byte)
    BY <2>2, JoinIs
  <2>5. Ahead = (x \o q) \o After(msg, k + 1)
    BY <1>8, <2>3 DEF BeforeName
  <2> HIDE DEF x
  <2> QED BY <1>6, <2>1, <2>4, <2>5
<1>9. CASE parsing = "plain"
  BY <1>4, <1>5, <1>9 DEF PlainSent
<1>10. CASE parsing = "quoted"
  BY <1>4, <1>7, <1>8, <1>10 DEF QuotedSent
<1> QED BY <1>1, <1>9, <1>10

\* A string without a NUL; where NULs stand.
NoNul(s) == \A i \in 1 .. Len(s) : s[i] # Arguments!NUL
NulsIn(s) == {j \in 1 .. Len(s) : s[j] = Arguments!NUL}

\* A string that is followed by its NUL, and by something more.
LEMMA FirstNul ==
    ASSUME NEW r \in Seq(Byte), NEW g \in Seq(Byte), NEW Z \in Seq(Byte),
           NoNul(g), r = Append(g, Arguments!NUL) \o Z
    PROVE  /\ NulsIn(r) # {} /\ Arguments!Min(NulsIn(r)) = Len(g) + 1
           /\ Len(r) = Len(g) + 1 + Len(Z)
           /\ \A i \in 1 .. Len(g) : r[i] = g[i]
<1> DEFINE I == NulsIn(r)
           nul == Arguments!NUL
           e == Append(g, nul)
           l == Len(g)
           p == l + 1
<1>0. I = {j \in 1 .. Len(r) : r[j] = nul} /\ \A i \in 1 .. l : g[i] # nul
  BY DEF NoNul, NulsIn
<1> HIDE DEF I
<1>1. nul \in Byte
  BY BytesAre
<1>2. l \in Nat /\ Len(Z) \in Nat
  OBVIOUS
<1>3. e \in Seq(Byte) /\ Len(e) = l + 1 /\ e[l + 1] = nul /\ \A i \in 1 .. l : e[i] = g[i]
  BY <1>1, LongerByOne
<1>4. r = e \o Z
  OBVIOUS
<1> HIDE DEF e
<1>5. /\ Len(r) = Len(e) + Len(Z)
      /\ \A i \in 1 .. Len(e) + Len(Z) : r[i] = IF i <= Len(e) THEN e[i] ELSE Z[i - Len(e)]
  <2>1. e \in Seq(Byte)
    BY <1>3
  <2> QED BY ONLY Z \in Seq(Byte), <2>1, <1>4, JoinIs
<1>6. \A i \in 1 .. l : r[i] = g[i]
  <2>1. ASSUME NEW i \in 1 .. l PROVE r[i] = g[i]
    <3>1. i \in 1 .. Len(e) + Len(Z) /\ i <= Len(e)
      BY <1>2, <1>3
    <3> QED BY <1>3, <1>5, <3>1
  <2> QED BY <2>1
<1>7. p \in 1 .. Len(r) /\ r[p] = nul
  <2>1. p \in 1 .. Len(e) + Len(Z) /\ p <= Len(e)
    BY <1>2, <1>3
  <2> QED BY <1>3, <1>5, <2>1
<1>8. p \in I
  BY <1>0, <1>7
<1>9. \A j \in I : p <= j
  <2>1. ASSUME NEW j \in I, ~(p <= j) PROVE FALSE
    <3>1. j \in 1 .. Len(r) /\ r[j] = nul
      BY <1>0
    <3>2. j \in 1 .. l
      BY <1>2, <2>1, <3>1
    <3>3. r[j] = g[j] /\ g[j] # nul
      BY <1>0, <1>6, <3>2
    <3> QED BY <3>1, <3>3
  <2> QED BY <2>1
<1>10. \A j \in I : j \in Nat
  BY <1>0
<1> HIDE DEF p, nul
<1>11. Arguments!Min(I) = p
  <2> DEFINE least == CHOOSE x \in I : \A y \in I : x <= y
  <2>1. least \in I /\ \A y \in I : least <= y
    BY <1>8, <1>9
  <2> HIDE DEF least
  <2>2. least <= p /\ p <= least /\ least \in Nat /\ p \in Nat
    BY <1>8, <1>9, <1>10, <2>1
  <2>3. least = p
    BY <2>2
  <2> QED BY <2>3 DEF Arguments!Min, least
<1>12. I # {}
  BY <1>8
<1> QED BY <1>2, <1>3, <1>5, <1>6, <1>11, <1>12 DEF p, I

\* That string, and what is behind it.
LEMMA StringTaken ==
    ASSUME NEW r \in Seq(Byte), NEW g \in Seq(Byte), NEW Z \in Seq(Byte),
           NoNul(g), r = Append(g, Arguments!NUL) \o Z
    PROVE  SubSeq(r, 1, Len(g)) = g /\ SubSeq(r, (Len(g) + 1) + 1, Len(r)) = Z
<1> DEFINE nul == Arguments!NUL
           e == Append(g, nul)
           l == Len(g)
           z == 1
           u == SubSeq(r, 1, l)
           p == l + 1
<1>1. nul \in Byte
  BY BytesAre
<1>2. l \in Nat /\ Len(Z) \in Nat
  OBVIOUS
<1>3. e \in Seq(Byte) /\ Len(e) = p
  BY <1>1, LongerByOne
<1>4. Len(r) = l + 1 + Len(Z) /\ \A i \in 1 .. l : r[i] = g[i]
  BY FirstNul
<1>5. u \in Seq(Byte) /\ Len(u) = l /\ \A i \in 1 .. l : u[i] = r[i]
  BY <1>2, <1>4
<1> HIDE DEF u
<1>6. u = g
  BY <1>4, <1>5, SameSequence
<1>7. Rest(r, z) = e \o Z
  <2>1. SubSeq(r, 1, Len(r)) = r
    BY PartOfAll
  <2> QED BY <2>1 DEF Rest
<1>8. z \in Nat \ {0} /\ p \in Nat
  BY <1>2
<1> HIDE DEF e, p, z
<1>9. e \in Seq(Byte)
  BY <1>3
<1>10. Len(e) = p
  BY <1>3
<1>11. Rest(r, z + p) = Z
  BY ONLY r \in Seq(Byte), Z \in Seq(Byte), <1>7, <1>8, <1>9, <1>10, RestMoves
<1>12. z + p = (Len(g) + 1) + 1
  BY <1>2 DEF z, p
<1> QED BY <1>6, <1>11, <1>12 DEF u, Rest

\* An argument that is not collected yet is the next string.
LEMMA GivenAhead ==
    ASSUME Arguments!ParseArgsAssumption, Arguments!Sendable(msg), msg \in Messages,
           NEW k \in 0 .. Len(msg.args) - 1, NEW m0 \in Nat,
           rest = JoinedBehind(EndedOf(msg), k) \o Nuls(m0)
    PROVE  /\ GivenOf(msg)[k + 1] \in Seq(Byte) /\ GivenOf(msg)[k + 1] # <<>>
           /\ NoNul(GivenOf(msg)[k + 1])
           /\ JoinedBehind(EndedOf(msg), k + 1) \o Nuls(m0) \in Seq(Byte)
           /\ Len(JoinedBehind(EndedOf(msg), k + 1) \o Nuls(m0)) >= m0
           /\ rest = Append(GivenOf(msg)[k + 1], Arguments!NUL)
                       \o (JoinedBehind(EndedOf(msg), k + 1) \o Nuls(m0))
<1> DEFINE E == EndedOf(msg)
           G == GivenOf(msg)
           len == Len(msg.args)
           nul == Arguments!NUL
           N0 == Nuls(m0)
<1>4. /\ E \in Seq(Seq(Byte)) /\ Len(E) = len /\ len \in Nat /\ DOMAIN msg.args = 1 .. len
      /\ \A j \in 1 .. len : /\ msg.args[j] \in Seq(Byte) /\ G[j] \in Seq(Byte)
                             /\ G[j] = IF msg.args[j] = <<>> THEN <<Arguments!Blank>> ELSE msg.args[j]
                             /\ E[j] = Append(G[j], nul)
  BY ArgsAre
<1>5. /\ \A j \in 0 .. len : JoinedBehind(E, j) \in Seq(Byte)
      /\ \A j \in 0 .. len - 1 : JoinedBehind(E, j) = E[j + 1] \o JoinedBehind(E, j + 1)
  <2> HIDE DEF E
  <2>1. E \in Seq(Seq(Byte))
    BY <1>4
  <2> QED BY <1>4, <2>1, JoinedInTwo
<1>7. N0 \in Seq(Byte) /\ Len(N0) = m0
  BY NulsAre
<1>3. rest = JoinedBehind(E, k) \o N0
  OBVIOUS
<1> HIDE DEF E, G, len, nul, N0
<1> DEFINE k1 == k + 1
           g == G[k1]
           JB == JoinedBehind(E, k1)
           Z == JB \o N0
<1>9. k1 \in 1 .. len /\ k1 \in 0 .. len /\ k \in 0 .. len - 1
  BY <1>4 DEF len
<1>10. JB \in Seq(Byte) /\ Z \in Seq(Byte) /\ Len(Z) = Len(JB) + m0 /\ Len(JB) \in Nat
  <2>1. JB \in Seq(Byte)
    BY <1>5, <1>9
  <2> HIDE DEF JB
  <2>3. Len(JB) \in Nat
    BY <2>1
  <2> QED BY <1>7, <2>1, <2>3, JoinIs
<1>11. g \in Seq(Byte) /\ g = (IF msg.args[k1] = <<>> THEN <<Arguments!Blank>> ELSE msg.args[k1])
       /\ E[k1] = Append(g, nul) /\ msg.args[k1] \in Seq(Byte)
  BY <1>4, <1>9
<1>12. \A i \in 1 .. Len(g) : g[i] # nul
  <2>1. CASE msg.args[k1] = <<>>
    <3> DEFINE one == <<Arguments!Blank>>
    <3>1. Len(one) = 1 /\ one[1] = Arguments!Blank
      OBVIOUS
    <3>2. g = one
      BY <1>11, <2>1
    <3>3. Arguments!Blank # nul
      BY BytesAre DEF nul
    <3> HIDE DEF one, g
    <3>4. \A i \in 1 .. Len(g) : i = 1
      <4>1. Len(g) = 1
        BY <3>1, <3>2
      <4> QED BY <4>1
    <3> QED BY <3>1, <3>2, <3>3, <3>4
  <2>2. CASE msg.args[k1] # <<>>
    <3> DEFINE a == msg.args[k1]
    <3>1. g = a
      BY <1>11, <2>2
    <3>2. nul \notin Arguments!ToSet(a)
      <4>1. k1 \in DOMAIN msg.args
        BY <1>4, <1>9
      <4> QED BY <4>1 DEF Arguments!Sendable, nul
    <3>3. a \in Seq(Byte)
      BY <1>11
    <3> HIDE DEF a, g
    <3>4. \A i \in 1 .. Len(a) : a[i] # nul
      BY <3>2, <3>3 DEF Arguments!ToSet
    <3> QED BY <3>1, <3>4
  <2> QED BY <2>1, <2>2
<1>13. rest = Append(g, nul) \o Z
  <2> DEFINE e == Append(g, nul)
  <2>1. JoinedBehind(E, k) = e \o JB
    BY <1>5, <1>9, <1>11
  <2>2. e \in Seq(Byte)
    <3>1. nul \in Byte
      BY BytesAre DEF nul
    <3> HIDE DEF g
    <3> QED BY <1>11, <3>1, LongerByOne
  <2>3. N0 \in Seq(Byte)
    BY <1>7
  <2>4. JB \in Seq(Byte)
    BY <1>10
  <2> HIDE DEF e, JB
  <2>5. (e \o JB) \o N0 = e \o (JB \o N0)
    BY ONLY <2>2, <2>3, <2>4, JoinAssociates
  <2> QED BY <1>3, <2>1, <2>5 DEF e
<1>14. g # <<>>
  <2>1. <<Arguments!Blank>> # <<>>
    OBVIOUS
  <2> HIDE DEF g
  <2> QED BY <1>11, <2>1
<1>15. NoNul(g)
  BY <1>12 DEF NoNul, nul
<1>16. Len(Z) >= m0
  <2> HIDE DEF Z, JB
  <2> QED BY <1>10
<1> QED BY <1>10, <1>11, <1>13, <1>14, <1>15, <1>16 DEF G, E, N0, nul

\* An argument is collected, and the others are still ahead.
LEMMA ArgumentSent ==
    ASSUME Arguments!ParseArgsAssumption, Arguments!Sendable(msg), msg \in Messages,
           rest \in Seq(Byte), argv \in Seq(Seq(Byte)), CollectSent, Arguments!Argument
    PROVE  CollectSent'
<1> DEFINE E == EndedOf(msg)
           G == GivenOf(msg)
           len == Len(msg.args)
           nul == Arguments!NUL
           I == {j \in 1 .. Len(rest) : rest[j] = nul}
           n == IF I # {} THEN Arguments!Min(I) ELSE 0
<1>1. /\ msg' = msg /\ rest[1] # nul
      /\ argv' = Append(argv, SubSeq(rest, 1, n - 1)) /\ rest' = SubSeq(rest, n + 1, Len(rest))
  BY DEF Arguments!Argument, Arguments!SelectInSeq
<1>2. PICK k \in 0 .. len : /\ Len(argv) = k + 1
                            /\ \A j \in 1 .. k : argv[j + 1] = G[j]
                            /\ \E m0 \in 1 .. Len(rest) : rest = JoinedBehind(E, k) \o Nuls(m0)
  BY DEF CollectSent
<1>3. PICK m0 \in 1 .. Len(rest) : rest = JoinedBehind(E, k) \o Nuls(m0)
  BY <1>2
<1>4. /\ E \in Seq(Seq(Byte)) /\ Len(E) = len /\ len \in Nat /\ DOMAIN msg.args = 1 .. len
      /\ G \in Seq(Seq(Byte)) /\ Len(G) = len
      /\ \A j \in 1 .. len : /\ msg.args[j] \in Seq(Byte) /\ G[j] \in Seq(Byte)
                             /\ G[j] = IF msg.args[j] = <<>> THEN <<Arguments!Blank>> ELSE msg.args[j]
                             /\ E[j] = Append(G[j], nul)
  BY ArgsAre
<1>5. /\ JoinedBehind(E, len) = <<>>
      /\ \A j \in 0 .. len : JoinedBehind(E, j) \in Seq(Byte)
      /\ \A j \in 0 .. len - 1 : JoinedBehind(E, j) = E[j + 1] \o JoinedBehind(E, j + 1)
  <2> HIDE DEF E
  <2>1. E \in Seq(Seq(Byte))
    BY <1>4
  <2> QED BY <1>4, <2>1, JoinedInTwo
<1>6. m0 \in Nat \ {0}
  OBVIOUS
<1>7. Nuls(m0) \in Seq(Byte) /\ Len(Nuls(m0)) = m0 /\ \A i \in 1 .. m0 : Nuls(m0)[i] = nul
  <2>1. m0 \in Nat
    BY <1>6
  <2> QED BY <2>1, NulsAre
<1> DEFINE N0 == Nuls(m0)
<1> HIDE DEF E, G, len, nul, N0
<1>8. k # len
  <2> SUFFICES ASSUME k = len PROVE FALSE
    OBVIOUS
  <2>1. <<>> \o N0 = N0
    <3>1. N0 \in Seq(Byte)
      BY <1>7 DEF N0
    <3> QED BY <3>1, EmptyJoin
  <2>2. rest = N0
    BY <1>3, <1>5, <2>1 DEF N0
  <2>3. 1 \in 1 .. m0
    BY <1>6
  <2> QED BY <1>1, <1>7, <2>2, <2>3 DEF N0
<1> DEFINE k1 == k + 1
           g == G[k1]
           JB == JoinedBehind(E, k1)
           Z == JB \o N0
<1>9. /\ k1 \in 1 .. len /\ k1 \in 0 .. len /\ k \in 0 .. len - 1 /\ k \in Nat
      /\ k1 \in Nat
  BY <1>4, <1>8
<1>10. /\ g \in Seq(Byte) /\ Z \in Seq(Byte) /\ Len(Z) >= m0 /\ NoNul(g)
       /\ rest = Append(g, Arguments!NUL) \o Z
  <2>1. m0 \in Nat
    BY <1>6
  <2> QED BY <1>3, <1>9, <2>1, GivenAhead DEF G, E, len, N0
<1> HIDE DEF g, Z, JB, I
<1>a. g \in Seq(Byte)
  BY <1>10
<1>b. Z \in Seq(Byte)
  BY <1>10
<1>c. NoNul(g)
  BY <1>10
<1>d. rest = Append(g, Arguments!NUL) \o Z
  BY <1>10
<1>e. I = NulsIn(rest)
  BY DEF I, nul, NulsIn
<1>14. I # {} /\ Arguments!Min(I) = Len(g) + 1
  BY ONLY rest \in Seq(Byte), <1>a, <1>b, <1>c, <1>d, <1>e, FirstNul
<1>15. SubSeq(rest, 1, Len(g)) = g /\ SubSeq(rest, (Len(g) + 1) + 1, Len(rest)) = Z
  BY ONLY rest \in Seq(Byte), <1>a, <1>b, <1>c, <1>d, StringTaken
<1>16. n = Len(g) + 1 /\ n - 1 = Len(g)
  BY <1>14, <1>a
<1> HIDE DEF n
<1>17. argv' = Append(argv, g) /\ rest' = Z
  BY <1>1, <1>15, <1>16
<1>18. /\ Len(argv') = Len(argv) + 1 /\ argv'[Len(argv) + 1] = g
       /\ \A i \in 1 .. Len(argv) : argv'[i] = argv[i]
  <2> DEFINE T == Seq(Byte)
  <2>1. argv \in Seq(T) /\ g \in T
    BY <1>a
  <2> HIDE DEF T
  <2> QED BY <1>17, <2>1, LongerByOne
<1>19. Len(argv') = k1 + 1
  BY <1>2, <1>18
<1>20. ASSUME NEW j \in 1 .. k1 PROVE argv'[j + 1] = G[j]
  <2>1. CASE j = k1
    BY <1>2, <1>18, <2>1 DEF g
  <2>2. CASE j # k1
    <3>1. j \in 1 .. k /\ j + 1 \in 1 .. Len(argv)
      BY <1>2, <1>9, <2>2
    <3> QED BY <1>2, <1>18, <3>1
  <2> QED BY <2>1, <2>2
<1>21. m0 \in 1 .. Len(rest')
  <2>1. Len(Z) \in Nat
    BY <1>b
  <2> QED BY <1>6, <1>10, <1>17, <2>1
<1>22. E' = E /\ G' = G /\ len' = len
  BY <1>1, SentFrame DEF E, G, len
<1>23. rest' = JoinedBehind(EndedOf(msg), k1)' \o Nuls(m0)
  BY <1>17, <1>22 DEF E, JB, Z, N0, JoinedBehind
<1>24. \A j \in 1 .. k1 : argv'[j + 1] = GivenOf(msg)'[j]
  BY <1>20, <1>22 DEF G
<1>25. k1 \in 0 .. Len(msg'.args)
  BY <1>1, <1>9 DEF len
<1> HIDE DEF k1
<1> QED BY <1>19, <1>21, <1>23, <1>24, <1>25 DEF CollectSent

\* The list of the empty arguments: their numbers, and at most one more behind them.
Number(a, k) == IF a = <<>> THEN <<k>> ELSE <<>>
NullPieces(w) == [k \in DOMAIN w.args |-> Number(w.args[k], k)]

LEMMA NullPiecesJoin ==
    ASSUME Arguments!ParseArgsAssumption, NEW w \in Messages
    PROVE  /\ Joined(NullPieces(w)) \in Seq(Nat \ {0})
           /\ NumbersOf(Joined(NullPieces(w))) = {x \in 1 .. Len(w.args) : w.args[x] = <<>>}
<1> DEFINE P == NullPieces(w)
           A == w.args
           n == Len(A)
           S == Nat \ {0}
           none == <<>>
           Holds(k) == NumbersOf(JoinedUpto(P, k)) = {x \in 1 .. k : A[x] = none}
           H == {k \in Nat : k <= n => Holds(k)}
<1>1. n \in Nat /\ DOMAIN A = 1 .. n
  BY ArgsAre
<1>2. ASSUME NEW k \in 1 .. n
      PROVE  /\ Number(A[k], k) \in Seq(S)
             /\ NumbersOf(Number(A[k], k)) = {x \in {k} : A[x] = none}
  <2>1. CASE A[k] = none
    <3> DEFINE one == <<k>>
    <3>1. one \in Seq(S) /\ Len(one) = 1 /\ one[1] = k
      OBVIOUS
    <3>2. Number(A[k], k) = one
      BY <2>1 DEF Number
    <3> HIDE DEF one
    <3>3. NumbersOf(one) = {k}
      BY <3>1 DEF NumbersOf
    <3>4. {x \in {k} : A[x] = none} = {k}
      BY <2>1
    <3> QED BY <3>1, <3>2, <3>3, <3>4
  <2>2. CASE A[k] # none
    <3>1. Number(A[k], k) = none
      BY <2>2 DEF Number
    <3>2. none \in Seq(S) /\ Len(none) = 0
      OBVIOUS
    <3> HIDE DEF none
    <3>3. NumbersOf(none) = {}
      BY <3>2 DEF NumbersOf
    <3>4. {x \in {k} : A[x] = none} = {}
      BY <2>2
    <3> QED BY <3>1, <3>2, <3>3, <3>4
  <2> QED BY <2>1, <2>2
<1>3. P \in Seq(Seq(S)) /\ Len(P) = n /\ \A k \in 1 .. n : P[k] = Number(A[k], k)
  <2> DEFINE T == Seq(S)
  <2>1. P = [k \in 1 .. n |-> Number(A[k], k)]
    BY <1>1 DEF NullPieces
  <2>2. \A k \in 1 .. n : Number(A[k], k) \in T
    BY <1>2
  <2> HIDE DEF T, P, n, A
  <2>3. P \in Seq(T) /\ Len(P) = n /\ \A k \in 1 .. n : P[k] = Number(A[k], k)
    BY <1>1, <2>1, <2>2
  <2> QED BY <2>3 DEF T
<1> DEFINE zero == 0
<1>4. /\ JoinedUpto(P, zero) = none /\ JoinedUpto(P, n) = Joined(P)
      /\ \A k \in 0 .. n : JoinedUpto(P, k) \in Seq(S)
      /\ \A k \in 0 .. n - 1 :
           P[k + 1] \in Seq(S) /\ JoinedUpto(P, k + 1) = JoinedUpto(P, k) \o P[k + 1]
  <2> HIDE DEF P, n
  <2>1. P \in Seq(Seq(S))
    BY <1>3
  <2> QED BY <1>3, <2>1, JoinedInTwo
<1> HIDE DEF P, A, n
<1>5. 0 \in H
  <2>1. none \in Seq(S) /\ Len(none) = 0
    OBVIOUS
  <2> HIDE DEF none
  <2>2. NumbersOf(none) = {}
    BY <2>1 DEF NumbersOf
  <2>3. {x \in 1 .. zero : A[x] = none} = {}
    OBVIOUS
  <2>4. Holds(zero)
    BY <1>4, <2>2, <2>3
  <2> QED BY <2>4
<1>6. ASSUME NEW k \in Nat, k \in H PROVE k + 1 \in H
  <2> SUFFICES ASSUME k + 1 <= n PROVE Holds(k + 1)
    OBVIOUS
  <2>1. k \in 0 .. n - 1 /\ k \in 0 .. n /\ k + 1 \in 1 .. n /\ k <= n
    BY <1>1
  <2>2. NumbersOf(JoinedUpto(P, k)) = {x \in 1 .. k : A[x] = none}
    BY <1>6, <2>1
  <2> DEFINE J == JoinedUpto(P, k)
             p == P[k + 1]
  <2>3. J \in Seq(S) /\ p \in Seq(S) /\ JoinedUpto(P, k + 1) = J \o p
    BY <1>4, <2>1
  <2>4. NumbersOf(p) = {x \in {k + 1} : A[x] = none}
    BY <1>2, <1>3, <2>1
  <2> HIDE DEF J, p, S
  <2>5. NumbersOf(J \o p) = NumbersOf(J) \cup NumbersOf(p)
    BY ONLY <2>3, NumbersJoin
  <2>6. \A x : x \in 1 .. k + 1 <=> x \in 1 .. k \/ x \in {k + 1}
    OBVIOUS
  <2>7. {x \in 1 .. k + 1 : A[x] = none} = {x \in 1 .. k : A[x] = none} \cup {x \in {k + 1} : A[x] = none}
    BY <2>6
  <2> QED BY <2>2, <2>3, <2>4, <2>5, <2>7 DEF J
<1>7. Nat \subseteq H
  <2> HIDE DEF H
  <2> QED BY <1>5, <1>6, SetInduction
<1>8. Holds(n)
  BY <1>1, <1>7
<1>9. n \in 0 .. n
  BY <1>1
<1> QED BY <1>4, <1>8, <1>9 DEF P, n, A

LEMMA NullListIs ==
    ASSUME Arguments!ParseArgsAssumption, msg \in Messages
    PROVE  /\ Arguments!NullList \in Seq(Nat \ {0})
           /\ \A k \in 1 .. Len(msg.args) :
                msg.args[k] = <<>> <=> \E q \in 1 .. Len(Arguments!NullList) : Arguments!NullList[q] = k
           /\ \A q \in 1 .. Len(Arguments!NullList) :
                Arguments!NullList[q] > Len(msg.args) => q = Len(Arguments!NullList)
<1> DEFINE P == NullPieces(msg)
           J == Joined(P)
           n == Len(msg.args)
           more == n + msg.beyond
           T == IF msg.beyond > 0 THEN <<more>> ELSE <<>>
           S == Nat \ {0}
           N == Arguments!NullList
           A == msg.args
           none == <<>>
<1>1. n \in Nat
  BY ArgsAre
<1>2. msg.beyond \in Nat
  BY MessageIs DEF MessageSet
<1>3. N = J \o T
  BY DEF Arguments!NullList, Arguments!FlattenSeq, Joined, NullPieces, Number
<1>4. J \in Seq(S) /\ NumbersOf(J) = {x \in 1 .. n : A[x] = none}
  BY NullPiecesJoin
<1> HIDE DEF J, N, P, n, A, none
<1>5. T \in Seq(S) /\ Len(T) \in 0 .. 1 /\ \A x \in NumbersOf(T) : x > n
  <2>1. CASE msg.beyond > 0
    <3> DEFINE one == <<more>>
    <3>1. more \in S /\ more > n
      BY <1>1, <1>2, <2>1
    <3>2. T = one
      BY <2>1
    <3> HIDE DEF more, T
    <3>3. one \in Seq(S) /\ Len(one) = 1 /\ one[1] = more
      BY <3>1
    <3> HIDE DEF one, S
    <3>4. \A x \in NumbersOf(one) : x = more
      BY <3>3 DEF NumbersOf
    <3> QED BY <3>1, <3>2, <3>3, <3>4
  <2>2. CASE ~(msg.beyond > 0)
    <3> DEFINE nothing == <<>>
    <3>1. T = nothing
      BY <2>2
    <3>2. nothing \in Seq(S) /\ Len(nothing) = 0
      OBVIOUS
    <3> HIDE DEF T, nothing
    <3>3. NumbersOf(nothing) = {}
      BY <3>2 DEF NumbersOf
    <3> QED BY <3>1, <3>2, <3>3
  <2> QED BY <2>1, <2>2
<1> HIDE DEF T, S
<1>6. N \in Seq(S)
  BY <1>3, <1>4, <1>5, JoinIs
<1>7. NumbersOf(N) = NumbersOf(J) \cup NumbersOf(T)
  BY <1>3, <1>4, <1>5, NumbersJoin
<1>8. ASSUME NEW k \in 1 .. n
      PROVE  A[k] = none <=> \E q \in 1 .. Len(N) : N[q] = k
  <2>1. k \in NumbersOf(N) <=> \E q \in 1 .. Len(N) : N[q] = k
    BY DEF NumbersOf
  <2>2. ~(k > n)
    BY <1>1
  <2>3. k \in NumbersOf(N) <=> A[k] = none
    BY <1>4, <1>5, <1>7, <2>2
  <2> QED BY <2>1, <2>3
<1>9. ASSUME NEW q \in 1 .. Len(N), N[q] > n PROVE q = Len(N)
  <2>1. /\ Len(N) = Len(J) + Len(T) /\ Len(J) \in Nat
        /\ \A i \in 1 .. Len(J) + Len(T) : N[i] = IF i <= Len(J) THEN J[i] ELSE T[i - Len(J)]
    <3>1. Len(J) \in Nat
      BY <1>4
    <3> QED BY <1>3, <1>4, <1>5, <3>1, JoinIs
  <2>2. ~(q <= Len(J))
    <3> SUFFICES ASSUME q <= Len(J) PROVE FALSE
      OBVIOUS
    <3>1. q \in 1 .. Len(J) /\ q \in 1 .. Len(J) + Len(T)
      BY <1>5, <2>1
    <3>2. J[q] \in NumbersOf(J) /\ J[q] = N[q]
      BY <2>1, <3>1 DEF NumbersOf
    <3>3. N[q] \in 1 .. n
      BY <1>4, <3>2
    <3> QED BY <1>1, <1>9, <3>3
  <2> QED BY <1>5, <2>1, <2>2
<1> QED BY <1>6, <1>8, <1>9 DEF N, S, A, n, none

\* What was sent as a blank and what was not: the arguments are all collected.
LEMMA ArgumentsEndSent ==
    ASSUME Arguments!ParseArgsAssumption, Arguments!Sendable(msg), msg \in Messages,
           CollectSent, nulls = IF msg.way = "ARGV" THEN Arguments!NullList ELSE <<>>,
           Arguments!ArgumentsEnd
    PROVE  NullsSent'
<1> DEFINE n == Len(msg.args)
           A == msg.args
           G == GivenOf(msg)
           none == <<>>
<1>1. msg' = msg /\ argv' = argv /\ nulls' = nulls /\ rest[1] = Arguments!NUL
  BY DEF Arguments!ArgumentsEnd
<1>2. /\ n \in Nat /\ DOMAIN A = 1 .. n
      /\ \A j \in 1 .. n : G[j] = IF A[j] = none THEN <<Arguments!Blank>> ELSE A[j]
  BY ArgsAre
<1>3. PICK k \in 0 .. n : /\ Len(argv) = k + 1
                          /\ \A j \in 1 .. k : argv[j + 1] = G[j]
                          /\ \E m0 \in 1 .. Len(rest) : rest = JoinedBehind(EndedOf(msg), k) \o Nuls(m0)
  BY DEF CollectSent
<1>4. k = n
  <2> SUFFICES ASSUME k # n PROVE FALSE
    OBVIOUS
  <2>1. PICK m0 \in 1 .. Len(rest) : rest = JoinedBehind(EndedOf(msg), k) \o Nuls(m0)
    BY <1>3
  <2> DEFINE g == G[k + 1]
             Z == JoinedBehind(EndedOf(msg), k + 1) \o Nuls(m0)
  <2>2. m0 \in Nat
    BY <2>1
  <2>3. k \in 0 .. n - 1
    BY <1>2
  <2>4. /\ g \in Seq(Byte) /\ g # none /\ NoNul(g) /\ Z \in Seq(Byte)
        /\ rest = Append(g, Arguments!NUL) \o Z
    BY <2>1, <2>2, <2>3, GivenAhead
  <2> HIDE DEF g, Z
  <2>5. rest \in Seq(Byte)
    <3> DEFINE e == Append(g, Arguments!NUL)
    <3>1. Arguments!NUL \in Byte
      BY BytesAre
    <3>2. e \in Seq(Byte)
      BY <2>4, <3>1, LongerByOne
    <3> HIDE DEF e
    <3>3. e \o Z \in Seq(Byte)
      BY <2>4, <3>2, JoinIs
    <3> QED BY <2>4, <3>3 DEF e
  <2>6. \A i \in 1 .. Len(g) : rest[i] = g[i]
    BY <2>4, <2>5, FirstNul
  <2>7. 1 \in 1 .. Len(g)
    BY <2>4
  <2>8. g[1] # Arguments!NUL
    BY <2>4, <2>7 DEF NoNul
  <2> QED BY <1>1, <2>6, <2>7, <2>8
<1>5. Len(argv) = n + 1 /\ \A j \in 1 .. n : argv[j + 1] = G[j]
  BY <1>3, <1>4
<1>6. /\ nulls \in Seq(Nat \ {0})
      /\ \A j \in 1 .. n : A[j] = none <=> \E q \in 1 .. Len(nulls) : nulls[q] = j
      /\ \A q \in 1 .. Len(nulls) : nulls[q] > n => q = Len(nulls)
  <2>1. CASE msg.way = "ARGV"
    <3>1. nulls = Arguments!NullList
      BY <2>1
    <3> QED BY <3>1, NullListIs
  <2>2. CASE msg.way # "ARGV"
    <3>1. nulls = none /\ msg.way \in {"words", "quoted", "ARGV"}
      BY <2>2, MessageIs DEF MessageSet
    <3>2. \A j \in 1 .. n : A[j] # none
      BY <1>2, <2>2, <3>1 DEF Arguments!Sendable
    <3>3. none \in Seq(Nat \ {0}) /\ Len(none) = 0
      OBVIOUS
    <3>4. \A q : ~(q \in 1 .. Len(nulls))
      <4>1. Len(nulls) = 0
        BY <3>1
      <4> QED BY <4>1
    <3>5. nulls \in Seq(Nat \ {0})
      BY <3>1, <3>3
    <3> HIDE DEF A, n, none
    <3> QED BY ONLY <3>2, <3>4, <3>5
  <2> QED BY <2>1, <2>2
<1> HIDE DEF A, n, G
<1>7. ASSUME NEW j \in 1 .. n
      PROVE  IF A[j] = <<>> THEN argv[j + 1] = <<>> \/ \E q \in 1 .. Len(nulls) : nulls[q] = j
             ELSE argv[j + 1] = A[j] /\ \A q \in 1 .. Len(nulls) : nulls[q] # j
  BY <1>2, <1>5, <1>6
<1> QED BY SMTT(60), <1>1, <1>2, <1>5, <1>6, <1>7 DEF NullsSent, A, n

\* An argument of the list becomes empty; a number that is no argument's ends the list.
LEMMA EmptyArgumentSent ==
    ASSUME Arguments!ParseArgsAssumption, msg \in Messages, argv \in Seq(Seq(Byte)),
           NullsSent, Arguments!EmptyArgument
    PROVE  NullsSent'
<1> DEFINE n == Len(msg.args)
           A == msg.args
           none == <<>>
           h == nulls[1]
           N == Len(nulls)
           S == Nat \ {0}
<1>1. /\ msg' = msg /\ nulls # <<>>
      /\ IF Head(nulls) < Len(argv)
         THEN argv' = [argv EXCEPT ![Head(nulls) + 1] = <<>>] /\ nulls' = Tail(nulls)
         ELSE nulls' = <<>> /\ argv' = argv
  BY DEF Arguments!EmptyArgument
<1>2. n \in Nat /\ DOMAIN A = 1 .. n
  BY ArgsAre
<1>3. /\ Len(argv) = n + 1 /\ nulls \in Seq(S)
      /\ \A k \in 1 .. n : A[k] = none => argv[k + 1] = none \/ \E q \in 1 .. N : nulls[q] = k
      /\ \A k \in 1 .. n : A[k] # none => argv[k + 1] = A[k] /\ \A q \in 1 .. N : nulls[q] # k
      /\ \A q \in 1 .. N : nulls[q] > n => q = N
  <2> HIDE DEF none, S
  <2> QED BY <1>2 DEF NullsSent, none, S
<1>4. N \in Nat /\ N >= 1 /\ 1 \in 1 .. N /\ h \in S /\ Head(nulls) = h
  BY <1>1, <1>3
<1> DEFINE Sent(a, l) ==
             /\ Len(a) = n + 1 /\ l \in Seq(S)
             /\ \A k \in 1 .. n : A[k] = none => a[k + 1] = none \/ \E q \in 1 .. Len(l) : l[q] = k
             /\ \A k \in 1 .. n : A[k] # none => a[k + 1] = A[k] /\ \A q \in 1 .. Len(l) : l[q] # k
             /\ \A q \in 1 .. Len(l) : l[q] > n => q = Len(l)
<1>5. ASSUME Sent(argv', nulls') PROVE NullsSent'
  <2> DEFINE a == argv'
             l == nulls'
  <2>1. Sent(a, l)
    BY <1>5
  <2>2. msg'.args = A /\ Len(msg'.args) = n
    BY <1>1
  <2> HIDE DEF a, l, none, S, A, n
  <2>3. /\ Len(a) = n + 1 /\ l \in Seq(S)
        /\ \A k \in 1 .. n : IF A[k] = none THEN a[k + 1] = none \/ \E q \in 1 .. Len(l) : l[q] = k
                             ELSE a[k + 1] = A[k] /\ \A q \in 1 .. Len(l) : l[q] # k
        /\ \A q \in 1 .. Len(l) : l[q] > n => q = Len(l)
    BY <2>1
  <2> QED BY <1>2, <2>2, <2>3 DEF NullsSent, a, l, none, S
<1> HIDE DEF n, A, none, h, N, S
<1>6. CASE h < Len(argv)
  <2> DEFINE a == argv'
             l == nulls'
             T == Seq(Byte)
             M == n + 1
  <2>1. nulls' = Tail(nulls) /\ argv' = [argv EXCEPT ![h + 1] = none]
    BY <1>1, <1>4, <1>6 DEF none
  <2>2. l \in Seq(S) /\ Len(l) = N - 1 /\ \A q \in 1 .. N - 1 : l[q] = nulls[q + 1]
    <3>1. Tail(nulls) \in Seq(S) /\ Len(Tail(nulls)) = N - 1
          /\ \A q \in 1 .. N - 1 : Tail(nulls)[q] = nulls[q + 1]
      BY <1>1, <1>3, <1>4 DEF N
    <3> QED BY <2>1, <3>1
  <2>3. Len(a) = M /\ \A j \in 1 .. M : a[j] = IF j = h + 1 THEN none ELSE argv[j]
    <3>1. argv \in Seq(T) /\ Len(argv) = M
      BY <1>3
    <3> DEFINE b == [j \in 1 .. M |-> IF j = h + 1 THEN none ELSE argv[j]]
    <3>2. none \in T
      BY DEF none
    <3> HIDE DEF T, M, none
    <3>3. [argv EXCEPT ![h + 1] = none] = b
      <4>1. DOMAIN argv = 1 .. M /\ argv = [j \in DOMAIN argv |-> argv[j]]
        BY <3>1
      <4> DEFINE d == h + 1
      <4> HIDE DEF d
      <4>2. [argv EXCEPT ![d] = none] = [j \in 1 .. M |-> IF j = d THEN none ELSE argv[j]]
        BY <4>1
      <4> QED BY <4>2 DEF d
    <3>4. M \in Nat /\ \A j \in 1 .. M : argv[j] \in T
      BY <3>1
    <3>5. b \in [1 .. M -> T]
      BY <3>2, <3>4
    <3>6. b \in Seq(T) /\ Len(b) = M
      <4> HIDE DEF b
      <4> QED BY <3>4, <3>5
    <3>7. a = b
      BY <2>1, <3>3
    <3>8. \A j \in 1 .. M : b[j] = IF j = h + 1 THEN none ELSE argv[j]
      OBVIOUS
    <3> HIDE DEF a, b
    <3> QED BY <3>6, <3>7, <3>8
  <2>4. h \in Nat /\ h >= 1 /\ h <= n
    BY <1>2, <1>3, <1>4, <1>6 DEF S, n
  <2> HIDE DEF a, l
  <2>5. ASSUME NEW k \in 1 .. n, A[k] = none
        PROVE  a[k + 1] = none \/ \E q \in 1 .. Len(l) : l[q] = k
    <3>1. k + 1 \in 1 .. M /\ k \in Nat
      BY <1>2 DEF n
    <3>2. CASE k = h
      BY <2>3, <3>1, <3>2
    <3>3. CASE k # h
      <4>1. a[k + 1] = argv[k + 1]
        <5>1. k + 1 # h + 1
          BY <2>4, <3>1, <3>3
        <5> QED BY <2>3, <3>1, <5>1
      <4>2. CASE argv[k + 1] = none
        BY <4>1, <4>2
      <4>3. CASE argv[k + 1] # none
        <5>1. PICK q \in 1 .. N : nulls[q] = k
          BY <1>3, <2>5, <4>3
        <5>2. q # 1
          BY <3>3, <5>1 DEF h
        <5>3. q - 1 \in 1 .. N - 1 /\ (q - 1) + 1 = q
          BY <1>4, <5>2
        <5>4. l[q - 1] = k
          BY <2>2, <5>1, <5>3
        <5> QED BY <2>2, <5>3, <5>4
      <4> QED BY <4>2, <4>3
    <3> QED BY <3>2, <3>3
  <2>6. ASSUME NEW k \in 1 .. n, A[k] # none
        PROVE  a[k + 1] = A[k] /\ \A q \in 1 .. Len(l) : l[q] # k
    <3>1. argv[k + 1] = A[k] /\ \A q \in 1 .. N : nulls[q] # k
      BY <1>3, <2>6
    <3>2. k # h
      BY <1>4, <3>1 DEF h
    <3>3. k + 1 \in 1 .. M /\ k + 1 # h + 1
      BY <1>2, <2>4, <3>2
    <3>4. a[k + 1] = A[k]
      BY <2>3, <3>1, <3>3
    <3>5. ASSUME NEW q \in 1 .. N - 1 PROVE l[q] # k
      <4>1. q + 1 \in 1 .. N
        BY <1>4
      <4> QED BY <2>2, <3>1, <4>1
    <3> QED BY <2>2, <3>4, <3>5
  <2>7. ASSUME NEW q \in 1 .. Len(l), l[q] > n PROVE q = Len(l)
    <3>1. q \in 1 .. N - 1 /\ q + 1 \in 1 .. N /\ nulls[q + 1] > n
      BY <1>4, <2>2, <2>7
    <3>2. q + 1 = N
      BY <1>3, <3>1
    <3> QED BY <2>2, <3>1, <3>2
  <2>8. Sent(a, l)
    BY <2>2, <2>3, <2>5, <2>6, <2>7
  <2> HIDE DEF Sent
  <2> QED BY <1>5, <2>8 DEF a, l
<1>7. CASE ~(h < Len(argv))
  <2>1. nulls' = <<>> /\ argv' = argv
    BY <1>1, <1>4, <1>7
  <2>2. h > n
    BY <1>2, <1>3, <1>4, <1>7 DEF S
  <2>3. N = 1
    BY <1>3, <1>4, <2>2 DEF h
  <2> DEFINE l == <<>>
  <2>4. l \in Seq(S) /\ Len(l) = 0
    OBVIOUS
  <2> HIDE DEF l
  <2>5. ASSUME NEW k \in 1 .. n, A[k] = none PROVE argv[k + 1] = none
    <3>1. \A q \in 1 .. N : nulls[q] # k
      <4>1. \A q \in 1 .. N : q = 1
        BY <2>3
      <4>2. h # k
        BY <1>2, <1>4, <2>2 DEF S
      <4> QED BY <4>1, <4>2 DEF h
    <3> QED BY <1>3, <2>5, <3>1
  <2>6. \A q : ~(q \in 1 .. Len(l))
    BY <2>4
  <2>7. Sent(argv, l)
    BY <1>3, <2>4, <2>5, <2>6
  <2> HIDE DEF Sent
  <2> QED BY <1>5, <2>1, <2>7 DEF l
<1> QED BY <1>6, <1>7

\* Nothing is left of the list: every argument is what it should be.
LEMMA ReturnsSent ==
    ASSUME NullsSent, nulls = <<>>
    PROVE  /\ Len(argv) = Len(msg.args) + 1
           /\ \A k \in DOMAIN msg.args : argv[k + 1] = msg.args[k]
<1>1. Len(nulls) = 0
  OBVIOUS
<1>2. \A q : ~(q \in 1 .. Len(nulls))
  BY <1>1
<1> QED BY <1>2 DEF NullsSent

\* The steps of parseargs.
LEMMA SentTypes ==
    ASSUME ArgsInv
    PROVE  /\ msg \in Messages /\ at \in Nat \ {0} /\ left \in -1 .. 127 /\ inQuote \in BOOLEAN
           /\ to \in Seq(Byte) /\ rest \in Seq(Byte) /\ argv \in Seq(Seq(Byte))
           /\ parsing = "env" => to = <<>>
  BY DEF ArgsInv, Arguments!TypeOK

LEMMA EnvKeepsSent ==
    ASSUME Arguments!ParseArgsAssumption, Arguments!Sendable(msg), ArgsInv, SentInv,
           Arguments!EnvString \/ Arguments!FoundArgv \/ Arguments!EnvEnds
    PROVE  SentInv'
<1>1. /\ msg \in Messages /\ at \in Nat \ {0} /\ to \in Seq(Byte)
      /\ parsing = "env" => to = <<>>
  BY SentTypes
<1>2. parsing = "env" /\ msg' = msg
  BY DEF Arguments!EnvString, Arguments!FoundArgv, Arguments!EnvEnds
<1>3. EnvSent /\ inQuote = FALSE /\ nulls = <<>> /\ to = <<>>
  BY <1>1, <1>2 DEF SentInv
<1>4. MeantBy(msg)' = MeantBy(msg) /\ Arguments!NullList' = Arguments!NullList
  BY <1>2, SentFrame
<1>5. CASE Arguments!EnvString
  <2>1. parsing' = "env" /\ inQuote' = inQuote /\ nulls' = nulls
    BY <1>2, <1>5 DEF Arguments!EnvString
  <2>2. EnvSent'
    BY <1>1, <1>3, <1>5, EnvStringSent
  <2>3. inQuote' = FALSE
    BY <1>3, <2>1
  <2>4. nulls' = <<>>
    BY <1>3, <2>1
  <2> QED BY <2>1, <2>2, <2>3, <2>4 DEF SentInv
<1>6. CASE Arguments!FoundArgv
  <2>1. parsing' = "collect" /\ environ' = environ /\ at > Len(Arguments!EnvStrings) /\ msg'.way = "ARGV"
    BY <1>2, <1>6 DEF Arguments!FoundArgv
  <2>2. environ = MeantBy(msg)
    BY <1>1, <1>3, <2>1, EnvSentEnds
  <2>3. CollectSent' /\ nulls' = Arguments!NullList
    BY <1>1, <1>6, FoundArgvSent
  <2> QED BY <1>4, <2>1, <2>2, <2>3 DEF SentInv
<1>7. CASE Arguments!EnvEnds
  <2>1. /\ parsing' \in {"plain", "quoted"} /\ environ' = environ /\ nulls' = nulls
        /\ at > Len(Arguments!EnvStrings) /\ msg'.way # "ARGV"
        /\ argv' = << <<>> >>
    BY <1>2, <1>7 DEF Arguments!EnvEnds
  <2>2. environ = MeantBy(msg)
    BY <1>1, <1>3, <2>1, EnvSentEnds
  <2>3. /\ parsing' = "plain" => PlainSent'
        /\ parsing' = "quoted" => msg.way = "quoted" /\ QuotedSent'
        /\ Ahead' # <<>> => Len(Ahead') <= left'
    BY <1>1, <1>3, <1>7, EnvEndsSent
  <2>4. Len(argv') = 1
    BY <2>1
  <2>5. nulls' = <<>>
    BY <1>3, <2>1
  <2>6. /\ parsing' # "env" /\ parsing' # "collect" /\ parsing' # "nulls" /\ parsing' # "done"
    BY <2>1
  <2>7. environ' = MeantBy(msg)'
    BY <1>4, <2>1, <2>2
  <2>8. parsing' = "quoted" => msg'.way = "quoted"
    BY <1>2, <2>3
  <2> QED BY <2>1, <2>3, <2>4, <2>5, <2>6, <2>7, <2>8 DEF SentInv
<1> QED BY <1>5, <1>6, <1>7

LEMMA LineKeepsSent ==
    ASSUME Arguments!ParseArgsAssumption, Arguments!Sendable(msg), ArgsInv, SentInv,
           \/ Arguments!Word \/ Arguments!QuoteChar \/ Arguments!OtherChar
           \/ Arguments!CommandLineEnds
    PROVE  SentInv'
<1>1. /\ msg \in Messages /\ at \in Nat \ {0} /\ left \in -1 .. 127 /\ inQuote \in BOOLEAN
      /\ to \in Seq(Byte)
  BY SentTypes
<1>2. /\ parsing \in {"plain", "quoted"} /\ msg' = msg /\ environ' = environ /\ nulls' = nulls
      /\ argv' = argv
  BY DEF Arguments!Word, Arguments!QuoteChar, Arguments!OtherChar, Arguments!CommandLineEnds
<1>3. /\ environ = MeantBy(msg) /\ nulls = <<>> /\ Len(argv) = 1 /\ msg.way # "ARGV"
      /\ Ahead # <<>> => Len(Ahead) <= left
      /\ parsing = "plain" => PlainSent
      /\ parsing = "quoted" => msg.way = "quoted" /\ QuotedSent
  BY <1>2 DEF SentInv
<1>4. MeantBy(msg)' = MeantBy(msg)
  BY <1>2, SentFrame
<1>5. /\ environ' = MeantBy(msg)' /\ nulls' = <<>> /\ Len(argv') = 1 /\ msg'.way # "ARGV"
  BY <1>2, <1>3, <1>4
<1>6. CASE Arguments!Word
  <2>1. parsing = "plain" /\ left > 0 /\ parsing' = "plain"
    BY <1>6 DEF Arguments!Word
  <2>2. left \in 1 .. 127
    BY <1>1, <2>1
  <2>3. PlainSent' /\ (Ahead' # <<>> => Len(Ahead') <= left')
    BY <1>1, <1>3, <1>6, <2>1, <2>2, WordSent
  <2> QED BY <1>5, <2>1, <2>3 DEF SentInv
<1>7. CASE Arguments!QuoteChar \/ Arguments!OtherChar
  <2>1. parsing = "quoted" /\ left > 0 /\ parsing' = "quoted"
    BY <1>7 DEF Arguments!QuoteChar, Arguments!OtherChar
  <2>2. left \in 1 .. 127
    BY <1>1, <2>1
  <2>3. QuotedSent' /\ (Ahead' # <<>> => Len(Ahead') <= left')
    BY <1>1, <1>3, <1>7, <2>1, <2>2, QuotesSent
  <2>4. msg'.way = "quoted"
    BY <1>2, <1>3, <2>1
  <2> QED BY <1>5, <2>1, <2>3, <2>4 DEF SentInv
<1>8. CASE Arguments!CommandLineEnds
  <2>1. parsing' = "collect"
    BY <1>8 DEF Arguments!CommandLineEnds
  <2>2. CollectSent'
    BY <1>1, <1>3, <1>8, CommandLineEndsSent
  <2> QED BY <1>5, <2>1, <2>2 DEF SentInv
<1> QED BY <1>6, <1>7, <1>8

LEMMA LastKeepsSent ==
    ASSUME Arguments!ParseArgsAssumption, Arguments!Sendable(msg), ArgsInv, SentInv,
           \/ Arguments!Argument \/ Arguments!ArgumentsEnd \/ Arguments!EmptyArgument
           \/ Arguments!Returns
    PROVE  SentInv'
<1>1. msg \in Messages /\ rest \in Seq(Byte) /\ argv \in Seq(Seq(Byte))
  BY SentTypes
<1>2. parsing \in {"collect", "nulls"} /\ msg' = msg /\ environ' = environ
  BY DEF Arguments!Argument, Arguments!ArgumentsEnd, Arguments!EmptyArgument, Arguments!Returns
<1>3. /\ environ = MeantBy(msg)
      /\ parsing = "collect" =>
           CollectSent /\ nulls = IF msg.way = "ARGV" THEN Arguments!NullList ELSE <<>>
      /\ parsing = "nulls" => NullsSent
  BY <1>2 DEF SentInv
<1>4. /\ environ' = MeantBy(msg)' /\ Arguments!NullList' = Arguments!NullList
  BY <1>2, <1>3, SentFrame
<1>5. CASE Arguments!Argument
  <2>1. parsing = "collect" /\ parsing' = "collect" /\ nulls' = nulls
    BY <1>5 DEF Arguments!Argument
  <2>2. CollectSent'
    BY <1>1, <1>3, <1>5, <2>1, ArgumentSent
  <2>3. nulls' = IF msg'.way = "ARGV" THEN Arguments!NullList' ELSE <<>>
    BY <1>2, <1>3, <1>4, <2>1
  <2> QED BY <1>4, <2>1, <2>2, <2>3 DEF SentInv
<1>6. CASE Arguments!ArgumentsEnd
  <2>1. parsing = "collect" /\ parsing' = "nulls"
    BY <1>6 DEF Arguments!ArgumentsEnd
  <2>2. NullsSent'
    BY <1>1, <1>3, <1>6, <2>1, ArgumentsEndSent
  <2> QED BY <1>4, <2>1, <2>2 DEF SentInv
<1>7. CASE Arguments!EmptyArgument
  <2>1. parsing = "nulls" /\ parsing' = "nulls"
    BY <1>7 DEF Arguments!EmptyArgument
  <2>2. NullsSent'
    BY <1>1, <1>3, <1>7, <2>1, EmptyArgumentSent
  <2> QED BY <1>4, <2>1, <2>2 DEF SentInv
<1>8. CASE Arguments!Returns
  <2>1. parsing = "nulls" /\ parsing' = "done" /\ nulls = <<>> /\ argv' = argv
    BY <1>8 DEF Arguments!Returns
  <2>2. /\ Len(argv) = Len(msg.args) + 1
        /\ \A k \in DOMAIN msg.args : argv[k + 1] = msg.args[k]
    BY <1>3, <2>1, ReturnsSent
  <2> QED BY <1>2, <1>4, <2>1, <2>2 DEF SentInv
<1> QED BY <1>5, <1>6, <1>7, <1>8

LEMMA SentStands ==
    ASSUME SentInv, UNCHANGED argumentVars
    PROVE  SentInv'
<1>1. /\ msg' = msg /\ parsing' = parsing /\ at' = at /\ left' = left /\ to' = to
      /\ inQuote' = inQuote /\ rest' = rest /\ nulls' = nulls /\ environ' = environ /\ argv' = argv
  BY DEF argumentVars
<1>2. EnvSent' <=> EnvSent
  BY <1>1, SentFrame DEF EnvSent, AheadInEnv
<1>3. PlainSent' <=> PlainSent
  BY ZenonT(60), <1>1, SentFrame, BehindStays DEF PlainSent, InWord, Divides, PastWords, Ahead
<1>4. QuotedSent' <=> QuotedSent
  BY ZenonT(60), <1>1, SentFrame, BehindStays DEF QuotedSent, InName, BeforeName, Divides, PastWords, Ahead
<1>5. CollectSent' <=> CollectSent
  BY <1>1, SentFrame DEF CollectSent
<1>6. NullsSent' <=> NullsSent
  BY <1>1 DEF NullsSent
<1>7. Ahead' = Ahead /\ MeantBy(msg)' = MeantBy(msg) /\ Arguments!NullList' = Arguments!NullList
  BY <1>1, SentFrame DEF Ahead
<1> QED BY <1>1, <1>2, <1>3, <1>4, <1>5, <1>6, <1>7 DEF SentInv

LEMMA SentKept ==
    ASSUME Arguments!Understandable
    PROVE  ArgumentsInv /\ SentInv /\ [ProcessNext]_processVars => SentInv'
<1> SUFFICES ASSUME ArgumentsInv, SentInv, [ProcessNext]_processVars PROVE SentInv'
  OBVIOUS
<1>1. ArgsInv /\ Arguments!ParseArgsAssumption /\ Arguments!Sendable(msg)
  <2>1. ArgsInv
    BY DEF ArgumentsInv
  <2>2. msg \in Messages
    BY <2>1, SentTypes
  <2> QED BY <2>1, <2>2, ProcessAssumption DEF Arguments!Understandable
<1>2. CASE ParseArguments
  <2>1. Arguments!Next
    BY <1>2 DEF ParseArguments
  <2> QED BY <1>1, <2>1, EnvKeepsSent, LineKeepsSent, LastKeepsSent DEF Arguments!Next
<1>3. CASE ~ParseArguments
  <2>1. UNCHANGED argumentVars
    BY <1>3 DEF ProcessNext, GetStack, MakeStack, CallMain, ReadOptions, End, processVars
  <2> QED BY <2>1, SentStands
<1> QED BY <1>2, <1>3

LEMMA SentStarts ==
    ASSUME ProcessInit
    PROVE  SentInv
<1>1. Arguments!Init
  BY DEF ProcessInit, ArgumentsIdle
<1>2. EnvSent
  BY <1>1, EnvSentStarts, ProcessAssumption
<1>3. parsing = "env" /\ inQuote = FALSE /\ nulls = <<>>
  BY <1>1 DEF Arguments!Init
<1> QED BY <1>2, <1>3 DEF SentInv

LEMMA SentEnough ==
    ArgumentsInv /\ SentInv => CallerUnderstood
<1> SUFFICES ASSUME ArgumentsInv, SentInv, parsing = "done"
             PROVE  /\ Tail(argv) = msg.args
                    /\ environ = [k \in DOMAIN msg.env |-> Arguments!Meant(msg.env[k])]
  BY DEF CallerUnderstood, Arguments!ArgumentsComeThrough, Arguments!EnvironmentComesThrough
<1>1. msg \in Messages /\ argv \in Seq(Seq(Byte)) /\ Arguments!ParseArgsAssumption
  BY SentTypes, ProcessAssumption DEF ArgumentsInv
<1>2. /\ environ = MeantBy(msg) /\ Len(argv) = Len(msg.args) + 1
      /\ \A k \in DOMAIN msg.args : argv[k + 1] = msg.args[k]
  BY DEF SentInv
<1>3. msg.args \in Seq(Seq(Byte)) /\ Len(msg.args) \in Nat /\ DOMAIN msg.args = 1 .. Len(msg.args)
  BY <1>1, ArgsAre
<1>4. Tail(argv) = msg.args
  <2> DEFINE T == Seq(Byte)
             A == msg.args
             t == Tail(argv)
             n == Len(A)
  <2>1. argv \in Seq(T)
    BY <1>1
  <2>2. A \in Seq(T)
    BY <1>3
  <2>3. n \in Nat /\ Len(argv) = n + 1 /\ \A k \in 1 .. n : argv[k + 1] = A[k]
    BY <1>2, <1>3
  <2> HIDE DEF T, A, n
  <2>4. t \in Seq(T) /\ Len(t) = n /\ \A k \in 1 .. n : t[k] = argv[k + 1]
    BY <2>1, <2>3
  <2> HIDE DEF t
  <2>5. t = A
    BY <2>2, <2>3, <2>4, SameSequence DEF n
  <2> QED BY <2>5 DEF t, A
<1> QED BY <1>2, <1>4 DEF MeantBy

LEMMA SentInvariant ==
    ASSUME Arguments!Understandable
    PROVE  ProcessSpec => []SentInv
<1>1. ProcessInit => ArgumentsInv /\ SentInv
  BY ArgumentsInvStarts, SentStarts
<1>2. ArgumentsInv /\ SentInv /\ [ProcessNext]_processVars => (ArgumentsInv /\ SentInv)'
  BY ArgumentsInvKept, SentKept
<1> QED BY <1>1, <1>2, PTL DEF ProcessSpec

\* parseargs: whatever callers say, in each of the three ways in which they can say it, and
\* whatever the desktop does to the environment, the program gets the arguments and the
\* variables that are meant.
THEOREM CallerAlwaysUnderstood ==
    ASSUME Arguments!Understandable
    PROVE  ProcessSpec => []CallerUnderstood
BY ArgumentsInvariant, SentInvariant, SentEnough, PTL
=============================================================================
