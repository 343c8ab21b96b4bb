--------------------------- MODULE UtilityProofs ----------------------------
(***************************************************************************)
(* bsearch is right for every array in order, whatever its size.  Schrage's *)
(* method is right for every multiplier and modulus that meet its           *)
(* condition: no product overflows, and the remainder is the right one.     *)
(* qsort sorts every array, within it and with a stack of log (n) places.   *)
(* nf_init puts back what it bends, sleep and delay end in time, memmove    *)
(* and memset leave no byte out, Getcookie and strchrnul miss nothing.      *)
(***************************************************************************)
EXTENDS Utilities, Induction, FiniteSetTheorems

\* The key is not below a, and not from b on.
SearchInv ==
    /\ key \in Int
    /\ a \in 0 .. Num /\ b \in 0 .. Num /\ a <= b
    /\ \A i \in 0 .. a - 1 : Base[i] < key
    /\ \A i \in b .. Num - 1 : key < Base[i]
    /\ \/ ret = NotYet
       \/ ret = Null /\ a = b
       \/ ret \in 0 .. Num - 1 /\ Base[ret] = key

\* The middle of two places lies between them.
LEMMA MiddleInside ==
    ASSUME a \in Nat, b \in Nat, a < b
    PROVE  Middle \in Nat /\ a <= Middle /\ Middle < b
  BY DEF Middle

\* SearchInv holds of every state.
THEOREM SearchInvariant == Spec => []SearchInv
<1>1. Init => SearchInv
  BY SearchAssumption DEF Init, SearchInv
<1>2. SearchInv /\ [Next]_vars => SearchInv'
  <2> SUFFICES ASSUME SearchInv, [Next]_vars
               PROVE  SearchInv'
    OBVIOUS
  <2>a. Num \in Nat /\ (\A i \in 0 .. Num - 1 : Base[i] \in Int)
    BY SearchAssumption
  <2>b. \A i, j \in 0 .. Num - 1 : i <= j => Base[i] <= Base[j]
    BY SearchAssumption DEF InOrder
  <2>1. CASE Compare
    <3> DEFINE middle == Middle
    <3>1. middle \in 0 .. Num - 1 /\ a <= middle /\ middle < b
      BY <2>1, <2>a, MiddleInside DEF Compare, SearchInv
    <3>2. Base[middle] \in Int
      BY <2>a, <3>1
    <3> HIDE DEF middle
    <3>3. CASE key < Base[Middle]
      <4>1. a' = a /\ b' = middle /\ ret' = NotYet /\ key' = key
        BY <2>1, <2>a, <3>2, <3>3 DEF Compare, LowerEnd, SearchInv, middle
      <4>2. \A i \in middle .. Num - 1 : key < Base[i]
        BY <2>a, <2>b, <3>1, <3>2, <3>3 DEF SearchInv, middle
      <4> QED
        BY <3>1, <4>1, <4>2, <2>a DEF SearchInv
    <3>4. CASE key > Base[Middle]
      <4>1. a' = middle + 1 /\ b' = b /\ ret' = NotYet /\ key' = key
        BY <2>1, <2>a, <3>2, <3>4 DEF Compare, UpperStart, SearchInv, middle
      <4>2. \A i \in 0 .. middle : Base[i] < key
        BY <2>a, <2>b, <3>1, <3>2, <3>4 DEF SearchInv, middle
      <4> QED
        BY <3>1, <4>1, <4>2, <2>a DEF SearchInv
    <3>5. CASE key = Base[Middle]
      <4>1. a' = a /\ b' = b /\ ret' = middle /\ key' = key
        BY <2>1, <2>a, <3>2, <3>5 DEF Compare, SearchInv, middle
      <4> QED
        BY <3>1, <3>5, <4>1 DEF SearchInv, middle
    <3> QED
      BY <2>1, <3>3, <3>4, <3>5 DEF Compare
  <2>2. CASE NotThere
    BY <2>2, <2>a DEF NotThere, SearchInv
  <2>3. CASE UNCHANGED vars
    BY <2>3 DEF vars, SearchInv
  <2> QED
    BY <2>1, <2>2, <2>3 DEF Next
<1> QED
  BY <1>1, <1>2, PTL DEF Spec

\* What bsearch returns is right.
THEOREM SearchFindsIt == Spec => []FindsIt
<1>1. SearchInv => FindsIt
  <2>1. ASSUME SearchInv, ret = Null
        PROVE  \A i \in 0 .. Num - 1 : Base[i] # key
    <3>1. ret \notin 0 .. Num - 1 /\ ret # NotYet
      BY <2>1, SearchAssumption DEF Null, NotYet
    <3>2. a = b
      BY <2>1, <3>1 DEF SearchInv
    <3> QED
      BY <2>1, <3>2, SearchAssumption DEF SearchInv
  <2> QED
    BY <2>1 DEF SearchInv, FindsIt
<1> QED
  BY <1>1, SearchInvariant, PTL

\* bsearch looks at no item outside the array.
THEOREM SearchStaysInside == Spec => []StaysInside
<1>1. SearchInv => StaysInside
  BY MiddleInside, SearchAssumption DEF SearchInv, StaysInside
<1> QED
  BY <1>1, SearchInvariant, PTL

\* What bsearch finds is the key, what it does not find is not there, and it compares
\* no item outside the array, for every array in order.
THEOREM SearchIsSound == Spec => []SearchSound
BY SearchFindsIt, SearchStaysInside, PTL DEF SearchSound

-----------------------------------------------------------------------------
(* rand                                                                    *)

\* M is A times Q and the rest R, and R is less than Q.
LEMMA Moduli ==
    /\ Q \in Nat \ {0} /\ R \in Nat
    /\ M = A * Q + R
    /\ R < Q /\ R < A
<1>1. A \in Nat /\ A > 0 /\ M \in Nat /\ M % A < M \div A
  BY RandAssumption
<1>2. M \div A \in Nat /\ M % A \in 0 .. A - 1
  BY <1>1
<1>3. M = A * (M \div A) + (M % A)
  BY <1>1
<1> QED
  BY <1>1, <1>2, <1>3 DEF Q, R

\* A seed in halves: how often Q goes into it, and the rest.
LEMMA Halves ==
    ASSUME NEW s \in 0 .. M - 1
    PROVE  /\ s % Q \in 0 .. Q - 1
           /\ s \div Q \in 0 .. A
           /\ s = Q * (s \div Q) + (s % Q)
<1> DEFINE l == s % Q
           h == s \div Q
<1>1. Q \in Nat /\ Q > 0 /\ A \in Nat /\ A > 0 /\ s \in Nat /\ R \in Nat
  BY Moduli, RandAssumption
<1>2. l \in 0 .. Q - 1 /\ h \in Nat /\ s = Q * h + l
  BY <1>1
<1>3. s < A * Q + Q
  BY Moduli, <1>1, RandAssumption
<1> HIDE DEF l, h
<1>4. ASSUME h >= A + 1 PROVE FALSE
  <2>1. Q * h >= Q * (A + 1)
    BY <1>1, <1>2, <1>4
  <2>2. Q * (A + 1) = A * Q + Q
    BY <1>1
  <2>3. Q * h \in Nat /\ A * Q \in Nat
    BY <1>1, <1>2
  <2> QED
    BY <1>1, <1>2, <1>3, <2>1, <2>2, <2>3
<1>5. h <= A
  BY <1>1, <1>2, <1>4
<1> QED
  BY <1>1, <1>2, <1>5 DEF l, h

\* The products stay below M.
LEMMA Products ==
    ASSUME NEW s \in 0 .. M - 1
    PROVE  /\ LeftProduct(s) \in 0 .. M - 1
           /\ RightProduct(s) \in 0 .. M - 1
<1> DEFINE l == s % Q
           h == s \div Q
<1>1. l \in 0 .. Q - 1 /\ h \in 0 .. A
  BY Halves
<1>2. Q \in Nat /\ Q > 0 /\ R \in Nat /\ R < Q /\ R < A /\ A \in Nat /\ A > 0 /\ M \in Nat
  BY Moduli, RandAssumption
<1> HIDE DEF l, h
<1>3. A * l \in Nat /\ R * h \in Nat /\ A * Q \in Nat /\ A * R \in Nat
  BY <1>1, <1>2
<1>4. A * l <= A * (Q - 1)
  BY <1>1, <1>2
<1>5. A * (Q - 1) = A * Q - A
  BY <1>2
<1>6. R * h <= R * A
  BY <1>1, <1>2
<1>7. R * A < Q * A
  BY <1>2
<1>8. R * A = A * R /\ Q * A = A * Q
  BY <1>2
<1>9. A * l < M /\ R * h < M
  BY <1>2, <1>3, <1>4, <1>5, <1>6, <1>7, <1>8, Moduli
<1> QED
  BY <1>2, <1>3, <1>9 DEF LeftProduct, RightProduct, l, h

\* A number that is y more than a multiple of M, y a residue.
LEMMA Residue ==
    ASSUME NEW p \in Int, NEW h \in Int, NEW y \in 0 .. M - 1, p = M * h + y
    PROVE  p % M = y
<1>1. M \in Nat /\ M > 0
  BY RandAssumption
<1> QED
  BY <1>1, Z3

\* A number that is x away from a multiple of M.
LEMMA Remainder ==
    ASSUME NEW p \in Int, NEW h \in Int, NEW x \in Int,
           p = M * h + x, -M < x, x < M
    PROVE  p % M = Positive(x)
<1>1. M \in Nat /\ M > 0
  BY RandAssumption
<1>2. CASE x >= 0
  BY <1>1, <1>2, Residue DEF Positive
<1>3. CASE x < 0
  <2>1. p = M * (h - 1) + (x + M)
    BY <1>1
  <2>2. x + M \in 0 .. M - 1 /\ h - 1 \in Int
    BY <1>1, <1>3
  <2>3. p % M = x + M
    BY <2>1, <2>2, Residue
  <2> QED
    BY <1>1, <1>3, <2>3 DEF Positive
<1> QED
  BY <1>2, <1>3

\* One call multiplies by A modulo M.
LEMMA StepIsLehmer ==
    ASSUME NEW s \in 0 .. M - 1
    PROVE  /\ Positive(LeftProduct(s) - RightProduct(s)) = (A * s) % M
           /\ (A * s) % M \in 0 .. M - 1
<1> DEFINE l == s % Q
           h == s \div Q
           x == A * l - R * h
<1>1. l \in 0 .. Q - 1 /\ h \in 0 .. A /\ s = Q * h + l
  BY Halves
<1>2. Q \in Nat /\ R \in Nat /\ A \in Nat /\ M \in Nat /\ M > 0 /\ s \in Nat /\ M = A * Q + R
  BY Moduli, RandAssumption
<1>3. A * l \in 0 .. M - 1 /\ R * h \in 0 .. M - 1
  BY Products DEF LeftProduct, RightProduct
<1>4. LeftProduct(s) - RightProduct(s) = x
  BY DEF LeftProduct, RightProduct
<1> HIDE DEF l, h
<1>5. A * s = M * h + x
  <2>1. A * s = A * (Q * h) + A * l
    BY <1>1, <1>2
  <2>2. M * h = (A * Q) * h + R * h
    BY <1>1, <1>2
  <2>3. A * (Q * h) = (A * Q) * h
    BY <1>1, <1>2
  <2>4. /\ A * (Q * h) \in Int /\ (A * Q) * h \in Int /\ A * l \in Int
        /\ R * h \in Int /\ M * h \in Int /\ A * s \in Int
    BY <1>1, <1>2
  <2> QED
    BY <2>1, <2>2, <2>3, <2>4
<1>6. x \in Int /\ -M < x /\ x < M
  BY <1>2, <1>3
<1> HIDE DEF x
<1>7. A * s \in Int /\ h \in Int
  BY <1>1, <1>2
<1>8. (A * s) % M = Positive(x)
  BY <1>5, <1>6, <1>7, Remainder
<1>9. (A * s) % M \in 0 .. M - 1
  BY <1>2, <1>7
<1> QED
  BY <1>4, <1>8, <1>9

LEMMA NextKeepsType == RandTypeOK /\ [RandNext]_randVars => RandTypeOK'
<1> SUFFICES ASSUME RandTypeOK, [RandNext]_randVars PROVE RandTypeOK'
  OBVIOUS
<1>1. M \in Nat /\ 1 < M /\ Seeds \subseteq 1 .. M - 1
  BY RandAssumption
<1>2. CASE rand
  BY <1>2, StepIsLehmer DEF RandTypeOK, rand
<1>3. ASSUME NEW seed \in Seeds, srand(seed) PROVE RandTypeOK'
  BY <1>1, <1>3 DEF RandTypeOK, srand
<1>4. CASE UNCHANGED randVars
  BY <1>4 DEF RandTypeOK, randVars
<1> QED
  BY <1>2, <1>3, <1>4 DEF RandNext

\* The seed stays a residue modulo M, for every multiplier and modulus.
THEOREM SeedStaysInRange == RandSpec => []RandTypeOK
<1>1. RandInit => RandTypeOK
  BY RandAssumption DEF RandInit, RandTypeOK
<1> QED
  BY <1>1, NextKeepsType, PTL DEF RandSpec

\* No product of a call reaches M: Schrage's condition is enough.
THEOREM NeverOverflows == RandSpec => []NoOverflow
<1>1. RandTypeOK => NoOverflow
  BY Products, RandAssumption DEF RandTypeOK, NoOverflow
<1> QED
  BY <1>1, SeedStaysInRange, PTL

\* The two small products and the correction are one multiplication by A
\* modulo M.
THEOREM RandIsLehmer == RandSpec => IsLehmer
<1>1. RandTypeOK /\ [RandNext]_randVars => [rand => _lseed' = (A * _lseed) % M]_randVars
  BY StepIsLehmer DEF RandTypeOK, rand
<1> QED
  BY <1>1, SeedStaysInRange, PTL DEF RandSpec, IsLehmer

\* Both together: rand computes in 32 bits what it would compute in 64.
THEOREM RandStaysExact == RandSpec => RandIsExact
BY SeedStaysInRange, NeverOverflows, RandIsLehmer, PTL DEF RandIsExact

-----------------------------------------------------------------------------
(* qsort: one array is another shuffled.                                   *)

\* f tells where the items of t are in s, of which only those from l to h have moved; g
\* is its inverse.
Orders(f, g, s, t, l, h) ==
    /\ f \in [1 .. Len(s) -> 1 .. Len(s)] /\ g \in [1 .. Len(s) -> 1 .. Len(s)]
    /\ \A i \in 1 .. Len(s) : f[g[i]] = i /\ g[f[i]] = i
    /\ \A i \in 1 .. Len(s) : t[i] = s[f[i]] /\ (i \notin l .. h => f[i] = i)

Shuffles(s, t, l, h) ==
    /\ s \in Seq(Nat) /\ t \in Seq(Nat) /\ Len(t) = Len(s)
    /\ \E f, g : Orders(f, g, s, t, l, h)

LEMMA ShufflesNothing ==
    ASSUME NEW s \in Seq(Nat), NEW l, NEW h
    PROVE  Shuffles(s, s, l, h)
<1> DEFINE f == [i \in 1 .. Len(s) |-> i]
<1>1. f \in [1 .. Len(s) -> 1 .. Len(s)] /\ \A i \in 1 .. Len(s) : f[i] = i
  OBVIOUS
<1> HIDE DEF f
<1>2. Orders(f, f, s, s, l, h)
  BY <1>1 DEF Orders
<1> QED BY <1>2 DEF Shuffles

LEMMA ShufflesOn ==
    ASSUME NEW s, NEW t, NEW u, NEW l, NEW h, Shuffles(s, t, l, h), Shuffles(t, u, l, h)
    PROVE  Shuffles(s, u, l, h)
<1>1. Len(t) = Len(s) /\ Len(u) = Len(s) /\ s \in Seq(Nat) /\ u \in Seq(Nat)
  BY DEF Shuffles
<1>2. PICK f1, g1 : Orders(f1, g1, s, t, l, h)
  BY DEF Shuffles
<1>3. PICK f2, g2 : Orders(f2, g2, t, u, l, h)
  BY DEF Shuffles
<1> DEFINE D == 1 .. Len(s)
           f == [i \in D |-> f1[f2[i]]]
           g == [i \in D |-> g2[g1[i]]]
<1>4. /\ f1 \in [D -> D] /\ g1 \in [D -> D]
      /\ \A i \in D : f1[g1[i]] = i /\ g1[f1[i]] = i
      /\ \A i \in D : t[i] = s[f1[i]] /\ (i \notin l .. h => f1[i] = i)
  BY <1>2 DEF Orders
<1>5. /\ f2 \in [D -> D] /\ g2 \in [D -> D]
      /\ \A i \in D : f2[g2[i]] = i /\ g2[f2[i]] = i
      /\ \A i \in D : u[i] = t[f2[i]] /\ (i \notin l .. h => f2[i] = i)
  <2> DEFINE E == 1 .. Len(t)
  <2>1. D = E
    BY <1>1
  <2>2. /\ f2 \in [E -> E] /\ g2 \in [E -> E]
        /\ \A i \in E : f2[g2[i]] = i /\ g2[f2[i]] = i
        /\ \A i \in E : u[i] = t[f2[i]] /\ (i \notin l .. h => f2[i] = i)
    BY <1>3 DEF Orders
  <2> HIDE DEF D, E
  <2> QED BY <2>1, <2>2
<1>6. f \in [D -> D] /\ g \in [D -> D] /\ \A i \in D : f[i] = f1[f2[i]] /\ g[i] = g2[g1[i]]
  <2> HIDE DEF D
  <2> QED BY <1>4, <1>5
<1>7. /\ \A i \in D : f[g[i]] = i /\ g[f[i]] = i
      /\ \A i \in D : u[i] = s[f[i]] /\ (i \notin l .. h => f[i] = i)
  <2> HIDE DEF D, f, g
  <2> QED BY <1>4, <1>5, <1>6
<1> HIDE DEF f, g
<1>8. Orders(f, g, s, u, l, h)
  BY <1>6, <1>7 DEF Orders
<1> QED BY <1>1, <1>8 DEF Shuffles

\* A shuffle of a part is one of any larger part.
LEMMA ShufflesWider ==
    ASSUME NEW s, NEW t, NEW l \in Int, NEW h \in Int, NEW k \in Int, NEW m \in Int,
           Shuffles(s, t, l, h), k <= l, h <= m
    PROVE  Shuffles(s, t, k, m)
<1>1. PICK f, g : Orders(f, g, s, t, l, h)
  BY DEF Shuffles
<1>2. \A i \in 1 .. Len(s) : i \notin k .. m => i \notin l .. h
  OBVIOUS
<1>3. Orders(f, g, s, t, k, m)
  BY <1>1, <1>2 DEF Orders
<1> QED BY <1>3 DEF Shuffles

\* What a shuffle of a part leaves, and where it takes items from.
LEMMA ShufflesInside ==
    ASSUME NEW s, NEW t, NEW l \in Int, NEW h \in Int, Shuffles(s, t, l, h)
    PROVE  /\ s \in Seq(Nat) /\ t \in Seq(Nat) /\ Len(t) = Len(s)
           /\ \A i \in 1 .. Len(s) : i \notin l .. h => t[i] = s[i]
           /\ \A i \in 1 .. Len(s) : i \in l .. h =>
                \E k \in 1 .. Len(s) : k \in l .. h /\ t[i] = s[k]
<1>1. PICK f, g :
         /\ f \in [1 .. Len(s) -> 1 .. Len(s)] /\ g \in [1 .. Len(s) -> 1 .. Len(s)]
         /\ \A i \in 1 .. Len(s) : f[g[i]] = i /\ g[f[i]] = i
         /\ \A i \in 1 .. Len(s) : t[i] = s[f[i]] /\ (i \notin l .. h => f[i] = i)
  BY DEF Shuffles, Orders
<1>2. ASSUME NEW i \in 1 .. Len(s), i \in l .. h, f[i] \notin l .. h PROVE FALSE
  <2>1. f[i] \in 1 .. Len(s)
    BY <1>1
  <2>2. f[f[i]] = f[i]
    BY <1>1, <1>2, <2>1
  <2>3. g[f[f[i]]] = f[i] /\ g[f[i]] = i
    BY <1>1, <2>1
  <2> QED BY <1>2, <2>2, <2>3
<1> QED BY <1>1, <1>2 DEF Shuffles

LEMMA SwapShuffles ==
    ASSUME NEW s \in Seq(Nat), NEW l \in Nat, NEW h \in Nat,
           NEW i \in 1 .. Len(s), NEW j \in 1 .. Len(s), i \in l .. h, j \in l .. h
    PROVE  /\ Shuffles(s, Swap(s, i, j), l, h)
           /\ Swap(s, i, j)[i] = s[j] /\ Swap(s, i, j)[j] = s[i]
           /\ \A k \in 1 .. Len(s) : k # i /\ k # j => Swap(s, i, j)[k] = s[k]
<1> DEFINE D == 1 .. Len(s)
           t == Swap(s, i, j)
           f == [k \in D |-> IF k = i THEN j ELSE IF k = j THEN i ELSE k]
<1>1. t \in Seq(Nat) /\ Len(t) = Len(s)
      /\ \A k \in D : t[k] = IF k = i THEN s[j] ELSE IF k = j THEN s[i] ELSE s[k]
  BY DEF Swap
<1>2. f \in [D -> D] /\ \A k \in D : f[k] = IF k = i THEN j ELSE IF k = j THEN i ELSE k
  OBVIOUS
<1> HIDE DEF f, t
<1>3. ASSUME NEW k \in D
      PROVE  f[f[k]] = k /\ t[k] = s[f[k]] /\ (k \notin l .. h => f[k] = k)
  BY <1>1, <1>2
<1>4. Orders(f, f, s, t, l, h)
  BY <1>2, <1>3 DEF Orders
<1>5. Shuffles(s, t, l, h)
  BY <1>1, <1>4 DEF Shuffles
<1> QED BY <1>1, <1>5 DEF t

LEMMA MovedShuffles ==
    ASSUME NEW s \in Seq(Nat), NEW x \in 1 .. Len(s), NEW y \in 1 .. x
    PROVE  /\ Shuffles(s, Moved(s, x, y), 1, Len(s))
           /\ \A k \in 1 .. Len(s) :
                Moved(s, x, y)[k] = IF k = y THEN s[x] ELSE IF k \in y + 1 .. x THEN s[k - 1] ELSE s[k]
<1> DEFINE D == 1 .. Len(s)
           t == Moved(s, x, y)
           f == [k \in D |-> IF k = y THEN x ELSE IF k \in y + 1 .. x THEN k - 1 ELSE k]
           g == [k \in D |-> IF k = x THEN y ELSE IF k \in y .. x - 1 THEN k + 1 ELSE k]
<1>1. \A k \in D : t[k] = IF k = y THEN s[x] ELSE IF k \in y + 1 .. x THEN s[k - 1] ELSE s[k]
  BY DEF Moved
<1>2. f \in [D -> D] /\ \A k \in D : f[k] = IF k = y THEN x ELSE IF k \in y + 1 .. x THEN k - 1 ELSE k
  OBVIOUS
<1>3. g \in [D -> D] /\ \A k \in D : g[k] = IF k = x THEN y ELSE IF k \in y .. x - 1 THEN k + 1 ELSE k
  OBVIOUS
<1>4. t \in Seq(Nat) /\ Len(t) = Len(s)
  <2>1. \A k \in D : (IF k = y THEN s[x] ELSE IF k \in y + 1 .. x THEN s[k - 1] ELSE s[k]) \in Nat
    OBVIOUS
  <2>2. t = [k \in D |-> IF k = y THEN s[x] ELSE IF k \in y + 1 .. x THEN s[k - 1] ELSE s[k]]
    BY DEF Moved
  <2> QED BY <2>1, <2>2
<1> HIDE DEF f, g, t
<1>5. ASSUME NEW k \in D PROVE f[g[k]] = k /\ g[f[k]] = k
  <2>1. x \in D /\ y \in D /\ y <= x
    OBVIOUS
  <2>2. CASE k = x
    BY <1>2, <1>3, <2>1, <2>2
  <2>3. CASE k # x /\ k \in y .. x - 1
    <3>1. k + 1 \in D /\ k + 1 # y /\ k + 1 \in y + 1 .. x /\ (k + 1) - 1 = k
      BY <2>1, <2>3
    <3>2. g[k] = k + 1 /\ f[k + 1] = k
      BY <1>2, <1>3, <2>3, <3>1
    <3>3. CASE k = y
      BY <1>2, <1>3, <2>1, <3>2, <3>3
    <3>4. CASE k # y
      <4>1. k \in y + 1 .. x /\ k - 1 \in D /\ k - 1 # x /\ k - 1 \in y .. x - 1 /\ (k - 1) + 1 = k
        BY <2>1, <2>3, <3>4
      <4>2. f[k] = k - 1 /\ g[k - 1] = k
        BY <1>2, <1>3, <3>4, <4>1
      <4> QED BY <3>2, <4>2
    <3> QED BY <3>3, <3>4
  <2>4. CASE k # x /\ k \notin y .. x - 1
    <3>1. k < y \/ x < k
      BY <2>1, <2>4
    <3>2. g[k] = k
      BY <1>3, <2>4
    <3>3. k = y \/ k \notin y + 1 .. x
      BY <2>1, <3>1
    <3>4. k = y => y = x
      BY <2>1, <3>1
    <3>5. f[k] = k
      BY <1>2, <2>4, <3>3, <3>4
    <3> QED BY <3>2, <3>5
  <2> QED BY <2>2, <2>3, <2>4
<1>a. ASSUME NEW k \in D PROVE t[k] = s[f[k]]
  BY <1>1, <1>2
<1>b. Orders(f, g, s, t, 1, Len(s))
  BY <1>2, <1>3, <1>5, <1>a DEF Orders
<1>6. Shuffles(s, t, 1, Len(s))
  BY <1>4, <1>b DEF Shuffles
<1> QED BY <1>1, <1>6 DEF t

\* A shuffle keeps every item as often as it was there.
LEMMA ShufflesKeep ==
    ASSUME NEW s, NEW t, NEW v, NEW l, NEW h, Shuffles(s, t, l, h)
    PROVE  Occurs(t, v) = Occurs(s, v)
<1> DEFINE D == 1 .. Len(s)
           X == {i \in DOMAIN s : s[i] = v}
           Y == {i \in DOMAIN t : t[i] = v}
<1>1. s \in Seq(Nat) /\ t \in Seq(Nat) /\ Len(t) = Len(s)
  BY DEF Shuffles
<1>2. DOMAIN s = D /\ DOMAIN t = D /\ Len(s) \in Nat
  BY <1>1
<1>3. PICK f, g :
         /\ f \in [D -> D] /\ g \in [D -> D]
         /\ \A i \in D : f[g[i]] = i /\ g[f[i]] = i /\ t[i] = s[f[i]]
  BY ZenonT(60) DEF Shuffles, Orders
<1>4. IsFiniteSet(D) /\ IsFiniteSet(X) /\ IsFiniteSet(Y)
  <2>1. IsFiniteSet(D)
    BY <1>2, FS_Interval
  <2>2. X \subseteq D /\ Y \subseteq D
    BY <1>2
  <2> HIDE DEF D, X, Y
  <2> QED BY <2>1, <2>2, FS_Subset
<1> DEFINE p == [i \in Y |-> f[i]]
<1>5. p \in Bijection(Y, X)
  <2>1. p \in [Y -> X]
    BY <1>2, <1>3
  <2>2. \A i, k \in Y : p[i] = p[k] => i = k
    BY <1>2, <1>3
  <2>3. ASSUME NEW k \in X PROVE \E i \in Y : p[i] = k
    <3>1. k \in D /\ g[k] \in D /\ f[g[k]] = k /\ t[g[k]] = s[k]
      BY <1>2, <1>3
    <3> QED BY <1>2, <3>1
  <2> HIDE DEF p, X, Y
  <2>4. p \in Injection(Y, X)
    BY <2>1, <2>2 DEF Injection, IsInjective
  <2>5. p \in Surjection(Y, X)
    BY <2>1, <2>3 DEF Surjection
  <2> QED BY <2>4, <2>5 DEF Bijection
<1>6. Cardinality(Y) = Cardinality(X)
  <2> HIDE DEF p, X, Y
  <2>1. ExistsBijection(Y, X)
    BY <1>5 DEF ExistsBijection
  <2> QED BY <1>4, <2>1, FS_Bijection
<1> QED BY <1>6 DEF Occurs

-----------------------------------------------------------------------------
(* What is still to be sorted.                                             *)

Inside(p, i) == p[1] <= i /\ i <= p[2]
Apart(p, q) == p[2] < q[1] \/ q[2] < p[1]

\* What is left of p in s is not above it, and what is right of it is not below it.
Fenced(s, p) ==
    \A i, k \in 1 .. Len(s) :
        Inside(p, k) => (i < p[1] => s[i] <= s[k]) /\ (p[2] < i => s[k] <= s[i])

\* Items more than th apart are in order, except where both are in one of the parts in
\* pend, which are apart and fenced.
Pending(s, th, pend) ==
    /\ \A k \in 1 .. Len(pend) :
         /\ pend[k][1] \in 1 .. Len(s) /\ pend[k][2] \in 1 .. Len(s)
         /\ pend[k][1] + th <= pend[k][2]
         /\ Fenced(s, pend[k])
         /\ \A m \in 1 .. Len(pend) : k # m => Apart(pend[k], pend[m])
    /\ \A i, j \in 1 .. Len(s) :
         \/ ~(i + th < j)
         \/ s[i] <= s[j]
         \/ \E k \in 1 .. Len(pend) : Inside(pend[k], i) /\ Inside(pend[k], j)

\* Items may be exchanged within a part.
LEMMA ShuffleKeepsPending ==
    ASSUME NEW s, NEW t, NEW th \in Nat, NEW pend, Len(pend) \in Nat,
           NEW n \in 1 .. Len(pend), Pending(s, th, pend),
           NEW l, NEW h, pend[n] = <<l, h>>, Shuffles(s, t, l, h)
    PROVE  Pending(t, th, pend)
<1> DEFINE D == 1 .. Len(s)
<1>1. l \in D /\ h \in D /\ l + th <= h /\ pend[n][1] = l /\ pend[n][2] = h
  BY DEF Pending
<1>2. /\ s \in Seq(Nat) /\ t \in Seq(Nat) /\ Len(t) = Len(s)
      /\ \A i \in D : ~(l <= i /\ i <= h) => t[i] = s[i]
      /\ \A i \in D : l <= i /\ i <= h => \E k \in D : l <= k /\ k <= h /\ t[i] = s[k]
  <2>1. l \in Int /\ h \in Int
    BY <1>1
  <2>2. \A i \in D : i \in l .. h <=> (l <= i /\ i <= h)
    BY <2>1
  <2>3. /\ s \in Seq(Nat) /\ t \in Seq(Nat) /\ Len(t) = Len(s)
        /\ \A i \in D : i \notin l .. h => t[i] = s[i]
        /\ \A i \in D : i \in l .. h => \E k \in D : k \in l .. h /\ t[i] = s[k]
    BY <2>1, ShufflesInside
  <2> HIDE DEF D
  <2> QED BY <2>2, <2>3
<1>3. \A i \in D : s[i] \in Nat /\ t[i] \in Nat
  BY <1>2
<1>4. \A k \in 1 .. Len(pend) : pend[k][1] \in D /\ pend[k][2] \in D /\ pend[k][1] + th <= pend[k][2]
  BY DEF Pending
<1>5. \A k \in 1 .. Len(pend) : Fenced(s, pend[k])
  BY DEF Pending
<1>6. \A k, m \in 1 .. Len(pend) : k # m => Apart(pend[k], pend[m])
  BY DEF Pending
<1>7. \A i, j \in D : i + th < j => s[i] <= s[j]
        \/ \E k \in 1 .. Len(pend) : Inside(pend[k], i) /\ Inside(pend[k], j)
  BY DEF Pending
<1>8. ASSUME NEW i \in D, NEW k \in D, l <= k, k <= h
      PROVE  (i < l => t[i] <= t[k]) /\ (h < i => t[k] <= t[i])
  <2>1. PICK m \in D : l <= m /\ m <= h /\ t[k] = s[m]
    BY <1>2, <1>8
  <2>2. (i < l => s[i] <= s[m]) /\ (h < i => s[m] <= s[i])
    BY <1>1, <1>5, <2>1 DEF Fenced, Inside
  <2>3. i < l \/ h < i => t[i] = s[i]
    <3>1. l \in Int /\ h \in Int /\ i \in Int
      BY <1>1
    <3>2. i < l \/ h < i => ~(l <= i /\ i <= h)
      BY <3>1
    <3> HIDE DEF D
    <3> QED BY <1>2, <3>2
  <2> HIDE DEF D
  <2> QED BY <2>1, <2>2, <2>3
<1>9. ASSUME NEW m \in 1 .. Len(pend) PROVE Fenced(t, pend[m])
  <2>1. CASE m = n
    BY <1>1, <1>2, <1>8, <2>1 DEF Fenced, Inside
  <2>2. CASE m # n
    <3> DEFINE x == pend[m][1]
               y == pend[m][2]
    <3>1. x \in D /\ y \in D /\ x <= y /\ (y < l \/ h < x)
      <4>1. Apart(pend[m], pend[n])
        BY <1>6, <2>2
      <4>2. y < l \/ h < x
        BY <1>1, <4>1 DEF Apart
      <4> QED BY <1>4, <4>2
    <3>2. ASSUME NEW i \in D, NEW k \in D, x <= k, k <= y
          PROVE  (i < x => t[i] <= t[k]) /\ (y < i => t[k] <= t[i])
      <4>1. t[k] = s[k]
        <5>1. ~(l <= k /\ k <= h)
          BY <1>1, <3>1, <3>2
        <5> HIDE DEF D
        <5> QED BY <1>2, <5>1
      <4>2. \A j \in D : (j < x => s[j] <= s[k]) /\ (y < j => s[k] <= s[j])
        BY <1>5, <3>2 DEF Fenced, Inside
      <4>3. CASE l <= i /\ i <= h
        <5>1. PICK j \in D : l <= j /\ j <= h /\ t[i] = s[j]
          BY <1>2, <4>3
        <5>2. (i < x => j < x) /\ (y < i => y < j)
          BY <1>1, <3>1, <4>3, <5>1
        <5> QED BY <4>1, <4>2, <5>1, <5>2
      <4>4. CASE ~(l <= i /\ i <= h)
        BY <1>2, <4>1, <4>2, <4>4
      <4> QED BY <4>3, <4>4
    <3> QED BY <1>2, <3>2 DEF Fenced, Inside
  <2> QED BY <2>1, <2>2
<1>10. ASSUME NEW i \in D, NEW j \in D, i + th < j,
              ~ \E k \in 1 .. Len(pend) : Inside(pend[k], i) /\ Inside(pend[k], j)
       PROVE  t[i] <= t[j]
  <2>1. ~(Inside(pend[n], i) /\ Inside(pend[n], j)) /\ i < j
    BY <1>10
  <2>2. ~(l <= i /\ i <= h /\ l <= j /\ j <= h)
    BY <1>1, <2>1 DEF Inside
  <2>3. CASE l <= i /\ i <= h
    <3>1. h < j
      BY <1>1, <2>1, <2>2, <2>3
    <3> QED BY <1>8, <2>3, <3>1
  <2>4. CASE l <= j /\ j <= h
    <3>1. i < l
      BY <1>1, <2>1, <2>2, <2>4
    <3> QED BY <1>8, <2>4, <3>1
  <2>5. CASE ~(l <= i /\ i <= h) /\ ~(l <= j /\ j <= h)
    BY <1>2, <1>7, <1>10, <2>5
  <2> QED BY <2>3, <2>4, <2>5
<1> QED BY <1>2, <1>4, <1>6, <1>9, <1>10 DEF Pending

\* Where the walls of the part l .. h of s have met: up to x - 1 nothing is above v, and
\* from y + 1 on nothing is below it.
Met(s, l, h, x, y, v) ==
    /\ x \in Nat /\ y \in Nat /\ v \in Nat
    /\ y < x /\ l <= y /\ x <= h
    /\ \A k \in l .. x - 1 : s[k] <= v
    /\ \A k \in y + 1 .. h : v <= s[k]

\* In new the part behind the first n of pend has given way to l .. y and x .. h, those
\* of them that have more than th + 1 items.
Replaced(pend, new, n, th, l, h, x, y) ==
    /\ Len(new) \in Nat /\ n <= Len(new)
    /\ \A k \in 1 .. n : new[k] = pend[k]
    /\ \A k \in n + 1 .. Len(new) :
         /\ new[k] = <<l, y>> \/ new[k] = <<x, h>>
         /\ new[k][1] + th <= new[k][2]
         /\ \A m \in n + 1 .. Len(new) : k # m => new[k] # new[m]
    /\ (y - l > th) => \E k \in n + 1 .. Len(new) : new[k] = <<l, y>>
    /\ (h - x > th) => \E k \in n + 1 .. Len(new) : new[k] = <<x, h>>

\* A part where the walls have met falls into two.
LEMMA SplitKeepsPending ==
    ASSUME NEW s \in Seq(Nat), NEW th \in Nat, NEW n \in Nat,
           NEW pend, Len(pend) = n + 1, Pending(s, th, pend),
           NEW l, NEW h, pend[n + 1] = <<l, h>>,
           NEW x, NEW y, NEW v, Met(s, l, h, x, y, v),
           NEW new, Replaced(pend, new, n, th, l, h, x, y)
    PROVE  Pending(s, th, new)
<1> DEFINE D == 1 .. Len(s)
           I == 1 .. Len(new)
<1>0. Len(new) \in Nat /\ n <= Len(new)
  BY DEF Replaced
<1>1. /\ l \in D /\ h \in D /\ x \in D /\ y \in D /\ y < x /\ l <= y /\ x <= h /\ v \in Nat
      /\ \A i, k \in D : l <= k /\ k <= h => (i < l => s[i] <= s[k]) /\ (h < i => s[k] <= s[i])
      /\ \A k \in 1 .. n : Apart(pend[k], <<l, h>>) /\ Apart(<<l, h>>, pend[k])
  <2>1. n + 1 \in 1 .. Len(pend) /\ pend[n + 1][1] = l /\ pend[n + 1][2] = h
    OBVIOUS
  <2>2. l \in D /\ h \in D /\ Fenced(s, pend[n + 1])
    BY <2>1 DEF Pending
  <2>3. ASSUME NEW k \in 1 .. n PROVE Apart(pend[k], <<l, h>>) /\ Apart(<<l, h>>, pend[k])
    <3>1. k \in 1 .. Len(pend) /\ k # n + 1
      OBVIOUS
    <3>2. Apart(pend[k], pend[n + 1]) /\ Apart(pend[n + 1], pend[k])
      BY <2>1, <3>1 DEF Pending
    <3> QED BY <3>2
  <2>4. \A i, k \in D : l <= k /\ k <= h => (i < l => s[i] <= s[k]) /\ (h < i => s[k] <= s[i])
    BY <2>1, <2>2 DEF Fenced, Inside
  <2>5. x \in Nat /\ y \in Nat /\ v \in Nat /\ y < x /\ l <= y /\ x <= h
    BY DEF Met
  <2>6. x \in D /\ y \in D
    BY <2>2, <2>5
  <2> QED BY <2>2, <2>3, <2>4, <2>5, <2>6
<1>2. \A k \in D : s[k] \in Nat
  OBVIOUS
<1>3. \A k \in D : (l <= k /\ k < x => s[k] <= v) /\ (y < k /\ k <= h => v <= s[k])
  BY <1>1 DEF Met
<1>4. ASSUME NEW i \in D, NEW k \in D
      PROVE  /\ l <= k /\ k <= y => (i < l => s[i] <= s[k]) /\ (y < i => s[k] <= s[i])
             /\ x <= k /\ k <= h => (i < x => s[i] <= s[k]) /\ (h < i => s[k] <= s[i])
  <2>0. /\ l \in Int /\ h \in Int /\ k \in Int /\ i \in Int /\ v \in Int /\ x \in Int /\ y \in Int
        /\ y < x /\ l <= y /\ x <= h
    BY <1>1
  <2>1. l <= k /\ k <= y => l <= k /\ k <= h /\ s[k] <= v
    <3>1. l <= k /\ k <= y => l <= k /\ k < x /\ k <= h
      BY <2>0
    <3> QED BY <1>3, <3>1
  <2>2. x <= k /\ k <= h => l <= k /\ k <= h /\ v <= s[k]
    <3>1. x <= k /\ k <= h => l <= k /\ y < k /\ k <= h
      BY <2>0
    <3> QED BY <1>3, <3>1
  <2>3. y < i /\ i <= h => v <= s[i]
    BY <1>3
  <2>4. l <= i /\ i < x => s[i] <= v
    BY <1>3
  <2>5. /\ l <= k /\ k <= h => (i < l => s[i] <= s[k]) /\ (h < i => s[k] <= s[i])
        /\ s[i] \in Nat /\ s[k] \in Nat /\ i \in Nat /\ k \in Nat /\ l \in Nat /\ h \in Nat
    BY <1>1, <1>2
  <2> HIDE DEF D
  <2>6. ASSUME l <= k, k <= y PROVE (i < l => s[i] <= s[k]) /\ (y < i => s[k] <= s[i])
    <3>1. l <= k /\ k <= h /\ s[k] <= v /\ (i < l => s[i] <= s[k]) /\ (h < i => s[k] <= s[i])
      BY <2>1, <2>5, <2>6
    <3>2. y < i /\ i <= h => s[k] <= s[i]
      BY SMTT(60), <2>0, <2>3, <2>5, <3>1
    <3> QED BY <2>0, <3>1, <3>2
  <2>7. ASSUME x <= k, k <= h PROVE (i < x => s[i] <= s[k]) /\ (h < i => s[k] <= s[i])
    <3>1. l <= k /\ k <= h /\ v <= s[k] /\ (i < l => s[i] <= s[k]) /\ (h < i => s[k] <= s[i])
      BY <2>2, <2>5, <2>7
    <3>2. l <= i /\ i < x => s[i] <= s[k]
      BY SMTT(60), <2>0, <2>4, <2>5, <3>1
    <3> QED BY <2>0, <3>1, <3>2
  <2> QED BY <2>6, <2>7
<1>5. ASSUME NEW k \in I
      PROVE  \/ k \in 1 .. n /\ k \in 1 .. Len(pend) /\ new[k] = pend[k]
             \/ k \in n + 1 .. Len(new) /\ new[k] = <<l, y>>
             \/ k \in n + 1 .. Len(new) /\ new[k] = <<x, h>>
  <2>1. k \in 1 .. n \/ k \in n + 1 .. Len(new)
    BY <1>0
  <2> QED BY <2>1 DEF Replaced
<1>6. ASSUME NEW k \in I
      PROVE  /\ new[k][1] \in D /\ new[k][2] \in D /\ new[k][1] + th <= new[k][2]
             /\ Fenced(s, new[k])
  <2>1. CASE k \in 1 .. Len(pend) /\ new[k] = pend[k]
    BY <2>1 DEF Pending
  <2>2. CASE k \in n + 1 .. Len(new) /\ new[k] = <<l, y>>
    <3>1. new[k][1] = l /\ new[k][2] = y /\ new[k][1] + th <= new[k][2]
      BY <2>2 DEF Replaced
    <3>2. Fenced(s, new[k])
      BY <1>4, <3>1 DEF Fenced, Inside
    <3> QED BY <1>1, <3>1, <3>2
  <2>3. CASE k \in n + 1 .. Len(new) /\ new[k] = <<x, h>>
    <3>1. new[k][1] = x /\ new[k][2] = h /\ new[k][1] + th <= new[k][2]
      BY <2>3 DEF Replaced
    <3>2. Fenced(s, new[k])
      BY <1>4, <3>1 DEF Fenced, Inside
    <3> QED BY <1>1, <3>1, <3>2
  <2> QED BY <1>5, <2>1, <2>2, <2>3
<1>7. ASSUME NEW k \in I, NEW m \in I, k # m PROVE Apart(new[k], new[m])
  <2> DEFINE Old(j) == j \in 1 .. n /\ j \in 1 .. Len(pend) /\ new[j] = pend[j]
             New(j) == j \in n + 1 .. Len(new) /\ (new[j] = <<l, y>> \/ new[j] = <<x, h>>)
  <2>1. CASE Old(k) /\ Old(m)
    BY <1>7, <2>1 DEF Pending
  <2>2. ASSUME NEW j \in 1 .. n
        PROVE  /\ Apart(pend[j], <<l, y>>) /\ Apart(pend[j], <<x, h>>)
               /\ Apart(<<l, y>>, pend[j]) /\ Apart(<<x, h>>, pend[j])
    <3> DEFINE w == pend[j][1]
               z == pend[j][2]
    <3>1. j \in 1 .. Len(pend)
      OBVIOUS
    <3>2. w \in D /\ z \in D
      BY <3>1 DEF Pending
    <3>3. z < l \/ h < w
      BY <1>1 DEF Apart
    <3>4. /\ w \in Int /\ z \in Int /\ l \in Int /\ h \in Int /\ x \in Int /\ y \in Int
          /\ y < x /\ l <= y /\ x <= h
      <4>1. D \subseteq Int
        OBVIOUS
      <4> HIDE DEF D, w, z
      <4> QED BY <1>1, <3>2, <4>1
    <3>5. (z < l \/ y < w) /\ (z < x \/ h < w)
      BY SMTT(60), <3>3, <3>4
    <3> QED BY <3>5 DEF Apart
  <2>3. CASE Old(k) /\ New(m)
    BY <2>2, <2>3
  <2>4. CASE New(k) /\ Old(m)
    BY <2>2, <2>4
  <2>5. CASE New(k) /\ New(m)
    <3>1. new[k] # new[m]
      BY <1>7, <2>5 DEF Replaced
    <3>2. Apart(<<l, y>>, <<x, h>>) /\ Apart(<<x, h>>, <<l, y>>)
      BY <1>1 DEF Apart
    <3> QED BY <2>5, <3>1, <3>2
  <2> QED BY <1>5, <2>1, <2>3, <2>4, <2>5
<1>8. ASSUME NEW i \in D, NEW j \in D, i + th < j, ~(s[i] <= s[j])
      PROVE  \E k \in I : Inside(new[k], i) /\ Inside(new[k], j)
  <2>1. PICK k \in 1 .. Len(pend) : Inside(pend[k], i) /\ Inside(pend[k], j)
    BY <1>8 DEF Pending
  <2>2. CASE k \in 1 .. n
    <3>1. k \in I /\ new[k] = pend[k]
      BY <1>0, <2>2 DEF Replaced
    <3> QED BY <2>1, <3>1
  <2>3. CASE k \notin 1 .. n
    <3>1. k = n + 1
      BY <2>3
    <3>2. l <= i /\ i <= h /\ l <= j /\ j <= h
      BY <2>1, <3>1 DEF Inside
    <3>3. ASSUME i < x, y < j PROVE FALSE
      <4>1. s[i] <= v /\ v <= s[j]
        BY <1>3, <3>2, <3>3
      <4>2. s[i] \in Nat /\ s[j] \in Nat /\ v \in Nat
        BY <1>1, <1>2
      <4>3. s[i] <= s[j]
        BY <4>1, <4>2
      <4> QED BY <1>8, <4>3
    <3>4. CASE ~(i < x)
      <4>0. i \in Int /\ j \in Int /\ h \in Int /\ x \in Int /\ i + th < j
        BY <1>1, <1>8
      <4>1. x <= i /\ i <= h /\ x <= j /\ j <= h /\ h - x > th
        BY SMTT(60), <3>2, <3>4, <4>0
      <4>2. PICK m \in n + 1 .. Len(new) : new[m] = <<x, h>>
        BY <4>1 DEF Replaced
      <4>3. m \in I /\ Inside(new[m], i) /\ Inside(new[m], j)
        BY <1>0, <4>1, <4>2 DEF Inside
      <4> QED BY <4>3
    <3>5. CASE ~(y < j)
      <4>0. i \in Int /\ j \in Int /\ l \in Int /\ y \in Int /\ i + th < j
        BY <1>1, <1>8
      <4>1. l <= i /\ i <= y /\ l <= j /\ j <= y /\ y - l > th
        BY SMTT(60), <3>2, <3>5, <4>0
      <4>2. PICK m \in n + 1 .. Len(new) : new[m] = <<l, y>>
        BY <4>1 DEF Replaced
      <4>3. m \in I /\ Inside(new[m], i) /\ Inside(new[m], j)
        BY <1>0, <4>1, <4>2 DEF Inside
      <4> QED BY <4>3
    <3> QED BY <3>3, <3>4, <3>5
  <2> QED BY <2>2, <2>3
<1> QED BY <1>6, <1>7, <1>8 DEF Pending

-----------------------------------------------------------------------------
(* The median of three, the parts of the beginning, and two to the power.  *)

LEMMA OrderedShuffles ==
    ASSUME NEW s \in Seq(Nat), NEW l \in Nat, NEW h \in Nat,
           NEW i \in 1 .. Len(s), NEW j \in 1 .. Len(s), NEW k \in 1 .. Len(s),
           i \in l .. h, j \in l .. h, k \in l .. h, i <= j, j < k
    PROVE  /\ Shuffles(s, Ordered(s, i, j, k), l, h)
           /\ Ordered(s, i, j, k)[i] <= Ordered(s, i, j, k)[j]
           /\ Ordered(s, i, j, k)[j] <= Ordered(s, i, j, k)[k]
<1> DEFINE s1 == IF s[j] < s[i] THEN Swap(s, i, j) ELSE s
           s2 == IF s1[k] < s1[j] THEN Swap(s1, j, k) ELSE s1
           r == IF s1[k] < s1[j] /\ s2[j] < s2[i] THEN Swap(s2, i, j) ELSE s2
<1>0. Ordered(s, i, j, k) = r
  BY DEF Ordered
<1>1. /\ i \in Nat /\ j \in Nat /\ k \in Nat /\ k # i /\ k # j
      /\ s[i] \in Nat /\ s[j] \in Nat /\ s[k] \in Nat
  OBVIOUS
<1>2. Shuffles(s, s1, l, h) /\ s1[k] = s[k] /\ s1[i] <= s1[j]
  <2>1. CASE s[j] < s[i]
    <3>1. /\ Shuffles(s, Swap(s, i, j), l, h)
          /\ Swap(s, i, j)[i] = s[j] /\ Swap(s, i, j)[j] = s[i] /\ Swap(s, i, j)[k] = s[k]
      BY <1>1, SwapShuffles
    <3> QED BY <1>1, <2>1, <3>1
  <2>2. CASE ~(s[j] < s[i])
    BY <1>1, <2>2, ShufflesNothing
  <2> QED BY <2>1, <2>2
<1>3. /\ s1 \in Seq(Nat) /\ Len(s1) = Len(s)
      /\ i \in 1 .. Len(s1) /\ j \in 1 .. Len(s1) /\ k \in 1 .. Len(s1)
  BY <1>2 DEF Shuffles
<1> HIDE DEF s1
<1>4. s1[i] \in Nat /\ s1[j] \in Nat /\ s1[k] \in Nat
  BY SMTT(60), <1>3
<1>5. CASE ~(s1[k] < s1[j])
  BY <1>0, <1>2, <1>4, <1>5
<1>6. CASE s1[k] < s1[j]
  <2>1. s2 = Swap(s1, j, k)
    BY <1>6
  <2>2. /\ Shuffles(s1, s2, l, h) /\ s2[j] = s1[k] /\ s2[k] = s1[j]
        /\ (i # j => s2[i] = s1[i]) /\ (i = j => s2[i] = s1[k])
    <3>1. /\ Shuffles(s1, Swap(s1, j, k), l, h)
          /\ Swap(s1, j, k)[j] = s1[k] /\ Swap(s1, j, k)[k] = s1[j]
          /\ \A m \in 1 .. Len(s1) : m # j /\ m # k => Swap(s1, j, k)[m] = s1[m]
      <4>1. s1 \in Seq(Nat) /\ j \in 1 .. Len(s1) /\ k \in 1 .. Len(s1)
        BY <1>3
      <4> HIDE DEF s2, r
      <4> QED BY <4>1, SwapShuffles
    <3> HIDE DEF s2
    <3> QED BY <1>1, <1>3, <2>1, <3>1
  <2>3. s2 \in Seq(Nat) /\ Len(s2) = Len(s) /\ i \in 1 .. Len(s2) /\ j \in 1 .. Len(s2) /\ k \in 1 .. Len(s2)
    <3> HIDE DEF s2
    <3> QED BY <1>3, <2>2 DEF Shuffles
  <2>4. Shuffles(s, s2, l, h)
    BY <1>2, <2>2, ShufflesOn
  <2> HIDE DEF s2
  <2>5. s2[i] \in Nat /\ s2[j] \in Nat /\ s2[k] \in Nat
    BY SMTT(60), <2>3
  <2>6. CASE ~(s2[j] < s2[i])
    <3>1. r = s2
      BY <2>6
    <3> HIDE DEF r
    <3> QED BY <1>0, <1>4, <1>6, <2>2, <2>4, <2>5, <2>6, <3>1
  <2>7. CASE s2[j] < s2[i]
    <3>1. r = Swap(s2, i, j)
      BY <1>6, <2>7
    <3> HIDE DEF r
    <3>2. Shuffles(s2, r, l, h) /\ r[i] = s2[j] /\ r[j] = s2[i] /\ r[k] = s2[k]
      <4>1. /\ Shuffles(s2, Swap(s2, i, j), l, h)
            /\ Swap(s2, i, j)[i] = s2[j] /\ Swap(s2, i, j)[j] = s2[i]
            /\ \A m \in 1 .. Len(s2) : m # i /\ m # j => Swap(s2, i, j)[m] = s2[m]
        BY SMTT(60), <2>3, SwapShuffles
      <4> QED BY <1>1, <2>3, <3>1, <4>1
    <3>3. Shuffles(s, r, l, h)
      BY <2>4, <3>2, ShufflesOn
    <3>4. i # j
      BY <2>5, <2>7
    <3> QED BY <1>0, <1>2, <1>4, <2>2, <2>5, <2>7, <3>2, <3>3, <3>4
  <2> QED BY <2>6, <2>7
<1> QED BY <1>5, <1>6

\* The whole is one part at first.
LEMMA PendingStarts ==
    ASSUME NEW s \in Seq(Nat), NEW th \in Nat, Len(s) > th,
           NEW pend, pend = Append(<<>>, <<1, Len(s)>>)
    PROVE  Pending(s, th, pend)
<1>1. Len(pend) = 1 /\ pend[1] = <<1, Len(s)>> /\ pend[1][1] = 1 /\ pend[1][2] = Len(s)
  OBVIOUS
<1>2. Len(s) \in Nat /\ Len(s) >= 1
  OBVIOUS
<1>3. Fenced(s, pend[1])
  BY <1>1, <1>2 DEF Fenced, Inside
<1>4. \A i \in 1 .. Len(s) : Inside(pend[1], i)
  BY <1>1, <1>2 DEF Inside
<1>5. 1 .. Len(pend) = {1}
  BY <1>1
<1>6. \A i, j \in 1 .. Len(s) : \E k \in 1 .. Len(pend) : Inside(pend[k], i) /\ Inside(pend[k], j)
  BY <1>4, <1>5
<1>7. pend[1][1] \in 1 .. Len(s) /\ pend[1][2] \in 1 .. Len(s) /\ pend[1][1] + th <= pend[1][2]
  BY <1>1, <1>2
<1> QED BY <1>3, <1>5, <1>6, <1>7 DEF Pending

\* Doubled is what it looks like.
LEMMA DoubledIs ==
    /\ Doubled \in [Nat -> Nat] /\ Doubled[0] = 1
    /\ \A n \in Nat : Doubled[n + 1] = 2 * Doubled[n]
<1> DEFINE Step == [n \in Nat |-> [m \in Nat |-> 2 * m]]
           Body(f) == [n \in Nat |-> IF n = 0 THEN 1 ELSE 2 * f[n - 1]]
<1>1. \A n \in Nat : \A m \in Nat : Step[n][m] = 2 * m /\ Step[n][m] \in Nat
  OBVIOUS
<1> HIDE DEF Step
<1>2. PICK f \in [Nat -> Nat] : f[0] = 1 /\ \A n \in Nat : f[n + 1] = Step[n + 1][f[n]]
  <2> DEFINE T == Nat
             one == 1
  <2>1. one \in T /\ StaysIn(T, Step)
    BY <1>1 DEF StaysIn
  <2> HIDE DEF T, one
  <2>2. \E f \in [Nat -> T] : f[0] = one /\ \A n \in Nat : f[n + 1] = Step[n + 1][f[n]]
    BY <2>1, IteratesForever
  <2> QED BY <2>2 DEF T, one
<1>3. f = Body(f)
  <2>1. ASSUME NEW n \in Nat PROVE f[n] = IF n = 0 THEN 1 ELSE 2 * f[n - 1]
    <3>1. CASE n = 0
      BY <1>2, <3>1
    <3>2. CASE n # 0
      <4>1. n - 1 \in Nat /\ (n - 1) + 1 = n
        BY <3>2
      <4>2. f[n] = Step[n][f[n - 1]] /\ f[n - 1] \in Nat
        BY <1>2, <4>1
      <4> QED BY <1>1, <3>2, <4>2
    <3> QED BY <3>1, <3>2
  <2> QED BY <1>2, <2>1
<1>4. Doubled = CHOOSE g : g = Body(g)
  BY DEF Doubled
<1> HIDE DEF Body
<1>5. Doubled = Body(Doubled)
  BY <1>3, <1>4
<1>6. Doubled = [n \in Nat |-> IF n = 0 THEN 1 ELSE 2 * Doubled[n - 1]]
  BY <1>5 DEF Body
<1>7. \A n \in Nat : Doubled[n] = IF n = 0 THEN 1 ELSE 2 * Doubled[n - 1]
  BY <1>6
<1>8. Doubled[0] = 1 /\ \A n \in Nat : Doubled[n + 1] = 2 * Doubled[n]
  BY <1>7
<1> DEFINE S == {n \in Nat : Doubled[n] \in Nat}
<1>9. Nat \subseteq S
  <2>1. 0 \in S
    BY <1>8
  <2>2. \A n \in Nat : n \in S => n + 1 \in S
    BY <1>8
  <2> HIDE DEF S
  <2> QED BY <2>1, <2>2, SetInduction
<1>10. \A n \in Nat : Doubled[n] \in Nat
  BY <1>9
<1>11. Doubled = [n \in Nat |-> Doubled[n]]
  <2> DEFINE v(n) == IF n = 0 THEN 1 ELSE 2 * Doubled[n - 1]
  <2>1. Doubled = [n \in Nat |-> v(n)]
    BY <1>6
  <2>2. \A n \in Nat : Doubled[n] = v(n)
    BY <1>7
  <2> HIDE DEF v
  <2> QED BY <2>1, <2>2
<1> QED BY <1>8, <1>10, <1>11

-----------------------------------------------------------------------------
(* The invariant.                                                          *)

\* The parts are no larger than what the stack allows: each is at most half as large
\* as the one below it.
Narrow(pend, n) ==
    \A k \in 1 .. Len(pend) : (pend[k][2] - pend[k][1] + 1) * Doubled[k - 1] <= n

\* What is still to be sorted, the part in work last.
Unsorted == Append(stack, <<lo, hi>>)

Partitioning == {"left", "right", "meet", "split"}
Quicksort == Partitioning \cup {"median"}

\* What is left of left_ptr is not above the pivot, what is right of right_ptr is not
\* below it, and neither is at the end of the part.
Walls ==
    /\ lo < left /\ left <= hi /\ lo <= right /\ right < hi
    /\ \A k \in lo .. left - 1 : array[k] <= pivot
    /\ \A k \in right + 1 .. hi : pivot <= array[k]

\* Up to run_ptr the items are in order, with the least of all in front, and those from
\* tmp_ptr on are above the one that is to be inserted.
Inserting ==
    /\ run \in 3 .. Size /\ tmp \in 1 .. run - 1
    /\ \A i, j \in 1 .. run - 1 : i < j => array[i] <= array[j]
    /\ \A i \in 1 .. Size : array[1] <= array[i]
    /\ \A k \in tmp + 1 .. run - 1 : array[run] < array[k]

SortInv ==
    /\ SortTypeOK
    /\ Shuffles(input.items, array, 1, Size)
    /\ pc \in Quicksort => Pending(array, MaxThresh, Unsorted) /\ Narrow(Unsorted, Size)
    /\ pc \in Partitioning => Walls
    /\ pc \in {"right", "meet"} => pivot <= array[left]
    /\ pc = "meet" => array[right] <= pivot
    /\ pc = "split" => right < left
    /\ pc \in Quicksort \cup {"first"} => run = 3 /\ tmp = 2 /\ Size >= 1
    /\ NearlySorted
    /\ pc = "insert" => Inserting
    /\ ReturnsInOrder

LEMMA Basics ==
    SortTypeOK =>
        /\ input.items \in Seq(Nat) /\ Size \in Nat /\ MaxThresh \in Nat /\ MaxThresh > 0
        /\ array \in Seq(Nat) /\ Len(array) = Size
        /\ \A i \in 1 .. Size : array[i] \in Nat
<1> SUFFICES ASSUME SortTypeOK
             PROVE  /\ input.items \in Seq(Nat) /\ Size \in Nat /\ MaxThresh \in Nat /\ MaxThresh > 0
                    /\ array \in Seq(Nat) /\ Len(array) = Size
                    /\ \A i \in 1 .. Size : array[i] \in Nat
  OBVIOUS
<1>1. input.items \in Seq(Nat) /\ input.thresh \in Nat \ {0}
  BY SortAssumption DEF SortTypeOK, Sorting
<1>2. array \in Seq(Nat) /\ Len(array) = Size
  BY DEF SortTypeOK
<1>3. \A i \in 1 .. Len(array) : array[i] \in Nat
  BY <1>2
<1> QED BY <1>1, <1>2, <1>3 DEF Size, MaxThresh

LEMMA AppendIs ==
    ASSUME NEW S, NEW s \in Seq(S), NEW x
    PROVE  /\ Len(s) \in Nat /\ Len(Append(s, x)) = Len(s) + 1 /\ Append(s, x)[Len(s) + 1] = x
           /\ \A k \in 1 .. Len(s) : Append(s, x)[k] = s[k]
  OBVIOUS

LEMMA FrontIs ==
    ASSUME NEW S, NEW s \in Seq(S), NEW m \in Nat, m <= Len(s)
    PROVE  /\ SubSeq(s, 1, m) \in Seq(S) /\ Len(SubSeq(s, 1, m)) = m
           /\ \A k \in 1 .. m : SubSeq(s, 1, m)[k] = s[k]
  OBVIOUS

LEMMA UnsortedIs ==
    SortTypeOK =>
        /\ Len(stack) \in Nat /\ Len(Unsorted) = Len(stack) + 1
        /\ Unsorted[Len(stack) + 1] = <<lo, hi>>
        /\ \A k \in 1 .. Len(stack) : Unsorted[k] = stack[k]
  BY AppendIs DEF SortTypeOK, Unsorted

\* The part in work.
LEMMA PartInWork ==
    SortInv /\ pc \in Quicksort =>
        lo \in 1 .. Size /\ hi \in 1 .. Size /\ lo + MaxThresh <= hi /\ lo < hi
<1> SUFFICES ASSUME SortInv, pc \in Quicksort
             PROVE  lo \in 1 .. Size /\ hi \in 1 .. Size /\ lo + MaxThresh <= hi /\ lo < hi
  OBVIOUS
<1>1. SortTypeOK /\ Pending(array, MaxThresh, Unsorted)
  BY DEF SortInv
<1> DEFINE n == Len(stack) + 1
           p == Unsorted[n]
<1>2. n \in 1 .. Len(Unsorted) /\ p[1] = lo /\ p[2] = hi
  BY <1>1, UnsortedIs
<1> HIDE DEF n, p
<1>3. p[1] \in 1 .. Len(array) /\ p[2] \in 1 .. Len(array) /\ p[1] + MaxThresh <= p[2]
  BY <1>1, <1>2 DEF Pending, p
<1> QED BY <1>1, <1>2, <1>3, Basics

\* Exchanges within the part in work.
LEMMA ShuffleStep ==
    ASSUME NEW t, SortInv, pc \in Quicksort, Shuffles(array, t, lo, hi)
    PROVE  /\ t \in Seq(Nat) /\ Len(t) = Size
           /\ Pending(t, MaxThresh, Unsorted) /\ Shuffles(input.items, t, 1, Size)
<1>1. SortTypeOK /\ Pending(array, MaxThresh, Unsorted) /\ Shuffles(input.items, array, 1, Size)
  BY DEF SortInv
<1>2. t \in Seq(Nat) /\ Len(t) = Size
  BY <1>1, Basics DEF Shuffles
<1>3. Shuffles(array, t, 1, Size)
  BY <1>1, Basics, PartInWork, ShufflesWider
<1>4. Shuffles(input.items, t, 1, Size)
  BY <1>1, <1>3, ShufflesOn
<1>5. Pending(t, MaxThresh, Unsorted)
  <2> DEFINE n == Len(stack) + 1
             q == Unsorted
  <2>1. Len(q) \in Nat /\ n \in 1 .. Len(q) /\ q[n] = <<lo, hi>> /\ Pending(array, MaxThresh, q)
    BY <1>1, UnsortedIs
  <2>2. MaxThresh \in Nat
    BY <1>1, Basics
  <2> HIDE DEF n, q
  <2>3. Pending(t, MaxThresh, q)
    BY <2>1, <2>2, ShuffleKeepsPending
  <2> QED BY <2>3 DEF q
<1> QED BY <1>2, <1>4, <1>5

\* The steps between two splits.
LEMMA PartitionGoesOn ==
    ASSUME SortInv, pc \in Quicksort, pc' \in Partitioning, SortTypeOK',
           UNCHANGED <<input, lo, hi, stack, run, tmp>>,
           Shuffles(array, array', lo, hi), Walls',
           pc' \in {"right", "meet"} => pivot' <= array'[left'],
           pc' = "meet" => array'[right'] <= pivot',
           pc' = "split" => right' < left'
    PROVE  SortInv'
<1>1. PICK t : t = array'
  OBVIOUS
<1>2. Pending(t, MaxThresh, Unsorted) /\ Shuffles(input.items, t, 1, Size)
  BY <1>1, ShuffleStep
<1>3. MaxThresh' = MaxThresh /\ Size' = Size /\ Unsorted' = Unsorted
  BY DEF MaxThresh, Size, Unsorted
<1>4. Narrow(Unsorted', Size') /\ Size' >= 1 /\ run' = 3 /\ tmp' = 2
  BY <1>3 DEF SortInv
<1>5. Pending(array', MaxThresh', Unsorted') /\ Shuffles(input'.items, array', 1, Size')
  BY <1>1, <1>2, <1>3
<1>6. /\ pc' \in Quicksort /\ pc' # "first" /\ pc' # "insert" /\ pc' # "done"
  BY DEF Partitioning, Quicksort
<1> QED BY <1>4, <1>5, <1>6 DEF SortInv, NearlySorted, ReturnsInOrder

LEMMA MedianKeeps == SortInv /\ Median => SortInv'
<1> SUFFICES ASSUME SortInv, Median PROVE SortInv'
  OBVIOUS
<1> DEFINE mid == lo + (hi - lo) \div 2
<1>1. SortTypeOK /\ pc \in Quicksort /\ pc' = "left"
  BY DEF SortInv, Median, Quicksort
<1>2. /\ lo \in 1 .. Size /\ hi \in 1 .. Size /\ lo < hi
      /\ array \in Seq(Nat) /\ Len(array) = Size /\ Size \in Nat
  BY <1>1, PartInWork, Basics
<1>3. mid \in 1 .. Size /\ lo <= mid /\ mid < hi
  BY <1>2
<1>4. /\ array' = Ordered(array, lo, mid, hi) /\ pivot' = array'[mid]
      /\ left' = lo + 1 /\ right' = hi - 1 /\ UNCHANGED <<input, lo, hi, stack, run, tmp>>
  BY DEF Median
<1> HIDE DEF mid
<1>5. /\ Shuffles(array, array', lo, hi)
      /\ array'[lo] <= array'[mid] /\ array'[mid] <= array'[hi]
  <2>1. /\ lo \in Nat /\ hi \in Nat /\ lo \in lo .. hi /\ mid \in lo .. hi /\ hi \in lo .. hi
        /\ lo \in 1 .. Len(array) /\ mid \in 1 .. Len(array) /\ hi \in 1 .. Len(array)
    BY <1>2, <1>3
  <2> QED BY <1>2, <1>3, <1>4, <2>1, OrderedShuffles
<1>6. array' \in Seq(Nat) /\ Len(array') = Size
  BY <1>1, <1>5, PartInWork, ShuffleStep
<1>7. pivot' \in Nat
  BY <1>2, <1>3, <1>4, <1>6
<1>8. SortTypeOK'
  <2>1. Size' = Size
    BY <1>4 DEF Size
  <2>2. left' \in Nat /\ right' \in Nat
    BY <1>2, <1>4
  <2> QED BY <1>1, <1>4, <1>6, <1>7, <2>1, <2>2 DEF SortTypeOK
<1>9. Walls'
  <2>1. lo' < left' /\ left' <= hi' /\ lo' <= right' /\ right' < hi'
    BY <1>2, <1>4
  <2>2. lo' .. left' - 1 = {lo} /\ right' + 1 .. hi' = {hi}
    BY <1>2, <1>4
  <2> QED BY <1>4, <1>5, <2>1, <2>2 DEF Walls
<1>10. pc' \in Partitioning
  BY <1>1 DEF Partitioning
<1> QED BY <1>1, <1>4, <1>5, <1>8, <1>9, <1>10, PartitionGoesOn

\* Nothing but the walls moves.
LEMMA LeftKeeps == SortInv /\ Left => SortInv'
<1> SUFFICES ASSUME SortInv, Left PROVE SortInv'
  OBVIOUS
<1>1. /\ SortTypeOK /\ pc = "left" /\ pc \in Quicksort /\ Walls
      /\ UNCHANGED <<input, array, lo, hi, right, pivot, stack, run, tmp>>
  BY DEF SortInv, Left, Quicksort, Partitioning
<1>2. /\ lo \in 1 .. Size /\ hi \in 1 .. Size /\ lo < hi /\ left \in Nat /\ right \in Nat
      /\ pivot \in Nat /\ array \in Seq(Nat) /\ Size \in Nat /\ \A i \in 1 .. Size : array[i] \in Nat
  BY <1>1, PartInWork, Basics DEF SortTypeOK
<1>3. Shuffles(array, array', lo, hi)
  BY <1>1, <1>2, ShufflesNothing
<1>4. Size' = Size
  BY <1>1 DEF Size
<1>5. CASE array[left] < pivot
  <2>1. left' = left + 1 /\ pc' = pc
    BY <1>5 DEF Left
  <2>2. left \in 1 .. Size /\ left < hi
    <3>1. left \in 1 .. Size
      BY <1>1, <1>2 DEF Walls
    <3>2. pivot <= array[hi]
      BY <1>1, <1>2 DEF Walls
    <3>3. left # hi
      BY <1>2, <1>5, <3>1, <3>2
    <3> QED BY <1>1, <1>2, <3>1, <3>3 DEF Walls
  <2>3. Walls'
    <3>1. \A k \in lo .. left : array[k] <= pivot
      <4>1. array[left] <= pivot
        BY <1>2, <1>5, <2>2
      <4>2. ASSUME NEW k \in lo .. left PROVE k \in lo .. left - 1 \/ k = left
        BY <1>2
      <4> QED BY <1>1, <4>1, <4>2 DEF Walls
    <3>2. left' - 1 = left /\ lo < left' /\ left' <= hi
      BY <1>1, <1>2, <2>1, <2>2 DEF Walls
    <3> QED BY <1>1, <3>1, <3>2 DEF Walls
  <2>4. SortTypeOK'
    BY <1>1, <1>2, <1>4, <2>1 DEF SortTypeOK
  <2> QED BY <1>1, <1>3, <2>1, <2>3, <2>4, PartitionGoesOn DEF Partitioning
<1>6. CASE ~(array[left] < pivot)
  <2>1. left' = left /\ pc' = "right"
    BY <1>6 DEF Left
  <2>2. pivot <= array[left]
    <3>1. left \in 1 .. Size
      BY <1>1, <1>2 DEF Walls
    <3> QED BY <1>2, <1>6, <3>1
  <2>3. Walls' /\ SortTypeOK'
    BY <1>1, <1>4, <2>1 DEF Walls, SortTypeOK
  <2> QED BY <1>1, <1>3, <2>1, <2>2, <2>3, PartitionGoesOn DEF Partitioning
<1> QED BY <1>5, <1>6

LEMMA RightKeeps == SortInv /\ Right => SortInv'
<1> SUFFICES ASSUME SortInv, Right PROVE SortInv'
  OBVIOUS
<1>1. /\ SortTypeOK /\ pc = "right" /\ pc \in Quicksort /\ Walls /\ pivot <= array[left]
      /\ UNCHANGED <<input, array, lo, hi, left, pivot, stack, run, tmp>>
  BY DEF SortInv, Right, Quicksort, Partitioning
<1>2. /\ lo \in 1 .. Size /\ hi \in 1 .. Size /\ lo < hi /\ left \in Nat /\ right \in Nat
      /\ pivot \in Nat /\ array \in Seq(Nat) /\ Size \in Nat /\ \A i \in 1 .. Size : array[i] \in Nat
  BY <1>1, PartInWork, Basics DEF SortTypeOK
<1>3. Shuffles(array, array', lo, hi)
  BY <1>1, <1>2, ShufflesNothing
<1>4. Size' = Size
  BY <1>1 DEF Size
<1>5. CASE pivot < array[right]
  <2>1. right' = right - 1 /\ pc' = pc
    BY <1>5 DEF Right
  <2>2. right \in 1 .. Size /\ lo < right
    <3>1. right \in 1 .. Size
      BY <1>1, <1>2 DEF Walls
    <3>2. array[lo] <= pivot
      BY <1>1, <1>2 DEF Walls
    <3>3. right # lo
      BY <1>2, <1>5, <3>1, <3>2
    <3> QED BY <1>1, <1>2, <3>1, <3>3 DEF Walls
  <2>3. Walls'
    <3>1. \A k \in right .. hi : pivot <= array[k]
      <4>1. pivot <= array[right]
        BY <1>2, <1>5, <2>2
      <4>2. ASSUME NEW k \in right .. hi PROVE k \in right + 1 .. hi \/ k = right
        BY <1>2
      <4> QED BY <1>1, <4>1, <4>2 DEF Walls
    <3>2. right' + 1 = right /\ lo <= right' /\ right' < hi
      BY <1>1, <1>2, <2>1, <2>2 DEF Walls
    <3> QED BY <1>1, <3>1, <3>2 DEF Walls
  <2>4. SortTypeOK'
    <3>1. right' \in Nat
      BY <1>2, <2>1, <2>2
    <3> QED BY <1>1, <1>2, <1>4, <2>1, <3>1 DEF SortTypeOK
  <2> QED BY <1>1, <1>3, <2>1, <2>3, <2>4, PartitionGoesOn DEF Partitioning
<1>6. CASE ~(pivot < array[right])
  <2>1. right' = right /\ pc' = "meet"
    BY <1>6 DEF Right
  <2>2. array[right] <= pivot
    <3>1. right \in 1 .. Size
      BY <1>1, <1>2 DEF Walls
    <3> QED BY <1>2, <1>6, <3>1
  <2>3. Walls' /\ SortTypeOK'
    BY <1>1, <1>4, <2>1 DEF Walls, SortTypeOK
  <2> QED BY <1>1, <1>3, <2>1, <2>2, <2>3, PartitionGoesOn DEF Partitioning
<1> QED BY <1>5, <1>6

LEMMA MeetKeeps == SortInv /\ Meet => SortInv'
<1> SUFFICES ASSUME SortInv, Meet PROVE SortInv'
  OBVIOUS
<1>1. /\ SortTypeOK /\ pc = "meet" /\ pc \in Quicksort /\ Walls
      /\ pivot <= array[left] /\ array[right] <= pivot
      /\ UNCHANGED <<input, lo, hi, pivot, stack, run, tmp>>
  BY DEF SortInv, Meet, Quicksort, Partitioning
<1>2. /\ lo \in 1 .. Size /\ hi \in 1 .. Size /\ lo < hi /\ left \in Nat /\ right \in Nat
      /\ pivot \in Nat /\ array \in Seq(Nat) /\ Len(array) = Size /\ Size \in Nat
      /\ \A i \in 1 .. Size : array[i] \in Nat
  BY <1>1, PartInWork, Basics DEF SortTypeOK
<1>3. /\ left \in lo .. hi /\ right \in lo .. hi /\ left \in 1 .. Len(array) /\ right \in 1 .. Len(array)
      /\ lo < left /\ left <= hi /\ lo <= right /\ right < hi
  BY <1>1, <1>2 DEF Walls
<1>4. Size' = Size
  BY <1>1 DEF Size
<1>5. /\ \A k \in 1 .. Size : (lo <= k /\ k < left => array[k] <= pivot)
                              /\ (right < k /\ k <= hi => pivot <= array[k])
  BY <1>1, <1>2, <1>3 DEF Walls
<1>6. CASE left < right
  <2>1. /\ array' = Swap(array, left, right) /\ left' = left + 1 /\ right' = right - 1
        /\ pc' = IF left' <= right' THEN "left" ELSE "split"
    BY <1>2, <1>6 DEF Meet
  <2>2. /\ Shuffles(array, array', lo, hi)
        /\ array'[left] = array[right] /\ array'[right] = array[left]
        /\ \A k \in 1 .. Size : k # left /\ k # right => array'[k] = array[k]
    <3>1. lo \in Nat /\ hi \in Nat
      BY <1>2
    <3>2. /\ Shuffles(array, Swap(array, left, right), lo, hi)
          /\ Swap(array, left, right)[left] = array[right]
          /\ Swap(array, left, right)[right] = array[left]
          /\ \A k \in 1 .. Len(array) :
               k # left /\ k # right => Swap(array, left, right)[k] = array[k]
      <4>1. /\ array \in Seq(Nat) /\ left \in 1 .. Len(array) /\ right \in 1 .. Len(array)
            /\ left \in lo .. hi /\ right \in lo .. hi
        BY <1>2, <1>3
      <4> QED BY SMTT(60), <3>1, <4>1, SwapShuffles
    <3> QED BY <1>2, <2>1, <3>2
  <2>3. array' \in Seq(Nat) /\ Len(array') = Size
    BY <1>1, <2>2, ShuffleStep
  <2>4. SortTypeOK'
    <3>1. left' \in Nat /\ right' \in Nat
      BY <1>2, <1>3, <1>6, <2>1
    <3>2. pc' \in {"left", "split"}
      BY <2>1
    <3> QED BY <1>1, <1>4, <2>3, <3>1, <3>2 DEF SortTypeOK
  <2>5. Walls'
    <3>1. ASSUME NEW k \in lo .. left PROVE array'[k] <= pivot
      <4>1. CASE k = left
        BY <1>1, <2>2, <4>1
      <4>2. CASE k # left
        <5>1. k \in 1 .. Size /\ k # right /\ k < left /\ lo <= k
          BY <1>2, <1>3, <1>6, <4>2
        <5> QED BY <1>5, <2>2, <4>2, <5>1
      <4> QED BY <4>1, <4>2
    <3>2. ASSUME NEW k \in right .. hi PROVE pivot <= array'[k]
      <4>1. CASE k = right
        BY <1>1, <2>2, <4>1
      <4>2. CASE k # right
        <5>1. k \in 1 .. Size /\ k # left /\ right < k /\ k <= hi
          BY <1>2, <1>3, <1>6, <4>2
        <5> QED BY <1>5, <2>2, <4>2, <5>1
      <4> QED BY <4>1, <4>2
    <3>3. /\ left' - 1 = left /\ right' + 1 = right
          /\ lo < left' /\ left' <= hi /\ lo <= right' /\ right' < hi
      BY <1>2, <1>3, <1>6, <2>1
    <3> QED BY <1>1, <3>1, <3>2, <3>3 DEF Walls
  <2>6. pc' \in Partitioning /\ pc' \notin {"right", "meet"}
    BY <2>1 DEF Partitioning
  <2>7. pc' = "split" => right' < left'
    BY <1>2, <2>1
  <2> QED BY <1>1, <2>2, <2>4, <2>5, <2>6, <2>7, PartitionGoesOn
<1>7. CASE ~(left < right)
  <2>0. array' = array /\ Shuffles(array, array', lo, hi)
    BY <1>2, <1>7, ShufflesNothing DEF Meet
  <2>1. CASE left = right
    <3>1. left' = left + 1 /\ right' = right - 1 /\ pc' = "split"
      BY <1>2, <2>1 DEF Meet
    <3>2. left' \in Nat /\ right' \in Nat /\ right' < left'
      BY <1>2, <1>3, <2>1, <3>1
    <3>3. SortTypeOK'
      BY <1>1, <1>4, <2>0, <3>1, <3>2 DEF SortTypeOK
    <3>4. array[left] = pivot
      BY <1>1, <1>2, <1>3, <2>1
    <3>5. ASSUME NEW k \in lo .. left PROVE array[k] <= pivot
      <4>1. k = left \/ (k \in 1 .. Size /\ lo <= k /\ k < left)
        BY <1>2, <1>3
      <4> QED BY <1>2, <1>5, <3>4, <4>1
    <3>6. ASSUME NEW k \in right .. hi PROVE pivot <= array[k]
      <4>1. k = left \/ (k \in 1 .. Size /\ right < k /\ k <= hi)
        BY <1>2, <1>3, <2>1
      <4> QED BY <1>2, <1>5, <3>4, <4>1
    <3>7. /\ left' - 1 = left /\ right' + 1 = right
          /\ lo < left' /\ left' <= hi /\ lo <= right' /\ right' < hi
      BY <1>2, <1>3, <2>1, <3>1
    <3>8. Walls'
      BY <1>1, <2>0, <3>5, <3>6, <3>7 DEF Walls
    <3> QED BY <1>1, <2>0, <3>1, <3>2, <3>3, <3>8, PartitionGoesOn DEF Partitioning
  <2>2. CASE left # right
    <3>1. ~(left <= right)
      BY <1>2, <1>7, <2>2
    <3>2. left' = left /\ right' = right /\ pc' = "split"
      BY <3>1 DEF Meet
    <3>3. right' < left'
      BY <1>2, <3>1, <3>2
    <3>4. SortTypeOK' /\ Walls'
      BY <1>1, <1>4, <2>0, <3>2 DEF SortTypeOK, Walls
    <3> QED BY <1>1, <2>0, <3>2, <3>3, <3>4, PartitionGoesOn DEF Partitioning
  <2> QED BY <2>1, <2>2
<1> QED BY <1>6, <1>7

\* The least of the first items goes to the front.
LEMMA FirstKeeps == SortInv /\ First => SortInv'
<1> SUFFICES ASSUME SortInv, First PROVE SortInv'
  OBVIOUS
<1>1. /\ SortTypeOK /\ pc = "first" /\ Size >= 1 /\ run = 3 /\ tmp = 2 /\ NearlySorted
      /\ Shuffles(input.items, array, 1, Size)
      /\ UNCHANGED <<input, lo, hi, left, right, pivot, stack, run, tmp>>
  BY DEF SortInv, First, Quicksort, Partitioning
<1>2. /\ array \in Seq(Nat) /\ Len(array) = Size /\ Size \in Nat /\ MaxThresh \in Nat
      /\ \A i \in 1 .. Size : array[i] \in Nat
  BY <1>1, Basics
<1>3. PICK s \in FirstPlaces :
         /\ \A i \in FirstPlaces : array[s] <= array[i]
         /\ array' = Swap(array, 1, s)
  BY DEF First
<1>4. /\ s \in 1 .. Size /\ 1 \in FirstPlaces
      /\ \A i \in 1 .. Size : i \in FirstPlaces \/ 1 + MaxThresh < i
  BY <1>1, <1>2 DEF FirstPlaces, Least
<1>5. \A i \in 1 .. Size : array[s] <= array[i]
  <2>1. ASSUME NEW i \in 1 .. Size, 1 + MaxThresh < i PROVE array[s] <= array[i]
    <3>1. array[1] <= array[i]
      BY <1>1, <1>2, <2>1 DEF NearlySorted
    <3>2. array[s] <= array[1]
      BY <1>3, <1>4
    <3> QED BY <1>1, <1>2, <1>4, <3>1, <3>2
  <2> QED BY <1>3, <1>4, <2>1
<1>6. /\ Shuffles(array, array', 1, Size)
      /\ array'[1] = array[s] /\ array'[s] = array[1]
      /\ \A k \in 1 .. Size : k # 1 /\ k # s => array'[k] = array[k]
  <2>1. 1 \in Nat /\ 1 \in 1 .. Len(array) /\ s \in 1 .. Len(array) /\ 1 \in 1 .. Size /\ s \in 1 .. Size
    BY <1>1, <1>2, <1>4
  <2>2. /\ Shuffles(array, Swap(array, 1, s), 1, Size)
        /\ Swap(array, 1, s)[1] = array[s] /\ Swap(array, 1, s)[s] = array[1]
        /\ \A k \in 1 .. Len(array) : k # 1 /\ k # s => Swap(array, 1, s)[k] = array[k]
    <3>1. array \in Seq(Nat) /\ Size \in Nat
      BY <1>2
    <3> QED BY <2>1, <3>1, SwapShuffles
  <2> QED BY <1>2, <1>3, <2>2
<1>7. array' \in Seq(Nat) /\ Len(array') = Size /\ Shuffles(input.items, array', 1, Size)
  <2>1. Shuffles(input.items, array', 1, Size)
    BY <1>1, <1>6, ShufflesOn
  <2> QED BY <1>2, <1>6, <2>1 DEF Shuffles
<1>8. Size' = Size /\ input' = input
  BY <1>1 DEF Size
<1>9. \A i \in 1 .. Size : array'[1] <= array'[i]
  <2>1. 1 \in 1 .. Size
    BY <1>1, <1>2
  <2> QED BY <1>4, <1>5, <1>6, <2>1
<1>10. CASE Size >= 3
  <2>1. pc' = "insert"
    BY <1>10 DEF First
  <2>2. SortTypeOK'
    BY <1>1, <1>7, <1>8, <2>1 DEF SortTypeOK
  <2>3. Inserting'
    <3>1. run' = 3 /\ tmp' = 2 /\ run' \in 3 .. Size /\ tmp' \in 1 .. run' - 1
      BY <1>1, <1>2, <1>10
    <3>2. ASSUME NEW i \in 1 .. run' - 1, NEW j \in 1 .. run' - 1, i < j
          PROVE  array'[i] <= array'[j]
      <4>1. i = 1 /\ j \in 1 .. Size
        BY <1>2, <1>10, <3>1, <3>2
      <4> QED BY <1>9, <4>1
    <3>3. \A k \in tmp' + 1 .. run' - 1 : FALSE
      BY <3>1
    <3> QED BY <1>8, <1>9, <3>1, <3>2, <3>3 DEF Inserting
  <2>4. pc' \notin Quicksort /\ pc' \notin Partitioning
    BY <2>1 DEF Quicksort, Partitioning
  <2> QED BY <1>7, <1>8, <2>1, <2>2, <2>3, <2>4 DEF SortInv, NearlySorted, ReturnsInOrder
<1>11. CASE ~(Size >= 3)
  <2>1. pc' = "done"
    BY <1>11 DEF First
  <2>2. SortTypeOK'
    BY <1>1, <1>7, <1>8, <2>1 DEF SortTypeOK
  <2>3. ASSUME NEW i \in 1 .. Size, NEW j \in 1 .. Size, i < j
        PROVE  array'[i] <= array'[j]
    <3>1. i = 1
      BY <1>2, <1>11, <2>3
    <3> QED BY <1>9, <3>1
  <2>4. pc' \notin Quicksort /\ pc' \notin Partitioning
    BY <2>1 DEF Quicksort, Partitioning
  <2> QED BY <1>7, <1>8, <2>1, <2>2, <2>3, <2>4 DEF SortInv, NearlySorted, ReturnsInOrder
<1> QED BY <1>10, <1>11

\* The next item moves down to its place.
LEMMA InsertKeeps == SortInv /\ Insert => SortInv'
<1> SUFFICES ASSUME SortInv, Insert PROVE SortInv'
  OBVIOUS
<1>1. /\ SortTypeOK /\ pc = "insert" /\ Inserting /\ Shuffles(input.items, array, 1, Size)
      /\ UNCHANGED <<input, lo, hi, left, right, pivot, stack>>
  BY DEF SortInv, Insert
<1>2. /\ array \in Seq(Nat) /\ Len(array) = Size /\ Size \in Nat
      /\ \A i \in 1 .. Size : array[i] \in Nat
  BY <1>1, Basics
<1>3. /\ run \in 1 .. Size /\ tmp \in 1 .. Size /\ run >= 3 /\ tmp <= run - 1 /\ run \in Nat /\ tmp \in Nat
      /\ \A i, j \in 1 .. run - 1 : i < j => array[i] <= array[j]
      /\ \A i \in 1 .. Size : array[1] <= array[i]
      /\ \A k \in tmp + 1 .. run - 1 : array[run] < array[k]
  BY <1>1, <1>2 DEF Inserting
<1>4. Size' = Size /\ input' = input
  BY <1>1 DEF Size
<1>5. CASE array[run] < array[tmp]
  <2>1. tmp' = tmp - 1 /\ UNCHANGED <<array, run, pc>>
    BY <1>2, <1>3, <1>5 DEF Insert
  <2>2. tmp # 1
    BY <1>2, <1>3, <1>5
  <2>3. tmp' \in Nat /\ tmp' \in 1 .. run - 1 /\ tmp' + 1 = tmp
    BY <1>3, <2>1, <2>2
  <2>4. ASSUME NEW k \in tmp .. run - 1 PROVE array[run] < array[k]
    <3>1. k = tmp \/ k \in tmp + 1 .. run - 1
      BY <1>3
    <3> QED BY <1>3, <1>5, <3>1
  <2>5. Inserting'
    BY <1>1, <1>4, <2>1, <2>3, <2>4 DEF Inserting
  <2>6. SortTypeOK'
    BY <1>1, <1>4, <2>1, <2>3 DEF SortTypeOK
  <2>7. pc' = "insert" /\ pc' \notin Quicksort /\ pc' \notin Partitioning
    BY <1>1, <2>1 DEF Quicksort, Partitioning
  <2> QED BY <1>1, <1>4, <2>1, <2>5, <2>6, <2>7 DEF SortInv, NearlySorted, ReturnsInOrder
<1>6. CASE ~(array[run] < array[tmp])
  <2> DEFINE y == tmp + 1
  <2>1. /\ array' = Moved(array, run, y) /\ run' = run + 1 /\ tmp' = run
        /\ pc' = IF InsertGoesOn THEN "insert" ELSE "done"
    BY <1>6 DEF Insert
  <2>2. y \in 1 .. run /\ y \in Nat /\ y >= 2 /\ tmp = y - 1
    BY <1>3
  <2> HIDE DEF y
  <2>3. /\ Shuffles(array, array', 1, Size)
        /\ \A k \in 1 .. Size :
             array'[k] = IF k = y THEN array[run] ELSE IF k \in y + 1 .. run THEN array[k - 1] ELSE array[k]
    <3>1. run \in 1 .. Len(array)
      BY <1>2, <1>3
    <3>2. /\ Shuffles(array, Moved(array, run, y), 1, Len(array))
          /\ \A k \in 1 .. Len(array) :
               Moved(array, run, y)[k] =
                 IF k = y THEN array[run] ELSE IF k \in y + 1 .. run THEN array[k - 1] ELSE array[k]
      <4>1. array \in Seq(Nat)
        BY <1>2
      <4> QED BY <2>2, <3>1, <4>1, MovedShuffles
    <3> QED BY <1>2, <2>1, <3>2
  <2>a. ASSUME NEW k \in 1 .. Size
        PROVE  /\ k < y \/ run < k => array'[k] = array[k]
               /\ k = y => array'[k] = array[run]
               /\ y < k /\ k <= run => array'[k] = array[k - 1]
    <3>1. k \in Nat /\ y \in Nat /\ run \in Nat /\ y <= run
      BY <1>2, <1>3, <2>2
    <3>2. array'[k] = IF k = y THEN array[run] ELSE IF k \in y + 1 .. run THEN array[k - 1] ELSE array[k]
      BY <2>3
    <3> QED BY <3>1, <3>2
  <2>4. array' \in Seq(Nat) /\ Len(array') = Size /\ Shuffles(input.items, array', 1, Size)
    <3>1. Shuffles(input.items, array', 1, Size)
      BY <1>1, <2>3, ShufflesOn
    <3> QED BY <1>2, <2>3, <3>1 DEF Shuffles
  <2>5. array[tmp] <= array[run]
    BY <1>2, <1>3, <1>6
  <2>6. ASSUME NEW i \in 1 .. run, NEW j \in 1 .. run, i < j PROVE array'[i] <= array'[j]
    <3>0. i \in 1 .. Size /\ j \in 1 .. Size /\ i \in Nat /\ j \in Nat /\ run \in Nat
      BY <1>2, <1>3
    <3>1. CASE j < y
      <4>1. array'[i] = array[i] /\ array'[j] = array[j] /\ i \in 1 .. run - 1 /\ j \in 1 .. run - 1
        BY <2>2, <2>a, <2>6, <3>0, <3>1
      <4> QED BY <1>3, <2>6, <4>1
    <3>2. CASE j = y
      <4>1. array'[i] = array[i] /\ array'[j] = array[run] /\ i \in 1 .. run - 1 /\ i <= tmp
        BY <1>3, <2>2, <2>a, <2>6, <3>0, <3>2
      <4>2. array[i] <= array[tmp]
        <5>1. CASE i = tmp
          BY <1>2, <1>3, <5>1
        <5>2. CASE i # tmp
          <6>1. i < tmp /\ tmp \in 1 .. run - 1
            BY <1>3, <3>0, <4>1, <5>2
          <6> QED BY <1>3, <4>1, <6>1
        <5> QED BY <5>1, <5>2
      <4> QED BY <1>2, <1>3, <2>5, <3>0, <4>1, <4>2
    <3>3. CASE j > y
      <4>1. array'[j] = array[j - 1] /\ j - 1 \in 1 .. run - 1 /\ j - 1 \in tmp + 1 .. run - 1
        BY <1>3, <2>2, <2>a, <3>0, <3>3
      <4>2. CASE i < y
        <5>1. array'[i] = array[i] /\ i \in 1 .. run - 1 /\ i < j - 1
          BY <2>2, <2>a, <3>0, <3>3, <4>2
        <5> QED BY <1>3, <4>1, <5>1
      <4>3. CASE i = y
        <5>1. array'[i] = array[run] /\ array[run] < array[j - 1]
          BY <1>3, <2>a, <3>0, <4>1, <4>3
        <5>2. array[run] \in Nat /\ array[j - 1] \in Nat
          BY <1>2, <1>3, <4>1
        <5> QED BY <4>1, <5>1, <5>2
      <4>4. CASE i > y
        <5>1. array'[i] = array[i - 1] /\ i - 1 \in 1 .. run - 1 /\ i - 1 < j - 1
          BY <2>2, <2>a, <2>6, <3>0, <4>4
        <5> QED BY <1>3, <4>1, <5>1
      <4> QED BY <2>2, <3>0, <4>2, <4>3, <4>4
    <3> QED BY <2>2, <3>0, <3>1, <3>2, <3>3
  <2>7. \A i \in 1 .. Size : array'[1] <= array'[i]
    <3>1. 1 \in 1 .. Size /\ array'[1] = array[1]
      <4>1. 1 \in 1 .. Size /\ 1 < y
        BY <1>2, <1>3, <2>2
      <4> QED BY <2>a, <4>1
    <3>2. ASSUME NEW i \in 1 .. Size PROVE \E k \in 1 .. Size : array'[i] = array[k]
      <4>1. i < y \/ run < i \/ i = y \/ (y < i /\ i <= run /\ i - 1 \in 1 .. Size)
        BY <1>2, <1>3, <2>2
      <4> QED BY <1>3, <2>a, <4>1
    <3> QED BY <1>3, <3>1, <3>2
  <2>8. SortTypeOK'
    <3>1. run' \in Nat /\ tmp' \in Nat
      BY <1>3, <2>1
    <3>2. pc' \in {"insert", "done"}
      BY <2>1
    <3> QED BY <1>1, <1>4, <2>4, <3>1, <3>2 DEF SortTypeOK
  <2>9. pc' \notin Quicksort /\ pc' \notin Partitioning /\ pc' \in {"insert", "done"}
    BY <2>1 DEF Quicksort, Partitioning
  <2>10. pc' = "insert" => Inserting'
    <3>1. SUFFICES ASSUME InsertGoesOn PROVE Inserting'
      BY <2>1
    <3>2. run' \in 3 .. Size /\ tmp' \in 1 .. run' - 1 /\ run' - 1 = run
      BY <1>2, <1>3, <2>1, <3>1 DEF InsertGoesOn
    <3>3. \A k \in tmp' + 1 .. run' - 1 : FALSE
      BY <1>3, <2>1, <3>2
    <3> QED BY <1>4, <2>6, <2>7, <3>2, <3>3 DEF Inserting
  <2>11. pc' = "done" => \A i, j \in 1 .. Size : i < j => array'[i] <= array'[j]
    <3>1. SUFFICES ASSUME ~InsertGoesOn PROVE \A i, j \in 1 .. Size : i < j => array'[i] <= array'[j]
      BY <2>1
    <3>2. run = Size
      BY <1>2, <1>3, <3>1 DEF InsertGoesOn
    <3> QED BY <2>6, <3>2
  <2> QED BY <1>4, <2>4, <2>8, <2>9, <2>10, <2>11 DEF SortInv, NearlySorted, ReturnsInOrder
<1> QED BY <1>5, <1>6

LEMMA ProductBound ==
    ASSUME NEW x \in Nat, NEW y \in Nat, NEW d \in Nat, NEW n \in Nat, x <= y, y * d <= n
    PROVE  x * d <= n
<1>1. x * d <= y * d /\ x * d \in Nat /\ y * d \in Nat
  OBVIOUS
<1> QED BY <1>1

LEMMA SplitFacts ==
    SortInv /\ pc = "split" =>
        /\ SortTypeOK /\ Pending(array, MaxThresh, Unsorted) /\ Narrow(Unsorted, Size)
        /\ lo \in 1 .. Size /\ hi \in 1 .. Size /\ lo + MaxThresh <= hi
        /\ left \in 1 .. Size /\ right \in 1 .. Size
        /\ lo < left /\ left <= hi /\ lo <= right /\ right < hi /\ right < left
        /\ Met(array, lo, hi, left, right, pivot)
<1> SUFFICES ASSUME SortInv, pc = "split"
             PROVE  /\ SortTypeOK /\ Pending(array, MaxThresh, Unsorted) /\ Narrow(Unsorted, Size)
                    /\ lo \in 1 .. Size /\ hi \in 1 .. Size /\ lo + MaxThresh <= hi
                    /\ left \in 1 .. Size /\ right \in 1 .. Size
                    /\ lo < left /\ left <= hi /\ lo <= right /\ right < hi /\ right < left
                    /\ Met(array, lo, hi, left, right, pivot)
  OBVIOUS
<1>1. pc \in Quicksort /\ pc \in Partitioning
  BY DEF Quicksort, Partitioning
<1>2. /\ SortTypeOK /\ Pending(array, MaxThresh, Unsorted) /\ Narrow(Unsorted, Size)
      /\ Walls /\ right < left
  BY <1>1 DEF SortInv
<1>3. lo \in 1 .. Size /\ hi \in 1 .. Size /\ lo + MaxThresh <= hi
  BY <1>1, PartInWork
<1>4. /\ lo < left /\ left <= hi /\ lo <= right /\ right < hi
      /\ left \in Nat /\ right \in Nat /\ pivot \in Nat
  BY <1>2 DEF Walls, SortTypeOK
<1>5. left \in 1 .. Size /\ right \in 1 .. Size
  BY <1>2, <1>3, <1>4, Basics
<1>6. Met(array, lo, hi, left, right, pivot)
  BY <1>2, <1>4 DEF Met, Walls
<1> QED BY <1>2, <1>3, <1>4, <1>5, <1>6

LEMMA SplitStep ==
    ASSUME NEW new, SortInv, pc = "split",
           Replaced(Unsorted, new, Len(stack), MaxThresh, lo, hi, left, right)
    PROVE  Pending(array, MaxThresh, new)
<1> DEFINE q == Unsorted
           n == Len(stack)
<1>1. /\ Pending(array, MaxThresh, q) /\ Met(array, lo, hi, left, right, pivot)
      /\ array \in Seq(Nat) /\ MaxThresh \in Nat
      /\ n \in Nat /\ Len(q) = n + 1 /\ q[n + 1] = <<lo, hi>>
      /\ Replaced(q, new, n, MaxThresh, lo, hi, left, right)
  BY SplitFacts, Basics, UnsortedIs
<1> HIDE DEF q, n
<1> QED BY <1>1, SplitKeepsPending

\* The next part is sorted.
LEMMA SplitGoesOn ==
    ASSUME SortInv, pc = "split", pc' = "median",
           UNCHANGED <<input, array, left, right, pivot, run, tmp>>,
           stack' \in Seq((1 .. Size) \X (1 .. Size)), lo' \in Nat, hi' \in Nat,
           Replaced(Unsorted, Unsorted', Len(stack), MaxThresh, lo, hi, left, right),
           Narrow(Unsorted', Size)
    PROVE  SortInv'
<1>1. PICK q : q = Unsorted'
  OBVIOUS
<1>2. Pending(array, MaxThresh, q)
  BY <1>1, SplitStep
<1>3. Size' = Size /\ MaxThresh' = MaxThresh
  BY DEF Size, MaxThresh
<1>4. Pending(array', MaxThresh', Unsorted') /\ Narrow(Unsorted', Size')
  BY <1>1, <1>2, <1>3
<1>5. SortTypeOK'
  BY <1>3 DEF SortInv, SortTypeOK
<1>6. Shuffles(input'.items, array', 1, Size')
  BY <1>3 DEF SortInv
<1>7. run' = 3 /\ tmp' = 2 /\ Size' >= 1
  BY <1>3 DEF SortInv, Quicksort, Partitioning
<1>8. pc' \notin Partitioning
  BY DEF Partitioning
<1> QED BY <1>4, <1>5, <1>6, <1>7, <1>8 DEF SortInv, NearlySorted, ReturnsInOrder

\* How large the part in work and the parts put off are.
LEMMA Sizes ==
    SortInv /\ pc = "split" =>
        /\ Len(stack) \in Nat /\ Doubled[Len(stack)] \in Nat
        /\ (hi - lo + 1) * Doubled[Len(stack)] <= Size
        /\ \A k \in 1 .. Len(stack) :
             (stack[k][2] - stack[k][1] + 1) * Doubled[k - 1] <= Size
<1> SUFFICES ASSUME SortInv, pc = "split"
             PROVE  /\ Len(stack) \in Nat /\ Doubled[Len(stack)] \in Nat
                    /\ (hi - lo + 1) * Doubled[Len(stack)] <= Size
                    /\ \A k \in 1 .. Len(stack) :
                         (stack[k][2] - stack[k][1] + 1) * Doubled[k - 1] <= Size
  OBVIOUS
<1> DEFINE n == Len(stack)
           q == Unsorted
           D == Doubled
<1>1. /\ n \in Nat /\ Len(q) = n + 1 /\ q[n + 1] = <<lo, hi>>
      /\ \A k \in 1 .. n : q[k] = stack[k]
      /\ Narrow(q, Size)
  BY SplitFacts, UnsortedIs
<1>2. D[n] \in Nat
  BY <1>1, DoubledIs
<1> HIDE DEF q
<1>3. \A k \in 1 .. n + 1 : (q[k][2] - q[k][1] + 1) * D[k - 1] <= Size
  BY <1>1 DEF Narrow
<1> HIDE DEF D
<1>4. (hi - lo + 1) * D[n] <= Size
  <2>1. n + 1 \in 1 .. n + 1 /\ q[n + 1][1] = lo /\ q[n + 1][2] = hi /\ (n + 1) - 1 = n
    BY <1>1
  <2>2. (q[n + 1][2] - q[n + 1][1] + 1) * D[(n + 1) - 1] <= Size
    BY <1>3, <2>1
  <2> QED BY <2>1, <2>2
<1>5. ASSUME NEW k \in 1 .. n PROVE (stack[k][2] - stack[k][1] + 1) * D[k - 1] <= Size
  <2>1. k \in 1 .. n + 1 /\ q[k] = stack[k]
    BY <1>1
  <2>2. (q[k][2] - q[k][1] + 1) * D[k - 1] <= Size
    BY <1>3, <2>1
  <2> QED BY <2>1, <2>2
<1> QED BY <1>1, <1>2, <1>4, <1>5 DEF D

\* A part x .. y after those on the stack.
LEMMA NarrowWith ==
    ASSUME NEW x \in 1 .. Size, NEW y \in 1 .. Size, SortInv, pc = "split",
           x <= y, lo <= x, y <= hi
    PROVE  /\ Narrow(Append(stack, <<x, y>>), Size)
           /\ (y - x + 1) * Doubled[Len(stack)] <= Size
<1> DEFINE n == Len(stack)
           q == Append(stack, <<x, y>>)
<1>1. /\ n \in Nat /\ Len(q) = n + 1 /\ q[n + 1] = <<x, y>>
      /\ \A k \in 1 .. n : q[k] = stack[k]
  BY SMTT(60), SplitFacts, AppendIs DEF SortTypeOK
<1>2. lo \in Nat /\ hi \in Nat /\ x \in Nat /\ y \in Nat /\ Size \in Nat
  <2>1. Size \in Nat /\ lo \in 1 .. Size /\ hi \in 1 .. Size
    BY SplitFacts, Basics
  <2> QED BY <2>1
<1>3. (y - x + 1) * Doubled[n] <= Size
  <2>1. y - x + 1 \in Nat /\ hi - lo + 1 \in Nat /\ y - x + 1 <= hi - lo + 1
    BY <1>2
  <2>2. Doubled[n] \in Nat /\ (hi - lo + 1) * Doubled[n] <= Size
    BY Sizes
  <2> QED BY <1>2, <2>1, <2>2, ProductBound
<1> HIDE DEF q
<1>4. ASSUME NEW k \in 1 .. Len(q) PROVE (q[k][2] - q[k][1] + 1) * Doubled[k - 1] <= Size
  <2>1. CASE k \in 1 .. n
    <3>1. (stack[k][2] - stack[k][1] + 1) * Doubled[k - 1] <= Size
      BY <2>1, Sizes
    <3> QED BY <1>1, <2>1, <3>1
  <2>2. CASE k = n + 1
    <3>1. q[k][1] = x /\ q[k][2] = y /\ k - 1 = n
      BY <1>1, <2>2
    <3> QED BY <1>3, <3>1
  <2> QED BY <1>1, <2>1, <2>2
<1> QED BY <1>3, <1>4 DEF Narrow, q

LEMMA SplitKeeps == SortInv /\ Split => SortInv'
<1> SUFFICES ASSUME SortInv, Split PROVE SortInv'
  OBVIOUS
<1> DEFINE n == Len(stack)
           P == (1 .. Size) \X (1 .. Size)
           q == Unsorted
<1>1. pc = "split" /\ UNCHANGED <<input, array, left, right, pivot, run, tmp>>
  BY DEF Split
<1>2. /\ SortTypeOK
      /\ lo \in 1 .. Size /\ hi \in 1 .. Size /\ lo + MaxThresh <= hi
      /\ left \in 1 .. Size /\ right \in 1 .. Size
      /\ lo < left /\ left <= hi /\ lo <= right /\ right < hi /\ right < left
  BY <1>1, SplitFacts
<1>3. /\ Size \in Nat /\ MaxThresh \in Nat /\ MaxThresh > 0
      /\ n \in Nat /\ Len(q) = n + 1 /\ \A k \in 1 .. n : q[k] = stack[k]
      /\ stack \in Seq(P)
  BY <1>2, Basics, UnsortedIs DEF SortTypeOK
<1> HIDE DEF q
<1>4. CASE right - lo <= MaxThresh /\ hi - left <= MaxThresh
  <2>1. Replaced(q, stack, n, MaxThresh, lo, hi, left, right)
    <3>1. \A k \in n + 1 .. n : FALSE
      BY <1>3
    <3>2. ~(right - lo > MaxThresh) /\ ~(hi - left > MaxThresh)
      BY <1>2, <1>3, <1>4
    <3> QED BY <1>3, <3>1, <3>2 DEF Replaced
  <2>2. Pending(array, MaxThresh, stack)
    BY <1>1, <2>1, SplitStep DEF q
  <2>3. CASE stack = <<>>
    <3>1. pc' = "first" /\ UNCHANGED <<lo, hi, stack>>
      BY <1>2, <1>3, <1>4, <2>3 DEF Split
    <3>2. Size' = Size /\ MaxThresh' = MaxThresh
      BY <1>1 DEF Size, MaxThresh
    <3>3. SortTypeOK'
      BY <1>1, <1>2, <3>1, <3>2 DEF SortTypeOK
    <3>4. \A i, j \in 1 .. Size : i + MaxThresh < j => array[i] <= array[j]
      <4>1. \A k \in 1 .. Len(stack) : FALSE
        BY <2>3
      <4>2. Len(array) = Size
        BY <1>2, Basics
      <4> QED BY <2>2, <4>1, <4>2 DEF Pending
    <3>5. pc' \notin Quicksort /\ pc' \notin Partitioning
      BY <3>1 DEF Quicksort, Partitioning
    <3>6. Shuffles(input.items, array, 1, Size) /\ run = 3 /\ tmp = 2 /\ Size >= 1
      BY <1>1 DEF SortInv, Quicksort, Partitioning
    <3> QED BY <1>1, <3>1, <3>2, <3>3, <3>4, <3>5, <3>6 DEF SortInv, NearlySorted, ReturnsInOrder
  <2>4. CASE stack # <<>>
    <3>1. /\ lo' = stack[n][1] /\ hi' = stack[n][2] /\ stack' = SubSeq(stack, 1, n - 1)
          /\ pc' = "median"
      BY <1>2, <1>3, <1>4, <2>4 DEF Split
    <3>2. n >= 1 /\ n \in 1 .. n /\ stack[n] \in P
      BY <1>3, <2>4
    <3>3. /\ stack' \in Seq(P) /\ Len(stack') = n - 1
          /\ \A k \in 1 .. n - 1 : stack'[k] = stack[k]
      <4>1. stack \in Seq(P) /\ n - 1 \in Nat /\ n - 1 <= Len(stack)
        BY <1>3, <3>2
      <4> HIDE DEF P
      <4>2. /\ SubSeq(stack, 1, n - 1) \in Seq(P) /\ Len(SubSeq(stack, 1, n - 1)) = n - 1
            /\ \A k \in 1 .. n - 1 : SubSeq(stack, 1, n - 1)[k] = stack[k]
        BY <4>1, FrontIs
      <4> QED BY <3>1, <4>2
    <3>4. lo' \in 1 .. Size /\ hi' \in 1 .. Size /\ <<lo', hi'>> = stack[n]
      BY <3>1, <3>2
    <3>5. Unsorted' = stack
      <4>1. PICK s, x : s = stack' /\ x = <<lo', hi'>>
        OBVIOUS
      <4> DEFINE t == Append(s, x)
      <4>2. s \in Seq(P) /\ x \in P /\ Len(s) = n - 1
        BY <3>3, <3>4, <4>1
      <4>3. t \in Seq(P) /\ Len(t) = n /\ t[n] = x /\ \A k \in 1 .. n - 1 : t[k] = s[k]
        BY <1>3, <3>2, <4>2
      <4> HIDE DEF t, P
      <4>4. ASSUME NEW k \in 1 .. n PROVE t[k] = stack[k]
        <5>1. k = n \/ k \in 1 .. n - 1
          BY <1>3
        <5> QED BY <3>3, <3>4, <4>1, <4>3, <5>1
      <4>5. t = stack
        BY <1>3, <4>3, <4>4, SameSequence
      <4> QED BY <4>1, <4>5 DEF t, Unsorted
    <3>6. Narrow(Unsorted', Size)
      BY <1>1, <3>5, Sizes DEF Narrow
    <3>7. Replaced(Unsorted, Unsorted', Len(stack), MaxThresh, lo, hi, left, right)
      BY <2>1, <3>5 DEF q
    <3>8. lo' \in Nat /\ hi' \in Nat
      BY <1>3, <3>4
    <3> QED BY <1>1, <3>1, <3>3, <3>6, <3>7, <3>8, SplitGoesOn
  <2> QED BY <2>3, <2>4
\* One part goes on, u .. w of lo .. hi.
<1>5. ASSUME NEW u \in 1 .. Size, NEW w \in 1 .. Size, lo' = u, hi' = w, stack' = stack,
             pc' = "median",
             \/ u = lo /\ w = right /\ right - lo > MaxThresh /\ ~(hi - left > MaxThresh)
             \/ u = left /\ w = hi /\ hi - left > MaxThresh /\ ~(right - lo > MaxThresh)
      PROVE  SortInv'
  <2> DEFINE t == Append(stack, <<u, w>>)
  <2>1. Unsorted' = t
    BY <1>5 DEF Unsorted
  <2>2. Len(t) = n + 1 /\ t[n + 1] = <<u, w>> /\ \A k \in 1 .. n : t[k] = stack[k]
    BY <1>3, AppendIs
  <2>3. u + MaxThresh <= w /\ u <= w /\ lo <= u /\ w <= hi /\ u \in Nat /\ w \in Nat
    BY <1>2, <1>3, <1>5
  <2>4. Narrow(t, Size)
    BY <1>1, <2>3, NarrowWith
  <2> HIDE DEF t
  <2>5. Replaced(q, t, n, MaxThresh, lo, hi, left, right)
    <3>1. n + 1 .. Len(t) = {n + 1}
      BY <1>3, <2>2
    <3>2. Len(t) \in Nat /\ n <= Len(t) /\ n + 1 \in n + 1 .. Len(t)
      BY <1>3, <2>2
    <3>3. t[n + 1][1] + MaxThresh <= t[n + 1][2]
      BY <2>2, <2>3
    <3> QED BY <1>3, <1>5, <2>2, <3>1, <3>2, <3>3 DEF Replaced
  <2> QED BY <1>1, <1>3, <1>5, <2>1, <2>3, <2>4, <2>5, SplitGoesOn DEF q
<1>6. CASE right - lo <= MaxThresh /\ ~(hi - left <= MaxThresh)
  <2>1. lo' = left /\ hi' = hi /\ stack' = stack /\ pc' = "median"
    BY <1>6 DEF Split
  <2>2. hi - left > MaxThresh /\ ~(right - lo > MaxThresh)
    BY <1>2, <1>3, <1>6
  <2> QED BY <1>2, <1>5, <2>1, <2>2
<1>7. CASE ~(right - lo <= MaxThresh) /\ hi - left <= MaxThresh
  <2>1. lo' = lo /\ hi' = right /\ stack' = stack /\ pc' = "median"
    BY <1>7 DEF Split
  <2>2. right - lo > MaxThresh /\ ~(hi - left > MaxThresh)
    BY <1>2, <1>3, <1>7
  <2> QED BY <1>2, <1>5, <2>1, <2>2
\* Both parts go on; e .. z, which is put off, is not the smaller one.
<1>8. ASSUME NEW u \in 1 .. Size, NEW w \in 1 .. Size, NEW e \in 1 .. Size, NEW z \in 1 .. Size,
             lo' = u, hi' = w, stack' = Append(stack, <<e, z>>), pc' = "median",
             w - u <= z - e, right - lo > MaxThresh, hi - left > MaxThresh,
             \/ u = lo /\ w = right /\ e = left /\ z = hi
             \/ u = left /\ w = hi /\ e = lo /\ z = right
      PROVE  SortInv'
  <2> DEFINE s == Append(stack, <<e, z>>)
             t == Append(s, <<u, w>>)
  <2>1. Unsorted' = t
    BY <1>8 DEF Unsorted
  <2>2. /\ s \in Seq(P) /\ Len(s) = n + 1 /\ s[n + 1] = <<e, z>>
        /\ \A k \in 1 .. n : s[k] = stack[k]
    BY <1>3, AppendIs
  <2>3. /\ u + MaxThresh <= w /\ e + MaxThresh <= z /\ u <= w /\ e <= z
        /\ lo <= e /\ z <= hi /\ u \in Nat /\ w \in Nat /\ e \in Nat /\ z \in Nat
        /\ e # u
    <3>1. /\ u \in Nat /\ w \in Nat /\ e \in Nat /\ z \in Nat
          /\ lo \in Nat /\ hi \in Nat /\ left \in Nat /\ right \in Nat /\ MaxThresh \in Nat
          /\ lo < left /\ right < hi
      <4>1. u \in Nat /\ w \in Nat /\ e \in Nat /\ z \in Nat
        BY <1>3
      <4>2. lo \in Nat /\ hi \in Nat /\ left \in Nat /\ right \in Nat
        BY <1>2, <1>3
      <4> QED BY <1>2, <1>3, <4>1, <4>2
    <3>2. CASE u = lo /\ w = right /\ e = left /\ z = hi
      BY <3>1, <3>2, <1>8
    <3>3. CASE u = left /\ w = hi /\ e = lo /\ z = right
      BY <3>1, <3>3, <1>8
    <3> QED BY <3>1, <3>2, <3>3, <1>8
  <2>4. Narrow(s, Size) /\ (z - e + 1) * Doubled[n] <= Size
    BY <1>1, <2>3, NarrowWith
  <2> HIDE DEF s, P
  <2>5. /\ Len(t) = n + 2 /\ t[n + 2] = <<u, w>> /\ t[n + 1] = <<e, z>>
        /\ \A k \in 1 .. n + 1 : t[k] = s[k]
        /\ \A k \in 1 .. n : t[k] = stack[k]
    <3>1. Len(t) = Len(s) + 1 /\ t[Len(s) + 1] = <<u, w>> /\ \A k \in 1 .. Len(s) : t[k] = s[k]
      BY <2>2, AppendIs
    <3> HIDE DEF t
    <3> QED BY <1>3, <2>2, <3>1
  <2> HIDE DEF t
  <2>6. Narrow(t, Size)
    <3>1. (w - u + 1) * Doubled[n + 1] <= Size
      <4> DEFINE d == Doubled[n]
                 x == w - u + 1
      <4>1. d \in Nat /\ Doubled[n + 1] = 2 * d
        BY <1>3, DoubledIs
      <4>2. (hi - lo + 1) * d <= Size
        BY <1>1, Sizes
      <4>3. 2 * x \in Nat /\ hi - lo + 1 \in Nat /\ 2 * x <= hi - lo + 1 /\ x \in Nat
        BY <1>2, <1>3, <1>8, <2>3
      <4> HIDE DEF d, x
      <4>4. (2 * x) * d <= Size
        BY <1>3, <4>1, <4>2, <4>3, ProductBound
      <4>5. (2 * x) * d = x * (2 * d)
        BY <4>1, <4>3
      <4> QED BY <4>1, <4>4, <4>5 DEF x
    <3>2. ASSUME NEW k \in 1 .. n + 2 PROVE (t[k][2] - t[k][1] + 1) * Doubled[k - 1] <= Size
      <4>1. CASE k \in 1 .. n + 1
        BY <2>2, <2>4, <2>5, <4>1 DEF Narrow
      <4>2. CASE k = n + 2
        <5>1. t[k][1] = u /\ t[k][2] = w /\ k - 1 = n + 1
          BY <1>3, <2>5, <4>2
        <5> QED BY <3>1, <5>1
      <4> QED BY <1>3, <4>1, <4>2
    <3> QED BY <2>5, <3>2 DEF Narrow
  <2>7. Replaced(q, t, n, MaxThresh, lo, hi, left, right)
    <3>1. n + 1 .. Len(t) = {n + 1, n + 2} /\ Len(t) \in Nat /\ n <= Len(t) /\ n + 1 # n + 2
      <4>1. n \in Nat /\ Len(t) = n + 2
        BY <1>3, <2>5
      <4> HIDE DEF n, t
      <4> QED BY <4>1
    <3>2. /\ t[n + 1][1] = e /\ t[n + 1][2] = z /\ t[n + 2][1] = u /\ t[n + 2][2] = w
          /\ t[n + 1] # t[n + 2]
      BY <2>3, <2>5
    <3>3. \/ <<e, z>> = <<lo, right>> /\ <<u, w>> = <<left, hi>>
          \/ <<u, w>> = <<lo, right>> /\ <<e, z>> = <<left, hi>>
      BY <1>8
    <3> HIDE DEF n
    <3>4. ASSUME NEW k \in {n + 1, n + 2}
          PROVE  /\ t[k] = <<lo, right>> \/ t[k] = <<left, hi>>
                 /\ t[k][1] + MaxThresh <= t[k][2]
                 /\ \A m \in {n + 1, n + 2} : k # m => t[k] # t[m]
      BY <2>3, <2>5, <3>1, <3>2, <3>3
    <3>5. /\ \E k \in {n + 1, n + 2} : t[k] = <<lo, right>>
          /\ \E k \in {n + 1, n + 2} : t[k] = <<left, hi>>
      BY <2>5, <3>3
    <3>6. \A k \in 1 .. n : t[k] = q[k]
      BY <1>3, <2>5
    <3> QED BY <3>1, <3>4, <3>5, <3>6 DEF Replaced
  <2>8. stack' \in Seq((1 .. Size) \X (1 .. Size)) /\ lo' \in Nat /\ hi' \in Nat
    BY <1>8, <2>2, <2>3 DEF s, P
  <2> QED BY <1>1, <1>8, <2>1, <2>6, <2>7, <2>8, SplitGoesOn DEF q
<1>9. CASE ~(right - lo <= MaxThresh) /\ ~(hi - left <= MaxThresh)
  <2> DEFINE both == Later(left, right)
  <2>1. /\ stack' = Append(stack, both.later) /\ lo' = both.now[1] /\ hi' = both.now[2]
        /\ pc' = "median"
    BY <1>9 DEF Split
  <2>2. right - lo > MaxThresh /\ hi - left > MaxThresh
    BY <1>2, <1>3, <1>9
  <2>3. CASE right - lo > hi - left
    <3>1. both.later = <<lo, right>> /\ both.now = <<left, hi>>
      BY <2>3 DEF Later
    <3>2. /\ stack' = Append(stack, <<lo, right>>) /\ lo' = left /\ hi' = hi
          /\ hi - left <= right - lo
      BY <1>2, <1>3, <2>1, <2>3, <3>1
    <3> QED BY <1>2, <1>8, <2>1, <2>2, <3>2
  <2>4. CASE ~(right - lo > hi - left)
    <3>1. both.later = <<left, hi>> /\ both.now = <<lo, right>>
      BY <2>4 DEF Later
    <3>2. /\ stack' = Append(stack, <<left, hi>>) /\ lo' = lo /\ hi' = right
          /\ right - lo <= hi - left
      BY <1>2, <1>3, <2>1, <2>4, <3>1
    <3> QED BY <1>2, <1>8, <2>1, <2>2, <3>2
  <2> QED BY <2>3, <2>4
<1> QED BY <1>4, <1>6, <1>7, <1>9

LEMMA SortStarts == SortInit => SortInv
<1> SUFFICES ASSUME SortInit PROVE SortInv
  OBVIOUS
<1>1. input \in Inputs /\ input.items \in Seq(Nat) /\ MaxThresh \in Nat /\ MaxThresh > 0 /\ Size \in Nat
  BY SortAssumption DEF SortInit, Sorting, MaxThresh, Size
<1>2. /\ array = input.items /\ lo = 1 /\ hi = Size /\ left = 1 /\ right = 1 /\ pivot = 0
      /\ stack = <<>> /\ run = 3 /\ tmp = 2
      /\ pc = IF Size = 0 THEN "done" ELSE IF Size > MaxThresh THEN "median" ELSE "first"
  BY DEF SortInit
<1>3. SortTypeOK
  <2>1. pc \in {"done", "median", "first"}
    BY <1>2
  <2> QED BY <1>1, <1>2, <2>1 DEF SortTypeOK, Size
<1>4. Shuffles(input.items, array, 1, Size)
  BY <1>1, <1>2, ShufflesNothing
<1>5. CASE Size = 0
  <2>1. pc = "done" /\ pc \notin Quicksort /\ pc \notin Partitioning /\ 1 .. Size = {}
    BY <1>2, <1>5 DEF Quicksort, Partitioning
  <2> QED BY <1>3, <1>4, <2>1 DEF SortInv, NearlySorted, ReturnsInOrder
<1>6. CASE Size # 0 /\ Size > MaxThresh
  <2>1. pc = "median" /\ pc \notin Partitioning /\ Size >= 1
    BY <1>1, <1>2, <1>6 DEF Partitioning
  <2>2. Unsorted = Append(<<>>, <<1, Len(array)>>) /\ Len(array) > MaxThresh /\ array \in Seq(Nat)
    BY <1>1, <1>2, <1>6 DEF Unsorted, Size
  <2>3. Pending(array, MaxThresh, Unsorted)
    BY <1>1, <2>2, PendingStarts
  <2>4. Narrow(Unsorted, Size)
    <3>1. Len(Unsorted) = 1 /\ Unsorted[1] = <<1, Size>> /\ Unsorted[1][1] = 1 /\ Unsorted[1][2] = Size
      BY <1>2 DEF Unsorted
    <3>2. Doubled[0] = 1
      BY DoubledIs
    <3>3. ASSUME NEW k \in 1 .. Len(Unsorted)
          PROVE  (Unsorted[k][2] - Unsorted[k][1] + 1) * Doubled[k - 1] <= Size
      <4>1. k = 1 /\ k - 1 = 0
        BY <3>1
      <4>2. (Size - 1 + 1) * Doubled[0] = Size
        BY <1>1, <3>2
      <4>3. Size <= Size
        BY <1>1
      <4> QED BY <3>1, <4>1, <4>2, <4>3
    <3> QED BY <3>3 DEF Narrow
  <2> QED BY <1>2, <1>3, <1>4, <2>1, <2>3, <2>4 DEF SortInv, NearlySorted, ReturnsInOrder
<1>7. CASE Size # 0 /\ ~(Size > MaxThresh)
  <2>1. pc = "first" /\ pc \notin Quicksort /\ pc \notin Partitioning /\ Size >= 1
    BY <1>1, <1>2, <1>7 DEF Quicksort, Partitioning
  <2>2. \A i, j \in 1 .. Size : ~(i + MaxThresh < j)
    BY <1>1, <1>7
  <2> QED BY <1>2, <1>3, <1>4, <2>1, <2>2 DEF SortInv, NearlySorted, ReturnsInOrder
<1> QED BY <1>5, <1>6, <1>7

\* SortInv holds of every state of qsort.
THEOREM SortInvariant == SortSpec => []SortInv
<1>1. SortInv /\ [SortNext]_sortVars => SortInv'
  <2>1. SortInv /\ UNCHANGED sortVars => SortInv'
    BY DEF sortVars, SortInv, SortTypeOK, Size, MaxThresh, Unsorted, Walls, Inserting,
           NearlySorted, ReturnsInOrder
  <2> QED BY <2>1, MedianKeeps, LeftKeeps, RightKeeps, MeetKeeps, SplitKeeps, FirstKeeps,
             InsertKeeps DEF SortNext
<1> QED BY <1>1, SortStarts, PTL DEF SortSpec

\* qsort's inner loops, which have no test for the ends of the array, stay in it, and
\* the stack of partitions holds no more than the logarithm of the number of items.
THEOREM SortStaysInBounds == SortSpec => []InBounds
<1>1. SortInv => InBounds
  <2> SUFFICES ASSUME SortInv PROVE InBounds
    OBVIOUS
  <2>1. SortTypeOK /\ Size \in Nat
    BY Basics DEF SortInv
  <2>2. pc \in Quicksort => lo \in 1 .. Size /\ hi \in 1 .. Size /\ lo < hi
    BY PartInWork
  <2>3. pc \in Partitioning => /\ lo < left /\ left <= hi /\ lo <= right /\ right < hi
                               /\ left \in Nat /\ right \in Nat
    BY <2>1 DEF SortInv, Walls, SortTypeOK
  <2>4. pc = "insert" => run \in 3 .. Size /\ tmp \in 1 .. run - 1
    BY DEF SortInv, Inserting
  <2>5. StaysInArray
    <3>1. pc \in {"median", "split"} => 1 <= lo /\ lo <= hi /\ hi <= Size
      BY <2>1, <2>2 DEF Quicksort, Partitioning
    <3>2. pc = "left" => left \in 1 .. Size
      BY <2>1, <2>2, <2>3 DEF Quicksort, Partitioning
    <3>3. pc = "right" => right \in 1 .. Size
      BY <2>1, <2>2, <2>3 DEF Quicksort, Partitioning
    <3>4. pc = "split" => lo <= right /\ left <= hi
      BY <2>3 DEF Partitioning
    <3>5. pc = "insert" => tmp \in 1 .. Size /\ run \in 1 .. Size
      BY <2>1, <2>4
    <3> QED BY <3>1, <3>2, <3>3, <3>4, <3>5 DEF StaysInArray
  <2>6. StackBounded
    <3> SUFFICES ASSUME pc = "median" PROVE (hi - lo + 1) * Doubled[Len(stack)] <= Size
      BY DEF StackBounded
    <3> DEFINE n == Len(stack) + 1
               q == Unsorted
    <3>1. Narrow(q, Size) /\ n \in 1 .. Len(q) /\ q[n] = <<lo, hi>> /\ n - 1 = Len(stack)
      BY <2>1, UnsortedIs DEF SortInv, Quicksort
    <3> HIDE DEF n, q
    <3>2. q[n][1] = lo /\ q[n][2] = hi
      BY <3>1
    <3>3. (q[n][2] - q[n][1] + 1) * Doubled[n - 1] <= Size
      BY <3>1 DEF Narrow
    <3> QED BY <3>1, <3>2, <3>3
  <2> QED BY <2>1, <2>5, <2>6 DEF InBounds
<1> QED BY <1>1, SortInvariant, PTL

\* qsort returns the items it was given, each as often as it was there, in order; and
\* what quicksort leaves is no further out of order than insertion sort is meant for.
THEOREM SortSorts == SortSpec => []Sorted
<1>1. SortInv => Sorted
  <2> SUFFICES ASSUME SortInv PROVE Sorted
    OBVIOUS
  <2>1. \A v : Occurs(array, v) = Occurs(input.items, v)
    BY ShufflesKeep DEF SortInv
  <2> QED BY <2>1 DEF SortInv, Sorted, KeepsItems
<1> QED BY <1>1, SortInvariant, PTL

-----------------------------------------------------------------------------
(* The parts, as a program uses them.                                      *)

\* Each part starts in one of its initial states, and makes its own steps or none.
LEMMA PartsStart ==
    ASSUME UtilitiesInit
    PROVE  SortInit /\ Init /\ RandInit /\ Jar!Init /\ Mem!MemInit /\ Tok!TokensInit
           /\ Tok!FindInit /\ NF!NfInit /\ Timer!ClockInit
BY DEF UtilitiesInit, OthersIdle, ToolsIdle, SortIdle, SearchIdle, JarIdle, MoveIdle, TokensIdle,
       FindIdle, FeaturesIdle, ClockIdle

LEMMA PartsStep ==
    ASSUME [UtilitiesNext]_utilityVars
    PROVE  /\ [SortNext]_sortVars /\ [Next]_vars /\ [RandNext]_randVars
           /\ [Jar!Next]_jarVars /\ [Mem!MemNext]_memVars
           /\ [Tok!TokensNext]_tokenVars /\ [Tok!FindNext]_findVars
           /\ [NF!NfNext]_featureVars /\ [Timer!ClockNext]_clockVars
<1>1. CASE UNCHANGED utilityVars
  BY <1>1 DEF utilityVars, otherVars
<1>2. CASE SortStep
  BY <1>2 DEF SortStep, otherVars
<1>3. CASE SearchStep
  BY <1>3 DEF SearchStep, otherVars
<1>4. CASE RandStep
  BY <1>4 DEF RandStep, otherVars
<1>5. CASE JarStep
  BY <1>5 DEF JarStep, otherVars
<1>6. CASE MoveStep
  BY <1>6 DEF MoveStep
<1>7. CASE TokenStep
  BY <1>7 DEF TokenStep
<1>8. CASE FindStep
  BY <1>8 DEF FindStep
<1>9. CASE FeatureStep
  BY <1>9 DEF FeatureStep
<1>10. CASE ClockStep
  BY <1>10 DEF ClockStep
<1> QED BY <1>1, <1>2, <1>3, <1>4, <1>5, <1>6, <1>7, <1>8, <1>9, <1>10 DEF UtilitiesNext

\* A program that uses one of the functions runs that function's specification, and
\* leaves the others where they stand: what is proved of each part holds here.
THEOREM PartsRun ==
    UtilitiesSpec => SortSpec /\ Spec /\ RandSpec /\ Jar!Spec /\ Mem!MemSpec
                     /\ Tok!TokensSpec /\ Tok!FindSpec /\ NF!NfSpec /\ Timer!ClockSpec
<1>1. UtilitiesInit =>
        SortInit /\ Init /\ RandInit /\ Jar!Init /\ Mem!MemInit /\ Tok!TokensInit
        /\ Tok!FindInit /\ NF!NfInit /\ Timer!ClockInit
  BY PartsStart
<1>2. [UtilitiesNext]_utilityVars =>
        /\ [SortNext]_sortVars /\ [Next]_vars /\ [RandNext]_randVars
        /\ [Jar!Next]_(Jar!vars) /\ [Mem!MemNext]_(Mem!memVars)
        /\ [Tok!TokensNext]_(Tok!tokenVars) /\ [Tok!FindNext]_(Tok!findVars)
        /\ [NF!NfNext]_(NF!nfVars) /\ [Timer!ClockNext]_(Timer!clockVars)
  BY PartsStep DEF jarVars, Jar!vars, memVars, Mem!memVars, tokenVars, Tok!tokenVars, findVars,
                   Tok!findVars, featureVars, NF!nfVars, clockVars, Timer!clockVars
<1> QED
  BY <1>1, <1>2, PTL DEF UtilitiesSpec, SortSpec, Spec, RandSpec, Jar!Spec, Mem!MemSpec,
     Tok!TokensSpec, Tok!FindSpec, NF!NfSpec, Timer!ClockSpec

-----------------------------------------------------------------------------
(* nf_init and sleep.                                                      *)

Steps == {"ready", "look", "supexec", "detect_tos", "1:", "psignal", "detect_mint", "setjmp",
          "get_id", "call"}

\* What stands on the stack at each step.
OnStack == Features \cup {"caller", "frame", "zero", "one", "return"}
Stands(stack3, top, feature) ==
    Len(stack3) = 3 /\ stack3[1] = top /\ stack3[2] = feature /\ stack3[3] = "caller"
HasVersion == machine.opcode = "emulated" /\ machine.ids["NF_VERSION"] # 0
StackKept ==
    /\ words \in Seq(OnStack)
    /\ step \notin {"detect_tos", "1:", "detect_mint", "get_id"} =>
         Len(words) = 1 /\ words[1] = "caller"
    /\ step \in {"detect_tos", "detect_mint"} => Stands(words, "zero", "NF_VERSION")
    /\ step = "1:" /\ machine.opcode = "illegal" =>
         Len(words) = 5 /\ words[3] = "zero" /\ words[4] = "NF_VERSION" /\ words[5] = "caller"
    /\ step = "1:" /\ machine.opcode # "illegal" =>
         Stands(words, IF HasVersion THEN "one" ELSE "zero", "NF_VERSION")
    /\ step = "get_id" => Stands(words, "return", does.feature)

\* Who has the vector and the signals, and where the old ones are kept.
HandlersKept ==
    /\ reg = [a0 |-> reg.a0, a1 |-> reg.a1, d0 |-> reg.d0]
    /\ local = [ret |-> local.ret, ill_jmp |-> local.ill_jmp, got_ill |-> local.got_ill]
    /\ vector = IF step \in {"detect_tos", "1:"} THEN "1:" ELSE "system"
    /\ step \in {"detect_tos", "1:"} => reg.a0 = "system" /\ reg.a1 = 3 /\ reg.d0 = 0
    /\ sigill = IF step \in {"detect_mint", "setjmp"} THEN "catch_ill" ELSE machine.sigill
    /\ step \in {"detect_mint", "setjmp"} =>
         /\ local.ret = machine.sigill /\ local.ill_jmp = 1
         /\ local.got_ill = (step = "setjmp" /\ machine.opcode = "illegal")
    /\ sigsys = IF machine.mint /\ does # NF!NoCall THEN "sigsys_handler" ELSE machine.sigsys
    /\ step = "psignal" => machine.mint

\* What is known of the features.
FeaturesKnown ==
    /\ does = NF!NoCall => step = "ready" /\ ~nf_ops
    /\ step \in {"psignal", "detect_mint", "setjmp"} => machine.secure
    /\ nf_ops => machine.opcode = "emulated" \/ (machine.secure /\ machine.opcode = "other")
    /\ step # "ready" \/ does = NF!NoCall => asked = NF!NoCall
    /\ step \in {"get_id", "call"} => nf_ops
    /\ step \in {"get_id", "call"} => reg.d0 \in Int
    /\ nf_ops => machine.opcode # "illegal"
    /\ step \in {"ready", "look"} /\ does # NF!NoCall /\ ~nf_ops => ~HasVersion
    /\ step = "call" /\ machine.opcode = "emulated" =>
         reg.d0 = machine.ids[does.feature] /\ reg.d0 # 0
    /\ step = "call" => does.f # "nf_get_id"

NfInv ==
    /\ NF!NfTypeOK /\ StackKept /\ HandlersKept /\ FeaturesKnown /\ NF!FeaturesFound

LEMMA NfTypes ==
    ASSUME machine \in Machines
    PROVE  /\ machine \in NF!MachineType /\ machine.secure \in BOOLEAN /\ machine.mint \in BOOLEAN
           /\ machine.opcode \in {"illegal", "emulated", "other"}
           /\ machine.ids \in [Features -> Nat]
           /\ machine.secure => machine.mint
           /\ \A f \in Features : machine.ids[f] % 16 = 0
           /\ \A f, g \in Features : f # g /\ machine.ids[f] # 0 => machine.ids[f] # machine.ids[g]
           /\ "NF_VERSION" \in Features
BY UtilitiesAssumption DEF NF!NatFeatsAssumption, NF!MachineType, NF!Functions

LEMMA NfStarts ==
    ASSUME NF!NfInit
    PROVE  NfInv
<1>1. machine \in Machines /\ nf_ops = FALSE /\ step = "ready" /\ does = NF!NoCall
      /\ reg = [a0 |-> "none", a1 |-> 0, d0 |-> 0]
      /\ local = [ret |-> "none", ill_jmp |-> 0, got_ill |-> FALSE]
      /\ words = <<"caller">> /\ vector = "system" /\ sigill = machine.sigill
      /\ sigsys = machine.sigsys /\ asked = NF!NoCall /\ answer = 0
  BY DEF NF!NfInit
<1>2. NF!NfTypeOK
  <2>1. nf_ops \in BOOLEAN
    BY <1>1
  <2>2. answer \in Int
    BY <1>1
  <2>3. step \in Steps
    BY <1>1 DEF Steps
  <2> QED BY <1>1, <2>1, <2>2, <2>3 DEF NF!NfTypeOK, Steps
<1>3. StackKept
  <2>1. "caller" \in OnStack
    BY DEF OnStack
  <2>2. words \in Seq(OnStack) /\ Len(words) = 1 /\ words[1] = "caller"
    BY <1>1, <2>1
  <2> QED BY <1>1, <2>2 DEF StackKept
<1>4. HandlersKept
  BY <1>1 DEF HandlersKept
<1>5. FeaturesKnown /\ NF!FeaturesFound
  BY <1>1 DEF FeaturesKnown, NF!FeaturesFound
<1> QED BY <1>2, <1>3, <1>4, <1>5 DEF NfInv

LEMMA NfEnter ==
    ASSUME NfInv, NEW c1 \in NF!Calls, NF!Enter(c1)
    PROVE  NfInv'
<1>1. /\ step = "ready" /\ does' = c1 /\ asked' = NF!NoCall
      /\ step' = IF nf_ops THEN "look" ELSE "supexec"
      /\ sigsys' = IF ~nf_ops /\ machine.mint THEN "sigsys_handler" ELSE sigsys
      /\ UNCHANGED <<machine, nf_ops, reg, local, words, vector, sigill, answer>>
  BY DEF NF!Enter, NF!nf_catch_sigsys
<1>2. c1 # NF!NoCall
  BY DEF NF!Calls, NF!Call, NF!NoCall
<1>3. NF!NfTypeOK'
  BY <1>1 DEF NfInv, NF!NfTypeOK
<1>4. StackKept'
  BY <1>1 DEF NfInv, StackKept
<1>5. HandlersKept'
  BY <1>1, <1>2 DEF NfInv, HandlersKept, FeaturesKnown
<1>6. FeaturesKnown' /\ NF!FeaturesFound'
  BY <1>1, <1>2 DEF NfInv, FeaturesKnown, NF!FeaturesFound
<1> QED BY <1>3, <1>4, <1>5, <1>6 DEF NfInv

LEMMA JoinFacts ==
    ASSUME NEW W, NEW p \in Seq(W), NEW s \in Seq(W)
    PROVE  /\ p \o s \in Seq(W) /\ Len(p \o s) = Len(p) + Len(s)
           /\ \A j \in 1 .. Len(p) + Len(s) : (p \o s)[j] = IF j <= Len(p) THEN p[j] ELSE s[j - Len(p)]
OBVIOUS

\* Two words are pushed, or dropped.
LEMMA PushTwo ==
    ASSUME NEW W, NEW s \in Seq(W), NEW x \in W, NEW y \in W
    PROVE  /\ <<x, y>> \o s \in Seq(W) /\ Len(<<x, y>> \o s) = Len(s) + 2
           /\ (<<x, y>> \o s)[1] = x /\ (<<x, y>> \o s)[2] = y
           /\ \A i \in 1 .. Len(s) : (<<x, y>> \o s)[i + 2] = s[i]
<1>1. <<x, y>> \in Seq(W) /\ Len(<<x, y>>) = 2 /\ <<x, y>>[1] = x /\ <<x, y>>[2] = y
  OBVIOUS
<1> DEFINE p == <<x, y>>
<1> HIDE DEF p
<1>2. p \in Seq(W) /\ Len(p) = 2 /\ p[1] = x /\ p[2] = y
  BY <1>1 DEF p
<1> DEFINE l == p \o s
<1>3. l \in Seq(W) /\ Len(l) = Len(p) + Len(s)
      /\ \A j \in 1 .. Len(p) + Len(s) : l[j] = IF j <= Len(p) THEN p[j] ELSE s[j - Len(p)]
  BY <1>2, JoinFacts
<1> HIDE DEF l
<1>4. l \in Seq(W) /\ Len(l) = Len(s) + 2 /\ Len(s) \in Nat
      /\ \A j \in 1 .. Len(s) + 2 : l[j] = IF j <= 2 THEN p[j] ELSE s[j - 2]
  BY <1>2, <1>3
<1>5. l[1] = x /\ l[2] = y
  BY <1>2, <1>4
<1>6. ASSUME NEW i \in 1 .. Len(s) PROVE l[i + 2] = s[i]
  <2>1. i + 2 \in 1 .. Len(s) + 2 /\ ~(i + 2 <= 2) /\ (i + 2) - 2 = i
    BY <1>4
  <2> QED BY <1>4, <2>1
<1> QED BY <1>4, <1>5, <1>6 DEF p, l

LEMMA DropSome ==
    ASSUME NEW W, NEW s \in Seq(W), NEW n \in 0 .. Len(s)
    PROVE  /\ SubSeq(s, n + 1, Len(s)) \in Seq(W) /\ Len(SubSeq(s, n + 1, Len(s))) = Len(s) - n
           /\ \A i \in 1 .. Len(s) - n : SubSeq(s, n + 1, Len(s))[i] = s[n + i]
OBVIOUS

\* The stack of the caller alone.
LEMMA CallerAlone ==
    ASSUME StackKept, Len(words) = 1, words[1] = "caller"
    PROVE  words = <<"caller">>
<1>1. words \in Seq(OnStack) /\ <<"caller">> \in Seq(OnStack)
  BY DEF StackKept, OnStack
<1> QED BY <1>1, SameSequence

LEMMA NfSupexec ==
    ASSUME NfInv, NF!Supexec
    PROVE  NfInv'
<1>1. /\ step = "supexec"
      /\ UNCHANGED <<machine, nf_ops, does, local, sigill, sigsys, asked, answer>>
  BY DEF NF!Supexec
<1>2. CASE machine.secure
  <2>1. step' = (IF sigsys = "SIG_DFL" THEN "killed" ELSE "psignal") /\ UNCHANGED <<reg, words, vector>>
    BY <1>2 DEF NF!Supexec
  <2>2. machine.mint /\ sigsys # "SIG_DFL"
    BY <1>1, <1>2, NfTypes DEF NfInv, NF!NfTypeOK, HandlersKept, FeaturesKnown
  <2>3. NF!NfTypeOK' /\ StackKept'
    BY <1>1, <2>1, <2>2 DEF NfInv, NF!NfTypeOK, StackKept, Stands, HasVersion
  <2>4. HandlersKept'
    BY <1>1, <2>1, <2>2 DEF NfInv, HandlersKept
  <2>5. FeaturesKnown' /\ NF!FeaturesFound'
    BY <1>1, <1>2, <2>1, <2>2 DEF NfInv, FeaturesKnown, NF!FeaturesFound
  <2> QED BY <2>3, <2>4, <2>5 DEF NfInv
<1>3. CASE ~machine.secure
  <2>1. /\ step' = "detect_tos" /\ words' = <<"zero", "NF_VERSION">> \o words
        /\ reg' = [a0 |-> vector, a1 |-> Len(words) + 2, d0 |-> 0] /\ vector' = "1:"
    BY <1>3 DEF NF!Supexec
  <2>2. words \in Seq(OnStack) /\ Len(words) = 1 /\ words[1] = "caller" /\ "NF_VERSION" \in OnStack
    BY <1>1, NfTypes DEF NfInv, NF!NfTypeOK, StackKept, OnStack
  <2>3. words' \in Seq(OnStack) /\ Stands(words', "zero", "NF_VERSION")
    <3>1. "zero" \in OnStack
      BY DEF OnStack
    <3> DEFINE w == <<"zero", "NF_VERSION">> \o words
    <3>2. /\ w \in Seq(OnStack) /\ Len(w) = Len(words) + 2 /\ w[1] = "zero"
          /\ w[2] = "NF_VERSION" /\ \A i \in 1 .. Len(words) : w[i + 2] = words[i]
      <4>1. words \in Seq(OnStack) /\ "NF_VERSION" \in OnStack
        BY <2>2
      <4> QED BY <3>1, <4>1, PushTwo
    <3>3. w[1 + 2] = words[1]
      BY <2>2, <3>2
    <3> HIDE DEF w
    <3>4. w \in Seq(OnStack) /\ Stands(w, "zero", "NF_VERSION")
      BY <2>2, <3>2, <3>3 DEF Stands
    <3> QED BY <2>1, <3>4 DEF w
  <2>4. NF!NfTypeOK'
    BY <1>1, <2>1 DEF NfInv, NF!NfTypeOK
  <2>5. StackKept'
    BY <1>1, <2>1, <2>3 DEF StackKept
  <2>6. reg'.a0 = "system" /\ reg'.a1 = 3 /\ reg'.d0 = 0
    BY <1>1, <2>1, <2>2 DEF NfInv, HandlersKept
  <2>7. HandlersKept'
    BY <1>1, <2>1, <2>6 DEF NfInv, HandlersKept
  <2>8. FeaturesKnown' /\ NF!FeaturesFound'
    BY <1>1, <2>1 DEF NfInv, FeaturesKnown, NF!FeaturesFound
  <2> QED BY <2>4, <2>5, <2>7, <2>8 DEF NfInv
<1> QED BY <1>2, <1>3

LEMMA NfTrapTos ==
    ASSUME NfInv, NF!TrapTos
    PROVE  NfInv'
<1>1. /\ step = "detect_tos" /\ machine.opcode = "illegal"
      /\ words' = <<"frame", "frame">> \o words
      /\ step' = IF vector = "1:" THEN "1:" ELSE "bombs"
      /\ UNCHANGED <<machine, nf_ops, does, reg, local, vector, sigill, sigsys, asked, answer>>
  BY DEF NF!TrapTos
<1>2. step' = "1:"
  BY <1>1 DEF NfInv, HandlersKept
<1>3. words \in Seq(OnStack) /\ Stands(words, "zero", "NF_VERSION") /\ "frame" \in OnStack
  BY <1>1 DEF NfInv, StackKept, OnStack
<1>4. /\ words' \in Seq(OnStack) /\ Len(words') = 5
      /\ words'[3] = "zero" /\ words'[4] = "NF_VERSION" /\ words'[5] = "caller"
  <2> DEFINE w == <<"frame", "frame">> \o words
  <2>1. w \in Seq(OnStack) /\ Len(w) = Len(words) + 2 /\ \A i \in 1 .. Len(words) : w[i + 2] = words[i]
    <3>1. words \in Seq(OnStack) /\ "frame" \in OnStack
      BY <1>3
    <3> QED BY <3>1, PushTwo
  <2> HIDE DEF w
  <2>2. w[1 + 2] = words[1] /\ w[2 + 2] = words[2] /\ w[3 + 2] = words[3]
    BY <1>3, <2>1 DEF Stands
  <2>3. w \in Seq(OnStack) /\ Len(w) = 5 /\ w[3] = "zero" /\ w[4] = "NF_VERSION" /\ w[5] = "caller"
    BY <1>3, <2>1, <2>2 DEF Stands
  <2> QED BY <1>1, <2>3 DEF w
<1>5. NF!NfTypeOK'
  BY <1>1, <1>2 DEF NfInv, NF!NfTypeOK
<1>6. StackKept'
  BY <1>1, <1>2, <1>4 DEF StackKept
<1>7. HandlersKept'
  BY <1>1, <1>2 DEF NfInv, HandlersKept
<1>8. FeaturesKnown' /\ NF!FeaturesFound'
  BY <1>1, <1>2 DEF NfInv, FeaturesKnown, NF!FeaturesFound
<1> QED BY <1>5, <1>6, <1>7, <1>8 DEF NfInv

LEMMA TailFacts ==
    ASSUME NEW W, NEW s \in Seq(W), s # <<>>
    PROVE  /\ Tail(s) \in Seq(W) /\ Len(Tail(s)) = Len(s) - 1
           /\ \A i \in 1 .. Len(Tail(s)) : Tail(s)[i] = s[i + 1]
OBVIOUS

LEMMA NfOpcodeTos ==
    ASSUME NfInv, NF!OpcodeTos
    PROVE  NfInv'
<1>1. /\ step = "detect_tos" /\ machine.opcode # "illegal" /\ step' = "1:"
      /\ words' = IF NF!GetId(reg.d0) # 0 THEN <<"one">> \o Tail(words) ELSE words
      /\ UNCHANGED <<machine, nf_ops, does, reg, local, vector, sigill, sigsys, asked, answer>>
  BY DEF NF!OpcodeTos
<1>2. words \in Seq(OnStack) /\ Stands(words, "zero", "NF_VERSION") /\ "one" \in OnStack
  BY <1>1 DEF NfInv, StackKept, OnStack
<1>3. (NF!GetId(reg.d0) # 0) = HasVersion
  BY <1>1, <1>2 DEF NfInv, HandlersKept, NF!GetId, NF!Feature, HasVersion, Stands
<1>4. words' \in Seq(OnStack) /\ Stands(words', IF HasVersion THEN "one" ELSE "zero", "NF_VERSION")
  <2>1. CASE ~HasVersion
    BY <1>1, <1>2, <1>3, <2>1
  <2>2. CASE HasVersion
    <3> DEFINE t == Tail(words)
               w == <<"one">> \o t
    <3>1. t \in Seq(OnStack) /\ Len(t) = 2 /\ t[1] = words[2] /\ t[2] = words[3]
      <4>1. words \in Seq(OnStack) /\ Len(words) = 3
        BY <1>2 DEF Stands
      <4>2. words # <<>>
        BY <4>1
      <4>3. t \in Seq(OnStack) /\ Len(t) = Len(words) - 1 /\ \A i \in 1 .. Len(t) : t[i] = words[i + 1]
        BY <4>1, <4>2, TailFacts
      <4> HIDE DEF t
      <4>4. t[1] = words[1 + 1] /\ t[2] = words[2 + 1]
        BY <4>1, <4>3
      <4> QED BY <4>1, <4>3, <4>4
    <3>2. <<"one">> \in Seq(OnStack) /\ Len(<<"one">>) = 1 /\ <<"one">>[1] = "one"
      BY <1>2
    <3> HIDE DEF t
    <3>3. /\ w \in Seq(OnStack) /\ Len(w) = 1 + 2
          /\ \A j \in 1 .. 1 + 2 : w[j] = IF j <= 1 THEN <<"one">>[j] ELSE t[j - 1]
      <4>1. t \in Seq(OnStack) /\ <<"one">> \in Seq(OnStack)
        BY <3>1, <3>2
      <4>2. /\ w \in Seq(OnStack) /\ Len(w) = Len(<<"one">>) + Len(t)
            /\ \A j \in 1 .. Len(<<"one">>) + Len(t) :
                 w[j] = IF j <= Len(<<"one">>) THEN <<"one">>[j] ELSE t[j - Len(<<"one">>)]
        BY <4>1, JoinFacts
      <4> QED BY <3>1, <3>2, <4>2
    <3> HIDE DEF w
    <3>4. w[1] = "one" /\ w[2] = t[1] /\ w[3] = t[2]
      BY <3>2, <3>3
    <3>5. w \in Seq(OnStack) /\ Stands(w, "one", "NF_VERSION")
      BY <1>2, <3>1, <3>3, <3>4 DEF Stands
    <3> QED BY <1>1, <1>3, <2>2, <3>5 DEF w, t
  <2> QED BY <2>1, <2>2
<1>5. NF!NfTypeOK'
  BY <1>1 DEF NfInv, NF!NfTypeOK
<1>6. StackKept'
  BY <1>1, <1>4 DEF StackKept, HasVersion
<1>7. HandlersKept'
  BY <1>1 DEF NfInv, HandlersKept
<1>8. FeaturesKnown' /\ NF!FeaturesFound'
  BY <1>1 DEF NfInv, FeaturesKnown, NF!FeaturesFound
<1> QED BY <1>5, <1>6, <1>7, <1>8 DEF NfInv

LEMMA NfLabel1 ==
    ASSUME NfInv, NF!Label1
    PROVE  NfInv'
<1> DEFINE back == NF!StackBack
<1>1. /\ step = "1:" /\ step' = "look"
      /\ words' = SubSeq(back, 3, Len(back)) /\ vector' = reg.a0 /\ nf_ops' = (Head(back) = "one")
      /\ UNCHANGED <<machine, does, reg, local, sigill, sigsys, asked, answer>>
  BY DEF NF!Label1
<1>2. back = SubSeq(words, Len(words) - 3 + 1, Len(words))
  BY <1>1 DEF NfInv, HandlersKept, NF!StackBack, NF!Drop
<1>3. back \in Seq(OnStack) /\ Stands(back, IF HasVersion THEN "one" ELSE "zero", "NF_VERSION")
  <2>1. words \in Seq(OnStack)
    BY DEF NfInv, StackKept
  <2>2. CASE machine.opcode = "illegal"
    <3>1. Len(words) = 5 /\ words[3] = "zero" /\ words[4] = "NF_VERSION" /\ words[5] = "caller"
      BY <1>1, <2>2 DEF NfInv, StackKept
    <3>2. back = SubSeq(words, 2 + 1, Len(words)) /\ 2 \in 0 .. Len(words)
      BY <1>2, <3>1
    <3> HIDE DEF back
    <3>3. back \in Seq(OnStack) /\ Len(back) = Len(words) - 2
          /\ \A i \in 1 .. Len(words) - 2 : back[i] = words[2 + i]
      BY <2>1, <3>2, DropSome
    <3>4. back[1] = words[2 + 1] /\ back[2] = words[2 + 2] /\ back[3] = words[2 + 3]
      BY <3>1, <3>3
    <3> QED BY <2>2, <3>1, <3>3, <3>4 DEF Stands, HasVersion
  <2>3. CASE machine.opcode # "illegal"
    <3>1. Stands(words, IF HasVersion THEN "one" ELSE "zero", "NF_VERSION")
      BY <1>1, <2>3 DEF NfInv, StackKept
    <3>2. back = SubSeq(words, 0 + 1, Len(words)) /\ 0 \in 0 .. Len(words) /\ Len(words) = 3
      BY <1>2, <3>1 DEF Stands
    <3> HIDE DEF back
    <3>3. back \in Seq(OnStack) /\ Len(back) = Len(words) - 0
          /\ \A i \in 1 .. Len(words) - 0 : back[i] = words[0 + i]
      BY <2>1, <3>2, DropSome
    <3>4. back[1] = words[0 + 1] /\ back[2] = words[0 + 2] /\ back[3] = words[0 + 3]
      BY <3>2, <3>3
    <3> QED BY <3>1, <3>2, <3>3, <3>4 DEF Stands
  <2> QED BY <2>2, <2>3
<1> HIDE DEF back
<1>4. words' \in Seq(OnStack) /\ Len(words') = 1 /\ words'[1] = "caller"
  <2>1. words' = SubSeq(back, 2 + 1, Len(back)) /\ 2 \in 0 .. Len(back) /\ Len(back) = 3
    BY <1>1, <1>3 DEF Stands
  <2> DEFINE w == SubSeq(back, 2 + 1, Len(back))
  <2>2. w \in Seq(OnStack) /\ Len(w) = Len(back) - 2
        /\ \A i \in 1 .. Len(back) - 2 : w[i] = back[2 + i]
    BY <1>3, <2>1, DropSome
  <2> HIDE DEF w
  <2>3. w[1] = back[2 + 1]
    BY <2>1, <2>2
  <2>4. w \in Seq(OnStack) /\ Len(w) = 1 /\ w[1] = "caller"
    BY <1>3, <2>1, <2>2, <2>3 DEF Stands
  <2> QED BY <2>1, <2>4 DEF w
<1>5. nf_ops' = HasVersion
  <2>1. Head(back) = back[1]
    BY <1>3
  <2>2. (back[1] = "one") = HasVersion
    BY <1>3 DEF Stands, HasVersion
  <2> QED BY <1>1, <2>1, <2>2
<1>6. NF!NfTypeOK'
  <2>1. nf_ops' \in BOOLEAN
    BY <1>5 DEF HasVersion
  <2> QED BY <1>1, <2>1 DEF NfInv, NF!NfTypeOK
<1>7. StackKept'
  BY <1>1, <1>4 DEF StackKept
<1>8. HandlersKept'
  BY <1>1 DEF NfInv, HandlersKept
<1>9. FeaturesKnown' /\ NF!FeaturesFound'
  BY <1>1, <1>5 DEF NfInv, FeaturesKnown, NF!FeaturesFound, HasVersion
<1> QED BY <1>6, <1>7, <1>8, <1>9 DEF NfInv

\* Dropping what two words were put on.
LEMMA TwoDropped ==
    ASSUME words \in Seq(OnStack), NEW top, NEW feature, Stands(words, top, feature),
           NEW w, w = SubSeq(words, 2 + 1, Len(words))
    PROVE  w \in Seq(OnStack) /\ Len(w) = 1 /\ w[1] = "caller"
<1>1. Len(words) = 3 /\ words[3] = "caller" /\ 2 \in 0 .. Len(words)
  BY DEF Stands
<1>2. w \in Seq(OnStack) /\ Len(w) = Len(words) - 2 /\ \A i \in 1 .. Len(words) - 2 : w[i] = words[2 + i]
  BY <1>1, DropSome
<1>3. w[1] = words[2 + 1]
  BY <1>1, <1>2
<1> QED BY <1>1, <1>2, <1>3

\* And putting them on.
Alone(w) == Len(w) = 1 /\ w[1] = "caller"
LEMMA TwoPushed ==
    ASSUME words \in Seq(OnStack), Alone(words),
           NEW top \in OnStack, NEW feature \in OnStack, NEW w, w = <<top, feature>> \o words
    PROVE  w \in Seq(OnStack) /\ Stands(w, top, feature)
<1>1. /\ w \in Seq(OnStack) /\ Len(w) = Len(words) + 2 /\ w[1] = top
      /\ w[2] = feature /\ \A i \in 1 .. Len(words) : w[i + 2] = words[i]
  <2> DEFINE v == <<top, feature>> \o words
  <2>1. /\ v \in Seq(OnStack) /\ Len(v) = Len(words) + 2 /\ v[1] = top
        /\ v[2] = feature /\ \A i \in 1 .. Len(words) : v[i + 2] = words[i]
    BY PushTwo
  <2>2. w = v
    OBVIOUS
  <2> HIDE DEF v
  <2> QED BY <2>1, <2>2
<1>2. w[1 + 2] = words[1]
  BY <1>1 DEF Alone
<1> QED BY <1>1, <1>2 DEF Stands, Alone

LEMMA NfPsignal ==
    ASSUME NfInv, NF!Psignal
    PROVE  NfInv'
<1>1. step = "psignal" /\ machine.mint
      /\ UNCHANGED <<machine, nf_ops, does, vector, sigsys, asked, answer>>
  BY DEF NF!Psignal, NfInv, HandlersKept
<1>2. /\ sigill' = "catch_ill"
      /\ local' = [ret |-> sigill, ill_jmp |-> Len(words), got_ill |-> FALSE]
      /\ words' = <<"zero", "NF_VERSION">> \o words
      /\ reg' = [reg EXCEPT !.d0 = 0]
      /\ step' = "detect_mint"
  BY <1>1 DEF NF!Psignal
<1>3. words \in Seq(OnStack) /\ Len(words) = 1 /\ words[1] = "caller"
  BY <1>1 DEF NfInv, StackKept
<1>4. words' \in Seq(OnStack) /\ Stands(words', "zero", "NF_VERSION")
  <2>1. "zero" \in OnStack /\ "NF_VERSION" \in OnStack
    BY NfTypes DEF NfInv, NF!NfTypeOK, OnStack
  <2> DEFINE w == <<"zero", "NF_VERSION">> \o words
  <2>2. w \in Seq(OnStack) /\ Stands(w, "zero", "NF_VERSION")
    BY <1>3, <2>1, TwoPushed DEF Alone
  <2> QED BY <1>2, <2>2
<1>5. /\ reg' = [a0 |-> reg'.a0, a1 |-> reg'.a1, d0 |-> reg'.d0]
      /\ local' = [ret |-> local'.ret, ill_jmp |-> local'.ill_jmp, got_ill |-> local'.got_ill]
  <2>1. reg' = [a0 |-> reg.a0, a1 |-> reg.a1, d0 |-> 0]
    BY <1>2 DEF NfInv, HandlersKept
  <2> QED BY <1>2, <2>1
<1>6. NF!NfTypeOK'
  BY <1>1, <1>2 DEF NfInv, NF!NfTypeOK
<1>7. StackKept'
  BY <1>1, <1>2, <1>4 DEF StackKept
<1>8. HandlersKept'
  <2>1. sigill = machine.sigill /\ vector = "system"
    BY <1>1 DEF NfInv, HandlersKept
  <2>2. local'.ret = machine.sigill /\ local'.ill_jmp = 1 /\ local'.got_ill = FALSE
    BY <1>2, <1>3, <2>1
  <2>3. sigsys' = IF machine'.mint /\ does' # NF!NoCall THEN "sigsys_handler" ELSE machine'.sigsys
    BY <1>1 DEF NfInv, HandlersKept
  <2> QED BY ONLY <1>1, <1>2, <1>5, <2>1, <2>2, <2>3 DEF HandlersKept
<1>9. FeaturesKnown' /\ NF!FeaturesFound'
  BY <1>1, <1>2 DEF NfInv, FeaturesKnown, NF!FeaturesFound
<1> QED BY <1>6, <1>7, <1>8, <1>9 DEF NfInv

LEMMA NfTrapMint ==
    ASSUME NfInv, NF!TrapMint
    PROVE  NfInv'
<1>1. /\ step = "detect_mint" /\ machine.opcode = "illegal"
      /\ step' = IF sigill = "catch_ill" THEN "setjmp" ELSE "killed"
      /\ words' = SubSeq(words, Len(words) - local.ill_jmp + 1, Len(words))
      /\ local' = [local EXCEPT !.got_ill = TRUE]
      /\ UNCHANGED <<machine, nf_ops, does, reg, vector, sigill, sigsys, asked, answer>>
  BY DEF NF!TrapMint, NF!Drop
<1>2. sigill = "catch_ill" /\ local.ill_jmp = 1 /\ local.ret = machine.sigill
  BY <1>1 DEF NfInv, HandlersKept
<1>3. words \in Seq(OnStack) /\ Stands(words, "zero", "NF_VERSION")
  BY <1>1 DEF NfInv, StackKept
<1>4. words' \in Seq(OnStack) /\ Len(words') = 1 /\ words'[1] = "caller"
  <2> DEFINE w == SubSeq(words, 2 + 1, Len(words))
  <2>1. words' = w
    BY <1>1, <1>2, <1>3 DEF Stands
  <2>2. w \in Seq(OnStack) /\ Len(w) = 1 /\ w[1] = "caller"
    BY <1>3, TwoDropped
  <2> QED BY <2>1, <2>2
<1>5. local' = [ret |-> local.ret, ill_jmp |-> local.ill_jmp, got_ill |-> TRUE]
  BY <1>1 DEF NfInv, HandlersKept
<1>6. NF!NfTypeOK'
  BY <1>1, <1>2 DEF NfInv, NF!NfTypeOK
<1>7. StackKept'
  BY <1>1, <1>2, <1>4 DEF StackKept
<1>8. HandlersKept'
  <2>1. /\ local'.ret = local.ret /\ local'.ill_jmp = local.ill_jmp /\ local'.got_ill = TRUE
        /\ local' = [ret |-> local'.ret, ill_jmp |-> local'.ill_jmp, got_ill |-> local'.got_ill]
    BY <1>5
  <2> QED BY <1>1, <1>2, <2>1 DEF NfInv, HandlersKept
<1>9. FeaturesKnown' /\ NF!FeaturesFound'
  BY <1>1, <1>2 DEF NfInv, FeaturesKnown, NF!FeaturesFound
<1> QED BY <1>6, <1>7, <1>8, <1>9 DEF NfInv

LEMMA NfOpcodeMint ==
    ASSUME NfInv, NF!OpcodeMint
    PROVE  NfInv'
<1>1. /\ step = "detect_mint" /\ machine.opcode # "illegal" /\ step' = "setjmp"
      /\ words' = SubSeq(words, 2 + 1, Len(words))
      /\ UNCHANGED <<machine, nf_ops, does, reg, local, vector, sigill, sigsys, asked, answer>>
  BY DEF NF!OpcodeMint, NF!Drop
<1>2. words \in Seq(OnStack) /\ Stands(words, "zero", "NF_VERSION")
  BY <1>1 DEF NfInv, StackKept
<1>3. words' \in Seq(OnStack) /\ Len(words') = 1 /\ words'[1] = "caller"
  <2> DEFINE w == SubSeq(words, 2 + 1, Len(words))
  <2>1. w \in Seq(OnStack) /\ Len(w) = 1 /\ w[1] = "caller"
    BY <1>2, TwoDropped
  <2> QED BY <1>1, <2>1
<1>4. NF!NfTypeOK'
  BY <1>1 DEF NfInv, NF!NfTypeOK
<1>5. StackKept'
  BY <1>1, <1>3 DEF StackKept
<1>6. HandlersKept'
  BY <1>1 DEF NfInv, HandlersKept
<1>7. FeaturesKnown' /\ NF!FeaturesFound'
  BY <1>1 DEF NfInv, FeaturesKnown, NF!FeaturesFound
<1> QED BY <1>4, <1>5, <1>6, <1>7 DEF NfInv

LEMMA NfBehindSetjmp ==
    ASSUME NfInv, NF!BehindSetjmp
    PROVE  NfInv'
<1>1. /\ step = "setjmp" /\ step' = "look" /\ sigill' = local.ret /\ nf_ops' = ~local.got_ill
      /\ UNCHANGED <<machine, does, reg, local, words, vector, sigsys, asked, answer>>
  BY DEF NF!BehindSetjmp, NF!OldHandler
<1>2. local.ret = machine.sigill /\ local.got_ill = (machine.opcode = "illegal")
  BY <1>1 DEF NfInv, HandlersKept
<1>3. nf_ops' = (machine.opcode # "illegal")
  BY <1>1, <1>2
<1>4. NF!NfTypeOK'
  <2>1. nf_ops' \in BOOLEAN
    BY <1>3
  <2> QED BY <1>1, <2>1 DEF NfInv, NF!NfTypeOK
<1>5. StackKept'
  BY <1>1 DEF NfInv, StackKept
<1>6. HandlersKept'
  BY <1>1, <1>2 DEF NfInv, HandlersKept
<1>7. FeaturesKnown' /\ NF!FeaturesFound'
  <2>1. machine.opcode \in {"illegal", "emulated", "other"}
    BY NfTypes DEF NfInv, NF!NfTypeOK
  <2> QED BY <1>1, <1>3, <2>1 DEF NfInv, FeaturesKnown, NF!FeaturesFound, HasVersion
<1> QED BY <1>4, <1>5, <1>6, <1>7 DEF NfInv

LEMMA NfNoFeatures ==
    ASSUME NfInv, NF!NoFeatures
    PROVE  NfInv'
<1>1. /\ step = "look" /\ ~nf_ops /\ answer' = NF!Unavailable(does.f) /\ step' = "ready"
      /\ UNCHANGED <<machine, nf_ops, does, reg, local, words, vector, sigill, sigsys, asked>>
  BY DEF NF!NoFeatures, NF!Return
<1>2. answer' \in Int
  BY <1>1 DEF NF!Unavailable
<1>3. NF!NfTypeOK'
  BY <1>1, <1>2 DEF NfInv, NF!NfTypeOK
<1>4. StackKept' /\ HandlersKept'
  BY <1>1 DEF NfInv, StackKept, HandlersKept
<1>5. does # NF!NoCall /\ ~HasVersion /\ asked = NF!NoCall
  BY <1>1 DEF NfInv, FeaturesKnown
<1>6. FeaturesKnown'
  BY <1>1, <1>5 DEF NfInv, FeaturesKnown, HasVersion
<1>7. NF!FeaturesFound'
  BY <1>1, <1>5 DEF NF!FeaturesFound, HasVersion, NF!Unavailable
<1> QED BY <1>3, <1>4, <1>6, <1>7 DEF NfInv

IsCall(d) ==
    /\ d.feature \in Features /\ d.sub \in 0 .. 15 /\ d.f # "none"
    /\ d = NF!Call(d.f, d.feature, d.sub)

LEMMA CallIs ==
    ASSUME NEW f, NEW x \in Features, NEW n \in 0 .. 15, f # "none"
    PROVE  IsCall(NF!Call(f, x, n))
BY DEF IsCall, NF!Call

LEMMA CallTypes ==
    ASSUME does \in NF!Calls
    PROVE  IsCall(does) /\ does # NF!NoCall
<1>1. /\ {"NF_NAME", "NF_VERSION", "NF_STDERR", "NF_SHUTDOWN"} \subseteq Features
      /\ Modes \subseteq 0 .. 15 /\ 0 \in 0 .. 15 /\ 1 \in 0 .. 15
  BY UtilitiesAssumption DEF NF!NatFeatsAssumption, NF!Functions
<1>2. IsCall(does)
  <2>1. ASSUME NEW x \in Features PROVE IsCall(NF!Call("nf_get_id", x, 0))
    BY <1>1, CallIs
  <2>2. ASSUME NEW n \in Modes PROVE IsCall(NF!Call("nf_shutdown", "NF_SHUTDOWN", n))
    BY <1>1, CallIs
  <2>3. /\ IsCall(NF!Call("nf_get_name", "NF_NAME", 0))
        /\ IsCall(NF!Call("nf_get_fullname", "NF_NAME", 1))
        /\ IsCall(NF!Call("nf_version", "NF_VERSION", 0))
        /\ IsCall(NF!Call("nf_debug", "NF_STDERR", 0))
        /\ IsCall(NF!Call("nf_debugprintf", "NF_STDERR", 0))
    BY <1>1, CallIs
  <2> QED BY <2>1, <2>2, <2>3 DEF NF!Calls
<1>3. does # NF!NoCall
  BY <1>2 DEF NF!NoCall, NF!Call, IsCall
<1> QED BY <1>2, <1>3

LEMMA NfLook ==
    ASSUME NfInv, NEW garbage \in Garbage, NF!Look(garbage)
    PROVE  NfInv'
<1>1. /\ step = "look" /\ nf_ops /\ step' = "get_id"
      /\ words' = <<"return", does.feature>> \o words
      /\ reg' = [reg EXCEPT !.d0 = garbage]
      /\ UNCHANGED <<machine, nf_ops, does, local, vector, sigill, sigsys, asked, answer>>
  BY DEF NF!Look
<1>2. does \in NF!Calls
  BY <1>1 DEF NfInv, NF!NfTypeOK, FeaturesKnown
<1>3. garbage \in Int
  BY UtilitiesAssumption DEF NF!NatFeatsAssumption
<1>4. reg' = [a0 |-> reg.a0, a1 |-> reg.a1, d0 |-> garbage]
  BY <1>1 DEF NfInv, HandlersKept
<1>5. words' \in Seq(OnStack) /\ Stands(words', "return", does.feature)
  <2>1. "return" \in OnStack /\ does.feature \in OnStack
    BY <1>2, CallTypes DEF OnStack, IsCall
  <2>2. words \in Seq(OnStack) /\ Len(words) = 1 /\ words[1] = "caller"
    BY <1>1 DEF NfInv, StackKept
  <2> DEFINE w == <<"return", does.feature>> \o words
  <2>3. w \in Seq(OnStack) /\ Stands(w, "return", does.feature)
    BY <2>1, <2>2, TwoPushed DEF Alone
  <2> QED BY <1>1, <2>3
<1>6. NF!NfTypeOK'
  BY <1>1 DEF NfInv, NF!NfTypeOK
<1>7. StackKept'
  BY <1>1, <1>5 DEF StackKept
<1>8. HandlersKept'
  <2>1. reg' = [a0 |-> reg'.a0, a1 |-> reg'.a1, d0 |-> reg'.d0]
    BY <1>4
  <2> QED BY <1>1, <2>1 DEF NfInv, HandlersKept
<1>9. FeaturesKnown' /\ NF!FeaturesFound'
  <2>1. reg'.d0 \in Int
    BY <1>3, <1>4
  <2> QED BY <1>1, <2>1 DEF NfInv, FeaturesKnown, NF!FeaturesFound
<1> QED BY <1>6, <1>7, <1>8, <1>9 DEF NfInv

LEMMA NfGotId ==
    ASSUME NfInv, NF!GotId
    PROVE  NfInv'
<1> DEFINE id == NF!GetId(reg.d0)
<1>1. /\ step = "get_id"
      /\ reg' = [reg EXCEPT !.d0 = id]
      /\ IF does.f = "nf_get_id" THEN answer' = id /\ step' = "ready"
         ELSE IF id # 0 THEN step' = "call" /\ answer' = answer
         ELSE answer' = NF!Unavailable(does.f) /\ step' = "ready"
      /\ words' = SubSeq(words, 2 + 1, Len(words))
      /\ UNCHANGED <<machine, nf_ops, does, local, vector, sigill, sigsys, asked>>
  BY DEF NF!GotId, NF!Drop, NF!Return, NF!IsThere
<1>2. /\ words \in Seq(OnStack) /\ Stands(words, "return", does.feature)
      /\ nf_ops /\ does \in NF!Calls /\ reg.d0 \in Int /\ asked = NF!NoCall
      /\ machine.opcode # "illegal" /\ machine \in Machines
  BY <1>1 DEF NfInv, StackKept, FeaturesKnown, NF!NfTypeOK
<1>3. /\ does.feature \in Features /\ machine.ids[does.feature] \in Nat
      /\ id = IF machine.opcode = "emulated" THEN machine.ids[does.feature] ELSE reg.d0
  <2>1. does.feature \in Features /\ machine.ids \in [Features -> Nat]
    BY <1>2, CallTypes, NfTypes DEF IsCall
  <2> QED BY <1>2, <2>1 DEF NF!GetId, NF!Feature, Stands
<1>4. id \in Int
  BY <1>2, <1>3
<1>5. words' \in Seq(OnStack) /\ Len(words') = 1 /\ words'[1] = "caller"
  <2> DEFINE w == SubSeq(words, 2 + 1, Len(words))
  <2>1. w \in Seq(OnStack) /\ Len(w) = 1 /\ w[1] = "caller"
    <3>1. words \in Seq(OnStack) /\ Stands(words, "return", does.feature)
      BY <1>2
    <3> QED BY <3>1, TwoDropped
  <2> QED BY <1>1, <2>1
<1> HIDE DEF id
<1>6. step' \in {"ready", "call"} /\ answer' \in Int
  BY <1>1, <1>4 DEF NF!Unavailable, NfInv, NF!NfTypeOK
<1>7. NF!NfTypeOK'
  BY <1>1, <1>6 DEF NfInv, NF!NfTypeOK
<1>8. StackKept'
  BY <1>1, <1>5, <1>6 DEF StackKept
<1>9. reg'.d0 = id /\ reg' = [a0 |-> reg'.a0, a1 |-> reg'.a1, d0 |-> reg'.d0]
  BY <1>1 DEF NfInv, HandlersKept
<1>10. HandlersKept'
  BY <1>1, <1>6, <1>9 DEF NfInv, HandlersKept
<1>11. FeaturesKnown'
  BY <1>1, <1>2, <1>3, <1>4, <1>6, <1>9 DEF NfInv, FeaturesKnown
<1>12. NF!FeaturesFound'
  BY <1>1, <1>2, <1>3, <1>6 DEF NfInv, FeaturesKnown, NF!FeaturesFound, NF!Unavailable
<1> QED BY <1>7, <1>8, <1>10, <1>11, <1>12 DEF NfInv

\* The emulator is told the number of the feature and of its function.
LEMMA WhoOwns ==
    ASSUME NEW x \in Features, machine \in Machines, machine.ids[x] # 0
    PROVE  NF!Owners(machine.ids[x]) = {x}
BY NfTypes DEF NF!Owners

LEMMA IdAndFunction ==
    ASSUME NEW id \in Nat, id % 16 = 0, NEW sub \in 0 .. 15
    PROVE  (id + sub) % 16 = sub
BY Z3

LEMMA NfObey ==
    ASSUME NfInv, NEW result \in Results, NF!Obey(result)
    PROVE  NfInv'
<1>1. /\ step = "call" /\ step' = "ready"
      /\ UNCHANGED <<machine, nf_ops, does, reg, local, words, vector, sigill, sigsys>>
  BY DEF NF!Obey, NF!Return
<1>2. /\ does \in NF!Calls /\ machine \in Machines /\ nf_ops /\ reg.d0 \in Int
      /\ asked = NF!NoCall /\ does.f # "nf_get_id" /\ machine.opcode # "illegal"
      /\ does # NF!NoCall
  BY <1>1 DEF NfInv, FeaturesKnown, NF!NfTypeOK
<1>3. result \in Int
  BY UtilitiesAssumption DEF NF!NatFeatsAssumption
<1>4. CASE machine.opcode = "emulated"
  <2>1. reg.d0 = machine.ids[does.feature] /\ reg.d0 # 0
    BY <1>1, <1>4 DEF NfInv, FeaturesKnown
  <2>2. /\ does.feature \in Features /\ does.sub \in 0 .. 15
        /\ does = NF!Call(does.f, does.feature, does.sub)
    BY <1>2, CallTypes DEF IsCall
  <2>3. reg.d0 \in Nat /\ reg.d0 % 16 = 0
    BY <1>2, <2>1, <2>2, NfTypes
  <2>4. (reg.d0 + does.sub) % 16 = does.sub
    BY <2>2, <2>3, IdAndFunction
  <2>5. (reg.d0 + does.sub) - does.sub = reg.d0
    BY <1>2, <2>2
  <2>6. NF!Owners(reg.d0) = {does.feature}
    BY <1>2, <2>1, <2>2, WhoOwns
  <2>7. /\ asked' = NF!Call(does.f, does.feature, does.sub)
        /\ answer' = NF!Told(does.f, result)
    <3> DEFINE owner == IF {does.feature} = {} THEN "none" ELSE CHOOSE f \in {does.feature} : TRUE
    <3>1. owner = does.feature
      OBVIOUS
    <3>2. asked' = NF!Call(does.f, owner, does.sub) /\ answer' = NF!Told(does.f, result)
      <4> DEFINE n == reg.d0 + does.sub
                 known == NF!Owners(n - (n % 16))
      <4>1. /\ asked' = NF!Call(does.f, IF known = {} THEN "none" ELSE CHOOSE f \in known : TRUE, n % 16)
            /\ answer' = NF!Told(does.f, result)
        BY <1>4 DEF NF!Obey, NF!Return, NF!Functions
      <4>2. n % 16 = does.sub
        BY <2>4
      <4>3. n - does.sub = reg.d0
        BY <2>5
      <4> HIDE DEF n
      <4>4. known = {does.feature}
        BY <2>6, <4>2, <4>3
      <4> HIDE DEF known
      <4> QED BY <4>1, <4>2, <4>4
    <3> QED BY <3>1, <3>2
  <2>8. asked' = does
    BY <2>2, <2>7
  <2>9. answer' \in Int
    BY <1>3, <2>7 DEF NF!Told
  <2>10. NF!NfTypeOK'
    BY <1>1, <2>9 DEF NfInv, NF!NfTypeOK
  <2>11. StackKept' /\ HandlersKept'
    BY <1>1 DEF NfInv, StackKept, HandlersKept
  <2>12. FeaturesKnown'
    BY <1>1, <1>2 DEF NfInv, FeaturesKnown
  <2>13. NF!FeaturesFound'
    BY <1>1, <1>2, <1>4, <2>1, <2>8 DEF NF!FeaturesFound
  <2> QED BY <2>10, <2>11, <2>12, <2>13 DEF NfInv
<1>5. CASE machine.opcode # "emulated"
  <2>1. /\ asked' = NF!Call(does.f, "none", (reg.d0 + does.sub) % 16)
        /\ answer' = NF!Told(does.f, reg.d0)
    BY <1>5 DEF NF!Obey, NF!Return, NF!Functions
  <2>2. answer' \in Int
    BY <1>2, <2>1 DEF NF!Told
  <2>3. NF!NfTypeOK'
    BY <1>1, <2>2 DEF NfInv, NF!NfTypeOK
  <2>4. StackKept' /\ HandlersKept'
    BY <1>1 DEF NfInv, StackKept, HandlersKept
  <2>5. FeaturesKnown'
    BY <1>1, <1>2, <2>1 DEF NfInv, FeaturesKnown
  <2>6. NF!FeaturesFound'
    <3>1. asked'.feature = "none"
      BY <2>1 DEF NF!Call
    <3> QED BY <1>1, <1>2, <1>5, <3>1 DEF NfInv, NF!FeaturesFound, FeaturesKnown
  <2> QED BY <2>3, <2>4, <2>5, <2>6 DEF NfInv
<1> QED BY <1>4, <1>5

\* nothing of it changes
LEMMA NfSame ==
    ASSUME NfInv, UNCHANGED featureVars
    PROVE  NfInv'
BY DEF NfInv, featureVars, NF!NfTypeOK, StackKept, HandlersKept, FeaturesKnown,
       NF!FeaturesFound, HasVersion

LEMMA NfStep ==
    ASSUME NfInv, NF!NfNext
    PROVE  NfInv'
BY NfEnter, NfSupexec, NfTrapTos, NfOpcodeTos, NfLabel1, NfPsignal, NfTrapMint, NfOpcodeMint,
   NfBehindSetjmp, NfNoFeatures, NfGotId, NfLook, NfObey DEF NF!NfNext

LEMMA NfSound ==
    ASSUME NfInv
    PROVE  NF!NfTypeOK /\ NF!PutsBack /\ NF!FeaturesFound
<1>1. NF!NfTypeOK /\ NF!FeaturesFound
  BY DEF NfInv
<1>2. step \notin {"bombs", "killed"}
  BY <1>1 DEF NF!NfTypeOK
<1>3. ASSUME step \in {"ready", "look"}
      PROVE  /\ words = <<"caller">> /\ vector = "system" /\ sigill = machine.sigill
             /\ sigsys = IF machine.mint /\ does # NF!NoCall THEN "sigsys_handler"
                         ELSE machine.sigsys
  <2>1. /\ vector = "system" /\ sigill = machine.sigill
        /\ sigsys = IF machine.mint /\ does # NF!NoCall THEN "sigsys_handler"
                    ELSE machine.sigsys
    BY <1>3 DEF NfInv, HandlersKept
  <2>2. StackKept /\ Len(words) = 1 /\ words[1] = "caller"
    BY <1>3 DEF NfInv, StackKept
  <2> QED BY <2>1, <2>2, CallerAlone
<1> QED BY <1>1, <1>2, <1>3 DEF NF!PutsBack

\* A remainder is the only one there is.
LEMMA OneRemainder ==
    ASSUME NEW w \in Nat \ {0}, NEW m \in 0 .. w - 1, NEW k \in Int
    PROVE  (m + k * w) % w = m
OBVIOUS

\* The clock: the difference of two times is what has gone by, wherever the word ends.
LEMMA SignedIs ==
    ASSUME NEW m \in 0 .. Half - 1, NEW k \in Int
    PROVE  Timer!Signed(m + k * (2 * Half)) = m
<1>1. Half \in Nat \ {0}
  BY UtilitiesAssumption DEF Timer!ClockAssumption
<1> DEFINE w == 2 * Half
<1>2. w \in Nat \ {0} /\ m \in 0 .. w - 1
  BY <1>1
<1>3. (m + k * w) % w = m
  <2> HIDE DEF w
  <2> QED BY <1>2, OneRemainder
<1> QED BY <1>1, <1>3 DEF Timer!Signed

LEMMA SignedOff ==
    ASSUME NEW n \in Int
    PROVE  /\ Timer!Signed(n) \in -Half .. Half - 1
           /\ \E k \in Int : Timer!Signed(n) = n + k * (2 * Half)
<1>1. Half \in Nat \ {0}
  BY UtilitiesAssumption DEF Timer!ClockAssumption
<1> DEFINE w == 2 * Half
<1>2. w \in Nat \ {0}
  BY <1>1
<1>3. n % w \in 0 .. w - 1 /\ n \div w \in Int /\ n = w * (n \div w) + (n % w)
  <2> HIDE DEF w
  <2> QED BY <1>2, Z3
<1> DEFINE q == n \div w
           r == n % w
<1>4. r \in 0 .. w - 1 /\ q \in Int /\ n = w * q + r
  BY <1>3
<1>5. Timer!Signed(n) = IF r < Half THEN r ELSE r - w
  BY DEF Timer!Signed
<1> HIDE DEF q, r
<1>6. Timer!Signed(n) \in -Half .. Half - 1
  BY <1>1, <1>4, <1>5
<1>7. CASE r < Half
  <2>1. Timer!Signed(n) = n + (-q) * w /\ -q \in Int
    BY <1>1, <1>4, <1>5, <1>7
  <2> QED BY <1>6, <2>1
<1>8. CASE ~(r < Half)
  <2>1. Timer!Signed(n) = n + (-q - 1) * w /\ -q - 1 \in Int
    BY <1>1, <1>4, <1>5, <1>8
  <2> QED BY <1>6, <2>1
<1> QED BY <1>7, <1>8

LEMMA GoneBy ==
    ASSUME NEW n \in Int, NEW t \in 0 .. Half - 1
    PROVE  Timer!Signed(Timer!Signed(n + t) - Timer!Signed(n)) = t
<1>1. Half \in Nat \ {0}
  BY UtilitiesAssumption DEF Timer!ClockAssumption
<1> DEFINE w == 2 * Half
<1>2. w \in Int
  BY <1>1
<1>3. PICK i \in Int : Timer!Signed(n + t) = (n + t) + i * w
  BY SignedOff
<1>4. PICK j \in Int : Timer!Signed(n) = n + j * w
  BY SignedOff
<1>5. Timer!Signed(n + t) - Timer!Signed(n) = t + (i - j) * w /\ i - j \in Int
  <2> HIDE DEF w
  <2> QED BY <1>2, <1>3, <1>4
<1> QED BY <1>5, SignedIs

\* The timer is behind the program by what it is late, and what has gone by is due.
InTime ==
    /\ waits => ticks = late \/ ticks - late < Timer!Due
    /\ ~waits => Timer!Due <= ticks
    /\ ticks <= Timer!Due + MaxLate
ClockInv ==
    /\ Timer!ClockTypeOK /\ begin = Timer!Signed(count)
    /\ Timer!Due + MaxLate < Half => InTime

LEMMA ClockTypes ==
    ASSUME wait \in Waits, count \in Counts
    PROVE  /\ Half \in Nat \ {0} /\ MaxLate \in Nat \ {0} /\ count \in Nat
           /\ Timer!Due \in Nat
           /\ Timer!Due < Half => Timer!cycles = Timer!Due
<1>1. /\ Half \in Nat \ {0} /\ CLOCKS_PER_SEC \in Nat /\ MaxLate \in Nat \ {0}
      /\ count \in 0 .. 2 * Half - 1 /\ wait.n \in 0 .. 2 * Half - 1
  BY UtilitiesAssumption DEF Timer!ClockAssumption
<1>2. count \in Nat /\ wait.n \in Nat
  BY <1>1
<1>3. wait.n * CLOCKS_PER_SEC \in Nat /\ wait.n \div 5 \in Nat
  BY <1>1, <1>2
<1>4. Timer!Due \in Nat
  BY <1>3 DEF Timer!Due
<1>5. ASSUME Timer!Due < Half PROVE Timer!cycles = Timer!Due
  <2>1. Timer!cycles = Timer!Signed(Timer!Due)
    BY DEF Timer!cycles, Timer!Due
  <2> DEFINE d == Timer!Due
  <2> HIDE DEF d
  <2>2. d \in 0 .. Half - 1 /\ d + 0 * (2 * Half) = d
    BY <1>1, <1>4, <1>5 DEF d
  <2>3. Timer!Signed(d + 0 * (2 * Half)) = d
    BY <2>2, SignedIs
  <2> QED BY <2>1, <2>2, <2>3 DEF d
<1> QED BY <1>1, <1>2, <1>4, <1>5

LEMMA ClockStarts ==
    ASSUME Timer!ClockInit
    PROVE  ClockInv
<1>1. /\ wait \in Waits /\ count \in Counts /\ ticks = 0 /\ late = 0
      /\ begin = Timer!Signed(count + ticks) /\ waits = TRUE
  BY DEF Timer!ClockInit, Timer!clock
<1>2. /\ Half \in Nat \ {0} /\ MaxLate \in Nat \ {0} /\ count \in Nat /\ Timer!Due \in Nat
  BY <1>1, ClockTypes
<1>3. count + ticks = count
  BY <1>1, <1>2
<1>4. begin = Timer!Signed(count) /\ begin \in -Half .. Half - 1
  BY <1>1, <1>2, <1>3, SignedOff
<1>5. waits \in BOOLEAN
  BY <1>1
<1>6. Timer!ClockTypeOK
  BY <1>1, <1>2, <1>4, <1>5 DEF Timer!ClockTypeOK
<1>7. InTime
  BY <1>1, <1>2 DEF InTime
<1> QED BY <1>4, <1>6, <1>7 DEF ClockInv

LEMMA ClockStep1 ==
    ASSUME ClockInv, Timer!Tick
    PROVE  ClockInv'
<1>1. /\ waits /\ late < MaxLate /\ ticks' = ticks + 1 /\ late' = late + 1
      /\ UNCHANGED <<wait, count, begin, waits>>
  BY DEF Timer!Tick
<1>2. wait \in Waits /\ count \in Counts /\ ticks \in Nat /\ late \in 0 .. MaxLate
  BY DEF ClockInv, Timer!ClockTypeOK
<1>3. /\ Half \in Nat \ {0} /\ MaxLate \in Nat \ {0} /\ Timer!Due \in Nat
  BY <1>2, ClockTypes
<1>4. Timer!ClockTypeOK'
  <2>1. ticks' \in Nat /\ late' \in 0 .. MaxLate
    BY <1>1, <1>2, <1>3
  <2> QED BY <1>1, <2>1 DEF ClockInv, Timer!ClockTypeOK
<1>5. Timer!Due' = Timer!Due
  BY <1>1 DEF Timer!Due
<1>6. ASSUME InTime PROVE InTime'
  <2>1. (ticks = late \/ ticks - late < Timer!Due) /\ ticks <= Timer!Due + MaxLate
    BY <1>1, <1>6 DEF InTime
  <2>2. /\ ticks' = late' \/ ticks' - late' < Timer!Due
        /\ ticks' <= Timer!Due + MaxLate
    BY <1>1, <1>2, <1>3, <2>1
  <2> QED BY <1>1, <1>5, <2>2 DEF InTime
<1>7. begin' = Timer!Signed(count)'
  BY <1>1 DEF ClockInv, Timer!Signed
<1> QED BY <1>4, <1>5, <1>6, <1>7 DEF ClockInv

LEMMA ClockStep2 ==
    ASSUME ClockInv, Timer!Look
    PROVE  ClockInv'
<1>1. /\ waits /\ waits' = Timer!GoesOn /\ late' = 0
      /\ UNCHANGED <<wait, count, ticks, begin>>
  BY DEF Timer!Look
<1>2. /\ wait \in Waits /\ count \in Counts /\ ticks \in Nat /\ late \in 0 .. MaxLate
      /\ begin = Timer!Signed(count)
  BY DEF ClockInv, Timer!ClockTypeOK
<1>3. /\ Half \in Nat \ {0} /\ MaxLate \in Nat \ {0} /\ Timer!Due \in Nat /\ count \in Nat
  BY <1>2, ClockTypes
<1>4. Timer!ClockTypeOK'
  <2>1. waits' \in BOOLEAN
    BY <1>1 DEF Timer!GoesOn
  <2>2. late' \in 0 .. MaxLate
    BY <1>1, <1>3
  <2> QED BY <1>1, <2>1, <2>2 DEF ClockInv, Timer!ClockTypeOK
<1>5. Timer!Due' = Timer!Due
  BY <1>1 DEF Timer!Due
<1>6. ASSUME InTime, Timer!Due + MaxLate < Half PROVE InTime'
  <2>1. (ticks = late \/ ticks - late < Timer!Due) /\ ticks <= Timer!Due + MaxLate
    BY <1>1, <1>6 DEF InTime
  <2>2. ticks \in 0 .. Half - 1 /\ Timer!Due < Half
    BY <1>2, <1>3, <1>6, <2>1
  <2>3. Timer!Signed(Timer!Signed(count + ticks) - Timer!Signed(count)) = ticks
    BY <1>3, <2>2, GoneBy
  <2>4. Timer!cycles = Timer!Due
    BY <1>2, <2>2, ClockTypes
  <2>5. waits' = (ticks < Timer!Due)
    BY <1>1, <1>2, <2>3, <2>4 DEF Timer!GoesOn, Timer!clock
  <2>6. waits' => ticks - 0 < Timer!Due
    <3>1. waits' => ticks < Timer!Due
      BY <2>5, Zenon
    <3>2. ticks < Timer!Due => ticks - 0 < Timer!Due
      BY <1>2, <1>3
    <3> QED BY <3>1, <3>2, Zenon
  <2>7. ~waits' => Timer!Due <= ticks
    <3>1. ~waits' => ~(ticks < Timer!Due)
      BY <2>5, Zenon
    <3>2. ~(ticks < Timer!Due) => Timer!Due <= ticks
      BY <1>2, <1>3
    <3> QED BY <3>1, <3>2, Zenon
  <2> QED BY <1>1, <1>5, <2>1, <2>6, <2>7 DEF InTime
<1>7. begin' = Timer!Signed(count)'
  BY <1>1 DEF ClockInv, Timer!Signed
<1> QED BY <1>4, <1>5, <1>6, <1>7 DEF ClockInv

LEMMA ClockSame ==
    ASSUME ClockInv, UNCHANGED clockVars
    PROVE  ClockInv'
BY DEF ClockInv, clockVars, Timer!ClockTypeOK, InTime, Timer!Due, Timer!Signed

LEMMA ClockSound ==
    ASSUME ClockInv
    PROVE  Timer!ClockTypeOK /\ Timer!WaitsAsLong
BY DEF ClockInv, InTime, Timer!WaitsAsLong

\* On whatever machine, with whatever features and answers, nf_init puts stack, vector and
\* SIGILL back, and under MiNT keeps SIGSYS; on an emulator a function runs what was meant,
\* where that is, and elsewhere an opcode that nothing answers is run behind a detection on
\* a secure MiNT only; wherever the timer's counter stands and whatever the program
\* is held up, sleep and delay come back in time.
THEOREM StaysNearTheMachine == UtilitiesSpec => []NearTheMachine
<1>1. UtilitiesInit => NfInv /\ ClockInv
  BY PartsStart, NfStarts, ClockStarts
<1>2. NfInv /\ ClockInv /\ [UtilitiesNext]_utilityVars => (NfInv /\ ClockInv)'
  <2> SUFFICES ASSUME NfInv, ClockInv, [UtilitiesNext]_utilityVars PROVE NfInv' /\ ClockInv'
    OBVIOUS
  <2>1. [NF!NfNext]_featureVars /\ [Timer!ClockNext]_clockVars
    BY PartsStep
  <2> QED BY <2>1, NfStep, NfSame, ClockStep1, ClockStep2, ClockSame DEF Timer!ClockNext
<1>3. NfInv /\ ClockInv => NearTheMachine
  BY NfSound, ClockSound DEF NearTheMachine
<1> QED BY <1>1, <1>2, <1>3, PTL DEF UtilitiesSpec

-----------------------------------------------------------------------------
(* memmove and memset.                                                     *)

\* Moved is what it looks like, and grows.
LEMMA MovedIs ==
    /\ Mem!Moved \in [0 .. Len(Pieces) -> Nat] /\ Mem!Moved[0] = 0
    /\ \A i \in 1 .. Len(Pieces) : Mem!Moved[i] = Mem!Moved[i - 1] + Pieces[i]
<1>1. Pieces \in Seq(Nat) /\ Len(Pieces) \in Nat
  BY UtilitiesAssumption DEF Mem!MemoryAssumption
<1> DEFINE last == Len(Pieces)
           Piece(n) == IF n \in 1 .. last THEN Pieces[n] ELSE 0
           Step == [n \in Nat |-> [m \in Nat |-> m + Piece(n)]]
           Body(f) == [i \in 0 .. last |-> IF i = 0 THEN 0 ELSE f[i - 1] + Pieces[i]]
<1>2. \A n \in Nat : Piece(n) \in Nat
  BY <1>1
<1>3. \A n \in 1 .. last : Piece(n) = Pieces[n]
  OBVIOUS
<1> HIDE DEF Piece
<1>4. \A n \in Nat : \A m \in Nat : Step[n][m] = m + Piece(n) /\ Step[n][m] \in Nat
  BY <1>2
<1> HIDE DEF Step
<1>5. PICK f : f \in [0 .. last -> Nat] /\ f[0] = 0 /\ \A n \in 1 .. last : f[n] = Step[n][f[n - 1]]
  <2> DEFINE T == Nat
             none == 0
  <2>1. none \in T /\ last \in Nat /\ \A n \in Nat : \A t \in T : Step[n][t] \in T
    BY <1>1, <1>4
  <2> HIDE DEF T, none, last
  <2>2. \E f : Iterated(T, none, Step, last, f)
    BY <2>1, Iterates
  <2> QED BY <2>2 DEF T, none, Iterated
<1>6. ASSUME NEW n \in 1 .. last PROVE f[n] = f[n - 1] + Pieces[n] /\ n - 1 \in 0 .. last
  <2>1. n - 1 \in 0 .. last /\ n \in Nat
    BY <1>1
  <2>2. f[n - 1] \in Nat /\ f[n] = Step[n][f[n - 1]]
    BY <1>5, <2>1
  <2> QED BY <1>3, <1>4, <2>1, <2>2
<1>7. f = Body(f)
  <2>1. ASSUME NEW n \in 0 .. last PROVE f[n] = IF n = 0 THEN 0 ELSE f[n - 1] + Pieces[n]
    <3>1. n = 0 \/ n \in 1 .. last
      BY <1>1
    <3> HIDE DEF last
    <3> QED BY <3>1, <1>5, <1>6
  <2> QED BY <1>5, <2>1
<1>8. Mem!Moved = CHOOSE g : g = Body(g)
  BY DEF Mem!Moved
<1> HIDE DEF Body
<1>9. Mem!Moved = Body(Mem!Moved)
  BY <1>7, <1>8
<1> DEFINE G == Mem!Moved
<1>10. G = [i \in 0 .. last |-> IF i = 0 THEN 0 ELSE G[i - 1] + Pieces[i]]
  BY <1>9 DEF Body
<1> HIDE DEF G
<1>11. DOMAIN G = 0 .. last /\ G[0] = 0 /\ \A i \in 1 .. last : G[i] = G[i - 1] + Pieces[i]
  BY <1>1, <1>10
<1> DEFINE S == {i \in Nat : i <= last => G[i] \in Nat}
<1>12. 0 \in S
  BY <1>11
<1>13. ASSUME NEW n \in Nat, n \in S PROVE n + 1 \in S
  <2>1. CASE n + 1 <= last
    <3>1. n + 1 \in 1 .. last /\ (n + 1) - 1 = n /\ n <= last
      BY <1>1, <2>1
    <3>2. G[n] \in Nat /\ G[n + 1] = G[n] + Pieces[n + 1] /\ Pieces[n + 1] \in Nat
      BY <1>1, <1>11, <1>13, <3>1
    <3> QED BY <3>2
  <2>2. CASE ~(n + 1 <= last)
    BY <2>2
  <2> QED BY <2>1, <2>2
<1> HIDE DEF S
<1>14. Nat \subseteq S
  BY <1>12, <1>13, SetInduction
<1>15. \A i \in 0 .. last : G[i] \in Nat
  BY <1>1, <1>14 DEF S
<1>16. G \in [0 .. last -> Nat]
  <2> DEFINE v(i) == IF i = 0 THEN 0 ELSE G[i - 1] + Pieces[i]
  <2>1. G = [i \in 0 .. last |-> v(i)]
    BY <1>10
  <2>2. G = [i \in 0 .. last |-> G[i]]
    <3> HIDE DEF v
    <3> QED BY <2>1
  <2> QED BY <1>15, <2>2
<1> QED BY <1>11, <1>16 DEF G

\* A piece is of long words; so is a block, and no sum of pieces is larger.
LEMMA BlockFacts ==
    /\ Mem!Block \in Nat \ {0} /\ Mem!Block % 4 = 0
    /\ Mem!Moved[Len(Pieces)] = Mem!Block /\ Mem!Moved[0] = 0 /\ Len(Pieces) \in Nat \ {0}
    /\ \A i \in 1 .. Len(Pieces) :
         /\ Pieces[i] \in Nat \ {0} /\ Pieces[i] % 4 = 0
         /\ Mem!Moved[i - 1] \in Nat
         /\ Mem!Moved[i] = Mem!Moved[i - 1] + Pieces[i] /\ Mem!Moved[i] <= Mem!Block
<1> DEFINE last == Len(Pieces)
           G == Mem!Moved
<1>1. /\ Pieces \in Seq(Nat) /\ last \in Nat \ {0}
      /\ \A i \in 1 .. last : Pieces[i] \in Nat \ {0} /\ Pieces[i] % 4 = 0
  BY UtilitiesAssumption DEF Mem!MemoryAssumption
<1>2. G \in [0 .. last -> Nat] /\ G[0] = 0 /\ \A i \in 1 .. last : G[i] = G[i - 1] + Pieces[i]
  BY MovedIs
<1> HIDE DEF G, last
<1> DEFINE S == {i \in Nat : i <= last => G[i] % 4 = 0}
           T == {i \in Nat : i <= last => G[last - i] <= G[last]}
<1>3. Nat \subseteq S
  <2>1. 0 \in S
    BY <1>2
  <2>2. ASSUME NEW n \in Nat, n \in S PROVE n + 1 \in S
    <3>1. CASE n + 1 <= last
      <4>1. n + 1 \in 1 .. last /\ (n + 1) - 1 = n /\ n <= last /\ n \in 0 .. last
        BY <1>1, <3>1
      <4>2. /\ G[n] \in Nat /\ G[n] % 4 = 0 /\ G[n + 1] = G[n] + Pieces[n + 1]
            /\ Pieces[n + 1] \in Nat /\ Pieces[n + 1] % 4 = 0
        BY <1>1, <1>2, <2>2, <4>1
      <4>3. G[n + 1] % 4 = 0
        BY <4>2
      <4> QED BY <4>3
    <3>2. CASE ~(n + 1 <= last)
      BY <3>2
    <3> QED BY <3>1, <3>2
  <2> HIDE DEF S
  <2> QED BY <2>1, <2>2, SetInduction
<1>4. Nat \subseteq T
  <2>1. 0 \in T
    <3>1. last - 0 = last /\ G[last] \in Nat
      BY <1>1, <1>2
    <3> QED BY <3>1
  <2>2. ASSUME NEW n \in Nat, n \in T PROVE n + 1 \in T
    <3>1. CASE n + 1 <= last
      <4> DEFINE i == last - n
      <4>1. i \in 1 .. last /\ last - (n + 1) = i - 1 /\ n <= last /\ i - 1 \in 0 .. last /\ i \in 0 .. last
        BY <1>1, <3>1
      <4>2. G[i] <= G[last]
        BY <2>2, <4>1
      <4> HIDE DEF i
      <4>3. G[i - 1] \in Nat /\ G[i] = G[i - 1] + Pieces[i] /\ Pieces[i] \in Nat /\ G[last] \in Nat
        BY <1>1, <1>2, <4>1
      <4>4. G[i - 1] <= G[last]
        BY <4>2, <4>3
      <4> QED BY <4>1, <4>4
    <3>2. CASE ~(n + 1 <= last)
      BY <3>2
    <3> QED BY <3>1, <3>2
  <2> HIDE DEF T
  <2> QED BY <2>1, <2>2, SetInduction
<1>5. Mem!Block = G[last]
  BY DEF Mem!Block, G, last
<1>6. G[last] % 4 = 0
  <2>1. last \in S
    BY <1>1, <1>3
  <2> QED BY <1>1, <2>1
<1>7. ASSUME NEW i \in 1 .. last
      PROVE  G[i] <= G[last] /\ G[i - 1] \in Nat /\ G[i] \in Nat
  <2>1. last - i \in Nat /\ last - i <= last /\ last - (last - i) = i /\ i - 1 \in 0 .. last /\ i \in 0 .. last
    BY <1>1
  <2>2. last - i \in T
    BY <1>4, <2>1
  <2> QED BY <1>2, <2>1, <2>2
<1>8. G[last] \in Nat \ {0}
  <2>1. last \in 1 .. last
    BY <1>1
  <2>2. G[last] = G[last - 1] + Pieces[last] /\ G[last - 1] \in Nat /\ Pieces[last] \in Nat \ {0}
    BY <1>1, <1>2, <1>7, <2>1
  <2> QED BY <2>2
<1> QED BY <1>1, <1>2, <1>5, <1>6, <1>7, <1>8 DEF G, last

-----------------------------------------------------------------------------

\* Where a call stands when there are r bytes left: what is moved is behind it, the
\* rest of memory is what it was.
Downward(m) == m.f = "memset" \/ m.dest > m.src
Lies(m, r, k) == IF Downward(m) THEN k \in r .. m.length - 1 ELSE k \in 0 .. (m.length - r) - 1
Place(m, r, x, y, now) ==
    /\ r \in 0 .. m.length
    /\ x = m.dest + (IF Downward(m) THEN r ELSE m.length - r)
    /\ y = IF m.f = "memset" THEN m.src ELSE m.src + (IF Downward(m) THEN r ELSE m.length - r)
    /\ DOMAIN now = 0 .. Top - 1
    /\ \A i \in 0 .. Top - 1 :
         now[i] = IF Lies(m, r, i - m.dest)
                  THEN IF m.f = "memset" THEN Mem!Fill ELSE m.src + (i - m.dest)
                  ELSE i
At(r) == Place(call, r, a0, a1, mem)

\* One instruction moves k of them.
Instruction(m, k, x, y, now, x1, y1, then) ==
    LET to == IF Downward(m) THEN x - k ELSE x
        start == IF Downward(m) THEN y - k ELSE y
    IN  /\ DOMAIN then = DOMAIN now
        /\ \A i \in DOMAIN now :
             then[i] = IF i - to \notin 0 .. k - 1 THEN now[i]
                       ELSE IF m.f # "memset" THEN now[start + (i - to)] ELSE Mem!Fill
        /\ x1 = IF Downward(m) THEN x - k ELSE x + k
        /\ y1 = IF m.f = "memset" THEN y ELSE IF Downward(m) THEN y - k ELSE y + k

LEMMA MoveCalls ==
    ASSUME NEW m \in Moves
    PROVE  /\ m.dest \in Nat /\ m.src \in Nat /\ m.length \in Nat /\ Top \in Nat
           /\ m.dest + m.length <= Top /\ m.src + m.length <= Top
           /\ m.f \in {"memmove", "memset", "portable"}
BY UtilitiesAssumption DEF Mem!MemoryAssumption, Mem!MoveCall

LEMMA InstructionMoves ==
    ASSUME NEW m \in Moves, NEW r \in Nat, NEW k \in Nat, k <= r,
           NEW x, NEW y, NEW now, Place(m, r, x, y, now),
           NEW x1, NEW y1, NEW then, Instruction(m, k, x, y, now, x1, y1, then)
    PROVE  Place(m, r - k, x1, y1, then)
<1>1. /\ m.dest \in Nat /\ m.src \in Nat /\ m.length \in Nat /\ Top \in Nat
      /\ m.dest + m.length <= Top /\ m.src + m.length <= Top
  BY MoveCalls
<1>2. r <= m.length /\ r - k \in 0 .. m.length
  BY <1>1 DEF Place
<1>3. DOMAIN then = 0 .. Top - 1
  BY DEF Place, Instruction
<1>4. CASE Downward(m)
  <2>1. x = m.dest + r /\ x1 = m.dest + (r - k)
    BY <1>1, <1>2, <1>4 DEF Place, Instruction
  <2>2. y1 = IF m.f = "memset" THEN m.src ELSE m.src + (r - k)
    BY <1>1, <1>2, <1>4 DEF Place, Instruction
  <2>3. ASSUME NEW i \in 0 .. Top - 1
        PROVE  then[i] = IF i - m.dest \in r - k .. m.length - 1
                         THEN IF m.f = "memset" THEN Mem!Fill ELSE m.src + (i - m.dest)
                         ELSE i
    <3>1. now[i] = IF i - m.dest \in r .. m.length - 1
                   THEN IF m.f = "memset" THEN Mem!Fill ELSE m.src + (i - m.dest)
                   ELSE i
      BY <1>4 DEF Place, Lies
    <3>2. then[i] = IF i - (x - k) \notin 0 .. k - 1 THEN now[i]
                    ELSE IF m.f # "memset" THEN now[(y - k) + (i - (x - k))] ELSE Mem!Fill
      BY <1>4 DEF Place, Instruction
    <3>3. CASE i - (x - k) \notin 0 .. k - 1
      <4>1. (i - m.dest \in r - k .. m.length - 1) <=> (i - m.dest \in r .. m.length - 1)
        BY <1>1, <1>2, <2>1, <3>3
      <4> QED BY <3>1, <3>2, <3>3, <4>1
    <3>4. CASE i - (x - k) \in 0 .. k - 1
      <4>1. i - m.dest \in r - k .. r - 1 /\ i - m.dest \in r - k .. m.length - 1
        BY <1>1, <1>2, <2>1, <3>4
      <4>2. CASE m.f = "memset"
        BY <3>2, <3>4, <4>1, <4>2
      <4>3. CASE m.f # "memset"
        <5> DEFINE j == m.src + (i - m.dest)
        <5>1. y = m.src + r /\ m.dest > m.src
          BY <1>4, <4>3 DEF Place, Downward
        <5>2. (y - k) + (i - (x - k)) = j
          BY <1>1, <2>1, <5>1
        <5>3. j \in 0 .. Top - 1 /\ j - m.dest \notin r .. m.length - 1
          BY <1>1, <1>2, <4>1, <5>1
        <5> HIDE DEF j
        <5>4. now[j] = j
          BY <1>4, <5>3 DEF Place, Lies
        <5>5. then[i] = j
          BY <3>2, <3>4, <4>3, <5>2, <5>4
        <5> QED BY <4>1, <4>3, <5>5 DEF j
      <4> QED BY <4>2, <4>3
    <3> QED BY <3>3, <3>4
  <2> QED BY <1>2, <1>3, <1>4, <2>1, <2>2, <2>3 DEF Place, Lies
<1>5. CASE ~Downward(m)
  <2> DEFINE moved == m.length - r
  <2>1. /\ m.f # "memset" /\ m.dest <= m.src /\ moved \in Nat /\ m.length - (r - k) = moved + k
        /\ moved + k <= m.length
    BY <1>1, <1>2, <1>5 DEF Downward
  <2>2. x = m.dest + moved /\ y = m.src + moved /\ x1 = m.dest + (moved + k) /\ y1 = m.src + (moved + k)
    <3>1. x = m.dest + moved /\ y = m.src + moved
      BY <1>1, <1>5, <2>1 DEF Place
    <3>2. x1 = x + k /\ y1 = y + k
      BY <1>5, <2>1 DEF Instruction
    <3> HIDE DEF moved
    <3> QED BY <1>1, <2>1, <3>1, <3>2
  <2>3. ASSUME NEW i \in 0 .. Top - 1
        PROVE  then[i] = IF i - m.dest \in 0 .. (moved + k) - 1 THEN m.src + (i - m.dest) ELSE i
    <3>1. now[i] = IF i - m.dest \in 0 .. moved - 1 THEN m.src + (i - m.dest) ELSE i
      BY <1>5, <2>1 DEF Place, Lies
    <3>2. then[i] = IF i - x \notin 0 .. k - 1 THEN now[i] ELSE now[y + (i - x)]
      BY <1>5, <2>1 DEF Place, Instruction
    <3> HIDE DEF moved
    <3>3. CASE i - x \notin 0 .. k - 1
      <4>1. (i - m.dest \in 0 .. (moved + k) - 1) <=> (i - m.dest \in 0 .. moved - 1)
        BY <1>1, <2>1, <2>2, <3>3
      <4> QED BY <3>1, <3>2, <3>3, <4>1
    <3>4. CASE i - x \in 0 .. k - 1
      <4> DEFINE j == m.src + (i - m.dest)
      <4>1. i - m.dest \in moved .. (moved + k) - 1 /\ y + (i - x) = j /\ i - m.dest \in 0 .. (moved + k) - 1
        BY <1>1, <2>1, <2>2, <3>4
      <4>2. j \in 0 .. Top - 1 /\ j - m.dest \notin 0 .. moved - 1
        BY <1>1, <2>1, <4>1
      <4> HIDE DEF j
      <4>3. now[j] = j
        BY <1>5, <2>1, <4>2 DEF Place, Lies, moved
      <4>4. then[i] = j
        BY <3>2, <3>4, <4>1, <4>3
      <4> QED BY <4>1, <4>4 DEF j
    <3> QED BY <3>3, <3>4
  <2>4. m.length - (r - k) = moved + k
    BY <2>1
  <2> HIDE DEF moved
  <2> QED BY <1>2, <1>3, <1>5, <2>1, <2>2, <2>3, <2>4 DEF Place, Lies
<1> QED BY <1>4, <1>5

LEMMA PlaceTypes ==
    ASSUME NEW m \in Moves, NEW r, NEW x, NEW y, NEW now, Place(m, r, x, y, now)
    PROVE  /\ x \in Nat /\ y \in Nat /\ DOMAIN now = 0 .. Top - 1
           /\ \A i \in 0 .. Top - 1 : now[i] \in {Mem!Fill} \cup 0 .. Top - 1
<1>1. /\ m.dest \in Nat /\ m.src \in Nat /\ m.length \in Nat /\ Top \in Nat
      /\ m.dest + m.length <= Top /\ m.src + m.length <= Top
  BY MoveCalls
<1>2. r \in 0 .. m.length /\ DOMAIN now = 0 .. Top - 1
  BY DEF Place
<1>3. x \in Nat /\ y \in Nat
  BY <1>1, <1>2 DEF Place
<1>4. ASSUME NEW i \in 0 .. Top - 1 PROVE now[i] \in {Mem!Fill} \cup 0 .. Top - 1
  <2>1. now[i] = IF Lies(m, r, i - m.dest)
                 THEN IF m.f = "memset" THEN Mem!Fill ELSE m.src + (i - m.dest)
                 ELSE i
    BY DEF Place
  <2>2. CASE Lies(m, r, i - m.dest)
    <3>1. i - m.dest \in 0 .. m.length - 1
      BY <1>1, <1>2, <2>2 DEF Lies
    <3>2. m.src + (i - m.dest) \in 0 .. Top - 1
      BY <1>1, <3>1
    <3> QED BY <2>1, <2>2, <3>2
  <2>3. CASE ~Lies(m, r, i - m.dest)
    BY <2>1, <2>3
  <2> QED BY <2>2, <2>3
<1> QED BY <1>2, <1>3, <1>4

\* Mem!Move as an instruction.
LEMMA MoveIs ==
    ASSUME NEW k \in Nat, DOMAIN mem = 0 .. Top - 1, Mem!Move(k)
    PROVE  Instruction(call, k, a0, a1, mem, a0', a1', mem')
BY DEF Mem!Move, Mem!To, Mem!From, Mem!Down, Mem!Copies, Instruction, Downward

\* How many bytes are left at each label.
Labels == {"start", "align", "slow", "bytes", "block", "rest", "long", "word", "byte", "done"}
Counted ==
    /\ call \in Moves /\ d0 \in -1 .. Top /\ d1 \in 0 .. Mem!Block - 1
    /\ turn \in 0 .. 7 \cup DOMAIN Pieces /\ label \in Labels
Even(n) == n % 2 = 0
BothEven == Even(a0) /\ (Mem!Copies => Even(a1))
LeftInBlocks == (Mem!Block * d0 - Mem!Moved[turn - 1]) + d1
LeftInLongs == (16 * d0 + 16 - 4 * turn) + (d1 % 4)
Nothing == DOMAIN mem = 0 .. Top - 1 /\ \A i \in 0 .. Top - 1 : mem[i] = i
Placed ==
    /\ label = "start" =>
         a0 = call.dest /\ a1 = call.src /\ d0 = call.length /\ turn = 1 /\ Nothing
    /\ label = "align" => d0 = call.length /\ 0 < d0 /\ turn = 1 /\ At(d0)
    /\ label = "slow" => 0 < d0 /\ turn \in 0 .. 7 /\ At(8 * d0 - turn)
    /\ label = "bytes" => 0 < d0 /\ At(d0)
    /\ label = "block" => 0 < d0 /\ turn \in DOMAIN Pieces /\ At(LeftInBlocks)
    /\ label = "rest" => At(d1)
    /\ label = "long" => 0 <= d0 /\ turn \in 0 .. 3 /\ At(LeftInLongs)
    /\ label = "word" => At(d1 % 4)
    /\ label = "byte" => At(d1 % 2)
    /\ label = "done" => At(0) \/ (call.f = "portable" /\ call.dest = call.src /\ At(call.length))
    /\ label \in {"block", "rest", "long", "word"} => BothEven
MemInv == Counted /\ Placed

LEMMA MemStarts ==
    ASSUME Mem!MemInit
    PROVE  MemInv
<1>1. /\ call \in Moves /\ mem = [i \in 0 .. Top - 1 |-> i] /\ a0 = call.dest /\ a1 = call.src
      /\ d0 = call.length /\ d1 = 0 /\ turn = 1 /\ label = "start"
  BY DEF Mem!MemInit
<1>2. call.length \in Nat /\ call.length <= Top /\ Top \in Nat
  <2>1. /\ call.dest \in Nat /\ call.length \in Nat /\ Top \in Nat /\ call.dest + call.length <= Top
    BY <1>1, MoveCalls
  <2> QED BY <2>1
<1>3. Counted
  BY <1>1, <1>2, BlockFacts DEF Counted, Labels
<1>4. Placed
  BY <1>1 DEF Placed, Nothing
<1> QED BY <1>3, <1>4 DEF MemInv

LEMMA MemStart ==
    ASSUME MemInv, Mem!Start
    PROVE  MemInv'
<1>1. /\ label = "start"
      /\ label' = IF call.length = 0 \/ (call.f = "portable" /\ call.dest = call.src) THEN "done"
                  ELSE IF call.f = "portable" THEN "bytes" ELSE "align"
      /\ a0' = IF Downward(call) THEN a0 + d0 ELSE a0
      /\ a1' = IF call.f # "memset" /\ Downward(call) THEN a1 + d0 ELSE a1
      /\ UNCHANGED <<call, mem, d0, d1, turn>>
  BY DEF Mem!Start, Mem!Down, Mem!Copies, Downward
<1>2. /\ call \in Moves /\ a0 = call.dest /\ a1 = call.src /\ d0 = call.length /\ turn = 1
      /\ DOMAIN mem = 0 .. Top - 1 /\ \A i \in 0 .. Top - 1 : mem[i] = i
  BY <1>1 DEF MemInv, Counted, Placed, Nothing
<1>3. /\ call.dest \in Nat /\ call.src \in Nat /\ call.length \in Nat /\ Top \in Nat
  BY <1>2, MoveCalls
<1>4. label' \in Labels
  BY <1>1 DEF Labels
<1>5. Counted'
  BY <1>1, <1>4 DEF MemInv, Counted
<1>6. Place(call, call.length, a0', a1', mem')
  <2>1. /\ a0' = call.dest + (IF Downward(call) THEN call.length ELSE call.length - call.length)
        /\ a1' = IF call.f = "memset" THEN call.src
                 ELSE call.src + (IF Downward(call) THEN call.length ELSE call.length - call.length)
    BY <1>1, <1>2, <1>3
  <2>2. ASSUME NEW k \in Int PROVE ~Lies(call, call.length, k)
    BY <1>3 DEF Lies
  <2>3. \A i \in 0 .. Top - 1 : i - call.dest \in Int
    BY <1>3
  <2> QED BY <1>1, <1>2, <1>3, <2>1, <2>2, <2>3 DEF Place
<1>7. label' \in {"done", "bytes", "align"}
  BY <1>1
<1>8. label' # "done" => 0 < call.length
  BY <1>1, <1>3
<1>9. label' = "done" =>
        call.length = 0 \/ (call.f = "portable" /\ call.dest = call.src)
  BY <1>1
<1> DEFINE There(r) == Place(call, r, a0', a1', mem')
<1>10. At(d0)' = There(d0) /\ At(0)' = There(0) /\ At(call.length)' = There(call.length)
  BY <1>1 DEF At
<1> HIDE DEF There
<1>11. Placed'
  <2>1. There(call.length)
    BY <1>6 DEF There
  <2> QED BY <1>1, <1>2, <1>7, <1>8, <1>9, <1>10, <2>1 DEF Placed
<1> QED BY <1>5, <1>11 DEF MemInv

\* What the steps that move have in common.
LEMMA MoveOn ==
    ASSUME Counted, NEW r \in Nat, At(r), NEW k \in Nat, k <= r, Mem!Move(k)
    PROVE  Place(call, r - k, a0', a1', mem')
<1>1. call \in Moves
  BY DEF Counted
<1>2. Place(call, r, a0, a1, mem)
  BY DEF At
<1>3. DOMAIN mem = 0 .. Top - 1
  BY <1>1, <1>2, PlaceTypes
<1>4. Instruction(call, k, a0, a1, mem, a0', a1', mem')
  BY <1>3, MoveIs
<1> QED BY <1>1, <1>2, <1>4, InstructionMoves

LEMMA AtFacts ==
    ASSUME Counted, NEW r, At(r)
    PROVE  /\ r \in 0 .. call.length /\ call.length \in Nat /\ call.length <= Top /\ Top \in Nat
           /\ a0 \in Nat /\ a1 \in Nat
<1>1. call \in Moves /\ Place(call, r, a0, a1, mem)
  BY DEF Counted, At
<1>2. /\ call.dest \in Nat /\ call.length \in Nat /\ Top \in Nat /\ call.dest + call.length <= Top
  BY <1>1, MoveCalls
<1>3. r \in 0 .. call.length /\ a0 \in Nat /\ a1 \in Nat
  <2>1. a0 \in Nat /\ a1 \in Nat
    BY <1>1, PlaceTypes
  <2> QED BY <1>1, <2>1 DEF Place
<1> QED BY <1>2, <1>3

LEMMA MemPortable ==
    ASSUME MemInv, Mem!PortableCopy
    PROVE  MemInv'
<1>1. /\ label = "bytes" /\ Mem!Move(1) /\ d0' = d0 - 1
      /\ label' = IF d0 = 1 THEN "done" ELSE "bytes"
      /\ UNCHANGED <<call, d1, turn>>
  BY DEF Mem!PortableCopy
<1>2. Counted /\ 0 < d0 /\ At(d0)
  BY <1>1 DEF MemInv, Placed
<1>3. d0 \in Nat /\ 1 <= d0 /\ d0 <= Top /\ Top \in Nat
  <2>1. d0 \in 0 .. call.length /\ call.length \in Nat /\ call.length <= Top /\ Top \in Nat
    BY <1>2, AtFacts
  <2> QED BY <1>2, <2>1
<1>4. Place(call, d0 - 1, a0', a1', mem')
  BY <1>1, <1>2, <1>3, MoveOn
<1>5. Counted'
  <2>1. label' \in Labels /\ d0' \in -1 .. Top
    BY <1>1, <1>3 DEF Labels
  <2> QED BY <1>1, <1>2, <2>1 DEF Counted
<1>6. At(d0)'
  BY <1>1, <1>4 DEF At
<1>7. label' = "bytes" => 0 < d0'
  BY <1>1, <1>3
<1>8. label' = "done" => At(0)'
  <2>1. label' = "done" => d0 - 1 = 0
    BY <1>1, <1>3
  <2> QED BY <1>1, <1>4, <2>1 DEF At
<1>9. label' \in {"done", "bytes"}
  BY <1>1
<1>10. Placed'
  BY <1>6, <1>7, <1>8, <1>9 DEF Placed
<1> QED BY <1>5, <1>10 DEF MemInv

LEMMA MemSlow ==
    ASSUME MemInv, Mem!SlowCopy
    PROVE  MemInv'
<1>1. /\ label = "slow" /\ Mem!Move(1)
      /\ IF turn < 7 THEN turn' = turn + 1 /\ UNCHANGED <<d0, label>>
         ELSE turn' = 0 /\ d0' = d0 - 1 /\ label' = IF d0 = 1 THEN "done" ELSE "slow"
      /\ UNCHANGED <<call, d1>>
  BY DEF Mem!SlowCopy
<1> DEFINE r == 8 * d0 - turn
<1>2. Counted /\ 0 < d0 /\ turn \in 0 .. 7 /\ At(r)
  BY <1>1 DEF MemInv, Placed
<1>3. d0 \in 1 .. Top /\ Top \in Nat
  <2>1. r \in 0 .. call.length /\ call.length <= Top /\ Top \in Nat
    BY <1>2, AtFacts
  <2>2. d0 \in -1 .. Top
    BY <1>2 DEF Counted
  <2> QED BY <1>2, <2>1, <2>2
<1>4. r \in Nat /\ 1 <= r
  BY <1>2, <1>3
<1>5. Place(call, r - 1, a0', a1', mem')
  <2> HIDE DEF r
  <2> QED BY <1>1, <1>2, <1>4, MoveOn
<1>6. /\ label' \in {"slow", "done"} /\ d0' \in 0 .. Top /\ turn' \in 0 .. 7
      /\ r - 1 = 8 * d0' - turn'
      /\ label' = "slow" => 0 < d0'
      /\ label' = "done" => r - 1 = 0
  <2>1. CASE turn < 7
    BY <1>1, <1>2, <1>3, <2>1
  <2>2. CASE ~(turn < 7)
    BY <1>1, <1>2, <1>3, <2>2
  <2> QED BY <2>1, <2>2
<1>7. Counted'
  <2>1. label' \in Labels /\ d0' \in -1 .. Top /\ turn' \in 0 .. 7 \cup DOMAIN Pieces
    BY <1>3, <1>6 DEF Labels
  <2> QED BY <1>1, <1>2, <2>1 DEF Counted
<1>8. label' = "slow" => At(8 * d0 - turn)'
  <2> HIDE DEF r
  <2> QED BY <1>1, <1>5, <1>6 DEF At
<1>9. label' = "done" => At(0)'
  <2> HIDE DEF r
  <2> QED BY <1>1, <1>5, <1>6 DEF At
<1> HIDE DEF r
<1>10. Placed'
  BY <1>6, <1>8, <1>9 DEF Placed
<1> QED BY <1>7, <1>10 DEF MemInv

\* A copy between an even and an odd address.
LEMMA EightTimes ==
    ASSUME NEW n \in Nat \ {0}
    PROVE  /\ (n + 7) \div 8 \in 1 .. n /\ (-n) % 8 \in 0 .. 7
           /\ 8 * ((n + 7) \div 8) - ((-n) % 8) = n
BY Z3

LEMMA MemMixed ==
    ASSUME MemInv, Mem!Mixed
    PROVE  MemInv'
<1>1. /\ label = "align" /\ d0' = (d0 + 7) \div 8 /\ turn' = (-d0) % 8 /\ label' = "slow"
      /\ UNCHANGED <<mem, a0, a1, call, d1>>
  BY DEF Mem!Mixed, Mem!MoveNothing
<1>2. Counted /\ 0 < d0 /\ At(d0)
  BY <1>1 DEF MemInv, Placed
<1>3. d0 \in Nat \ {0} /\ d0 <= Top /\ Top \in Nat
  <2>1. d0 \in 0 .. call.length /\ call.length \in Nat /\ call.length <= Top /\ Top \in Nat
    BY <1>2, AtFacts
  <2> QED BY <1>2, <2>1
<1>4. d0' \in 1 .. d0 /\ turn' \in 0 .. 7 /\ 8 * d0' - turn' = d0
  BY <1>1, <1>3, EightTimes
<1>5. Counted'
  <2>1. label' \in Labels /\ d0' \in -1 .. Top /\ turn' \in 0 .. 7 \cup DOMAIN Pieces
    BY <1>1, <1>3, <1>4 DEF Labels
  <2> QED BY <1>1, <1>2, <2>1 DEF Counted
<1>6. At(8 * d0 - turn)'
  BY <1>1, <1>2, <1>4 DEF At
<1>7. 0 < d0'
  BY <1>3, <1>4
<1>8. Placed'
  BY <1>1, <1>4, <1>6, <1>7 DEF Placed
<1> QED BY <1>5, <1>8 DEF MemInv

LEMMA Divides ==
    ASSUME NEW n \in Nat, NEW w \in Nat \ {0}
    PROVE  /\ n \div w \in Nat /\ n \div w <= n /\ n % w \in 0 .. w - 1
           /\ w * (n \div w) + (n % w) = n
           /\ n >= w => n \div w >= 1
           /\ n < w => n % w = n
<1> DEFINE q == n \div w
           r == n % w
<1>1. q \in Int /\ r \in 0 .. w - 1 /\ n = w * q + r
  BY Z3
<1> HIDE DEF q, r
<1>2. q \in Nat
  <2> SUFFICES ASSUME q <= -1 PROVE FALSE
    BY <1>1
  <2>1. w * q <= -w
    <3>1. w * (-1 - q) >= 0 /\ w * (-1 - q) = -w - w * q
      BY <1>1, Z3
    <3> QED BY <1>1, <3>1
  <2> QED BY <1>1, <2>1
<1>3. q <= w * q
  <2>1. (w - 1) * q >= 0 /\ (w - 1) * q = w * q - q
    BY <1>2, Z3
  <2> QED BY <1>2, <2>1
<1>4. q <= n
  BY <1>1, <1>2, <1>3
<1>5. q = 0 => n = r
  BY <1>1
<1>6. n >= w => q >= 1
  BY <1>1, <1>2, <1>5
<1>7. n < w => r = n
  <2> SUFFICES ASSUME n < w, q >= 1 PROVE FALSE
    BY <1>2, <1>5
  <2>1. w * q >= w
    <3>1. w * (q - 1) >= 0 /\ w * (q - 1) = w * q - w
      BY <1>1, Z3
    <3> QED BY <1>1, <3>1
  <2> QED BY <1>1, <2>1
<1> QED BY <1>1, <1>2, <1>4, <1>6, <1>7 DEF q, r

\* The addresses stay even when an even number of bytes moves.
LEMMA StaysEven ==
    ASSUME Counted, NEW r, At(r), BothEven, NEW k \in Nat, k % 2 = 0, Mem!Move(k), call' = call
    PROVE  BothEven'
<1>1. a0 \in Nat /\ a1 \in Nat
  BY AtFacts
<1>2. a0' = (IF Mem!Down THEN a0 - k ELSE a0 + k)
      /\ a1' = (IF ~Mem!Copies THEN a1 ELSE IF Mem!Down THEN a1 - k ELSE a1 + k)
  BY DEF Mem!Move
<1>3. a0 % 2 = 0 /\ (Mem!Copies => a1 % 2 = 0)
  BY DEF BothEven, Even
<1>4. a0' % 2 = 0
  BY <1>1, <1>2, <1>3
<1>5. Mem!Copies => a1' % 2 = 0
  BY <1>1, <1>2, <1>3
<1>6. Mem!Copies' = Mem!Copies
  BY DEF Mem!Copies
<1> QED BY <1>4, <1>5, <1>6 DEF BothEven, Even

LEMMA MemAlign ==
    ASSUME MemInv, Mem!Align
    PROVE  MemInv'
<1> DEFINE odd == a0 % 2
           n == d0 - odd
<1>1. /\ label = "align" /\ (Mem!Copies => odd = a1 % 2)
      /\ IF odd = 1 THEN Mem!Move(1) ELSE UNCHANGED <<mem, a0, a1>>
      /\ d0' = n \div Mem!Block /\ d1' = n % Mem!Block
      /\ label' = IF n >= Mem!Block THEN "block" ELSE "rest"
      /\ UNCHANGED <<call, turn>>
  BY DEF Mem!Align, Mem!MoveNothing
<1>2. Counted /\ 0 < d0 /\ At(d0) /\ turn = 1
  BY <1>1 DEF MemInv, Placed
<1>3. d0 \in Nat \ {0} /\ d0 <= Top /\ Top \in Nat /\ a0 \in Nat /\ a1 \in Nat
  <2>1. d0 \in 0 .. call.length /\ call.length \in Nat /\ call.length <= Top /\ Top \in Nat
        /\ a0 \in Nat /\ a1 \in Nat
    BY <1>2, AtFacts
  <2> QED BY <1>2, <2>1
<1>4. odd \in 0 .. 1 /\ n \in Nat /\ n <= d0
  BY <1>3
<1>5. Place(call, n, a0', a1', mem') /\ BothEven'
  <2>1. CASE odd = 1
    <3>1. Mem!Move(1) /\ d0 \in Nat /\ 1 \in Nat /\ 1 <= d0
      BY <1>1, <1>3, <2>1
    <3>2. Place(call, d0 - 1, a0', a1', mem')
      BY <1>2, <3>1, MoveOn
    <3>3. /\ a0' = (IF Mem!Down THEN a0 - 1 ELSE a0 + 1)
          /\ a1' = (IF ~Mem!Copies THEN a1 ELSE IF Mem!Down THEN a1 - 1 ELSE a1 + 1)
      BY <3>1 DEF Mem!Move
    <3>4. a0' % 2 = 0
      BY <1>3, <2>1, <3>3
    <3>5. Mem!Copies => a1' % 2 = 0
      BY <1>1, <1>3, <2>1, <3>3
    <3>6. Mem!Copies' = Mem!Copies
      BY <1>1 DEF Mem!Copies
    <3> QED BY <2>1, <3>2, <3>4, <3>5, <3>6 DEF BothEven, Even
  <2>2. CASE odd # 1
    <3>1. odd = 0 /\ n = d0
      BY <1>3, <1>4, <2>2
    <3>2. Mem!Copies' = Mem!Copies /\ UNCHANGED <<mem, a0, a1>>
      BY <1>1, <2>2 DEF Mem!Copies
    <3>3. Place(call, d0, a0, a1, mem)
      BY <1>2 DEF At
    <3>4. Place(call, n, a0', a1', mem')
      BY <3>1, <3>2, <3>3
    <3> HIDE DEF n
    <3> QED BY <1>1, <3>1, <3>2, <3>4 DEF BothEven, Even
  <2> QED BY <2>1, <2>2
<1> HIDE DEF n, odd
<1> DEFINE w == Mem!Block
<1>6. w \in Nat \ {0} /\ Mem!Moved[0] = 0 /\ Len(Pieces) \in Nat \ {0}
  BY BlockFacts
<1> HIDE DEF w
<1>7. /\ n \div w \in Nat /\ n \div w <= n /\ n % w \in 0 .. w - 1
      /\ w * (n \div w) + (n % w) = n
      /\ n >= w => n \div w >= 1
      /\ n < w => n % w = n
  BY <1>4, <1>6, Divides
<1>8. /\ label' \in {"block", "rest"} /\ d0' \in 0 .. Top /\ d1' \in 0 .. w - 1
      /\ w * d0' + d1' = n
      /\ label' = "block" => 0 < d0'
      /\ label' = "rest" => d1' = n
  <2>1. label' = (IF n >= w THEN "block" ELSE "rest") /\ d0' = n \div w /\ d1' = n % w
    BY <1>1 DEF w
  <2>2. d0' \in 0 .. Top
    BY <1>3, <1>4, <1>7, <2>1
  <2>3. n >= w \/ n < w
    BY <1>4, <1>6
  <2> QED BY <1>7, <2>1, <2>2, <2>3
<1>9. Counted'
  <2>1. label' \in Labels /\ d0' \in -1 .. Top
    BY <1>3, <1>8 DEF Labels
  <2>2. Mem!Block' = Mem!Block
    BY DEF Mem!Block, Mem!Moved
  <2> QED BY <1>1, <1>2, <1>8, <2>1, <2>2 DEF Counted, w
<1>10. turn' = 1 /\ turn' \in DOMAIN Pieces /\ turn' - 1 = 0
  <2>1. DOMAIN Pieces = 1 .. Len(Pieces)
    BY UtilitiesAssumption DEF Mem!MemoryAssumption
  <2> QED BY <1>1, <1>2, <1>6, <2>1
<1>11. LeftInBlocks' = n
  <2>1. LeftInBlocks' = (w * d0' - Mem!Moved[turn' - 1]) + d1'
    BY DEF LeftInBlocks, w
  <2>2. w * d0' \in Int
    BY <1>6, <1>8
  <2>3. (w * d0' - 0) + d1' = n
    BY <1>8, <2>2
  <2> QED BY <1>6, <1>10, <2>1, <2>3
<1>12. At(LeftInBlocks)' /\ (label' = "rest" => At(d1)')
  BY <1>1, <1>5, <1>8, <1>11 DEF At
<1>13. Placed'
  BY <1>5, <1>8, <1>10, <1>12 DEF Placed
<1> QED BY <1>9, <1>13 DEF MemInv

LEMMA PiecesAre == DOMAIN Pieces = 1 .. Len(Pieces) /\ Len(Pieces) \in Nat
BY UtilitiesAssumption DEF Mem!MemoryAssumption

LEMMA EvenFour ==
    ASSUME NEW k \in Nat, k % 4 = 0
    PROVE  k % 2 = 0
OBVIOUS

LEMMA MemBlock ==
    ASSUME MemInv, Mem!MoveBlock
    PROVE  MemInv'
<1> DEFINE k == Pieces[turn]
           w == Mem!Block
           r == (w * d0 - Mem!Moved[turn - 1]) + d1
<1>1. /\ label = "block" /\ Mem!Move(k)
      /\ IF turn < Len(Pieces) THEN turn' = turn + 1 /\ UNCHANGED <<d0, label>>
         ELSE turn' = 1 /\ d0' = d0 - 1 /\ label' = IF d0 = 1 THEN "rest" ELSE "block"
      /\ UNCHANGED <<call, d1>>
  BY DEF Mem!MoveBlock
<1>2. Counted /\ 0 < d0 /\ turn \in 1 .. Len(Pieces) /\ At(r) /\ BothEven
  BY <1>1, PiecesAre DEF MemInv, Placed, LeftInBlocks
<1>3. /\ w \in Nat \ {0} /\ Mem!Moved[0] = 0 /\ Mem!Moved[Len(Pieces)] = w
      /\ k \in Nat \ {0} /\ k % 4 = 0 /\ Mem!Moved[turn - 1] \in Nat
      /\ Mem!Moved[turn] = Mem!Moved[turn - 1] + k /\ Mem!Moved[turn] <= w
      /\ Len(Pieces) \in Nat \ {0}
  BY <1>2, BlockFacts
<1>4. d0 \in 1 .. Top /\ d1 \in 0 .. w - 1 /\ Top \in Int
  <2>1. d0 \in -1 .. Top /\ d1 \in 0 .. w - 1
    BY <1>2 DEF Counted
  <2>2. Top \in Nat
    BY UtilitiesAssumption DEF Mem!MemoryAssumption
  <2> QED BY <1>2, <2>1, <2>2
<1> DEFINE before == Mem!Moved[turn - 1]
           here == Mem!Moved[turn]
<1> HIDE DEF w, k, before, here
<1>5. w * d0 \in Nat /\ w <= w * d0 /\ w * (d0 - 1) = w * d0 - w
  <2>1. d0 \in Nat /\ d0 - 1 \in Nat
    BY <1>4
  <2>2. w * d0 \in Nat /\ w * (d0 - 1) \in Nat
    BY <1>3, <2>1
  <2>3. w * (d0 - 1) = w * d0 - w
    BY <1>3, <2>1, Z3
  <2> QED BY <1>3, <2>2, <2>3
<1>6. before \in Nat /\ here = before + k /\ here <= w /\ r = (w * d0 - before) + d1
  BY <1>3 DEF before, here
<1>7. r \in Nat /\ k <= r /\ k \in Nat
  <2> HIDE DEF r
  <2>1. r \in Int
    BY <1>3, <1>4, <1>5, <1>6
  <2>2. k <= r
    BY <1>3, <1>4, <1>5, <1>6
  <2> QED BY <1>3, <2>1, <2>2
<1>8. Place(call, r - k, a0', a1', mem')
  <2> HIDE DEF r
  <2>1. Counted /\ r \in Nat /\ At(r) /\ k \in Nat /\ k <= r /\ Mem!Move(k)
    BY <1>1, <1>2, <1>7
  <2> QED BY <2>1, MoveOn
<1>9. BothEven'
  <2> HIDE DEF r
  <2>1. k \in Nat /\ k % 2 = 0
    BY <1>3, EvenFour
  <2>2. Counted /\ At(r) /\ BothEven /\ k \in Nat /\ k % 2 = 0 /\ Mem!Move(k) /\ call' = call
    BY <1>1, <1>2, <2>1
  <2> QED BY <2>2, StaysEven
<1>10. r - k = (w * d0 - here) + d1
  <2> HIDE DEF r
  <2> QED BY <1>3, <1>4, <1>5, <1>6
<1> HIDE DEF r
<1>11. CASE turn < Len(Pieces)
  <2>1. turn' = turn + 1 /\ d0' = d0 /\ label' = label /\ call' = call /\ d1' = d1
    BY <1>1, <1>11
  <2>2. turn' \in DOMAIN Pieces /\ turn' - 1 = turn
    BY <1>2, <1>3, <1>11, <2>1, PiecesAre
  <2>3. LeftInBlocks' = (w * d0 - here) + d1
    BY <2>1, <2>2 DEF LeftInBlocks, w, here, Mem!Block, Mem!Moved
  <2>4. At(LeftInBlocks)'
    BY <1>8, <1>10, <2>1, <2>3 DEF At
  <2>5. Counted'
    BY <1>2, <2>1, <2>2 DEF Counted, Mem!Block, Mem!Moved
  <2>6. Placed'
    BY <1>1, <1>2, <1>9, <2>1, <2>2, <2>4 DEF Placed
  <2> QED BY <2>5, <2>6 DEF MemInv
<1>12. CASE ~(turn < Len(Pieces))
  <2>1. turn' = 1 /\ d0' = d0 - 1 /\ label' = (IF d0 = 1 THEN "rest" ELSE "block") /\ call' = call /\ d1' = d1
    BY <1>1, <1>12
  <2>2. turn = Len(Pieces) /\ here = w
    BY <1>2, <1>3, <1>12 DEF here
  <2>3. turn' \in DOMAIN Pieces /\ turn' - 1 = 0 /\ turn' \in 0 .. 7
    BY <1>3, <2>1, PiecesAre
  <2>4. r - k = (w * (d0 - 1) - 0) + d1 /\ w * (d0 - 1) \in Int
    BY <1>3, <1>4, <1>5, <1>10, <2>2
  <2>5. LeftInBlocks' = (w * d0' - Mem!Moved[turn' - 1]) + d1'
    BY DEF LeftInBlocks, w, Mem!Block, Mem!Moved
  <2>6. LeftInBlocks' = r - k
    BY <1>3, <2>1, <2>3, <2>4, <2>5
  <2>7. At(LeftInBlocks)'
    BY <1>8, <2>1, <2>6 DEF At
  <2>8. label' = "rest" => At(d1)'
    <3>1. ASSUME label' = "rest" PROVE r - k = d1
      <4>1. d0 = 1
        BY <2>1, <3>1
      <4>2. w * (d0 - 1) = 0
        BY <1>3, <4>1
      <4> QED BY <1>4, <2>4, <4>2
    <3> QED BY <1>8, <2>1, <3>1 DEF At
  <2>9. Counted'
    <3>1. label' \in Labels /\ d0' \in -1 .. Top
      BY <1>4, <2>1 DEF Labels
    <3> QED BY <1>2, <2>1, <2>3, <3>1 DEF Counted, Mem!Block, Mem!Moved
  <2>10. label' \in {"rest", "block"} /\ (label' = "block" => 0 < d0')
    BY <1>4, <2>1
  <2>11. Placed'
    BY <1>9, <2>3, <2>7, <2>8, <2>10 DEF Placed
  <2> QED BY <2>9, <2>11 DEF MemInv
<1> QED BY <1>11, <1>12

\* less256.
LEMMA LongsLeft ==
    ASSUME NEW d \in Nat
    PROVE  /\ d \div 4 \in 0 .. d
           /\ d \div 4 = 0 => d % 4 = d
           /\ d \div 4 # 0 =>
                /\ (d \div 4 - 1) \div 4 \in 0 .. d /\ (-(d \div 4)) % 4 \in 0 .. 3
                /\ (16 * ((d \div 4 - 1) \div 4) + 16 - 4 * ((-(d \div 4)) % 4)) + (d % 4) = d
BY Z3

LEMMA MemRest ==
    ASSUME MemInv, Mem!Rest
    PROVE  MemInv'
<1> DEFINE n == d1 \div 4
<1>1. /\ label = "rest" /\ UNCHANGED <<call, mem, a0, a1, d1>>
      /\ IF n = 0 THEN label' = "word" /\ UNCHANGED <<d0, turn>>
         ELSE d0' = (n - 1) \div 4 /\ turn' = (-n) % 4 /\ label' = "long"
  BY DEF Mem!Rest, Mem!Skipped
<1>2. Counted /\ At(d1) /\ BothEven
  BY <1>1 DEF MemInv, Placed
<1>3. d1 \in Nat /\ d1 <= Top /\ Top \in Nat
  <2>1. d1 \in 0 .. call.length /\ call.length \in Nat /\ call.length <= Top /\ Top \in Nat
    BY <1>2, AtFacts
  <2> QED BY <2>1
<1>4. BothEven'
  BY <1>1, <1>2 DEF BothEven, Even, Mem!Copies
<1>5. CASE n = 0
  <2>1. label' = "word" /\ d0' = d0 /\ turn' = turn /\ d1 % 4 = d1
    BY <1>1, <1>3, <1>5, LongsLeft
  <2>2. At(d1 % 4)'
    BY <1>1, <1>2, <2>1 DEF At
  <2>3. Counted'
    BY <1>1, <1>2, <2>1 DEF Counted, Labels, Mem!Block, Mem!Moved
  <2>4. Placed'
    BY <1>4, <2>1, <2>2 DEF Placed
  <2> QED BY <2>3, <2>4 DEF MemInv
<1>6. CASE n # 0
  <2>1. label' = "long" /\ d0' = (n - 1) \div 4 /\ turn' = (-n) % 4
    BY <1>1, <1>6
  <2>2. d0' \in 0 .. d1 /\ turn' \in 0 .. 3 /\ (16 * d0' + 16 - 4 * turn') + (d1 % 4) = d1
    BY <1>3, <1>6, <2>1, LongsLeft
  <2>3. d0' \in -1 .. Top /\ turn' \in 0 .. 7 /\ 0 <= d0'
    BY <1>3, <2>2
  <2>4. At(LeftInLongs)'
    BY <1>1, <1>2, <2>2 DEF At, LeftInLongs
  <2>5. Counted'
    BY <1>1, <1>2, <2>1, <2>3 DEF Counted, Labels, Mem!Block, Mem!Moved
  <2>6. Placed'
    BY <1>4, <2>1, <2>2, <2>3, <2>4 DEF Placed
  <2> QED BY <2>5, <2>6 DEF MemInv
<1> QED BY <1>5, <1>6

LEMMA MemLong ==
    ASSUME MemInv, Mem!MoveLong
    PROVE  MemInv'
<1> DEFINE s == d1 % 4
           r == (16 * d0 + 16 - 4 * turn) + s
<1>1. /\ label = "long" /\ Mem!Move(4)
      /\ IF turn < 3 THEN turn' = turn + 1 /\ UNCHANGED <<d0, label>>
         ELSE turn' = 0 /\ d0' = d0 - 1 /\ label' = IF d0 = 0 THEN "word" ELSE "long"
      /\ UNCHANGED <<call, d1>>
  BY DEF Mem!MoveLong
<1>2. Counted /\ 0 <= d0 /\ turn \in 0 .. 3 /\ At(r) /\ BothEven
  BY <1>1 DEF MemInv, Placed, LeftInLongs
<1>3. d0 \in 0 .. Top /\ s \in 0 .. 3 /\ Top \in Nat
  <2>1. d0 \in -1 .. Top /\ d1 \in 0 .. Mem!Block - 1
    BY <1>2 DEF Counted
  <2>2. Top \in Nat /\ Mem!Block \in Nat
    BY UtilitiesAssumption, BlockFacts DEF Mem!MemoryAssumption
  <2> QED BY <1>2, <2>1, <2>2
<1> HIDE DEF s
<1>4. r \in Nat /\ 4 <= r
  BY <1>2, <1>3
<1>5. Place(call, r - 4, a0', a1', mem') /\ BothEven'
  <2> HIDE DEF r
  <2>1. Counted /\ r \in Nat /\ At(r) /\ 4 \in Nat /\ 4 <= r /\ Mem!Move(4) /\ BothEven
        /\ call' = call /\ 4 % 2 = 0
    BY <1>1, <1>2, <1>4
  <2> QED BY <2>1, MoveOn, StaysEven
<1>6. /\ label' \in {"long", "word"} /\ d0' \in -1 .. Top /\ turn' \in 0 .. 3
      /\ r - 4 = (16 * d0' + 16 - 4 * turn') + s
      /\ label' = "long" => 0 <= d0'
      /\ label' = "word" => r - 4 = s
  <2>1. CASE turn < 3
    BY <1>1, <1>2, <1>3, <2>1
  <2>2. CASE ~(turn < 3)
    BY <1>1, <1>2, <1>3, <2>2
  <2> QED BY <2>1, <2>2
<1>7. Counted'
  <2>1. label' \in Labels /\ turn' \in 0 .. 7
    BY <1>6 DEF Labels
  <2> QED BY <1>1, <1>2, <1>6, <2>1 DEF Counted, Mem!Block, Mem!Moved
<1> HIDE DEF r
<1>8. At(LeftInLongs)' /\ (label' = "word" => At(d1 % 4)')
  BY <1>1, <1>5, <1>6 DEF At, LeftInLongs, s
<1>9. Placed'
  BY <1>5, <1>6, <1>8 DEF Placed
<1> QED BY <1>7, <1>9 DEF MemInv

LEMMA WordsLeft ==
    ASSUME NEW d \in Nat
    PROVE  /\ d % 4 \in 0 .. 3 /\ d % 2 \in 0 .. 1
           /\ (d \div 2) % 2 = 1 => d % 4 = 2 + (d % 2)
           /\ (d \div 2) % 2 # 1 => d % 4 = d % 2
BY Z3

LEMMA MemWord ==
    ASSUME MemInv, Mem!MoveWord
    PROVE  MemInv'
<1>1. /\ label = "word" /\ label' = "byte" /\ UNCHANGED <<call, d0, d1, turn>>
      /\ IF (d1 \div 2) % 2 = 1 THEN Mem!Move(2) ELSE UNCHANGED <<mem, a0, a1>>
  BY DEF Mem!MoveWord, Mem!MoveNothing
<1>2. Counted /\ At(d1 % 4)
  BY <1>1 DEF MemInv, Placed
<1>3. d1 \in Nat
  BY <1>2, BlockFacts DEF Counted
<1>4. At(d1 % 2)'
  <2>1. CASE (d1 \div 2) % 2 = 1
    <3> DEFINE r == d1 % 4
    <3>1. r = 2 + (d1 % 2) /\ r \in Nat /\ d1 % 2 \in Nat
      BY <1>3, <2>1, WordsLeft
    <3>2. At(r) /\ Mem!Move(2) /\ Counted
      BY <1>1, <1>2, <2>1
    <3> HIDE DEF r
    <3>3. r \in Nat /\ 2 \in Nat /\ 2 <= r /\ r - 2 = d1 % 2
      BY <3>1
    <3>4. Place(call, r - 2, a0', a1', mem')
      BY <3>2, <3>3, MoveOn
    <3> QED BY <1>1, <3>3, <3>4 DEF At
  <2>2. CASE (d1 \div 2) % 2 # 1
    <3>1. d1 % 4 = d1 % 2
      BY <1>3, <2>2, WordsLeft
    <3> QED BY <1>1, <1>2, <2>2, <3>1 DEF At
  <2> QED BY <2>1, <2>2
<1>5. Counted'
  BY <1>1, <1>2 DEF Counted, Labels, Mem!Block, Mem!Moved
<1>6. Placed'
  BY <1>1, <1>4 DEF Placed
<1> QED BY <1>5, <1>6 DEF MemInv

LEMMA MemByte ==
    ASSUME MemInv, Mem!MoveByte
    PROVE  MemInv'
<1>1. /\ label = "byte" /\ label' = "done" /\ UNCHANGED <<call, d0, d1, turn>>
      /\ IF d1 % 2 = 1 THEN Mem!Move(1) ELSE UNCHANGED <<mem, a0, a1>>
  BY DEF Mem!MoveByte, Mem!MoveNothing
<1>2. Counted /\ At(d1 % 2)
  BY <1>1 DEF MemInv, Placed
<1>3. d1 \in Nat /\ d1 % 2 \in 0 .. 1
  BY <1>2, BlockFacts DEF Counted
<1>4. At(0)'
  <2>1. CASE d1 % 2 = 1
    <3> DEFINE r == d1 % 2
    <3>1. At(r) /\ Mem!Move(1) /\ Counted /\ r = 1
      BY <1>1, <1>2, <2>1
    <3> HIDE DEF r
    <3>2. r \in Nat /\ 1 \in Nat /\ 1 <= r /\ r - 1 = 0
      BY <3>1
    <3>3. Place(call, r - 1, a0', a1', mem')
      BY <3>1, <3>2, MoveOn
    <3> QED BY <1>1, <3>2, <3>3 DEF At
  <2>2. CASE d1 % 2 # 1
    <3>1. d1 % 2 = 0
      BY <1>3, <2>2
    <3> QED BY <1>1, <1>2, <2>2, <3>1 DEF At
  <2> QED BY <2>1, <2>2
<1>5. Counted'
  BY <1>1, <1>2 DEF Counted, Labels, Mem!Block, Mem!Moved
<1>6. Placed'
  BY <1>1, <1>4 DEF Placed
<1> QED BY <1>5, <1>6 DEF MemInv

LEMMA MemSteps ==
    ASSUME MemInv, [Mem!MemNext]_memVars
    PROVE  MemInv'
<1>1. CASE UNCHANGED memVars
  BY <1>1 DEF memVars, MemInv, Counted, Placed, At, BothEven, Even, LeftInBlocks, LeftInLongs,
              Nothing, Mem!Block, Mem!Moved, Mem!Copies
<1>2. CASE Mem!MemNext
  BY <1>2, MemStart, MemPortable, MemSlow, MemMixed, MemAlign, MemBlock, MemRest, MemLong,
     MemWord, MemByte
     DEF Mem!MemNext, Mem!memmove, Mem!memset, Mem!portable_memmove, Mem!LastBytes
<1> QED BY <1>1, <1>2

LEMMA MemTypes ==
    ASSUME MemInv
    PROVE  Mem!MemTypeOK
<1>1. Counted /\ call \in Moves
  BY DEF MemInv, Counted
<1>2. a0 \in Nat /\ a1 \in Nat /\ DOMAIN mem = 0 .. Top - 1
      /\ \A i \in 0 .. Top - 1 : mem[i] \in {Mem!Fill} \cup 0 .. Top - 1
  <2>1. CASE label = "start"
    <3>1. /\ a0 = call.dest /\ a1 = call.src /\ DOMAIN mem = 0 .. Top - 1
          /\ \A i \in 0 .. Top - 1 : mem[i] = i
      BY <2>1 DEF MemInv, Placed, Nothing
    <3> QED BY <1>1, <3>1, MoveCalls
  <2>2. CASE label # "start"
    <3>1. label \in Labels
      BY <1>1 DEF Counted
    <3>2. \/ At(d0) \/ At(8 * d0 - turn) \/ At(LeftInBlocks) \/ At(d1)
          \/ At(LeftInLongs) \/ At(d1 % 4) \/ At(d1 % 2) \/ At(0) \/ At(call.length)
      BY <2>2, <3>1 DEF MemInv, Placed, Labels
    <3>3. \E r : At(r)
      BY <3>2
    <3>4. PICK r : Place(call, r, a0, a1, mem)
      BY <3>3 DEF At
    <3> QED BY <1>1, <3>4, PlaceTypes
  <2> QED BY <2>1, <2>2
<1> QED BY <1>1, <1>2 DEF Counted, Labels, Mem!MemTypeOK

LEMMA MemSound ==
    ASSUME MemInv
    PROVE  Mem!MemTypeOK /\ Mem!MovesWhole /\ Mem!AccessAligned
<1>1. Mem!AccessAligned
  BY DEF MemInv, Placed, BothEven, Even, Mem!AccessAligned
<1>2. ASSUME label = "done" PROVE Mem!MovesWhole
  <2>1. /\ call \in Moves
        /\ At(0) \/ (call.f = "portable" /\ call.dest = call.src /\ At(call.length))
    BY <1>2 DEF MemInv, Counted, Placed
  <2>2. call.dest \in Nat /\ call.src \in Nat /\ call.length \in Nat /\ Top \in Nat
    BY <2>1, MoveCalls
  <2>3. CASE At(0)
    <3>1. /\ a0 = call.dest + (IF Downward(call) THEN 0 ELSE call.length - 0)
          /\ DOMAIN mem = 0 .. Top - 1
          /\ \A i \in 0 .. Top - 1 :
               mem[i] = IF Lies(call, 0, i - call.dest)
                        THEN IF call.f = "memset" THEN Mem!Fill ELSE call.src + (i - call.dest)
                        ELSE i
      BY <2>3 DEF At, Place
    <3>2. \A k \in Int : Lies(call, 0, k) <=> k \in 0 .. call.length - 1
      BY <2>2 DEF Lies
    <3>3. \A i \in 0 .. Top - 1 : i - call.dest \in Int
      BY <2>2
    <3>4. call.f = "memset" => a0 = call.dest
      BY <2>2, <3>1 DEF Downward
    <3> QED BY <3>1, <3>2, <3>3, <3>4 DEF Mem!MovesWhole, Mem!Copies
  <2>4. CASE call.f = "portable" /\ call.dest = call.src /\ At(call.length)
    <3>1. /\ DOMAIN mem = 0 .. Top - 1
          /\ \A i \in 0 .. Top - 1 :
               mem[i] = IF Lies(call, call.length, i - call.dest)
                        THEN IF call.f = "memset" THEN Mem!Fill ELSE call.src + (i - call.dest)
                        ELSE i
      BY <2>4 DEF At, Place
    <3>2. ASSUME NEW i \in 0 .. Top - 1
          PROVE  mem[i] = i /\ call.src + (i - call.dest) = i
      <4>1. i - call.dest \in Int /\ call.src + (i - call.dest) = i
        BY <2>2, <2>4
      <4> QED BY <2>4, <3>1, <4>1
    <3> QED BY <2>4, <3>1, <3>2 DEF Mem!MovesWhole, Mem!Copies
  <2> QED BY <2>1, <2>3, <2>4
<1>3. label # "done" => Mem!MovesWhole
  BY DEF Mem!MovesWhole
<1> QED BY <1>1, <1>2, <1>3, MemTypes

\* memmove and memset move all that they are asked to and nothing else, for every
\* call, however the areas overlap, and touch no word at an odd address.
THEOREM MovesAlwaysWhole == UtilitiesSpec => []MovesWhole
<1>1. UtilitiesInit => MemInv
  BY PartsStart, MemStarts
<1>2. MemInv /\ [UtilitiesNext]_utilityVars => MemInv'
  BY PartsStep, MemSteps
<1>3. MemInv => MovesWhole
  BY MemSound DEF MovesWhole
<1> QED BY <1>1, <1>2, <1>3, PTL DEF UtilitiesSpec

-----------------------------------------------------------------------------
(* Getcookie.                                                              *)

\* The jar ends with its only entry of no name; Getcookie has not met the cookie so
\* far, and has found the first of its name or none.
JarShape ==
    jar # <<>> =>
        /\ 2 <= Len(jar) /\ jar[Len(jar)].name = 0
        /\ \A i \in 1 .. Len(jar) - 1 : jar[i].name # 0 /\ jar[i].value \in Values
Walks ==
    walk = "walk" =>
        /\ jar # <<>> /\ at \in 1 .. Len(jar) - 1 /\ ~found /\ value = 0
        /\ \A i \in 1 .. at - 1 : jar[i].name # cookie
Answers ==
    walk = "done" =>
        IF found
        THEN \E i \in 1 .. Len(jar) : jar # <<>> /\ jar[i].name = cookie /\ value = jar[i].value
               /\ \A k \in 1 .. i - 1 : jar[k].name # cookie
        ELSE value = 0 /\ (jar # <<>> => \A i \in 1 .. Len(jar) - 1 : jar[i].name # cookie)
JarInv ==
    /\ jar \in Seq(Jar!Entry \cup {Jar!End}) /\ walk \in {"idle", "walk", "done"}
    /\ cookie \in Names \cup {0} /\ found \in BOOLEAN /\ value \in Values \cup {0}
    /\ JarShape /\ Walks /\ Answers

LEMMA Entries ==
    /\ 0 \notin Names /\ Values \subseteq Nat /\ Jar!End.name = 0
    /\ \A e \in Jar!Entry : e.name \in Names /\ e.name # 0 /\ e.value \in Values
BY UtilitiesAssumption DEF Jar!CookiesAssumption, Jar!Entry, Jar!End, Jar!Zero

LEMMA JarStarts ==
    ASSUME Jar!Init
    PROVE  JarInv
<1>1. /\ walk = "idle" /\ cookie = 0 /\ found = FALSE /\ value = 0
      /\ jar \in {<<>>} \cup {<<e, Jar!End>> : e \in Jar!Entry}
  BY DEF Jar!Init, Jar!Zero
<1>2. jar \in Seq(Jar!Entry \cup {Jar!End}) /\ JarShape
  <2>1. CASE jar = <<>>
    BY <2>1 DEF JarShape
  <2>2. CASE jar # <<>>
    <3>1. PICK e \in Jar!Entry : jar = <<e, Jar!End>>
      BY <1>1, <2>2
    <3>2. jar \in Seq(Jar!Entry \cup {Jar!End}) /\ Len(jar) = 2 /\ jar[1] = e /\ jar[2] = Jar!End
      BY <3>1
    <3>3. 1 .. Len(jar) - 1 = {1}
      BY <3>2
    <3> QED BY <3>2, <3>3, Entries DEF JarShape
  <2> QED BY <2>1, <2>2
<1>3. found \in BOOLEAN
  BY <1>1
<1> QED BY <1>1, <1>2, <1>3 DEF JarInv, Walks, Answers

LEMMA JarInstall ==
    ASSUME JarInv, NEW e \in Jar!Entry, Jar!Install(e)
    PROVE  JarInv'
<1>1. /\ jar # <<>> /\ jar' = Append([jar EXCEPT ![Len(jar)] = e], Jar!End)
      /\ walk' = "idle" /\ UNCHANGED <<cookie, at, found, value>>
  BY DEF Jar!Install
<1> DEFINE E == Jar!Entry \cup {Jar!End}
           full == [jar EXCEPT ![Len(jar)] = e]
<1>2. jar \in Seq(E) /\ 2 <= Len(jar) /\ Len(jar) \in Nat
      /\ \A i \in 1 .. Len(jar) - 1 : jar[i].name # 0 /\ jar[i].value \in Values
  BY <1>1 DEF JarInv, JarShape
<1>3. e \in E
  OBVIOUS
<1>4. /\ full \in Seq(E) /\ Len(full) = Len(jar)
      /\ \A i \in 1 .. Len(jar) : full[i] = IF i = Len(jar) THEN e ELSE jar[i]
  <2> HIDE DEF E
  <2> QED BY <1>2, <1>3
<1> HIDE DEF full
<1> DEFINE new == Append(full, Jar!End)
<1>5. /\ new \in Seq(E) /\ Len(new) = Len(jar) + 1 /\ new[Len(jar) + 1] = Jar!End
      /\ \A i \in 1 .. Len(jar) : new[i] = full[i]
  <2>1. Jar!End \in E
    OBVIOUS
  <2> HIDE DEF E
  <2> QED BY <1>2, <1>4, <2>1
<1> HIDE DEF new
<1>6. jar' = new
  BY <1>1 DEF new, full
<1>7. ASSUME NEW i \in 1 .. Len(new) - 1 PROVE new[i].name # 0 /\ new[i].value \in Values
  <2>1. i \in 1 .. Len(jar) /\ new[i] = IF i = Len(jar) THEN e ELSE jar[i]
    BY <1>2, <1>4, <1>5, <1>7
  <2>2. CASE i = Len(jar)
    BY <2>1, <2>2, Entries
  <2>3. CASE i # Len(jar)
    <3>1. i \in 1 .. Len(jar) - 1 /\ new[i] = jar[i]
      BY <1>2, <2>1, <2>3
    <3> QED BY <1>2, <3>1
  <2> QED BY <2>2, <2>3
<1>8. JarShape'
  <2>1. 2 <= Len(new) /\ new[Len(new)].name = 0
    BY <1>2, <1>5, Entries
  <2> QED BY <1>6, <1>7, <2>1 DEF JarShape
<1>9. Walks' /\ Answers'
  BY <1>1 DEF Walks, Answers
<1> QED BY <1>1, <1>5, <1>6, <1>8, <1>9 DEF JarInv

LEMMA JarAsked ==
    ASSUME JarInv, NEW name \in Names \cup {0}, Jar!Getcookie(name)
    PROVE  JarInv'
<1>1. /\ cookie' = name /\ at' = 1 /\ value' = 0 /\ found' = FALSE
      /\ walk' = (IF jar = <<>> THEN "done" ELSE "walk") /\ jar' = jar
  BY DEF Jar!Getcookie
<1>2. jar \in Seq(Jar!Entry \cup {Jar!End}) /\ JarShape
  BY DEF JarInv
<1>3. JarShape'
  BY <1>1, <1>2 DEF JarShape
<1>4. Walks'
  <2>1. jar # <<>> => 1 \in 1 .. Len(jar) - 1
    BY <1>2 DEF JarShape
  <2> QED BY <1>1, <2>1 DEF Walks
<1>5. Answers'
  BY <1>1 DEF Answers
<1>6. found' \in BOOLEAN /\ walk' \in {"idle", "walk", "done"}
  BY <1>1
<1> QED BY <1>1, <1>2, <1>3, <1>4, <1>5, <1>6 DEF JarInv

LEMMA JarFound ==
    ASSUME JarInv, Jar!Found
    PROVE  JarInv'
<1>1. /\ walk = "walk" /\ jar[at].name = cookie /\ value' = jar[at].value /\ found' = TRUE
      /\ walk' = "done" /\ UNCHANGED <<jar, cookie, at>>
  BY DEF Jar!Found
<1>2. /\ jar \in Seq(Jar!Entry \cup {Jar!End}) /\ JarShape /\ jar # <<>>
      /\ at \in 1 .. Len(jar) - 1 /\ \A i \in 1 .. at - 1 : jar[i].name # cookie
      /\ cookie \in Names \cup {0}
  BY <1>1 DEF JarInv, Walks
<1>3. value' \in Values \cup {0} /\ found' \in BOOLEAN
  BY <1>1, <1>2 DEF JarShape
<1>4. Answers'
  <2>1. at \in 1 .. Len(jar)
    BY <1>2
  <2> QED BY <1>1, <1>2, <2>1 DEF Answers
<1>5. JarShape' /\ Walks'
  BY <1>1, <1>2 DEF JarShape, Walks
<1> QED BY <1>1, <1>2, <1>3, <1>4, <1>5 DEF JarInv

LEMMA JarOther ==
    ASSUME JarInv, Jar!Other
    PROVE  JarInv'
<1>1. /\ walk = "walk" /\ jar[at].name # cookie /\ at' = at + 1
      /\ walk' = IF jar[at + 1].name = 0 THEN "done" ELSE "walk"
      /\ UNCHANGED <<jar, cookie, found, value>>
  BY DEF Jar!Other, Jar!Ends, Jar!Zero
<1>2. /\ jar \in Seq(Jar!Entry \cup {Jar!End}) /\ JarShape /\ jar # <<>> /\ ~found /\ value = 0
      /\ at \in 1 .. Len(jar) - 1 /\ \A i \in 1 .. at - 1 : jar[i].name # cookie
      /\ cookie \in Names \cup {0} /\ found \in BOOLEAN /\ Len(jar) \in Nat
  BY <1>1 DEF JarInv, Walks
<1>3. \A i \in 1 .. (at + 1) - 1 : jar[i].name # cookie
  <2> SUFFICES ASSUME NEW i \in 1 .. (at + 1) - 1 PROVE jar[i].name # cookie
    OBVIOUS
  <2>1. i = at \/ i \in 1 .. at - 1
    BY <1>2
  <2> QED BY <1>1, <1>2, <2>1
<1>4. CASE jar[at + 1].name = 0
  <2>1. at + 1 = Len(jar)
    <3>1. at + 1 \in 1 .. Len(jar) - 1 => jar[at + 1].name # 0
      BY <1>2 DEF JarShape
    <3> QED BY <1>2, <1>4, <3>1
  <2>2. Answers'
    BY <1>1, <1>2, <1>3, <1>4, <2>1 DEF Answers
  <2>3. walk' = "done"
    BY <1>1, <1>4
  <2>4. JarShape' /\ Walks'
    BY <1>1, <1>2, <2>3 DEF JarShape, Walks
  <2> QED BY <1>1, <1>2, <2>2, <2>3, <2>4 DEF JarInv
<1>5. CASE jar[at + 1].name # 0
  <2>1. at + 1 \in 1 .. Len(jar) - 1
    <3>1. jar[Len(jar)].name = 0
      BY <1>2 DEF JarShape
    <3>2. at + 1 # Len(jar)
      BY <1>5, <3>1
    <3> QED BY <1>2, <3>2
  <2>2. walk' = "walk"
    BY <1>1, <1>5
  <2>3. Walks'
    BY <1>1, <1>2, <1>3, <2>1 DEF Walks
  <2>4. JarShape' /\ Answers'
    BY <1>1, <1>2, <2>2 DEF JarShape, Answers
  <2> QED BY <1>1, <1>2, <2>2, <2>3, <2>4 DEF JarInv
<1> QED BY <1>4, <1>5

LEMMA JarSteps ==
    ASSUME JarInv, [Jar!Next]_jarVars
    PROVE  JarInv'
<1>1. CASE UNCHANGED jarVars
  BY <1>1 DEF jarVars, JarInv, JarShape, Walks, Answers
<1>2. CASE Jar!Next
  BY <1>2, JarInstall, JarAsked, JarFound, JarOther DEF Jar!Next, Jar!Zero
<1> QED BY <1>1, <1>2

LEMMA JarSound ==
    ASSUME JarInv
    PROVE  Jar!TypeOK /\ Jar!AnswersTheJar
<1>1. jar \in Seq(Jar!Entry \cup {Jar!End}) /\ Len(jar) \in Nat
  BY DEF JarInv
<1>2. Jar!TypeOK
  <2>1. walk = "walk" => at \in 1 .. Len(jar)
    BY <1>1 DEF JarInv, Walks
  <2> QED BY <2>1 DEF JarInv, Jar!TypeOK, Jar!Zero
<1>3. Jar!AnswersTheJar
  <2> SUFFICES ASSUME walk = "done", cookie # 0 PROVE Jar!AnswersTheJar
    BY DEF Jar!AnswersTheJar, Jar!Zero
  <2> DEFINE Matches == {i \in Jar!Cookies : jar[i].name = cookie}
  <2>1. Matches = {i \in 1 .. Len(jar) : jar[i].name = cookie}
    BY DEF Jar!Cookies, Jar!Zero
  <2> HIDE DEF Matches
  <2>2. CASE found
    <3>1. PICK i \in 1 .. Len(jar) : jar[i].name = cookie /\ value = jar[i].value
            /\ \A k \in 1 .. i - 1 : jar[k].name # cookie
      BY <2>2 DEF JarInv, Answers
    <3>2. i \in Matches
      BY <2>1, <3>1
    <3>3. ASSUME NEW k \in Matches PROVE i <= k
      <4>1. k \in 1 .. Len(jar) /\ jar[k].name = cookie
        BY <2>1
      <4>2. k \notin 1 .. i - 1
        BY <3>1, <4>1
      <4> QED BY <1>1, <4>1, <4>2
    <3>4. Matches # {} /\ \E j \in Matches : value = jar[j].value /\ \A k \in Matches : j <= k
      BY <3>1, <3>2, <3>3
    <3> QED BY <2>2, <3>4 DEF Jar!AnswersTheJar, Matches
  <2>3. CASE ~found
    <3>1. value = 0 /\ (jar # <<>> => \A i \in 1 .. Len(jar) - 1 : jar[i].name # cookie)
      BY <2>3 DEF JarInv, Answers
    <3>2. ASSUME NEW i \in 1 .. Len(jar) PROVE jar[i].name # cookie
      <4>1. jar # <<>>
        BY <1>1
      <4>2. jar[Len(jar)].name = 0
        BY <4>1 DEF JarInv, JarShape
      <4>3. i = Len(jar) \/ i \in 1 .. Len(jar) - 1
        BY <1>1
      <4> QED BY <3>1, <4>1, <4>2, <4>3
    <3>3. Matches = {}
      BY <2>1, <3>2
    <3> QED BY <2>3, <3>1, <3>3 DEF Jar!AnswersTheJar, Matches
  <2> QED BY <2>2, <2>3
<1> QED BY <1>2, <1>3

-----------------------------------------------------------------------------
(* strchrnul.                                                              *)

\* The powers of two.
LEMMA BitIs ==
    /\ Tok!Bit \in [Nat -> Nat] /\ Tok!Bit[0] = 1
    /\ \A n \in Nat : Tok!Bit[n + 1] = 2 * Tok!Bit[n]
<1>1. Tok!Bit = Doubled
  BY DEF Tok!Bit, Doubled
<1> QED BY <1>1, DoubledIs

LEMMA BitPositive == \A n \in Nat : Tok!Bit[n] \in Nat \ {0}
<1> DEFINE S == {n \in Nat : Tok!Bit[n] \in Nat \ {0}}
<1>1. 0 \in S
  BY BitIs
<1>2. ASSUME NEW n \in Nat, n \in S PROVE n + 1 \in S
  <2>1. Tok!Bit[n + 1] = 2 * Tok!Bit[n] /\ Tok!Bit[n] \in Nat \ {0}
    BY <1>2, BitIs
  <2>2. Tok!Bit[n + 1] \in Nat \ {0}
    BY <2>1
  <2> QED BY <2>2
<1> HIDE DEF S
<1>3. Nat \subseteq S
  BY <1>1, <1>2, SetInduction
<1> QED BY <1>3 DEF S

LEMMA BitsMultiply ==
    ASSUME NEW m \in Nat, NEW n \in Nat
    PROVE  Tok!Bit[m + n] = Tok!Bit[m] * Tok!Bit[n]
<1> DEFINE P(i) == Tok!Bit[m + i] = Tok!Bit[m] * Tok!Bit[i]
           S == {i \in Nat : P(i)}
<1>1. 0 \in S
  <2>1. Tok!Bit[m] \in Nat /\ Tok!Bit[0] = 1 /\ m + 0 = m
    BY BitIs
  <2>2. P(0)
    BY <2>1
  <2> QED BY <2>2
<1>2. ASSUME NEW i \in Nat, i \in S PROVE i + 1 \in S
  <2>1. m + i \in Nat /\ (m + i) + 1 = m + (i + 1)
    OBVIOUS
  <2>2. /\ Tok!Bit[m + (i + 1)] = 2 * Tok!Bit[m + i] /\ Tok!Bit[i + 1] = 2 * Tok!Bit[i]
        /\ Tok!Bit[m] \in Nat /\ Tok!Bit[i] \in Nat
    BY <2>1, BitIs
  <2>3. Tok!Bit[m + i] = Tok!Bit[m] * Tok!Bit[i]
    BY <1>2
  <2> DEFINE x == Tok!Bit[m]
             y == Tok!Bit[i]
  <2>4. x \in Nat /\ y \in Nat /\ 2 * (x * y) = x * (2 * y)
    <3>1. x \in Nat /\ y \in Nat
      BY <2>2
    <3> HIDE DEF x, y
    <3> QED BY <3>1, Z3
  <2>5. P(i + 1)
    BY <2>2, <2>3, <2>4
  <2> QED BY <2>5
<1> HIDE DEF S
<1>3. Nat \subseteq S
  BY <1>1, <1>2, SetInduction
<1> QED BY <1>3 DEF S

LEMMA ByteBitsAre ==
    /\ ByteBits \in Nat /\ 2 <= ByteBits
    /\ \A m \in Memories :
         m \in Seq(0 .. Tok!ByteSize - 1) /\ m # <<>> /\ Len(m) % 4 = 0 /\ m[Len(m)] = 0
    /\ Wanted \subseteq 0 .. Tok!ByteSize - 1
BY UtilitiesAssumption DEF Tok!FindAssumption

\* The sizes of a byte, of its half and of the parts of a long word.
LEMMA ByteSizes ==
    \E h \in Nat \ {0} :
        LET size == 4 * h IN
        /\ Tok!ByteSize = size
        /\ Tok!Bit[ByteBits] = size /\ Tok!Bit[2 * ByteBits] = size * size
        /\ Tok!Bit[3 * ByteBits] = size * size * size
        /\ Tok!Bit[4 * ByteBits] = size * size * size * size
        /\ Tok!Bit[4 * ByteBits - 1] = size * size * size * (2 * h)
<1> DEFINE n == ByteBits
           h == Tok!Bit[n - 2]
           size == 4 * h
<1>1. n \in Nat /\ n - 2 \in Nat /\ n - 1 \in Nat /\ (n - 2) + 1 = n - 1 /\ (n - 1) + 1 = n
  BY ByteBitsAre
<1>2. h \in Nat \ {0}
  BY <1>1, BitPositive
<1>3. Tok!Bit[n - 1] = 2 * h /\ Tok!Bit[n] = 2 * Tok!Bit[n - 1]
  BY <1>1, BitIs
<1> HIDE DEF h, n
<1>4. Tok!Bit[n] = size /\ size \in Nat
  BY <1>2, <1>3
<1>5. Tok!Bit[n + n] = size * size
  BY <1>1, <1>4, BitsMultiply
<1>6. /\ n + n \in Nat /\ n + n = 2 * n /\ (2 * n) + n = 3 * n /\ 2 * n \in Nat /\ 3 * n \in Nat
      /\ (3 * n) + n = 4 * n /\ (3 * n) + (n - 1) = 4 * n - 1
  BY <1>1
<1>7. Tok!Bit[(2 * n) + n] = Tok!Bit[2 * n] * size /\ Tok!Bit[(3 * n) + n] = Tok!Bit[3 * n] * size
      /\ Tok!Bit[(3 * n) + (n - 1)] = Tok!Bit[3 * n] * (2 * h)
  <2>1. Tok!Bit[(2 * n) + n] = Tok!Bit[2 * n] * Tok!Bit[n]
    BY <1>1, <1>6, BitsMultiply
  <2>2. Tok!Bit[(3 * n) + n] = Tok!Bit[3 * n] * Tok!Bit[n]
    BY <1>1, <1>6, BitsMultiply
  <2>3. Tok!Bit[(3 * n) + (n - 1)] = Tok!Bit[3 * n] * Tok!Bit[n - 1]
    BY <1>1, <1>6, BitsMultiply
  <2> HIDE DEF size
  <2> QED BY <1>3, <1>4, <2>1, <2>2, <2>3
<1>8. /\ Tok!Bit[2 * n] = size * size /\ Tok!Bit[3 * n] = size * size * size
      /\ Tok!Bit[4 * n] = size * size * size * size
      /\ Tok!Bit[4 * n - 1] = size * size * size * (2 * h)
  <2> HIDE DEF size
  <2>1. Tok!Bit[2 * n] = size * size
    BY <1>5, <1>6
  <2>2. Tok!Bit[3 * n] = size * size * size
    BY <1>6, <1>7, <2>1
  <2>3. Tok!Bit[4 * n] = size * size * size * size
    BY <1>6, <1>7, <2>2
  <2>4. Tok!Bit[4 * n - 1] = size * size * size * (2 * h)
    BY <1>6, <1>7, <2>2
  <2> QED BY <2>1, <2>2, <2>3, <2>4
<1>9. Tok!ByteSize = size
  BY <1>4 DEF Tok!ByteSize, n
<1> QED BY <1>2, <1>4, <1>8, <1>9 DEF n

\* MagicBelow is what it looks like.
LEMMA MagicIs ==
    /\ Tok!MagicBelow[0] = 0
    /\ \A i \in Nat : Tok!MagicBelow[i + 1] =
         Tok!MagicBelow[i] + (IF i \in Tok!Holes THEN 0 ELSE Tok!Bit[i])
<1> DEFINE Term(i) == IF i \in Tok!Holes THEN 0 ELSE Tok!Bit[i]
           Body(f) == [i \in Nat |-> IF i = 0 THEN 0
                                     ELSE f[i - 1] + (IF i - 1 \in Tok!Holes THEN 0 ELSE Tok!Bit[i - 1])]
<1>1. \A i \in Nat : i # 0 => i - 1 \in Nat
  OBVIOUS
<1>2. \A i \in Nat : Term(i) \in Nat
  BY BitIs
<1> DEFINE Before(i) == IF i = 0 THEN 0 ELSE Term(i - 1)
           Step == [i \in Nat |-> [m \in Nat |-> m + Before(i)]]
<1>3. \A i \in Nat : Before(i) \in Nat
  <2> HIDE DEF Term
  <2> QED BY <1>1, <1>2
<1> HIDE DEF Before
<1>4. \A i \in Nat : \A m \in Nat : Step[i][m] = m + Before(i) /\ Step[i][m] \in Nat
  BY <1>3
<1> HIDE DEF Step
<1>5. PICK f \in [Nat -> Nat] : f[0] = 0 /\ \A n \in Nat : f[n + 1] = Step[n + 1][f[n]]
  <2> DEFINE T == Nat
             none == 0
  <2>1. none \in T /\ StaysIn(T, Step)
    BY <1>4 DEF StaysIn
  <2> HIDE DEF T, none
  <2>2. \E f \in [Nat -> T] : f[0] = none /\ \A n \in Nat : f[n + 1] = Step[n + 1][f[n]]
    BY <2>1, IteratesForever
  <2> QED BY <2>2 DEF T, none
<1>6. ASSUME NEW i \in Nat PROVE f[i] = IF i = 0 THEN 0 ELSE f[i - 1] + Term(i - 1)
  <2>1. CASE i = 0
    BY <1>5, <2>1
  <2>2. CASE i # 0
    <3>1. i - 1 \in Nat /\ (i - 1) + 1 = i
      BY <2>2
    <3>2. f[i] = Step[i][f[i - 1]] /\ f[i - 1] \in Nat
      BY <1>5, <3>1
    <3>3. f[i] = f[i - 1] + Before(i)
      BY <1>4, <3>2
    <3>4. Before(i) = Term(i - 1)
      BY <2>2 DEF Before
    <3> HIDE DEF Term
    <3> QED BY <2>2, <3>3, <3>4
  <2> QED BY <2>1, <2>2
<1>7. f = Body(f)
  BY <1>5, <1>6
<1>8. Tok!MagicBelow = CHOOSE g : g = Body(g)
  BY DEF Tok!MagicBelow
<1> HIDE DEF Body
<1>9. Tok!MagicBelow = Body(Tok!MagicBelow)
  BY <1>7, <1>8
<1>10. \A i \in Nat : Tok!MagicBelow[i] =
         IF i = 0 THEN 0
         ELSE Tok!MagicBelow[i - 1] + (IF i - 1 \in Tok!Holes THEN 0 ELSE Tok!Bit[i - 1])
  <2> DEFINE g == Tok!MagicBelow
             v(i) == IF i = 0 THEN 0
                     ELSE g[i - 1] + (IF i - 1 \in Tok!Holes THEN 0 ELSE Tok!Bit[i - 1])
  <2> HIDE DEF g
  <2>1. g = [i \in Nat |-> v(i)]
    BY <1>9 DEF Body, g
  <2>2. \A i \in Nat : g[i] = v(i)
    <3> HIDE DEF v
    <3> QED BY <2>1
  <2> QED BY <2>2 DEF g
<1>11. Tok!MagicBelow[0] = 0
  BY <1>10
<1>12. ASSUME NEW i \in Nat
       PROVE  Tok!MagicBelow[i + 1] = Tok!MagicBelow[i] + (IF i \in Tok!Holes THEN 0 ELSE Tok!Bit[i])
  <2>1. i + 1 \in Nat /\ i + 1 # 0 /\ (i + 1) - 1 = i
    OBVIOUS
  <2> QED BY <1>10, <2>1
<1> QED BY <1>11, <1>12

\* All bits below i but the holes.
LEMMA MagicSum ==
    ASSUME NEW i \in Nat
    PROVE  Tok!MagicBelow[i] =
             ((((Tok!Bit[i] - 1)
               - (IF ByteBits < i THEN Tok!Bit[ByteBits] ELSE 0))
               - (IF 2 * ByteBits < i THEN Tok!Bit[2 * ByteBits] ELSE 0))
               - (IF 3 * ByteBits < i THEN Tok!Bit[3 * ByteBits] ELSE 0))
               - (IF 4 * ByteBits - 1 < i THEN Tok!Bit[4 * ByteBits - 1] ELSE 0)
<1> DEFINE Gap(h, j) == IF h < j THEN Tok!Bit[h] ELSE 0
           n == ByteBits
           Sum4(j) == ((((Tok!Bit[j] - 1) - Gap(n, j)) - Gap(2 * n, j)) - Gap(3 * n, j)) - Gap(4 * n - 1, j)
           S == {j \in Nat : Tok!MagicBelow[j] = Sum4(j)}
<1>1. n \in Nat /\ 2 <= n /\ Tok!Holes = {n, 2 * n, 3 * n, 4 * n - 1}
  BY ByteBitsAre DEF Tok!Holes
<1>2. /\ n \in Nat /\ 2 * n \in Nat /\ 3 * n \in Nat /\ 4 * n - 1 \in Nat
      /\ 0 < n /\ n < 2 * n /\ 2 * n < 3 * n /\ 3 * n < 4 * n - 1
  BY <1>1
<1> HIDE DEF n
<1>3. ASSUME NEW h \in Nat, NEW j \in Nat
      PROVE  Gap(h, j) \in Nat /\ Gap(h, j + 1) = Gap(h, j) + (IF h = j THEN Tok!Bit[j] ELSE 0)
  <2>1. Tok!Bit[h] \in Nat
    BY BitIs
  <2>2. CASE h < j
    <3>1. h < j + 1 /\ h # j
      BY <2>2
    <3> QED BY <2>1, <2>2, <3>1
  <2>3. CASE h = j
    <3>1. h < j + 1 /\ ~(h < j)
      BY <2>3
    <3> QED BY <2>1, <2>3, <3>1
  <2>4. CASE h > j
    <3>1. ~(h < j + 1) /\ h # j /\ ~(h < j)
      BY <2>4
    <3> QED BY <2>1, <2>4, <3>1
  <2> QED BY <2>2, <2>3, <2>4
<1>4. ASSUME NEW h \in Nat PROVE Gap(h, 0) = 0
  OBVIOUS
<1> HIDE DEF Gap
<1>5. 0 \in S
  <2>1. Sum4(0) = 0
    BY <1>2, <1>4, BitIs
  <2> QED BY <2>1, MagicIs
<1>6. ASSUME NEW j \in Nat, j \in S PROVE j + 1 \in S
  <2>1. /\ Tok!MagicBelow[j] = Sum4(j)
        /\ Tok!MagicBelow[j + 1] = Tok!MagicBelow[j] + (IF j \in Tok!Holes THEN 0 ELSE Tok!Bit[j])
    BY <1>6, MagicIs
  <2>2. Tok!Bit[j] \in Nat /\ Tok!Bit[j + 1] = 2 * Tok!Bit[j]
    BY BitIs
  <2>3. /\ Gap(n, j) \in Nat /\ Gap(n, j + 1) = Gap(n, j) + (IF n = j THEN Tok!Bit[j] ELSE 0)
        /\ Gap(2 * n, j) \in Nat /\ Gap(2 * n, j + 1) = Gap(2 * n, j) + (IF 2 * n = j THEN Tok!Bit[j] ELSE 0)
        /\ Gap(3 * n, j) \in Nat /\ Gap(3 * n, j + 1) = Gap(3 * n, j) + (IF 3 * n = j THEN Tok!Bit[j] ELSE 0)
        /\ Gap(4 * n - 1, j) \in Nat
        /\ Gap(4 * n - 1, j + 1) = Gap(4 * n - 1, j) + (IF 4 * n - 1 = j THEN Tok!Bit[j] ELSE 0)
    BY <1>2, <1>3
  <2> DEFINE b0 == Tok!Bit[j]
             ga == Gap(n, j)
             gb == Gap(2 * n, j)
             gc == Gap(3 * n, j)
             gd == Gap(4 * n - 1, j)
  <2>4. Sum4(j) = (((b0 - 1 - ga) - gb) - gc) - gd
    OBVIOUS
  <2>5. Sum4(j + 1) = (((((2 * b0 - 1) - (ga + (IF n = j THEN b0 ELSE 0)))
                        - (gb + (IF 2 * n = j THEN b0 ELSE 0)))
                        - (gc + (IF 3 * n = j THEN b0 ELSE 0)))
                        - (gd + (IF 4 * n - 1 = j THEN b0 ELSE 0)))
    BY <2>2, <2>3
  <2>6. b0 \in Nat /\ ga \in Nat /\ gb \in Nat /\ gc \in Nat /\ gd \in Nat
    BY <2>2, <2>3
  <2>7. Sum4(j + 1) = Sum4(j) + (IF j \in {n, 2 * n, 3 * n, 4 * n - 1} THEN 0 ELSE b0)
    <3> HIDE DEF Sum4, b0, ga, gb, gc, gd
    <3> QED BY <1>2, <2>4, <2>5, <2>6
  <2> HIDE DEF Sum4
  <2>8. Tok!MagicBelow[j + 1] = Sum4(j + 1)
    BY <1>1, <2>1, <2>7
  <2> QED BY <2>8
<1> HIDE DEF S
<1>7. Nat \subseteq S
  BY <1>5, <1>6, SetInduction
<1>8. Tok!MagicBelow[i] = Sum4(i)
  BY <1>7 DEF S
<1> QED BY <1>8 DEF Gap, n

LEMMA OneQuotient ==
    ASSUME NEW w \in Nat \ {0}, NEW q \in Int, NEW r \in 0 .. w - 1
    PROVE  (q * w + r) \div w = q
OBVIOUS

\* What lies below w gives no carry, and an even number above it leaves the lowest bit.
LEMMA BitStays ==
    ASSUME NEW w \in Nat \ {0}, NEW x \in Int, NEW z \in Int, NEW r \in Nat, NEW s \in Nat,
           r + s < w, NEW long, long = x * w + r, NEW magic, magic = (2 * z) * w + s
    PROVE  ((long + magic) \div w) % 2 = (long \div w) % 2
<1>1. r \in 0 .. w - 1 /\ r + s \in 0 .. w - 1 /\ x + 2 * z \in Int
  OBVIOUS
<1>2. long \div w = x
  BY <1>1, OneQuotient
<1>3. (x + 2 * z) * w = x * w + (2 * z) * w /\ x * w \in Int /\ (2 * z) * w \in Int
  BY Z3
<1>4. long + magic = (x + 2 * z) * w + (r + s)
  BY <1>3
<1>5. ((x + 2 * z) * w + (r + s)) \div w = x + 2 * z
  BY <1>1, OneQuotient
<1>6. (x + 2 * z) % 2 = x % 2
  BY Z3
<1> QED BY <1>2, <1>4, <1>5, <1>6

\* A word and the magic one taken apart at the bit w.
Fits(w, long, magic) ==
    \E x \in Int, z \in Int, r \in Nat, s \in Nat :
        r + s < w /\ long = x * w + r /\ magic = (2 * z) * w + s

LEMMA FitStays ==
    ASSUME NEW w \in Nat \ {0}, NEW long, NEW magic, Fits(w, long, magic)
    PROVE  ((long + magic) \div w) % 2 = (long \div w) % 2
<1>1. PICK x \in Int, z \in Int, r \in Nat, s \in Nat :
        r + s < w /\ long = x * w + r /\ magic = (2 * z) * w + s
  BY DEF Fits
<1> QED BY <1>1, BitStays

\* "Suppose there is a byte with all zeros": one hole stays as it is.
LEMMA ZeroShows ==
    ASSUME NEW b1 \in 0 .. Tok!ByteSize - 1, NEW b2 \in 0 .. Tok!ByteSize - 1,
           NEW b3 \in 0 .. Tok!ByteSize - 1, NEW b4 \in 0 .. Tok!ByteSize - 1,
           0 \in {b1, b2, b3, b4}, NEW long,
           long = ((b1 * Tok!ByteSize + b2) * Tok!ByteSize + b3) * Tok!ByteSize + b4
    PROVE  Tok!HoleUnchanged(long)
<1>1. PICK h \in Nat \ {0} :
        /\ Tok!ByteSize = 4 * h
        /\ Tok!Bit[ByteBits] = 4 * h /\ Tok!Bit[2 * ByteBits] = 4 * h * (4 * h)
        /\ Tok!Bit[3 * ByteBits] = 4 * h * (4 * h) * (4 * h)
        /\ Tok!Bit[4 * ByteBits] = 4 * h * (4 * h) * (4 * h) * (4 * h)
        /\ Tok!Bit[4 * ByteBits - 1] = 4 * h * (4 * h) * (4 * h) * (2 * h)
  BY ByteSizes
<1> DEFINE p == 4 * h
           p2 == p * p
           p3 == p2 * p
           top == p3 * (2 * h)
<1>2. /\ Tok!Bit[ByteBits] = p /\ Tok!Bit[2 * ByteBits] = p2 /\ Tok!Bit[3 * ByteBits] = p3
      /\ Tok!Bit[4 * ByteBits] = p3 * p /\ Tok!Bit[4 * ByteBits - 1] = top /\ Tok!ByteSize = p
  BY <1>1
<1>3. p \in Nat /\ 4 <= p /\ h \in Nat /\ 1 <= h
  OBVIOUS
<1>4. p2 \in Nat /\ p <= p2
  <2>1. p2 \in Nat
    BY <1>3
  <2>2. p * (p - 1) \in Nat /\ p * (p - 1) = p2 - p
    <3> HIDE DEF p
    <3> QED BY <1>3, Z3
  <2> HIDE DEF p, p2
  <2> QED BY <1>3, <2>1, <2>2
<1>5. p3 \in Nat /\ p2 <= p3 /\ p2 + p + 1 <= p3
  <2> HIDE DEF p
  <2>1. p3 \in Nat
    BY <1>3, <1>4
  <2> HIDE DEF p2
  <2>2. p2 * (p - 4) \in Nat /\ p2 * (p - 4) = p3 - 4 * p2
    BY <1>3, <1>4, Z3
  <2> HIDE DEF p3
  <2> QED BY <1>3, <1>4, <2>1, <2>2
<1>6. top \in Nat /\ 2 * top = p3 * p /\ 2 * p3 <= top
  <2> HIDE DEF p3
  <2>1. top \in Nat
    BY <1>3, <1>5
  <2>2. 2 * top = p3 * p
    BY <1>5, Z3
  <2>3. p3 * (2 * (h - 1)) \in Nat /\ p3 * (2 * (h - 1)) = top - 2 * p3
    BY <1>5, Z3
  <2> HIDE DEF top
  <2> QED BY <1>5, <2>1, <2>2, <2>3
<1>7. Tok!magic_bits = (((top - p3) - p2) - p) - 1
  <2>1. 4 * ByteBits \in Nat /\ ByteBits < 4 * ByteBits /\ 2 * ByteBits < 4 * ByteBits
        /\ 3 * ByteBits < 4 * ByteBits /\ 4 * ByteBits - 1 < 4 * ByteBits
    BY ByteBitsAre
  <2>2. Tok!MagicBelow[4 * ByteBits] = ((((p3 * p - 1) - p) - p2) - p3) - top
    <3> HIDE DEF p, p2, p3, top
    <3> QED BY <1>2, <2>1, MagicSum
  <2>3. p3 * p = 2 * top
    BY <1>6
  <2> HIDE DEF p, p2, p3, top
  <2> QED BY <1>3, <1>4, <1>5, <1>6, <2>2, <2>3 DEF Tok!magic_bits
<1>8. \A i \in {ByteBits, 2 * ByteBits, 3 * ByteBits, 4 * ByteBits - 1} : i \in Tok!Holes
  BY DEF Tok!Holes
<1>9. /\ b1 \in 0 .. p - 1 /\ b2 \in 0 .. p - 1 /\ b3 \in 0 .. p - 1 /\ b4 \in 0 .. p - 1
      /\ long = ((b1 * p + b2) * p + b3) * p + b4
  BY <1>2
<1> DEFINE magic == Tok!magic_bits
           Stays(w) == ((long + magic) \div w) % 2 = (long \div w) % 2
<1>10. magic \in Int /\ Tok!magic_bits = magic
  <2> HIDE DEF p, p2, p3, top
  <2> QED BY <1>3, <1>4, <1>5, <1>6, <1>7
<1>11. CASE b4 = 0
  <2> DEFINE x == (b1 * p + b2) * p + b3
             z == ((p2 * h - 2 * h * p) - 2 * h) - 1
  <2>1. magic = (2 * z) * p + (p - 1)
    <3>1. (2 * z) * p + (p - 1) = (((top - p3) - p2) - p) - 1
      BY Z3
    <3> QED BY <1>7, <3>1
  <2>2. x \in Int /\ z \in Int
    BY <1>9, Z3
  <2>3. long = x * p + 0
    BY <1>9, <1>11, <2>2, Z3
  <2>4. p \in Nat \ {0} /\ 0 \in Nat /\ p - 1 \in Nat /\ 0 + (p - 1) < p
    BY <1>3
  <2> HIDE DEF p, x, z, magic
  <2>5. Stays(p)
    <3>1. Fits(p, long, magic)
      <4>1. x \in Int /\ z \in Int /\ 0 \in Nat /\ p - 1 \in Nat
        BY <2>2, <2>4
      <4>2. 0 + (p - 1) < p /\ long = x * p + 0 /\ magic = (2 * z) * p + (p - 1)
        BY <2>1, <2>3, <2>4
      <4> QED BY <4>1, <4>2 DEF Fits
    <3> QED BY <2>4, <3>1, FitStays
  <2>6. Tok!Bit[ByteBits] = p /\ ByteBits \in Tok!Holes
    BY <1>2, <1>8
  <2> QED BY <1>10, <2>5, <2>6 DEF Tok!HoleUnchanged
<1>12. CASE b3 = 0
  <2> DEFINE x == b1 * p + b2
             z == (p * h - 2 * h) - 1
             s == (p2 - p) - 1
  <2>1. magic = (2 * z) * p2 + s
    <3>1. (2 * z) * p2 + s = (((top - p3) - p2) - p) - 1
      BY Z3
    <3> QED BY <1>7, <3>1
  <2>2. x \in Int /\ z \in Int
    BY <1>9, Z3
  <2>3. long = x * p2 + b4
    <3>1. ((b1 * p + b2) * p + 0) * p + b4 = x * p2 + b4
      BY <1>9, Z3
    <3> QED BY <1>9, <1>12, <3>1
  <2>4. p2 \in Nat \ {0} /\ b4 \in Nat /\ s \in Nat /\ b4 + s < p2
    <3>1. p2 - p \in Nat \ {0}
      <4>1. p * (p - 2) \in Nat /\ p * (p - 2) = p2 - 2 * p
        <5> HIDE DEF p
        <5> QED BY <1>3, Z3
      <4> HIDE DEF p, p2
      <4> QED BY <1>3, <1>4, <4>1
    <3> HIDE DEF p, p2
    <3> QED BY <1>3, <1>4, <1>9, <3>1
  <2> HIDE DEF p2, x, z, s, magic
  <2>5. Stays(p2)
    <3>1. Fits(p2, long, magic)
      <4>1. x \in Int /\ z \in Int /\ b4 \in Nat /\ s \in Nat
        BY <2>2, <2>4
      <4>2. b4 + (s) < p2 /\ long = x * p2 + b4 /\ magic = (2 * z) * p2 + (s)
        BY <2>1, <2>3, <2>4
      <4> QED BY <4>1, <4>2 DEF Fits
    <3> QED BY <2>4, <3>1, FitStays
  <2>6. Tok!Bit[2 * ByteBits] = p2 /\ 2 * ByteBits \in Tok!Holes
    BY <1>2, <1>8
  <2> QED BY <1>10, <2>5, <2>6 DEF Tok!HoleUnchanged
<1>13. CASE b2 = 0
  <2> DEFINE r == b3 * p + b4
             z == h - 1
             s == ((p3 - p2) - p) - 1
  <2>1. magic = (2 * z) * p3 + s
    <3>1. (2 * z) * p3 + s = (((top - p3) - p2) - p) - 1
      BY Z3
    <3> QED BY <1>7, <3>1
  <2>2. b1 \in Int /\ z \in Int
    BY <1>9
  <2>3. long = b1 * p3 + r
    <3>1. ((b1 * p + 0) * p + b3) * p + b4 = b1 * p3 + r
      BY <1>9, Z3
    <3> QED BY <1>9, <1>13, <3>1
  <2>4. p3 \in Nat \ {0} /\ r \in Nat /\ s \in Nat /\ r + s < p3
    <3>1. r \in Nat /\ r <= p2 - 1
      <4>1. b3 * p \in Nat /\ ((p - 1) - b3) * p \in Nat
            /\ ((p - 1) - b3) * p = (p2 - p) - b3 * p
        <5>1. b3 \in Nat /\ (p - 1) - b3 \in Nat
          BY <1>3, <1>9
        <5> HIDE DEF p
        <5> QED BY <1>3, <5>1, Z3
      <4> HIDE DEF p, p2
      <4> QED BY <1>3, <1>4, <1>9, <4>1
    <3> HIDE DEF p, p2, p3, r
    <3> QED BY <1>3, <1>4, <1>5, <3>1
  <2> HIDE DEF p3, r, z, s, magic
  <2>5. Stays(p3)
    <3>1. Fits(p3, long, magic)
      <4>1. b1 \in Int /\ z \in Int /\ r \in Nat /\ s \in Nat
        BY <2>2, <2>4
      <4>2. r + (s) < p3 /\ long = b1 * p3 + r /\ magic = (2 * z) * p3 + (s)
        BY <2>1, <2>3, <2>4
      <4> QED BY <4>1, <4>2 DEF Fits
    <3> QED BY <2>4, <3>1, FitStays
  <2>6. Tok!Bit[3 * ByteBits] = p3 /\ 3 * ByteBits \in Tok!Holes
    BY <1>2, <1>8
  <2> QED BY <1>10, <2>5, <2>6 DEF Tok!HoleUnchanged
<1>14. CASE b1 = 0
  <2> DEFINE r == (b2 * p + b3) * p + b4
  <2>1. r \in Nat /\ r <= p3 - 1
    <3> DEFINE t == b2 * p + b3
    <3>1. t \in Nat /\ t <= p2 - 1
      <4>1. b2 * p \in Nat /\ ((p - 1) - b2) * p \in Nat
            /\ ((p - 1) - b2) * p = (p2 - p) - b2 * p
        <5>1. b2 \in Nat /\ (p - 1) - b2 \in Nat
          BY <1>3, <1>9
        <5> HIDE DEF p
        <5> QED BY <1>3, <5>1, Z3
      <4> HIDE DEF p, p2
      <4> QED BY <1>3, <1>4, <1>9, <4>1
    <3>2. t * p \in Nat /\ ((p2 - 1) - t) * p \in Nat
          /\ ((p2 - 1) - t) * p = (p3 - p) - t * p
      <4>1. (p2 - 1) - t \in Nat
        <5> HIDE DEF p2, t
        <5> QED BY <1>4, <3>1
      <4> HIDE DEF p, p2, t
      <4> QED BY <1>3, <1>4, <3>1, <4>1, Z3
    <3>3. r = t * p + b4
      OBVIOUS
    <3> HIDE DEF p, p3, r, t
    <3> QED BY <1>3, <1>5, <1>9, <3>2, <3>3
  <2>2. long = 0 * top + r
    BY <1>6, <1>9, <1>14
  <2>3. magic = (2 * 0) * top + magic
    <3> HIDE DEF magic, top
    <3> QED BY <1>6, <1>10
  <2>4. top \in Nat \ {0} /\ magic \in Nat /\ r + magic < top
    <3> HIDE DEF p, p2, p3, top, r
    <3> QED BY <1>3, <1>4, <1>5, <1>6, <1>7, <2>1
  <2> HIDE DEF top, r, magic
  <2>5. Stays(top)
    BY <2>1, <2>2, <2>3, <2>4, BitStays
  <2>6. Tok!Bit[4 * ByteBits - 1] = top /\ 4 * ByteBits - 1 \in Tok!Holes
    BY <1>2, <1>8
  <2> QED BY <1>10, <2>5, <2>6 DEF Tok!HoleUnchanged
<1> QED BY <1>11, <1>12, <1>13, <1>14

\* A bit of the exclusive-or, where it stands.
Digit(x, y, i) == ((x \div Tok!Bit[i] + y \div Tok!Bit[i]) % 2) * Tok!Bit[i]

LEMMA DigitIs ==
    ASSUME NEW x \in Nat, NEW y \in Nat, NEW i \in Nat
    PROVE  Digit(x, y, i) \in {0, Tok!Bit[i]} /\ Digit(x, x, i) = 0
<1> DEFINE w == Tok!Bit[i]
           q == x \div w
           r == y \div w
<1>1. w \in Nat \ {0}
  BY BitPositive
<1> HIDE DEF w
<1>2. q \in Nat /\ r \in Nat
  BY <1>1
<1> HIDE DEF q, r
<1>3. (q + r) % 2 \in {0, 1} /\ (q + q) % 2 = 0
  BY <1>2
<1> DEFINE d == (q + r) % 2
           e == (q + q) % 2
<1>4. d * w \in {0, w} /\ e * w = 0
  <2>1. d \in {0, 1} /\ e = 0
    BY <1>3
  <2> HIDE DEF d, e
  <2> QED BY <1>1, <2>1
<1> QED BY <1>4 DEF Digit, w, q, r

\* The exclusive-or of two bytes is a byte, and 0 of equal ones.
LEMMA XorIs ==
    ASSUME NEW x \in Nat, NEW y \in Nat
    PROVE  Tok!XorBits(x, y) \in 0 .. Tok!ByteSize - 1 /\ (x = y => Tok!XorBits(x, y) = 0)
<1> DEFINE n == ByteBits
           Body(f) == [i \in 0 .. n |->
                         IF i = 0 THEN 0
                         ELSE f[i - 1]
                                + ((x \div Tok!Bit[i - 1] + y \div Tok!Bit[i - 1]) % 2) * Tok!Bit[i - 1]]
           Before(i) == IF i = 0 THEN 0 ELSE Digit(x, y, i - 1)
           Adds == [i \in Nat |-> [m \in Nat |-> m + Before(i)]]
<1>1. n \in Nat /\ 2 <= n
  BY ByteBitsAre
<1> HIDE DEF n
<1>2. \A i \in Nat : Before(i) \in Nat
  <2> SUFFICES ASSUME NEW i \in Nat PROVE Before(i) \in Nat
    OBVIOUS
  <2>1. CASE i = 0
    BY <2>1
  <2>2. CASE i # 0
    <3>1. i - 1 \in Nat
      BY <2>2
    <3>2. Digit(x, y, i - 1) \in {0, Tok!Bit[i - 1]} /\ Tok!Bit[i - 1] \in Nat
      <4> DEFINE j == i - 1
      <4>1. j \in Nat
        BY <3>1
      <4> HIDE DEF j
      <4>2. Digit(x, y, j) \in {0, Tok!Bit[j]} /\ Tok!Bit[j] \in Nat
        BY <4>1, DigitIs, BitIs
      <4> QED BY <4>2 DEF j
    <3>3. Before(i) = Digit(x, y, i - 1)
      BY <2>2
    <3> QED BY <3>2, <3>3
  <2> QED BY <2>1, <2>2
<1> HIDE DEF Before
<1>3. \A i \in Nat : \A m \in Nat : Adds[i][m] \in Nat /\ Adds[i][m] = m + Before(i)
  BY <1>2
<1> HIDE DEF Adds
<1>4. PICK f : /\ f \in [0 .. n -> Nat] /\ f[0] = 0
               /\ \A i \in 1 .. n : f[i] = Adds[i][f[i - 1]]
  <2> DEFINE T == Nat
             none == 0
  <2>1. none \in T /\ \A i \in Nat : \A t \in T : Adds[i][t] \in T
    BY <1>3
  <2> HIDE DEF T, none
  <2>2. \E g : Iterated(T, none, Adds, n, g)
    BY <1>1, <2>1, Iterates
  <2> QED BY <2>2 DEF Iterated, T, none
<1>5. ASSUME NEW i \in 1 .. n PROVE f[i] = f[i - 1] + Digit(x, y, i - 1) /\ f[i - 1] \in Nat
  <2>1. i \in Nat /\ i # 0 /\ i - 1 \in 0 .. n
    BY <1>1
  <2>2. f[i] = Adds[i][f[i - 1]] /\ f[i - 1] \in Nat
    BY <1>4, <2>1
  <2>3. f[i] = f[i - 1] + Before(i)
    BY <1>3, <2>1, <2>2
  <2> QED BY <2>1, <2>2, <2>3 DEF Before
<1>6. f = Body(f)
  <2> DEFINE v(i) == IF i = 0 THEN 0
                     ELSE f[i - 1]
                            + ((x \div Tok!Bit[i - 1] + y \div Tok!Bit[i - 1]) % 2) * Tok!Bit[i - 1]
  <2>1. \A i \in 0 .. n : f[i] = v(i)
    <3> SUFFICES ASSUME NEW i \in 0 .. n PROVE f[i] = v(i)
      OBVIOUS
    <3>1. CASE i = 0
      BY <1>4, <3>1
    <3>2. CASE i # 0
      <4>1. i \in 1 .. n
        BY <1>1, <3>2
      <4>2. f[i] = f[i - 1] + Digit(x, y, i - 1)
        BY <1>5, <4>1
      <4> QED BY <3>2, <4>2 DEF Digit
    <3> QED BY <3>1, <3>2
  <2>2. f = [i \in 0 .. n |-> f[i]]
    BY <1>4
  <2>3. Body(f) = [i \in 0 .. n |-> v(i)]
    OBVIOUS
  <2> HIDE DEF v, Body
  <2> QED BY <2>1, <2>2, <2>3
<1>7. Tok!XorBits(x, y) = (CHOOSE g : g = Body(g))[n]
  BY DEF Tok!XorBits, n
<1> DEFINE g == CHOOSE h : h = Body(h)
<1> HIDE DEF Body
<1>8. g = Body(g)
  BY <1>6
<1> HIDE DEF g
<1>9. /\ g[0] = 0
      /\ \A i \in 1 .. n : g[i] = g[i - 1] + Digit(x, y, i - 1)
  <2> DEFINE v(i) == IF i = 0 THEN 0
                     ELSE g[i - 1]
                            + ((x \div Tok!Bit[i - 1] + y \div Tok!Bit[i - 1]) % 2) * Tok!Bit[i - 1]
  <2>1. g = [i \in 0 .. n |-> v(i)]
    BY <1>8 DEF Body
  <2>2. \A i \in 0 .. n : g[i] = v(i)
    <3> HIDE DEF v
    <3> QED BY <2>1
  <2>3. g[0] = 0
    BY <1>1, <2>2
  <2>4. ASSUME NEW i \in 1 .. n PROVE g[i] = g[i - 1] + Digit(x, y, i - 1)
    <3>1. i \in 0 .. n /\ i # 0
      BY <1>1
    <3> QED BY <2>2, <3>1 DEF Digit
  <2> QED BY <2>3, <2>4
<1>10. ASSUME NEW i \in Nat PROVE Digit(x, y, i) \in {0, Tok!Bit[i]} /\ (x = y => Digit(x, y, i) = 0)
  BY DigitIs
<1> DEFINE Low(i) == i <= n => g[i] \in Nat /\ g[i] < Tok!Bit[i] /\ (x = y => g[i] = 0)
           S == {i \in Nat : Low(i)}
<1>11. 0 \in S
  <2>1. Low(0)
    BY <1>9, BitIs
  <2> QED BY <2>1
<1>12. ASSUME NEW i \in Nat, i \in S PROVE i + 1 \in S
  <2>1. CASE i + 1 <= n
    <3>1. i + 1 \in 1 .. n /\ (i + 1) - 1 = i /\ i <= n
      BY <1>1, <2>1
    <3>2. g[i + 1] = g[i] + Digit(x, y, i)
      BY <1>9, <3>1
    <3>3. g[i] \in Nat /\ g[i] < Tok!Bit[i] /\ (x = y => g[i] = 0)
      BY <1>12, <3>1
    <3>4. Tok!Bit[i + 1] = 2 * Tok!Bit[i] /\ Tok!Bit[i] \in Nat
      BY BitIs
    <3>5. Low(i + 1)
      BY <1>10, <3>2, <3>3, <3>4
    <3> QED BY <3>5
  <2>2. CASE ~(i + 1 <= n)
    BY <2>2
  <2> QED BY <2>1, <2>2
<1> HIDE DEF S
<1>13. Nat \subseteq S
  BY <1>11, <1>12, SetInduction
<1>14. Low(n)
  BY <1>1, <1>13 DEF S
<1>15. Tok!ByteSize \in Nat /\ Tok!ByteSize = Tok!Bit[n]
  BY <1>1, BitIs DEF Tok!ByteSize, n
<1>16. Tok!XorBits(x, y) = g[n]
  BY <1>7 DEF g
<1> QED BY <1>1, <1>14, <1>15, <1>16

LEMMA WordIs ==
    ASSUME NEW four, four[1] \in 0 .. Tok!ByteSize - 1, four[2] \in 0 .. Tok!ByteSize - 1,
           four[3] \in 0 .. Tok!ByteSize - 1, four[4] \in 0 .. Tok!ByteSize - 1,
           NEW k \in 1 .. 4, four[k] = 0
    PROVE  Tok!HoleUnchanged(Tok!Word(four))
<1>1. k = 1 \/ k = 2 \/ k = 3 \/ k = 4
  OBVIOUS
<1>2. 0 \in {four[1], four[2], four[3], four[4]}
  BY <1>1
<1> DEFINE long == ((four[1] * Tok!ByteSize + four[2]) * Tok!ByteSize + four[3]) * Tok!ByteSize + four[4]
<1>3. Tok!Word(four) = long
  BY DEF Tok!Word
<1>4. long = ((four[1] * Tok!ByteSize + four[2]) * Tok!ByteSize + four[3]) * Tok!ByteSize + four[4]
  OBVIOUS
<1> HIDE DEF long
<1>5. Tok!HoleUnchanged(long)
  BY <1>2, <1>4, ZeroShows
<1> QED BY <1>3, <1>5

\* A byte that is the one looked for or a NUL is not overlooked.
LEMMA WordShows ==
    ASSUME NEW four, \A i \in 1 .. 4 : four[i] \in 0 .. Tok!ByteSize - 1, c \in 0 .. Tok!ByteSize - 1,
           NEW k \in 1 .. 4, four[k] \in {c, 0}
    PROVE  Tok!MayMatch(four)
<1>1. Tok!ByteSize \in Nat
  BY ByteBitsAre, BitIs DEF Tok!ByteSize
<1>2. CASE four[k] = 0
  BY <1>2, WordIs DEF Tok!MayMatch
<1>3. CASE four[k] = c
  <2> DEFINE d == [i \in 1 .. 4 |-> Tok!XorBits(four[i], c)]
  <2>1. ASSUME NEW i \in 1 .. 4 PROVE four[i] \in Nat /\ c \in Nat
    BY <1>1
  <2>2. ASSUME NEW i \in 1 .. 4 PROVE d[i] \in 0 .. Tok!ByteSize - 1
    <3>1. four[i] \in Nat /\ c \in Nat
      BY <2>1
    <3>2. Tok!XorBits(four[i], c) \in 0 .. Tok!ByteSize - 1
      BY <3>1, XorIs
    <3> QED BY <3>2
  <2>3. d[k] = 0
    <3>1. four[k] \in Nat /\ c \in Nat
      BY <2>1
    <3>2. Tok!XorBits(four[k], c) = 0
      BY <1>3, <3>1, XorIs
    <3> QED BY <3>2
  <2>4. Tok!MayMatch(four) <=> (Tok!HoleUnchanged(Tok!Word(four)) \/ Tok!HoleUnchanged(Tok!Word(d)))
    BY DEF Tok!MayMatch
  <2> HIDE DEF d
  <2>5. /\ d[1] \in 0 .. Tok!ByteSize - 1 /\ d[2] \in 0 .. Tok!ByteSize - 1
        /\ d[3] \in 0 .. Tok!ByteSize - 1 /\ d[4] \in 0 .. Tok!ByteSize - 1
    BY <2>2
  <2>6. Tok!HoleUnchanged(Tok!Word(d))
    BY <2>3, <2>5, WordIs
  <2> QED BY <2>4, <2>6
<1> QED BY <1>2, <1>3

-----------------------------------------------------------------------------
\* strchrnul has passed nothing it looks for, and what it has found is the first.
FindInv ==
    /\ bytes \in Memories /\ c \in Wanted /\ from \in 0 .. 3
    /\ char_ptr \in Nat /\ how \in {"chars", "words", "found"} /\ seen \in Int
    /\ from <= char_ptr /\ char_ptr <= Len(bytes) - 1
    /\ \A i \in from .. char_ptr - 1 : ~Tok!Matches(i)
    /\ how = "words" => char_ptr % 4 = 0
    /\ how = "found" => /\ seen \in char_ptr .. Len(bytes) - 1 /\ Tok!Matches(seen)
                        /\ \A i \in char_ptr .. seen - 1 : ~Tok!Matches(i)

\* The memory ends with a NUL at the end of a long word.
LEMMA MemoryEnds ==
    ASSUME bytes \in Memories
    PROVE  /\ Len(bytes) \in Nat /\ 4 <= Len(bytes) /\ Len(bytes) % 4 = 0
           /\ Tok!Matches(Len(bytes) - 1)
           /\ \A i \in 0 .. Len(bytes) - 1 : Tok!ByteAt(i) \in 0 .. Tok!ByteSize - 1
<1>1. /\ bytes \in Seq(0 .. Tok!ByteSize - 1) /\ bytes # <<>> /\ Len(bytes) % 4 = 0
      /\ bytes[Len(bytes)] = 0
  BY ByteBitsAre
<1> DEFINE l == Len(bytes)
           V == 0 .. Tok!ByteSize - 1
<1>2. l \in Nat /\ l # 0 /\ \A i \in 1 .. l : bytes[i] \in V
  <2>1. bytes \in Seq(V) /\ bytes # <<>>
    BY <1>1
  <2> HIDE DEF V
  <2> QED BY <2>1
<1>3. 4 <= l
  <2>1. l % 4 = 0
    BY <1>1
  <2> HIDE DEF l
  <2> QED BY <1>2, <2>1
<1>4. Tok!ByteAt(l - 1) = 0
  <2>1. (l - 1) + 1 = l
    BY <1>2
  <2> QED BY <1>1, <2>1 DEF Tok!ByteAt
<1>5. ASSUME NEW i \in 0 .. l - 1 PROVE Tok!ByteAt(i) \in V
  <2>1. i + 1 \in 1 .. l
    BY <1>2
  <2> QED BY <1>2, <2>1 DEF Tok!ByteAt
<1> QED BY <1>1, <1>2, <1>3, <1>4, <1>5 DEF Tok!Matches

LEMMA FindStarts ==
    ASSUME Tok!FindInit
    PROVE  FindInv
<1>1. /\ bytes \in Memories /\ from \in 0 .. 3 /\ c \in Wanted /\ char_ptr = from
      /\ how = "chars" /\ seen = -1
  BY DEF Tok!FindInit
<1>2. Len(bytes) \in Nat /\ 4 <= Len(bytes)
  BY <1>1, MemoryEnds
<1> QED BY <1>1, <1>2 DEF FindInv

LEMMA FindChar ==
    ASSUME FindInv, Tok!OneChar
    PROVE  FindInv'
<1>1. how = "chars" /\ UNCHANGED <<bytes, from, c>>
  BY DEF Tok!OneChar
<1>2. /\ bytes \in Memories /\ c \in Wanted /\ from \in 0 .. 3 /\ char_ptr \in Nat /\ seen \in Int
      /\ from <= char_ptr /\ char_ptr <= Len(bytes) - 1
      /\ \A i \in from .. char_ptr - 1 : ~Tok!Matches(i)
  BY DEF FindInv
<1>3. Len(bytes) \in Nat /\ 4 <= Len(bytes) /\ Tok!Matches(Len(bytes) - 1)
  BY <1>2, MemoryEnds
<1>4. \A i : Tok!Matches(i)' <=> Tok!Matches(i)
  BY <1>1 DEF Tok!Matches, Tok!ByteAt
<1>5. CASE char_ptr % 4 = 0 /\ how' = "words" /\ UNCHANGED <<char_ptr, seen>>
  BY <1>1, <1>2, <1>4, <1>5 DEF FindInv
<1>6. CASE Tok!Matches(char_ptr) /\ how' = "found" /\ seen' = char_ptr /\ UNCHANGED char_ptr
  BY <1>1, <1>2, <1>3, <1>4, <1>6 DEF FindInv
<1>7. CASE ~Tok!Matches(char_ptr) /\ char_ptr' = char_ptr + 1 /\ UNCHANGED <<how, seen>>
  <2>1. char_ptr + 1 <= Len(bytes) - 1
    BY <1>2, <1>3, <1>7
  <2>2. \A i \in from .. (char_ptr + 1) - 1 : ~Tok!Matches(i)
    <3> SUFFICES ASSUME NEW i \in from .. (char_ptr + 1) - 1 PROVE ~Tok!Matches(i)
      OBVIOUS
    <3>1. i \in from .. char_ptr - 1 \/ i = char_ptr
      BY <1>2
    <3> QED BY <1>2, <1>7, <3>1
  <2>3. char_ptr + 1 \in Nat /\ from <= char_ptr + 1
    BY <1>2
  <2> QED BY <1>1, <1>2, <1>4, <1>7, <2>1, <2>2, <2>3 DEF FindInv
<1> QED BY <1>5, <1>6, <1>7 DEF Tok!OneChar

LEMMA FourOf ==
    ASSUME NEW T, NEW s \in Seq(T), NEW n \in Nat, n + 4 <= Len(s), NEW i \in 1 .. 4
    PROVE  SubSeq(s, n + 1, n + 4)[i] = s[n + i]
OBVIOUS

LEMMA FindWord ==
    ASSUME FindInv, Tok!OneWord
    PROVE  FindInv'
<1>1. how = "words" /\ UNCHANGED <<bytes, from, c>>
  BY DEF Tok!OneWord
<1>2. /\ bytes \in Memories /\ c \in Wanted /\ from \in 0 .. 3 /\ char_ptr \in Nat /\ seen \in Int
      /\ from <= char_ptr /\ char_ptr <= Len(bytes) - 1 /\ char_ptr % 4 = 0
      /\ \A i \in from .. char_ptr - 1 : ~Tok!Matches(i)
  BY <1>1 DEF FindInv
<1>3. /\ Len(bytes) \in Nat /\ Len(bytes) % 4 = 0 /\ Tok!Matches(Len(bytes) - 1)
      /\ \A i \in 0 .. Len(bytes) - 1 : Tok!ByteAt(i) \in 0 .. Tok!ByteSize - 1
  BY <1>2, MemoryEnds
<1>4. \A i : Tok!Matches(i)' <=> Tok!Matches(i)
  BY <1>1 DEF Tok!Matches, Tok!ByteAt
<1> DEFINE l == Len(bytes)
<1>5. char_ptr + 3 <= l - 1
  <2>1. l % 4 = 0 /\ l \in Nat /\ char_ptr <= l - 1 /\ char_ptr % 4 = 0 /\ char_ptr \in Nat
    BY <1>2, <1>3
  <2> HIDE DEF l
  <2> QED BY <2>1
<1> HIDE DEF l
<1>6. Tok!Matching(char_ptr) \subseteq char_ptr .. char_ptr + 3
  BY DEF Tok!Matching
<1>7. CASE /\ Tok!Matching(char_ptr) # {} /\ how' = "found" /\ UNCHANGED char_ptr
           /\ seen' = Tok!Min(Tok!Matching(char_ptr))
  <2> DEFINE S == Tok!Matching(char_ptr)
  <2>1. S \subseteq Nat
    BY <1>2, <1>6
  <2>2. \E m \in S : \A k \in S : m <= k
    <3> HIDE DEF S
    <3> QED BY <1>7, <2>1, LeastNumber DEF S
  <2>3. seen' \in S /\ \A k \in S : seen' <= k
    <3> HIDE DEF S
    <3> QED BY <1>7, <2>2 DEF Tok!Min, S
  <2>4. Tok!Matches(seen') /\ seen' \in char_ptr .. char_ptr + 3
    BY <2>3 DEF Tok!Matching
  <2>5. \A i \in char_ptr .. seen' - 1 : ~Tok!Matches(i)
    <3> SUFFICES ASSUME NEW i \in char_ptr .. seen' - 1, Tok!Matches(i) PROVE FALSE
      OBVIOUS
    <3> DEFINE s == seen'
    <3>0. s \in char_ptr .. char_ptr + 3 /\ i \in char_ptr .. s - 1
      BY <2>4
    <3> HIDE DEF s
    <3>9. i \in char_ptr .. char_ptr + 3 /\ ~(s <= i)
      BY <1>2, <3>0
    <3>1. i \in char_ptr .. char_ptr + 3 /\ ~(seen' <= i)
      BY <3>9 DEF s
    <3>2. i \in S
      BY <3>1 DEF Tok!Matching
    <3> QED BY <2>3, <3>1, <3>2
  <2>6. seen' \in Int /\ seen' \in char_ptr .. l - 1
    BY <1>2, <1>3, <1>5, <2>4 DEF l
  <2> HIDE DEF S
  <2>8. char_ptr' = char_ptr /\ how' = "found" /\ bytes' = bytes /\ c' = c /\ from' = from
    BY <1>1, <1>7
  <2> QED BY <1>2, <1>4, <2>4, <2>5, <2>6, <2>8 DEF FindInv, l
<1>8. CASE /\ ~(Tok!MayMatch(Tok!FourBytes(char_ptr)) /\ Tok!Matching(char_ptr) # {})
           /\ char_ptr' = char_ptr + 4 /\ UNCHANGED <<how, seen>>
  <2> DEFINE four == Tok!FourBytes(char_ptr)
  <2>1. ASSUME NEW i \in 1 .. 4 PROVE four[i] = Tok!ByteAt((char_ptr + i) - 1)
    <3>1. bytes \in Seq(0 .. Tok!ByteSize - 1)
      BY <1>2, ByteBitsAre
    <3> DEFINE V == 0 .. Tok!ByteSize - 1
    <3>2. SubSeq(bytes, char_ptr + 1, char_ptr + 4)[i] = bytes[char_ptr + i]
      <4>1. bytes \in Seq(V) /\ char_ptr \in Nat
        BY <1>2, <3>1
      <4>2. char_ptr + 4 <= Len(bytes)
        <5>1. l \in Nat /\ char_ptr \in Nat
          BY <1>2, <1>3 DEF l
        <5>2. char_ptr + 4 <= l
          BY <1>5, <5>1
        <5> QED BY <5>2 DEF l
      <4> HIDE DEF V
      <4> QED BY <4>1, <4>2, FourOf
    <3>3. char_ptr + i = ((char_ptr + i) - 1) + 1
      BY <1>2
    <3> QED BY <3>2, <3>3 DEF Tok!FourBytes, Tok!ByteAt
  <2> HIDE DEF four
  <2>2. ASSUME NEW i \in 1 .. 4 PROVE four[i] \in 0 .. Tok!ByteSize - 1
    <3>1. l \in Nat /\ char_ptr \in Nat
      BY <1>2, <1>3 DEF l
    <3>2. (char_ptr + i) - 1 \in 0 .. l - 1
      BY <1>5, <3>1
    <3> QED BY <1>3, <2>1, <3>2 DEF l
  <2>3. c \in 0 .. Tok!ByteSize - 1
    BY <1>2, ByteBitsAre
  <2>4. ASSUME NEW i \in char_ptr .. char_ptr + 3, Tok!Matches(i) PROVE FALSE
    <3> DEFINE k == (i - char_ptr) + 1
    <3>1. k \in 1 .. 4 /\ (char_ptr + k) - 1 = i
      BY <1>2
    <3>2. four[k] \in {c, 0}
      BY <2>1, <2>4, <3>1 DEF Tok!Matches
    <3> HIDE DEF k
    <3>3. Tok!MayMatch(four)
      BY <2>2, <2>3, <3>1, <3>2, WordShows
    <3>4. i \in Tok!Matching(char_ptr)
      BY <2>4 DEF Tok!Matching
    <3> QED BY <1>8, <3>3, <3>4 DEF four
  <2>5. char_ptr + 4 <= l - 1
    <3>1. l - 1 \in Nat /\ ~(l - 1 \in char_ptr .. char_ptr + 3)
      BY <1>2, <1>3, <2>4 DEF l
    <3>2. char_ptr <= l - 1
      BY <1>2 DEF l
    <3> QED BY <1>2, <3>1, <3>2
  <2>6. \A i \in from .. (char_ptr + 4) - 1 : ~Tok!Matches(i)
    <3> SUFFICES ASSUME NEW i \in from .. (char_ptr + 4) - 1 PROVE ~Tok!Matches(i)
      OBVIOUS
    <3>1. i \in from .. char_ptr - 1 \/ i \in char_ptr .. char_ptr + 3
      BY <1>2
    <3> QED BY <1>2, <2>4, <3>1
  <2>7. char_ptr + 4 \in Nat /\ from <= char_ptr + 4 /\ (char_ptr + 4) % 4 = 0
    BY <1>2
  <2> QED BY <1>1, <1>2, <1>4, <1>8, <2>5, <2>6, <2>7 DEF FindInv, l
<1> QED BY <1>7, <1>8 DEF Tok!OneWord

LEMMA FindSteps ==
    ASSUME FindInv, [Tok!FindNext]_findVars
    PROVE  FindInv'
<1>1. CASE Tok!OneChar
  BY <1>1, FindChar
<1>2. CASE Tok!OneWord
  BY <1>2, FindWord
<1>3. CASE UNCHANGED findVars
  BY <1>3 DEF FindInv, findVars, Tok!Matches, Tok!ByteAt
<1> QED BY <1>1, <1>2, <1>3 DEF Tok!FindNext

LEMMA FindSound ==
    ASSUME FindInv
    PROVE  Tok!FindTypeOK /\ Tok!FindsFirst
<1>1. Tok!FindTypeOK
  BY DEF FindInv, Tok!FindTypeOK
<1>2. Len(bytes) \in Nat /\ Tok!Matches(Len(bytes) - 1)
  BY MemoryEnds DEF FindInv
<1> DEFINE S == {i \in from .. Len(bytes) - 1 : Tok!Matches(i)}
<1>3. S \subseteq Nat /\ Len(bytes) - 1 \in S
  BY <1>2 DEF FindInv
<1>4. \E m \in S : \A k \in S : m <= k
  <2> HIDE DEF S
  <2> QED BY <1>3, LeastNumber
<1> DEFINE first == Tok!Min(S)
<1>5. first \in S /\ \A k \in S : first <= k
  <2> HIDE DEF S
  <2> QED BY <1>4 DEF Tok!Min
<1> HIDE DEF first
<1>6. char_ptr <= first
  <2>1. first \in from .. Len(bytes) - 1 /\ Tok!Matches(first)
    BY <1>5
  <2>2. ~(first \in from .. char_ptr - 1)
    BY <2>1 DEF FindInv
  <2> QED BY <1>2, <2>1, <2>2 DEF FindInv
<1>7. how = "found" => seen = first
  <2> SUFFICES ASSUME how = "found" PROVE seen = first
    OBVIOUS
  <2>1. /\ seen \in char_ptr .. Len(bytes) - 1 /\ Tok!Matches(seen) /\ from <= char_ptr
        /\ from \in 0 .. 3 /\ char_ptr \in Nat
        /\ \A i \in char_ptr .. seen - 1 : ~Tok!Matches(i)
    BY DEF FindInv
  <2>2. seen \in S
    <3> DEFINE l == Len(bytes)
    <3>1. /\ l \in Nat /\ seen \in char_ptr .. l - 1 /\ from <= char_ptr /\ from \in 0 .. 3
          /\ char_ptr \in Nat
      BY <1>2, <2>1
    <3>2. seen \in from .. l - 1
      <4> HIDE DEF l
      <4> QED BY <3>1
    <3> QED BY <2>1, <3>2
  <2>3. first <= seen
    BY <1>5, <2>2
  <2>4. Tok!Matches(first) /\ first \in Int
    BY <1>2, <1>5, <2>1
  <2>5. ~(first \in char_ptr .. seen - 1)
    BY <2>1, <2>4
  <2> QED BY <1>2, <1>6, <2>1, <2>3, <2>4, <2>5
<1>8. Tok!FindsFirst <=> (char_ptr <= first /\ (how = "found" => seen = first))
  BY DEF Tok!FindsFirst, first
<1> QED BY <1>1, <1>6, <1>7, <1>8

\* Whatever the jar holds, Getcookie finds exactly what is in it; and the addition
\* that strchrnul tests four bytes with misses none, for bytes of every size and
\* every memory: it finds the first of its characters.
THEOREM SearchesAlwaysAnswer == UtilitiesSpec => []SearchesAnswer
<1>1. UtilitiesInit => JarInv /\ FindInv
  BY PartsStart, JarStarts, FindStarts
<1>2. JarInv /\ FindInv /\ [UtilitiesNext]_utilityVars => JarInv' /\ FindInv'
  BY PartsStep, JarSteps, FindSteps
<1>3. JarInv /\ FindInv => SearchesAnswer
  BY JarSound, FindSound DEF SearchesAnswer
<1> QED BY <1>1, <1>2, <1>3, PTL DEF UtilitiesSpec

-----------------------------------------------------------------------------
(* strtok, strtok_r and strsep.                                            *)

\* Behind the tokens handed out so far, and the delimiter at the end of the last.
BehindAll(toks) ==
    IF toks = <<>> THEN 1 ELSE (toks[Len(toks)].from + toks[Len(toks)].count) + 1

\* One string: its text at first, what it holds now, and its tokens so far: they are
\* all there are in front of the place behind them, in order, and still in the string;
\* what is behind that place is as it was.
TokenSet == [from : Nat, count : Nat]
Passed(text, now, toks, mayBeEmpty) ==
    /\ text \in Seq(STRING \ {Tok!Terminator}) /\ now \in Seq(STRING) /\ toks \in Seq(TokenSet)
    /\ Len(now) = Len(text)
    /\ \A i \in 1 .. Len(toks) : /\ toks[i] \in Tok!AllTokens(text, mayBeEmpty)
                                 /\ toks[i].from + toks[i].count < BehindAll(toks)
    /\ \A i, j \in 1 .. Len(toks) : i < j => toks[i].from + toks[i].count < toks[j].from
    /\ \A t \in Tok!AllTokens(text, mayBeEmpty) :
         t.from < BehindAll(toks) => \E i \in 1 .. Len(toks) : toks[i] = t
    /\ \A k \in 1 .. Len(text) : BehindAll(toks) <= k => now[k] = text[k]
    /\ \A i \in 1 .. Len(toks) :
         /\ \A k \in toks[i].from .. (toks[i].from + toks[i].count) - 1 : now[k] = text[k]
         /\ Tok!CharAt(now, toks[i].from + toks[i].count) = Tok!Terminator

LEMMA CharactersAre ==
    /\ Tok!Terminator \in STRING /\ Tok!Terminator \notin Delim
    /\ \A txt \in TokenTexts : txt \in Seq(STRING \ {Tok!Terminator})
BY UtilitiesAssumption DEF Tok!TokensAssumption

LEMMA UsesAre ==
    /\ \A u \in Uses : /\ u.f = "strtok" \/ u.f = "strtok_r" \/ u.f = "strsep"
                       /\ u.name # "" /\ u.name # "save_ptr"
    /\ \A u, v \in Uses : u.name = v.name => u = v
BY UtilitiesAssumption DEF Tok!TokensAssumption

LEMMA ChangedOne ==
    ASSUME NEW T, NEW old \in Seq(T), NEW j \in 1 .. Len(old), NEW x \in T
    PROVE  LET new == [old EXCEPT ![j] = x]
           IN  /\ new \in Seq(T) /\ Len(new) = Len(old) /\ new[j] = x
               /\ \A k \in 1 .. Len(old) : k # j => new[k] = old[k]
OBVIOUS

LEMMA BehindAllIs ==
    ASSUME NEW toks \in Seq(TokenSet)
    PROVE  /\ BehindAll(toks) \in Nat \ {0} /\ Len(toks) \in Nat
           /\ \A i \in 1 .. Len(toks) : toks[i] \in TokenSet
           /\ \A t \in TokenSet :
                /\ Append(toks, t) \in Seq(TokenSet) /\ Len(Append(toks, t)) = Len(toks) + 1
                /\ \A i \in 1 .. Len(toks) : Append(toks, t)[i] = toks[i]
                /\ Append(toks, t)[Len(toks) + 1] = t
                /\ BehindAll(Append(toks, t)) = (t.from + t.count) + 1
<1>1. Len(toks) \in Nat /\ \A i \in 1 .. Len(toks) : toks[i] \in TokenSet
  <2> HIDE DEF TokenSet
  <2> QED OBVIOUS
<1>2. toks # <<>> => Len(toks) \in 1 .. Len(toks)
  <2> HIDE DEF TokenSet
  <2> QED OBVIOUS
<1>3. BehindAll(toks) \in Nat \ {0}
  <2>1. CASE toks = <<>>
    BY <2>1 DEF BehindAll
  <2>2. CASE toks # <<>>
    <3>1. toks[Len(toks)] \in TokenSet
      BY <1>1, <1>2, <2>2
    <3>2. toks[Len(toks)].from \in Nat /\ toks[Len(toks)].count \in Nat
      BY <3>1 DEF TokenSet
    <3> QED BY <2>2, <3>2 DEF BehindAll
  <2> QED BY <2>1, <2>2
<1>4. ASSUME NEW t \in TokenSet
      PROVE  /\ Append(toks, t) \in Seq(TokenSet) /\ Len(Append(toks, t)) = Len(toks) + 1
             /\ \A i \in 1 .. Len(toks) : Append(toks, t)[i] = toks[i]
             /\ Append(toks, t)[Len(toks) + 1] = t /\ Append(toks, t) # <<>>
  OBVIOUS
<1>5. ASSUME NEW t \in TokenSet
      PROVE  BehindAll(Append(toks, t)) = (t.from + t.count) + 1
  BY <1>4 DEF BehindAll
<1> QED BY <1>1, <1>3, <1>4, <1>5

\* What a token is.
LEMMA TokenIs ==
    ASSUME NEW text \in Seq(STRING \ {Tok!Terminator}), NEW mayBeEmpty \in BOOLEAN, NEW t
    PROVE  t \in Tok!AllTokens(text, mayBeEmpty) <=>
             /\ t \in TokenSet /\ 1 <= t.from /\ t.from + t.count <= Len(text) + 1
             /\ \A i \in t.from .. (t.from + t.count) - 1 : text[i] \notin Delim
             /\ t.from = 1 \/ text[t.from - 1] \in Delim
             /\ t.from + t.count = Len(text) + 1 \/ text[t.from + t.count] \in Delim
             /\ mayBeEmpty \/ t.count > 0
<1> DEFINE l == Len(text)
<1>1. l \in Nat
  OBVIOUS
<1> HIDE DEF l
<1>2. t \in [from : 1 .. l + 1, count : 0 .. l] /\ t.from + t.count <= l + 1 <=>
        t \in TokenSet /\ 1 <= t.from /\ t.from + t.count <= l + 1
  BY <1>1 DEF TokenSet
<1> QED BY <1>2 DEF Tok!AllTokens, Tok!IsToken, l

\* FirstOf: the first place from i on with a character of the set, or the end.
LEMMA FirstIs ==
    ASSUME NEW now \in Seq(STRING), NEW i \in Nat \ {0}, i <= Len(now) + 1, NEW set
    PROVE  LET place == Tok!FirstOf(now, i, set)
           IN  /\ place \in i .. Len(now) + 1
               /\ Tok!CharAt(now, place) \in set \cup {Tok!Terminator}
               /\ \A k \in i .. place - 1 : now[k] \notin set \cup {Tok!Terminator}
<1> DEFINE l == Len(now)
           place == Tok!FirstOf(now, i, set)
           S == {k \in i .. l + 1 : Tok!CharAt(now, k) \in set \cup {Tok!Terminator}}
<1>1. l \in Nat /\ i <= l + 1
  OBVIOUS
<1>2. Tok!CharAt(now, l + 1) = Tok!Terminator
  BY <1>1 DEF Tok!CharAt
<1>3. \A k \in i .. l : Tok!CharAt(now, k) = now[k]
  BY <1>1 DEF Tok!CharAt
<1> HIDE DEF l
<1>4. S \subseteq Nat /\ l + 1 \in S
  BY <1>1, <1>2
<1>5. \E m \in S : \A k \in S : m <= k
  <2> HIDE DEF S
  <2> QED BY <1>4, LeastNumber
<1>6. place = Tok!Min(S)
  BY DEF Tok!FirstOf, l
<1> HIDE DEF place
<1>7. place \in S /\ \A k \in S : place <= k
  <2> HIDE DEF S
  <2> QED BY <1>5, <1>6 DEF Tok!Min
<1>8. ASSUME NEW k \in i .. place - 1 PROVE now[k] \notin set \cup {Tok!Terminator}
  <2>1. k \in i .. l /\ ~(place <= k)
    BY <1>1, <1>7
  <2>2. k \in i .. l + 1
    BY <1>1, <2>1
  <2>3. k \notin S
    BY <1>7, <2>1
  <2> QED BY <1>3, <2>1, <2>2, <2>3
<1> QED BY <1>7, <1>8 DEF place, l

\* Two tokens that begin at the same place are one.
LEMMA TokensUnique ==
    ASSUME NEW text \in Seq(STRING \ {Tok!Terminator}), NEW mayBeEmpty \in BOOLEAN,
           NEW t \in Tok!AllTokens(text, mayBeEmpty), NEW v \in Tok!AllTokens(text, mayBeEmpty),
           t.from = v.from
    PROVE  t = v
<1>1. Len(text) \in Nat
  OBVIOUS
<1>2. /\ t \in TokenSet /\ 1 <= t.from /\ t.from + t.count <= Len(text) + 1
      /\ \A k \in t.from .. (t.from + t.count) - 1 : text[k] \notin Delim
      /\ t.from + t.count = Len(text) + 1 \/ text[t.from + t.count] \in Delim
  BY TokenIs
<1>3. /\ v \in TokenSet /\ 1 <= v.from /\ v.from + v.count <= Len(text) + 1
      /\ \A k \in v.from .. (v.from + v.count) - 1 : text[k] \notin Delim
      /\ v.from + v.count = Len(text) + 1 \/ text[v.from + v.count] \in Delim
  BY TokenIs
<1>4. /\ t.from \in Nat /\ t.count \in Nat /\ v.count \in Nat /\ v.from \in Nat
      /\ t = [from |-> t.from, count |-> t.count] /\ v = [from |-> v.from, count |-> v.count]
  BY <1>2, <1>3 DEF TokenSet
<1>5. ASSUME t.count < v.count PROVE FALSE
  <2> DEFINE e == t.from + t.count
  <2>1. e \in v.from .. (v.from + v.count) - 1 /\ e # Len(text) + 1
    BY <1>1, <1>3, <1>4, <1>5
  <2> QED BY <1>2, <1>3, <2>1
<1>6. ASSUME v.count < t.count PROVE FALSE
  <2> DEFINE e == v.from + v.count
  <2>1. e \in t.from .. (t.from + t.count) - 1 /\ e # Len(text) + 1
    BY <1>1, <1>2, <1>4, <1>6
  <2> QED BY <1>2, <1>3, <2>1
<1>7. t.count = v.count
  BY <1>4, <1>5, <1>6
<1> QED BY <1>4, <1>7

\* Give: the token from i on, to the next delimiter, is handed out; in front of it
\* there are only delimiters, which strsep takes for tokens of their own.
MayGive(text, now, toks, mayBeEmpty, i) ==
    /\ Passed(text, now, toks, mayBeEmpty)
    /\ i \in BehindAll(toks) .. Len(text) + 1
    /\ \A k \in BehindAll(toks) .. i - 1 : text[k] \in Delim
    /\ mayBeEmpty => i = BehindAll(toks)
    /\ ~mayBeEmpty => i <= Len(text) /\ text[i] \notin Delim

Given(text, now, toks, mayBeEmpty, i, j) ==
    LET more == Append(toks, [from |-> i, count |-> j - i])
    IN  /\ j \in i .. Len(text) + 1
        /\ Passed(text, Tok!Cut(now, j), more, mayBeEmpty)
        /\ more # <<>> /\ BehindAll(more) = j + 1
        /\ Tok!CharAt(now, j) = Tok!Terminator => j = Len(text) + 1

LEMMA GivesNext ==
    ASSUME NEW text, NEW now, NEW toks, NEW mayBeEmpty \in BOOLEAN, NEW i,
           MayGive(text, now, toks, mayBeEmpty, i)
    PROVE  Given(text, now, toks, mayBeEmpty, i, Tok!FirstOf(now, i, Delim))
<1>0. /\ Passed(text, now, toks, mayBeEmpty)
      /\ i \in BehindAll(toks) .. Len(text) + 1
      /\ \A k \in BehindAll(toks) .. i - 1 : text[k] \in Delim
      /\ mayBeEmpty => i = BehindAll(toks)
      /\ ~mayBeEmpty => i <= Len(text) /\ text[i] \notin Delim
  BY DEF MayGive
<1> DEFINE l == Len(text)
           j == Tok!FirstOf(now, i, Delim)
           t == [from |-> i, count |-> j - i]
           cut == Tok!Cut(now, j)
           more == Append(toks, t)
           b0 == BehindAll(toks)
<1>1. /\ text \in Seq(STRING \ {Tok!Terminator}) /\ now \in Seq(STRING) /\ toks \in Seq(TokenSet)
      /\ Len(now) = l /\ l \in Nat
      /\ \A k \in 1 .. l : b0 <= k => now[k] = text[k]
  BY <1>0 DEF Passed
<1>2. /\ b0 \in Nat \ {0} /\ Len(toks) \in Nat /\ \A k \in 1 .. Len(toks) : toks[k] \in TokenSet
  BY <1>1, BehindAllIs
<1>3. \A k \in 1 .. l : text[k] # Tok!Terminator
  <2> DEFINE C == STRING \ {Tok!Terminator}
  <2>1. text \in Seq(C)
    BY <1>1
  <2>2. \A k \in 1 .. l : text[k] \in C
    <3> HIDE DEF C
    <3> QED BY <2>1
  <2> QED BY <2>2
<1> HIDE DEF l, b0
<1>4. i \in Nat \ {0} /\ b0 <= i /\ i <= l + 1
  BY <1>0, <1>1, <1>2 DEF l, b0
<1>5. /\ j \in i .. l + 1 /\ Tok!CharAt(now, j) \in Delim \cup {Tok!Terminator}
      /\ \A k \in i .. j - 1 : now[k] \notin Delim \cup {Tok!Terminator}
  BY <1>1, <1>4, FirstIs
<1> HIDE DEF j
<1>6. j \in Nat /\ i <= j /\ j <= l + 1
  BY <1>1, <1>4, <1>5
<1>7. \A k \in i .. j - 1 : k \in 1 .. l /\ now[k] = text[k] /\ text[k] \notin Delim
  <2> SUFFICES ASSUME NEW k \in i .. j - 1
               PROVE  k \in 1 .. l /\ now[k] = text[k] /\ text[k] \notin Delim
    OBVIOUS
  <2>1. k \in 1 .. l /\ b0 <= k
    BY <1>1, <1>2, <1>4, <1>6
  <2> QED BY <1>1, <1>5, <2>1
<1>8. j = l + 1 \/ (j \in 1 .. l /\ now[j] = text[j] /\ text[j] \in Delim
                      /\ Tok!CharAt(now, j) # Tok!Terminator)
  <2> SUFFICES ASSUME j # l + 1
               PROVE  j \in 1 .. l /\ now[j] = text[j] /\ text[j] \in Delim
                        /\ Tok!CharAt(now, j) # Tok!Terminator
    OBVIOUS
  <2>1. j \in 1 .. l /\ b0 <= j
    BY <1>1, <1>2, <1>4, <1>6
  <2>2. now[j] = text[j] /\ text[j] # Tok!Terminator
    BY <1>1, <1>3, <2>1
  <2>3. Tok!CharAt(now, j) = now[j]
    BY <1>1, <2>1 DEF Tok!CharAt
  <2> QED BY <1>5, <2>1, <2>2, <2>3
<1>9. t \in TokenSet /\ t.from = i /\ t.count = j - i /\ t.from + t.count = j
  BY <1>4, <1>6 DEF TokenSet
<1>10. /\ more \in Seq(TokenSet) /\ Len(more) = Len(toks) + 1
       /\ \A k \in 1 .. Len(toks) : more[k] = toks[k]
       /\ more[Len(toks) + 1] = t /\ BehindAll(more) = j + 1 /\ more # <<>>
  <2>1. BehindAll(more) = (t.from + t.count) + 1
    BY <1>1, <1>9, BehindAllIs
  <2>2. /\ more \in Seq(TokenSet) /\ Len(more) = Len(toks) + 1
        /\ \A k \in 1 .. Len(toks) : more[k] = toks[k]
        /\ more[Len(toks) + 1] = t
    BY <1>1, <1>9, BehindAllIs
  <2>3. more # <<>>
    <3> HIDE DEF t
    <3> QED BY <1>1, <1>9
  <2> QED BY <1>9, <2>1, <2>2, <2>3
\* The text with the delimiter cut out.
<1>11. /\ cut \in Seq(STRING) /\ Len(cut) = l
       /\ \A k \in 1 .. l : k # j => cut[k] = now[k]
       /\ \A k \in Nat : k # j /\ 1 <= k => Tok!CharAt(cut, k) = Tok!CharAt(now, k)
       /\ Tok!CharAt(cut, j) = Tok!Terminator
  <2>1. CASE j <= l
    <3>1. cut = [now EXCEPT ![j] = Tok!Terminator] /\ j \in 1 .. l
      BY <1>1, <1>4, <1>6, <2>1 DEF Tok!Cut
    <3>2. Tok!Terminator \in STRING
      BY CharactersAre
    <3> HIDE DEF cut
    <3>3. /\ cut \in Seq(STRING) /\ Len(cut) = l /\ cut[j] = Tok!Terminator
          /\ \A k \in 1 .. l : k # j => cut[k] = now[k]
      <4>1. now \in Seq(STRING) /\ j \in 1 .. Len(now) /\ Len(now) = l
        BY <1>1, <3>1
      <4> DEFINE new == [now EXCEPT ![j] = Tok!Terminator]
      <4>2. /\ new \in Seq(STRING) /\ Len(new) = Len(now) /\ new[j] = Tok!Terminator
            /\ \A k \in 1 .. Len(now) : k # j => new[k] = now[k]
        <5> DEFINE T == STRING
                   x == Tok!Terminator
        <5>1. now \in Seq(T) /\ j \in 1 .. Len(now) /\ x \in T
          BY <3>2, <4>1
        <5> HIDE DEF T, x
        <5>2. /\ [now EXCEPT ![j] = x] \in Seq(T) /\ Len([now EXCEPT ![j] = x]) = Len(now)
              /\ [now EXCEPT ![j] = x][j] = x
              /\ \A k \in 1 .. Len(now) : k # j => [now EXCEPT ![j] = x][k] = now[k]
          BY <5>1, ChangedOne
        <5> QED BY <5>2 DEF T, x
      <4>3. cut = new
        BY <3>1
      <4> HIDE DEF new
      <4> QED BY <4>1, <4>2, <4>3
    <3> QED BY <1>1, <2>1, <3>1, <3>3 DEF Tok!CharAt
  <2>2. CASE ~(j <= l)
    <3>1. cut = now
      BY <1>1, <2>2 DEF Tok!Cut
    <3> HIDE DEF cut
    <3> QED BY <1>1, <1>6, <2>2, <3>1 DEF Tok!CharAt
  <2> QED BY <2>1, <2>2
<1> HIDE DEF cut
\* The new token is one.
<1>12. i = 1 \/ text[i - 1] \in Delim
  <2>1. CASE b0 < i
    <3>1. i - 1 \in b0 .. i - 1
      BY <1>2, <1>4, <2>1
    <3> QED BY <1>0, <3>1 DEF b0
  <2>2. CASE b0 = i /\ toks = <<>>
    BY <2>2 DEF b0, BehindAll
  <2>3. CASE b0 = i /\ toks # <<>>
    <3> DEFINE last == toks[Len(toks)]
    <3>1. Len(toks) \in 1 .. Len(toks)
      <4> HIDE DEF TokenSet
      <4> QED BY <1>1, <2>3
    <3>2. last \in Tok!AllTokens(text, mayBeEmpty)
      BY <1>0, <3>1 DEF Passed
    <3>3. last.from + last.count = l + 1 \/ text[last.from + last.count] \in Delim
      BY <1>1, <3>2, TokenIs DEF l
    <3>4. b0 = (last.from + last.count) + 1 /\ last.from \in Nat /\ last.count \in Nat
      BY <1>2, <2>3, <3>1 DEF b0, BehindAll, TokenSet
    <3> HIDE DEF last
    <3>5. last.from + last.count = i - 1 /\ i - 1 # l + 1
      BY <1>1, <1>4, <2>3, <3>4
    <3> QED BY <3>3, <3>5
  <2> QED BY <1>2, <1>4, <2>1, <2>2, <2>3
<1>13. mayBeEmpty \/ t.count > 0
  <2> SUFFICES ASSUME ~mayBeEmpty PROVE t.count > 0
    OBVIOUS
  <2>1. i <= l /\ text[i] \notin Delim
    BY <1>0 DEF l
  <2>2. j # i
    BY <1>1, <1>8, <2>1
  <2> QED BY <1>4, <1>6, <1>9, <2>2
<1>14. t \in Tok!AllTokens(text, mayBeEmpty)
  <2>1. \A k \in t.from .. (t.from + t.count) - 1 : text[k] \notin Delim
    BY <1>7, <1>9
  <2>2. t.from = 1 \/ text[t.from - 1] \in Delim
    BY <1>9, <1>12
  <2>3. t.from + t.count = l + 1 \/ text[t.from + t.count] \in Delim
    BY <1>8, <1>9
  <2>4. 1 <= t.from /\ t.from + t.count <= l + 1
    BY <1>4, <1>6, <1>9
  <2> HIDE DEF t
  <2> QED BY <1>1, <1>9, <1>13, <2>1, <2>2, <2>3, <2>4, TokenIs DEF l
<1> HIDE DEF t, more
<1> DEFINE n == Len(toks)
           N == n + 1
<1>15. n \in Nat /\ Len(more) = N /\ \A k \in 1 .. N : k \in 1 .. n \/ k = N
  BY <1>2, <1>10
<1>16. \A k \in 1 .. n : /\ more[k] = toks[k] /\ toks[k] \in TokenSet
                         /\ toks[k] \in Tok!AllTokens(text, mayBeEmpty)
                         /\ toks[k].from + toks[k].count < b0
  BY <1>0, <1>2, <1>10 DEF Passed, b0
<1>17. more[N] = t
  BY <1>10
<1>18. \A k \in 1 .. n : toks[k].from \in Nat /\ toks[k].count \in Nat
  BY <1>16 DEF TokenSet
<1> HIDE DEF n
<1>19. ASSUME NEW k \in 1 .. N
       PROVE  /\ more[k] \in Tok!AllTokens(text, mayBeEmpty)
              /\ more[k].from + more[k].count < BehindAll(more)
  <2>1. CASE k \in 1 .. n
    <3>1. more[k].from + more[k].count < b0 /\ more[k] \in Tok!AllTokens(text, mayBeEmpty)
          /\ more[k].from + more[k].count \in Nat
      BY <1>16, <1>18, <2>1
    <3>2. b0 <= j + 1 /\ b0 \in Nat
      BY <1>2, <1>4, <1>6
    <3> QED BY <1>6, <1>10, <3>1, <3>2
  <2>2. CASE k = N
    BY <1>6, <1>9, <1>10, <1>14, <1>17, <2>2
  <2> QED BY <1>15, <2>1, <2>2
<1>20. ASSUME NEW k \in 1 .. N, NEW m \in 1 .. N, k < m
       PROVE  more[k].from + more[k].count < more[m].from
  <2>1. k \in 1 .. n
    BY <1>15, <1>20
  <2>2. CASE m \in 1 .. n
    <3>1. toks[k].from + toks[k].count < toks[m].from
      BY <1>0, <1>20, <2>1, <2>2 DEF Passed, n
    <3> QED BY <1>16, <2>1, <2>2, <3>1
  <2>3. CASE m = N
    <3>1. more[m].from = i /\ more[k].from + more[k].count < b0
          /\ more[k].from + more[k].count \in Nat
      BY <1>9, <1>16, <1>17, <1>18, <2>1, <2>3
    <3> QED BY <1>2, <1>4, <3>1
  <2> QED BY <1>15, <2>2, <2>3
\* None was passed over.
<1>21. ASSUME NEW v \in Tok!AllTokens(text, mayBeEmpty), v.from < BehindAll(more)
       PROVE  \E k \in 1 .. N : more[k] = v
  <2>1. /\ v \in TokenSet /\ 1 <= v.from /\ v.from + v.count <= l + 1
        /\ v.from = 1 \/ text[v.from - 1] \in Delim
        /\ mayBeEmpty \/ v.count > 0
    BY <1>1, TokenIs DEF l
  <2>2. \A k \in v.from .. (v.from + v.count) - 1 : text[k] \notin Delim
    BY <1>1, TokenIs DEF l
  <2>3. v.from \in Nat /\ v.count \in Nat /\ v.from <= j
    BY <1>6, <1>10, <1>21, <2>1 DEF TokenSet
  <2>4. CASE v.from < b0
    <3>1. PICK k \in 1 .. n : toks[k] = v
      BY <1>0, <2>4 DEF Passed, b0, n
    <3>2. k \in 1 .. N /\ more[k] = v
      BY <1>15, <1>16, <3>1
    <3> QED BY <3>2
  <2>5. CASE b0 <= v.from /\ v.from < i
    <3>1. v.from \in b0 .. i - 1
      BY <1>2, <1>4, <2>3, <2>5
    <3>2. text[v.from] \in Delim
      BY <1>0, <3>1 DEF b0
    <3>3. v.count > 0
      <4>1. b0 # i
        BY <1>2, <1>4, <2>3, <2>5
      <4> QED BY <1>0, <2>1, <4>1 DEF b0
    <3>4. v.from \in v.from .. (v.from + v.count) - 1
      BY <2>3, <3>3
    <3> QED BY <2>2, <3>2, <3>4
  <2>6. CASE v.from = i
    <3>1. v = t
      BY <1>1, <1>9, <1>14, <2>6, TokensUnique
    <3>2. N \in 1 .. N
      BY <1>15
    <3> QED BY <1>17, <3>1, <3>2
  <2>7. CASE i < v.from
    <3>1. v.from - 1 \in i .. j - 1 /\ v.from # 1
      BY <1>4, <1>6, <2>3, <2>7
    <3> QED BY <1>7, <2>1, <3>1
  <2> QED BY <1>2, <1>4, <2>3, <2>4, <2>5, <2>6, <2>7
<1>22. ASSUME NEW k \in 1 .. l, BehindAll(more) <= k PROVE cut[k] = text[k]
  <2>1. k # j /\ b0 <= k
    BY <1>1, <1>2, <1>4, <1>6, <1>10, <1>22
  <2> QED BY <1>1, <1>11, <2>1
<1>23. ASSUME NEW k \in 1 .. N
       PROVE  /\ \A m \in more[k].from .. (more[k].from + more[k].count) - 1 : cut[m] = text[m]
              /\ Tok!CharAt(cut, more[k].from + more[k].count) = Tok!Terminator
  <2>1. CASE k \in 1 .. n
    <3> DEFINE e == toks[k].from + toks[k].count
    <3>1. /\ \A m \in toks[k].from .. e - 1 : now[m] = text[m]
          /\ Tok!CharAt(now, e) = Tok!Terminator
      BY <1>0, <2>1 DEF Passed, n
    <3>2. e \in Nat /\ e < b0 /\ toks[k].from \in Nat /\ 1 <= toks[k].from /\ toks[k].from <= e
          /\ e <= l + 1
      <4>1. toks[k] \in Tok!AllTokens(text, mayBeEmpty) /\ e < b0
        BY <1>16, <2>1
      <4>2. 1 <= toks[k].from /\ e <= l + 1
        BY <1>1, <4>1, TokenIs DEF l
      <4> QED BY <1>18, <2>1, <4>1, <4>2
    <3> HIDE DEF e
    <3>3. e # j /\ 1 <= e
      BY <1>2, <1>4, <1>6, <3>2
    <3>4. Tok!CharAt(cut, e) = Tok!Terminator
      BY <1>11, <3>1, <3>2, <3>3
    <3>5. \A m \in toks[k].from .. e - 1 : m \in 1 .. l /\ m # j
      BY <1>1, <1>2, <1>4, <1>6, <3>2
    <3>6. \A m \in toks[k].from .. e - 1 : cut[m] = text[m]
      BY <1>11, <3>1, <3>5
    <3> QED BY <1>16, <2>1, <3>4, <3>6 DEF e
  <2>2. CASE k = N
    <3>1. more[k].from = i /\ more[k].from + more[k].count = j
      BY <1>9, <1>17, <2>2
    <3>2. \A m \in i .. j - 1 : cut[m] = text[m]
      <4> SUFFICES ASSUME NEW m \in i .. j - 1 PROVE cut[m] = text[m]
        OBVIOUS
      <4>1. m # j
        BY <1>4, <1>6
      <4> QED BY <1>7, <1>11, <4>1
    <3> QED BY <1>11, <3>1, <3>2
  <2> QED BY <1>15, <2>1, <2>2
<1>24. Passed(text, cut, more, mayBeEmpty)
  <2>1. Len(more) = N /\ Len(text) = l
    BY <1>15 DEF l
  <2> HIDE DEF N, l
  <2> QED BY <1>1, <1>10, <1>11, <1>19, <1>20, <1>21, <1>22, <1>23, <2>1 DEF Passed
<1> QED BY <1>5, <1>8, <1>10, <1>24 DEF l, j, t, cut, more, Given

\* Where the next token of a use is looked for: behind those it has had; when there is
\* no such place any more, they were all.
UseFits(u, text, now, toks, point) ==
    /\ Passed(text, now, toks, u.f = "strsep")
    /\ point.of = u.name =>
         toks # <<>> /\ point.place = BehindAll(toks) /\ BehindAll(toks) <= Len(text) + 1
    /\ u.f # "strtok" /\ toks # <<>> /\ point = Tok!NULL =>
         \A t \in Tok!AllTokens(text, u.f = "strsep") : t.from < BehindAll(toks)

StringNames == {u.name : u \in Uses}
PointIs(p, point) ==
    point = Tok!NULL \/ \E u \in Uses : /\ Tok!PointOf(u) = p /\ point.of = u.name
                                        /\ point = [of |-> u.name, place |-> point.place]
                                        /\ point.place \in Nat
TokInv ==
    /\ held \in [StringNames -> TokenTexts] /\ string \in [StringNames -> Seq(STRING)]
    /\ got \in [StringNames -> Seq(TokenSet)] /\ scanpoint = [p \in Tok!Points |-> scanpoint[p]]
    /\ \A p \in Tok!Points : PointIs(p, scanpoint[p])
    /\ \A u \in Uses :
         UseFits(u, held[u.name], string[u.name], got[u.name], scanpoint[Tok!PointOf(u)])

LEMMA PointsAre ==
    ASSUME NEW u \in Uses
    PROVE  /\ u.name \in StringNames /\ Tok!PointOf(u) \in Tok!Points
           /\ u.f # "strtok" => Tok!PointOf(u) = u.name
           /\ u.f = "strtok" => Tok!PointOf(u) = "save_ptr"
           /\ \A v \in Uses : Tok!PointOf(v) = Tok!PointOf(u) => v = u \/ u.f = "strtok"
           /\ Tok!NULL.of # u.name
BY UsesAre DEF StringNames, Tok!PointOf, Tok!Points, Tok!NULL

LEMMA PassedNone ==
    ASSUME NEW text \in TokenTexts, NEW mayBeEmpty \in BOOLEAN
    PROVE  Passed(text, text, <<>>, mayBeEmpty) /\ BehindAll(<<>>) = 1
<1>1. text \in Seq(STRING \ {Tok!Terminator})
  BY CharactersAre
<1>2. text \in Seq(STRING)
  BY <1>1
<1>3. BehindAll(<<>>) = 1
  BY DEF BehindAll
<1>4. <<>> \in Seq(TokenSet) /\ Len(<<>>) = 0
  OBVIOUS
<1>5. \A t \in Tok!AllTokens(text, mayBeEmpty) : ~(t.from < 1)
  <2> SUFFICES ASSUME NEW t \in Tok!AllTokens(text, mayBeEmpty) PROVE ~(t.from < 1)
    OBVIOUS
  <2>1. t \in TokenSet /\ 1 <= t.from
    BY <1>1, TokenIs
  <2> QED BY <2>1 DEF TokenSet
<1> DEFINE none == <<>>
<1>6. none \in Seq(TokenSet) /\ Len(none) = 0 /\ BehindAll(none) = 1
  BY <1>3, <1>4
<1> HIDE DEF none
<1>7. Passed(text, text, none, mayBeEmpty)
  BY <1>1, <1>2, <1>5, <1>6 DEF Passed
<1> QED BY <1>3, <1>7 DEF none

LEMMA TokStarts ==
    ASSUME Tok!TokensInit
    PROVE  TokInv
<1>1. /\ held \in [StringNames -> TokenTexts] /\ string = held
      /\ scanpoint = [p \in Tok!Points |-> Tok!NULL] /\ got = [n \in StringNames |-> <<>>]
  <2>1. held \in [StringNames -> TokenTexts] /\ string = held
        /\ scanpoint = [p \in Tok!Points |-> Tok!NULL] /\ got = [n \in DOMAIN held |-> <<>>]
    BY DEF Tok!TokensInit, StringNames
  <2> QED BY <2>1
<1>2. string \in [StringNames -> Seq(STRING)]
  <2>1. \A n \in StringNames : held[n] \in Seq(STRING)
    <3> SUFFICES ASSUME NEW n \in StringNames PROVE held[n] \in Seq(STRING)
      OBVIOUS
    <3>1. held[n] \in Seq(STRING \ {Tok!Terminator})
      BY <1>1, CharactersAre
    <3> QED BY <3>1
  <2> QED BY <1>1, <2>1
<1>3. got \in [StringNames -> Seq(TokenSet)]
  BY <1>1
<1>4. \A p \in Tok!Points : scanpoint[p] = Tok!NULL /\ PointIs(p, scanpoint[p])
  BY <1>1 DEF PointIs
<1>5. ASSUME NEW u \in Uses
      PROVE  UseFits(u, held[u.name], string[u.name], got[u.name], scanpoint[Tok!PointOf(u)])
  <2>1. /\ held[u.name] \in TokenTexts /\ string[u.name] = held[u.name] /\ got[u.name] = <<>>
        /\ scanpoint[Tok!PointOf(u)] = Tok!NULL /\ Tok!NULL.of # u.name
    BY <1>1, <1>4, PointsAre
  <2>2. Passed(held[u.name], held[u.name], <<>>, u.f = "strsep")
    BY <2>1, PassedNone
  <2> QED BY <2>1, <2>2 DEF UseFits
<1>6. scanpoint = [p \in Tok!Points |-> scanpoint[p]]
  BY <1>1
<1> QED BY <1>1, <1>2, <1>3, <1>4, <1>5, <1>6 DEF TokInv

\* What a call does to the other strings: at most it takes strtok's own place from them.
LEMMA OthersFit ==
    ASSUME NEW u \in Uses, NEW v \in Uses, v # u, NEW text, NEW now, NEW toks, NEW old, NEW new,
           UseFits(v, text, now, toks, old),
           Tok!PointOf(v) # Tok!PointOf(u) => new = old,
           Tok!PointOf(v) = Tok!PointOf(u) => new = Tok!NULL \/ new.of = u.name
    PROVE  UseFits(v, text, now, toks, new)
<1>1. CASE Tok!PointOf(v) # Tok!PointOf(u)
  BY <1>1
<1>2. CASE Tok!PointOf(v) = Tok!PointOf(u)
  <2>1. v.f = "strtok"
    BY <1>2, PointsAre
  <2>2. new.of # v.name
    BY <1>2, PointsAre, UsesAre
  <2> QED BY <2>1, <2>2 DEF UseFits
<1> QED BY <1>1, <1>2

\* A step that changes what is known of one use, as a whole.
LEMMA OneUse ==
    ASSUME TokInv, NEW u \in Uses, NEW now \in Seq(STRING), NEW toks \in Seq(TokenSet), NEW point,
           UNCHANGED held, string' = [string EXCEPT ![u.name] = now],
           got' = [got EXCEPT ![u.name] = toks],
           scanpoint' = [scanpoint EXCEPT ![Tok!PointOf(u)] = point],
           point = Tok!NULL \/ (/\ point.of = u.name /\ point.place \in Nat
                                /\ point = [of |-> u.name, place |-> point.place]),
           UseFits(u, held[u.name], now, toks, point)
    PROVE  TokInv'
<1>1. /\ held \in [StringNames -> TokenTexts] /\ string \in [StringNames -> Seq(STRING)]
      /\ got \in [StringNames -> Seq(TokenSet)] /\ DOMAIN scanpoint = Tok!Points
      /\ \A p \in Tok!Points : PointIs(p, scanpoint[p])
      /\ \A v \in Uses :
           UseFits(v, held[v.name], string[v.name], got[v.name], scanpoint[Tok!PointOf(v)])
  BY DEF TokInv
<1>2. u.name \in StringNames /\ Tok!PointOf(u) \in Tok!Points
  BY PointsAre
<1>3. /\ string' \in [StringNames -> Seq(STRING)] /\ got' \in [StringNames -> Seq(TokenSet)]
      /\ string'[u.name] = now /\ got'[u.name] = toks
      /\ \A n \in StringNames : n # u.name => string'[n] = string[n] /\ got'[n] = got[n]
  <2> DEFINE TS == TokenSet
  <2>1. got \in [StringNames -> Seq(TS)] /\ toks \in Seq(TS)
    BY <1>1
  <2> HIDE DEF TS
  <2>2. got' \in [StringNames -> Seq(TS)]
    BY <2>1
  <2> QED BY <1>1, <1>2, <2>2 DEF TS
<1>4. /\ DOMAIN scanpoint' = Tok!Points /\ scanpoint'[Tok!PointOf(u)] = point
      /\ \A p \in Tok!Points : p # Tok!PointOf(u) => scanpoint'[p] = scanpoint[p]
      /\ scanpoint' = [p \in Tok!Points |-> scanpoint'[p]]
  BY <1>1, <1>2
<1>5. PointIs(Tok!PointOf(u), point)
  BY DEF PointIs
<1>6. \A p \in Tok!Points : PointIs(p, scanpoint'[p])
  BY <1>1, <1>4, <1>5
<1>7. ASSUME NEW v \in Uses
      PROVE  UseFits(v, held[v.name], string'[v.name], got'[v.name], scanpoint'[Tok!PointOf(v)])
  <2>1. CASE v = u
    BY <1>3, <1>4, <2>1
  <2>2. CASE v # u
    <3>1. v.name # u.name /\ v.name \in StringNames /\ Tok!PointOf(v) \in Tok!Points
      BY <2>2, UsesAre, PointsAre
    <3>2. string'[v.name] = string[v.name] /\ got'[v.name] = got[v.name]
      BY <1>3, <3>1
    <3>3. UseFits(v, held[v.name], string[v.name], got[v.name], scanpoint[Tok!PointOf(v)])
      BY <1>1
    <3>4. Tok!PointOf(v) # Tok!PointOf(u) => scanpoint'[Tok!PointOf(v)] = scanpoint[Tok!PointOf(v)]
      BY <1>4, <3>1
    <3>5. Tok!PointOf(v) = Tok!PointOf(u) =>
            scanpoint'[Tok!PointOf(v)] = Tok!NULL \/ scanpoint'[Tok!PointOf(v)].of = u.name
      BY <1>4
    <3>6. UseFits(v, held[v.name], string[v.name], got[v.name], scanpoint'[Tok!PointOf(v)])
      BY <2>2, <3>3, <3>4, <3>5, OthersFit
    <3> QED BY <3>2, <3>6
  <2> QED BY <2>1, <2>2
<1> QED BY <1>1, <1>3, <1>4, <1>6, <1>7 DEF TokInv

LEMMA GiveStep ==
    ASSUME TokInv, NEW u \in Uses, UNCHANGED held,
           NEW i \in BehindAll(got[u.name]) .. Len(held[u.name]) + 1,
           \A k \in BehindAll(got[u.name]) .. i - 1 : held[u.name][k] \in Delim,
           u.f = "strsep" => i = BehindAll(got[u.name]),
           u.f # "strsep" => i <= Len(held[u.name]) /\ held[u.name][i] \notin Delim,
           Tok!Give(u.name, Tok!PointOf(u), i, Tok!FirstOf(string[u.name], i, Delim))
    PROVE  TokInv'
<1> DEFINE text == held[u.name]
           now == string[u.name]
           toks == got[u.name]
           j == Tok!FirstOf(now, i, Delim)
           t == [from |-> i, count |-> j - i]
           more == Append(toks, t)
           cut == Tok!Cut(now, j)
           point == IF Tok!CharAt(now, j) = Tok!Terminator THEN Tok!NULL
                    ELSE [of |-> u.name, place |-> j + 1]
           mayBeEmpty == u.f = "strsep"
<1>1. /\ u.name \in StringNames /\ Tok!PointOf(u) \in Tok!Points /\ Tok!NULL.of # u.name
      /\ Passed(text, now, toks, mayBeEmpty)
      /\ string \in [StringNames -> Seq(STRING)] /\ got \in [StringNames -> Seq(TokenSet)]
  BY PointsAre DEF TokInv, UseFits
<1>2. /\ string' = [string EXCEPT ![u.name] = cut]
      /\ got' = [got EXCEPT ![u.name] = more]
      /\ scanpoint' = [scanpoint EXCEPT ![Tok!PointOf(u)] = point]
  BY DEF Tok!Give
<1>3. /\ j \in i .. Len(text) + 1 /\ Passed(text, cut, more, mayBeEmpty)
      /\ more # <<>> /\ BehindAll(more) = j + 1
      /\ Tok!CharAt(now, j) = Tok!Terminator => j = Len(text) + 1
  <2> HIDE DEF text, now, toks
  <2>1. mayBeEmpty \in BOOLEAN
    OBVIOUS
  <2>2. i \in BehindAll(toks) .. Len(text) + 1 /\ \A k \in BehindAll(toks) .. i - 1 : text[k] \in Delim
    BY DEF text, toks
  <2>3. /\ mayBeEmpty => i = BehindAll(toks)
        /\ ~mayBeEmpty => i <= Len(text) /\ text[i] \notin Delim
    BY DEF text, toks
  <2> HIDE DEF mayBeEmpty
  <2>4. MayGive(text, now, toks, mayBeEmpty, i)
    BY <1>1, <2>2, <2>3 DEF MayGive
  <2> HIDE DEF j, t, more, cut
  <2>5. Given(text, now, toks, mayBeEmpty, i, Tok!FirstOf(now, i, Delim))
    BY <2>1, <2>4, GivesNext
  <2> QED BY <2>5 DEF j, t, more, cut, Given
<1>4. Len(text) \in Nat /\ Len(now) = Len(text) /\ BehindAll(toks) \in Nat \ {0}
      /\ text \in Seq(STRING \ {Tok!Terminator})
  BY <1>1, BehindAllIs DEF Passed
<1> HIDE DEF text, now, toks, j, more, cut
<1>5. i \in Nat \ {0} /\ j \in Nat /\ j <= Len(text) + 1
  <2>1. i \in BehindAll(toks) .. Len(text) + 1
    BY DEF text, toks
  <2> DEFINE l == Len(text)
  <2>2. l \in Nat /\ i \in BehindAll(toks) .. l + 1 /\ j \in i .. l + 1
    BY <1>3, <1>4, <2>1
  <2> HIDE DEF l
  <2>3. i \in Nat \ {0} /\ j \in Nat /\ j <= l + 1
    BY <1>4, <2>2
  <2> QED BY <2>3 DEF l
<1>6. Tok!CharAt(now, j) # Tok!Terminator => j <= Len(text)
  BY <1>4, <1>5 DEF Tok!CharAt
<1>7. point = Tok!NULL \/ (/\ point.of = u.name /\ point.place \in Nat
                           /\ point = [of |-> u.name, place |-> point.place])
  BY <1>5
<1>8. UseFits(u, text, cut, more, point)
  <2>1. Passed(text, cut, more, u.f = "strsep")
    BY <1>3
  <2>2. point.of = u.name =>
          more # <<>> /\ point.place = BehindAll(more) /\ BehindAll(more) <= Len(text) + 1
    <3> SUFFICES ASSUME point.of = u.name
                 PROVE  point.place = BehindAll(more) /\ BehindAll(more) <= Len(text) + 1
      BY <1>3
    <3>1. Tok!CharAt(now, j) # Tok!Terminator
      BY <1>1
    <3>2. point.place = j + 1 /\ j <= Len(text)
      BY <1>6, <3>1
    <3> QED BY <1>3, <1>4, <1>5, <3>2
  <2>3. point = Tok!NULL => \A v \in Tok!AllTokens(text, u.f = "strsep") : v.from < BehindAll(more)
    <3> SUFFICES ASSUME point = Tok!NULL, NEW v \in Tok!AllTokens(text, u.f = "strsep")
                 PROVE  v.from < BehindAll(more)
      OBVIOUS
    <3>1. Tok!CharAt(now, j) = Tok!Terminator
      <4>1. CASE Tok!CharAt(now, j) # Tok!Terminator
        <5>1. point.of = u.name
          BY <4>1
        <5> QED BY <1>1, <5>1
      <4> QED BY <4>1
    <3>2. BehindAll(more) = Len(text) + 2
      BY <1>3, <1>4, <3>1
    <3>3. v \in TokenSet /\ v.from + v.count <= Len(text) + 1
      <4>1. (u.f = "strsep") \in BOOLEAN
        OBVIOUS
      <4> QED BY <1>4, <4>1, TokenIs
    <3>4. v.from \in Nat /\ v.count \in Nat
      BY <3>3 DEF TokenSet
    <3> QED BY <1>4, <3>2, <3>3, <3>4
  <2> HIDE DEF point
  <2> QED BY <2>1, <2>2, <2>3 DEF UseFits
<1>9. cut \in Seq(STRING) /\ more \in Seq(TokenSet)
  BY <1>3 DEF Passed
<1> HIDE DEF point
<1> QED BY <1>2, <1>7, <1>8, <1>9, OneUse DEF text

\* strtok_r: nothing but delimiters is passed over.
LEMMA NextTokenStep ==
    ASSUME TokInv, NEW u \in Uses, UNCHANGED held, u.f # "strsep",
           NEW i, i = BehindAll(got[u.name]), i <= Len(held[u.name]) + 1,
           Tok!NextToken(u.name, Tok!PointOf(u), i)
    PROVE  TokInv'
<1> DEFINE text == held[u.name]
           now == string[u.name]
           toks == got[u.name]
           l == Len(text)
           others == Tok!Others(now)
           tok == Tok!FirstOf(now, i, others)
<1>1. /\ u.name \in StringNames /\ Tok!PointOf(u) \in Tok!Points /\ Tok!NULL.of # u.name
      /\ Passed(text, now, toks, FALSE)
      /\ string \in [StringNames -> Seq(STRING)] /\ got \in [StringNames -> Seq(TokenSet)]
  <2>1. (u.f = "strsep") = FALSE
    OBVIOUS
  <2> QED BY <2>1, PointsAre DEF TokInv, UseFits
<1>2. /\ text \in Seq(STRING \ {Tok!Terminator}) /\ now \in Seq(STRING) /\ toks \in Seq(TokenSet)
      /\ Len(now) = l /\ l \in Nat /\ i \in Nat \ {0} /\ i <= l + 1
      /\ \A k \in 1 .. l : i <= k => now[k] = text[k]
  BY <1>1, BehindAllIs DEF Passed
<1>3. IF Tok!CharAt(now, tok) = Tok!Terminator
      THEN scanpoint' = [scanpoint EXCEPT ![Tok!PointOf(u)] = Tok!NULL]
           /\ UNCHANGED <<string, got>>
      ELSE Tok!Give(u.name, Tok!PointOf(u), tok, Tok!FirstOf(now, tok, Delim))
  BY DEF Tok!NextToken
<1>4. /\ tok \in i .. l + 1 /\ Tok!CharAt(now, tok) \in others \cup {Tok!Terminator}
      /\ \A k \in i .. tok - 1 : now[k] \notin others \cup {Tok!Terminator}
  <2> HIDE DEF text, now, others, l
  <2> QED BY <1>2, FirstIs
<1>5. \A k \in 1 .. l : text[k] # Tok!Terminator
  <2> DEFINE C == STRING \ {Tok!Terminator}
  <2>1. text \in Seq(C)
    BY <1>2
  <2>2. \A k \in 1 .. l : text[k] \in C
    <3> HIDE DEF C
    <3> QED BY <2>1
  <2> QED BY <2>2
<1>6. others = {now[k] : k \in 1 .. l} \ (Delim \cup {Tok!Terminator})
  <2>1. DOMAIN now = 1 .. l
    BY <1>2
  <2> QED BY <2>1 DEF Tok!Others, Tok!ToSet
<1> HIDE DEF text, now, toks, l, others, tok
<1>7. tok \in Nat \ {0} /\ i <= tok /\ tok <= l + 1
  BY <1>2, <1>4
<1>8. ASSUME NEW k \in i .. tok - 1 PROVE k \in 1 .. l /\ text[k] \in Delim
  <2>1. k \in 1 .. l /\ i <= k
    BY <1>2, <1>7
  <2>2. now[k] = text[k] /\ text[k] # Tok!Terminator /\ now[k] \notin others
    BY <1>2, <1>4, <1>5, <2>1
  <2> QED BY <1>6, <2>1, <2>2
<1>9. CASE Tok!CharAt(now, tok) = Tok!Terminator
  <2>1. tok = l + 1
    <3> SUFFICES ASSUME tok # l + 1 PROVE FALSE
      OBVIOUS
    <3>1. tok \in 1 .. l /\ i <= tok
      BY <1>2, <1>7
    <3>2. Tok!CharAt(now, tok) = now[tok]
      BY <1>2, <3>1 DEF Tok!CharAt
    <3> QED BY <1>2, <1>5, <1>9, <3>1, <3>2
  <2>2. ASSUME NEW v \in Tok!AllTokens(text, FALSE) PROVE v.from < i
    <3>1. /\ v \in TokenSet /\ 1 <= v.from /\ v.from + v.count <= l + 1 /\ v.count > 0
          /\ \A k \in v.from .. (v.from + v.count) - 1 : text[k] \notin Delim
      BY <1>2, TokenIs DEF l
    <3>2. v.from \in Nat /\ v.count \in Nat
      BY <3>1 DEF TokenSet
    <3>3. v.from \in v.from .. (v.from + v.count) - 1 /\ v.from <= l
      BY <1>2, <3>1, <3>2
    <3>4. text[v.from] \notin Delim
      BY <3>1, <3>3
    <3>5. ~(v.from \in i .. tok - 1)
      BY <1>8, <3>4
    <3> QED BY <1>2, <2>1, <3>2, <3>3, <3>5
  <2>3. UseFits(u, text, now, toks, Tok!NULL)
    <3>1. (u.f = "strsep") = FALSE
      OBVIOUS
    <3>2. BehindAll(toks) = i
      BY DEF toks
    <3> QED BY <1>1, <2>2, <3>1, <3>2 DEF UseFits, text, now, toks
  <2>4. /\ string' = [string EXCEPT ![u.name] = now] /\ got' = [got EXCEPT ![u.name] = toks]
        /\ scanpoint' = [scanpoint EXCEPT ![Tok!PointOf(u)] = Tok!NULL]
    <3>1. /\ string' = string /\ got' = got
          /\ scanpoint' = [scanpoint EXCEPT ![Tok!PointOf(u)] = Tok!NULL]
      BY <1>3, <1>9
    <3>2. string = [string EXCEPT ![u.name] = now]
      BY <1>1 DEF now
    <3>3. got = [got EXCEPT ![u.name] = toks]
      BY <1>1 DEF toks
    <3> QED BY <3>1, <3>2, <3>3
  <2> QED BY <1>2, <2>3, <2>4, OneUse DEF text
<1>10. CASE Tok!CharAt(now, tok) # Tok!Terminator
  <2>1. tok <= l
    BY <1>2, <1>7, <1>10 DEF Tok!CharAt
  <2>2. Tok!CharAt(now, tok) = now[tok] /\ now[tok] = text[tok]
    BY <1>2, <1>7, <2>1 DEF Tok!CharAt
  <2>3. text[tok] \notin Delim
    BY <1>4, <1>6, <1>10, <2>2
  <2>4. Tok!Give(u.name, Tok!PointOf(u), tok, Tok!FirstOf(string[u.name], tok, Delim))
    BY <1>3, <1>10 DEF now
  <2>5. /\ tok \in BehindAll(got[u.name]) .. Len(held[u.name]) + 1
        /\ \A k \in BehindAll(got[u.name]) .. tok - 1 : held[u.name][k] \in Delim
        /\ tok <= Len(held[u.name]) /\ held[u.name][tok] \notin Delim
    <3>1. \A k \in i .. tok - 1 : held[u.name][k] \in Delim
      BY <1>8 DEF text
    <3>2. tok \in i .. Len(held[u.name]) + 1
      BY <1>4 DEF l, text
    <3>3. tok <= Len(held[u.name]) /\ held[u.name][tok] \notin Delim
      BY <2>1, <2>3 DEF l, text
    <3> QED BY <3>1, <3>2, <3>3
  <2> QED BY <2>4, <2>5, GiveStep
<1> QED BY <1>9, <1>10

LEMMA TokBegin ==
    ASSUME TokInv, NEW u \in Uses, Tok!Begin(u)
    PROVE  TokInv'
<1>1. /\ u.f # "strsep" /\ got[u.name] = <<>> /\ UNCHANGED held
      /\ Tok!NextToken(u.name, Tok!PointOf(u), 1)
  BY DEF Tok!Begin
<1>2. 1 = BehindAll(got[u.name])
  BY <1>1 DEF BehindAll
<1>3. 1 <= Len(held[u.name]) + 1
  <2>1. held[u.name] \in Seq(STRING \ {Tok!Terminator})
    BY DEF TokInv, UseFits, Passed
  <2> QED BY <2>1
<1> QED BY <1>1, <1>2, <1>3, NextTokenStep

LEMMA TokContinue ==
    ASSUME TokInv, NEW p \in Tok!Points, Tok!Continue(p)
    PROVE  TokInv'
<1>1. /\ scanpoint[p] # Tok!NULL /\ UNCHANGED held
      /\ Tok!NextToken(scanpoint[p].of, p, scanpoint[p].place)
  BY DEF Tok!Continue
<1>2. PICK w \in Uses : w.name = scanpoint[p].of /\ w.f # "strsep"
  BY DEF Tok!Continue
<1>3. PICK u \in Uses : Tok!PointOf(u) = p /\ scanpoint[p].of = u.name
  BY <1>1 DEF TokInv, PointIs
<1>4. u = w
  BY <1>2, <1>3, UsesAre
<1>5. UseFits(u, held[u.name], string[u.name], got[u.name], scanpoint[Tok!PointOf(u)])
  BY DEF TokInv
<1>6. scanpoint[p].place = BehindAll(got[u.name]) /\ scanpoint[p].place <= Len(held[u.name]) + 1
  BY <1>3, <1>5 DEF UseFits
<1> DEFINE i == scanpoint[p].place
<1>7. Tok!NextToken(u.name, Tok!PointOf(u), i) /\ u.f # "strsep"
  BY <1>1, <1>2, <1>3, <1>4
<1> HIDE DEF i
<1> QED BY <1>1, <1>6, <1>7, NextTokenStep DEF i

LEMMA TokSeparate ==
    ASSUME TokInv, NEW u \in Uses, Tok!Separate(u)
    PROVE  TokInv'
<1> DEFINE n == u.name
           i == IF got[n] = <<>> THEN 1 ELSE scanpoint[n].place
<1>1. /\ u.f = "strsep" /\ UNCHANGED held /\ (got[n] # <<>> => scanpoint[n] # Tok!NULL)
      /\ Tok!Give(n, n, i, Tok!FirstOf(string[n], i, Delim))
  BY DEF Tok!Separate
<1>2. Tok!PointOf(u) = n /\ n \in Tok!Points
  BY <1>1, PointsAre
<1>3. UseFits(u, held[n], string[n], got[n], scanpoint[n]) /\ PointIs(n, scanpoint[n])
  BY <1>2 DEF TokInv
<1>4. i = BehindAll(got[n]) /\ i <= Len(held[n]) + 1
  <2>1. CASE got[n] = <<>>
    <3>1. held[n] \in Seq(STRING \ {Tok!Terminator})
      BY <1>3 DEF UseFits, Passed
    <3>2. Len(held[n]) \in Nat
      BY <3>1
    <3> QED BY <2>1, <3>2 DEF BehindAll
  <2>2. CASE got[n] # <<>>
    <3>1. PICK v \in Uses : Tok!PointOf(v) = n /\ scanpoint[n].of = v.name
      BY <1>1, <1>3, <2>2 DEF PointIs
    <3>2. v = u
      BY <1>1, <1>2, <3>1, PointsAre
    <3> QED BY <1>3, <2>2, <3>1, <3>2 DEF UseFits
  <2> QED BY <2>1, <2>2
<1>5. i \in BehindAll(got[n]) .. Len(held[n]) + 1 /\ \A k \in BehindAll(got[n]) .. i - 1 : FALSE
  <2>1. BehindAll(got[n]) \in Nat \ {0}
    <3>1. got[n] \in Seq(TokenSet)
      BY <1>3 DEF UseFits, Passed
    <3> QED BY <3>1, BehindAllIs
  <2>2. Len(held[n]) \in Nat
    <3>1. held[n] \in Seq(STRING \ {Tok!Terminator})
      BY <1>3 DEF UseFits, Passed
    <3> QED BY <3>1
  <2> HIDE DEF i
  <2> QED BY <1>4, <2>1, <2>2
<1> HIDE DEF i
<1>6. \A k \in BehindAll(got[n]) .. i - 1 : held[n][k] \in Delim
  BY <1>5
<1> QED BY <1>1, <1>2, <1>4, <1>5, <1>6, GiveStep

LEMMA TokSteps ==
    ASSUME TokInv, [Tok!TokensNext]_tokenVars
    PROVE  TokInv'
<1>1. CASE \E u \in Uses : Tok!Begin(u) \/ Tok!Separate(u)
  BY <1>1, TokBegin, TokSeparate
<1>2. CASE \E p \in Tok!Points : Tok!Continue(p)
  BY <1>2, TokContinue
<1>3. CASE UNCHANGED tokenVars
  BY <1>3 DEF TokInv, tokenVars
<1> QED BY <1>1, <1>2, <1>3 DEF Tok!TokensNext

LEMMA TokSound ==
    ASSUME TokInv
    PROVE  Tok!TokensTypeOK /\ Tok!TokensInOrder
<1>1. /\ held \in [StringNames -> TokenTexts] /\ string \in [StringNames -> Seq(STRING)]
      /\ got \in [StringNames -> Seq(TokenSet)] /\ DOMAIN held = StringNames
      /\ \A p \in Tok!Points : PointIs(p, scanpoint[p])
  BY DEF TokInv
<1>2. ASSUME NEW p \in Tok!Points, scanpoint[p] # Tok!NULL
      PROVE  scanpoint[p].of \in StringNames
             /\ scanpoint[p].place \in 1 .. Len(held[scanpoint[p].of]) + 1
  <2>1. PICK u \in Uses : Tok!PointOf(u) = p /\ scanpoint[p].of = u.name
    BY <1>1, <1>2 DEF PointIs
  <2>2. UseFits(u, held[u.name], string[u.name], got[u.name], scanpoint[Tok!PointOf(u)])
    BY DEF TokInv
  <2>3. /\ scanpoint[p].place = BehindAll(got[u.name])
        /\ BehindAll(got[u.name]) <= Len(held[u.name]) + 1
        /\ got[u.name] \in Seq(TokenSet) /\ held[u.name] \in Seq(STRING \ {Tok!Terminator})
    BY <2>1, <2>2 DEF UseFits, Passed
  <2>4. BehindAll(got[u.name]) \in Nat \ {0} /\ Len(held[u.name]) \in Nat
    BY <2>3, BehindAllIs
  <2>5. scanpoint[p].place \in 1 .. Len(held[u.name]) + 1
    BY <2>3, <2>4
  <2> QED BY <2>1, <2>5, PointsAre
<1>3. Tok!TokensTypeOK
  BY <1>1, <1>2 DEF Tok!TokensTypeOK
<1>4. ASSUME NEW u \in Uses
      PROVE  LET n == u.name
                 s == held[n]
                 all == Tok!AllTokens(s, u.f = "strsep")
                 last == got[n][Len(got[n])]
             IN  /\ Tok!ToSet(got[n]) \subseteq all
                 /\ \A i, j \in DOMAIN got[n] : i < j => got[n][i].from < got[n][j].from
                 /\ got[n] # <<>> => \A t \in all : t.from <= last.from => t \in Tok!ToSet(got[n])
                 /\ scanpoint[Tok!PointOf(u)].of = n =>
                      \A t \in all : t \in Tok!ToSet(got[n]) <=> t.from < scanpoint[Tok!PointOf(u)].place
                 /\ \A t \in Tok!ToSet(got[n]) :
                      /\ \A i \in t.from .. t.from + t.count - 1 : string[n][i] = s[i]
                      /\ Tok!CharAt(string[n], t.from + t.count) = Tok!Terminator
                 /\ u.f # "strtok" /\ got[n] # <<>> /\ scanpoint[n] = Tok!NULL =>
                      Tok!ToSet(got[n]) = all
  <2> DEFINE n == u.name
             s == held[n]
             toks == got[n]
             now == string[n]
             all == Tok!AllTokens(s, u.f = "strsep")
             last == toks[Len(toks)]
             point == scanpoint[Tok!PointOf(u)]
             b0 == BehindAll(toks)
  <2>1. UseFits(u, s, now, toks, point) /\ toks \in Seq(TokenSet)
    BY PointsAre, <1>1 DEF TokInv
  <2>2. /\ DOMAIN toks = 1 .. Len(toks) /\ Len(toks) \in Nat /\ b0 \in Nat \ {0}
        /\ \A i \in 1 .. Len(toks) : toks[i] \in TokenSet
    <3>1. toks \in Seq(TokenSet)
      BY <2>1
    <3>2. Len(toks) \in Nat /\ b0 \in Nat \ {0} /\ \A i \in 1 .. Len(toks) : toks[i] \in TokenSet
      BY <3>1, BehindAllIs
    <3> HIDE DEF toks
    <3>3. DOMAIN toks = 1 .. Len(toks)
      BY <3>1
    <3> QED BY <3>2, <3>3 DEF toks
  <2>3. /\ \A i \in 1 .. Len(toks) : toks[i] \in all /\ toks[i].from + toks[i].count < b0
        /\ \A i, j \in 1 .. Len(toks) : i < j => toks[i].from + toks[i].count < toks[j].from
        /\ \A t \in all : t.from < b0 => \E i \in 1 .. Len(toks) : toks[i] = t
        /\ \A i \in 1 .. Len(toks) :
             /\ \A k \in toks[i].from .. (toks[i].from + toks[i].count) - 1 : now[k] = s[k]
             /\ Tok!CharAt(now, toks[i].from + toks[i].count) = Tok!Terminator
    BY <2>1 DEF UseFits, Passed
  <2>4. /\ point.of = n => point.place = b0
        /\ u.f # "strtok" /\ toks # <<>> /\ point = Tok!NULL => \A t \in all : t.from < b0
        /\ u.f # "strtok" => point = scanpoint[n]
    BY <2>1, PointsAre DEF UseFits
  <2>5. \A i \in 1 .. Len(toks) : toks[i].from \in Nat /\ toks[i].count \in Nat
    BY <2>2 DEF TokenSet
  <2>6. Tok!ToSet(toks) = {toks[i] : i \in 1 .. Len(toks)}
    BY <2>2 DEF Tok!ToSet
  <2>7. toks # <<>> => last.from < b0
    <3> SUFFICES ASSUME toks # <<>> PROVE last.from < b0
      OBVIOUS
    <3>1. Len(toks) \in 1 .. Len(toks)
      <4>1. toks \in Seq(TokenSet)
        BY <2>1
      <4> HIDE DEF toks
      <4> QED BY <4>1
    <3>2. b0 = (last.from + last.count) + 1 /\ last.from \in Nat /\ last.count \in Nat
      BY <2>5, <3>1 DEF BehindAll
    <3> QED BY <3>2
  <2> HIDE DEF n, s, toks, now, all, last, point, b0
  <2>8. Tok!ToSet(toks) \subseteq all
    BY <2>3, <2>6
  <2>9. \A i, j \in DOMAIN toks : i < j => toks[i].from < toks[j].from
    <3> SUFFICES ASSUME NEW i \in 1 .. Len(toks), NEW j \in 1 .. Len(toks), i < j
                 PROVE  toks[i].from < toks[j].from
      BY <2>2
    <3>1. toks[i].from + toks[i].count < toks[j].from
      BY <2>3
    <3> QED BY <2>5, <3>1
  <2>10. \A t \in all : t \in Tok!ToSet(toks) <=> t.from < b0
    <3> SUFFICES ASSUME NEW t \in all PROVE t \in Tok!ToSet(toks) <=> t.from < b0
      OBVIOUS
    <3>1. ASSUME NEW i \in 1 .. Len(toks), toks[i] = t PROVE t.from < b0
      <4>1. toks[i].from + toks[i].count < b0 /\ toks[i].from \in Nat /\ toks[i].count \in Nat
        BY <2>3, <2>5
      <4> QED BY <2>2, <3>1, <4>1
    <3> QED BY <2>3, <2>6, <3>1
  <2>11. toks # <<>> => \A t \in all : t.from <= last.from => t \in Tok!ToSet(toks)
    <3> SUFFICES ASSUME toks # <<>>, NEW t \in all, t.from <= last.from
                 PROVE  t.from < b0
      BY <2>10
    <3>1. t.from \in Int /\ last.from \in Int
      <4>1. s \in Seq(STRING \ {Tok!Terminator}) /\ (u.f = "strsep") \in BOOLEAN
        BY <2>1 DEF UseFits, Passed
      <4>2. t \in TokenSet
        BY <4>1, TokenIs DEF all
      <4>3. Len(toks) \in 1 .. Len(toks)
        BY <2>1
      <4> QED BY <2>5, <4>2, <4>3 DEF TokenSet, last
    <3> QED BY <2>2, <2>7, <3>1
  <2>12. \A t \in Tok!ToSet(toks) :
           /\ \A i \in t.from .. t.from + t.count - 1 : now[i] = s[i]
           /\ Tok!CharAt(now, t.from + t.count) = Tok!Terminator
    <3> SUFFICES ASSUME NEW t \in Tok!ToSet(toks)
                 PROVE  /\ \A i \in t.from .. t.from + t.count - 1 : now[i] = s[i]
                        /\ Tok!CharAt(now, t.from + t.count) = Tok!Terminator
      OBVIOUS
    <3>1. PICK k \in 1 .. Len(toks) : t = toks[k]
      BY <2>6
    <3>2. /\ \A i \in toks[k].from .. toks[k].from + toks[k].count - 1 : now[i] = s[i]
          /\ Tok!CharAt(now, toks[k].from + toks[k].count) = Tok!Terminator
      <4>1. toks[k].from + (toks[k].count - 1) = (toks[k].from + toks[k].count) - 1
        BY <2>5
      <4> QED BY <2>3, <4>1
    <3> QED BY <3>1, <3>2
  <2>13. u.f # "strtok" /\ toks # <<>> /\ scanpoint[n] = Tok!NULL => Tok!ToSet(toks) = all
    BY <2>4, <2>8, <2>10
  <2>14. point.of = n => \A t \in all : t \in Tok!ToSet(toks) <=> t.from < point.place
    BY <2>4, <2>10
  <2> QED BY <2>8, <2>9, <2>11, <2>12, <2>13, <2>14 DEF n, s, toks, now, all, last, point
<1>5. Tok!TokensInOrder
  BY <1>4 DEF Tok!TokensInOrder
<1> QED BY <1>3, <1>5

\* Whatever strings are taken apart, in whatever turns and by whichever of the three:
\* strtok, strtok_r and strsep hand out every token of each string once and in order.
THEOREM TokensAlwaysInOrder == UtilitiesSpec => []TokensInOrder
<1>1. UtilitiesInit => TokInv
  BY PartsStart, TokStarts
<1>2. TokInv /\ [UtilitiesNext]_utilityVars => TokInv'
  BY PartsStep, TokSteps
<1>3. TokInv => TokensInOrder
  BY TokSound DEF TokensInOrder
<1> QED BY <1>1, <1>2, <1>3, PTL DEF UtilitiesSpec
=============================================================================
