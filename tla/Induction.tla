------------------------------ MODULE Induction ------------------------------
(***************************************************************************)
(* Induction for the proofs about lists and strings: sets take the place of *)
(* the predicates of the library's induction theorems, and functions that   *)
(* of the operators.                                                        *)
(***************************************************************************)
EXTENDS Integers, Sequences, WellFoundedInduction, TLAPS

\* A set of numbers has a least one.
LEMMA LeastNumber ==
    ASSUME NEW S \in SUBSET Nat, S # {}
    PROVE  \E m \in S : \A n \in S : m <= n
<1> DEFINE Below == {ss \in Nat \X Nat : ss[1] < ss[2]}
<1>1. IsWellFoundedOn(Below, Nat)
  BY NatLessThanWellFounded DEF OpToRel
<1>2. PICK m \in S : \A n \in S : ~(<<n, m>> \in Below)
  BY <1>1, WFMin
<1>3. ASSUME NEW n \in S PROVE m <= n
  <2>1. n \in Nat /\ m \in Nat
    OBVIOUS
  <2>2. n < m => <<n, m>> \in Below
    BY <2>1
  <2> QED BY <1>2, <2>1, <2>2
<1> QED BY <1>3

\* A set that holds 0 and with each number the next holds all numbers.
LEMMA SetInduction ==
    ASSUME NEW S, 0 \in S, \A n \in Nat : n \in S => n + 1 \in S
    PROVE  Nat \subseteq S
<1>1. SUFFICES ASSUME Nat \ S # {} PROVE FALSE
  OBVIOUS
<1>2. PICK m \in Nat \ S : \A n \in Nat \ S : m <= n
  BY <1>1, LeastNumber
<1>3. m \in Nat /\ m # 0
  OBVIOUS
<1>4. m - 1 \in Nat /\ ~(m <= m - 1) /\ (m - 1) + 1 = m
  BY <1>3
<1> QED BY <1>2, <1>3, <1>4

\* g[n] is what the first n steps make of first; step n is a function of the value
\* before it.
Iterated(T, first, step, last, g) ==
    /\ g \in [0 .. last -> T]
    /\ g[0] = first
    /\ \A n \in 1 .. last : g[n] = step[n][g[n - 1]]

\* There is such a function, whatever the steps.
LEMMA Iterates ==
    ASSUME NEW T, NEW first \in T, NEW last \in Nat,
           NEW step, \A n \in Nat : \A t \in T : step[n][t] \in T
    PROVE  \E g : Iterated(T, first, step, last, g)
<1> DEFINE Upto(k) == \E g \in [0 .. k -> T] :
                         g[0] = first /\ \A n \in 1 .. k : g[n] = step[n][g[n - 1]]
           S == {k \in Nat : Upto(k)}
<1>1. 0 \in S
  <2> DEFINE h == [n \in 0 .. 0 |-> first]
  <2>1. h \in [0 .. 0 -> T] /\ h[0] = first /\ \A n \in 1 .. 0 : h[n] = step[n][h[n - 1]]
    OBVIOUS
  <2> QED BY <2>1
<1>2. ASSUME NEW k \in Nat, k \in S PROVE k + 1 \in S
  <2>1. PICK g \in [0 .. k -> T] : g[0] = first /\ \A n \in 1 .. k : g[n] = step[n][g[n - 1]]
    BY <1>2
  <2> DEFINE h == [n \in 0 .. k + 1 |-> IF n = k + 1 THEN step[k + 1][g[k]] ELSE g[n]]
  <2>2. step[k + 1][g[k]] \in T
    OBVIOUS
  <2>3. h \in [0 .. k + 1 -> T]
    BY <2>2, <2>1
  <2>4. h[0] = first
    BY <2>1
  <2>5. ASSUME NEW n \in 1 .. k + 1 PROVE h[n] = step[n][h[n - 1]]
    <3>1. n - 1 \in 0 .. k /\ h[n - 1] = g[n - 1]
      OBVIOUS
    <3>2. CASE n = k + 1
      <4>1. h[n] = step[k + 1][g[k]]
        BY <3>2
      <4>2. n - 1 = k
        BY <3>2
      <4> HIDE DEF h
      <4> QED BY <3>1, <3>2, <4>1, <4>2
    <3>3. CASE n # k + 1
      <4>1. n \in 1 .. k /\ h[n] = g[n]
        BY <3>3
      <4> QED BY <4>1, <3>1, <2>1
    <3> QED BY <3>2, <3>3
  <2>6. Upto(k + 1)
    BY <2>3, <2>4, <2>5
  <2> QED BY <2>6
<1> HIDE DEF S
<1>3. Nat \subseteq S
  BY <1>1, <1>2, SetInduction
<1>4. last \in S
  BY <1>3
<1> QED BY <1>4 DEF S, Iterated

\* Sequences of one length that agree everywhere are one.
LEMMA SameSequence ==
    ASSUME NEW S, NEW s \in Seq(S), NEW t \in Seq(S), Len(s) = Len(t),
           \A i \in 1 .. Len(s) : s[i] = t[i]
    PROVE  s = t
  OBVIOUS

\* A part of a sequence is its front and the rest.
LEMMA PartsJoin ==
    ASSUME NEW S, NEW T \in Seq(S), NEW a \in Nat \ {0}, NEW b \in Nat, NEW c \in Nat,
           a <= b + 1, b <= c, c <= Len(T)
    PROVE  /\ SubSeq(T, a, b) \in Seq(S) /\ SubSeq(T, b + 1, c) \in Seq(S)
           /\ SubSeq(T, a, b) \o SubSeq(T, b + 1, c) = SubSeq(T, a, c)
<1> DEFINE front == SubSeq(T, a, b)
           tail == SubSeq(T, b + 1, c)
           both == front \o tail
           whole == SubSeq(T, a, c)
<1>1. front \in Seq(S) /\ Len(front) = b + 1 - a /\ \A i \in 1 .. b + 1 - a : front[i] = T[a + i - 1]
  OBVIOUS
<1>2. tail \in Seq(S) /\ Len(tail) = c - b /\ \A i \in 1 .. c - b : tail[i] = T[b + i]
  OBVIOUS
<1>3. whole \in Seq(S) /\ Len(whole) = c + 1 - a /\ \A i \in 1 .. c + 1 - a : whole[i] = T[a + i - 1]
  OBVIOUS
<1> HIDE DEF front, tail, whole
<1>4. both \in Seq(S) /\ Len(both) = c + 1 - a
  <2>1. front \in Seq(S) /\ tail \in Seq(S)
    BY <1>1, <1>2
  <2>2. both \in Seq(S) /\ Len(both) = Len(front) + Len(tail)
    BY <2>1
  <2>3. (b + 1 - a) + (c - b) = c + 1 - a
    OBVIOUS
  <2> HIDE DEF both
  <2> QED BY <2>2, <2>3, <1>1, <1>2
<1>5. ASSUME NEW i \in 1 .. c + 1 - a PROVE both[i] = T[a + i - 1]
  <2>1. CASE i <= b + 1 - a
    <3>1. i \in 1 .. Len(front)
      BY <1>1, <2>1
    <3>2. both[i] = front[i]
      BY <1>1, <1>2, <3>1
    <3> QED BY <1>1, <3>1, <3>2
  <2>2. CASE i > b + 1 - a
    <3> DEFINE j == i - (b + 1 - a)
    <3>1. j \in 1 .. c - b /\ i = Len(front) + j /\ b + j = a + i - 1
      BY <1>1, <2>2
    <3> HIDE DEF j
    <3>2. both[i] = tail[j]
      BY <1>1, <1>2, <3>1
    <3> HIDE DEF both
    <3> QED BY <1>2, <3>1, <3>2
  <2>3. i <= b + 1 - a \/ i > b + 1 - a
    OBVIOUS
  <2> QED BY <2>1, <2>2, <2>3
<1> HIDE DEF both
<1>6. both = whole
  BY <1>3, <1>4, <1>5, SameSequence
<1> QED BY <1>1, <1>2, <1>6 DEF both, front, tail, whole

\* A part of one element.
LEMMA PartOfOne ==
    ASSUME NEW S, NEW T \in Seq(S), NEW a \in 1 .. Len(T)
    PROVE  SubSeq(T, a, a) = <<T[a]>>
<1> DEFINE s == SubSeq(T, a, a)
           t == <<T[a]>>
<1>1. s \in Seq(S) /\ Len(s) = 1 /\ s[1] = T[a]
  OBVIOUS
<1>2. t \in Seq(S) /\ Len(t) = 1 /\ t[1] = T[a]
  OBVIOUS
<1> HIDE DEF s, t
<1>3. s = t
  BY <1>1, <1>2, SameSequence
<1> QED BY <1>3 DEF s, t

\* A part is its first element and the rest.
LEMMA PartStarts ==
    ASSUME NEW S, NEW T \in Seq(S), NEW a \in 1 .. Len(T)
    PROVE  SubSeq(T, a, Len(T)) = <<T[a]>> \o SubSeq(T, a + 1, Len(T))
<1>1. /\ a \in Nat \ {0} /\ a \in Nat /\ Len(T) \in Nat
      /\ a <= a + 1 /\ a <= Len(T) /\ Len(T) <= Len(T)
  OBVIOUS
<1>2. SubSeq(T, a, a) \o SubSeq(T, a + 1, Len(T)) = SubSeq(T, a, Len(T))
  BY <1>1, PartsJoin
<1>3. SubSeq(T, a, a) = <<T[a]>>
  BY PartOfOne
<1> QED BY <1>2, <1>3

\* Joining with nothing, and joining three.
LEMMA EmptyJoin ==
    ASSUME NEW S, NEW s \in Seq(S)
    PROVE  <<>> \o s = s /\ s \o <<>> = s
  OBVIOUS

LEMMA JoinIs ==
    ASSUME NEW S, NEW s \in Seq(S), NEW t \in Seq(S)
    PROVE  /\ s \o t \in Seq(S) /\ Len(s \o t) = Len(s) + Len(t)
           /\ \A i \in 1 .. Len(s) + Len(t) : (s \o t)[i] = IF i <= Len(s) THEN s[i] ELSE t[i - Len(s)]
  OBVIOUS

LEMMA AppendJoins ==
    ASSUME NEW S, NEW s \in Seq(S), NEW x \in S
    PROVE  /\ Append(s, x) = s \o <<x>> /\ Append(s, x) \in Seq(S)
           /\ <<x>> \in Seq(S) /\ Len(<<x>>) = 1 /\ <<x>>[1] = x
  OBVIOUS

LEMMA JoinAssociates ==
    ASSUME NEW S, NEW s \in Seq(S), NEW t \in Seq(S), NEW u \in Seq(S)
    PROVE  (s \o t) \o u = s \o (t \o u)
<1> DEFINE l == (s \o t) \o u
           r == s \o (t \o u)
           st == s \o t
           tu == t \o u
<1>1. st \in Seq(S) /\ Len(st) = Len(s) + Len(t)
      /\ \A i \in 1 .. Len(s) + Len(t) : st[i] = IF i <= Len(s) THEN s[i] ELSE t[i - Len(s)]
  OBVIOUS
<1>2. tu \in Seq(S) /\ Len(tu) = Len(t) + Len(u)
      /\ \A i \in 1 .. Len(t) + Len(u) : tu[i] = IF i <= Len(t) THEN t[i] ELSE u[i - Len(t)]
  OBVIOUS
<1> HIDE DEF st, tu
<1>3. l \in Seq(S) /\ Len(l) = Len(st) + Len(u)
      /\ \A i \in 1 .. Len(st) + Len(u) : l[i] = IF i <= Len(st) THEN st[i] ELSE u[i - Len(st)]
  BY <1>1 DEF st
<1>4. r \in Seq(S) /\ Len(r) = Len(s) + Len(tu)
      /\ \A i \in 1 .. Len(s) + Len(tu) : r[i] = IF i <= Len(s) THEN s[i] ELSE tu[i - Len(s)]
  BY <1>2 DEF tu
<1> HIDE DEF l, r
<1>5. Len(l) = Len(r) /\ Len(s) \in Nat /\ Len(t) \in Nat /\ Len(u) \in Nat
      /\ Len(l) = Len(s) + Len(t) + Len(u)
  BY <1>1, <1>2, <1>3, <1>4
<1>6. ASSUME NEW i \in 1 .. Len(l) PROVE l[i] = r[i]
  <2>1. CASE i <= Len(s)
    <3>1. l[i] = st[i] /\ st[i] = s[i]
      BY <2>1, <1>1, <1>3, <1>5
    <3>2. r[i] = s[i]
      BY <2>1, <1>4, <1>5, <1>2
    <3> QED BY <3>1, <3>2
  <2>2. CASE i > Len(s) /\ i <= Len(s) + Len(t)
    <3>1. l[i] = st[i] /\ st[i] = t[i - Len(s)]
      BY <2>2, <1>1, <1>3, <1>5
    <3>2. r[i] = tu[i - Len(s)] /\ i - Len(s) \in 1 .. Len(t) + Len(u) /\ i - Len(s) <= Len(t)
      BY <2>2, <1>4, <1>5, <1>2
    <3>3. tu[i - Len(s)] = t[i - Len(s)]
      BY <3>2, <1>2
    <3> QED BY <3>1, <3>2, <3>3
  <2>3. CASE i > Len(s) + Len(t)
    <3>1. l[i] = u[i - (Len(s) + Len(t))]
      BY <2>3, <1>1, <1>3, <1>5
    <3>2. r[i] = tu[i - Len(s)] /\ i - Len(s) \in 1 .. Len(t) + Len(u) /\ ~(i - Len(s) <= Len(t))
      BY <2>3, <1>4, <1>5, <1>2
    <3>3. tu[i - Len(s)] = u[(i - Len(s)) - Len(t)]
      BY <3>2, <1>2
    <3>4. (i - Len(s)) - Len(t) = i - (Len(s) + Len(t))
      BY <1>5
    <3> QED BY <3>1, <3>2, <3>3, <3>4
  <2> QED BY <2>1, <2>2, <2>3, <1>5
<1>7. l = r
  BY <1>3, <1>4, <1>5, <1>6, SameSequence
<1> QED BY <1>7 DEF l, r, st, tu

\* The steps stay in T.
StaysIn(T, step) == \A n \in Nat : \A t \in T : step[n][t] \in T

\* The steps go on for all numbers.
LEMMA IteratesForever ==
    ASSUME NEW T, NEW first \in T, NEW step, StaysIn(T, step)
    PROVE  \E g \in [Nat -> T] : g[0] = first /\ \A n \in Nat : g[n + 1] = step[n + 1][g[n]]
<1> DEFINE H(n) == CHOOSE h : Iterated(T, first, step, n, h)
           G == [n \in Nat |-> H(n)[n]]
<1>1. ASSUME NEW n \in Nat
      PROVE  /\ H(n) \in [0 .. n -> T] /\ H(n)[0] = first
             /\ \A i \in 1 .. n : H(n)[i] = step[i][H(n)[i - 1]]
  <2>1. \E h : Iterated(T, first, step, n, h)
    BY Iterates DEF StaysIn
  <2>2. Iterated(T, first, step, n, H(n))
    BY <2>1
  <2> HIDE DEF H
  <2> QED BY <2>2 DEF Iterated
<1> HIDE DEF H
<1>2. ASSUME NEW n \in Nat PROVE H(n + 1)[n] = H(n)[n]
  <2> DEFINE S == {i \in Nat : i <= n => H(n + 1)[i] = H(n)[i]}
  <2>1. 0 \in S
    BY <1>1
  <2>2. ASSUME NEW i \in Nat, i \in S PROVE i + 1 \in S
    <3>1. CASE i + 1 <= n
      <4>1. i + 1 \in 1 .. n /\ i + 1 \in 1 .. n + 1 /\ (i + 1) - 1 = i /\ i <= n /\ n + 1 \in Nat
        BY <3>1
      <4>2. H(n + 1)[i + 1] = step[i + 1][H(n + 1)[i]] /\ H(n)[i + 1] = step[i + 1][H(n)[i]]
        BY <1>1, <4>1
      <4> QED BY <2>2, <4>1, <4>2
    <3>2. CASE ~(i + 1 <= n)
      BY <3>2
    <3> QED BY <3>1, <3>2
  <2> HIDE DEF S
  <2>3. n \in S
    BY <2>1, <2>2, SetInduction
  <2> QED BY <2>3 DEF S
<1>3. ASSUME NEW n \in Nat PROVE H(n)[n] \in T
  BY <1>1
<1>4. G \in [Nat -> T] /\ G[0] = first
  BY <1>1, <1>3
<1>5. ASSUME NEW n \in Nat PROVE G[n + 1] = step[n + 1][G[n]]
  <2>1. n + 1 \in Nat /\ n + 1 \in 1 .. n + 1 /\ (n + 1) - 1 = n
    OBVIOUS
  <2>2. H(n + 1)[n + 1] = step[n + 1][H(n + 1)[n]]
    BY <1>1, <2>1
  <2> QED BY <1>2, <2>1, <2>2
<1> HIDE DEF G
<1> QED BY <1>4, <1>5

\* All of a sequence as a part of it.
LEMMA PartOfAll ==
    ASSUME NEW S, NEW T \in Seq(S)
    PROVE  SubSeq(T, 1, Len(T)) = T /\ (Len(T) > 0 => SubSeq(T, 2, Len(T)) = Tail(T))
  OBVIOUS

\* What FlattenSeq of the community modules gives.
Joined(s) ==
    IF Len(s) = 0 THEN s ELSE
    LET flatten[i \in 1..Len(s)] ==
        IF i = 1 THEN s[i] ELSE flatten[i-1] \o s[i]
    IN flatten[Len(s)]

\* g joins s piece by piece.
Joins(S, s, g) ==
    /\ g \in [0 .. Len(s) -> Seq(S)]
    /\ g[0] = <<>>
    /\ \A n \in 1 .. Len(s) : g[n] = g[n - 1] \o s[n]

LEMMA JoinsExists ==
    ASSUME NEW S, NEW s \in Seq(Seq(S))
    PROVE  \E g : Joins(S, s, g)
<1> DEFINE T == Seq(S)
           N == Len(s)
           none == <<>>
           step == [n \in Nat |-> [t \in T |-> IF n \in 1 .. N THEN t \o s[n] ELSE t]]
<1>1. none \in T /\ N \in Nat
  OBVIOUS
<1>2. \A n \in 1 .. N : s[n] \in T
  OBVIOUS
<1>3. \A n \in Nat : \A t \in T : step[n][t] \in T
  BY <1>2
<1>4. ASSUME NEW n \in 1 .. N, NEW t \in T PROVE step[n][t] = t \o s[n]
  <2>1. n \in Nat
    BY <1>1
  <2>2. step[n] = [u \in T |-> IF n \in 1 .. N THEN u \o s[n] ELSE u]
    BY <2>1
  <2> HIDE DEF step, T
  <2> QED BY <2>2
<1> HIDE DEF step, T, N, none
<1>5. PICK g : Iterated(T, none, step, N, g)
  BY <1>1, <1>3, Iterates
<1>6. g \in [0 .. N -> T] /\ g[0] = none /\ \A n \in 1 .. N : g[n] = step[n][g[n - 1]]
  BY <1>5 DEF Iterated
<1>7. ASSUME NEW n \in 1 .. N PROVE g[n] = g[n - 1] \o s[n]
  <2>1. n - 1 \in 0 .. N
    BY <1>1
  <2> QED BY <1>4, <1>6, <2>1
<1> QED BY <1>6, <1>7 DEF Joins, T, N, none

LEMMA JoinedIs ==
    ASSUME NEW S, NEW s \in Seq(Seq(S)), NEW g, Joins(S, s, g)
    PROVE  Joined(s) = g[Len(s)]
<1> DEFINE N == Len(s)
           Body(f) == [i \in 1 .. N |-> IF i = 1 THEN s[i] ELSE f[i - 1] \o s[i]]
           flat == CHOOSE f : f = Body(f)
           h == [i \in 1 .. N |-> g[i]]
<1>b. N \in Nat
  OBVIOUS
<1>c. g[0] = <<>> /\ \A n \in 1 .. N : g[n] = g[n - 1] \o s[n]
  <2> HIDE DEF N
  <2> QED BY DEF Joins, N
<1>1. N \in Nat /\ g[0] = <<>> /\ (\A n \in 1 .. N : g[n] = g[n - 1] \o s[n])
  BY <1>b, <1>c
<1>a. \A n \in 1 .. N : s[n] \in Seq(S)
  OBVIOUS
<1>2. h = Body(h)
  <2>1. ASSUME NEW i \in 1 .. N PROVE h[i] = (IF i = 1 THEN s[i] ELSE h[i - 1] \o s[i])
    <3>1. CASE i = 1
      <4>1. i - 1 = 0 /\ s[i] \in Seq(S)
        BY <1>a, <3>1
      <4>2. g[i] = <<>> \o s[i]
        BY <1>1, <4>1
      <4>3. <<>> \o s[i] = s[i]
        BY <4>1
      <4>4. h[i] = g[i]
        OBVIOUS
      <4> HIDE DEF h
      <4> QED BY <3>1, <4>2, <4>3, <4>4
    <3>2. CASE i # 1
      <4>1. i - 1 \in 1 .. N /\ h[i - 1] = g[i - 1] /\ h[i] = g[i]
        BY <1>1, <3>2
      <4> HIDE DEF h
      <4> QED BY <1>1, <3>2, <4>1
    <3> QED BY <3>1, <3>2
  <2> QED BY <2>1
<1>3. flat = Body(flat)
  <2> HIDE DEF h
  <2>1. \E f : f = Body(f)
    BY <1>2
  <2> QED BY <2>1
<1>4. Joined(s) = IF N = 0 THEN s ELSE flat[N]
  BY DEF Joined
<1> HIDE DEF flat, h
<1>5. \A i \in 1 .. N : flat[i] = IF i = 1 THEN s[i] ELSE flat[i - 1] \o s[i]
  BY <1>3
<1> DEFINE A == {n \in Nat : n \in 1 .. N => flat[n] = g[n]}
<1>6. 0 \in A
  OBVIOUS
<1>7. ASSUME NEW n \in Nat, n \in A PROVE n + 1 \in A
  <2> SUFFICES ASSUME n + 1 \in 1 .. N PROVE flat[n + 1] = g[n + 1]
    BY <1>7
  <2>1. g[n + 1] = g[n] \o s[n + 1] /\ s[n + 1] \in Seq(S)
    <3>1. (n + 1) - 1 = n
      OBVIOUS
    <3> QED BY <1>1, <1>a, <3>1
  <2>2. CASE n = 0
    <3>1. n + 1 = 1 /\ <<>> \o s[n + 1] = s[n + 1]
      BY <2>1, <2>2
    <3>2. flat[n + 1] = s[n + 1]
      BY <1>5, <3>1
    <3>3. g[n + 1] = s[n + 1]
      BY <1>1, <2>1, <2>2, <3>1
    <3> QED BY <3>2, <3>3
  <2>3. CASE n # 0
    <3>1. n \in 1 .. N /\ n + 1 # 1 /\ (n + 1) - 1 = n
      BY <1>1, <2>3
    <3>2. flat[n] = g[n]
      BY <1>7, <3>1
    <3>3. flat[n + 1] = flat[n] \o s[n + 1]
      BY <1>5, <3>1
    <3> QED BY <2>1, <3>2, <3>3
  <2> QED BY <2>2, <2>3
<1>8. Nat \subseteq A
  <2> HIDE DEF A
  <2> QED BY <1>6, <1>7, SetInduction
<1>9. CASE N = 0
  BY <1>1, <1>4, <1>9
<1>10. CASE N # 0
  <2>1. N \in A /\ N \in 1 .. N
    BY <1>1, <1>8, <1>10
  <2>2. flat[N] = g[N]
    BY <2>1
  <2> QED BY <1>4, <1>10, <2>2
<1> QED BY <1>9, <1>10

\* One more sequence is joined on behind the others.
LEMMA JoinedMore ==
    ASSUME NEW S
    PROVE  /\ Joined(<<>>) = <<>>
           /\ \A s \in Seq(Seq(S)) :
                /\ Joined(s) \in Seq(S)
                /\ \A x \in Seq(S) : Joined(Append(s, x)) = Joined(s) \o x
<1>1. Joined(<<>>) = <<>>
  BY DEF Joined
<1>2. ASSUME NEW s \in Seq(Seq(S)) PROVE Joined(s) \in Seq(S)
  <2>1. PICK g : Joins(S, s, g)
    BY JoinsExists
  <2>2. Joined(s) = g[Len(s)]
    BY <2>1, JoinedIs
  <2>3. Len(s) \in 0 .. Len(s)
    OBVIOUS
  <2> QED BY <2>1, <2>2, <2>3 DEF Joins
<1>3. ASSUME NEW s \in Seq(Seq(S)), NEW x \in Seq(S)
      PROVE  Joined(Append(s, x)) = Joined(s) \o x
  <2> DEFINE t == Append(s, x)
             n == Len(s)
  <2>1. t \in Seq(Seq(S)) /\ Len(t) = n + 1 /\ t[n + 1] = x /\ n \in Nat
        /\ \A i \in 1 .. n : t[i] = s[i]
    OBVIOUS
  <2> HIDE DEF t
  <2>2. PICK g : Joins(S, t, g)
    BY <2>1, JoinsExists
  <2>3. Joined(t) = g[n + 1] /\ g[n + 1] = g[n] \o x
    <3>1. Joined(t) = g[Len(t)]
      BY <2>1, <2>2, JoinedIs
    <3>2. n + 1 \in 1 .. Len(t) /\ (n + 1) - 1 = n
      BY <2>1
    <3> QED BY <2>1, <2>2, <3>1, <3>2 DEF Joins
  <2> DEFINE h == [i \in 0 .. n |-> g[i]]
  <2>4. Joins(S, s, h)
    <3>1. \A i \in 0 .. n : i \in 0 .. Len(t)
      BY <2>1
    <3>2. h \in [0 .. n -> Seq(S)] /\ h[0] = <<>>
      BY <2>1, <2>2, <3>1 DEF Joins
    <3>3. ASSUME NEW i \in 1 .. n PROVE h[i] = h[i - 1] \o s[i]
      <4>1. i \in 1 .. Len(t) /\ i - 1 \in 0 .. n /\ i \in 0 .. n
        BY <2>1
      <4>2. g[i] = g[i - 1] \o t[i] /\ t[i] = s[i]
        BY <2>1, <2>2, <4>1 DEF Joins
      <4> QED BY <4>1, <4>2
    <3> HIDE DEF h
    <3> QED BY <3>2, <3>3 DEF Joins
  <2>5. h[n] = g[n]
    BY <2>1
  <2> HIDE DEF h
  <2>6. Joined(s) = h[n]
    BY <2>4, JoinedIs
  <2> QED BY <2>3, <2>5, <2>6 DEF t
<1> QED BY <1>1, <1>2, <1>3

\* Joining two lists of sequences is joining what each joins to.
LEMMA JoinedBoth ==
    ASSUME NEW S, NEW s \in Seq(Seq(S)), NEW t \in Seq(Seq(S))
    PROVE  Joined(s \o t) = Joined(s) \o Joined(t)
<1> DEFINE B == Seq(S)
           A == {n \in Nat : \A u \in Seq(B) : Len(u) = n => Joined(s \o u) = Joined(s) \o Joined(u)}
<1>1. 0 \in A
  <2>1. ASSUME NEW u \in Seq(B), Len(u) = 0 PROVE Joined(s \o u) = Joined(s) \o Joined(u)
    <3>1. u = <<>> /\ s \o <<>> = s
      BY <2>1
    <3>2. Joined(s) \in Seq(S) /\ Joined(<<>>) = <<>>
      BY JoinedMore
    <3>3. Joined(s) \o <<>> = Joined(s)
      BY <3>2, EmptyJoin
    <3> QED BY <3>1, <3>2, <3>3
  <2> QED BY <2>1
<1>2. ASSUME NEW n \in Nat, n \in A PROVE n + 1 \in A
  <2>1. ASSUME NEW u \in Seq(B), Len(u) = n + 1 PROVE Joined(s \o u) = Joined(s) \o Joined(u)
    <3> DEFINE f == SubSeq(u, 1, n)
               x == u[n + 1]
    <3>a. f \in Seq(B) /\ Len(f) = n /\ x \in B /\ 1 \in Nat \ {0} /\ n + 1 \in 1 .. Len(u)
      BY <2>1
    <3>b. SubSeq(u, 1, n) \o SubSeq(u, n + 1, n + 1) = SubSeq(u, 1, n + 1)
      BY <2>1, <3>a, PartsJoin
    <3>c. SubSeq(u, n + 1, n + 1) = <<x>> /\ SubSeq(u, 1, n + 1) = u
      BY <2>1, <3>a, PartOfOne, PartOfAll
    <3> HIDE DEF x
    <3>h. s \in Seq(B)
      OBVIOUS
    <3>i. u = f \o <<x>>
      BY <3>b, <3>c
    <3> HIDE DEF f, B
    <3>d. u = f \o <<x>> /\ <<x>> \in Seq(B) /\ s \in Seq(B)
      BY <3>a, <3>h, <3>i
    <3>e. s \o (f \o <<x>>) = (s \o f) \o <<x>> /\ s \o f \in Seq(B)
      BY <3>a, <3>d, JoinAssociates, JoinIs
    <3> DEFINE sf == s \o f
    <3>f. sf \in Seq(B) /\ s \o u = sf \o <<x>>
      BY <3>d, <3>e
    <3> HIDE DEF sf, B
    <3>g. sf \o <<x>> = Append(sf, x) /\ f \o <<x>> = Append(f, x)
      BY <3>a, <3>f
    <3>1. f \in Seq(B) /\ Len(f) = n /\ x \in B /\ u = Append(f, x) /\ s \o u = Append(s \o f, x)
          /\ s \o f \in Seq(B)
      BY <3>a, <3>d, <3>e, <3>f, <3>g DEF sf
    <3> USE DEF B
    <3>2. Joined(s \o f) = Joined(s) \o Joined(f)
      BY <1>2, <3>1
    <3>3. x \in Seq(S) /\ f \in Seq(Seq(S)) /\ s \o f \in Seq(Seq(S))
      BY <3>1
    <3> HIDE DEF A, B
    <3>4. /\ Joined(u) = Joined(f) \o x /\ Joined(s \o u) = Joined(s \o f) \o x
          /\ Joined(s) \in Seq(S) /\ Joined(f) \in Seq(S)
      BY <3>1, <3>3, JoinedMore
    <3>5. (Joined(s) \o Joined(f)) \o x = Joined(s) \o (Joined(f) \o x)
      BY SMTT(60), <3>3, <3>4, JoinAssociates
    <3> QED BY <3>2, <3>4, <3>5
  <2> QED BY <2>1
<1> HIDE DEF A
<1>3. Nat \subseteq A
  BY <1>1, <1>2, SetInduction
<1>4. Len(t) \in A
  BY <1>3
<1> QED BY <1>4 DEF A

\* What the first k pieces join to, and what the others do.
JoinedUpto(s, k) == Joined(SubSeq(s, 1, k))
JoinedBehind(s, k) == Joined(SubSeq(s, k + 1, Len(s)))

LEMMA JoinedInTwo ==
    ASSUME NEW S, NEW s \in Seq(Seq(S))
    PROVE  /\ JoinedUpto(s, 0) = <<>> /\ JoinedUpto(s, Len(s)) = Joined(s)
           /\ JoinedBehind(s, 0) = Joined(s) /\ JoinedBehind(s, Len(s)) = <<>>
           /\ \A k \in 0 .. Len(s) : JoinedUpto(s, k) \in Seq(S) /\ JoinedBehind(s, k) \in Seq(S)
           /\ \A k \in 0 .. Len(s) - 1 :
                /\ s[k + 1] \in Seq(S)
                /\ JoinedUpto(s, k + 1) = JoinedUpto(s, k) \o s[k + 1]
                /\ JoinedBehind(s, k) = s[k + 1] \o JoinedBehind(s, k + 1)
<1> DEFINE B == Seq(S)
           n == Len(s)
<1>1. s \in Seq(B) /\ n \in Nat
  OBVIOUS
<1>2. \A k \in 0 .. n : SubSeq(s, 1, k) \in Seq(B) /\ SubSeq(s, k + 1, n) \in Seq(B)
  <2> HIDE DEF B
  <2> QED BY <1>1
<1>3. SubSeq(s, 1, 0) = <<>> /\ SubSeq(s, n + 1, n) = <<>> /\ SubSeq(s, 1, n) = s
  <2> HIDE DEF B
  <2> QED BY <1>1
<1>4. ASSUME NEW k \in 0 .. n
      PROVE  JoinedUpto(s, k) \in Seq(S) /\ JoinedBehind(s, k) \in Seq(S)
  BY <1>2, JoinedMore DEF JoinedUpto, JoinedBehind
<1>5. ASSUME NEW k \in 0 .. n - 1
      PROVE  /\ s[k + 1] \in Seq(S)
             /\ JoinedUpto(s, k + 1) = JoinedUpto(s, k) \o s[k + 1]
             /\ JoinedBehind(s, k) = s[k + 1] \o JoinedBehind(s, k + 1)
  <2> DEFINE f == SubSeq(s, 1, k)
             x == s[k + 1]
             r == SubSeq(s, (k + 1) + 1, n)
             one == <<x>>
  <2>1. k + 1 \in 1 .. n /\ k \in 0 .. n /\ k + 1 \in 0 .. n
    BY <1>1
  <2>2. x \in B /\ f \in Seq(B) /\ r \in Seq(B)
    BY <1>1, <1>2, <2>1
  <2>3. SubSeq(s, 1, k + 1) = Append(f, x)
    <3>1. SubSeq(s, 1, k) \o SubSeq(s, k + 1, k + 1) = SubSeq(s, 1, k + 1)
      <4>1. 1 <= k + 1 /\ k <= k + 1 /\ k + 1 <= Len(s) /\ k \in Nat /\ k + 1 \in Nat /\ 1 \in Nat \ {0}
        BY <2>1
      <4> HIDE DEF B, n
      <4> QED BY <1>1, <4>1, PartsJoin
    <3>2. SubSeq(s, k + 1, k + 1) = one
      <4> HIDE DEF B
      <4> QED BY <1>1, <2>1, PartOfOne
    <3>3. f \in Seq(B)
      BY <2>2
    <3>4. x \in B
      BY <2>2
    <3> HIDE DEF B, f, x
    <3>5. Append(f, x) = f \o <<x>>
      BY ONLY <3>3, <3>4, AppendJoins
    <3> QED BY <3>1, <3>2, <3>5 DEF f
  <2>4. SubSeq(s, k + 1, n) = one \o r
    <3> HIDE DEF B
    <3> QED BY <1>1, <2>1, PartStarts
  <2>5. one \in Seq(B) /\ Joined(one) = x
    <3>1. Joined(Append(<<>>, x)) = <<>> \o x /\ <<>> \o x = x
      <4> DEFINE none == <<>>
      <4>1. none \in Seq(Seq(S)) /\ x \in Seq(S) /\ none \o x = x
        BY <2>2, EmptyJoin
      <4>2. Joined(none) = none
        BY JoinedMore
      <4> HIDE DEF x, none
      <4>3. Joined(Append(none, x)) = Joined(none) \o x
        BY <4>1, JoinedMore
      <4> QED BY <4>1, <4>2, <4>3 DEF none
    <3>2. one \in Seq(B) /\ Append(<<>>, x) = one
      <4> HIDE DEF B, x
      <4> QED BY <2>2
    <3> QED BY <3>1, <3>2
  <2> HIDE DEF f, x, r, one
  <2>6. JoinedUpto(s, k + 1) = JoinedUpto(s, k) \o x
    BY <2>2, <2>3, JoinedMore DEF JoinedUpto, f
  <2>7. Joined(one \o r) = Joined(one) \o Joined(r)
    BY <2>2, <2>5, JoinedBoth
  <2>8. JoinedBehind(s, k) = x \o JoinedBehind(s, k + 1)
    BY <2>4, <2>5, <2>7 DEF JoinedBehind, r
  <2> QED BY <2>2, <2>6, <2>8 DEF x
<1>6. JoinedUpto(s, 0) = <<>> /\ JoinedUpto(s, n) = Joined(s)
  <2>1. Joined(<<>>) = <<>>
    BY JoinedMore
  <2> QED BY <1>3, <2>1 DEF JoinedUpto
<1>7. JoinedBehind(s, 0) = Joined(s) /\ JoinedBehind(s, n) = <<>>
  <2>1. Joined(<<>>) = <<>> /\ 0 + 1 = 1
    BY JoinedMore
  <2> QED BY <1>3, <2>1 DEF JoinedBehind
<1> HIDE DEF n, B
<1> QED BY <1>4, <1>5, <1>6, <1>7 DEF n

\* What is ahead of a place in a sequence, when a part of it has been read.
Rest(T, a) == SubSeq(T, a, Len(T))

LEMMA RestMoves ==
    ASSUME NEW S, NEW T \in Seq(S), NEW a \in Nat \ {0}, NEW x \in Nat,
           NEW X \in Seq(S), NEW Y \in Seq(S), Rest(T, a) = X \o Y, Len(X) = x
    PROVE  Rest(T, a + x) = Y
<1> DEFINE y == Len(Y)
           n == Len(T)
           R == SubSeq(T, a, n)
           Q == SubSeq(T, a + x, n)
<1>1. x \in Nat /\ y \in Nat /\ n \in Nat
  OBVIOUS
<1>2. /\ Len(R) = x + y
      /\ \A i \in 1 .. x + y : R[i] = IF i <= x THEN X[i] ELSE Y[i - x]
  <2>1. R = X \o Y
    BY DEF Rest
  <2> HIDE DEF R, y
  <2>2. /\ Len(X \o Y) = Len(X) + Len(Y)
        /\ \A i \in 1 .. Len(X) + Len(Y) : (X \o Y)[i] = IF i <= Len(X) THEN X[i] ELSE Y[i - Len(X)]
    BY JoinIs
  <2> QED BY <2>1, <2>2 DEF y
<1>3. /\ Len(R) = IF a <= n THEN n - a + 1 ELSE 0
      /\ \A i \in 1 .. Len(R) : R[i] = T[a + i - 1]
  OBVIOUS
<1>4. /\ Q \in Seq(S) /\ Len(Q) = IF a + x <= n THEN n - (a + x) + 1 ELSE 0
      /\ \A i \in 1 .. Len(Q) : Q[i] = T[a + x + i - 1]
  OBVIOUS
<1> HIDE DEF R, Q
<1> HIDE DEF y, n
<1>5. Len(Q) = y
  BY <1>1, <1>2, <1>3, <1>4
<1>6. ASSUME NEW i \in 1 .. y PROVE Q[i] = Y[i]
  <2>1. x + i \in 1 .. x + y /\ ~(x + i <= x) /\ (x + i) - x = i /\ a + x + i - 1 = a + (x + i) - 1
    BY <1>1
  <2>2. R[x + i] = Y[i] /\ R[x + i] = T[a + (x + i) - 1]
    BY <1>2, <1>3, <2>1
  <2> QED BY <1>4, <1>5, <2>1, <2>2
<1>7. Q = Y
  BY <1>4, <1>5, <1>6, SameSequence DEF y
<1> QED BY <1>7 DEF Rest, Q, n

LEMMA RestBegins ==
    ASSUME NEW S, NEW T \in Seq(S), NEW a \in Nat \ {0}, NEW y \in S, NEW Y \in Seq(S),
           Rest(T, a) = <<y>> \o Y
    PROVE  T[a] = y /\ Rest(T, a + 1) = Y
<1> DEFINE one == <<y>>
           R == SubSeq(T, a, Len(T))
<1>1. one \in Seq(S) /\ Len(one) = 1 /\ one[1] = y
  OBVIOUS
<1>2. /\ Len(R) \in Nat
      /\ \A i \in 1 .. Len(R) : R[i] = T[a + i - 1]
  OBVIOUS
<1>3. R = one \o Y
  BY DEF Rest
<1> HIDE DEF one, R
<1>4. /\ Len(one \o Y) = Len(one) + Len(Y)
      /\ \A i \in 1 .. Len(one) + Len(Y) : (one \o Y)[i] = IF i <= Len(one) THEN one[i] ELSE Y[i - Len(one)]
  BY <1>1, JoinIs
<1>5. Len(Y) \in Nat /\ a + 1 - 1 = a
  OBVIOUS
<1>6. 1 \in 1 .. Len(R) /\ R[1] = one[1]
  BY <1>1, <1>3, <1>4, <1>5
<1>7. Rest(T, a + 1) = Y
  <2> DEFINE m == 1
  <2>1. m \in Nat /\ Len(one) = m /\ Rest(T, a) = one \o Y
    BY <1>1 DEF one
  <2> HIDE DEF m
  <2>2. Rest(T, a + m) = Y
    <3>1. one \in Seq(S)
      BY <1>1
    <3>2. Len(one) = m
      BY <2>1
    <3>3. Rest(T, a) = one \o Y
      BY <2>1
    <3>4. m \in Nat
      BY <2>1
    <3> QED BY ONLY T \in Seq(S), a \in Nat \ {0}, Y \in Seq(S), <3>1, <3>2, <3>3, <3>4, RestMoves
  <2> QED BY <2>2 DEF m
<1> QED BY <1>1, <1>2, <1>5, <1>6, <1>7

\* A function on the numbers from 1 on is a sequence.
LEMMA FunctionIsSeq ==
    ASSUME NEW S, NEW n \in Nat, NEW f, DOMAIN f = 1 .. n, f = [k \in 1 .. n |-> f[k]],
           \A k \in 1 .. n : f[k] \in S
    PROVE  f \in Seq(S) /\ Len(f) = n
  OBVIOUS

\* The front of a sequence, and the next one.
LEMMA FrontGrows ==
    ASSUME NEW S, NEW s \in Seq(S), NEW k \in 0 .. Len(s) - 1
    PROVE  /\ SubSeq(s, 1, k) \in Seq(S) /\ Len(SubSeq(s, 1, k)) = k
           /\ Append(SubSeq(s, 1, k), s[k + 1]) = SubSeq(s, 1, k + 1)
           /\ k > 0 => SubSeq(s, 1, k)[k] = s[k]
<1> DEFINE f == SubSeq(s, 1, k)
           g == SubSeq(s, 1, k + 1)
           x == s[k + 1]
           h == Append(f, x)
<1>1. f \in Seq(S) /\ Len(f) = k /\ (\A i \in 1 .. k : f[i] = s[i]) /\ x \in S
  OBVIOUS
<1>2. g \in Seq(S) /\ Len(g) = k + 1 /\ (\A i \in 1 .. k + 1 : g[i] = s[i])
  OBVIOUS
<1> HIDE DEF f, g
<1>3. h \in Seq(S) /\ Len(h) = k + 1 /\ h[k + 1] = x /\ (\A i \in 1 .. k : h[i] = f[i])
  BY <1>1
<1> HIDE DEF h
<1>4. \A i \in 1 .. k + 1 : h[i] = g[i]
  BY <1>1, <1>2, <1>3
<1>5. h = g
  BY <1>2, <1>3, <1>4, SameSequence
<1> QED BY <1>1, <1>5 DEF f, g, h

\* A sequence with one more at its end.
LEMMA EndsWith ==
    ASSUME NEW S, NEW s \in Seq(S), NEW x \in S
    PROVE  /\ Append(s, x) = s \o <<x>> /\ Append(s, x) \in Seq(S)
           /\ Len(Append(s, x)) = Len(s) + 1 /\ Append(s, x)[Len(s) + 1] = x
           /\ Len(s) + 1 \in DOMAIN Append(s, x)
  OBVIOUS

\* The same, place by place.
LEMMA LongerByOne ==
    ASSUME NEW S, NEW s \in Seq(S), NEW x \in S
    PROVE  /\ Append(s, x) \in Seq(S) /\ Len(Append(s, x)) = Len(s) + 1
           /\ Append(s, x)[Len(s) + 1] = x
           /\ \A i \in 1 .. Len(s) : Append(s, x)[i] = s[i]
  OBVIOUS

\* Two in front of a sequence are one in front of another.
LEMMA TwoAhead ==
    ASSUME NEW S, NEW x \in S, NEW y \in S, NEW r \in Seq(S)
    PROVE  <<x, y>> \o r = <<x>> \o (<<y>> \o r) /\ <<y>> \o r \in Seq(S)
<1> DEFINE one == <<x>>
           two == <<y>>
<1>1. one \in Seq(S) /\ two \in Seq(S) /\ Append(one, y) = <<x, y>>
  <2> DEFINE xy == <<x, y>>
             ay == Append(one, y)
  <2>1. one \in Seq(S) /\ two \in Seq(S) /\ Len(one) = 1 /\ one[1] = x
    OBVIOUS
  <2>2. xy \in Seq(S) /\ Len(xy) = 2 /\ xy[1] = x /\ xy[2] = y
    OBVIOUS
  <2> HIDE DEF one, two, xy
  <2>3. ay \in Seq(S) /\ Len(ay) = 2 /\ ay[1] = x /\ ay[2] = y
    <3>1. 1 \in 1 .. Len(one) /\ Len(one) + 1 = 2
      BY <2>1
    <3>2. /\ Append(one, y) \in Seq(S) /\ Len(Append(one, y)) = Len(one) + 1
          /\ Append(one, y)[Len(one) + 1] = y
          /\ \A i \in 1 .. Len(one) : Append(one, y)[i] = one[i]
      <4>1. one \in Seq(S)
        BY <2>1
      <4> QED BY ONLY <4>1, y \in S, LongerByOne
    <3> QED BY <2>1, <3>1, <3>2
  <2> HIDE DEF ay
  <2>4. \A i \in 1 .. 2 : i = 1 \/ i = 2
    OBVIOUS
  <2>5. ay = xy
    BY <2>2, <2>3, <2>4, SameSequence
  <2> QED BY <2>1, <2>5 DEF ay, xy
<1>2. Append(one, y) = one \o two
  BY <1>1, AppendJoins
<1>3. two \o r \in Seq(S)
  BY <1>1, JoinIs
<1> HIDE DEF one, two
<1>4. (one \o two) \o r = one \o (two \o r)
  BY <1>1, JoinAssociates
<1> QED BY <1>1, <1>2, <1>3, <1>4 DEF one, two

\* One in front of a sequence.
LEMMA NotEmpty ==
    ASSUME NEW S, NEW x \in S, NEW r \in Seq(S)
    PROVE  <<x>> \o r # <<>> /\ <<x>> \o r \in Seq(S) /\ Len(<<x>> \o r) = 1 + Len(r)
           /\ (<<x>> \o r)[1] = x
<1> DEFINE one == <<x>>
           all == one \o r
<1>1. one \in Seq(S) /\ Len(one) = 1 /\ one[1] = x
  OBVIOUS
<1> HIDE DEF one
<1>2. all \in Seq(S) /\ Len(all) = 1 + Len(r) /\ all[1] = x
  <2>1. all \in Seq(S) /\ Len(all) = Len(one) + Len(r)
        /\ \A i \in 1 .. Len(one) + Len(r) : all[i] = IF i <= Len(one) THEN one[i] ELSE r[i - Len(one)]
    BY <1>1, JoinIs
  <2>2. 1 \in 1 .. Len(one) + Len(r) /\ 1 <= Len(one)
    BY <1>1
  <2> HIDE DEF all
  <2> QED BY <1>1, <2>1, <2>2
<1> HIDE DEF all
<1>3. all # <<>>
  BY <1>2
<1> QED BY <1>2, <1>3 DEF all, one

\* A sequence is what stands before a place and what stands behind it.
LEMMA SplitAt ==
    ASSUME NEW S, NEW s \in Seq(S), NEW p \in 0 .. Len(s)
    PROVE  /\ SubSeq(s, 1, p) \in Seq(S) /\ SubSeq(s, p + 1, Len(s)) \in Seq(S)
           /\ SubSeq(s, 1, p) \o SubSeq(s, p + 1, Len(s)) = s
           /\ p = 0 => SubSeq(s, 1, p) = <<>> /\ SubSeq(s, p + 1, Len(s)) = s
           /\ p = Len(s) => SubSeq(s, 1, p) = s /\ SubSeq(s, p + 1, Len(s)) = <<>>
           /\ p # Len(s) =>
                /\ p + 1 \in 0 .. Len(s) /\ s[p + 1] \in S
                /\ SubSeq(s, 1, p + 1) = Append(SubSeq(s, 1, p), s[p + 1])
                /\ SubSeq(s, p + 1, Len(s)) = <<s[p + 1]>> \o SubSeq(s, (p + 1) + 1, Len(s))
                /\ SubSeq(s, (p + 1) + 1, Len(s)) \in Seq(S)
<1>1. SubSeq(s, 1, p) \in Seq(S) /\ SubSeq(s, p + 1, Len(s)) \in Seq(S)
  OBVIOUS
<1>2. SubSeq(s, 1, Len(s)) = s
  BY PartOfAll
<1>3. SubSeq(s, 1, p) \o SubSeq(s, p + 1, Len(s)) = s
  <2> DEFINE l == Len(s)
             one == 1
  <2>1. /\ one \in Nat \ {0} /\ p \in Nat /\ l \in Nat /\ one <= p + 1 /\ p <= l /\ l <= Len(s)
    OBVIOUS
  <2> HIDE DEF l, one
  <2>3. SubSeq(s, one, p) \o SubSeq(s, p + 1, l) = SubSeq(s, one, l)
    BY ONLY <2>1, s \in Seq(S), PartsJoin
  <2>2. SubSeq(s, 1, p) \o SubSeq(s, p + 1, Len(s)) = SubSeq(s, 1, Len(s))
    BY <2>3 DEF l, one
  <2> QED BY <1>2, <2>2
<1>4. ASSUME p = 0 PROVE SubSeq(s, 1, p) = <<>> /\ SubSeq(s, p + 1, Len(s)) = s
  <2>1. SubSeq(s, 1, 0) = <<>> /\ 0 + 1 = 1
    OBVIOUS
  <2> QED BY <1>2, <1>4, <2>1
<1>5. ASSUME p = Len(s) PROVE SubSeq(s, 1, p) = s /\ SubSeq(s, p + 1, Len(s)) = <<>>
  <2>1. SubSeq(s, p + 1, Len(s)) = <<>>
    BY <1>5
  <2> QED BY <1>2, <1>5, <2>1
<1>6. ASSUME p # Len(s)
      PROVE  /\ p + 1 \in 0 .. Len(s) /\ s[p + 1] \in S
             /\ SubSeq(s, 1, p + 1) = Append(SubSeq(s, 1, p), s[p + 1])
             /\ SubSeq(s, p + 1, Len(s)) = <<s[p + 1]>> \o SubSeq(s, (p + 1) + 1, Len(s))
             /\ SubSeq(s, (p + 1) + 1, Len(s)) \in Seq(S)
  <2>1. p \in 0 .. Len(s) - 1 /\ p + 1 \in 1 .. Len(s) /\ p + 1 \in 0 .. Len(s)
    BY <1>6
  <2>2. s[p + 1] \in S /\ SubSeq(s, (p + 1) + 1, Len(s)) \in Seq(S)
    BY <2>1
  <2> QED BY <2>1, <2>2, FrontGrows, PartStarts
<1> QED BY <1>1, <1>3, <1>4, <1>5, <1>6

\* One more at the end of the second of two sequences.
LEMMA AppendBehind ==
    ASSUME NEW S, NEW s \in Seq(S), NEW t \in Seq(S), NEW x \in S
    PROVE  \A l, r : l = s \o t /\ r = Append(t, x) => Append(l, x) = s \o r
<1> SUFFICES ASSUME NEW l, l = s \o t, NEW r, r = Append(t, x)
             PROVE  Append(l, x) = s \o r
  OBVIOUS
<1> DEFINE one == <<x>>
<1>1. s \o t \in Seq(S) /\ one \in Seq(S)
  OBVIOUS
<1>2. Append(l, x) = l \o one /\ Append(t, x) = t \o one
  BY <1>1, AppendJoins
<1>3. (s \o t) \o one = s \o (t \o one)
  <2> HIDE DEF one
  <2> QED BY <1>1, JoinAssociates
<1> QED BY <1>2, <1>3

\* The first of three sequences begins with x.
LEMMA JoinsInside ==
    ASSUME NEW S, NEW x \in S, NEW r \in Seq(S), NEW s \in Seq(S), NEW t \in Seq(S)
    PROVE  /\ \A l : l = <<x>> \o r => (l \o s) \o t = <<x>> \o ((r \o s) \o t)
           /\ (r \o s) \o t \in Seq(S)
<1> DEFINE one == <<x>>
           rs == r \o s
<1>1. one \in Seq(S)
  OBVIOUS
<1>2. rs \in Seq(S)
  BY JoinIs
<1> HIDE DEF one
<1>3. (one \o r) \o s = one \o rs
  BY <1>1, JoinAssociates
<1> HIDE DEF rs
<1>4. (one \o rs) \o t = one \o (rs \o t)
  BY SMTT(60), <1>1, <1>2, JoinAssociates
<1>5. rs \o t \in Seq(S)
  BY <1>2, JoinIs
<1>6. ASSUME NEW l, l = one \o r PROVE (l \o s) \o t = one \o (rs \o t)
  BY <1>3, <1>4, <1>6
<1> QED BY <1>5, <1>6 DEF one, rs

\* The numbers that stand in a list.
NumbersOf(s) == {s[q] : q \in 1 .. Len(s)}

LEMMA NumbersJoin ==
    ASSUME NEW S, NEW s \in Seq(S), NEW t \in Seq(S)
    PROVE  NumbersOf(s \o t) = NumbersOf(s) \cup NumbersOf(t)
<1> DEFINE u == s \o t
           n == Len(s)
           k == Len(t)
<1>1. /\ n \in Nat /\ k \in Nat /\ Len(u) = n + k
      /\ \A i \in 1 .. n + k : u[i] = IF i <= n THEN s[i] ELSE t[i - n]
  BY JoinIs
<1> HIDE DEF u, n, k
<1>2. ASSUME NEW x \in NumbersOf(u) PROVE x \in NumbersOf(s) \cup NumbersOf(t)
  <2>1. PICK q \in 1 .. n + k : u[q] = x
    BY <1>1, <1>2 DEF NumbersOf
  <2>2. CASE q <= n
    <3>1. q \in 1 .. n /\ x = s[q]
      BY <1>1, <2>1, <2>2
    <3> QED BY <3>1 DEF NumbersOf, n
  <2>3. CASE ~(q <= n)
    <3>1. q - n \in 1 .. k /\ x = t[q - n]
      BY <1>1, <2>1, <2>3
    <3> QED BY <3>1 DEF NumbersOf, k
  <2> QED BY <2>2, <2>3
<1>3. ASSUME NEW x \in NumbersOf(s) PROVE x \in NumbersOf(u)
  <2>1. PICK q \in 1 .. n : s[q] = x
    BY <1>3 DEF NumbersOf, n
  <2>2. q \in 1 .. n + k /\ q <= n
    BY <1>1
  <2>3. u[q] = x
    BY <1>1, <2>1, <2>2
  <2> QED BY <1>1, <2>2, <2>3 DEF NumbersOf
<1>4. ASSUME NEW x \in NumbersOf(t) PROVE x \in NumbersOf(u)
  <2>1. PICK q \in 1 .. k : t[q] = x
    BY <1>4 DEF NumbersOf, k
  <2>2. n + q \in 1 .. n + k /\ ~(n + q <= n) /\ (n + q) - n = q
    BY <1>1
  <2>3. u[n + q] = x
    BY <1>1, <2>1, <2>2
  <2> QED BY <1>1, <2>2, <2>3 DEF NumbersOf
<1>5. NumbersOf(u) = NumbersOf(s) \cup NumbersOf(t)
  BY <1>2, <1>3, <1>4
<1> QED BY <1>5 DEF u

=============================================================================
