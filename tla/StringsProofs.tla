--------------------------- MODULE StringsProofs ----------------------------
(***************************************************************************)
(* Strings: those of the environment, and the functions on strings.         *)
(*                                                                         *)
(* Where a string finds memory behind an array that realloc has moved,      *)
(* environ always points to memory the program has, and setenv, unsetenv    *)
(* and getenv implement the abstract environment, whatever other memory is  *)
(* lacking: for every set of names, values and blocks, and every array the  *)
(* program is started with.                                                 *)
(*                                                                         *)
(* The functions on strings do what the C standard says, for all texts,     *)
(* paths and bounds.                                                        *)
(***************************************************************************)
EXTENDS Environ, Strings, Induction, SequenceTheorems, FiniteSetTheorems

\* i is the place of the first string NAME=..., or one behind the last.
IsFirst(entries, name, i) ==
    /\ i \in 1 .. Len(entries) + 1
    /\ i <= Len(entries) => entries[i].name = name
    /\ \A j \in 1 .. i - 1 : entries[j].name # name

\* What getenv finds in these strings.
ValueIn(entries, name) ==
    LET i == IndexIn(entries, name)
    IN  IF i > Len(entries) THEN Unset ELSE entries[i].value

\* IndexIn finds the first string, and there is only one.
LEMMA IndexIsFirst ==
    ASSUME NEW entries \in Seq(Entry), NEW name
    PROVE  /\ IsFirst(entries, name, IndexIn(entries, name))
           /\ \A i : IsFirst(entries, name, i) => i = IndexIn(entries, name)
<1> DEFINE found == {i \in DOMAIN entries : entries[i].name = name}
           index == IndexIn(entries, name)
<1>1. DOMAIN entries = 1 .. Len(entries) /\ Len(entries) \in Nat
  OBVIOUS
<1>2. found \in SUBSET Nat
  BY <1>1
<1>3. index = IF found = {} THEN Len(entries) + 1
              ELSE CHOOSE i \in found : \A j \in found : i <= j
  BY DEF IndexIn, IsVariable
<1>4. found # {} => index \in found /\ \A j \in found : index <= j
  <2>1. found # {} => \E i \in found : \A j \in found : i <= j
    BY <1>2, LeastNumber
  <2> QED BY <1>3, <2>1
<1> HIDE DEF index
<1>5. IsFirst(entries, name, index)
  <2>1. CASE found = {}
    <3>1. index = Len(entries) + 1 /\ \A j \in 1 .. Len(entries) : entries[j].name # name
      BY <1>1, <1>3, <2>1
    <3> QED BY <1>1, <3>1 DEF IsFirst
  <2>2. CASE found # {}
    <3>1. index \in 1 .. Len(entries) /\ entries[index].name = name
      BY <1>1, <1>4, <2>2
    <3>2. ASSUME NEW j \in 1 .. index - 1 PROVE entries[j].name # name
      BY <1>1, <1>4, <2>2, <3>1
    <3> QED BY <1>1, <3>1, <3>2 DEF IsFirst
  <2> QED BY <2>1, <2>2
<1>6. ASSUME NEW i, IsFirst(entries, name, i) PROVE i = index
  <2>1. i \in Nat /\ index \in Nat /\ i <= Len(entries) + 1 /\ index <= Len(entries) + 1
    BY <1>1, <1>5, <1>6 DEF IsFirst
  <2>2. ~(i < index)
    BY <1>1, <1>5, <1>6, <2>1 DEF IsFirst
  <2>3. ~(index < i)
    BY <1>1, <1>5, <1>6, <2>1 DEF IsFirst
  <2> QED BY <2>1, <2>2, <2>3
<1> QED BY <1>5, <1>6 DEF index

\* A value that is found is the value of a string, and none is found where no
\* string is one of the name.
LEMMA ValueFacts ==
    ASSUME NEW entries \in Seq(Entry), NEW name
    PROVE  /\ ValueIn(entries, name) \in Values \cup {Unset}
           /\ \A i : IsFirst(entries, name, i) =>
                ValueIn(entries, name) = IF i > Len(entries) THEN Unset ELSE entries[i].value
           /\ ValueIn(entries, name) = Unset <=> IndexIn(entries, name) = Len(entries) + 1
<1> DEFINE index == IndexIn(entries, name)
<1>1. IsFirst(entries, name, index) /\ \A i : IsFirst(entries, name, i) => i = index
  BY IndexIsFirst
<1>2. Len(entries) \in Nat /\ \A i \in 1 .. Len(entries) : entries[i] \in Entry
  OBVIOUS
<1>3. ValueIn(entries, name) = IF index > Len(entries) THEN Unset ELSE entries[index].value
  BY DEF ValueIn
<1>4. index \in 1 .. Len(entries) + 1
  BY <1>1 DEF IsFirst
<1>5. index <= Len(entries) => entries[index].value \in Values
  <2>1. index <= Len(entries) => entries[index] \in Entry
    BY <1>2, <1>4
  <2> QED BY <2>1 DEF Entry
<1> HIDE DEF index
<1>6. ValueIn(entries, name) = Unset <=> index = Len(entries) + 1
  BY <1>2, <1>3, <1>4, <1>5, EnvironAssumption
<1> QED BY <1>1, <1>2, <1>3, <1>4, <1>5, <1>6 DEF index

\* A string behind the others counts where its name has no value.
LEMMA AppendValue ==
    ASSUME NEW entries \in Seq(Entry), NEW entry \in Entry, NEW name
    PROVE  ValueIn(Append(entries, entry), name) =
             IF ValueIn(entries, name) = Unset /\ entry.name = name THEN entry.value
             ELSE ValueIn(entries, name)
<1> DEFINE longer == Append(entries, entry)
           index == IndexIn(entries, name)
<1>1. /\ longer \in Seq(Entry) /\ Len(longer) = Len(entries) + 1 /\ Len(entries) \in Nat
      /\ \A i \in 1 .. Len(entries) : longer[i] = entries[i]
      /\ longer[Len(entries) + 1] = entry
  BY AppendProperties
<1>2. IsFirst(entries, name, index)
  BY IndexIsFirst
<1> HIDE DEF longer, index
<1>3. CASE index <= Len(entries)
  <2>1. IsFirst(longer, name, index)
    BY <1>1, <1>2, <1>3 DEF IsFirst
  <2>2. ValueIn(longer, name) = entries[index].value
    BY <1>1, <1>2, <1>3, <2>1, ValueFacts DEF IsFirst
  <2>3. ValueIn(entries, name) = entries[index].value /\ ValueIn(entries, name) # Unset
    BY <1>1, <1>2, <1>3, ValueFacts DEF index, IsFirst
  <2> QED BY <2>2, <2>3 DEF longer
<1>4. CASE index = Len(entries) + 1
  <2>1. ValueIn(entries, name) = Unset
    BY <1>4, ValueFacts DEF index
  <2>2. CASE entry.name = name
    <3>1. IsFirst(longer, name, index)
      BY <1>1, <1>2, <1>4, <2>2 DEF IsFirst
    <3>2. ValueIn(longer, name) = entry.value
      BY <1>1, <1>4, <3>1, ValueFacts
    <3> QED BY <2>1, <2>2, <3>2 DEF longer
  <2>3. CASE entry.name # name
    <3>1. IsFirst(longer, name, Len(longer) + 1)
      BY <1>1, <1>2, <1>4, <2>3 DEF IsFirst
    <3>2. ValueIn(longer, name) = Unset
      BY <1>1, <3>1, ValueFacts
    <3> QED BY <2>1, <2>3, <3>2 DEF longer
  <2> QED BY <2>2, <2>3
<1>5. index <= Len(entries) \/ index = Len(entries) + 1
  BY <1>1, <1>2 DEF IsFirst
<1> QED BY <1>3, <1>4, <1>5

Changed(entries, name, value) ==
    [entries EXCEPT ![IndexIn(entries, name)] = [name |-> name, value |-> value]]

\* A string that replaces the first of its name counts for it.
LEMMA ReplaceValue ==
    ASSUME NEW entries \in Seq(Entry), NEW name \in Names, NEW value \in Values,
           IndexIn(entries, name) <= Len(entries),
           NEW other
    PROVE  /\ Changed(entries, name, value) \in Seq(Entry)
           /\ ValueIn(Changed(entries, name, value), other) =
                IF other = name THEN value ELSE ValueIn(entries, other)
<1> DEFINE entry == [name |-> name, value |-> value]
           place == IndexIn(entries, name)
           index == IndexIn(entries, other)
           changed == Changed(entries, name, value)
<1> SUFFICES /\ changed \in Seq(Entry)
             /\ ValueIn(changed, other) = IF other = name THEN value ELSE ValueIn(entries, other)
  OBVIOUS
<1>1. entry \in Entry
  BY DEF Entry
<1>2. IsFirst(entries, name, place) /\ IsFirst(entries, other, index)
  BY IndexIsFirst
<1>3. place \in 1 .. Len(entries) /\ Len(entries) \in Nat
  BY <1>2 DEF IsFirst
<1>4. /\ changed \in Seq(Entry) /\ Len(changed) = Len(entries)
      /\ \A j \in 1 .. Len(entries) : changed[j] = IF j = place THEN entry ELSE entries[j]
  BY <1>1, <1>3, ExceptSeq DEF Changed
<1>5. entry.name = name /\ entry.value = value
  OBVIOUS
<1>6. entries[place].name = name
  BY <1>2, <1>3 DEF IsFirst
<1> HIDE DEF place, entry, changed
<1>7. \A j \in 1 .. Len(entries) : changed[j].name = entries[j].name
  BY <1>4, <1>5, <1>6
<1>8. IsFirst(changed, other, index)
  BY <1>2, <1>3, <1>4, <1>7 DEF IsFirst
<1>9. ValueIn(changed, other) = IF index > Len(entries) THEN Unset ELSE changed[index].value
  BY <1>4, <1>8, ValueFacts
<1>10. ValueIn(entries, other) = IF index > Len(entries) THEN Unset ELSE entries[index].value
  BY DEF ValueIn
<1>11. CASE other = name
  <2>1. index = place
    BY <1>11 DEF place
  <2> HIDE DEF index
  <2> QED BY <1>3, <1>4, <1>5, <1>9, <1>11, <2>1
<1>12. CASE other # name
  <2>1. index # place \/ index > Len(entries)
    BY <1>2, <1>6, <1>12, <1>3 DEF IsFirst
  <2>2. index \in 1 .. Len(entries) + 1
    BY <1>2 DEF IsFirst
  <2> HIDE DEF index
  <2> QED BY <1>3, <1>4, <1>9, <1>10, <1>12, <2>1, <2>2
<1> QED BY <1>4, <1>11, <1>12

\* What unsetenv leaves: no string of the name, and the others as they were.
LEMMA WithoutValue ==
    ASSUME NEW entries \in Seq(Entry), NEW name \in Names
    PROVE  /\ Without(entries, name) \in Seq(Entry)
           /\ \A other \in Names :
                ValueIn(Without(entries, name), other) =
                  IF other = name THEN Unset ELSE ValueIn(entries, other)
<1> DEFINE last == Len(entries)
           Step(n, t) == IF n \notin 1 .. last THEN t
                         ELSE IF entries[n].name = name THEN t
                         ELSE Append(t, entries[n])
           step == [n \in Nat |-> [t \in Seq(Entry) |-> Step(n, t)]]
           Body(g) == [n \in 0 .. last |->
                         IF n = 0 THEN <<>>
                         ELSE IF entries[n].name = name THEN g[n - 1]
                         ELSE Append(g[n - 1], entries[n])]
           kept == CHOOSE g : g = Body(g)
<1>1. last \in Nat /\ \A n \in 1 .. last : entries[n] \in Entry
  OBVIOUS
<1>2. \A n \in Nat : \A t \in Seq(Entry) : step[n][t] \in Seq(Entry)
  <2>1. ASSUME NEW n \in Nat, NEW t \in Seq(Entry) PROVE Step(n, t) \in Seq(Entry)
    BY <1>1, AppendProperties
  <2> QED BY <2>1
<1>3. PICK g \in [0 .. last -> Seq(Entry)] :
         g[0] = <<>> /\ \A n \in 1 .. last : g[n] = step[n][g[n - 1]]
  <2> DEFINE T == Seq(Entry)
             empty == <<>>
  <2> HIDE DEF step, last
  <2>1. empty \in T /\ (\A n \in Nat : \A t \in T : step[n][t] \in T) /\ last \in Nat
    BY <1>1, <1>2
  <2> HIDE DEF T, empty
  <2>2. \E g : Iterated(T, empty, step, last, g)
    BY <2>1, Iterates
  <2> QED BY <2>2 DEF T, empty, Iterated
<1>4. \A n \in 1 .. last : g[n - 1] \in Seq(Entry) /\ g[n] = Step(n, g[n - 1])
  <2> SUFFICES ASSUME NEW n \in 1 .. last
               PROVE  g[n - 1] \in Seq(Entry) /\ g[n] = Step(n, g[n - 1])
    OBVIOUS
  <2>1. n - 1 \in 0 .. last /\ n \in Nat
    BY <1>1
  <2> QED BY <1>3, <2>1
<1>5. g = Body(g)
  <2>1. ASSUME NEW n \in 0 .. last PROVE g[n] = Body(g)[n]
    <3>1. CASE n = 0
      BY <1>3, <3>1
    <3>2. CASE n # 0
      <4>1. n \in 1 .. last
        BY <1>1, <3>2
      <4> QED BY <1>4, <3>2, <4>1
    <3> QED BY <3>1, <3>2
  <2>2. DOMAIN Body(g) = 0 .. last /\ DOMAIN g = 0 .. last
    OBVIOUS
  <2> HIDE DEF Body
  <2>3. g = [n \in 0 .. last |-> Body(g)[n]]
    BY <2>1, <2>2
  <2>4. Body(g) = [n \in 0 .. last |-> Body(g)[n]]
    BY <2>2 DEF Body
  <2> QED BY <2>3, <2>4
<1>6. kept = Body(kept)
  BY <1>5
<1>7. Without(entries, name) = kept[last]
  BY DEF Without, IsVariable
<1> HIDE DEF kept, last
<1>8. \A n \in 1 .. last : kept[n] = IF entries[n].name = name THEN kept[n - 1]
                                     ELSE Append(kept[n - 1], entries[n])
  <2> SUFFICES ASSUME NEW n \in 1 .. last
               PROVE  kept[n] = IF entries[n].name = name THEN kept[n - 1]
                                ELSE Append(kept[n - 1], entries[n])
    OBVIOUS
  <2>1. n \in 0 .. last /\ n # 0
    BY <1>1
  <2>2. Body(kept)[n] = IF entries[n].name = name THEN kept[n - 1]
                        ELSE Append(kept[n - 1], entries[n])
    BY <2>1
  <2> HIDE DEF Body
  <2> QED BY <1>6, <2>2
<1>9. kept[0] = <<>>
  <2>1. 0 \in 0 .. last
    BY <1>1
  <2>2. Body(kept)[0] = <<>>
    BY <2>1
  <2> HIDE DEF Body
  <2> QED BY <1>6, <2>2
<1> DEFINE First(n) == SubSeq(entries, 1, n)
           Good(n) == /\ kept[n] \in Seq(Entry)
                      /\ First(n) \in Seq(Entry)
                      /\ \A other \in Names :
                           ValueIn(kept[n], other) =
                             IF other = name THEN Unset ELSE ValueIn(First(n), other)
           S == {n \in Nat : n <= last => Good(n)}
<1>10. 0 \in S
  <2>1. First(0) = <<>> /\ <<>> \in Seq(Entry) /\ Len(<<>>) = 0
    BY SubSeqEmpty
  <2> DEFINE empty == <<>>
  <2>2. empty \in Seq(Entry) /\ Len(empty) = 0
    BY <2>1
  <2>3. ASSUME NEW other PROVE ValueIn(empty, other) = Unset
    <3> DEFINE i == Len(empty) + 1
    <3> HIDE DEF empty
    <3>1. IsFirst(empty, other, i) /\ i > Len(empty)
      BY <2>2 DEF IsFirst
    <3> HIDE DEF i
    <3> QED BY <2>2, <3>1, ValueFacts
  <2> QED BY <1>9, <2>1, <2>3
<1>11. ASSUME NEW n \in Nat, n \in S PROVE n + 1 \in S
  <2> SUFFICES ASSUME n + 1 <= last PROVE Good(n + 1)
    OBVIOUS
  <2>1. n + 1 \in 1 .. last /\ n <= last /\ (n + 1) - 1 = n
    BY <1>1
  <2>2. Good(n) /\ entries[n + 1] \in Entry
    BY <1>1, <1>11, <2>1
  <2>3. First(n + 1) = Append(First(n), entries[n + 1])
    <3>1. First(n + 1) = First(n) \o <<entries[n + 1]>>
      BY <2>1, SubSeqRecursiveSecond DEF last
    <3>2. Append(First(n), entries[n + 1]) = First(n) \o <<entries[n + 1]>>
      BY <2>2, AppendIsConcat
    <3> QED BY <3>1, <3>2
  <2>4. First(n + 1) \in Seq(Entry)
    BY <2>2, <2>3, AppendProperties
  <2> HIDE DEF First
  <2>5. \A other \in Names : ValueIn(First(n + 1), other) =
          IF ValueIn(First(n), other) = Unset /\ entries[n + 1].name = other
          THEN entries[n + 1].value ELSE ValueIn(First(n), other)
    <3> DEFINE so_far == First(n)
               entry == entries[n + 1]
    <3>1. so_far \in Seq(Entry) /\ entry \in Entry /\ First(n + 1) = Append(so_far, entry)
      BY <2>2, <2>3
    <3> HIDE DEF so_far, entry
    <3>2. \A other : ValueIn(Append(so_far, entry), other) =
            IF ValueIn(so_far, other) = Unset /\ entry.name = other THEN entry.value
            ELSE ValueIn(so_far, other)
      BY <3>1, AppendValue
    <3> QED BY <3>1, <3>2 DEF so_far, entry
  <2>6. CASE entries[n + 1].name = name
    <3>1. kept[n + 1] = kept[n]
      BY <1>8, <2>1, <2>6
    <3> QED BY <2>2, <2>4, <2>5, <2>6, <3>1
  <2>7. CASE entries[n + 1].name # name
    <3>1. kept[n + 1] = Append(kept[n], entries[n + 1])
      BY <1>8, <2>1, <2>7
    <3>2. kept[n + 1] \in Seq(Entry)
      BY <2>2, <3>1, AppendProperties
    <3>3. \A other \in Names : ValueIn(kept[n + 1], other) =
            IF ValueIn(kept[n], other) = Unset /\ entries[n + 1].name = other
            THEN entries[n + 1].value ELSE ValueIn(kept[n], other)
      BY <2>2, <3>1, AppendValue
    <3> QED BY <2>2, <2>4, <2>5, <2>7, <3>2, <3>3
  <2> QED BY <2>6, <2>7
<1> HIDE DEF S
<1>12. Nat \subseteq S
  BY <1>10, <1>11, SetInduction
<1>13. Good(last)
  BY <1>1, <1>12 DEF S
<1>14. First(last) = entries
  BY SubSeqFull DEF last
<1> QED BY <1>7, <1>13, <1>14

-----------------------------------------------------------------------------

\* The blocks and their strings once a block that is allocated has got its own.
LEMMA StoredFacts ==
    ASSUME array \in [Blocks \cup {StartBlock} -> Seq(Entry)],
           NEW b \in Blocks, NEW allocated \in SUBSET Blocks, NEW entries \in Seq(Entry)
    PROVE  /\ Stored(b, allocated, entries) \in [Blocks \cup {StartBlock} -> Seq(Entry)]
           /\ Stored(b, allocated, entries)[b] = entries
<1>1. <<>> \in Seq(Entry)
  OBVIOUS
<1>2. DOMAIN array = Blocks \cup {StartBlock}
  OBVIOUS
<1> QED BY <1>1, <1>2 DEF Stored

\* What realloc may return is a block that is then allocated.
LEMMA ReallocatedFacts ==
    ASSUME TypeOK, EnvironValid, NEW r \in Reallocated
    PROVE  /\ r.held \subseteq Blocks
           /\ r.block # NULL => r.block \in Blocks /\ r.block \in r.held
<1>1. CASE r = [block |-> NULL, held |-> held]
  BY <1>1 DEF TypeOK
<1>2. CASE last_environ # NULL /\ r = [block |-> last_environ, held |-> held]
  BY <1>2 DEF TypeOK, EnvironValid
<1>3. ASSUME NEW b \in Blocks \ held,
             r = [block |-> b, held |-> (held \ {last_environ}) \cup {b}]
      PROVE  r.held \subseteq Blocks /\ r.block \in Blocks /\ r.block \in r.held
  BY <1>3 DEF TypeOK
<1> QED BY <1>1, <1>2, <1>3 DEF Reallocated

\* Each call keeps environ in order, when memory for a string is always there.
\* What it does to the values, and what it returns, is a step of the abstract
\* environment.
LEMMA EnvValues == env = [name \in Names |-> ValueIn(Strings, name)]
BY DEF env, Getenv, ValueIn

LEMMA StringsTyped ==
    ASSUME TypeOK
    PROVE  Strings \in Seq(Entry)
BY DEF TypeOK, Strings

\* realloc has given a block, but there is no memory for the string: what environ
\* points to stays.
LEMMA NoStringRight ==
    ASSUME EnvironSound, NEW name \in Names, NEW value \in Values, NEW replace \in BOOLEAN,
           NEW r \in Reallocated, r.block # NULL, last_environ \in r.held \cup {NULL},
           held' = r.held, array' = Stored(r.block, r.held, Resized(Len(Strings))),
           ret' = Returned("setenv", name, -1), UNCHANGED <<environ, last_environ>>
    PROVE  EnvironSound' /\ Abstract!Set(name, value, replace)
<1> DEFINE left == Resized(Len(Strings))
           end == IF Len(Strings) < Len(array[last_environ]) THEN Len(Strings)
                  ELSE Len(array[last_environ])
<1>1. /\ TypeOK /\ EnvironValid /\ Strings \in Seq(Entry)
      /\ array \in [Blocks \cup {StartBlock} -> Seq(Entry)]
  BY StringsTyped DEF EnvironSound, TypeOK
<1>2. /\ r.held \subseteq Blocks /\ r.block \in Blocks /\ r.block \in r.held
  BY <1>1, ReallocatedFacts
<1>3. last_environ # NULL => /\ array[last_environ] \in Seq(Entry)
                            /\ end \in 0 .. Len(array[last_environ])
                            /\ left = SubSeq(array[last_environ], 1, end)
  <2>1. last_environ # NULL => array[last_environ] \in Seq(Entry)
    BY <1>1 DEF TypeOK
  <2>2. Len(Strings) \in Nat
    BY <1>1
  <2> QED BY <2>1, <2>2 DEF Resized
<1>4. last_environ = NULL => left = <<>>
  BY DEF Resized
<1> HIDE DEF left, end
<1>5. left \in Seq(Entry)
  <2>1. <<>> \in Seq(Entry)
    OBVIOUS
  <2>2. \A s \in Seq(Entry) : \A n \in 0 .. Len(s) : SubSeq(s, 1, n) \in Seq(Entry)
    OBVIOUS
  <2> QED BY <1>3, <1>4, <2>1, <2>2
<1>6. /\ array' \in [Blocks \cup {StartBlock} -> Seq(Entry)]
      /\ array' = Stored(r.block, r.held, left)
  BY <1>1, <1>2, <1>5, StoredFacts DEF left
<1>7. ret' \in [call : {"none", "setenv", "unsetenv"}, name : Names \cup {NULL}, code : {0, -1}]
  BY DEF Returned
<1>8. /\ environ \in r.held \cup {StartBlock}
      /\ r.block = environ => last_environ = environ
  <2>1. /\ held \subseteq Blocks /\ last_environ \in held \cup {NULL}
        /\ environ \in held \cup {StartBlock} /\ NULL \notin Blocks /\ StartBlock \notin Blocks
    BY <1>1, EnvironAssumption DEF EnvironValid, TypeOK
  <2>2. CASE last_environ # NULL /\ r = [block |-> last_environ, held |-> held]
    BY <2>1, <2>2
  <2>3. ASSUME NEW b \in Blocks \ held,
               r = [block |-> b, held |-> (held \ {last_environ}) \cup {b}]
        PROVE  /\ environ \in r.held \cup {StartBlock}
               /\ r.block = environ => last_environ = environ
    <3>1. last_environ = NULL
      BY <2>1, <2>3
    <3> QED BY <2>1, <2>3, <3>1
  <2> QED BY <2>2, <2>3 DEF Reallocated
<1>9. EnvironSound'
  BY <1>1, <1>2, <1>6, <1>7, <1>8 DEF EnvironSound, TypeOK, EnvironValid
<1>10. array'[environ] = array[environ]
  <2>1. environ \in DOMAIN array /\ environ \notin Blocks \ r.held
    BY <1>1, <1>8, EnvironAssumption DEF TypeOK
  <2>2. CASE environ # r.block
    BY <1>6, <2>1, <2>2 DEF Stored
  <2>3. CASE environ = r.block
    <3>1. last_environ = environ /\ last_environ # NULL
      BY <1>8, <2>3
    <3>2. array[environ] \in Seq(Entry) /\ left = SubSeq(array[environ], 1, Len(array[environ]))
      BY <1>3, <3>1 DEF Strings, end
    <3>3. left = array[environ]
      BY <3>2, SubSeqFull
    <3> QED BY <1>6, <2>1, <2>3, <3>3 DEF Stored
  <2> QED BY <2>2, <2>3
<1>11. env' = env
  BY <1>10 DEF env, Getenv, Strings, IndexIn
<1> QED BY <1>9, <1>11 DEF Abstract!Set, Abstract!Returned, Returned

LEMMA AddEntryRight ==
    ASSUME EnvironSound, ~FailsAfterMove, NEW name \in Names, NEW value \in Values,
           NEW replace \in BOOLEAN,
           IndexIn(Strings, name) > Len(Strings), AddEntry(name, value)
    PROVE  EnvironSound' /\ Abstract!Set(name, value, replace)
<1> DEFINE entry == [name |-> name, value |-> value]
<1>1. TypeOK /\ EnvironValid /\ Strings \in Seq(Entry) /\ entry \in Entry
  BY StringsTyped DEF EnvironSound, Entry
<1>2. ret' \in [call : {"none", "setenv", "unsetenv"}, name : Names \cup {NULL}, code : {0, -1}]
  BY DEF AddEntry, Returned
<1>3. PICK r \in Reallocated :
        \/ /\ r.block = NULL
           /\ ret' = Returned("setenv", name, -1)
           /\ UNCHANGED <<environ, last_environ, array, held>>
        \/ /\ r.block # NULL
           /\ environ' = r.block
           /\ last_environ' = r.block
           /\ held' = r.held
           /\ array' = Stored(r.block, r.held, Extended(Len(Strings), entry))
           /\ ret' = Returned("setenv", name, 0)
        \/ /\ r.block # NULL /\ last_environ \in r.held \cup {NULL}
           /\ held' = r.held
           /\ array' = Stored(r.block, r.held, Resized(Len(Strings)))
           /\ ret' = Returned("setenv", name, -1)
           /\ UNCHANGED <<environ, last_environ>>
  BY DEF AddEntry
<1>4. CASE r.block = NULL
  <2>1. ret' = Returned("setenv", name, -1) /\ UNCHANGED <<environ, last_environ, array, held>>
    BY <1>3, <1>4
  <2>2. EnvironSound'
    BY <1>1, <1>2, <2>1 DEF EnvironSound, TypeOK, EnvironValid
  <2>3. env' = env
    BY <2>1 DEF env, Getenv, Strings, IndexIn
  <2> QED BY <2>1, <2>2, <2>3 DEF Abstract!Set, Abstract!Returned, Returned
<1>6. CASE /\ r.block # NULL /\ last_environ \in r.held \cup {NULL}
           /\ held' = r.held
           /\ array' = Stored(r.block, r.held, Resized(Len(Strings)))
           /\ ret' = Returned("setenv", name, -1)
           /\ UNCHANGED <<environ, last_environ>>
  BY <1>1, <1>2, <1>6, NoStringRight
<1>5. CASE /\ r.block # NULL
           /\ environ' = r.block
           /\ last_environ' = r.block
           /\ held' = r.held
           /\ array' = Stored(r.block, r.held, Extended(Len(Strings), entry))
           /\ ret' = Returned("setenv", name, 0)
  <2> DEFINE longer == Append(Strings, entry)
  <2>1. /\ environ' = r.block /\ last_environ' = r.block /\ held' = r.held
        /\ array' = Stored(r.block, r.held, Extended(Len(Strings), entry))
        /\ ret' = Returned("setenv", name, 0)
    BY <1>5
  <2>2. Extended(Len(Strings), entry) = longer /\ longer \in Seq(Entry)
    BY <1>1, SubSeqFull, AppendProperties DEF Extended
  <2>3. r.held \subseteq Blocks /\ r.block \in Blocks /\ r.block \in r.held
    BY <1>1, <1>5, ReallocatedFacts
  <2>4. /\ array' \in [Blocks \cup {StartBlock} -> Seq(Entry)]
        /\ array'[environ'] = longer
    <3>1. /\ Stored(r.block, r.held, longer) \in [Blocks \cup {StartBlock} -> Seq(Entry)]
          /\ Stored(r.block, r.held, longer)[r.block] = longer
      <4>1. array \in [Blocks \cup {StartBlock} -> Seq(Entry)]
        BY <1>1 DEF TypeOK
      <4>2. longer \in Seq(Entry)
        BY <2>2
      <4> HIDE DEF longer
      <4> QED BY <2>3, <4>1, <4>2, StoredFacts
    <3> QED BY <2>1, <2>2, <3>1
  <2>5. EnvironSound'
    BY <1>2, <2>1, <2>3, <2>4 DEF EnvironSound, TypeOK, EnvironValid
  <2>6. \A n \in Names : ValueIn(Strings', n) =
          IF ValueIn(Strings, n) = Unset /\ name = n THEN value ELSE ValueIn(Strings, n)
    <3>1. Strings' = longer
      BY <2>4 DEF Strings
    <3> QED BY <1>1, <3>1, AppendValue
  <2>7. ValueIn(Strings, name) = Unset
    BY DEF ValueIn
  <2>8. env' = [env EXCEPT ![name] = value] /\ env[name] = Unset
    <3>1. env' = [n \in Names |-> ValueIn(Strings', n)]
      BY DEF env, Getenv, ValueIn
    <3>2. env = [n \in Names |-> ValueIn(Strings, n)]
      BY EnvValues
    <3> QED BY <2>6, <2>7, <3>1, <3>2
  <2> QED BY <2>1, <2>5, <2>8 DEF Abstract!Set, Abstract!Returned, Returned
<1> QED BY <1>3, <1>4, <1>5, <1>6

LEMMA ReplaceEntryRight ==
    ASSUME EnvironSound, NEW name \in Names, NEW value \in Values, NEW replace \in BOOLEAN,
           IndexIn(Strings, name) <= Len(Strings),
           ReplaceEntry(IndexIn(Strings, name), name, value, replace)
    PROVE  EnvironSound' /\ Abstract!Set(name, value, replace)
<1> DEFINE entry == [name |-> name, value |-> value]
           place == IndexIn(Strings, name)
           changed == [Strings EXCEPT ![place] = entry]
<1>1. TypeOK /\ EnvironValid /\ Strings \in Seq(Entry) /\ entry \in Entry
  BY StringsTyped DEF EnvironSound, Entry
<1>2. /\ ret' \in [call : {"none", "setenv", "unsetenv"}, name : Names \cup {NULL}, code : {0, -1}]
      /\ UNCHANGED <<environ, last_environ, held>>
  BY DEF ReplaceEntry, Returned
<1>3. CASE UNCHANGED array
  <2>1. EnvironSound'
    BY <1>1, <1>2, <1>3 DEF EnvironSound, TypeOK, EnvironValid
  <2>2. env' = env
    BY <1>2, <1>3 DEF env, Getenv, Strings, IndexIn
  <2>3. ret' = Returned("setenv", name, -1) \/ (~replace /\ ret' = Returned("setenv", name, 0))
        \/ (replace /\ array' = [array EXCEPT ![environ][place] = entry]
                    /\ ret' = Returned("setenv", name, 0))
    BY DEF ReplaceEntry
  <2>4. env[name] # Unset
    <3>1. ValueIn(Strings, name) # Unset
      <4>1. Len(Strings) \in Nat /\ IndexIn(Strings, name) # Len(Strings) + 1
        BY <1>1
      <4> QED BY <1>1, <4>1, ValueFacts
    <3> QED BY <3>1, EnvValues
  <2>5. CASE ret' = Returned("setenv", name, -1)
    BY <2>1, <2>2, <2>5 DEF Abstract!Set, Abstract!Returned, Returned
  <2>6. CASE ~replace /\ ret' = Returned("setenv", name, 0)
    BY <2>1, <2>2, <2>4, <2>6 DEF Abstract!Set, Abstract!Returned, Returned
  <2>7. CASE replace /\ array' = [array EXCEPT ![environ][place] = entry]
             /\ ret' = Returned("setenv", name, 0)
    \* The string was the new one already.
    <3>1. Strings' = changed
      BY <1>1, <1>2, <2>7 DEF Strings, TypeOK
    <3>2. Strings' = Strings
      BY <1>2, <1>3 DEF Strings
    <3>3. ValueIn(changed, name) = value
      BY <1>1, ReplaceValue DEF Changed
    <3>4. env[name] = value
      BY <3>1, <3>2, <3>3, EnvValues
    <3>5. env' = [env EXCEPT ![name] = value]
      BY <2>2, <3>4 DEF env
    <3> QED BY <2>1, <2>7, <3>5 DEF Abstract!Set, Abstract!Returned, Returned
  <2> QED BY <2>3, <2>5, <2>6, <2>7
<1>4. CASE /\ replace
           /\ array' = [array EXCEPT ![environ][place] = entry]
           /\ ret' = Returned("setenv", name, 0)
  <2>1. array' = [array EXCEPT ![environ] = changed]
    BY <1>4 DEF Strings
  <2>2. /\ changed \in Seq(Entry)
        /\ \A other : ValueIn(changed, other) = IF other = name THEN value
                                               ELSE ValueIn(Strings, other)
    <3>1. changed = Changed(Strings, name, value)
      BY DEF Changed
    <3> HIDE DEF changed
    <3>2. changed \in Seq(Entry)
      BY <1>1, <3>1, ReplaceValue
    <3>3. ASSUME NEW other
          PROVE  ValueIn(changed, other) = IF other = name THEN value ELSE ValueIn(Strings, other)
      BY <1>1, <3>1, ReplaceValue
    <3> QED BY <3>2, <3>3
  <2> HIDE DEF changed
  <2>3. array' \in [Blocks \cup {StartBlock} -> Seq(Entry)] /\ array'[environ'] = changed
    BY <1>1, <1>2, <2>1, <2>2 DEF TypeOK
  <2>4. EnvironSound'
    BY <1>1, <1>2, <2>3 DEF EnvironSound, TypeOK, EnvironValid
  <2>5. env' = [env EXCEPT ![name] = value]
    <3>1. env' = [n \in Names |-> ValueIn(Strings', n)]
      BY DEF env, Getenv, ValueIn
    <3>2. Strings' = changed
      BY <2>3 DEF Strings
    <3> QED BY <2>2, <3>1, <3>2, EnvValues
  <2> QED BY <1>4, <2>4, <2>5 DEF Abstract!Set, Abstract!Returned, Returned
<1> QED BY <1>3, <1>4 DEF ReplaceEntry

LEMMA SetenvRight ==
    ASSUME EnvironSound, ~FailsAfterMove, NEW name \in Names, NEW value \in Values,
           NEW replace \in BOOLEAN, Setenv(name, value, replace)
    PROVE  EnvironSound' /\ Abstract!Set(name, value, replace)
<1>1. IndexIn(Strings, name) \in Nat /\ Len(Strings) \in Nat
  <2>1. Strings \in Seq(Entry)
    BY StringsTyped DEF EnvironSound
  <2>2. IsFirst(Strings, name, IndexIn(Strings, name))
    BY <2>1, IndexIsFirst
  <2> QED BY <2>1, <2>2 DEF IsFirst
<1>2. CASE IndexIn(Strings, name) > Len(Strings)
  BY <1>2, AddEntryRight DEF Setenv
<1>3. CASE ~(IndexIn(Strings, name) > Len(Strings))
  BY <1>1, <1>3, ReplaceEntryRight DEF Setenv
<1> QED BY <1>2, <1>3

LEMMA UnsetenvRight ==
    ASSUME EnvironSound, NEW name \in Names, Unsetenv(name)
    PROVE  EnvironSound' /\ Abstract!Remove(name)
<1> DEFINE left == Without(Strings, name)
<1>1. TypeOK /\ EnvironValid /\ Strings \in Seq(Entry)
  BY StringsTyped DEF EnvironSound
<1>2. /\ array' = [array EXCEPT ![environ] = left]
      /\ ret' = Returned("unsetenv", name, 0)
      /\ UNCHANGED <<environ, last_environ, held>>
  BY DEF Unsetenv
<1>3. /\ left \in Seq(Entry)
      /\ \A other \in Names : ValueIn(left, other) = IF other = name THEN Unset
                                                     ELSE ValueIn(Strings, other)
  BY <1>1, WithoutValue
<1> HIDE DEF left
<1>4. array' \in [Blocks \cup {StartBlock} -> Seq(Entry)] /\ array'[environ'] = left
  BY <1>1, <1>2, <1>3 DEF TypeOK
<1>5. EnvironSound'
  BY <1>1, <1>2, <1>4 DEF EnvironSound, TypeOK, EnvironValid, Returned
<1>6. env' = [env EXCEPT ![name] = Unset]
  <2>1. env' = [n \in Names |-> ValueIn(Strings', n)]
    BY DEF env, Getenv, ValueIn
  <2>2. Strings' = left
    BY <1>4 DEF Strings
  <2> QED BY <1>3, <2>1, <2>2, EnvValues
<1> QED BY <1>2, <1>5, <1>6 DEF Abstract!Remove, Abstract!Returned, Returned

-----------------------------------------------------------------------------

LEMMA EnvironInit ==
    ASSUME Init
    PROVE  EnvironSound /\ Abstract!Init
<1>1. PICK g \in Given : array = [b \in Blocks \cup {StartBlock} |->
                                    IF b = StartBlock THEN g ELSE <<>>]
  BY DEF Init
<1>2. array \in [Blocks \cup {StartBlock} -> Seq(Entry)]
  <2>1. g \in Seq(Entry) /\ <<>> \in Seq(Entry)
    <3>1. PICK n \in 0 .. MaxGiven : g \in [1 .. n -> Entry]
      BY DEF Given
    <3>2. n \in Nat
      BY EnvironAssumption
    <3> QED BY <3>1, <3>2
  <2> QED BY <1>1, <2>1
<1>3. EnvironSound
  BY <1>2 DEF Init, EnvironSound, TypeOK, EnvironValid, Returned
<1>4. env \in [Names -> Values \cup {Unset}]
  <2>1. Strings \in Seq(Entry)
    BY <1>3, StringsTyped DEF EnvironSound
  <2> QED BY <2>1, EnvValues, ValueFacts
<1> QED BY <1>3, <1>4 DEF Init, Abstract!Init, Abstract!Returned, Returned

LEMMA EnvironNext ==
    ASSUME EnvironSound, ~FailsAfterMove, [Next]_vars
    PROVE  EnvironSound' /\ [Abstract!Next \/ ProgramResets]_<<env, ret>>
<1>1. ASSUME NEW name \in Names, NEW value \in Values, NEW replace \in BOOLEAN,
             Setenv(name, value, replace)
      PROVE  EnvironSound' /\ Abstract!Next
  BY <1>1, SetenvRight DEF Abstract!Next
<1>2. ASSUME NEW name \in Names, Unsetenv(name)
      PROVE  EnvironSound' /\ Abstract!Next
  BY <1>2, UnsetenvRight DEF Abstract!Next
<1>3. ASSUME NEW setter \in {"setenv", "unsetenv"}, Invalid(setter)
      PROVE  EnvironSound' /\ Abstract!Next
  <2>1. EnvironSound'
    BY <1>3 DEF Invalid, EnvironSound, TypeOK, EnvironValid, Returned
  <2>2. env' = env
    BY <1>3 DEF Invalid, env, Getenv, Strings, IndexIn
  <2> QED BY <1>3, <2>1, <2>2
          DEF Invalid, Abstract!Next, Abstract!Reject, Abstract!Returned, Returned
<1>4. ASSUME ProgramResets
      PROVE  EnvironSound'
  BY <1>4 DEF ProgramResets, EnvironSound, TypeOK, EnvironValid
<1>5. ASSUME UNCHANGED vars
      PROVE  EnvironSound' /\ UNCHANGED <<env, ret>>
  <2>1. UNCHANGED <<environ, last_environ, array, held, ret>>
    BY <1>5 DEF vars
  <2>2. EnvironSound'
    BY <2>1 DEF EnvironSound, TypeOK, EnvironValid
  <2> QED BY <2>1, <2>2 DEF env, Getenv, Strings, IndexIn
<1> QED BY <1>1, <1>2, <1>3, <1>4, <1>5 DEF Next

\* environ and last_environ always point to memory the program has, where a string finds
\* memory behind an array that has moved (without that, setenv frees the array environ
\* points to: the run of EnvironValid with FailsAfterMove = TRUE).
THEOREM EnvironAlwaysSound ==
    ASSUME ~FailsAfterMove
    PROVE  Spec => []EnvironSound
<1>1. Init => EnvironSound
  BY EnvironInit
<1>2. EnvironSound /\ [Next]_vars => EnvironSound'
  BY EnvironNext
<1> QED BY <1>1, <1>2, PTL DEF Spec

\* setenv, unsetenv and getenv do what they promise: every step is one of the abstract
\* environment, in which each name has a value or none, or one of a program that goes
\* back to its first array; however often a name stands in the array, wherever realloc
\* moves it, and when there is no memory for it or for a string, where a string finds
\* memory behind an array that has moved.
THEOREM EnvironImplements ==
    ASSUME ~FailsAfterMove
    PROVE  Spec => ImplementsEnvironment
<1>1. Init => Abstract!Init
  BY EnvironInit
<1>2. EnvironSound /\ [Next]_vars => [Abstract!Next \/ ProgramResets]_<<env, ret>>
  BY EnvironNext
<1>3. Spec => []EnvironSound
  BY EnvironAlwaysSound
<1> QED BY <1>1, <1>2, <1>3, PTL DEF Spec, ImplementsEnvironment

(***************************************************************************)
(* The functions on strings: bytes, areas and texts.                        *)
(***************************************************************************)

Byte == 1 .. 255
Cell == 0 .. 255

\* The m bytes of x hold the text s and its end.
IsText(x, s, m) ==
    /\ m \in Nat /\ s \in Seq(Byte) /\ Len(s) < m
    /\ DOMAIN x = 0 .. m - 1
    /\ \A i \in 0 .. m - 1 :
         /\ x[i] \in Cell
         /\ i < Len(s) => x[i] = s[i + 1]
         /\ x[i] = NUL <=> i = Len(s)

\* The least and the greatest number of a set, where it has one.
LEMMA MinIs ==
    ASSUME NEW S \in SUBSET Int, NEW k \in S, \A i \in S : k <= i
    PROVE  Min(S) = k
<1>1. \E j \in S : \A i \in S : j <= i
  OBVIOUS
<1>2. Min(S) \in S /\ \A i \in S : Min(S) <= i
  BY <1>1 DEF Min
<1>3. Min(S) <= k /\ k <= Min(S) /\ Min(S) \in Int /\ k \in Int
  BY <1>2
<1> HIDE DEF Min
<1> QED BY <1>3

LEMMA MaxIs ==
    ASSUME NEW S \in SUBSET Int, NEW k \in S, \A i \in S : i <= k
    PROVE  Max(S) = k
<1>1. \E j \in S : \A i \in S : j >= i
  OBVIOUS
<1>2. Max(S) \in S /\ \A i \in S : Max(S) >= i
  BY <1>1 DEF Max
<1>3. k <= Max(S) /\ Max(S) >= k /\ Max(S) <= k /\ Max(S) \in Int /\ k \in Int
  BY <1>2
<1> QED BY <1>3

\* Every set of natural numbers has a least one.
LEMMA MinExists ==
    ASSUME NEW S \in SUBSET Nat, S # {}
    PROVE  Min(S) \in S /\ \A i \in S : Min(S) <= i
<1>1. \E k \in S : \A i \in S : k <= i
  BY LeastNumber
<1> QED BY <1>1 DEF Min

\* From below the bounds.
LEMMA MaxExists ==
    ASSUME NEW n \in Nat, NEW S \in SUBSET (0 .. n), S # {}
    PROVE  Max(S) \in S /\ \A i \in S : i <= Max(S)
<1> DEFINE T == {n - i : i \in S}
<1>1. T \in SUBSET Nat /\ T # {}
  <2>1. \A i \in S : n - i \in Nat
    OBVIOUS
  <2> QED BY <2>1
<1>2. PICK k \in T : \A i \in T : k <= i
  BY <1>1, LeastNumber
<1>3. n - k \in S
  BY <1>2
<1>4. \A i \in S : i <= n - k
  <2> TAKE i \in S
  <2>1. n - i \in T
    OBVIOUS
  <2>2. k <= n - i /\ i \in Nat /\ k \in Nat
    BY <1>1, <1>2, <2>1
  <2> QED BY <2>2
<1>5. Max(S) = n - k
  <2>1. S \in SUBSET Int
    OBVIOUS
  <2> QED BY <1>3, <1>4, <2>1, MaxIs
<1> QED BY <1>3, <1>4, <1>5

\* The less of two numbers.
LEMMA LesserOf ==
    ASSUME NEW i \in Nat, NEW k \in Nat
    PROVE  Min({i, k}) = IF i < k THEN i ELSE k
<1> DEFINE S == {i, k}
<1>1. CASE i < k
  <2>1. S \in SUBSET Int /\ i \in S /\ \A j \in S : i <= j
    BY <1>1
  <2>2. Min(S) = i
    BY <2>1, MinIs
  <2> QED BY <1>1, <2>2
<1>2. CASE ~(i < k)
  <2>1. S \in SUBSET Int /\ k \in S /\ \A j \in S : k <= j
    BY <1>2
  <2>2. Min(S) = k
    BY <2>1, MinIs
  <2> QED BY <1>2, <2>2
<1> QED BY <1>1, <1>2

\* The text of an area, and what is known of it.
LEMMA AreaIs ==
    ASSUME StringsAssumption, NEW s \in Seq(Byte), NEW m \in Nat, Len(s) < m
    PROVE  IsText(Area(s, m), s, m)
<1>1. Len(s) \in Nat /\ \A i \in 1 .. Len(s) : s[i] \in Byte
  OBVIOUS
<1>2. \A i \in 0 .. m - 1 : Area(s, m)[i] = IF i < Len(s) THEN s[i + 1] ELSE IF i = Len(s) THEN 0 ELSE Junk
  BY DEF Area, NUL
<1>3. DOMAIN Area(s, m) = 0 .. m - 1
  BY DEF Area
<1>4. Junk \in Byte
  BY DEF StringsAssumption, Byte
<1>5. \A i \in 0 .. m - 1 : i < Len(s) => s[i + 1] \in Byte
  BY <1>1
<1>6. \A i \in 0 .. m - 1 :
         /\ Area(s, m)[i] \in Cell
         /\ Area(s, m)[i] = NUL <=> i = Len(s)
  <2> TAKE i \in 0 .. m - 1
  <2> DEFINE x == Area(s, m)[i]
  <2>1. i < Len(s) => x \in Byte
    BY <1>2, <1>5
  <2>2. i = Len(s) => x = 0
    BY <1>2
  <2>3. i > Len(s) => x \in Byte
    BY <1>1, <1>2, <1>4
  <2> DEFINE n == Len(s)
  <2>4. n \in Int /\ i \in Int
    BY <1>1
  <2> HIDE DEF x, n
  <2>5. x \in Cell
    BY <2>1, <2>2, <2>3, <2>4 DEF n, Byte, Cell
  <2>6. x = NUL <=> i = n
    <3>1. CASE i = n
      BY <2>2, <3>1 DEF n, NUL
    <3>2. CASE i # n
      <4>1. x \in Byte
        BY <2>1, <2>3, <2>4, <3>2 DEF n
      <4> QED BY <3>2, <4>1 DEF NUL, Byte
    <3> QED BY <3>1, <3>2
  <2> QED BY <2>5, <2>6 DEF x, n
<1>7. \A i \in 0 .. m - 1 : i < Len(s) => Area(s, m)[i] = s[i + 1]
  BY <1>2
<1> HIDE DEF Area
<1> QED BY ONLY <1>1, <1>3, <1>6, <1>7, m \in Nat, s \in Seq(Byte), Len(s) < m DEF IsText

\* strlen finds the length of the text.
LEMMA LengthIs ==
    ASSUME NEW x, NEW s, NEW m, IsText(x, s, m)
    PROVE  strlen(x) = Len(s) /\ Len(s) \in Nat
<1>1. {i \in DOMAIN x : x[i] = NUL} = {Len(s)} /\ Len(s) \in Nat
  BY DEF IsText
<1>2. Min({Len(s)}) = Len(s)
  <2>1. {Len(s)} \in SUBSET Int /\ Len(s) \in {Len(s)} /\ \A i \in {Len(s)} : Len(s) <= i
    BY <1>1
  <2> QED BY <2>1, MinIs
<1> QED BY <1>1, <1>2 DEF strlen

\* The loops that stop behind the end of a text, or after n bytes.
LEMMA ScanIs ==
    ASSUME NEW x, NEW s, NEW m, IsText(x, s, m), NEW n \in Nat
    PROVE  /\ Before(x, NUL, n) = IF n > Len(s) THEN {Len(s)} ELSE {}
           /\ Scan(x, NUL, n) = IF n > Len(s) THEN Len(s) + 1 ELSE n
<1>1. Len(s) \in Nat
  BY DEF IsText
<1>2. Before(x, NUL, n) = IF n > Len(s) THEN {Len(s)} ELSE {}
  BY DEF IsText, Before
<1>3. Min({Len(s)}) = Len(s)
  <2>1. {Len(s)} \in SUBSET Int /\ Len(s) \in {Len(s)} /\ \A i \in {Len(s)} : Len(s) <= i
    BY <1>1
  <2> QED BY <2>1, MinIs
<1> QED BY <1>2, <1>3 DEF Scan

\* The first n bytes of a text, or all.
LEMMA TakeIs ==
    ASSUME NEW s \in Seq(Byte), NEW n \in Nat
    PROVE  /\ Take(s, n) \in Seq(Byte)
           /\ Len(Take(s, n)) = IF n < Len(s) THEN n ELSE Len(s)
           /\ \A i \in 1 .. Len(Take(s, n)) : Take(s, n)[i] = s[i]
<1>1. Len(s) \in Nat
  OBVIOUS
<1>2. Take(s, n) = SubSeq(s, 1, IF n < Len(s) THEN n ELSE Len(s))
  BY <1>1, LesserOf DEF Take
<1> QED BY <1>1, <1>2

\* A text with its NUL.
LEMMA EndedIs ==
    ASSUME NEW s \in Seq(Byte)
    PROVE  /\ Ended(s) \in Seq(Cell) /\ Len(Ended(s)) = Len(s) + 1
           /\ \A i \in 1 .. Len(s) : Ended(s)[i] = s[i]
           /\ Ended(s)[Len(s) + 1] = NUL
<1>1. s \in Seq(Cell) /\ NUL \in Cell
  <2>1. Byte \subseteq Cell /\ NUL \in Cell
    BY DEF Byte, Cell, NUL
  <2> QED BY <2>1
<1> HIDE DEF Cell, NUL, Byte
<1> QED BY <1>1 DEF Ended

(***************************************************************************)
(* Copies.                                                                  *)
(***************************************************************************)

\* z is x with k bytes written to it: those of y, or c in each.
Copied(z, x, m, at, y, k) ==
    /\ DOMAIN z = 0 .. m - 1
    /\ \A i \in 0 .. m - 1 : z[i] = IF at <= i /\ i < at + k THEN y[i - at] ELSE x[i]
Filled(z, x, m, at, k, c) ==
    /\ DOMAIN z = 0 .. m - 1
    /\ \A i \in 0 .. m - 1 : z[i] = IF at <= i /\ i < at + k THEN c ELSE x[i]

\* What the loops that copy and those that fill leave.
LEMMA CopyIs ==
    ASSUME NEW x, NEW m \in Nat, DOMAIN x = 0 .. m - 1, NEW y, NEW at \in Nat, NEW k \in Nat,
           at + k <= m
    PROVE  Copied(Copy(x, at, y, k), x, m, at, y, k)
<1>1. DOMAIN x \cup at .. at + k - 1 = 0 .. m - 1
  OBVIOUS
<1>2. \A i \in 0 .. m - 1 : i \in at .. at + k - 1 <=> at <= i /\ i < at + k
  OBVIOUS
<1> QED BY <1>1, <1>2 DEF Copy, Copied

LEMMA FillIs ==
    ASSUME NEW x, NEW m \in Nat, DOMAIN x = 0 .. m - 1, NEW c, NEW at \in Nat, NEW k \in Nat,
           at + k <= m
    PROVE  Filled(Fill(x, at, k, c), x, m, at, k, c)
<1>1. DOMAIN x \cup at .. at + k - 1 = 0 .. m - 1
  OBVIOUS
<1>2. \A i \in 0 .. m - 1 : i \in at .. at + k - 1 <=> at <= i /\ i < at + k
  OBVIOUS
<1> QED BY <1>1, <1>2 DEF Fill, Filled

\* An area with a text, copied with its end behind another, or in its place.
LEMMA CopiedBehind ==
    ASSUME NEW x, NEW s, NEW m, IsText(x, s, m), NEW y, NEW t, NEW o, IsText(y, t, o),
           Len(s) + Len(t) < m, NEW r, r.mem = Copy(x, Len(s), y, Len(t) + 1)
    PROVE  Holds(r, Ended(s \o t), x)
<1> DEFINE b == Ended(s \o t)
           z == Copy(x, Len(s), y, Len(t) + 1)
<1>1. s \in Seq(Byte) /\ t \in Seq(Byte) /\ Len(s) \in Nat /\ Len(t) \in Nat /\ m \in Nat
  BY DEF IsText
<1>2. s \o t \in Seq(Byte) /\ Len(s \o t) = Len(s) + Len(t)
      /\ \A i \in 1 .. Len(s) + Len(t) : (s \o t)[i] = IF i <= Len(s) THEN s[i] ELSE t[i - Len(s)]
  <2> HIDE DEF Byte
  <2> QED BY <1>1
<1>3. Len(b) = Len(s) + Len(t) + 1 /\ b[Len(s) + Len(t) + 1] = NUL
      /\ \A i \in 1 .. Len(s) + Len(t) : b[i] = IF i <= Len(s) THEN s[i] ELSE t[i - Len(s)]
  BY <1>2, EndedIs
<1>4. DOMAIN z = 0 .. m - 1
      /\ \A i \in 0 .. m - 1 : z[i] = IF Len(s) <= i /\ i < Len(s) + (Len(t) + 1) THEN y[i - Len(s)] ELSE x[i]
  <2>1. DOMAIN x = 0 .. m - 1
    BY DEF IsText
  <2>2. Len(s) + (Len(t) + 1) <= m /\ Len(t) + 1 \in Nat
    BY <1>1
  <2>3. Len(s) \in Nat /\ m \in Nat
    BY <1>1
  <2>4. Copied(Copy(x, Len(s), y, Len(t) + 1), x, m, Len(s), y, Len(t) + 1)
    BY ONLY <2>1, <2>2, <2>3, CopyIs
  <2> QED BY <2>4 DEF Copied
<1>5. \A i \in 0 .. Len(t) - 1 : y[i] = t[i + 1]
  BY DEF IsText
<1>6. y[Len(t)] = NUL
  BY DEF IsText
<1>7. DOMAIN x = 0 .. m - 1 /\ \A i \in 0 .. m - 1 : i < Len(s) => x[i] = s[i + 1]
  BY DEF IsText
<1> HIDE DEF b, z
<1>8. \A i \in 0 .. m - 1 : z[i] = IF i < Len(b) THEN b[i + 1] ELSE x[i]
  <2> TAKE i \in 0 .. m - 1
  <2>1. CASE i < Len(s)
    <3>1. b[i + 1] = s[i + 1] /\ i < Len(b)
      BY <1>1, <1>3, <2>1
    <3> QED BY <1>1, <1>4, <1>7, <2>1, <3>1
  <2>2. CASE Len(s) <= i /\ i < Len(s) + Len(t)
    <3>1. b[i + 1] = t[i + 1 - Len(s)] /\ i < Len(b)
      BY <1>1, <1>3, <2>2
    <3>2. z[i] = y[i - Len(s)] /\ i - Len(s) \in 0 .. Len(t) - 1
      BY <1>1, <1>4, <2>2
    <3>3. z[i] = t[i - Len(s) + 1]
      BY <1>5, <3>2
    <3>4. i - Len(s) + 1 = i + 1 - Len(s)
      BY <1>1
    <3> QED BY <3>1, <3>3, <3>4
  <2>3. CASE i = Len(s) + Len(t)
    <3>1. b[i + 1] = NUL /\ i < Len(b)
      BY <1>1, <1>3, <2>3
    <3>2. z[i] = NUL
      BY <1>1, <1>4, <1>6, <2>3
    <3> QED BY <3>1, <3>2
  <2>4. CASE i > Len(s) + Len(t)
    BY <1>1, <1>3, <1>4, <2>4
  <2> QED BY <1>1, <2>1, <2>2, <2>3, <2>4
<1> QED BY <1>4, <1>7, <1>8 DEF Holds, b, z

\* The same in place of what was there.
LEMMA CopiedFront ==
    ASSUME NEW x, NEW m \in Nat, DOMAIN x = 0 .. m - 1, NEW y, NEW t, NEW o, IsText(y, t, o),
           Len(t) < m, NEW r, r.mem = Copy(x, 0, y, Len(t) + 1)
    PROVE  Holds(r, Ended(t), x)
<1> DEFINE b == Ended(t)
           z == Copy(x, 0, y, Len(t) + 1)
           n == Len(t)
<1>1. t \in Seq(Byte) /\ n \in Nat /\ n < m /\ o \in Nat /\ n < o
  BY DEF IsText
<1>2. Len(b) = n + 1 /\ b[n + 1] = NUL /\ \A i \in 1 .. n : b[i] = t[i]
  BY <1>1, EndedIs
<1>3. Copied(z, x, m, 0, y, n + 1)
  <2>1. 0 + (n + 1) <= m /\ n + 1 \in Nat /\ 0 \in Nat
    BY <1>1
  <2> HIDE DEF n
  <2> QED BY <2>1, CopyIs DEF n
<1>4. \A i \in 0 .. n - 1 : y[i] = t[i + 1]
  BY <1>1 DEF IsText
<1>5. y[n] = NUL
  BY <1>1 DEF IsText
<1> HIDE DEF b, z, n
<1>6. \A i \in 0 .. m - 1 : z[i] = IF i < Len(b) THEN b[i + 1] ELSE x[i]
  <2> TAKE i \in 0 .. m - 1
  <2>1. z[i] = IF 0 <= i /\ i < 0 + (n + 1) THEN y[i - 0] ELSE x[i]
    BY <1>3 DEF Copied
  <2>2. CASE i < n
    <3>1. b[i + 1] = t[i + 1] /\ y[i] = t[i + 1]
      BY <1>1, <1>2, <1>4, <2>2
    <3> QED BY <1>1, <1>2, <2>1, <2>2, <3>1
  <2>3. CASE i = n
    BY <1>1, <1>2, <1>5, <2>1, <2>3
  <2>4. CASE i > n
    BY <1>1, <1>2, <2>1, <2>4
  <2> QED BY <1>1, <2>2, <2>3, <2>4
<1> QED BY <1>3, <1>6 DEF Holds, Copied, b, z, n

\* u is k bytes of t behind some of s.
Behind(u, s, at, t, k) ==
    /\ u \in Seq(Byte) /\ Len(u) = at + k
    /\ \A i \in 1 .. at + k : u[i] = IF i <= at THEN s[i] ELSE t[i - at]

\* A part of a text behind a part of another, with a new end.
LEMMA CopiedEnded ==
    ASSUME NEW x, NEW s, NEW m, IsText(x, s, m), NEW y, NEW t, NEW o, IsText(y, t, o),
           NEW at \in Nat, at <= Len(s), NEW k \in Nat, k <= Len(t), at + k < m,
           NEW u, Behind(u, s, at, t, k),
           NEW r, r.mem = Fill(Copy(x, at, y, k), at + k, 1, NUL)
    PROVE  Holds(r, Ended(u), x)
<1> DEFINE b == Ended(u)
           c == Copy(x, at, y, k)
           z == Fill(c, at + k, 1, NUL)
<1>1. /\ m \in Nat /\ DOMAIN x = 0 .. m - 1 /\ Len(s) \in Nat /\ Len(t) \in Nat
      /\ Len(s) < m /\ o \in Nat /\ Len(t) < o
  BY DEF IsText
<1>0. u \in Seq(Byte) /\ Len(u) = at + k
      /\ \A i \in 1 .. at + k : u[i] = IF i <= at THEN s[i] ELSE t[i - at]
  BY DEF Behind
<1>2. Len(b) = at + k + 1 /\ b[at + k + 1] = NUL /\ \A i \in 1 .. at + k : b[i] = u[i]
  BY <1>0, EndedIs
<1>3. Copied(c, x, m, at, y, k)
  BY <1>1, CopyIs
<1>4. Filled(z, c, m, at + k, 1, NUL)
  <2>1. DOMAIN c = 0 .. m - 1
    BY <1>3 DEF Copied
  <2>2. at + k \in Nat /\ 1 \in Nat /\ at + k + 1 <= m
    BY <1>1
  <2> HIDE DEF c
  <2> QED BY <1>1, <2>1, <2>2, FillIs
<1>5. \A i \in 0 .. k - 1 : y[i] = t[i + 1]
  BY <1>1 DEF IsText
<1>6. \A i \in 0 .. at - 1 : x[i] = s[i + 1]
  BY <1>1 DEF IsText
<1> HIDE DEF b, c, z
<1>7. \A i \in 0 .. m - 1 : z[i] = IF i < Len(b) THEN b[i + 1] ELSE x[i]
  <2> TAKE i \in 0 .. m - 1
  <2>1. z[i] = IF at + k <= i /\ i < at + k + 1 THEN NUL ELSE c[i]
    BY <1>4 DEF Filled
  <2>2. c[i] = IF at <= i /\ i < at + k THEN y[i - at] ELSE x[i]
    BY <1>3 DEF Copied
  <2>3. CASE i < at
    <3>0. i + 1 \in 1 .. at + k /\ i + 1 <= at /\ i \in 0 .. at - 1
      BY <2>3
    <3>1. b[i + 1] = s[i + 1] /\ x[i] = s[i + 1]
      BY <1>0, <1>2, <1>6, <3>0
    <3> QED BY <1>2, <2>1, <2>2, <2>3, <3>1
  <2>4. CASE at <= i /\ i < at + k
    <3>1. i - at \in 0 .. k - 1 /\ i + 1 \in 1 .. at + k /\ i + 1 - at = i - at + 1 /\ ~(i + 1 <= at)
      BY <2>4
    <3>2. y[i - at] = t[i - at + 1] /\ b[i + 1] = t[i + 1 - at]
      BY <1>0, <1>2, <1>5, <3>1
    <3> QED BY <1>2, <2>1, <2>2, <2>4, <3>1, <3>2
  <2>5. CASE i = at + k
    BY <1>2, <2>1, <2>5
  <2>6. CASE i > at + k
    BY <1>2, <2>1, <2>2, <2>6
  <2> QED BY <1>1, <2>3, <2>4, <2>5, <2>6
<1> QED BY <1>1, <1>4, <1>7 DEF Holds, Filled, b, z, c

\* A text, or a part of it, and NULs up to n.
LEMMA CopiedPadded ==
    ASSUME NEW x, NEW m \in Nat, DOMAIN x = 0 .. m - 1, NEW y, NEW t, NEW o, IsText(y, t, o),
           NEW n \in Nat, n <= m, NEW k, k = Scan(y, NUL, n),
           NEW r, r.mem = Fill(Copy(x, 0, y, k), k, n - k, NUL)
    PROVE  k \in 0 .. n /\ Holds(r, Padded(t, n), x)
<1> DEFINE b == Padded(t, n)
           c == Copy(x, 0, y, k)
           z == Fill(c, k, n - k, NUL)
           l == Len(t)
<1>1. l \in Nat /\ o \in Nat /\ l < o
  BY DEF IsText
<1>2. k = IF n > l THEN l + 1 ELSE n
  BY ScanIs
<1>3. k \in Nat /\ k <= n /\ n - k \in Nat /\ k + (n - k) = n
  BY <1>1, <1>2
<1>4. Copied(c, x, m, 0, y, k)
  BY <1>3, CopyIs
<1>5. Filled(z, c, m, k, n - k, NUL)
  <2>1. DOMAIN c = 0 .. m - 1
    BY <1>4 DEF Copied
  <2> DEFINE f == n - k
  <2>2. f \in Nat /\ k + f <= m
    BY <1>3
  <2> HIDE DEF c, f
  <2>3. Filled(Fill(c, k, f, NUL), c, m, k, f, NUL)
    BY <1>3, <2>1, <2>2, FillIs
  <2> QED BY <2>3 DEF f
<1>6. \A i \in 0 .. l - 1 : y[i] = t[i + 1]
  BY <1>1 DEF IsText
<1>7. y[l] = NUL
  BY <1>1 DEF IsText
<1>8. Len(b) = n /\ \A i \in 1 .. n : b[i] = IF i <= l THEN t[i] ELSE NUL
  BY DEF Padded
<1> HIDE DEF b, c, z, l
<1>9. \A i \in 0 .. m - 1 : z[i] = IF i < Len(b) THEN b[i + 1] ELSE x[i]
  <2> TAKE i \in 0 .. m - 1
  <2>1. z[i] = IF k <= i /\ i < k + (n - k) THEN NUL ELSE c[i]
    BY <1>5 DEF Filled
  <2>2. c[i] = IF 0 <= i /\ i < 0 + k THEN y[i - 0] ELSE x[i]
    BY <1>4 DEF Copied
  <2>3. CASE i < n /\ i < l
    <3>1. i < k /\ i + 1 \in 1 .. n /\ i + 1 <= l /\ i \in 0 .. l - 1 /\ i - 0 = i
      BY <1>1, <1>2, <2>3
    <3>2. b[i + 1] = t[i + 1] /\ y[i] = t[i + 1]
      BY <1>6, <1>8, <3>1
    <3> QED BY <1>3, <1>8, <2>1, <2>2, <2>3, <3>1, <3>2
  <2>4. CASE i < n /\ i >= l
    <3>1. b[i + 1] = NUL
      BY <1>1, <1>8, <2>4
    <3>2. z[i] = NUL
      BY <1>1, <1>2, <1>3, <1>7, <2>1, <2>2, <2>4
    <3> QED BY <1>8, <2>4, <3>1, <3>2
  <2>5. CASE i >= n
    BY <1>3, <1>8, <2>1, <2>2, <2>5
  <2> QED BY <1>1, <2>3, <2>4, <2>5
<1> QED BY <1>3, <1>5, <1>9 DEF Holds, Filled, b, z, c

(***************************************************************************)
(* Comparisons.                                                             *)
(***************************************************************************)

\* The sign of a difference tells whether there is one, and which way.
LEMMA SignDiffers ==
    ASSUME NEW i \in Int, NEW j \in Int, i # j
    PROVE  Sign(i - j) # 0
<1>1. i - j < 0 \/ i - j > 0
  OBVIOUS
<1> QED BY <1>1 DEF Sign

LEMMA SignSame ==
    ASSUME NEW i \in Int, NEW j \in Int, NEW k \in Int, NEW l \in Int,
           i < j <=> k < l, j < i <=> l < k
    PROVE  Sign(i - j) = Sign(k - l)
<1>1. i - j < 0 <=> k - l < 0
  OBVIOUS
<1>2. i - j > 0 <=> k - l > 0
  OBVIOUS
<1> QED BY <1>1, <1>2 DEF Sign

\* Two sequences are in the order of their first difference, or of their lengths.
LEMMA OrderIs ==
    ASSUME NEW v \in Seq(Cell), NEW w \in Seq(Cell), NEW k \in Nat, k <= Len(v), k <= Len(w),
           \A i \in 1 .. k : v[i] = w[i]
    PROVE  /\ k < Len(v) /\ k < Len(w) /\ v[k + 1] # w[k + 1] => Order(v, w) = Sign(v[k + 1] - w[k + 1])
           /\ k = Len(v) \/ k = Len(w) => Order(v, w) = Sign(Len(v) - Len(w))
<1> DEFINE differ == {i \in DOMAIN v \cap DOMAIN w : v[i] # w[i]}
<1>1. Len(v) \in Nat /\ Len(w) \in Nat /\ DOMAIN v = 1 .. Len(v) /\ DOMAIN w = 1 .. Len(w)
  OBVIOUS
<1>2. Order(v, w) = IF v = w THEN 0
                    ELSE IF differ = {} THEN Sign(Len(v) - Len(w)) ELSE Sign(v[Min(differ)] - w[Min(differ)])
  BY DEF Order
<1>3. ASSUME k < Len(v), k < Len(w), v[k + 1] # w[k + 1]
      PROVE  Order(v, w) = Sign(v[k + 1] - w[k + 1])
  <2>1. k + 1 \in differ /\ differ \in SUBSET Int
    BY <1>1, <1>3
  <2>2. \A i \in differ : k + 1 <= i
    BY <1>1
  <2> HIDE DEF differ
  <2>3. Min(differ) = k + 1
    BY <2>1, <2>2, MinIs
  <2>4. v # w /\ differ # {}
    BY <1>3, <2>1
  <2> QED BY <1>2, <2>3, <2>4
<1>4. ASSUME k = Len(v) \/ k = Len(w)
      PROVE  Order(v, w) = Sign(Len(v) - Len(w))
  <2>1. differ = {}
    BY <1>1, <1>4
  <2>2. v = w => Sign(Len(v) - Len(w)) = 0
    BY <1>1 DEF Sign
  <2> HIDE DEF differ
  <2> QED BY <1>2, <2>1, <2>2
<1> QED BY <1>3, <1>4

\* No order between two sequences: they are the same.
LEMMA OrderTellsSame ==
    ASSUME NEW v \in Seq(Cell), NEW w \in Seq(Cell)
    PROVE  Order(v, w) = 0 <=> v = w
<1> DEFINE differ == {i \in DOMAIN v \cap DOMAIN w : v[i] # w[i]}
<1>1. Len(v) \in Nat /\ Len(w) \in Nat /\ DOMAIN v = 1 .. Len(v) /\ DOMAIN w = 1 .. Len(w)
  OBVIOUS
<1>2. Order(v, w) = IF v = w THEN 0
                    ELSE IF differ = {} THEN Sign(Len(v) - Len(w)) ELSE Sign(v[Min(differ)] - w[Min(differ)])
  BY DEF Order
<1>3. ASSUME v # w, differ = {}
      PROVE  Sign(Len(v) - Len(w)) # 0
  <2>1. CASE Len(v) = Len(w)
    <3>1. \A i \in 1 .. Len(v) : v[i] = w[i]
      BY <1>1, <1>3, <2>1
    <3> HIDE DEF differ
    <3>2. v = w
      BY <2>1, <3>1, SameSequence
    <3> QED BY <1>3, <3>2
  <2>2. CASE Len(v) # Len(w)
    <3>1. Len(v) \in Int /\ Len(w) \in Int
      BY <1>1
    <3> QED BY <2>2, <3>1, SignDiffers
  <2> QED BY <2>1, <2>2
<1>4. ASSUME v # w, differ # {}
      PROVE  Sign(v[Min(differ)] - w[Min(differ)]) # 0
  <2> DEFINE i == Min(differ)
  <2>1. differ \in SUBSET Nat
    BY <1>1
  <2>2. i \in differ
    <3> HIDE DEF differ
    <3> QED BY <1>4, <2>1, MinExists
  <2>3. v[i] \in Int /\ w[i] \in Int /\ v[i] # w[i]
    <3> HIDE DEF i
    <3>1. i \in DOMAIN v /\ i \in DOMAIN w /\ v[i] # w[i]
      BY <2>2
    <3>2. i \in 1 .. Len(v) /\ i \in 1 .. Len(w)
      BY <1>1, <3>1
    <3>3. v[i] \in Cell /\ w[i] \in Cell
      BY ONLY <3>2, v \in Seq(Cell), w \in Seq(Cell)
    <3>4. Cell \subseteq Int
      BY DEF Cell
    <3> QED BY <3>1, <3>3, <3>4
  <2> HIDE DEF i, differ
  <2>5. Sign(v[i] - w[i]) # 0
    BY <2>3, SignDiffers
  <2> QED BY <2>5 DEF i
<1> HIDE DEF differ
<1> QED BY <1>2, <1>3, <1>4

\* Where two texts stop being the same.
LEMMA StopIs ==
    ASSUME NEW x, NEW s, NEW m, IsText(x, s, m), NEW y, NEW t, NEW o, IsText(y, t, o)
    PROVE  LET k == StopAt(x, y) IN
           /\ k \in Nat /\ k <= Len(s) /\ k <= Len(t)
           /\ \A i \in 1 .. k : s[i] = t[i]
           /\ k < Len(s) /\ k < Len(t) => s[k + 1] # t[k + 1]
<1> DEFINE stops == {i \in DOMAIN x \cap DOMAIN y : x[i] = NUL \/ x[i] # y[i]}
           k == Min(stops)
           l == Len(s)
           n == Len(t)
<1>1. /\ l \in Nat /\ n \in Nat /\ m \in Nat /\ o \in Nat /\ l < m /\ n < o
      /\ DOMAIN x = 0 .. m - 1 /\ DOMAIN y = 0 .. o - 1
  BY DEF IsText
<1>2. /\ \A i \in 0 .. m - 1 : (i < l => x[i] = s[i + 1]) /\ (x[i] = NUL <=> i = l)
      /\ \A i \in 0 .. o - 1 : (i < n => y[i] = t[i + 1]) /\ (y[i] = NUL <=> i = n)
  BY DEF IsText
<1> HIDE DEF l, n
<1>3. stops \in SUBSET Nat
  BY <1>1
<1>4. (IF l <= n THEN l ELSE n) \in stops
  <2>1. CASE l <= n
    <3>1. l \in 0 .. m - 1 /\ l \in 0 .. o - 1 /\ x[l] = NUL
      BY <1>1, <1>2, <2>1
    <3> QED BY <1>1, <2>1, <3>1
  <2>2. CASE ~(l <= n)
    <3>1. n \in 0 .. m - 1 /\ n \in 0 .. o - 1 /\ y[n] = NUL /\ x[n] # NUL
      BY <1>1, <1>2, <2>2
    <3> QED BY <1>1, <2>2, <3>1
  <2> QED BY <2>1, <2>2
<1>5. k \in stops /\ \A i \in stops : k <= i
  <2> HIDE DEF stops
  <2> QED BY <1>3, <1>4, MinExists
<1>6. k \in Nat /\ k <= l /\ k <= n
  <2> HIDE DEF k, stops
  <2> QED BY <1>1, <1>3, <1>4, <1>5
<1>7. \A i \in 0 .. k - 1 : i \notin stops
  <2> HIDE DEF k, stops
  <2> QED BY <1>5, <1>6
<1>8. x[k] = NUL \/ x[k] # y[k]
  <2> HIDE DEF k
  <2> QED BY <1>5
<1>9. \A i \in 0 .. k - 1 : x[i] = y[i]
  <2> HIDE DEF k
  <2> QED BY <1>1, <1>6, <1>7
<1> HIDE DEF k, stops
<1>10. \A i \in 1 .. k : s[i] = t[i]
  <2> TAKE i \in 1 .. k
  <2>1. i - 1 \in 0 .. k - 1 /\ i - 1 + 1 = i /\ i - 1 \in 0 .. m - 1 /\ i - 1 \in 0 .. o - 1 /\ i - 1 < l /\ i - 1 < n
    BY <1>1, <1>6
  <2>2. x[i - 1] = y[i - 1] /\ x[i - 1] = s[i - 1 + 1] /\ y[i - 1] = t[i - 1 + 1]
    BY <1>2, <1>9, <2>1
  <2> QED BY <2>1, <2>2
<1>11. ASSUME k < l, k < n
       PROVE  s[k + 1] # t[k + 1]
  <2>1. k \in 0 .. m - 1 /\ k \in 0 .. o - 1 /\ k # l
    BY <1>1, <1>6, <1>11
  <2> QED BY <1>2, <1>8, <1>11, <2>1
<1> QED BY <1>6, <1>10, <1>11 DEF StopAt, k, stops, l, n

\* The next byte of a text, or its end.
LEMMA ByteAt ==
    ASSUME NEW x, NEW s, NEW m, IsText(x, s, m), NEW k \in Nat, k <= Len(s)
    PROVE  /\ k < Len(s) => x[k] = s[k + 1] /\ x[k] \in Byte
           /\ k = Len(s) => x[k] = 0
           /\ x[k] \in Cell
<1>1. k \in 0 .. m - 1
  BY DEF IsText
<1>2. x[k] \in Cell /\ (k < Len(s) => x[k] = s[k + 1]) /\ (x[k] = NUL <=> k = Len(s))
  BY <1>1 DEF IsText
<1>3. k < Len(s) => s[k + 1] \in Byte
  BY DEF IsText
<1> QED BY <1>2, <1>3 DEF NUL

\* strcmp tells which one comes first.
LEMMA StrcmpIs ==
    ASSUME NEW x, NEW s, NEW m, IsText(x, s, m), NEW y, NEW t, NEW o, IsText(y, t, o)
    PROVE  Sign(strcmp(x, y).ret) = Order(s, t)
<1> DEFINE k == StopAt(x, y)
           l == Len(s)
           n == Len(t)
<1>1. /\ k \in Nat /\ k <= Len(s) /\ k <= Len(t)
      /\ \A i \in 1 .. k : s[i] = t[i]
      /\ k < Len(s) /\ k < Len(t) => s[k + 1] # t[k + 1]
  BY StopIs
<1>2. strcmp(x, y).ret = x[k] - y[k]
  BY DEF strcmp, Answer, Gives
<1> HIDE DEF k
<1>3. s \in Seq(Cell) /\ t \in Seq(Cell) /\ s \in Seq(Byte) /\ t \in Seq(Byte)
  <2>1. Byte \subseteq Cell
    BY DEF Byte, Cell
  <2> QED BY <2>1 DEF IsText
<1>4. /\ k < Len(s) /\ k < Len(t) => Order(s, t) = Sign(s[k + 1] - t[k + 1])
      /\ k = Len(s) \/ k = Len(t) => Order(s, t) = Sign(l - n)
  BY <1>1, <1>3, OrderIs
<1>5. /\ k < l => x[k] = s[k + 1] /\ x[k] \in Byte
      /\ k = l => x[k] = 0
      /\ k < n => y[k] = t[k + 1] /\ y[k] \in Byte
      /\ k = n => y[k] = 0
  BY <1>1, ByteAt
<1>6. l \in Nat /\ n \in Nat
  BY <1>3
<1>7. CASE k < l /\ k < n
  BY <1>2, <1>4, <1>5, <1>7
<1>8. CASE k = l \/ k = n
  <2>1. Order(s, t) = Sign(l - n)
    BY <1>4, <1>8
  <2> HIDE DEF l, n
  <2>2. Sign(x[k] - y[k]) = Sign(l - n)
    <3>1. k <= l /\ k <= n /\ l \in Int /\ n \in Int
      BY <1>1, <1>6 DEF l, n
    <3>2. x[k] \in Int /\ y[k] \in Int
      <4>1. x[k] \in Cell /\ y[k] \in Cell
        BY <1>1, ByteAt
      <4> QED BY <4>1 DEF Cell
    <3>3. (k < l => x[k] > 0) /\ (k < n => y[k] > 0) /\ (k = l => x[k] = 0) /\ (k = n => y[k] = 0)
      <4>1. (k < l => x[k] \in Byte) /\ (k < n => y[k] \in Byte) /\ (k = l => x[k] = 0) /\ (k = n => y[k] = 0)
        BY <1>5 DEF l, n
      <4> QED BY <4>1 DEF Byte
    <3>4. (x[k] < y[k] <=> l < n) /\ (y[k] < x[k] <=> n < l)
      BY <1>1, <1>8, <3>1, <3>2, <3>3 DEF l, n
    <3> QED BY <3>1, <3>2, <3>4, SignSame
  <2> QED BY <1>2, <2>1, <2>2 DEF l, n
<1> QED BY <1>1, <1>6, <1>7, <1>8

\* Bounded: the fronts of the texts agree, or are in the order of the bytes at the stop.
LEMMA OrderAtStop ==
    ASSUME NEW x, NEW s, NEW m, IsText(x, s, m), NEW y, NEW t, NEW o, IsText(y, t, o), NEW c \in Nat
    PROVE  LET k == StopAt(x, y) IN
           /\ c <= k => Take(s, c) = Take(t, c)
           /\ c > k => Sign(x[k] - y[k]) = Order(Take(s, c), Take(t, c))
<1> DEFINE k == StopAt(x, y)
           v == Take(s, c)
           w == Take(t, c)
           l == Len(s)
           n == Len(t)
<1>1. k \in Nat /\ k <= l /\ k <= n
  BY StopIs
<1>2. \A i \in 1 .. k : s[i] = t[i]
  BY StopIs
<1>3. k < l /\ k < n => s[k + 1] # t[k + 1]
  BY StopIs
<1>4. s \in Seq(Byte) /\ t \in Seq(Byte) /\ l \in Nat /\ n \in Nat
  BY DEF IsText
<1>5. /\ v \in Seq(Byte) /\ Len(v) = IF c < l THEN c ELSE l
      /\ \A i \in 1 .. Len(v) : v[i] = s[i]
  BY <1>4, TakeIs
<1>6. /\ w \in Seq(Byte) /\ Len(w) = IF c < n THEN c ELSE n
      /\ \A i \in 1 .. Len(w) : w[i] = t[i]
  BY <1>4, TakeIs
<1>7. /\ k < l => x[k] = s[k + 1] /\ x[k] \in Byte
      /\ k = l => x[k] = 0
      /\ x[k] \in Cell
  BY <1>1, ByteAt
<1>8. /\ k < n => y[k] = t[k + 1] /\ y[k] \in Byte
      /\ k = n => y[k] = 0
      /\ y[k] \in Cell
  BY <1>1, ByteAt
<1>9. v \in Seq(Cell) /\ w \in Seq(Cell)
  <2>1. Byte \subseteq Cell
    BY DEF Byte, Cell
  <2> HIDE DEF v, w
  <2> QED BY <1>5, <1>6, <2>1
<1> HIDE DEF k, v, w, l, n
<1>10. ASSUME c <= k
       PROVE  v = w
  <2>1. Len(v) = c /\ Len(w) = c
    BY <1>1, <1>4, <1>5, <1>6, <1>10
  <2>2. \A i \in 1 .. c : v[i] = w[i]
    BY <1>1, <1>2, <1>5, <1>6, <1>10, <2>1
  <2> QED BY <1>5, <1>6, <2>1, <2>2, SameSequence
<1>11. ASSUME c > k
       PROVE  Sign(x[k] - y[k]) = Order(v, w)
  <2>1. k <= Len(v) /\ k <= Len(w) /\ Len(v) \in Nat /\ Len(w) \in Nat
    BY <1>1, <1>4, <1>5, <1>6, <1>11
  <2>2. \A i \in 1 .. k : v[i] = w[i]
    BY <1>1, <1>2, <1>5, <1>6, <2>1
  <2>3. /\ k < Len(v) /\ k < Len(w) /\ v[k + 1] # w[k + 1] => Order(v, w) = Sign(v[k + 1] - w[k + 1])
        /\ k = Len(v) \/ k = Len(w) => Order(v, w) = Sign(Len(v) - Len(w))
    BY <1>1, <1>9, <2>1, <2>2, OrderIs
  <2>4. CASE k < l /\ k < n
    <3>1. k < Len(v) /\ k < Len(w) /\ k + 1 \in 1 .. Len(v) /\ k + 1 \in 1 .. Len(w)
      BY <1>1, <1>4, <1>5, <1>6, <1>11, <2>4
    <3>2. v[k + 1] = x[k] /\ w[k + 1] = y[k] /\ x[k] # y[k]
      BY <1>3, <1>5, <1>6, <1>7, <1>8, <2>4, <3>1
    <3>3. Order(v, w) = Sign(v[k + 1] - w[k + 1])
      <4>1. v[k + 1] # w[k + 1]
        BY <3>2
      <4> QED BY <2>3, <3>1, <4>1
    <3>4. v[k + 1] - w[k + 1] = x[k] - y[k]
      BY <3>2
    <3> QED BY <3>3, <3>4
  <2>5. CASE k = l \/ k = n
    <3>1. k = Len(v) \/ k = Len(w)
      BY <1>1, <1>4, <1>5, <1>6, <1>11, <2>5
    <3>2. (k < Len(v) <=> k < l) /\ (k < Len(w) <=> k < n)
      BY <1>1, <1>4, <1>5, <1>6, <1>11
    <3>3. x[k] \in Int /\ y[k] \in Int
      BY <1>7, <1>8 DEF Cell
    <3>4. (k < l => x[k] > 0) /\ (k = l => x[k] = 0)
      BY <1>7 DEF Byte
    <3>5. (k < n => y[k] > 0) /\ (k = n => y[k] = 0)
      BY <1>8 DEF Byte
    <3>6. (x[k] < y[k] <=> Len(v) < Len(w)) /\ (y[k] < x[k] <=> Len(w) < Len(v))
      BY <1>1, <1>4, <2>1, <2>5, <3>1, <3>2, <3>3, <3>4, <3>5
    <3>7. Sign(x[k] - y[k]) = Sign(Len(v) - Len(w))
      <4> DEFINE i == Len(v)
                 j == Len(w)
      <4>1. i \in Int /\ j \in Int /\ (x[k] < y[k] <=> i < j) /\ (y[k] < x[k] <=> j < i)
        BY <2>1, <3>6
      <4> HIDE DEF i, j
      <4>2. Sign(x[k] - y[k]) = Sign(i - j)
        BY <3>3, <4>1, SignSame
      <4> QED BY <4>2 DEF i, j
    <3> QED BY <2>3, <3>1, <3>7
  <2> QED BY <1>1, <1>4, <2>4, <2>5
<1> QED BY <1>10, <1>11 DEF k, v, w

\* What a long keeps of a bound is no more than the bound.
LEMMA CountIs ==
    ASSUME StringsAssumption, NEW n \in Nat
    PROVE  Count(n) \in 0 .. n
  BY DEF Count, StringsAssumption

\* strncmp tells which of the first n bytes come first, and looks at one byte behind them.
LEMMA StrncmpIs ==
    ASSUME StringsAssumption, NEW n \in Nat,
           NEW x, NEW s, NEW m, IsText(x, s, m), NEW y, NEW t, NEW o, IsText(y, t, o)
    PROVE  /\ Sign(strncmp(x, y, n).ret) = Order(Take(s, Count(n)), Take(t, Count(n)))
           /\ strncmp(x, y, n).ret \in Int
           /\ strncmp(x, y, n).seen <= n + 1
           /\ Count(n) = 0 => strncmp(x, y, n).ret = 0
<1> DEFINE k == StopAt(x, y)
           c == Count(n)
           i == Min({k, c})
           v == Take(s, c)
           w == Take(t, c)
           res == strncmp(x, y, n).ret
<1>1. c \in Nat /\ c <= n
  BY CountIs
<1>2. k \in Nat /\ k <= Len(s) /\ k <= Len(t)
  BY StopIs
<1>3. k < Len(s) /\ k < Len(t) => s[k + 1] # t[k + 1]
  BY StopIs
<1>4. /\ c <= k => v = w
      /\ c > k => Sign(x[k] - y[k]) = Order(v, w)
  <2> HIDE DEF c
  <2> QED BY <1>1, OrderAtStop
<1>5. i = IF k < c THEN k ELSE c
  <2> HIDE DEF c, k
  <2> QED BY <1>1, <1>2, LesserOf
<1>6. /\ res = IF i = c \/ x[i] = y[i] THEN 0
                ELSE IF x[i] = NUL THEN -1 ELSE IF y[i] = NUL THEN 1 ELSE x[i] - y[i]
      /\ strncmp(x, y, n).seen = i + 1
  BY DEF strncmp, Gives
<1>7. x[k] \in Cell /\ y[k] \in Cell
  <2> HIDE DEF k
  <2> QED BY <1>2, ByteAt
<1>8. v \in Seq(Cell) /\ w \in Seq(Cell)
  <2>1. s \in Seq(Byte) /\ t \in Seq(Byte) /\ Byte \subseteq Cell
    BY DEF IsText, Byte, Cell
  <2> HIDE DEF c
  <2>2. v \in Seq(Byte) /\ w \in Seq(Byte)
    BY <1>1, <2>1, TakeIs
  <2> HIDE DEF v, w
  <2> QED BY <2>1, <2>2
<1> HIDE DEF k, c, i, v, w, res
<1>9. Sign(res) = Order(v, w)
  <2>1. CASE c <= k
    <3>1. res = 0 /\ v = w
      BY <1>1, <1>2, <1>4, <1>5, <1>6, <2>1
    <3>2. Order(v, w) = 0
      BY <1>8, <3>1, OrderTellsSame
    <3> QED BY <3>1, <3>2 DEF Sign
  <2>2. CASE c > k
    <3>1. i = k /\ i # c
      BY <1>1, <1>2, <1>5, <2>2
    <3>2. Sign(x[k] - y[k]) = Order(v, w)
      BY <1>4, <2>2
    <3>3. x[k] \in Int /\ y[k] \in Int /\ x[k] >= 0 /\ y[k] >= 0
      BY <1>7 DEF Cell
    <3>4. res = IF x[k] = y[k] THEN 0
                ELSE IF x[k] = 0 THEN -1 ELSE IF y[k] = 0 THEN 1 ELSE x[k] - y[k]
      BY <1>6, <3>1 DEF NUL
    <3>5. Sign(res) = Sign(x[k] - y[k])
      BY <3>3, <3>4 DEF Sign
    <3> QED BY <3>2, <3>5
  <2> QED BY <1>1, <1>2, <2>1, <2>2
<1>10. strncmp(x, y, n).seen <= n + 1
  BY <1>1, <1>2, <1>5, <1>6
<1>11. res \in Int
  <2>1. i = c \/ i = k
    BY <1>5
  <2>2. x[k] \in Int /\ y[k] \in Int
    BY <1>7 DEF Cell
  <2> QED BY <1>6, <2>1, <2>2
<1>12. c = 0 => res = 0
  BY <1>2, <1>5, <1>6
<1> QED BY <1>9, <1>10, <1>11, <1>12 DEF res, v, w, c

\* v is the first n bytes of x.
FirstBytes(v, x, n) == v = [i \in 1 .. n |-> x[i - 1]]

\* memcmp looks at n bytes, whatever they are.
LEMMA MemcmpIs ==
    ASSUME NEW x, NEW s, NEW y, NEW t, NEW m, IsText(x, s, m), IsText(y, t, m),
           NEW n \in Nat, n <= m, NEW v, NEW w, FirstBytes(v, x, n), FirstBytes(w, y, n)
    PROVE  Sign(memcmp(x, y, n).ret) = Order(v, w) /\ memcmp(x, y, n).seen <= n
<1> USE DEF FirstBytes
<1> DEFINE differ == {i \in DOMAIN x \cap DOMAIN y : i < n /\ x[i] # y[i]}
           k == Min(differ)
<1>1. /\ m \in Nat /\ DOMAIN x = 0 .. m - 1 /\ DOMAIN y = 0 .. m - 1
      /\ \A i \in 0 .. m - 1 : x[i] \in Cell /\ y[i] \in Cell
  BY DEF IsText
<1>2. \A i \in 1 .. n : i - 1 \in 0 .. m - 1 /\ v[i] = x[i - 1] /\ w[i] = y[i - 1]
  BY <1>1
<1>3. \A i \in 1 .. n : v[i] \in Cell /\ w[i] \in Cell
  BY <1>1, <1>2
<1>4. v \in Seq(Cell) /\ w \in Seq(Cell) /\ Len(v) = n /\ Len(w) = n
  <2>1. DOMAIN v = 1 .. n /\ v = [i \in 1 .. n |-> v[i]]
    OBVIOUS
  <2>2. DOMAIN w = 1 .. n /\ w = [i \in 1 .. n |-> w[i]]
    OBVIOUS
  <2> QED BY ONLY <1>3, <2>1, <2>2, n \in Nat, FunctionIsSeq
<1>5. memcmp(x, y, n).ret = (IF differ = {} THEN 0 ELSE x[k] - y[k])
      /\ memcmp(x, y, n).seen = IF differ = {} THEN n ELSE k + 1
  BY DEF memcmp, Gives
<1>6. ASSUME differ = {}
      PROVE  Order(v, w) = 0
  <2>1. \A i \in 0 .. n - 1 : x[i] = y[i]
    BY <1>1, <1>6
  <2> HIDE DEF differ
  <2>2. \A i \in 1 .. n : v[i] = w[i]
    <3> TAKE i \in 1 .. n
    <3>1. i - 1 \in 0 .. n - 1
      OBVIOUS
    <3> QED BY <1>2, <2>1, <3>1
  <2>3. v = w
    BY <1>4, <2>2, SameSequence
  <2> QED BY <1>4, <2>3, OrderTellsSame
<1>7. ASSUME differ # {}
      PROVE  Sign(x[k] - y[k]) = Order(v, w) /\ k + 1 <= n
  <2>1. differ \in SUBSET Nat
    BY <1>1
  <2>2. k \in differ /\ \A i \in differ : k <= i
    <3> HIDE DEF differ
    <3> QED BY <1>7, <2>1, MinExists
  <2> HIDE DEF k
  <2>3. k \in 0 .. n - 1 /\ x[k] # y[k]
    BY <1>1, <2>2
  <2>4. \A i \in 0 .. k - 1 : x[i] = y[i]
    <3> TAKE i \in 0 .. k - 1
    <3>1. i \notin differ
      <4> HIDE DEF differ
      <4> QED BY <2>2, <2>3
    <3>2. i \in 0 .. m - 1 /\ i < n
      BY <1>1, <2>3
    <3> QED BY <1>1, <3>1, <3>2
  <2> HIDE DEF differ
  <2>5. \A i \in 1 .. k : v[i] = w[i]
    <3> TAKE i \in 1 .. k
    <3>1. i - 1 \in 0 .. k - 1 /\ i \in 1 .. n
      BY <2>3
    <3> QED BY <1>2, <2>4, <3>1
  <2>6. k + 1 \in 1 .. n /\ k + 1 - 1 = k /\ k \in Nat /\ k < n /\ k <= n
    BY <2>3
  <2>7. v[k + 1] = x[k] /\ w[k + 1] = y[k]
    BY <1>2, <2>6
  <2>8. v[k + 1] # w[k + 1]
    BY <2>3, <2>7
  <2>9. Order(v, w) = Sign(v[k + 1] - w[k + 1])
    BY <1>4, <2>5, <2>6, <2>8, OrderIs
  <2> QED BY <2>6, <2>7, <2>9
<1>8. Sign(0) = 0
  BY DEF Sign
<1> HIDE DEF differ, k
<1> QED BY <1>5, <1>6, <1>7, <1>8

(***************************************************************************)
(* Upper case.                                                              *)
(***************************************************************************)

\* The tables' small letters, for a char with its sign and without.
LEMMA LowerIs ==
    ASSUME NEW c \in -128 .. 255
    PROVE  islower(c) <=> c \in 97 .. 122
<1> DEFINE b == UChar(c)
<1>1. b \in 0 .. 255 /\ b = IF c < 0 THEN c + 256 ELSE c
  <2>1. CASE c < 0
    <3>1. c \in -128 .. -1
      BY <2>1
    <3>2. c % 256 = c + 256
      BY ONLY <3>1, SMTT(60)
    <3> QED BY <2>1, <3>1, <3>2 DEF UChar
  <2>2. CASE c >= 0
    <3>1. c \in 0 .. 255
      BY <2>2
    <3>2. c % 256 = c
      BY ONLY <3>1, SMTT(60)
    <3> QED BY <2>2, <3>1, <3>2 DEF UChar
  <2> QED BY <2>1, <2>2
<1>2. "lower" \in CtypeAscii(b) <=> b \in 97 .. 122
  BY DEF CtypeAscii, When, Lower
<1>3. "lower" \notin CtypeHigh(b)
  BY DEF CtypeHigh, When
<1> HIDE DEF b
<1>4. __libc_ctype[b] = CtypeAscii(b) \cup CtypeHigh(b)
  BY <1>1 DEF __libc_ctype
<1>5. islower(c) <=> "lower" \in __libc_ctype[b]
  BY DEF islower, Flag, b
<1>6. b \in 97 .. 122 <=> c \in 97 .. 122
  BY <1>1
<1> QED BY <1>2, <1>3, <1>4, <1>5, <1>6

\* The upper case of a byte, and of a char with its sign.
LEMMA UpperIs ==
    ASSUME NEW c \in Cell
    PROVE  /\ UpperCase[c] \in Cell /\ (UpperCase[c] = NUL <=> c = NUL)
           /\ SignedUpper(c) = IF UpperCase[c] < 128 THEN UpperCase[c] ELSE UpperCase[c] - 256
           /\ UpperCase[c] < 128 <=> c < 128
<1>1. c \in 0 .. 255
  BY DEF Cell
<1>2. UpperCase[c] = IF c \in 97 .. 122 THEN c - 32 ELSE c
  <2>1. c \in -128 .. 255
    BY <1>1
  <2>2. UpperCase[c] = toupper(c)
    BY <1>1 DEF UpperCase
  <2> QED BY <2>1, <2>2, LowerIs DEF toupper
<1>3. SignedUpper(c) = IF c < 128 THEN IF c \in 97 .. 122 THEN c - 32 ELSE c ELSE c - 256
  <2>1. CASE c < 128
    <3>1. Signed(c) = c /\ c \in -128 .. 255
      BY <1>1, <2>1 DEF Signed
    <3> QED BY <2>1, <3>1, LowerIs DEF SignedUpper, toupper
  <2>2. CASE ~(c < 128)
    <3>1. Signed(c) = c - 256 /\ c - 256 \in -128 .. 255 /\ c - 256 \notin 97 .. 122
      BY <1>1, <2>2 DEF Signed
    <3>2. ~islower(c - 256)
      BY <3>1, LowerIs
    <3> QED BY <2>2, <3>1, <3>2 DEF SignedUpper, toupper
  <2> QED BY <2>1, <2>2
<1> QED BY <1>1, <1>2, <1>3 DEF Cell, NUL

\* An area with the upper case of each byte holds the text's upper case.
LEMMA FoldedIs ==
    ASSUME NEW x, NEW s, NEW m, IsText(x, s, m)
    PROVE  IsText(Map(x, UpperCase), Folded(s), m)
<1> DEFINE z == Map(x, UpperCase)
           u == Folded(s)
           n == Len(s)
<1>1. s \in Seq(Byte) /\ n \in Nat /\ m \in Nat /\ n < m /\ DOMAIN x = 0 .. m - 1
  BY DEF IsText
<1>2. strlen(x) = n
  BY LengthIs
<1>3. DOMAIN z = 0 .. m - 1 /\ \A i \in 0 .. m - 1 : z[i] = IF i < n THEN UpperCase[x[i]] ELSE x[i]
  BY <1>1, <1>2 DEF Map
<1>4. \A i \in 1 .. n : s[i] \in Byte
  BY <1>1
<1>5. \A k \in Byte : UpperCase[k] \in Byte
  <2> TAKE k \in Byte
  <2>1. k \in Cell /\ k # NUL
    BY DEF Byte, Cell, NUL
  <2>2. UpperCase[k] \in Cell /\ UpperCase[k] # NUL
    BY <2>1, UpperIs
  <2> QED BY <2>2 DEF Byte, Cell, NUL
<1>6. u \in Seq(Byte) /\ Len(u) = n /\ \A i \in 1 .. n : u[i] = UpperCase[s[i]]
  <2>1. DOMAIN u = 1 .. n /\ \A i \in 1 .. n : u[i] = UpperCase[s[i]]
    BY <1>1 DEF Folded
  <2>2. \A i \in 1 .. n : u[i] \in Byte
    BY <1>4, <1>5, <2>1
  <2>3. u = [i \in 1 .. n |-> u[i]]
    BY <1>1 DEF Folded
  <2> HIDE DEF u, n
  <2> QED BY ONLY <1>1, <2>1, <2>2, <2>3, FunctionIsSeq
<1>7. \A i \in 0 .. m - 1 : x[i] \in Cell /\ (i < n => x[i] = s[i + 1]) /\ (x[i] = NUL <=> i = n)
  BY DEF IsText
<1> HIDE DEF z, u, n
<1>8. \A i \in 0 .. m - 1 : z[i] \in Cell /\ (i < n => z[i] = u[i + 1]) /\ (z[i] = NUL <=> i = n)
  <2> TAKE i \in 0 .. m - 1
  <2>1. CASE i < n
    <3>1. i + 1 \in 1 .. n
      BY <1>1, <2>1
    <3>2. z[i] = UpperCase[s[i + 1]] /\ z[i] = u[i + 1] /\ z[i] \in Byte
      BY <1>3, <1>4, <1>5, <1>6, <1>7, <2>1, <3>1
    <3>3. z[i] \in Cell /\ z[i] # NUL
      BY <3>2 DEF Byte, Cell, NUL
    <3> QED BY <1>1, <2>1, <3>2, <3>3
  <2>2. CASE ~(i < n)
    BY <1>3, <1>7, <2>2
  <2> QED BY <2>1, <2>2
<1>9. Len(u) < m
  BY <1>1, <1>6
<1> QED BY <1>1, <1>3, <1>6, <1>8, <1>9 DEF IsText, z, u

\* Two bytes have one upper case where the chars have.
LEMMA SameUpper ==
    ASSUME NEW c \in Cell, NEW e \in Cell
    PROVE  /\ SignedUpper(c) = SignedUpper(e) <=> UpperCase[c] = UpperCase[e]
           /\ SignedUpper(c) \in Int
           /\ c < 128 => SignedUpper(c) = UpperCase[c]
<1>1. /\ UpperCase[c] \in Cell
      /\ UpperCase[c] < 128 <=> c < 128
      /\ SignedUpper(c) = IF UpperCase[c] < 128 THEN UpperCase[c] ELSE UpperCase[c] - 256
  BY UpperIs
<1>2. /\ UpperCase[e] \in Cell
      /\ SignedUpper(e) = IF UpperCase[e] < 128 THEN UpperCase[e] ELSE UpperCase[e] - 256
  BY UpperIs
<1> DEFINE i == UpperCase[c]
           j == UpperCase[e]
<1>3. i \in Int /\ j \in Int /\ 0 <= i /\ i <= 255 /\ 0 <= j /\ j <= 255
  BY <1>1, <1>2 DEF Cell
<1>4. /\ i < 128 <=> c < 128
      /\ SignedUpper(c) = IF i < 128 THEN i ELSE i - 256
      /\ SignedUpper(e) = IF j < 128 THEN j ELSE j - 256
  BY <1>1, <1>2
<1> HIDE DEF i, j
<1>5. SignedUpper(c) = SignedUpper(e) <=> i = j
  BY <1>3, <1>4
<1>6. SignedUpper(c) \in Int /\ (c < 128 => SignedUpper(c) = i)
  BY <1>3, <1>4
<1> QED BY <1>5, <1>6 DEF i, j

\* stricmp is strcmp of the upper case.
LEMMA StricmpIs ==
    ASSUME NEW x, NEW s, NEW m, IsText(x, s, m), NEW y, NEW t, NEW o, IsText(y, t, o)
    PROVE  Sign(stricmp(x, y).ret) = Order(Folded(s), Folded(t))
<1> DEFINE z == Map(x, UpperCase)
           q == Map(y, UpperCase)
           u == Folded(s)
           p == Folded(t)
<1>1. IsText(z, u, m)
  BY ONLY IsText(x, s, m), FoldedIs
<1>2. IsText(q, p, o)
  BY ONLY IsText(y, t, o), FoldedIs
<1>3. stricmp(x, y) = strcmp(z, q)
  BY DEF stricmp
<1> HIDE DEF z, q, u, p
<1>4. Sign(strcmp(z, q).ret) = Order(u, p)
  BY ONLY <1>1, <1>2, StrcmpIs
<1> QED BY <1>3, <1>4 DEF u, p

\* A part of what is folded is the part, folded.
LEMMA FoldedPart ==
    ASSUME NEW s \in Seq(Byte), Folded(s) \in Seq(Byte), NEW i \in Nat, NEW j \in Nat, i + j <= Len(s)
    PROVE  Folded(SubSeq(s, i + 1, i + j)) = SubSeq(Folded(s), i + 1, i + j)
<1> DEFINE v == SubSeq(s, i + 1, i + j)
           u == Folded(s)
           w == SubSeq(u, i + 1, i + j)
           f == Folded(v)
<1>1. v \in Seq(Byte) /\ Len(v) = j /\ DOMAIN v = 1 .. j /\ \A k \in 1 .. j : v[k] = s[k + i]
  OBVIOUS
<1>2. u \in Seq(Byte) /\ Len(u) = Len(s) /\ \A k \in 1 .. Len(s) : u[k] = UpperCase[s[k]]
  BY DEF Folded
<1>3. w \in Seq(Byte) /\ Len(w) = j /\ \A k \in 1 .. j : w[k] = u[k + i]
  <2> HIDE DEF u
  <2> QED BY <1>2
<1>4. DOMAIN f = 1 .. j /\ f = [k \in 1 .. j |-> f[k]] /\ \A k \in 1 .. j : f[k] = UpperCase[v[k]]
  <2> HIDE DEF v
  <2> QED BY <1>1 DEF Folded
<1>5. Len(s) \in Nat
  OBVIOUS
<1> HIDE DEF v, u, w, f
<1>6. \A k \in 1 .. j : f[k] = w[k]
  <2> TAKE k \in 1 .. j
  <2>1. k + i \in 1 .. Len(s)
    BY <1>5
  <2>2. f[k] = UpperCase[v[k]] /\ v[k] = s[k + i]
    BY <1>1, <1>4
  <2>3. w[k] = u[k + i] /\ u[k + i] = UpperCase[s[k + i]]
    BY <1>2, <1>3, <2>1
  <2> QED BY <2>2, <2>3
<1>7. \A k \in 1 .. j : f[k] \in Byte
  <2>1. \A k \in 1 .. j : w[k] \in Byte
    BY <1>3
  <2> QED BY <1>6, <2>1
<1>8. f \in Seq(Byte) /\ Len(f) = j
  BY ONLY <1>4, <1>7, j \in Nat, FunctionIsSeq
<1>9. f = w
  BY <1>3, <1>6, <1>8, SameSequence
<1> QED BY <1>9 DEF f, w, v, u

\* The same of the first n bytes.
LEMMA FoldedTake ==
    ASSUME NEW s \in Seq(Byte), Folded(s) \in Seq(Byte), NEW n \in Nat
    PROVE  Folded(Take(s, n)) = Take(Folded(s), n)
<1> DEFINE j == IF n < Len(s) THEN n ELSE Len(s)
<1>1. Len(s) \in Nat /\ Len(Folded(s)) = Len(s)
  BY DEF Folded
<1>2. Min({n, Len(s)}) = j
  BY <1>1, LesserOf
<1>3. Take(s, n) = SubSeq(s, 1, j) /\ Take(Folded(s), n) = SubSeq(Folded(s), 1, j)
  BY <1>1, <1>2 DEF Take
<1>4. j \in Nat /\ 0 + j <= Len(s) /\ 0 + 1 = 1 /\ 0 + j = j
  BY <1>1
<1> HIDE DEF j
<1>5. Folded(SubSeq(s, 0 + 1, 0 + j)) = SubSeq(Folded(s), 0 + 1, 0 + j)
  BY <1>4, FoldedPart
<1> QED BY <1>3, <1>4, <1>5

\* r tells of the first n bytes whether they are the same but for the case, and which ones
\* come first, if none is above 7F; and the loop takes no more than n.
FoldedOrder(r, s, t, n) ==
    LET v == Folded(Take(s, n))
        w == Folded(Take(t, n))
    IN  /\ (r.ret = 0) = (v = w)
        /\ (\A i \in DOMAIN s : s[i] < 128) /\ (\A i \in DOMAIN t : t[i] < 128)
             => Sign(r.ret) = Order(v, w)
        /\ r.seen <= n

\* strnicmp tells whether the first n bytes are the same but for the case.
LEMMA StrnicmpIs ==
    ASSUME NEW n \in Nat, NEW x, NEW s, NEW m, IsText(x, s, m), NEW y, NEW t, NEW o, IsText(y, t, o)
    PROVE  FoldedOrder(strnicmp(x, y, n), s, t, n)
<1> DEFINE z == Map(x, UpperCase)
           q == Map(y, UpperCase)
           u == Folded(s)
           p == Folded(t)
           k == StopAt(z, q)
           stops == {i \in DOMAIN x \cap DOMAIN y :
                       i < n /\ (y[i] = NUL \/ SignedUpper(x[i]) # SignedUpper(y[i]))}
           r == strnicmp(x, y, n)
           v == Take(u, n)
           w == Take(p, n)
<1>1. IsText(z, u, m) /\ IsText(q, p, o)
  BY FoldedIs
<1>2. /\ s \in Seq(Byte) /\ t \in Seq(Byte) /\ u \in Seq(Byte) /\ p \in Seq(Byte)
      /\ Len(s) \in Nat /\ Len(t) \in Nat /\ Len(s) < m /\ Len(t) < o
      /\ m \in Nat /\ o \in Nat /\ DOMAIN x = 0 .. m - 1 /\ DOMAIN y = 0 .. o - 1
  BY <1>1 DEF IsText
<1>3. Folded(Take(s, n)) = v /\ Folded(Take(t, n)) = w
  BY <1>2, FoldedTake
<1>4. Len(u) = Len(s) /\ Len(p) = Len(t)
  BY <1>2 DEF Folded
<1>5. k \in Nat /\ k <= Len(s) /\ k <= Len(t)
  <2> HIDE DEF z, q, u, p
  <2> QED BY <1>1, <1>4, StopIs
<1>6. /\ n <= k => v = w
      /\ n > k => Sign(z[k] - q[k]) = Order(v, w)
  <2> HIDE DEF z, q, u, p
  <2> QED BY <1>1, OrderAtStop
<1>7. v \in Seq(Cell) /\ w \in Seq(Cell)
  <2>1. Byte \subseteq Cell
    BY DEF Byte, Cell
  <2> HIDE DEF u, p
  <2>2. v \in Seq(Byte) /\ w \in Seq(Byte)
    BY <1>2, TakeIs
  <2> HIDE DEF v, w
  <2> QED BY <2>1, <2>2
<1>8. /\ \A i \in 0 .. m - 1 : i <= Len(s) => z[i] = UpperCase[x[i]] /\ x[i] \in Cell
      /\ \A i \in 0 .. o - 1 : i <= Len(t) => q[i] = UpperCase[y[i]] /\ y[i] \in Cell
  <2>1. strlen(x) = Len(s) /\ strlen(y) = Len(t)
    BY LengthIs
  <2>2. UpperCase[NUL] = NUL
    <3>1. NUL \in Cell
      BY DEF NUL, Cell
    <3> QED BY <3>1, UpperIs
  <2>3. \A i \in 0 .. m - 1 : x[i] \in Cell /\ (x[i] = NUL <=> i = Len(s))
    BY DEF IsText
  <2>4. \A i \in 0 .. o - 1 : y[i] \in Cell /\ (y[i] = NUL <=> i = Len(t))
    BY DEF IsText
  <2>5. \A i \in 0 .. m - 1 : z[i] = IF i < Len(s) THEN UpperCase[x[i]] ELSE x[i]
    BY <1>2, <2>1 DEF Map
  <2>6. \A i \in 0 .. o - 1 : q[i] = IF i < Len(t) THEN UpperCase[y[i]] ELSE y[i]
    BY <1>2, <2>1 DEF Map
  <2> HIDE DEF z, q
  <2>7. \A i \in 0 .. m - 1 : i <= Len(s) => z[i] = UpperCase[x[i]] /\ x[i] \in Cell
    BY <1>2, <2>2, <2>3, <2>5
  <2>8. \A i \in 0 .. o - 1 : i <= Len(t) => q[i] = UpperCase[y[i]] /\ y[i] \in Cell
    BY <1>2, <2>2, <2>4, <2>6
  <2> QED BY <2>7, <2>8
<1>9. r.ret = (IF stops = {} THEN 0 ELSE SignedUpper(x[Min(stops)]) - SignedUpper(y[Min(stops)]))
      /\ r.seen = IF stops = {} THEN n ELSE Min(stops) + 1
  BY DEF strnicmp, Gives
<1>10. \A i \in 0 .. k - 1 : z[i] = q[i] /\ q[i] # NUL
  <2>1. \A i \in 1 .. k : u[i] = p[i]
    <3> HIDE DEF z, q, u, p
    <3> QED BY <1>1, StopIs
  <2> TAKE i \in 0 .. k - 1
  <2>2. i \in 0 .. m - 1 /\ i \in 0 .. o - 1 /\ i < Len(s) /\ i < Len(t) /\ i + 1 \in 1 .. k
    BY <1>2, <1>5
  <2> HIDE DEF z, q, u, p, k
  <2>3. z[i] = u[i + 1] /\ q[i] = p[i + 1]
    BY <1>1, <1>4, <2>2 DEF IsText
  <2>4. q[i] # NUL
    BY <1>1, <1>4, <2>2 DEF IsText
  <2> QED BY <2>1, <2>2, <2>3, <2>4
<1>11. q[k] = NUL \/ z[k] # q[k]
  <2>1. k < Len(s) /\ k < Len(t) => u[k + 1] # p[k + 1]
    <3> HIDE DEF z, q, u, p
    <3> QED BY <1>1, <1>4, StopIs
  <2>2. k \in 0 .. m - 1 /\ k \in 0 .. o - 1
    BY <1>2, <1>5
  <2> HIDE DEF z, q, u, p, k
  <2>3. /\ k < Len(s) => z[k] = u[k + 1]
        /\ k < Len(t) => q[k] = p[k + 1]
        /\ z[k] = NUL <=> k = Len(s)
        /\ q[k] = NUL <=> k = Len(t)
    BY <1>1, <1>4, <2>2 DEF IsText
  <2> QED BY <1>2, <1>5, <2>1, <2>3
<1>12. \A i \in 0 .. k :
          /\ i \in DOMAIN x \cap DOMAIN y
          /\ (y[i] = NUL \/ SignedUpper(x[i]) # SignedUpper(y[i])) <=> i = k
  <2> TAKE i \in 0 .. k
  <2>1. i \in 0 .. m - 1 /\ i \in 0 .. o - 1 /\ i <= Len(s) /\ i <= Len(t) /\ (i # k => i \in 0 .. k - 1)
    BY <1>2, <1>5
  <2> HIDE DEF z, q, k
  <2>2. z[i] = UpperCase[x[i]] /\ q[i] = UpperCase[y[i]] /\ x[i] \in Cell /\ y[i] \in Cell
    BY <1>8, <2>1
  <2>3. (q[i] = NUL <=> y[i] = NUL) /\ (SignedUpper(x[i]) = SignedUpper(y[i]) <=> z[i] = q[i])
    <3>1. UpperCase[y[i]] = NUL <=> y[i] = NUL
      BY <2>2, UpperIs
    <3>2. SignedUpper(x[i]) = SignedUpper(y[i]) <=> UpperCase[x[i]] = UpperCase[y[i]]
      BY <2>2, SameUpper
    <3> QED BY <2>2, <3>1, <3>2
  <2> QED BY <1>2, <1>10, <1>11, <2>1, <2>3
<1> HIDE DEF z, q, u, p, k, r, v, w
<1>13. CASE n <= k
  <2>1. v = w
    BY <1>6, <1>13
  <2>2. stops = {}
    BY <1>2, <1>5, <1>12, <1>13
  <2> HIDE DEF stops
  <2>3. r.ret = 0 /\ r.seen = n
    BY <1>9, <2>2
  <2>4. Order(v, w) = 0 /\ Sign(0) = 0
    BY <1>7, <2>1, OrderTellsSame DEF Sign
  <2> HIDE DEF v, w
  <2> QED BY <1>3, <2>1, <2>3, <2>4 DEF r, FoldedOrder
<1>14. CASE n > k
  <2>1. k \in stops /\ stops \in SUBSET Int /\ \A i \in stops : k <= i
    BY <1>2, <1>5, <1>12, <1>14
  <2> HIDE DEF stops
  <2>2. Min(stops) = k
    BY <2>1, MinIs
  <2>3. r.ret = SignedUpper(x[k]) - SignedUpper(y[k]) /\ r.seen <= n
    BY <1>5, <1>9, <1>14, <2>1, <2>2
  <2>4. Sign(z[k] - q[k]) = Order(v, w)
    BY <1>6, <1>14
  <2>5. z[k] = UpperCase[x[k]] /\ q[k] = UpperCase[y[k]] /\ x[k] \in Cell /\ y[k] \in Cell
    BY <1>2, <1>5, <1>8
  <2>6. /\ SignedUpper(x[k]) = SignedUpper(y[k]) <=> z[k] = q[k]
        /\ SignedUpper(x[k]) \in Int /\ SignedUpper(y[k]) \in Int
        /\ x[k] < 128 => SignedUpper(x[k]) = z[k]
        /\ y[k] < 128 => SignedUpper(y[k]) = q[k]
    BY <2>5, SameUpper
  <2>7. z[k] \in Int /\ q[k] \in Int
    <3>1. UpperCase[x[k]] \in Cell /\ UpperCase[y[k]] \in Cell
      BY <2>5, UpperIs
    <3>2. Cell \subseteq Int
      BY DEF Cell
    <3> QED BY <2>5, <3>1, <3>2
  <2>8. r.ret = 0 <=> z[k] = q[k]
    BY <2>3, <2>6
  <2>9. z[k] = q[k] <=> Order(v, w) = 0
    <3>1. z[k] = q[k] => Sign(z[k] - q[k]) = 0
      BY <2>7 DEF Sign
    <3>2. z[k] # q[k] => Sign(z[k] - q[k]) # 0
      BY <2>7, SignDiffers
    <3> QED BY <2>4, <3>1, <3>2
  <2>10. r.ret = 0 <=> v = w
    BY <1>7, <2>8, <2>9, OrderTellsSame
  <2>11. ASSUME \A i \in DOMAIN s : s[i] < 128, \A i \in DOMAIN t : t[i] < 128
         PROVE  Sign(r.ret) = Order(v, w)
    <3>1. x[k] < 128 /\ y[k] < 128
      <4>1. /\ k < Len(s) => x[k] = s[k + 1]
            /\ k = Len(s) => x[k] = 0
        BY <1>5, ByteAt
      <4>2. /\ k < Len(t) => y[k] = t[k + 1]
            /\ k = Len(t) => y[k] = 0
        BY <1>5, ByteAt
      <4>3. DOMAIN s = 1 .. Len(s) /\ DOMAIN t = 1 .. Len(t)
        BY <1>2
      <4>4. x[k] < 128
        <5>1. CASE k < Len(s)
          <6>1. k + 1 \in DOMAIN s
            BY <1>2, <1>5, <4>3, <5>1
          <6> QED BY <2>11, <4>1, <5>1, <6>1
        <5>2. CASE k = Len(s)
          BY <4>1, <5>2
        <5> QED BY <1>2, <1>5, <5>1, <5>2
      <4>5. y[k] < 128
        <5>1. CASE k < Len(t)
          <6>1. k + 1 \in DOMAIN t
            BY <1>2, <1>5, <4>3, <5>1
          <6> QED BY <2>11, <4>2, <5>1, <6>1
        <5>2. CASE k = Len(t)
          BY <4>2, <5>2
        <5> QED BY <1>2, <1>5, <5>1, <5>2
      <4> QED BY <4>4, <4>5
    <3> QED BY <2>3, <2>4, <2>6, <3>1
  <2> HIDE DEF v, w
  <2> QED BY <1>3, <2>3, <2>10, <2>11 DEF r, FoldedOrder
<1> QED BY <1>5, <1>13, <1>14

(***************************************************************************)
(* Searches.                                                                *)
(***************************************************************************)

\* A pointer into a text points to the rest of it.
LEMMA FromIs ==
    ASSUME NEW x, NEW s, NEW m, IsText(x, s, m), NEW k \in Nat, k <= Len(s)
    PROVE  IsText(From(x, k), SubSeq(s, k + 1, Len(s)), m - k)
<1> DEFINE z == From(x, k)
           u == SubSeq(s, k + 1, Len(s))
           n == Len(s)
           rest == {j - k : j \in {i \in DOMAIN x : i >= k}}
<1>1. s \in Seq(Byte) /\ n \in Nat /\ m \in Nat /\ n < m /\ DOMAIN x = 0 .. m - 1
  BY DEF IsText
<1>2. u \in Seq(Byte) /\ Len(u) = n - k /\ \A i \in 1 .. n - k : u[i] = s[i + k]
  BY <1>1
<1>3. rest = 0 .. m - k - 1
  <2>1. \A i \in rest : i \in 0 .. m - k - 1
    BY <1>1
  <2>2. \A i \in 0 .. m - k - 1 : i + k \in {j \in DOMAIN x : j >= k} /\ i + k - k = i
    BY <1>1
  <2>3. \A i \in 0 .. m - k - 1 : i \in rest
    BY <2>2
  <2> HIDE DEF rest
  <2> QED BY <2>1, <2>3
<1>4. DOMAIN z = 0 .. m - k - 1 /\ \A i \in 0 .. m - k - 1 : z[i] = x[i + k]
  BY <1>3 DEF From
<1>5. \A i \in 0 .. m - 1 : x[i] \in Cell /\ (i < n => x[i] = s[i + 1]) /\ (x[i] = NUL <=> i = n)
  BY DEF IsText
<1> HIDE DEF z, u, n, rest
<1>6. \A i \in 0 .. m - k - 1 : z[i] \in Cell /\ (i < Len(u) => z[i] = u[i + 1]) /\ (z[i] = NUL <=> i = Len(u))
  <2> TAKE i \in 0 .. m - k - 1
  <2>1. i + k \in 0 .. m - 1 /\ (i < n - k <=> i + k < n) /\ (i = n - k <=> i + k = n)
    BY <1>1
  <2>2. i < n - k => i + 1 \in 1 .. n - k /\ i + 1 + k = i + k + 1
    BY <1>1
  <2> QED BY <1>2, <1>4, <1>5, <2>1, <2>2
<1>7. m - k \in Nat /\ Len(u) < m - k
  <2>1. k <= n
    BY DEF n
  <2> QED BY <1>1, <1>2, <2>1
<1> QED BY <1>2, <1>4, <1>6, <1>7 DEF IsText, z, u, n

\* A text begins with another where it occurs.
LEMMA OccursIs ==
    ASSUME NEW s \in Seq(Byte), NEW t \in Seq(Byte), NEW k \in 0 .. Len(s)
    PROVE  Take(SubSeq(s, k + 1, Len(s)), Len(t)) = t <=> Occurs(t, s, k)
<1> DEFINE r == SubSeq(s, k + 1, Len(s))
           f == Take(r, Len(t))
           o == SubSeq(s, k + 1, k + Len(t))
<1>1. Len(s) \in Nat /\ Len(t) \in Nat
  OBVIOUS
<1>2. r \in Seq(Byte) /\ Len(r) = Len(s) - k /\ \A i \in 1 .. Len(r) : r[i] = s[i + k]
  BY <1>1
<1>3. /\ f \in Seq(Byte) /\ Len(f) = IF Len(t) < Len(r) THEN Len(t) ELSE Len(r)
      /\ \A i \in 1 .. Len(f) : f[i] = r[i]
  <2> HIDE DEF r
  <2> QED BY <1>1, <1>2, TakeIs
<1>4. ASSUME k + Len(t) <= Len(s)
      PROVE  f = o
  <2>1. o \in Seq(Byte) /\ Len(o) = Len(t) /\ \A i \in 1 .. Len(t) : o[i] = s[i + k]
    BY <1>1, <1>4
  <2> HIDE DEF r, f, o
  <2>2. Len(f) = Len(t) /\ Len(t) <= Len(r)
    BY <1>1, <1>2, <1>3, <1>4
  <2>3. \A i \in 1 .. Len(t) : f[i] = o[i]
    BY <1>1, <1>2, <1>3, <2>1, <2>2
  <2> QED BY <1>3, <2>1, <2>2, <2>3, SameSequence
<1> HIDE DEF r, f, o
<1>5. f = t => k + Len(t) <= Len(s)
  BY <1>1, <1>2, <1>3
<1> QED BY <1>4, <1>5 DEF Occurs, f, r, o

\* What is found first.
LEMMA FirstIs ==
    ASSUME NEW s \in Seq(Byte), NEW t \in Seq(Byte), NEW hits,
           hits = {k \in 0 .. Len(s) : Occurs(t, s, k)}
    PROVE  FoundAt(FirstOf(hits), t, s)
  BY DEF FoundAt, FirstOf

\* strstr finds the first place of a text in another.
LEMMA StrstrIs ==
    ASSUME StringsAssumption,
           NEW x, NEW s, NEW m, IsText(x, s, m), NEW y, NEW t, NEW o, IsText(y, t, o),
           Len(t) <= LongMax
    PROVE  FoundAt(strstr(x, y).ret, t, s)
<1> DEFINE n == Len(t)
           l == Len(s)
           all == {k \in 0 .. l : Occurs(t, s, k)}
           hits == {k \in 0 .. strlen(x) - 1 : x[k] = y[0] /\ strncmp(From(x, k), y, strlen(y)).ret = 0}
<1>1. s \in Seq(Byte) /\ t \in Seq(Byte) /\ l \in Nat /\ n \in Nat /\ m \in Nat /\ l < m
  BY DEF IsText
<1>2. strlen(x) = l /\ strlen(y) = n
  BY LengthIs
<1>3. y[0] = NUL <=> n = 0
  BY <1>1 DEF IsText
<1>4. CASE n = 0
  <2>1. Occurs(t, s, 0)
    <3>1. SubSeq(s, 0 + 1, 0 + n) = <<>> /\ t = <<>>
      BY <1>1, <1>4
    <3> QED BY <1>1, <1>4, <3>1 DEF Occurs
  <2>2. 0 \in all /\ all \in SUBSET Int /\ \A k \in all : 0 <= k
    BY <1>1, <2>1
  <2> HIDE DEF all
  <2>3. Min(all) = 0
    BY <2>2, MinIs
  <2>4. strstr(x, y).ret = FirstOf(all)
    BY <1>3, <1>4, <2>2, <2>3 DEF strstr, Answer, Gives, FirstOf
  <2> QED BY <1>1, <2>4, FirstIs DEF all
<1>5. CASE n > 0
  <2>1. \A k \in 0 .. l - 1 : strncmp(From(x, k), y, n).ret = 0 <=> Occurs(t, s, k)
    <3> TAKE k \in 0 .. l - 1
    <3> DEFINE z == From(x, k)
               u == SubSeq(s, k + 1, l)
               c == Count(n)
               res == strncmp(z, y, n).ret
               v == Take(u, c)
               w == Take(t, c)
    <3>1. IsText(z, u, m - k)
      BY <1>1, FromIs
    <3>2. c = n
      BY <1>1 DEF Count, StringsAssumption
    <3>3. Sign(res) = Order(v, w) /\ res \in Int
      <4> HIDE DEF z, u
      <4> QED BY <1>1, <3>1, StrncmpIs
    <3>4. u \in Seq(Byte)
      BY <3>1 DEF IsText
    <3>5. v \in Seq(Cell) /\ w \in Seq(Cell)
      <4>1. Byte \subseteq Cell
        BY DEF Byte, Cell
      <4> HIDE DEF u, c
      <4>2. v \in Seq(Byte) /\ w \in Seq(Byte)
        BY <1>1, <3>2, <3>4, TakeIs
      <4> HIDE DEF v, w
      <4> QED BY <4>1, <4>2
    <3>6. w = t
      <4>1. w \in Seq(Byte) /\ Len(w) = n /\ \A i \in 1 .. n : w[i] = t[i]
        <5> HIDE DEF c
        <5> QED BY <1>1, <3>2, TakeIs
      <4> HIDE DEF w
      <4> QED BY <1>1, <4>1, SameSequence
    <3>7. v = t <=> Occurs(t, s, k)
      BY <1>1, <3>2, OccursIs
    <3> HIDE DEF v, w, res
    <3>8. res = 0 <=> Order(v, w) = 0
      BY <3>3 DEF Sign
    <3> QED BY <3>5, <3>6, <3>7, <3>8, OrderTellsSame DEF res, z
  <2>2. \A k \in 0 .. l : Occurs(t, s, k) => k \in 0 .. l - 1 /\ x[k] = y[0]
    <3> TAKE k \in 0 .. l
    <3> HAVE Occurs(t, s, k)
    <3>1. k + n <= l /\ SubSeq(s, k + 1, k + n) = t
      BY DEF Occurs
    <3>2. k \in 0 .. l - 1
      BY <1>1, <1>5, <3>1
    <3>3. t[1] = s[k + 1]
      <4> DEFINE q == SubSeq(s, k + 1, k + n)
      <4>1. 1 \in 1 .. n /\ q[1] = s[k + 1]
        BY <1>1, <1>5, <3>1, <3>2
      <4> QED BY <3>1, <4>1
    <3>4. x[k] = s[k + 1] /\ y[0] = t[1]
      BY <1>1, <1>5, <3>2, ByteAt
    <3> QED BY <3>2, <3>3, <3>4
  <2>3. hits = all
    BY <1>1, <1>2, <2>1, <2>2
  <2>4. strstr(x, y).ret = FirstOf(hits)
    BY <1>3, <1>5 DEF strstr, Answer, Gives
  <2> HIDE DEF hits
  <2> QED BY <1>1, <2>3, <2>4, FirstIs
<1> QED BY <1>1, <1>4, <1>5

\* strcasestr finds the first place of a text in another, whatever the case.
LEMMA StrcasestrIs ==
    ASSUME NEW x, NEW s, NEW m, IsText(x, s, m), NEW y, NEW t, NEW o, IsText(y, t, o)
    PROVE  FoundAt(strcasestr(x, y).ret, Folded(t), Folded(s))
<1> DEFINE n == Len(t)
           l == Len(s)
           u == Folded(s)
           p == Folded(t)
           all == {k \in 0 .. l : Occurs(p, u, k)}
           hits == {k \in 0 .. strlen(x) - 1 :
                      /\ SignedUpper(x[k]) = SignedUpper(y[0])
                      /\ strnicmp(From(x, k), y, strlen(y)).ret = 0}
<1>1. s \in Seq(Byte) /\ t \in Seq(Byte) /\ l \in Nat /\ n \in Nat /\ m \in Nat /\ l < m
  BY DEF IsText
<1>2. strlen(x) = l /\ strlen(y) = n
  BY LengthIs
<1>3. y[0] = NUL <=> n = 0
  BY <1>1 DEF IsText
<1>4. u \in Seq(Byte) /\ p \in Seq(Byte)
  <2>1. IsText(Map(x, UpperCase), u, m) /\ IsText(Map(y, UpperCase), p, o)
    BY FoldedIs
  <2> HIDE DEF u, p
  <2> QED BY <2>1 DEF IsText
<1>5. Len(u) = l /\ Len(p) = n
  BY <1>1 DEF Folded
<1>6. (\A k \in 1 .. l : u[k] = UpperCase[s[k]]) /\ (\A k \in 1 .. n : p[k] = UpperCase[t[k]])
  BY <1>1 DEF Folded
<1>7. CASE n = 0
  <2> HIDE DEF u, p
  <2>1. Occurs(p, u, 0)
    <3>1. SubSeq(u, 0 + 1, 0 + Len(p)) = <<>> /\ p = <<>>
      BY <1>4, <1>5, <1>7
    <3> QED BY <1>1, <1>4, <1>5, <1>7, <3>1 DEF Occurs
  <2>2. 0 \in all /\ all \in SUBSET Int /\ \A k \in all : 0 <= k
    BY <1>1, <2>1
  <2>3. all = {k \in 0 .. Len(u) : Occurs(p, u, k)}
    BY <1>5
  <2> HIDE DEF all
  <2>4. Min(all) = 0
    BY <2>2, MinIs
  <2>5. strcasestr(x, y).ret = FirstOf(all)
    BY <1>3, <1>7, <2>2, <2>4 DEF strcasestr, Answer, Gives, FirstOf
  <2>6. FoundAt(FirstOf(all), p, u)
    BY <1>4, <2>3, FirstIs
  <2> QED BY <2>5, <2>6 DEF u, p
<1>8. CASE n > 0
  <2>1. \A k \in 0 .. l - 1 : strnicmp(From(x, k), y, n).ret = 0 <=> Occurs(p, u, k)
    <3> TAKE k \in 0 .. l - 1
    <3> DEFINE z == From(x, k)
               r == SubSeq(s, k + 1, l)
               q == SubSeq(u, k + 1, l)
    <3>1. IsText(z, r, m - k)
      BY <1>1, FromIs
    <3>2. r \in Seq(Byte)
      BY <3>1 DEF IsText
    <3>3. strnicmp(z, y, n).ret = 0 <=> Folded(Take(r, n)) = Folded(Take(t, n))
      <4> HIDE DEF z, r
      <4>1. n \in Nat
        BY <1>1
      <4>2. FoldedOrder(strnicmp(z, y, n), r, t, n)
        BY <1>1, <3>1, <4>1, StrnicmpIs
      <4> QED BY <4>2 DEF FoldedOrder
    <3>4. Folded(r) = q
      <4> DEFINE i == l - k
      <4>1. i \in Nat /\ k + i = l /\ k + i <= Len(s) /\ k \in Nat
        BY <1>1
      <4> HIDE DEF i
      <4>2. Folded(SubSeq(s, k + 1, k + i)) = SubSeq(Folded(s), k + 1, k + i)
        BY <1>1, <1>4, <4>1, FoldedPart
      <4> QED BY <4>1, <4>2
    <3>5. q \in Seq(Byte)
      <4> HIDE DEF u
      <4> QED BY <1>1, <1>4, <1>5
    <3>6. Folded(Take(r, n)) = Take(q, n)
      <4> HIDE DEF r, q
      <4> QED BY <1>1, <3>2, <3>4, <3>5, FoldedTake
    <3>7. Folded(Take(t, n)) = Take(p, n)
      BY <1>1, <1>4, FoldedTake
    <3> HIDE DEF u, p
    <3>8. Take(p, n) = p
      <4> DEFINE w == Take(p, n)
      <4>1. w \in Seq(Byte) /\ Len(w) = n /\ \A i \in 1 .. n : w[i] = p[i]
        BY <1>1, <1>4, <1>5, TakeIs
      <4> HIDE DEF w
      <4>2. w = p
        BY <1>4, <1>5, <4>1, SameSequence
      <4> QED BY <4>2 DEF w
    <3>9. Take(q, n) = p <=> Occurs(p, u, k)
      <4>1. k \in 0 .. Len(u) /\ q = SubSeq(u, k + 1, Len(u)) /\ n = Len(p)
        BY <1>1, <1>5
      <4> HIDE DEF q, n
      <4> QED BY <1>4, <4>1, OccursIs
    <3> QED BY <3>3, <3>6, <3>7, <3>8, <3>9
  <2>2. \A k \in 0 .. l : Occurs(p, u, k) => k \in 0 .. l - 1 /\ SignedUpper(x[k]) = SignedUpper(y[0])
    <3> TAKE k \in 0 .. l
    <3> HAVE Occurs(p, u, k)
    <3> HIDE DEF u, p
    <3>1. k + n <= l /\ SubSeq(u, k + 1, k + n) = p
      BY <1>5 DEF Occurs
    <3>2. k \in 0 .. l - 1
      BY <1>1, <1>8, <3>1
    <3>3. p[1] = u[k + 1]
      <4> DEFINE q == SubSeq(u, k + 1, k + n)
      <4>1. 1 \in 1 .. n /\ q[1] = u[k + 1]
        BY <1>1, <1>4, <1>5, <1>8, <3>1, <3>2
      <4> QED BY <3>1, <4>1
    <3>4. x[k] = s[k + 1] /\ y[0] = t[1] /\ x[k] \in Cell /\ y[0] \in Cell
      BY <1>1, <1>8, <3>2, ByteAt
    <3>5. u[k + 1] = UpperCase[s[k + 1]] /\ p[1] = UpperCase[t[1]]
      BY <1>1, <1>6, <1>8, <3>2
    <3>6. SignedUpper(x[k]) = SignedUpper(y[0])
      BY <3>3, <3>4, <3>5, SameUpper
    <3> QED BY <3>2, <3>6
  <2> HIDE DEF u, p
  <2>3. hits = all
    BY <1>1, <1>2, <2>1, <2>2
  <2>4. strcasestr(x, y).ret = FirstOf(hits)
    BY <1>3, <1>8 DEF strcasestr, Answer, Gives
  <2>5. all = {k \in 0 .. Len(u) : Occurs(p, u, k)}
    BY <1>5
  <2> HIDE DEF hits, all
  <2>6. FoundAt(FirstOf(all), p, u)
    BY <1>4, <2>5, FirstIs
  <2> QED BY <2>3, <2>4, <2>6 DEF u, p
<1> QED BY <1>1, <1>7, <1>8

\* The bytes of a text, and how far it goes with them, or without.
LEMMA WithinIs ==
    ASSUME NEW y, NEW t, NEW o, IsText(y, t, o)
    PROVE  Within(y) = RangeOf(t)
<1>1. t \in Seq(Byte) /\ Len(t) \in Nat /\ strlen(y) = Len(t) /\ DOMAIN t = 1 .. Len(t)
  BY LengthIs DEF IsText
<1>2. \A i \in 0 .. Len(t) - 1 : y[i] = t[i + 1]
  BY <1>1 DEF IsText
<1>3. \A i \in 0 .. Len(t) - 1 : y[i] \in RangeOf(t)
  <2> TAKE i \in 0 .. Len(t) - 1
  <2>1. i + 1 \in DOMAIN t /\ y[i] = t[i + 1]
    BY <1>1, <1>2
  <2> QED BY <2>1 DEF RangeOf
<1>4. \A i \in 1 .. Len(t) : t[i] \in Within(y)
  <2> TAKE i \in 1 .. Len(t)
  <2>1. i - 1 \in 0 .. strlen(y) - 1 /\ y[i - 1] = t[i]
    <3>1. i - 1 \in 0 .. Len(t) - 1 /\ i - 1 + 1 = i
      BY <1>1
    <3> QED BY <1>1, <1>2, <3>1
  <2> QED BY <2>1 DEF Within
<1> QED BY <1>1, <1>3, <1>4 DEF Within, RangeOf

\* The first byte that is not in W, or the end.
LEMMA SpanIs ==
    ASSUME NEW x, NEW s, NEW m, IsText(x, s, m), NEW W, NEW stops,
           stops = {i \in 0 .. strlen(x) : i = strlen(x) \/ x[i] \notin W}
    PROVE  Min(stops) = Span(s, W)
<1> DEFINE l == Len(s)
           ends == {l} \cup {i - 1 : i \in {j \in DOMAIN s : s[j] \notin W}}
<1>1. s \in Seq(Byte) /\ l \in Nat /\ DOMAIN s = 1 .. l /\ strlen(x) = l /\ l < m /\ m \in Nat
  BY LengthIs DEF IsText
<1>2. \A i \in 0 .. l - 1 : x[i] = s[i + 1]
  <2> TAKE i \in 0 .. l - 1
  <2>1. i \in Nat /\ i < l
    BY <1>1
  <2> QED BY <2>1, ByteAt
<1>3. \A i \in stops : i \in ends
  <2> TAKE i \in stops
  <2>1. i \in 0 .. l /\ (i = l \/ x[i] \notin W)
    BY <1>1
  <2>2. CASE i = l
    BY <2>2
  <2>3. CASE i # l
    <3> HIDE DEF l
    <3>0. i \in 0 .. l - 1 /\ x[i] \notin W
      BY <1>1, <2>1, <2>3
    <3>1. i + 1 \in DOMAIN s /\ i + 1 - 1 = i
      BY <1>1, <3>0
    <3>2. i + 1 \in {j \in DOMAIN s : s[j] \notin W}
      BY <1>2, <3>0, <3>1
    <3> QED BY <3>1, <3>2
  <2> QED BY <2>2, <2>3
<1>4. \A i \in DOMAIN s : s[i] \notin W => i - 1 \in stops
  <2> TAKE i \in DOMAIN s
  <2>1. i - 1 \in 0 .. l - 1 /\ i - 1 \in 0 .. l /\ i - 1 + 1 = i
    BY <1>1
  <2> QED BY <1>1, <1>2, <2>1
<1>5. l \in stops
  BY <1>1
<1>6. stops = ends
  BY <1>3, <1>4, <1>5
<1> QED BY <1>6 DEF Span

\* The spans are those of the texts.
SpansTell(x, s, y, t) ==
    /\ strspn(x, y).ret = Span(s, RangeOf(t))
    /\ strcspn(x, y).ret = Span(s, 1 .. 255 \ RangeOf(t))
    /\ strpbrk(x, y).ret = IF strcspn(x, y).ret = Len(s) THEN Nowhere ELSE strcspn(x, y).ret

\* strspn, strcspn and strpbrk.
LEMMA SpansAre ==
    ASSUME NEW x, NEW s, NEW m, IsText(x, s, m), NEW y, NEW t, NEW o, IsText(y, t, o)
    PROVE  SpansTell(x, s, y, t)
<1> DEFINE l == Len(s)
           W == RangeOf(t)
           stops == {i \in 0 .. strlen(x) : i = strlen(x) \/ x[i] \in W}
           hits == {i \in 0 .. strlen(x) - 1 : x[i] \in W}
<1>1. Within(y) = W
  BY WithinIs
<1>2. strlen(x) = l /\ l \in Nat
  BY LengthIs
<1>3. strspn(x, y).ret = Span(s, W)
  <2> DEFINE ends == {i \in 0 .. strlen(x) : i = strlen(x) \/ x[i] \notin W}
  <2>1. strspn(x, y).ret = Min(ends)
    BY <1>1 DEF strspn, Answer, Gives
  <2>2. Min(ends) = Span(s, W)
    <3> HIDE DEF W
    <3> QED BY SpanIs
  <2> QED BY <2>1, <2>2
<1>4. strcspn(x, y).ret = Min(stops)
  BY <1>1 DEF strcspn, Answer, Gives
<1>5. Min(stops) = Span(s, 1 .. 255 \ W)
  <2> DEFINE others == 1 .. 255 \ W
             ends == {i \in 0 .. strlen(x) : i = strlen(x) \/ x[i] \notin others}
  <2>1. \A i \in 0 .. l - 1 : x[i] \in 1 .. 255
    <3> TAKE i \in 0 .. l - 1
    <3>1. i \in Nat /\ i < l
      BY <1>2
    <3>2. x[i] \in Byte
      BY <3>1, ByteAt
    <3> QED BY <3>2 DEF Byte
  <2> HIDE DEF W
  <2>2. stops = ends
    <3>1. \A i \in 0 .. l : i = l \/ x[i] \in W <=> i = l \/ x[i] \notin others
      <4> TAKE i \in 0 .. l
      <4>1. i # l => i \in 0 .. l - 1
        BY <1>2
      <4> QED BY <2>1, <4>1
    <3> HIDE DEF others
    <3> QED BY <1>2, <3>1
  <2> HIDE DEF stops, others
  <2>3. Min(ends) = Span(s, others)
    BY SpanIs
  <2> QED BY <2>2, <2>3 DEF others
<1>6. strpbrk(x, y).ret = IF hits = {} THEN Nowhere ELSE Min(hits)
  BY <1>1 DEF strpbrk, Answer, Gives, FirstOf
<1> HIDE DEF W
<1>7. stops = hits \cup {l} /\ hits \in SUBSET Nat /\ \A i \in hits : i < l
  BY <1>2
<1> HIDE DEF stops, hits
<1>8. CASE hits = {}
  <2>1. l \in stops /\ stops \in SUBSET Int /\ \A i \in stops : l <= i
    BY <1>2, <1>7, <1>8
  <2>2. Min(stops) = l
    BY <2>1, MinIs
  <2> HIDE DEF l
  <2> QED BY <1>3, <1>4, <1>5, <1>6, <1>8, <2>2 DEF W, l, SpansTell
<1>9. CASE hits # {}
  <2> DEFINE k == Min(hits)
  <2>1. k \in hits /\ \A i \in hits : k <= i
    BY <1>7, <1>9, MinExists
  <2> HIDE DEF k
  <2>2. k \in stops /\ stops \in SUBSET Int /\ (\A i \in stops : k <= i) /\ k # l
    <3>1. k \in Nat /\ k < l
      BY <1>7, <2>1
    <3>2. \A i \in stops : k <= i
      BY <1>2, <1>7, <2>1, <3>1
    <3>3. stops \in SUBSET Int
      <4>1. \A i \in stops : i \in hits \/ i = l
        BY <1>7
      <4>2. \A i \in stops : i \in Int
        BY <1>2, <1>7, <4>1
      <4> QED BY <4>2
    <3> QED BY <1>2, <1>7, <2>1, <3>1, <3>2, <3>3
  <2>3. Min(stops) = k
    BY <2>2, MinIs
  <2> QED BY <1>3, <1>4, <1>5, <1>6, <1>9, <2>2, <2>3 DEF W, k, SpansTell
<1> QED BY <1>8, <1>9

(***************************************************************************)
(* Copies with a bound.                                                     *)
(***************************************************************************)

\* strncat puts no more than n bytes behind the text, and a NUL.
LEMMA StrncatIs ==
    ASSUME NEW n \in Nat, NEW x, NEW s, NEW m, IsText(x, s, m), NEW y, NEW t, NEW o, IsText(y, t, o),
           Len(s) + Len(t) < m
    PROVE  Holds(strncat(x, y, n), Ended(s \o Take(t, n)), x) /\ strncat(x, y, n).seen <= n
<1> DEFINE l == Len(s)
           k == Scan(y, NUL, n)
           copied == IF Before(y, NUL, n) = {} THEN n ELSE k - 1
           v == Take(t, n)
           u == s \o v
           r == strncat(x, y, n)
<1>1. s \in Seq(Byte) /\ t \in Seq(Byte) /\ l \in Nat /\ Len(t) \in Nat /\ m \in Nat
  BY DEF IsText
<1>2. k = (IF n > Len(t) THEN Len(t) + 1 ELSE n) /\ (Before(y, NUL, n) = {} <=> n <= Len(t))
  BY <1>1, ScanIs
<1>3. v \in Seq(Byte) /\ Len(v) = (IF n < Len(t) THEN n ELSE Len(t)) /\ \A i \in 1 .. Len(v) : v[i] = t[i]
  BY <1>1, TakeIs
<1>4. copied = Len(v) /\ copied \in Nat /\ copied <= Len(t) /\ k <= n
  <2> HIDE DEF v, k
  <2> QED BY <1>1, <1>2, <1>3
<1>5. strlen(x) = l
  BY LengthIs
<1>6. r.mem = Fill(Copy(x, l, y, copied), l + copied, 1, NUL) /\ r.seen = k
  BY <1>5 DEF strncat, Gives
<1> HIDE DEF v, copied, k, r
<1>7. u \in Seq(Byte) /\ Len(u) = l + copied
      /\ \A i \in 1 .. l + copied : u[i] = IF i <= l THEN s[i] ELSE t[i - l]
  <2>1. u \in Seq(Byte) /\ Len(u) = l + Len(v)
        /\ \A i \in 1 .. l + Len(v) : u[i] = IF i <= l THEN s[i] ELSE v[i - l]
    <3>1. s \in Seq(Byte) /\ v \in Seq(Byte)
      BY <1>1, <1>3
    <3> HIDE DEF Byte
    <3> QED BY ONLY <3>1
  <2> HIDE DEF u, l
  <2>2. \A i \in 1 .. l + copied : u[i] = IF i <= l THEN s[i] ELSE t[i - l]
    <3> TAKE i \in 1 .. l + copied
    <3>1. u[i] = IF i <= l THEN s[i] ELSE v[i - l]
      BY <1>4, <2>1
    <3>2. CASE i > l
      <4>1. i - l \in 1 .. Len(v)
        BY <1>1, <1>4, <3>2
      <4>2. v[i - l] = t[i - l]
        BY <1>3, <4>1
      <4> QED BY <1>1, <3>1, <3>2, <4>2
    <3> QED BY <1>1, <3>1, <3>2
  <2> QED BY <1>4, <2>1, <2>2
<1>8. l <= Len(s) /\ l + copied < m
  BY <1>1, <1>4
<1> HIDE DEF l, u
<1>9. Holds(r, Ended(u), x)
  <2>1. Behind(u, s, l, t, copied)
    BY <1>7 DEF Behind
  <2> QED BY <1>1, <1>4, <1>6, <1>8, <2>1, CopiedEnded
<1> QED BY <1>4, <1>6, <1>9 DEF u, v, r

\* Nothing is written.
LEMMA HoldsNothing ==
    ASSUME NEW x, NEW s, NEW m, IsText(x, s, m), NEW r, r.mem = x
    PROVE  Holds(r, <<>>, x)
<1>1. m \in Nat /\ DOMAIN x = 0 .. m - 1
  BY DEF IsText
<1> QED BY <1>1 DEF Holds

\* strlcpy copies what fits n bytes with its NUL, and tells the length of all.
LEMMA StrlcpyIs ==
    ASSUME NEW n \in Nat, NEW x, NEW s, NEW m, IsText(x, s, m), NEW y, NEW t, NEW o, IsText(y, t, o),
           Len(t) < m
    PROVE  /\ Holds(strlcpy(x, y, n), IF n = 0 THEN <<>> ELSE Ended(Take(t, n - 1)), x)
           /\ strlcpy(x, y, n).ret = Len(t)
<1> DEFINE c == IF n = 0 THEN 0 ELSE n - 1
           k == Scan(y, NUL, c)
           v == Take(t, c)
           r == strlcpy(x, y, n)
           l == Len(t)
<1>1. t \in Seq(Byte) /\ l \in Nat /\ m \in Nat /\ c \in Nat /\ DOMAIN x = 0 .. m - 1
  BY DEF IsText
<1>2. k = (IF c > l THEN l + 1 ELSE c) /\ (Before(y, NUL, c) = {} <=> c <= l)
  <2> HIDE DEF c
  <2> QED BY <1>1, ScanIs
<1>3. v \in Seq(Byte) /\ Len(v) = (IF c < l THEN c ELSE l) /\ \A i \in 1 .. Len(v) : v[i] = t[i]
  <2> HIDE DEF c
  <2> QED BY <1>1, TakeIs
<1>4. r = IF Before(y, NUL, c) # {} THEN Gives(k - 1, Copy(x, 0, y, k), 0)
          ELSE Gives(strlen(y), Fill(Copy(x, 0, y, k), k, IF n = 0 THEN 0 ELSE 1, NUL), 0)
  BY DEF strlcpy
<1>5. strlen(y) = l
  BY LengthIs
<1>6. r.ret = l
  <2> HIDE DEF c, k, r
  <2> QED BY <1>1, <1>2, <1>4, <1>5 DEF Gives
<1>7. CASE c > l
  <2>1. r.mem = Copy(x, 0, y, l + 1)
    BY <1>1, <1>2, <1>4, <1>7 DEF Gives
  <2>2. v = t
    <3> HIDE DEF v, c
    <3> QED BY <1>1, <1>3, <1>7, SameSequence
  <2> HIDE DEF r
  <2>3. Holds(r, Ended(t), x)
    BY <1>1, <2>1, CopiedFront
  <2>4. n # 0
    BY <1>1, <1>7
  <2> QED BY <1>6, <2>2, <2>3, <2>4 DEF r
<1>8. CASE c <= l /\ n # 0
  <2>1. r.mem = Fill(Copy(x, 0, y, c), c, 1, NUL)
    BY <1>1, <1>2, <1>4, <1>8 DEF Gives
  <2> HIDE DEF r, c, k, v
  <2>2. Len(v) = 0 + c /\ \A i \in 1 .. 0 + c : v[i] = IF i <= 0 THEN s[i] ELSE t[i - 0]
    BY <1>1, <1>3, <1>8
  <2>3. 0 \in Nat /\ 0 <= Len(s) /\ 0 + c < m /\ 0 + c = c
    BY <1>1, <1>8 DEF IsText
  <2>4. r.mem = Fill(Copy(x, 0, y, c), 0 + c, 1, NUL)
    BY <2>1, <2>3
  <2>5. Holds(r, Ended(v), x)
    <3>1. Behind(v, s, 0, t, c)
      BY <1>3, <2>2 DEF Behind
    <3> QED BY <1>1, <1>8, <2>3, <2>4, <3>1, CopiedEnded
  <2> QED BY <1>6, <1>8, <2>5 DEF v, c, r
<1>9. CASE n = 0
  <2>1. r.mem = Fill(Copy(x, 0, y, 0), 0, 0, NUL)
    BY <1>1, <1>2, <1>4, <1>9 DEF Gives
  <2>2. Copied(Copy(x, 0, y, 0), x, m, 0, y, 0)
    BY <1>1, CopyIs
  <2> DEFINE z == Copy(x, 0, y, 0)
  <2> HIDE DEF z
  <2>3. DOMAIN z = 0 .. m - 1 /\ \A i \in 0 .. m - 1 : z[i] = x[i]
    BY <2>2 DEF Copied, z
  <2>4. Filled(Fill(z, 0, 0, NUL), z, m, 0, 0, NUL)
    BY <1>1, <2>3, FillIs
  <2>5. DOMAIN r.mem = 0 .. m - 1 /\ \A i \in 0 .. m - 1 : r.mem[i] = x[i]
    BY <2>1, <2>3, <2>4 DEF Filled, z
  <2> HIDE DEF r
  <2>6. Holds(r, <<>>, x)
    BY <1>1, <2>5 DEF Holds
  <2> QED BY <1>6, <1>9, <2>6 DEF r
<1> QED BY <1>1, <1>7, <1>8, <1>9

\* strlcat appends what fits n bytes with its NUL, and tells the length of all.
LEMMA StrlcatIs ==
    ASSUME NEW n \in Nat, NEW x, NEW s, NEW m, IsText(x, s, m), NEW y, NEW t, NEW o, IsText(y, t, o),
           Len(s) + Len(t) < m
    PROVE  /\ Holds(strlcat(x, y, n), IF n <= Len(s) THEN <<>> ELSE Ended(Take(s \o t, n - 1)), x)
           /\ strlcat(x, y, n).ret = Len(t) + Min({n, Len(s)})
<1> DEFINE l == Len(s)
           j == Len(t)
           dlen == IF Before(x, NUL, n) = {} THEN n ELSE strlen(x)
           copied == Min({strlen(y), n - dlen - 1})
           r == strlcat(x, y, n)
           v == s \o t
           u == Take(v, n - 1)
<1>1. s \in Seq(Byte) /\ t \in Seq(Byte) /\ l \in Nat /\ j \in Nat /\ m \in Nat
  BY DEF IsText
<1>2. strlen(x) = l /\ strlen(y) = j
  BY LengthIs
<1>3. dlen = IF n <= l THEN n ELSE l
  <2>1. Before(x, NUL, n) = {} <=> n <= l
    BY <1>1, ScanIs
  <2> QED BY <1>2, <2>1
<1>4. Min({n, l}) = dlen
  <2>1. Min({n, l}) = IF n < l THEN n ELSE l
    BY <1>1, LesserOf
  <2> HIDE DEF dlen, l
  <2> QED BY <1>1, <1>3, <2>1
<1>5. r = IF n = dlen THEN Gives(dlen + strlen(y), x, 0)
          ELSE Gives(dlen + strlen(y), Fill(Copy(x, dlen, y, copied), dlen + copied, 1, NUL), 0)
  BY DEF strlcat
<1>6. r.ret = j + Min({n, l})
  <2>1. r.ret = dlen + j
    BY <1>2, <1>5 DEF Gives
  <2>2. dlen \in Nat
    BY <1>1, <1>3
  <2> HIDE DEF dlen, r
  <2> QED BY <1>1, <1>4, <2>1, <2>2
<1>7. CASE n <= l
  <2>1. r.mem = x
    BY <1>3, <1>5, <1>7 DEF Gives
  <2> HIDE DEF r
  <2>2. Holds(r, <<>>, x)
    BY <2>1, HoldsNothing
  <2> QED BY <1>6, <1>7, <2>2 DEF r, l, j
<1>8. CASE n > l
  <2> DEFINE c == n - l - 1
             k == IF j < c THEN j ELSE c
  <2>1. dlen = l /\ n # dlen /\ c \in Nat
    BY <1>1, <1>3, <1>8
  <2>2. copied = k
    <3> HIDE DEF dlen
    <3>1. copied = Min({j, c})
      BY <1>2, <2>1
    <3> HIDE DEF c, j
    <3> QED BY <1>1, <2>1, <3>1, LesserOf
  <2>3. r.mem = Fill(Copy(x, l, y, k), l + k, 1, NUL)
    <3> HIDE DEF dlen, copied, k
    <3> QED BY <1>5, <2>1, <2>2 DEF Gives
  <2>4. k \in Nat /\ k <= j /\ l + k < m /\ n - 1 \in Nat
        /\ l + k = IF n - 1 < l + j THEN n - 1 ELSE l + j
    BY <1>1, <1>8, <2>1
  <2>5. v \in Seq(Byte) /\ Len(v) = l + j
        /\ \A i \in 1 .. l + j : v[i] = IF i <= l THEN s[i] ELSE t[i - l]
    BY <1>1
  <2> HIDE DEF k, v, r, c
  <2>6. u \in Seq(Byte) /\ Len(u) = (IF n - 1 < l + j THEN n - 1 ELSE l + j)
        /\ \A i \in 1 .. Len(u) : u[i] = v[i]
    <3> DEFINE e == n - 1
    <3>1. e \in Nat
      BY <2>4
    <3> HIDE DEF e
    <3>2. Take(v, e) \in Seq(Byte) /\ Len(Take(v, e)) = (IF e < Len(v) THEN e ELSE Len(v))
          /\ \A i \in 1 .. Len(Take(v, e)) : Take(v, e)[i] = v[i]
      BY <2>5, <3>1, TakeIs
    <3> QED BY <2>5, <3>2 DEF e
  <2> HIDE DEF u
  <2>7. Len(u) = l + k /\ \A i \in 1 .. l + k : u[i] = IF i <= l THEN s[i] ELSE t[i - l]
    <3>1. Len(u) = l + k /\ l + k <= l + j
      BY <1>1, <2>4, <2>6
    <3>2. \A i \in 1 .. l + k : i \in 1 .. l + j
      BY <1>1, <2>4, <3>1
    <3> QED BY <2>5, <2>6, <3>1, <3>2
  <2>8. l <= Len(s) /\ k <= Len(t)
    BY <1>1, <2>4
  <2>9. Holds(r, Ended(u), x)
    <3> HIDE DEF l, j
    <3>1. Behind(u, s, l, t, k)
      BY <2>6, <2>7 DEF Behind
    <3> QED BY <1>1, <2>3, <2>4, <2>8, <3>1, CopiedEnded
  <2> QED BY <1>1, <1>6, <1>8, <2>9 DEF r, u, v, l, j
<1> QED BY <1>1, <1>7, <1>8

\* Bytes of one area at the start of another.
LEMMA CopiedBytes ==
    ASSUME NEW x, NEW m \in Nat, DOMAIN x = 0 .. m - 1, NEW y, NEW n \in Nat, n <= m,
           NEW v, v = [i \in 1 .. n |-> y[i - 1]], NEW r, r.mem = Copy(x, 0, y, n)
    PROVE  Holds(r, v, x)
<1> DEFINE z == Copy(x, 0, y, n)
<1>1. Copied(z, x, m, 0, y, n)
  BY CopyIs
<1>2. Len(v) = n /\ \A i \in 1 .. n : v[i] = y[i - 1]
  OBVIOUS
<1> HIDE DEF z
<1>3. \A i \in 0 .. m - 1 : z[i] = IF i < Len(v) THEN v[i + 1] ELSE x[i]
  <2> TAKE i \in 0 .. m - 1
  <2>1. z[i] = IF 0 <= i /\ i < 0 + n THEN y[i - 0] ELSE x[i]
    BY <1>1 DEF Copied
  <2>2. i < n => i + 1 \in 1 .. n /\ i + 1 - 1 = i /\ i - 0 = i
    OBVIOUS
  <2> QED BY <1>2, <2>1, <2>2
<1> QED BY <1>1, <1>3 DEF Holds, Copied, z

(***************************************************************************)
(* One text.                                                                *)
(***************************************************************************)

\* Where a byte is among the first n.
LEMMA WantedIs ==
    ASSUME NEW x, NEW m \in Nat, DOMAIN x = 0 .. m - 1, NEW c, NEW n \in Nat, n <= m,
           NEW b, DOMAIN b = 1 .. n, \A i \in 1 .. n : b[i] = x[i - 1]
    PROVE  Before(x, c, n) = {i - 1 : i \in {j \in DOMAIN b : b[j] = c}}
<1> DEFINE hits == Before(x, c, n)
           wanted == {i - 1 : i \in {j \in DOMAIN b : b[j] = c}}
<1>1. \A i \in hits : i \in wanted
  <2> TAKE i \in hits
  <2>1. i \in 0 .. n - 1 /\ x[i] = c
    BY DEF Before
  <2>2. i + 1 \in 1 .. n /\ i + 1 - 1 = i
    BY <2>1
  <2>3. b[i + 1] = c
    BY <2>1, <2>2
  <2> DEFINE places == {j \in DOMAIN b : b[j] = c}
  <2>4. i + 1 \in places
    BY <2>2, <2>3
  <2> HIDE DEF places
  <2>5. \E k \in places : i = k - 1
    <3>1. i = (i + 1) - 1
      BY <2>1
    <3> WITNESS i + 1 \in places
    <3> QED BY <3>1
  <2>6. i \in {k - 1 : k \in places}
    BY ONLY <2>5
  <2> QED BY <2>6 DEF places
<1>2. \A i \in wanted : i \in hits
  <2> TAKE i \in wanted
  <2>1. PICK j \in 1 .. n : b[j] = c /\ i = j - 1
    OBVIOUS
  <2>2. x[i] = c /\ i \in 0 .. m - 1 /\ i < n
    BY <2>1
  <2> QED BY <2>2 DEF Before
<1> QED BY <1>1, <1>2

\* A loop that stops behind the first c looks at no more than n bytes.
LEMMA ScanInside ==
    ASSUME NEW x, NEW m \in Nat, DOMAIN x = 0 .. m - 1, NEW c, NEW n \in Nat
    PROVE  /\ Scan(x, c, n) \in Nat /\ Scan(x, c, n) <= n
           /\ FirstOf(Before(x, c, n)) = Nowhere <=> Before(x, c, n) = {}
           /\ Before(x, c, n) = {} => Scan(x, c, n) = n
           /\ Before(x, c, n) # {} => Scan(x, c, n) = FirstOf(Before(x, c, n)) + 1
<1> DEFINE hits == Before(x, c, n)
<1>1. hits \in SUBSET Nat /\ \A i \in hits : i < n
  BY DEF Before
<1> HIDE DEF hits
<1>2. CASE hits = {}
  BY <1>2 DEF Scan, FirstOf, hits
<1>3. CASE hits # {}
  <2>1. Min(hits) \in hits
    BY <1>1, <1>3, MinExists
  <2>2. Min(hits) \in Nat /\ Min(hits) < n
    BY <1>1, <2>1
  <2>3. Scan(x, c, n) = Min(hits) + 1 /\ FirstOf(hits) = Min(hits)
    BY <1>3 DEF Scan, FirstOf, hits
  <2> QED BY <1>3, <2>2, <2>3 DEF hits, Nowhere
<1> QED BY <1>2, <1>3

\* strnlen.
LEMMA StrnlenIs ==
    ASSUME NEW n \in Nat, NEW x, NEW s, NEW m, IsText(x, s, m)
    PROVE  strnlen(x, n).ret = Min({n, Len(s)}) /\ strnlen(x, n).seen <= n
<1> DEFINE l == Len(s)
           r == strnlen(x, n)
<1>1. l \in Nat /\ m \in Nat /\ DOMAIN x = 0 .. m - 1
  BY DEF IsText
<1>2. Before(x, NUL, n) = IF n > l THEN {l} ELSE {}
  BY ScanIs
<1>3. r.ret = (IF FirstOf(Before(x, NUL, n)) = Nowhere THEN n ELSE FirstOf(Before(x, NUL, n)))
      /\ r.seen = Scan(x, NUL, n)
  BY DEF strnlen, memchr, Gives
<1> HIDE DEF r, l
<1>4. Min({l}) = l
  <2>1. {l} \in SUBSET Int /\ l \in {l} /\ \A i \in {l} : l <= i
    BY <1>1
  <2> QED BY <2>1, MinIs
<1>5. r.ret = IF n > l THEN l ELSE n
  BY <1>1, <1>2, <1>3, <1>4 DEF FirstOf, Nowhere
<1>6. Min({n, l}) = IF n < l THEN n ELSE l
  BY <1>1, LesserOf
<1>7. r.ret = Min({n, l})
  BY <1>1, <1>5, <1>6
<1>8. r.seen <= n
  BY <1>1, <1>3, ScanInside
<1> QED BY <1>7, <1>8 DEF r, l

\* strlwr and strupr: another byte for each of the text's.
LEMMA MapIs ==
    ASSUME NEW x, NEW s, NEW m, IsText(x, s, m), NEW case, NEW r, r.mem = Map(x, case),
           NEW b, DOMAIN b = DOMAIN s, b = [i \in DOMAIN s |-> b[i]], \A i \in DOMAIN s : b[i] = case[s[i]]
    PROVE  Holds(r, b, x)
<1> DEFINE l == Len(s)
<1>1. l \in Nat /\ m \in Nat /\ DOMAIN x = 0 .. m - 1 /\ DOMAIN s = 1 .. l /\ strlen(x) = l
  BY LengthIs DEF IsText
<1>2. Len(b) = l
  BY <1>1
<1>3. DOMAIN r.mem = 0 .. m - 1 /\ \A i \in 0 .. m - 1 : r.mem[i] = IF i < l THEN case[x[i]] ELSE x[i]
  <2> HIDE DEF l
  <2> QED BY <1>1 DEF Map
<1>4. \A i \in 0 .. l - 1 : x[i] = s[i + 1]
  <2> TAKE i \in 0 .. l - 1
  <2>1. i \in Nat /\ i < l
    BY <1>1
  <2> QED BY <2>1, ByteAt
<1> HIDE DEF l
<1>5. \A i \in 0 .. m - 1 : r.mem[i] = IF i < Len(b) THEN b[i + 1] ELSE x[i]
  <2> TAKE i \in 0 .. m - 1
  <2>1. CASE i < l
    <3>1. i + 1 \in DOMAIN s /\ i \in 0 .. l - 1
      BY <1>1, <2>1
    <3>2. b[i + 1] = case[s[i + 1]] /\ x[i] = s[i + 1]
      BY <1>4, <3>1
    <3> QED BY <1>2, <1>3, <2>1, <3>2
  <2>2. CASE ~(i < l)
    BY <1>2, <1>3, <2>2
  <2> QED BY <2>1, <2>2
<1> QED BY <1>1, <1>3, <1>5 DEF Holds

\* strrev: each swap puts two bytes in their places, and none is swapped twice.
LEMMA StrrevIs ==
    ASSUME NEW x, NEW s, NEW m, IsText(x, s, m)
    PROVE  Holds(strrev(x), [i \in DOMAIN s |-> s[Len(s) + 1 - i]], x)
<1> DEFINE l == Len(s)
           b == [i \in DOMAIN s |-> s[l + 1 - i]]
           swapped == {p \in 0 .. l - 1 : l - 1 - p > p}
           r == strrev(x)
<1>1. l \in Nat /\ m \in Nat /\ l < m /\ DOMAIN x = 0 .. m - 1 /\ DOMAIN s = 1 .. l /\ strlen(x) = l
  BY LengthIs DEF IsText
<1>2. Len(b) = l /\ \A i \in 1 .. l : b[i] = s[l + 1 - i]
  BY <1>1
<1>3. DOMAIN r.mem = 0 .. m - 1
      /\ \A i \in 0 .. m - 1 : r.mem[i] = IF i \in swapped \/ (l - 1 - i) \in swapped THEN x[l - 1 - i] ELSE x[i]
  <2> HIDE DEF l
  <2> QED BY <1>1 DEF strrev, Gives
<1>4. \A i \in 0 .. l - 1 : x[i] = s[i + 1]
  <2> TAKE i \in 0 .. l - 1
  <2>1. i \in Nat /\ i < l
    BY <1>1
  <2> QED BY <2>1, ByteAt
<1>5. \A i \in 0 .. m - 1 :
         /\ i \in swapped <=> (i < l /\ l - 1 - i > i)
         /\ (l - 1 - i) \in swapped <=> (i < l /\ i > l - 1 - i)
  <2> HIDE DEF l
  <2> QED BY <1>1
<1> HIDE DEF l, b, r, swapped
<1>6. \A i \in 0 .. m - 1 : r.mem[i] = IF i < Len(b) THEN b[i + 1] ELSE x[i]
  <2> TAKE i \in 0 .. m - 1
  <2>1. CASE i < l
    <3>1. l - 1 - i \in 0 .. l - 1 /\ i + 1 \in 1 .. l /\ l - 1 - i + 1 = l + 1 - (i + 1) /\ i \in 0 .. l - 1
      BY <1>1, <2>1
    <3>2. b[i + 1] = x[l - 1 - i]
      BY <1>2, <1>4, <3>1
    <3>3. CASE i = l - 1 - i
      BY <1>1, <1>2, <1>3, <1>5, <2>1, <3>2, <3>3
    <3>4. CASE i # l - 1 - i
      <4>1. l - 1 - i > i \/ i > l - 1 - i
        BY <1>1, <3>4
      <4>2. i \in swapped \/ (l - 1 - i) \in swapped
        BY <1>5, <2>1, <4>1
      <4> QED BY <1>2, <1>3, <2>1, <3>2, <4>2
    <3> QED BY <3>3, <3>4
  <2>2. CASE ~(i < l)
    BY <1>2, <1>3, <1>5, <2>2
  <2> QED BY <2>1, <2>2
<1> QED BY <1>1, <1>3, <1>6 DEF Holds, b, r, l

\* strndup: room for the first n bytes and a NUL, and both are in it.
LEMMA StrndupIs ==
    ASSUME StringsAssumption, NEW n \in Nat, NEW y, NEW t, NEW o, IsText(y, t, o)
    PROVE  Holds(strndup(y, n), Ended(Take(t, n)), Area(<<>>, Min({Len(t), n}) + 1))
<1> DEFINE l == Len(t)
           k == Min({l, n})
           m == k + 1
           x == Area(<<>>, m)
           f == Fill(x, k, 1, NUL)
           z == Copy(f, 0, y, k)
           v == Take(t, n)
           b == Ended(v)
           r == strndup(y, n)
<1>1. t \in Seq(Byte) /\ l \in Nat
  BY DEF IsText
<1>2. k = IF l < n THEN l ELSE n
  <2> HIDE DEF l
  <2> QED BY <1>1, LesserOf
<1>3. k \in Nat /\ k <= l /\ m \in Nat
  <2> HIDE DEF k
  <2> QED BY <1>1, <1>2
<1>4. DOMAIN x = 0 .. m - 1
  BY DEF Area
<1>5. v \in Seq(Byte) /\ Len(v) = k /\ \A i \in 1 .. k : v[i] = t[i]
  <2>1. v \in Seq(Byte) /\ Len(v) = (IF n < Len(t) THEN n ELSE Len(t)) /\ \A i \in 1 .. Len(v) : v[i] = t[i]
    BY <1>1, TakeIs
  <2> HIDE DEF k, v
  <2> QED BY <1>1, <1>2, <2>1
<1>6. Len(b) = k + 1 /\ b[k + 1] = NUL /\ \A i \in 1 .. k : b[i] = t[i]
  <2> HIDE DEF k, v
  <2> QED BY <1>5, EndedIs
<1>7. r.mem = z
  <2>1. strlen(y) = l
    BY LengthIs
  <2> QED BY <2>1 DEF strndup, NewArea, Gives
<1> HIDE DEF k, v, x, b, r
<1>8. Filled(f, x, m, k, 1, NUL)
  BY <1>3, <1>4, FillIs
<1> HIDE DEF f
<1>9. Copied(z, f, m, 0, y, k)
  <2>1. DOMAIN f = 0 .. m - 1
    BY <1>8 DEF Filled
  <2>2. 0 + k <= m /\ 0 \in Nat
    BY <1>3
  <2> HIDE DEF m
  <2> QED BY <1>3, <2>1, <2>2, CopyIs
<1>10. \A i \in 0 .. k - 1 : y[i] = t[i + 1]
  <2> TAKE i \in 0 .. k - 1
  <2>1. i \in Nat /\ i < Len(t)
    BY <1>1, <1>3
  <2> QED BY <2>1, ByteAt
<1> HIDE DEF z
<1>11. \A i \in 0 .. m - 1 : z[i] = b[i + 1] /\ i < Len(b)
  <2> TAKE i \in 0 .. m - 1
  <2>1. z[i] = IF 0 <= i /\ i < 0 + k THEN y[i - 0] ELSE f[i]
    BY <1>9 DEF Copied
  <2>2. f[i] = IF k <= i /\ i < k + 1 THEN NUL ELSE x[i]
    BY <1>8 DEF Filled
  <2>3. CASE i < k
    <3>1. i + 1 \in 1 .. k /\ i \in 0 .. k - 1 /\ i - 0 = i
      BY <1>3, <2>3
    <3> QED BY <1>3, <1>6, <1>10, <2>1, <2>3, <3>1
  <2>4. CASE ~(i < k)
    <3>1. i = k
      BY <1>3, <2>4
    <3> QED BY <1>3, <1>6, <2>1, <2>2, <3>1
  <2> QED BY <2>3, <2>4
<1>12. DOMAIN z = 0 .. m - 1
  BY <1>9 DEF Copied
<1> QED BY <1>4, <1>7, <1>11, <1>12 DEF Holds, x, b, r, v, k

(***************************************************************************)
(* Paths.                                                                   *)
(***************************************************************************)

\* Behind j there is no slash up to k, or there are only slashes, and j is the first such place.
SlashEnd(s, k, j) ==
    /\ j \in 0 .. k
    /\ j = 0 \/ IsSlash(s[j])
    /\ \A i \in j + 1 .. k : ~IsSlash(s[i])
NameEnd(s, k, j) ==
    /\ j \in 0 .. k
    /\ j = 0 \/ ~IsSlash(s[j])
    /\ \A i \in j + 1 .. k : IsSlash(s[i])

\* There is only one such place.
LEMMA SlashEndSame ==
    ASSUME NEW s, NEW k \in Nat, NEW i, NEW j, SlashEnd(s, k, i), SlashEnd(s, k, j)
    PROVE  i = j
<1> HIDE DEF IsSlash
<1>1. i \in 0 .. k /\ j \in 0 .. k
  BY DEF SlashEnd
<1>2. ASSUME i < j
      PROVE  FALSE
  <2>1. j \in i + 1 .. k /\ j # 0
    BY <1>1, <1>2
  <2> QED BY <2>1 DEF SlashEnd
<1>3. ASSUME j < i
      PROVE  FALSE
  <2>1. i \in j + 1 .. k /\ i # 0
    BY <1>1, <1>3
  <2> QED BY <2>1 DEF SlashEnd
<1> QED BY <1>1, <1>2, <1>3

LEMMA NameEndSame ==
    ASSUME NEW s, NEW k \in Nat, NEW i, NEW j, NameEnd(s, k, i), NameEnd(s, k, j)
    PROVE  i = j
<1> HIDE DEF IsSlash
<1>1. i \in 0 .. k /\ j \in 0 .. k
  BY DEF NameEnd
<1>2. ASSUME i < j
      PROVE  FALSE
  <2>1. j \in i + 1 .. k /\ j # 0
    BY <1>1, <1>2
  <2> QED BY <2>1 DEF NameEnd
<1>3. ASSUME j < i
      PROVE  FALSE
  <2>1. i \in j + 1 .. k /\ i # 0
    BY <1>1, <1>3
  <2> QED BY <2>1 DEF NameEnd
<1> QED BY <1>1, <1>2, <1>3

\* The greatest place of a kind, or 0.
LEMMA GreatestIs ==
    ASSUME NEW k \in Nat, NEW hits \in SUBSET (1 .. k)
    PROVE  LET j == LastOf({0} \cup hits)
           IN  /\ j \in 0 .. k /\ (j = 0 \/ j \in hits)
               /\ \A i \in j + 1 .. k : i \notin hits
<1> DEFINE S == {0} \cup hits
           j == LastOf(S)
<1>1. S \in SUBSET (0 .. k) /\ S # {} /\ 0 \in S
  OBVIOUS
<1> HIDE DEF S
<1>2. j = Max(S)
  BY <1>1 DEF LastOf
<1>3. Max(S) \in S /\ \A i \in S : i <= Max(S)
  BY <1>1, MaxExists
<1> HIDE DEF j
<1>4. j \in S /\ \A i \in S : i <= j
  BY <1>2, <1>3
<1>5. j \in 0 .. k /\ (j = 0 \/ j \in hits)
  BY <1>1, <1>4 DEF S
<1>6. \A i \in j + 1 .. k : i \notin hits
  <2> TAKE i \in j + 1 .. k
  <2>1. i \in Int /\ ~(i <= j)
    BY <1>5
  <2> QED BY <1>4, <2>1 DEF S
<1> QED BY <1>5, <1>6 DEF j, S

\* The loop that looks for the last slash finds it.
LEMMA LastSlashIs ==
    ASSUME NEW x, NEW s, NEW m, IsText(x, s, m), NEW k \in Nat, k <= Len(s)
    PROVE  /\ LastSlash(x, k) + 1 \in Nat
           /\ LastSlash(x, k) \in Int
           /\ LastSlash(x, k) = Nowhere <=> LastSlash(x, k) + 1 = 0
           /\ SlashEnd(s, k, LastSlash(x, k) + 1)
<1> DEFINE S == {i \in 0 .. k - 1 : IsSlash(x[i])}
           j == LastSlash(x, k)
<1>1. Len(s) \in Nat
  BY DEF IsText
<1>2. \A i \in 1 .. k : x[i - 1] = s[i]
  <2> TAKE i \in 1 .. k
  <2>1. i - 1 \in Nat /\ i - 1 < Len(s) /\ i - 1 + 1 = i
    BY <1>1
  <2>2. x[i - 1] = s[i - 1 + 1]
    BY <2>1, ByteAt
  <2> QED BY <2>1, <2>2
<1>3. j = LastOf(S)
  BY DEF LastSlash
<1> HIDE DEF IsSlash
<1>4. CASE S = {}
  <2>1. j = -1
    BY <1>3, <1>4 DEF LastOf, Nowhere
  <2>2. \A i \in 1 .. k : ~IsSlash(s[i])
    <3> TAKE i \in 1 .. k
    <3>1. i - 1 \in 0 .. k - 1 /\ i - 1 \notin S
      BY <1>4
    <3> QED BY <1>2, <3>1
  <2> HIDE DEF j
  <2>3. SlashEnd(s, k, 0)
    BY <2>2 DEF SlashEnd
  <2>4. j + 1 = 0
    BY <2>1
  <2> QED BY <2>1, <2>3, <2>4 DEF Nowhere, j
<1>5. CASE S # {}
  <2>1. j = Max(S)
    BY <1>3, <1>5 DEF LastOf
  <2>2. S \in SUBSET (0 .. k) /\ S \in SUBSET (0 .. k - 1)
    OBVIOUS
  <2>3. Max(S) \in S /\ \A i \in S : i <= Max(S)
    <3> HIDE DEF S
    <3> QED BY <1>5, <2>2, MaxExists
  <2> HIDE DEF j
  <2>4. j \in 0 .. k - 1 /\ IsSlash(x[j]) /\ \A i \in S : i <= j
    BY <2>1, <2>3
  <2>5. j + 1 \in 1 .. k /\ j + 1 - 1 = j
    BY <2>4
  <2>6. IsSlash(s[j + 1])
    BY <1>2, <2>4, <2>5
  <2>7. \A i \in j + 1 + 1 .. k : ~IsSlash(s[i])
    <3> TAKE i \in j + 1 + 1 .. k
    <3>1. i \in 1 .. k /\ i - 1 \in 0 .. k - 1 /\ ~(i - 1 <= j)
      BY <2>4
    <3>2. i - 1 \notin S
      BY <2>4, <3>1
    <3> QED BY <1>2, <3>1, <3>2
  <2>8. SlashEnd(s, k, j + 1)
    BY <2>5, <2>6, <2>7 DEF SlashEnd
  <2>9. j + 1 \in Nat /\ j \in Int /\ (j = Nowhere <=> j + 1 = 0)
    BY <2>4 DEF Nowhere
  <2> QED BY <2>8, <2>9 DEF j
<1> QED BY <1>4, <1>5

\* The loop over the slashes finds the end of the name in front of them.
LEMMA RunStartIs ==
    ASSUME NEW x, NEW s, NEW m, IsText(x, s, m), NEW k \in Nat, k <= Len(s)
    PROVE  RunStart(x, k) \in 0 .. k /\ NameEnd(s, k, RunStart(x, k))
<1> DEFINE S == {r \in 0 .. k : \A i \in r .. k - 1 : IsSlash(x[i])}
           j == RunStart(x, k)
<1>1. Len(s) \in Nat
  BY DEF IsText
<1>2. \A i \in 1 .. k : x[i - 1] = s[i]
  <2> TAKE i \in 1 .. k
  <2>1. i - 1 \in Nat /\ i - 1 < Len(s) /\ i - 1 + 1 = i
    BY <1>1
  <2>2. x[i - 1] = s[i - 1 + 1]
    BY <2>1, ByteAt
  <2> QED BY <2>1, <2>2
<1> HIDE DEF IsSlash
<1>3. S \in SUBSET Nat /\ k \in S
  OBVIOUS
<1>4. j \in S /\ \A r \in S : j <= r
  <2>1. j = Min(S)
    BY DEF RunStart
  <2> HIDE DEF S, j
  <2> QED BY <1>3, <2>1, MinExists
<1> HIDE DEF j
<1>5. j \in 0 .. k /\ \A i \in j .. k - 1 : IsSlash(x[i])
  BY <1>4
<1>6. \A i \in j + 1 .. k : IsSlash(s[i])
  <2> TAKE i \in j + 1 .. k
  <2>1. i \in 1 .. k /\ i - 1 \in j .. k - 1
    BY <1>5
  <2> QED BY <1>2, <1>5, <2>1
<1>7. ASSUME j # 0
      PROVE  ~IsSlash(s[j])
  <2>1. j - 1 \in 0 .. k /\ j \in 1 .. k /\ ~(j <= j - 1)
    BY <1>5, <1>7
  <2>2. j - 1 \notin S
    BY <1>4, <2>1
  <2>3. PICK i \in j - 1 .. k - 1 : ~IsSlash(x[i])
    BY <2>1, <2>2
  <2>4. i = j - 1
    <3>1. i \in Int /\ j \in Int /\ i >= j - 1 /\ i <= k - 1
      BY <1>5, <2>3
    <3>2. i \notin j .. k - 1
      BY <1>5, <2>3
    <3> QED BY <3>1, <3>2
  <2> QED BY <1>2, <2>1, <2>3, <2>4
<1> QED BY <1>5, <1>6, <1>7 DEF NameEnd, j

\* The first k bytes of a text.
LEMMA FrontIs ==
    ASSUME NEW s \in Seq(Byte), NEW k \in Nat, k <= Len(s)
    PROVE  /\ SubSeq(s, 1, k) \in Seq(Byte) /\ Len(SubSeq(s, 1, k)) = k
           /\ \A i \in 1 .. k : SubSeq(s, 1, k)[i] = s[i]
  BY SMTT(60)

\* A part of the first bytes is a part of the text.
LEMMA FrontOfFront ==
    ASSUME NEW s \in Seq(Byte), NEW k \in Nat, k <= Len(s), NEW j \in Nat, j <= k
    PROVE  Take(SubSeq(s, 1, k), j) = SubSeq(s, 1, j)
<1> DEFINE v == SubSeq(s, 1, k)
           u == SubSeq(s, 1, j)
           w == Take(v, j)
<1>1. v \in Seq(Byte) /\ Len(v) = k /\ \A i \in 1 .. k : v[i] = s[i]
  BY FrontIs
<1>2. u \in Seq(Byte) /\ Len(u) = j /\ \A i \in 1 .. j : u[i] = s[i]
  <2>1. j <= Len(s)
    OBVIOUS
  <2> QED BY <2>1, FrontIs
<1> HIDE DEF v, u
<1>3. w \in Seq(Byte) /\ Len(w) = (IF j < Len(v) THEN j ELSE Len(v)) /\ \A i \in 1 .. Len(w) : w[i] = v[i]
  BY <1>1, TakeIs
<1> HIDE DEF w
<1>4. Len(w) = j
  BY <1>1, <1>3
<1>5. \A i \in 1 .. j : w[i] = u[i]
  <2> TAKE i \in 1 .. j
  <2>1. i \in 1 .. k
    OBVIOUS
  <2> QED BY <1>1, <1>2, <1>3, <1>4, <2>1
<1>6. w = u
  BY <1>2, <1>3, <1>4, <1>5, SameSequence
<1> QED BY <1>6 DEF w, v, u

\* What the sequences of the promise are, of the first k bytes.
LEMMA UpToSlashIs ==
    ASSUME NEW s \in Seq(Byte), NEW k \in Nat, k <= Len(s), NEW j, SlashEnd(s, k, j)
    PROVE  UpToSlash(SubSeq(s, 1, k)) = SubSeq(s, 1, j)
<1> DEFINE v == SubSeq(s, 1, k)
           hits == {i \in DOMAIN v : IsSlash(v[i])}
           n == LastOf({0} \cup hits)
<1>1. v \in Seq(Byte) /\ Len(v) = k /\ \A i \in 1 .. k : v[i] = s[i]
  BY FrontIs
<1>2. UpToSlash(v) = Take(v, n)
  BY DEF UpToSlash
<1> HIDE DEF v, IsSlash
<1>3. DOMAIN v = 1 .. k
  BY <1>1
<1>4. hits \in SUBSET (1 .. k) /\ \A i \in 1 .. k : i \in hits <=> IsSlash(s[i])
  BY <1>1, <1>3
<1> HIDE DEF hits
<1>5. n \in 0 .. k /\ (n = 0 \/ n \in hits) /\ \A i \in n + 1 .. k : i \notin hits
  BY <1>4, GreatestIs
<1> HIDE DEF n
<1>6. SlashEnd(s, k, n)
  <2>1. n = 0 \/ IsSlash(s[n])
    BY <1>4, <1>5
  <2>2. \A i \in n + 1 .. k : ~IsSlash(s[i])
    <3> TAKE i \in n + 1 .. k
    <3>1. i \in 1 .. k /\ i \notin hits
      BY <1>5
    <3> QED BY <1>4, <3>1
  <2> QED BY <1>5, <2>1, <2>2 DEF SlashEnd
<1>7. n = j
  BY <1>6, SlashEndSame
<1>8. n \in Nat /\ n <= k
  BY <1>5
<1>9. Take(v, n) = SubSeq(s, 1, n)
  BY <1>8, FrontOfFront DEF v
<1> QED BY <1>2, <1>7, <1>9 DEF v

LEMMA StrippedIs ==
    ASSUME NEW s \in Seq(Byte), NEW k \in Nat, k <= Len(s), NEW j, NameEnd(s, k, j)
    PROVE  Stripped(SubSeq(s, 1, k)) = SubSeq(s, 1, j)
<1> DEFINE v == SubSeq(s, 1, k)
           hits == {i \in DOMAIN v : ~IsSlash(v[i])}
           n == LastOf({0} \cup hits)
<1>1. v \in Seq(Byte) /\ Len(v) = k /\ \A i \in 1 .. k : v[i] = s[i]
  BY FrontIs
<1>2. Stripped(v) = Take(v, n)
  BY DEF Stripped
<1> HIDE DEF v, IsSlash
<1>3. DOMAIN v = 1 .. k
  BY <1>1
<1>4. hits \in SUBSET (1 .. k) /\ \A i \in 1 .. k : i \in hits <=> ~IsSlash(s[i])
  BY <1>1, <1>3
<1> HIDE DEF hits
<1>5. n \in 0 .. k /\ (n = 0 \/ n \in hits) /\ \A i \in n + 1 .. k : i \notin hits
  BY <1>4, GreatestIs
<1> HIDE DEF n
<1>6. NameEnd(s, k, n)
  <2>1. n = 0 \/ ~IsSlash(s[n])
    BY <1>4, <1>5
  <2>2. \A i \in n + 1 .. k : IsSlash(s[i])
    <3> TAKE i \in n + 1 .. k
    <3>1. i \in 1 .. k /\ i \notin hits
      BY <1>5
    <3> QED BY <1>4, <3>1
  <2> QED BY <1>5, <2>1, <2>2 DEF NameEnd
<1>7. n = j
  BY <1>6, NameEndSame
<1>8. n \in Nat /\ n <= k
  BY <1>5
<1>9. Take(v, n) = SubSeq(s, 1, n)
  BY <1>8, FrontOfFront DEF v
<1> QED BY <1>2, <1>7, <1>9 DEF v

\* The root of the first k bytes, which are slashes: one, or two of the same.
LEMMA RootIs ==
    ASSUME NEW s \in Seq(Byte), NEW k \in Nat, k <= Len(s), k >= 1
    PROVE  RootOf(SubSeq(s, 1, k)) = SubSeq(s, 1, IF k = 2 /\ s[1] = s[2] THEN 2 ELSE 1)
<1> DEFINE v == SubSeq(s, 1, k)
<1>1. v \in Seq(Byte) /\ Len(v) = k /\ \A i \in 1 .. k : v[i] = s[i]
  BY FrontIs
<1>2. Take(v, 1) = SubSeq(s, 1, 1)
  <2>1. 1 \in Nat /\ 1 <= k
    OBVIOUS
  <2> QED BY <2>1, FrontOfFront
<1>3. k = 2 => v[1] = s[1] /\ v[2] = s[2]
  BY <1>1
<1>4. RootOf(v) = IF k = 2 /\ v[1] = v[2] THEN v ELSE Take(v, 1)
  <2> HIDE DEF v
  <2> QED BY <1>1 DEF RootOf
<1>5. k = 2 => v = SubSeq(s, 1, 2)
  OBVIOUS
<1> HIDE DEF v
<1>6. RootOf(v) = SubSeq(s, 1, IF k = 2 /\ s[1] = s[2] THEN 2 ELSE 1)
  <2>1. CASE k = 2 /\ s[1] = s[2]
    BY <1>3, <1>4, <1>5, <2>1
  <2>2. CASE ~(k = 2 /\ s[1] = s[2])
    BY <1>2, <1>3, <1>4, <2>2
  <2> QED BY <2>1, <2>2
<1> QED BY <1>6 DEF v

\* How far the parent's name goes: n0 is the end of the last name, a the slash in front
\* of it, n1 the end of the name in front of that.
ParentCut(s, n0, a, n1) ==
    IF n0 = 0 THEN IF Len(s) = 2 /\ s[1] = s[2] THEN 2 ELSE 1
    ELSE IF n1 = 0 THEN IF a = 2 /\ s[1] = s[2] THEN 2 ELSE 1
    ELSE n1

\* The text of the parent, by the places where its parts end.
LEMMA ParentIs ==
    ASSUME NEW s \in Seq(Byte), NEW n0, NameEnd(s, Len(s), n0), NEW a, SlashEnd(s, n0, a),
           NEW n1, NameEnd(s, a, n1)
    PROVE  Parent(s) = IF Len(s) = 0 \/ (n0 # 0 /\ a = 0) THEN <<46>>
                       ELSE SubSeq(s, 1, ParentCut(s, n0, a, n1))
<1> DEFINE l == Len(s)
<1>1. l \in Nat /\ n0 \in 0 .. l /\ a \in 0 .. n0 /\ n1 \in 0 .. a
  BY DEF NameEnd, SlashEnd
<1>2. n0 \in Nat /\ n0 <= Len(s) /\ a \in Nat /\ a <= Len(s) /\ n1 \in Nat /\ n1 <= Len(s)
  BY <1>1
<1>3. s = SubSeq(s, 1, l)
  <2>1. SubSeq(s, 1, l) \in Seq(Byte) /\ Len(SubSeq(s, 1, l)) = l
        /\ \A i \in 1 .. l : SubSeq(s, 1, l)[i] = s[i]
    <3>1. l <= Len(s)
      BY <1>1
    <3> QED BY <1>1, <3>1, FrontIs
  <2> DEFINE w == SubSeq(s, 1, l)
  <2> HIDE DEF w
  <2>2. w \in Seq(Byte) /\ Len(w) = Len(s) /\ \A i \in 1 .. Len(s) : s[i] = w[i]
    BY <2>1 DEF w
  <2>3. s = w
    BY <2>2, SameSequence
  <2> QED BY <2>3 DEF w
<1>4. Stripped(s) = SubSeq(s, 1, n0)
  <2>1. l <= Len(s) /\ NameEnd(s, l, n0)
    BY <1>1
  <2>2. Stripped(SubSeq(s, 1, l)) = SubSeq(s, 1, n0)
    BY <1>1, <2>1, StrippedIs
  <2> HIDE DEF l
  <2> QED BY <1>3, <2>2
<1>5. UpToSlash(Stripped(s)) = SubSeq(s, 1, a)
  BY <1>2, <1>4, UpToSlashIs
<1>6. Stripped(SubSeq(s, 1, a)) = SubSeq(s, 1, n1)
  BY <1>2, StrippedIs
<1>7. \A k \in 0 .. l : SubSeq(s, 1, k) = <<>> <=> k = 0
  <2> TAKE k \in 0 .. l
  <2>1. k \in Nat /\ k <= Len(s)
    BY <1>1
  <2>2. Len(SubSeq(s, 1, k)) = k /\ SubSeq(s, 1, k) \in Seq(Byte)
    BY <2>1, FrontIs
  <2> DEFINE w == SubSeq(s, 1, k)
  <2> HIDE DEF w, Byte
  <2>3. Len(w) = k /\ w \in Seq(Byte)
    BY <2>2 DEF w
  <2>4. w = <<>> <=> k = 0
    BY <2>3
  <2> QED BY <2>4 DEF w
<1>8. s = <<>> <=> l = 0
  <2> HIDE DEF Byte
  <2> QED OBVIOUS
<1>9. l # 0 => RootOf(s) = SubSeq(s, 1, IF l = 2 /\ s[1] = s[2] THEN 2 ELSE 1)
  <2> SUFFICES ASSUME l # 0 PROVE RootOf(s) = SubSeq(s, 1, IF l = 2 /\ s[1] = s[2] THEN 2 ELSE 1)
    OBVIOUS
  <2>1. l \in Nat /\ l <= Len(s) /\ l >= 1
    BY <1>1
  <2>2. RootOf(SubSeq(s, 1, l)) = SubSeq(s, 1, IF l = 2 /\ s[1] = s[2] THEN 2 ELSE 1)
    BY <2>1, RootIs
  <2> HIDE DEF l
  <2> QED BY <1>3, <2>2
<1>10. a # 0 => RootOf(SubSeq(s, 1, a)) = SubSeq(s, 1, IF a = 2 /\ s[1] = s[2] THEN 2 ELSE 1)
  <2>1. a # 0 => a >= 1
    BY <1>1
  <2> QED BY <1>2, <2>1, RootIs
<1> DEFINE fn == SubSeq(s, 1, n0)
           fa == SubSeq(s, 1, a)
           f1 == SubSeq(s, 1, n1)
<1>11. Parent(s) = IF s = <<>> THEN <<46>> ELSE IF fn = <<>> THEN RootOf(s)
                   ELSE IF fa = <<>> THEN <<46>> ELSE IF f1 = <<>> THEN RootOf(fa) ELSE f1
  BY <1>4, <1>5, <1>6 DEF Parent
<1>12. (fn = <<>> <=> n0 = 0) /\ (fa = <<>> <=> a = 0) /\ (f1 = <<>> <=> n1 = 0)
  <2>1. n0 \in 0 .. l /\ a \in 0 .. l /\ n1 \in 0 .. l
    BY <1>1
  <2> HIDE DEF l
  <2> QED BY <1>7, <2>1
<1>13. n0 = 0 => a = 0 /\ n1 = 0
  BY <1>1
<1> HIDE DEF l
<1>14. CASE l = 0
  BY <1>8, <1>11, <1>14 DEF l
<1>15. CASE l # 0 /\ n0 = 0
  <2>1. Parent(s) = RootOf(s)
    BY <1>8, <1>11, <1>12, <1>15
  <2> QED BY <1>9, <1>15, <2>1 DEF ParentCut, l
<1>16. CASE l # 0 /\ n0 # 0 /\ a = 0
  BY <1>8, <1>11, <1>12, <1>16 DEF l
<1>17. CASE l # 0 /\ n0 # 0 /\ a # 0 /\ n1 = 0
  <2>1. Parent(s) = RootOf(fa)
    BY <1>8, <1>11, <1>12, <1>17
  <2> QED BY <1>10, <1>17, <2>1 DEF ParentCut, l
<1>18. CASE l # 0 /\ n0 # 0 /\ a # 0 /\ n1 # 0
  <2>1. Parent(s) = f1
    BY <1>8, <1>11, <1>12, <1>18
  <2> QED BY <1>18, <2>1 DEF ParentCut, l
<1> QED BY <1>14, <1>15, <1>16, <1>17, <1>18

\* One place further, a slash more or a byte of a name more.
LEMMA NameEndMoves ==
    ASSUME NEW s, NEW k \in Nat, NEW j, NameEnd(s, k, j)
    PROVE  NameEnd(s, k + 1, IF IsSlash(s[k + 1]) THEN j ELSE k + 1)
<1> HIDE DEF IsSlash
<1>1. j \in 0 .. k
  BY DEF NameEnd
<1>2. CASE IsSlash(s[k + 1])
  <2>1. \A i \in j + 1 .. k + 1 : i \in j + 1 .. k \/ i = k + 1
    BY <1>1
  <2>2. \A i \in j + 1 .. k + 1 : IsSlash(s[i])
    BY <1>2, <2>1 DEF NameEnd
  <2>3. j \in 0 .. k + 1
    BY <1>1
  <2> QED BY <1>2, <2>2, <2>3 DEF NameEnd
<1>3. CASE ~IsSlash(s[k + 1])
  <2>1. \A i \in k + 1 + 1 .. k + 1 : FALSE
    OBVIOUS
  <2>2. k + 1 \in 0 .. k + 1
    OBVIOUS
  <2> QED BY <1>3, <2>1, <2>2 DEF NameEnd
<1> QED BY <1>2, <1>3

LEMMA SlashEndMoves ==
    ASSUME NEW s, NEW k \in Nat, NEW j, SlashEnd(s, k, j)
    PROVE  SlashEnd(s, k + 1, IF IsSlash(s[k + 1]) THEN k + 1 ELSE j)
<1> HIDE DEF IsSlash
<1>1. j \in 0 .. k
  BY DEF SlashEnd
<1>2. CASE ~IsSlash(s[k + 1])
  <2>1. \A i \in j + 1 .. k + 1 : i \in j + 1 .. k \/ i = k + 1
    BY <1>1
  <2>2. \A i \in j + 1 .. k + 1 : ~IsSlash(s[i])
    BY <1>2, <2>1 DEF SlashEnd
  <2>3. j \in 0 .. k + 1
    BY <1>1
  <2> QED BY <1>2, <2>2, <2>3 DEF SlashEnd
<1>3. CASE IsSlash(s[k + 1])
  <2>1. \A i \in k + 1 + 1 .. k + 1 : FALSE
    OBVIOUS
  <2>2. k + 1 \in 0 .. k + 1
    OBVIOUS
  <2> QED BY <1>3, <2>1, <2>2 DEF SlashEnd
<1> QED BY <1>2, <1>3

\* The text of an area, as the code reads it.
LEMMA AllIs ==
    ASSUME NEW x, NEW s, NEW m, IsText(x, s, m)
    PROVE  [i \in 1 .. strlen(x) |-> x[i - 1]] = s
<1> DEFINE l == Len(s)
           w == [i \in 1 .. l |-> x[i - 1]]
<1>1. s \in Seq(Byte) /\ l \in Nat /\ strlen(x) = l /\ \A i \in 1 .. l : s[i] \in Byte
  BY LengthIs DEF IsText
<1>2. \A i \in 1 .. l : x[i - 1] = s[i]
  <2> TAKE i \in 1 .. l
  <2>1. i - 1 \in Nat /\ i - 1 < Len(s) /\ i - 1 + 1 = i
    BY <1>1
  <2>2. x[i - 1] = s[i - 1 + 1]
    BY <2>1, ByteAt
  <2> QED BY <2>1, <2>2
<1>3. \A i \in 1 .. l : w[i] = s[i] /\ w[i] \in Byte
  BY <1>1, <1>2
<1> HIDE DEF l
<1>4. w \in Seq(Byte) /\ Len(w) = l
  <2>1. \A i \in 1 .. l : x[i - 1] \in Byte
    BY <1>1, <1>2
  <2> HIDE DEF Byte
  <2> QED BY <1>1, <2>1, FunctionIsSeq
<1> HIDE DEF w
<1>5. w = s
  BY <1>1, <1>3, <1>4, SameSequence DEF l
<1> QED BY <1>1, <1>5 DEF w

\* dirname finds the same places, in all its cases.
LEMMA DirnameIs ==
    ASSUME NEW x, NEW s, NEW m, IsText(x, s, m)
    PROVE  dirname(x) = IF IsDrive(x) THEN s ELSE Parent(s)
<1> DEFINE l == Len(s)
           e == LastSlash(x, l) + 1
           n0 == RunStart(x, l)
           a == LastSlash(x, n0) + 1
           n1 == RunStart(x, a)
           lc == LastComponent(x)
           run == RunStart(x, lc)
           cut == IF run # 0 THEN run ELSE IF lc = 1 /\ x[0] = x[1] THEN 2 ELSE 1
<1>1. s \in Seq(Byte) /\ l \in Nat /\ strlen(x) = l
  BY LengthIs DEF IsText
<1>2. \A i \in 1 .. l : x[i - 1] = s[i]
  <2> TAKE i \in 1 .. l
  <2>1. i - 1 \in Nat /\ i - 1 < Len(s) /\ i - 1 + 1 = i
    BY <1>1
  <2>2. x[i - 1] = s[i - 1 + 1]
    BY <2>1, ByteAt
  <2> QED BY <2>1, <2>2
<1>3. \A i \in 0 .. l : x[i] = NUL <=> i = l
  <2> TAKE i \in 0 .. l
  <2>1. i \in 0 .. m - 1
    BY DEF IsText
  <2> QED BY <2>1 DEF IsText
<1>4. e \in Nat /\ LastSlash(x, l) \in Int /\ (LastSlash(x, l) = Nowhere <=> e = 0) /\ SlashEnd(s, l, e)
      /\ n0 \in 0 .. l /\ NameEnd(s, l, n0)
  <2>1. l <= Len(s)
    BY <1>1
  <2> QED BY <1>1, <2>1, LastSlashIs, RunStartIs
<1>5. /\ a \in Nat /\ LastSlash(x, n0) \in Int /\ (LastSlash(x, n0) = Nowhere <=> a = 0)
      /\ SlashEnd(s, n0, a) /\ a \in 0 .. n0
  <2>1. n0 \in Nat /\ n0 <= Len(s)
    BY <1>1, <1>4
  <2> HIDE DEF n0
  <2>2. a \in Nat /\ LastSlash(x, n0) \in Int /\ (LastSlash(x, n0) = Nowhere <=> a = 0) /\ SlashEnd(s, n0, a)
    BY <2>1, LastSlashIs
  <2> QED BY <2>2 DEF SlashEnd
<1>6. n1 \in 0 .. a /\ NameEnd(s, a, n1)
  <2>1. a \in Nat /\ a <= Len(s)
    BY <1>1, <1>4, <1>5
  <2> HIDE DEF a
  <2> QED BY <2>1, RunStartIs
<1>7. Parent(s) = IF l = 0 \/ (n0 # 0 /\ a = 0) THEN <<46>> ELSE SubSeq(s, 1, ParentCut(s, n0, a, n1))
  <2> HIDE DEF n0, a, n1
  <2> QED BY <1>1, <1>4, <1>5, <1>6, ParentIs
<1>8. dirname(x) = IF IsDrive(x) THEN s ELSE IF lc = Nowhere THEN <<46>> ELSE SubSeq(s, 1, cut)
  <2> HIDE DEF lc, run
  <2>1. [i \in 1 .. strlen(x) |-> x[i - 1]] = s
    BY AllIs
  <2> QED BY <2>1 DEF dirname, lc, run
<1>9. lc = IF e = 0 THEN Nowhere ELSE IF e = 1 THEN 1
           ELSE IF x[e] = NUL /\ RunStart(x, e - 1) # 0 THEN LastSlash(x, RunStart(x, e - 1)) ELSE e - 1
  <2> DEFINE last == LastSlash(x, l)
  <2>1. lc = IF last = Nowhere THEN Nowhere ELSE IF last = 0 THEN 1
             ELSE IF x[last + 1] = NUL /\ RunStart(x, last) # 0 THEN LastSlash(x, RunStart(x, last)) ELSE last
    BY <1>1 DEF LastComponent
  <2>2. last \in Int /\ e = last + 1 /\ (last = Nowhere <=> e = 0)
    BY <1>4
  <2> HIDE DEF last, e, lc
  <2>3. (last = 0 <=> e = 1) /\ last = e - 1
    BY <2>2
  <2> QED BY <2>1, <2>2, <2>3
<1> HIDE DEF lc, IsSlash
<1>10. e < l => n0 = l /\ a = e
  <2> SUFFICES ASSUME e < l PROVE n0 = l /\ a = e
    OBVIOUS
  <2> HIDE DEF e, n0
  <2>1. ~IsSlash(s[l]) /\ l # 0
    BY <1>1, <1>4 DEF SlashEnd
  <2>2. NameEnd(s, l, l)
    BY <1>1, <2>1 DEF NameEnd
  <2>3. n0 = l
    BY <1>1, <1>4, <2>2, NameEndSame
  <2> HIDE DEF a, l
  <2>4. a = e
    BY <1>1, <1>4, <1>5, <2>3, SlashEndSame
  <2> QED BY <2>3, <2>4
<1>11. \A k \in 1 .. l : IsSlash(s[k]) => NameEnd(s, k, RunStart(x, k - 1)) /\ RunStart(x, k - 1) \in 0 .. k - 1
  <2> TAKE k \in 1 .. l
  <2> HAVE IsSlash(s[k])
  <2>1. k - 1 \in Nat /\ k - 1 <= Len(s) /\ k - 1 + 1 = k
    BY <1>1
  <2>2. RunStart(x, k - 1) \in 0 .. k - 1 /\ NameEnd(s, k - 1, RunStart(x, k - 1))
    BY <2>1, RunStartIs
  <2>3. NameEnd(s, k - 1 + 1, IF IsSlash(s[k - 1 + 1]) THEN RunStart(x, k - 1) ELSE k - 1 + 1)
    BY <2>1, <2>2, NameEndMoves
  <2> QED BY <2>1, <2>2, <2>3
<1>12. e = l /\ l # 0 => n0 = RunStart(x, e - 1) /\ n0 \in 0 .. e - 1
  <2> SUFFICES ASSUME e = l, l # 0 PROVE n0 = RunStart(x, e - 1) /\ n0 \in 0 .. e - 1
    OBVIOUS
  <2> HIDE DEF e, n0
  <2>1. IsSlash(s[e]) /\ e \in 1 .. l
    BY <1>1, <1>4 DEF SlashEnd
  <2>2. NameEnd(s, e, RunStart(x, e - 1)) /\ RunStart(x, e - 1) \in 0 .. e - 1
    BY <1>11, <2>1
  <2>3. n0 = RunStart(x, e - 1)
    BY <1>4, <2>2, NameEndSame
  <2> QED BY <2>2, <2>3
<1>13. a # 0 => n1 = RunStart(x, a - 1) /\ n1 \in 0 .. a - 1
  <2> SUFFICES ASSUME a # 0 PROVE n1 = RunStart(x, a - 1) /\ n1 \in 0 .. a - 1
    OBVIOUS
  <2> HIDE DEF a, n0, n1, e
  <2>1. IsSlash(s[a]) /\ a \in 1 .. l
    BY <1>1, <1>4, <1>5 DEF SlashEnd
  <2>2. NameEnd(s, a, RunStart(x, a - 1)) /\ RunStart(x, a - 1) \in 0 .. a - 1
    BY <1>11, <2>1
  <2>3. n1 = RunStart(x, a - 1)
    BY <1>5, <1>6, <2>2, NameEndSame
  <2> QED BY <2>2, <2>3
<1>14. e \in 0 .. l
  BY <1>4 DEF SlashEnd
<1>15. l >= 2 => x[0] = s[1] /\ x[1] = s[2]
  <2> HIDE DEF l
  <2>1. l >= 2 => 1 \in 1 .. l /\ 2 \in 1 .. l
    BY <1>1
  <2> QED BY <1>2, <2>1
<1> DEFINE Right == /\ lc = Nowhere <=> (l = 0 \/ (n0 # 0 /\ a = 0))
                    /\ lc # Nowhere => cut = ParentCut(s, n0, a, n1)
<1>16. ASSUME e = 0
      PROVE  Right
  <2>1. lc = Nowhere
    BY <1>9, <1>16
  <2>2. l = 0 \/ (n0 # 0 /\ a = 0)
    <3> HIDE DEF e, n0, a
    <3> QED BY <1>1, <1>10, <1>14, <1>16
  <2> QED BY <2>1, <2>2
<1>17. ASSUME e = 1 /\ e < l
      PROVE  Right
  <2>1. lc = 1 /\ n0 = l /\ a = 1 /\ n0 # 0
    BY <1>1, <1>9, <1>10, <1>17
  <2>2. run = n1
    BY <2>1
  <2>3. n1 = 0
    BY <1>13, <2>1
  <2>4. x[0] # x[1]
    <3>1. l >= 2 /\ 2 \in e + 1 .. l /\ e # 0
      BY <1>1, <1>17
    <3>2. ~IsSlash(s[2]) /\ IsSlash(s[1])
      BY <1>4, <1>17, <3>1 DEF SlashEnd
    <3> QED BY <1>15, <3>1, <3>2
  <2>5. cut = 1
    <3> HIDE DEF run, n1
    <3> QED BY <2>1, <2>2, <2>3, <2>4
  <2>6. ParentCut(s, n0, a, n1) = 1
    <3> HIDE DEF n0, a, n1
    <3> QED BY <2>1, <2>3 DEF ParentCut
  <2>7. lc # Nowhere
    BY <2>1 DEF Nowhere
  <2>8. l # 0 /\ a # 0
    BY <1>1, <1>17, <2>1
  <2> HIDE DEF cut, n0, a, n1, l
  <2> QED BY <2>5, <2>6, <2>7, <2>8
<1>18. ASSUME e = 1 /\ e = l
      PROVE  Right
  <2>1. lc = 1 /\ n0 = 0 /\ a = 0
    BY <1>5, <1>9, <1>12, <1>18
  <2>2. run = n0
    BY <1>18, <2>1
  <2>3. x[0] # x[1]
    <3>1. x[1] = NUL /\ x[0] # NUL
      BY <1>3, <1>18
    <3> QED BY <3>1
  <2>4. cut = 1
    <3> HIDE DEF run, n0
    <3> QED BY <2>1, <2>2, <2>3
  <2>5. ParentCut(s, n0, a, n1) = 1
    <3> HIDE DEF n0, a, n1
    <3> QED BY <1>18, <2>1 DEF ParentCut
  <2>6. lc # Nowhere /\ l # 0
    BY <1>18, <2>1 DEF Nowhere
  <2> HIDE DEF cut, n0, a, n1, l
  <2> QED BY <2>1, <2>4, <2>5, <2>6
<1>19. ASSUME e >= 2 /\ e < l
      PROVE  Right
  <2>1. n0 = l /\ a = e /\ n0 # 0 /\ a # 0
    <3> HIDE DEF n0, a, e
    <3> QED BY <1>1, <1>4, <1>10, <1>19
  <2>2. x[e] # NUL
    BY <1>3, <1>14, <1>19
  <2>3. lc = e - 1 /\ lc # Nowhere
    <3> HIDE DEF e
    <3> QED BY <1>4, <1>9, <1>19, <2>2 DEF Nowhere
  <2>4. run = n1
    <3>1. n1 = RunStart(x, a - 1)
      BY <1>13, <2>1
    <3> HIDE DEF a, e, n1
    <3> QED BY <2>1, <2>3, <3>1
  <2>5. (lc = 1 <=> a = 2) /\ l >= 2
    <3> HIDE DEF a, e
    <3> QED BY <1>1, <1>4, <1>19, <2>1, <2>3
  <2> HIDE DEF run, n0, a, n1, l
  <2>6. cut = ParentCut(s, n0, a, n1)
    BY <1>15, <2>1, <2>4, <2>5 DEF ParentCut
  <2> HIDE DEF cut
  <2> QED BY <2>1, <2>3, <2>5, <2>6
<1>20. ASSUME e >= 2 /\ e = l /\ n0 # 0
      PROVE  Right
  <2>1. n0 = RunStart(x, e - 1) /\ x[e] = NUL
    BY <1>1, <1>3, <1>12, <1>20
  <2>2. lc = LastSlash(x, n0)
    <3> HIDE DEF e, n0
    <3> QED BY <1>4, <1>9, <1>20, <2>1
  <2>3. lc \in Int /\ lc = a - 1 /\ (lc = Nowhere <=> a = 0)
    BY <1>5, <2>2
  <2>4. a # 0 => run = n1
    <3>1. a # 0 => n1 = RunStart(x, a - 1)
      BY <1>13
    <3> HIDE DEF a, n1
    <3> QED BY <2>3, <3>1
  <2>5. (lc = 1 <=> a = 2) /\ l >= 2 /\ l # 0
    <3> HIDE DEF a, e
    <3> QED BY <1>1, <1>5, <1>20, <2>3
  <2> HIDE DEF run, n0, a, n1, l
  <2>6. a # 0 => cut = ParentCut(s, n0, a, n1)
    BY <1>15, <1>20, <2>4, <2>5 DEF ParentCut
  <2> HIDE DEF cut
  <2> QED BY <1>20, <2>3, <2>5, <2>6
<1>21. ASSUME e >= 2 /\ e = l /\ n0 = 0
      PROVE  Right
  <2>1. n0 = RunStart(x, e - 1)
    BY <1>1, <1>12, <1>21
  <2>2. lc = e - 1 /\ lc # Nowhere
    <3> HIDE DEF e, n0
    <3> QED BY <1>4, <1>9, <1>21, <2>1 DEF Nowhere
  <2>3. run = 0
    <3> HIDE DEF e, n0
    <3> QED BY <1>21, <2>1, <2>2
  <2>4. (lc = 1 <=> l = 2) /\ l >= 2 /\ l # 0
    <3> HIDE DEF e
    <3> QED BY <1>1, <1>4, <1>21, <2>2
  <2> HIDE DEF run, n0, a, n1
  <2>5. cut = ParentCut(s, n0, a, n1)
    BY <1>15, <1>21, <2>3, <2>4 DEF ParentCut
  <2> HIDE DEF cut
  <2> QED BY <1>21, <2>2, <2>4, <2>5
<1>22. Right
  <2>1. e = 0 \/ (e = 1 /\ e < l) \/ (e = 1 /\ e = l) \/ (e >= 2 /\ e < l)
        \/ (e >= 2 /\ e = l /\ n0 # 0) \/ (e >= 2 /\ e = l /\ n0 = 0)
    <3> HIDE DEF e, n0
    <3> QED BY <1>1, <1>14
  <2> HIDE DEF Right, e, n0, l
  <2> QED BY <1>16, <1>17, <1>18, <1>19, <1>20, <1>21, <2>1
<1> HIDE DEF l, n0, a, n1, cut
<1> QED BY <1>7, <1>8, <1>22

\* basename points behind the last slash.
LEMMA BasenameIs ==
    ASSUME NEW x, NEW s, NEW m, IsText(x, s, m)
    PROVE  basename(x) = Len(UpToSlash(s))
<1> DEFINE l == Len(s)
           e == LastSlash(x, l) + 1
<1>1. s \in Seq(Byte) /\ l \in Nat /\ strlen(x) = l /\ l <= Len(s)
  BY LengthIs DEF IsText
<1>2. e \in Nat /\ (LastSlash(x, l) = Nowhere <=> e = 0) /\ SlashEnd(s, l, e)
  BY <1>1, LastSlashIs
<1>3. basename(x) = e
  BY <1>1, <1>2 DEF basename
<1>4. UpToSlash(SubSeq(s, 1, l)) = SubSeq(s, 1, e)
  <2> HIDE DEF e
  <2> QED BY <1>1, <1>2, UpToSlashIs
<1>5. SubSeq(s, 1, l) = s
  <2> DEFINE w == SubSeq(s, 1, l)
  <2>1. w \in Seq(Byte) /\ Len(w) = l /\ \A i \in 1 .. l : w[i] = s[i]
    BY <1>1, FrontIs
  <2> HIDE DEF w
  <2>2. w = s
    BY <1>1, <2>1, SameSequence
  <2> QED BY <2>2 DEF w
<1>6. e <= Len(s)
  <2> HIDE DEF e
  <2> QED BY <1>1, <1>2 DEF SlashEnd
<1>7. Len(SubSeq(s, 1, e)) = e
  <2> HIDE DEF e
  <2> QED BY <1>1, <1>2, <1>6, FrontIs
<1> QED BY <1>3, <1>4, <1>5, <1>7

(***************************************************************************)
(* All calls.                                                               *)
(***************************************************************************)

\* Texts and paths are sequences of bytes; their areas have room for them.
LEMMA UpToAre ==
    ASSUME NEW bytes, bytes \subseteq Byte, NEW n \in Nat, NEW s \in UpTo(bytes, n)
    PROVE  s \in Seq(Byte) /\ Len(s) \in Nat /\ Len(s) <= n
<1>1. PICK k \in 0 .. n : s \in [1 .. k -> bytes]
  BY DEF UpTo
<1>2. s \in Seq(Byte) /\ Len(s) = k
  <2>1. DOMAIN s = 1 .. k /\ s = [i \in 1 .. k |-> s[i]] /\ \A i \in 1 .. k : s[i] \in Byte
    BY <1>1
  <2> HIDE DEF Byte
  <2> QED BY <2>1, FunctionIsSeq
<1> QED BY <1>2

LEMMA TextsAre ==
    ASSUME StringsAssumption, NEW s \in Texts
    PROVE  /\ s \in Seq(Byte) /\ Len(s) \in Nat /\ Len(s) <= TextLength
           /\ Len(s) < Room /\ Room \in Nat
<1>1. PICK bytes \in Alphabets : s \in UpTo(bytes, TextLength)
  BY DEF Texts
<1>2. bytes \subseteq Byte /\ TextLength \in Nat
  BY DEF StringsAssumption, Byte
<1>3. s \in Seq(Byte) /\ Len(s) \in Nat /\ Len(s) <= TextLength
  BY <1>1, <1>2, UpToAre
<1>4. TextLength \in Nat /\ Room \in Nat /\ 2 * TextLength < Room
  BY DEF StringsAssumption
<1> QED BY <1>3, <1>4

LEMMA PathsAre ==
    ASSUME StringsAssumption, NEW s \in Paths
    PROVE  s \in Seq(Byte) /\ Len(s) \in Nat
<1>1. s \in UpTo(PathBytes, PathLength) /\ PathBytes \subseteq Byte /\ PathLength \in Nat
  BY DEF Paths, StringsAssumption, Byte
<1> QED BY <1>1, UpToAre

\* An area of just the size of a string holds it.
LEMMA ExactIs ==
    ASSUME StringsAssumption, NEW s \in Seq(Byte)
    PROVE  IsText(Exact(s), s, Len(s) + 1)
<1>1. Len(s) \in Nat
  OBVIOUS
<1> DEFINE m == Len(s) + 1
<1>2. m \in Nat /\ Len(s) < m
  BY <1>1
<1> HIDE DEF m
<1>3. IsText(Area(s, m), s, m)
  BY <1>2, AreaIs
<1> QED BY <1>3 DEF m, Exact

\* Each call leaves and returns what is promised: on two texts ...
LEMMA TwoRight ==
    ASSUME StringsAssumption, NEW s \in Texts, NEW t \in Texts, OnTwo(s, t)
    PROVE  TwoLikeC(s, t)'
<1> DEFINE d == Area(s, Room)
           a == Exact(s)
           b == Exact(t)
<1>1. /\ s \in Seq(Byte) /\ Len(s) \in Nat /\ Len(s) <= TextLength
      /\ Len(s) < Room /\ Room \in Nat
      /\ t \in Seq(Byte) /\ Len(t) \in Nat /\ Len(t) <= TextLength
  BY TextsAre
<1>2. Len(s) + Len(t) < Room /\ Len(t) < Room /\ Len(t) <= LongMax
  <2>1. TextLength \in Nat /\ 2 * TextLength < Room /\ LongMax \in Nat /\ TextLength <= LongMax
    BY DEF StringsAssumption
  <2> QED BY <1>1, <2>1
<1>3. IsText(d, s, Room) /\ IsText(a, s, Len(s) + 1) /\ IsText(b, t, Len(t) + 1)
  BY <1>1, AreaIs, ExactIs
<1>4. got' = [strcpy |-> strcpy(d, b), stpcpy |-> stpcpy(d, b), strcat |-> strcat(d, b),
              strcmp |-> strcmp(a, b), strcoll |-> strcoll(a, b), stricmp |-> stricmp(a, b),
              strstr |-> strstr(a, b), strcasestr |-> strcasestr(a, b),
              strspn |-> strspn(a, b), strcspn |-> strcspn(a, b), strpbrk |-> strpbrk(a, b)]
  BY DEF OnTwo
<1> HIDE DEF d, a, b
<1>5. /\ got'.strcpy = strcpy(d, b) /\ got'.stpcpy = stpcpy(d, b) /\ got'.strcat = strcat(d, b)
      /\ got'.strcmp = strcmp(a, b) /\ got'.strcoll = strcoll(a, b) /\ got'.stricmp = stricmp(a, b)
      /\ got'.strstr = strstr(a, b) /\ got'.strcasestr = strcasestr(a, b)
      /\ got'.strspn = strspn(a, b) /\ got'.strcspn = strcspn(a, b) /\ got'.strpbrk = strpbrk(a, b)
  BY <1>4
<1>6. DOMAIN d = 0 .. Room - 1 /\ strlen(d) = Len(s) /\ strlen(b) = Len(t)
  <2>1. DOMAIN d = 0 .. Room - 1
    BY <1>3 DEF IsText
  <2>2. strlen(d) = Len(s) /\ strlen(b) = Len(t)
    BY <1>3, LengthIs
  <2> QED BY <2>1, <2>2
<1>7. Holds(strcpy(d, b), Ended(t), d) /\ strcpy(d, b).ret = 0
  <2>1. strcpy(d, b).mem = Copy(d, 0, b, Len(t) + 1) /\ strcpy(d, b).ret = 0
    BY <1>6 DEF strcpy, Gives
  <2> QED BY <1>1, <1>2, <1>3, <1>6, <2>1, CopiedFront
<1>8. Holds(stpcpy(d, b), Ended(t), d) /\ stpcpy(d, b).ret = Len(t)
  <2>1. stpcpy(d, b).mem = Copy(d, 0, b, Len(t) + 1) /\ stpcpy(d, b).ret = Len(t)
    BY <1>6 DEF stpcpy, Gives
  <2> QED BY <1>1, <1>2, <1>3, <1>6, <2>1, CopiedFront
<1>9. Holds(strcat(d, b), Ended(s \o t), d)
  <2>1. strcat(d, b).mem = Copy(d, Len(s), b, Len(t) + 1)
    BY <1>6 DEF strcat, Gives
  <2> QED BY <1>1, <1>2, <1>3, <2>1, CopiedBehind
<1>10. Sign(strcmp(a, b).ret) = Order(s, t) /\ strcoll(a, b) = strcmp(a, b)
       /\ Sign(stricmp(a, b).ret) = Order(Folded(s), Folded(t))
  <2>1. strcoll(a, b) = strcmp(a, b)
    BY DEF strcoll
  <2> QED BY <1>3, <2>1, StrcmpIs, StricmpIs
<1>11. FoundAt(strstr(a, b).ret, t, s)
  BY <1>2, <1>3, StrstrIs
<1>12. FoundAt(strcasestr(a, b).ret, Folded(t), Folded(s))
  BY <1>3, StrcasestrIs
<1>13. /\ strspn(a, b).ret = Span(s, RangeOf(t))
       /\ strcspn(a, b).ret = Span(s, 1 .. 255 \ RangeOf(t))
       /\ strpbrk(a, b).ret = IF strcspn(a, b).ret = Len(s) THEN Nowhere ELSE strcspn(a, b).ret
  <2>1. IsText(a, s, Len(s) + 1) /\ IsText(b, t, Len(t) + 1)
    BY <1>3
  <2>2. SpansTell(a, s, b, t)
    BY <2>1, SpansAre
  <2> QED BY <2>2 DEF SpansTell
<1>14. /\ Holds(got'.strcpy, Ended(t), d) /\ got'.strcpy.ret = 0
       /\ Holds(got'.stpcpy, Ended(t), d) /\ got'.stpcpy.ret = Len(t)
       /\ Holds(got'.strcat, Ended(s \o t), d)
       /\ Sign(got'.strcmp.ret) = Order(s, t) /\ got'.strcoll = got'.strcmp
       /\ Sign(got'.stricmp.ret) = Order(Folded(s), Folded(t))
       /\ FoundAt(got'.strstr.ret, t, s)
       /\ FoundAt(got'.strcasestr.ret, Folded(t), Folded(s))
       /\ got'.strspn.ret = Span(s, RangeOf(t))
       /\ got'.strcspn.ret = Span(s, 1 .. 255 \ RangeOf(t))
       /\ got'.strpbrk.ret = (IF got'.strcspn.ret = Len(s) THEN Nowhere ELSE got'.strcspn.ret)
  BY <1>5, <1>7, <1>8, <1>9, <1>10, <1>11, <1>12, <1>13
<1> QED BY <1>14 DEF TwoLikeC, d

\* ... on a path ...
LEMMA PathRight ==
    ASSUME StringsAssumption, NEW s \in Paths, OnPath(s)
    PROVE  PathLikeC(s)'
<1> DEFINE m == Len(s) + 3
           x == Room3(s)
<1>1. s \in Seq(Byte) /\ Len(s) \in Nat
  BY PathsAre
<1>2. m \in Nat /\ Len(s) < m
  BY <1>1
<1>3. IsText(x, s, m)
  <2> HIDE DEF m
  <2>1. IsText(Area(s, m), s, m)
    BY <1>1, <1>2, AreaIs
  <2> QED BY <2>1 DEF Room3, m
<1>4. got'.basename = basename(x) /\ got'.dirname = dirname(x)
  <2>1. got' = [basename |-> basename(x), dirname |-> dirname(x)]
    BY DEF OnPath
  <2> HIDE DEF x
  <2> QED BY <2>1
<1> HIDE DEF x, m
<1>5. basename(x) = Len(UpToSlash(s)) /\ dirname(x) = IF IsDrive(x) THEN s ELSE Parent(s)
  BY <1>3, BasenameIs, DirnameIs
<1>6. /\ SubSeq(s, got'.basename + 1, Len(s)) = SubSeq(s, Len(UpToSlash(s)) + 1, Len(s))
      /\ got'.dirname = IF IsDrive(x) THEN s ELSE Parent(s)
  BY <1>4, <1>5
<1> QED BY <1>6 DEF PathLikeC, x

\* ... on new memory ...
LEMMA DuplicateRight ==
    ASSUME StringsAssumption, NEW s \in Texts, NEW n \in Bounds, Duplicate(s, n)
    PROVE  DuplicateLikeC(s, n)'
<1> DEFINE y == Exact(s)
<1>1. s \in Seq(Byte) /\ Len(s) \in Nat
  BY TextsAre
<1>2. n \in Nat
  BY DEF StringsAssumption
<1>3. IsText(y, s, Len(s) + 1)
  BY <1>1, ExactIs
<1>4. got' = [strdup |-> strdup(y), strndup |-> strndup(y, n)]
      \/ got' = [strdup |-> NoArea, strndup |-> NoArea]
  BY DEF Duplicate
<1> HIDE DEF y
<1>5. CASE got' = [strdup |-> NoArea, strndup |-> NoArea]
  <2>1. got'.strdup.ret = Nowhere
    BY <1>5 DEF NoArea, Gives
  <2> QED BY <2>1 DEF DuplicateLikeC
<1>6. CASE got' = [strdup |-> strdup(y), strndup |-> strndup(y, n)]
  <2>1. got'.strdup = strdup(y) /\ got'.strndup = strndup(y, n)
    BY <1>6
  <2>2. Holds(strdup(y), Ended(s), Area(<<>>, Len(s) + 1))
    <3> DEFINE m == Len(s) + 1
               x == Area(<<>>, m)
    <3>1. strlen(y) = Len(s)
      BY <1>3, LengthIs
    <3>2. strdup(y).mem = Copy(x, 0, y, Len(s) + 1)
      BY <3>1 DEF strdup, strcpy, NewArea, Gives
    <3>3. DOMAIN x = 0 .. m - 1 /\ m \in Nat /\ Len(s) < m
      BY <1>1 DEF Area
    <3> HIDE DEF x, m
    <3>4. Holds(strdup(y), Ended(s), x)
      BY <1>3, <3>2, <3>3, CopiedFront
    <3> QED BY <3>4 DEF x, m
  <2>3. Holds(strndup(y, n), Ended(Take(s, n)), Area(<<>>, Min({Len(s), n}) + 1))
    BY <1>2, <1>3, StrndupIs
  <2>4. Holds(got'.strdup, Ended(s), Area(<<>>, Len(s) + 1))
        /\ Holds(got'.strndup, Ended(Take(s, n)), Area(<<>>, Min({Len(s), n}) + 1))
    BY <2>1, <2>2, <2>3
  <2>5. got'.strndup.seen = Len(s) + 1
    <3>1. strlen(y) = Len(s)
      BY <1>3, LengthIs
    <3> QED BY <2>1, <3>1 DEF strndup, Gives
  <2> QED BY <2>4, <2>5 DEF DuplicateLikeC
<1> QED BY <1>4, <1>5, <1>6

\* A bound is within the area.
LEMMA BoundsAre ==
    ASSUME StringsAssumption, NEW n \in Bounds
    PROVE  n \in Nat /\ n <= Room /\ Count(n) \in Nat /\ Count(n) <= n
<1>1. n \in Nat /\ n <= Room
  BY DEF StringsAssumption
<1>2. Count(n) \in 0 .. n
  BY <1>1, CountIs
<1> QED BY <1>1, <1>2

\* ... on two texts with a bound ...
LEMMA BoundedRight ==
    ASSUME StringsAssumption, NEW s \in Texts, NEW t \in Texts, NEW n \in Bounds,
           OnTwoBounded(s, t, n)
    PROVE  BoundedLikeC(s, t, n)'
<1> DEFINE d == Area(s, Room)
           b == Area(t, Room)
<1>1. /\ s \in Seq(Byte) /\ Len(s) \in Nat /\ Len(s) <= TextLength
      /\ Len(s) < Room /\ Room \in Nat
      /\ t \in Seq(Byte) /\ Len(t) \in Nat /\ Len(t) <= TextLength /\ Len(t) < Room
  BY TextsAre
<1>2. Len(s) + Len(t) < Room
  <2>1. TextLength \in Nat /\ 2 * TextLength < Room
    BY DEF StringsAssumption
  <2> QED BY <1>1, <2>1
<1>3. n \in Nat /\ n <= Room /\ Count(n) \in Nat /\ Count(n) <= n
  BY BoundsAre
<1>4. IsText(d, s, Room) /\ IsText(b, t, Room)
  BY <1>1, AreaIs
<1>5. got' = [strncpy |-> strncpy(d, b, n), stpncpy |-> stpncpy(d, b, n),
              strncat |-> strncat(d, b, n), strlcpy |-> strlcpy(d, b, n),
              strlcat |-> strlcat(d, b, n), strxfrm |-> strxfrm(d, b, n),
              mempcpy |-> mempcpy(d, b, n), memcmp |-> memcmp(d, b, n),
              strncmp |-> strncmp(d, b, n), strnicmp |-> strnicmp(d, b, n)]
  BY DEF OnTwoBounded
<1>6. Bytes(s, n) = [i \in 1 .. n |-> d[i - 1]] /\ Bytes(t, n) = [i \in 1 .. n |-> b[i - 1]]
  BY DEF Bytes
<1> HIDE DEF d, b
<1>7. /\ got'.strncpy = strncpy(d, b, n) /\ got'.stpncpy = stpncpy(d, b, n)
      /\ got'.strncat = strncat(d, b, n) /\ got'.strlcpy = strlcpy(d, b, n)
      /\ got'.strlcat = strlcat(d, b, n) /\ got'.strxfrm = strxfrm(d, b, n)
      /\ got'.mempcpy = mempcpy(d, b, n) /\ got'.memcmp = memcmp(d, b, n)
      /\ got'.strncmp = strncmp(d, b, n) /\ got'.strnicmp = strnicmp(d, b, n)
  BY <1>5
<1>8. DOMAIN d = 0 .. Room - 1
  BY <1>4 DEF IsText
<1>9. strlen(b) = Len(t)
  BY <1>4, LengthIs
<1>10. Holds(strncpy(d, b, n), Padded(t, Count(n)), d) /\ strncpy(d, b, n).seen <= n
  <2> DEFINE c == Count(n)
             k == Scan(b, NUL, c)
             r == strncpy(d, b, n)
  <2>1. r.mem = Fill(Copy(d, 0, b, k), k, c - k, NUL) /\ r.seen = k
    BY DEF strncpy, Gives
  <2>2. c \in Nat /\ c <= n /\ c <= Room
    BY <1>1, <1>3
  <2> HIDE DEF c, r
  <2>3. k \in 0 .. c /\ Holds(r, Padded(t, c), d)
    BY <1>1, <1>4, <1>8, <2>1, <2>2, CopiedPadded
  <2>4. r.seen <= n
    <3> HIDE DEF k
    <3> QED BY <1>3, <2>1, <2>2, <2>3
  <2> QED BY <2>3, <2>4 DEF r, c
<1>11. Holds(stpncpy(d, b, n), Padded(t, n), d) /\ stpncpy(d, b, n).seen <= n
       /\ stpncpy(d, b, n).ret = Min({n, Len(t)})
  <2> DEFINE k == Scan(b, NUL, n)
             r == stpncpy(d, b, n)
  <2>1. r.mem = Fill(Copy(d, 0, b, k), k, n - k, NUL) /\ r.seen = k
        /\ r.ret = IF Before(b, NUL, n) = {} THEN n ELSE k - 1
    BY DEF stpncpy, Gives
  <2> HIDE DEF r
  <2>2. k \in 0 .. n /\ Holds(r, Padded(t, n), d)
    BY <1>1, <1>3, <1>4, <1>8, <2>1, CopiedPadded
  <2>3. k = (IF n > Len(t) THEN Len(t) + 1 ELSE n) /\ (Before(b, NUL, n) = {} <=> n <= Len(t))
    BY <1>1, <1>3, <1>4, ScanIs
  <2>4. Min({n, Len(t)}) = IF n < Len(t) THEN n ELSE Len(t)
    BY <1>1, <1>3, LesserOf
  <2> HIDE DEF k
  <2>5. r.ret = Min({n, Len(t)}) /\ r.seen <= n
    BY <1>1, <1>3, <2>1, <2>2, <2>3, <2>4
  <2> QED BY <2>2, <2>5 DEF r
<1>12. Holds(strncat(d, b, n), Ended(s \o Take(t, n)), d) /\ strncat(d, b, n).seen <= n
  BY <1>2, <1>3, <1>4, StrncatIs
<1>13. Holds(strlcpy(d, b, n), IF n = 0 THEN <<>> ELSE Ended(Take(t, n - 1)), d)
       /\ strlcpy(d, b, n).ret = Len(t)
  BY <1>1, <1>3, <1>4, StrlcpyIs
<1>14. Holds(strlcat(d, b, n), IF n <= Len(s) THEN <<>> ELSE Ended(Take(s \o t, n - 1)), d)
       /\ strlcat(d, b, n).ret = Len(t) + Min({n, Len(s)})
  BY <1>2, <1>3, <1>4, StrlcatIs
<1>15. Holds(strxfrm(d, b, n), IF Len(t) < n THEN Ended(t) ELSE <<>>, d)
       /\ strxfrm(d, b, n).ret = Len(t)
  <2> DEFINE r == strxfrm(d, b, n)
  <2>1. r.ret = Len(t) /\ r.mem = IF n > Len(t) THEN Copy(d, 0, b, Len(t) + 1) ELSE d
    BY <1>9 DEF strxfrm, strcpy, Gives
  <2> HIDE DEF r
  <2>2. CASE n > Len(t)
    <3>1. Holds(r, Ended(t), d)
      BY <1>1, <1>4, <1>8, <2>1, <2>2, CopiedFront
    <3> QED BY <1>1, <1>3, <2>1, <2>2, <3>1 DEF r
  <2>3. CASE ~(n > Len(t))
    <3>1. Holds(r, <<>>, d)
      BY <1>4, <2>1, <2>3, HoldsNothing
    <3> QED BY <1>1, <1>3, <2>1, <2>3, <3>1 DEF r
  <2> QED BY <2>2, <2>3
<1>16. Holds(mempcpy(d, b, n), Bytes(t, n), d) /\ mempcpy(d, b, n).ret = n
  <2> DEFINE r == mempcpy(d, b, n)
             v == Bytes(t, n)
  <2>1. r.mem = Copy(d, 0, b, n) /\ r.ret = n
    BY DEF mempcpy, Gives
  <2> HIDE DEF r
  <2>2. v = [i \in 1 .. n |-> b[i - 1]]
    BY <1>6
  <2> HIDE DEF v
  <2>3. Holds(r, v, d)
    BY <1>1, <1>3, <1>8, <2>1, <2>2, CopiedBytes
  <2> QED BY <2>1, <2>3 DEF r, v
<1>17. Sign(memcmp(d, b, n).ret) = Order(Bytes(s, n), Bytes(t, n)) /\ memcmp(d, b, n).seen <= n
  <2> DEFINE v == Bytes(s, n)
             w == Bytes(t, n)
  <2>1. FirstBytes(v, d, n) /\ FirstBytes(w, b, n)
    BY <1>6 DEF FirstBytes
  <2> HIDE DEF v, w
  <2>2. Sign(memcmp(d, b, n).ret) = Order(v, w) /\ memcmp(d, b, n).seen <= n
    <3>1. IsText(d, s, Room) /\ IsText(b, t, Room) /\ n \in Nat /\ n <= Room
      BY <1>3, <1>4
    <3> QED BY ONLY <2>1, <3>1, MemcmpIs
  <2> QED BY <2>2 DEF v, w
<1>18. /\ Sign(strncmp(d, b, n).ret) = Order(Take(s, Count(n)), Take(t, Count(n)))
       /\ strncmp(d, b, n).seen <= n + 1
  BY <1>3, <1>4, StrncmpIs
<1>19. FoldedOrder(strnicmp(d, b, n), s, t, n)
  BY <1>3, <1>4, StrnicmpIs
<1>20. /\ n <= LongMax => Holds(got'.strncpy, Padded(t, n), d)
       /\ n > LongMax => Holds(got'.strncpy, <<>>, d)
       /\ Holds(got'.stpncpy, Padded(t, n), d) /\ got'.stpncpy.ret = Min({n, Len(t)})
       /\ Holds(got'.strncat, Ended(s \o Take(t, n)), d)
       /\ Holds(got'.strlcpy, IF n = 0 THEN <<>> ELSE Ended(Take(t, n - 1)), d)
       /\ got'.strlcpy.ret = Len(t)
       /\ Holds(got'.strlcat, IF n <= Len(s) THEN <<>> ELSE Ended(Take(s \o t, n - 1)), d)
       /\ got'.strlcat.ret = Len(t) + Min({n, Len(s)})
       /\ Holds(got'.strxfrm, IF Len(t) < n THEN Ended(t) ELSE <<>>, d) /\ got'.strxfrm.ret = Len(t)
       /\ Holds(got'.mempcpy, Bytes(t, n), d) /\ got'.mempcpy.ret = n
       /\ Sign(got'.memcmp.ret) = Order(Bytes(s, n), Bytes(t, n))
       /\ n <= LongMax => Sign(got'.strncmp.ret) = Order(Take(s, n), Take(t, n))
       /\ n > LongMax => got'.strncmp.ret = 0
  <2>1. /\ n <= LongMax => Holds(got'.strncpy, Padded(t, n), d)
        /\ n <= LongMax => Sign(got'.strncmp.ret) = Order(Take(s, n), Take(t, n))
    <3>1. n <= LongMax => Count(n) = n
      BY <1>3 DEF Count, StringsAssumption
    <3> QED BY <1>7, <1>10, <1>18, <3>1
  <2>2. n > LongMax => Holds(got'.strncpy, <<>>, d) /\ got'.strncmp.ret = 0
    <3> SUFFICES ASSUME n > LongMax PROVE Holds(got'.strncpy, <<>>, d) /\ got'.strncmp.ret = 0
      OBVIOUS
    <3>1. Count(n) = 0
      BY DEF Count
    <3>2. got'.strncmp.ret = 0
      BY <1>3, <1>4, <1>7, <3>1, StrncmpIs
    <3>3. Holds(got'.strncpy, Padded(t, 0), d)
      BY <1>7, <1>10, <3>1
    <3>4. Len(Padded(t, 0)) = 0 /\ Len(<<>>) = 0
      BY DEF Padded
    <3>5. \A i \in 0 .. Room - 1 : ~(i < 0)
      OBVIOUS
    <3>6. Holds(got'.strncpy, <<>>, d)
      BY <1>8, <3>3, <3>4, <3>5 DEF Holds
    <3> QED BY <3>2, <3>6
  <2> QED BY <1>7, <1>11, <1>12, <1>13, <1>14, <1>15, <1>16, <1>17, <2>1, <2>2
<1>21. /\ \A r \in {got'.strncpy, got'.stpncpy, got'.strncat, got'.memcmp, got'.strnicmp} : r.seen <= n
       /\ got'.strncmp.seen <= n + 1
  <2>1. strnicmp(d, b, n).seen <= n
    BY <1>19 DEF FoldedOrder
  <2> QED BY <1>7, <1>10, <1>11, <1>12, <1>17, <1>18, <2>1
<1>22. FoldedOrder(got'.strnicmp, s, t, n)
  BY <1>7, <1>19
<1> QED BY <1>20, <1>21, <1>22 DEF BoundedLikeC, FoldedOrder, d

\* ... and on one text.
LEMMA OneRight ==
    ASSUME StringsAssumption, NEW s \in Texts, NEW c, NEW n \in Bounds, OnOne(s, c, n)
    PROVE  OneLikeC(s, c, n)'
<1> DEFINE a == Area(s, Room)
           d == Area(<<>>, Room)
           wanted(bytes) == {i - 1 : i \in {j \in DOMAIN bytes : bytes[j] = c}}
           l == Len(s)
           b == Bytes(s, n)
           hits == Before(a, c, n)
           K == FirstOf(hits)
           k == Scan(a, c, n)
           r == memccpy(d, a, c, n)
<1>1. s \in Seq(Byte) /\ l \in Nat /\ l < Room /\ Room \in Nat
  BY TextsAre
<1>2. n \in Nat /\ n <= Room
  BY BoundsAre
<1>3. IsText(a, s, Room)
  BY <1>1, AreaIs
<1>4. DOMAIN d = 0 .. Room - 1
  BY DEF Area
<1>5. b = [i \in 1 .. n |-> a[i - 1]]
  BY DEF Bytes
<1>6. got' = [strchr |-> strchr(a, c), strrchr |-> strrchr(a, c), memchr |-> memchr(a, c, n),
              memrchr |-> memrchr(a, c, n), strnlen |-> strnlen(a, n),
              memccpy |-> memccpy(d, a, c, n),
              strlwr |-> strlwr(a), strupr |-> strupr(a), strrev |-> strrev(a)]
  BY DEF OnOne
<1>7. DOMAIN a = 0 .. Room - 1 /\ strlen(a) = l
  <2>1. DOMAIN a = 0 .. Room - 1
    BY <1>3 DEF IsText
  <2>2. strlen(a) = l
    BY <1>3, LengthIs
  <2> QED BY <2>1, <2>2
<1> HIDE DEF a, d, b
<1>8. /\ got'.strchr = strchr(a, c) /\ got'.strrchr = strrchr(a, c) /\ got'.memchr = memchr(a, c, n)
      /\ got'.memrchr = memrchr(a, c, n) /\ got'.strnlen = strnlen(a, n)
      /\ got'.memccpy = memccpy(d, a, c, n)
      /\ got'.strlwr = strlwr(a) /\ got'.strupr = strupr(a) /\ got'.strrev = strrev(a)
  BY <1>6
<1>9. Before(a, c, l + 1) = wanted(Ended(s))
  <2> DEFINE e == Ended(s)
             g == l + 1
  <2>1. Len(e) = l + 1 /\ e \in Seq(Cell) /\ (\A i \in 1 .. l : e[i] = s[i]) /\ e[l + 1] = NUL
    BY <1>1, EndedIs
  <2> HIDE DEF e
  <2>2. DOMAIN e = 1 .. g
    BY <2>1
  <2>3. \A i \in 1 .. g : e[i] = a[i - 1]
    <3> TAKE i \in 1 .. g
    <3>1. i - 1 \in Nat /\ i - 1 <= Len(s) /\ i - 1 + 1 = i
      BY <1>1
    <3>2. (i - 1 < Len(s) => a[i - 1] = s[i - 1 + 1]) /\ (i - 1 = Len(s) => a[i - 1] = 0)
      BY <1>3, <3>1, ByteAt
    <3>3. CASE i <= l
      BY <1>1, <2>1, <3>1, <3>2, <3>3
    <3>4. CASE i = l + 1
      BY <1>1, <2>1, <3>2, <3>4 DEF NUL
    <3> QED BY <1>1, <3>3, <3>4
  <2>4. g \in Nat /\ g <= Room
    BY <1>1
  <2> HIDE DEF g
  <2>5. Before(a, c, g) = {i - 1 : i \in {j \in DOMAIN e : e[j] = c}}
    <3>1. Room \in Nat /\ DOMAIN a = 0 .. Room - 1
      BY <1>1, <1>7
    <3> QED BY ONLY <2>2, <2>3, <2>4, <3>1, WantedIs
  <2> QED BY <2>5 DEF e, g
<1>10. hits = wanted(b)
  <2>1. DOMAIN b = 1 .. n /\ \A i \in 1 .. n : b[i] = a[i - 1]
    BY <1>5
  <2>2. Before(a, c, n) = {i - 1 : i \in {j \in DOMAIN b : b[j] = c}}
    <3>1. Room \in Nat /\ DOMAIN a = 0 .. Room - 1 /\ n \in Nat /\ n <= Room
      BY <1>1, <1>2, <1>7
    <3> QED BY ONLY <2>1, <3>1, WantedIs
  <2> QED BY <2>2
<1>11. strchr(a, c).ret = FirstOf(wanted(Ended(s))) /\ strrchr(a, c).ret = LastOf(wanted(Ended(s)))
  <2>1. strchr(a, c).ret = FirstOf(Before(a, c, l + 1)) /\ strrchr(a, c).ret = LastOf(Before(a, c, l + 1))
    BY <1>7 DEF strchr, strrchr, Answer, Gives
  <2> HIDE DEF wanted
  <2> QED BY <1>9, <2>1
<1>12. memchr(a, c, n).ret = K /\ memchr(a, c, n).seen = k
  BY DEF memchr, Gives
<1>13. memrchr(a, c, n).ret = LastOf(hits) /\ memrchr(a, c, n).seen = n
  BY DEF memrchr, Gives
<1>14. strnlen(a, n).ret = Min({n, Len(s)}) /\ strnlen(a, n).seen <= n
  BY <1>2, <1>3, StrnlenIs
<1>15. /\ k \in Nat /\ k <= n /\ (K = Nowhere <=> hits = {})
       /\ (hits = {} => k = n) /\ (hits # {} => k = K + 1)
  BY <1>1, <1>2, <1>7, ScanInside
<1>16. r.ret = (IF hits = {} THEN Nowhere ELSE k) /\ r.mem = Copy(d, 0, a, k) /\ r.seen = k
  BY DEF memccpy, Gives
<1> HIDE DEF hits, K, k, r
<1>17. r.ret = (IF K = Nowhere THEN Nowhere ELSE K + 1) /\ r.seen <= n
  BY <1>2, <1>15, <1>16
<1>18. Holds(r, Bytes(s, IF K = Nowhere THEN n ELSE K + 1), d)
  <2> DEFINE v == Bytes(s, k)
  <2>1. v = [i \in 1 .. k |-> a[i - 1]]
    BY DEF Bytes, a
  <2>2. k <= Room
    BY <1>1, <1>2, <1>15
  <2> HIDE DEF v
  <2>3. Holds(r, v, d)
    BY <1>1, <1>4, <1>15, <1>16, <2>1, <2>2, CopiedBytes
  <2>4. k = IF K = Nowhere THEN n ELSE K + 1
    BY <1>15
  <2> QED BY <2>3, <2>4 DEF v
<1>19. Holds(strlwr(a), [i \in DOMAIN s |-> tolower(s[i])], a)
  <2> DEFINE v == [i \in DOMAIN s |-> tolower(s[i])]
  <2>1. strlwr(a).mem = Map(a, LowerCase)
    BY DEF strlwr, Gives
  <2>2. DOMAIN v = DOMAIN s /\ v = [i \in DOMAIN s |-> v[i]]
    OBVIOUS
  <2>3. \A i \in DOMAIN s : v[i] = LowerCase[s[i]]
    <3> TAKE i \in DOMAIN s
    <3>1. s[i] \in Byte
      BY <1>1
    <3>2. s[i] \in 0 .. 255
      BY <3>1 DEF Byte
    <3>3. LowerCase[s[i]] = tolower(s[i])
      BY <3>2 DEF LowerCase
    <3> QED BY <3>3
  <2> HIDE DEF v
  <2>4. Holds(strlwr(a), v, a)
    BY <1>3, <2>1, <2>2, <2>3, MapIs
  <2> QED BY <2>4 DEF v
<1>20. Holds(strupr(a), Folded(s), a)
  <2> DEFINE v == Folded(s)
  <2>1. strupr(a).mem = Map(a, UpperCase)
    BY DEF strupr, Gives
  <2>2. DOMAIN v = DOMAIN s /\ v = [i \in DOMAIN s |-> v[i]] /\ \A i \in DOMAIN s : v[i] = UpperCase[s[i]]
    BY DEF Folded
  <2> HIDE DEF v
  <2>3. Holds(strupr(a), v, a)
    BY <1>3, <2>1, <2>2, MapIs
  <2> QED BY <2>3 DEF v
<1>21. Holds(strrev(a), [i \in DOMAIN s |-> s[Len(s) + 1 - i]], a)
  BY <1>3, StrrevIs
<1>22. /\ got'.strchr.ret = FirstOf(wanted(Ended(s)))
       /\ got'.strrchr.ret = LastOf(wanted(Ended(s)))
       /\ got'.memchr.ret = FirstOf(wanted(Bytes(s, n)))
       /\ got'.memrchr.ret = LastOf(wanted(Bytes(s, n)))
       /\ got'.strnlen.ret = Min({n, Len(s)})
  <2> HIDE DEF wanted
  <2> QED BY <1>8, <1>10, <1>11, <1>12, <1>13, <1>14 DEF b, K
<1>23. /\ got'.memccpy.ret = (IF K = Nowhere THEN Nowhere ELSE K + 1)
       /\ Holds(got'.memccpy, Bytes(s, IF K = Nowhere THEN n ELSE K + 1), d)
       /\ Holds(got'.strlwr, [i \in DOMAIN s |-> tolower(s[i])], a)
       /\ Holds(got'.strupr, Folded(s), a)
       /\ Holds(got'.strrev, [i \in DOMAIN s |-> s[Len(s) + 1 - i]], a)
  <2>1. got'.memccpy = r
    BY <1>8 DEF r
  <2> QED BY <1>8, <1>17, <1>18, <1>19, <1>20, <1>21, <2>1
<1>24. \A q \in {got'.memchr, got'.memrchr, got'.strnlen, got'.memccpy} : q.seen <= n
  <2>1. got'.memccpy = r
    BY <1>8 DEF r
  <2> QED BY <1>2, <1>8, <1>12, <1>13, <1>14, <1>15, <1>17, <2>1
<1>25. K = FirstOf(wanted(Bytes(s, n)))
  BY <1>10 DEF K, b
<1> HIDE DEF wanted
<1> QED BY <1>22, <1>23, <1>24, <1>25 DEF OneLikeC, a, d, wanted

\* So does every step.
LEMMA StringsNextRight ==
    ASSUME StringsAssumption, StringsLikeC, [StringsNext]_strings
    PROVE  StringsLikeC'
<1>1. CASE UNCHANGED strings
  <2>1. call' = call /\ got' = got
    BY <1>1 DEF strings
  <2>2. TwoLikeC(call.s, call.t)' <=> TwoLikeC(call.s, call.t)
    BY <2>1 DEF TwoLikeC
  <2>3. BoundedLikeC(call.s, call.t, call.n)' <=> BoundedLikeC(call.s, call.t, call.n)
    BY <2>1 DEF BoundedLikeC
  <2>4. OneLikeC(call.s, call.t[1], call.n)' <=> OneLikeC(call.s, call.t[1], call.n)
    BY <2>1 DEF OneLikeC
  <2>5. DuplicateLikeC(call.s, call.n)' <=> DuplicateLikeC(call.s, call.n)
    BY <2>1 DEF DuplicateLikeC
  <2>6. PathLikeC(call.s)' <=> PathLikeC(call.s)
    BY <2>1 DEF PathLikeC
  <2> QED BY <2>1, <2>2, <2>3, <2>4, <2>5, <2>6 DEF StringsLikeC
<1>2. ASSUME NEW s \in Texts, NEW t \in Texts, OnTwo(s, t)
      PROVE  StringsLikeC'
  <2>1. call'.f = "two" /\ call'.s = s /\ call'.t = t
    BY <1>2 DEF OnTwo, Called
  <2>2. TwoLikeC(s, t)'
    BY <1>2, TwoRight
  <2> QED BY <2>1, <2>2 DEF StringsLikeC, TwoLikeC
<1>3. ASSUME NEW s \in Texts, NEW t \in Texts, NEW n \in Bounds, OnTwoBounded(s, t, n)
      PROVE  StringsLikeC'
  <2>1. call'.f = "bounded" /\ call'.s = s /\ call'.t = t /\ call'.n = n
    BY <1>3 DEF OnTwoBounded, Called
  <2>2. BoundedLikeC(s, t, n)'
    BY <1>3, BoundedRight
  <2> QED BY <2>1, <2>2 DEF StringsLikeC, BoundedLikeC
<1>4. ASSUME NEW s \in Texts, NEW c, NEW n \in Bounds, OnOne(s, c, n)
      PROVE  StringsLikeC'
  <2>1. call'.f = "one" /\ call'.s = s /\ call'.t[1] = c /\ call'.n = n
    BY <1>4 DEF OnOne, Called
  <2>2. OneLikeC(s, c, n)'
    BY <1>4, OneRight
  <2> QED BY <2>1, <2>2 DEF StringsLikeC, OneLikeC
<1>5. ASSUME NEW s \in Texts, NEW n \in Bounds, Duplicate(s, n)
      PROVE  StringsLikeC'
  <2>1. call'.f = "duplicate" /\ call'.s = s /\ call'.n = n
    BY <1>5 DEF Duplicate, Called
  <2>2. DuplicateLikeC(s, n)'
    BY <1>5, DuplicateRight
  <2> QED BY <2>1, <2>2 DEF StringsLikeC, DuplicateLikeC
<1>6. ASSUME NEW s \in Paths, OnPath(s)
      PROVE  StringsLikeC'
  <2>1. call'.f = "path" /\ call'.s = s
    BY <1>6 DEF OnPath, Called
  <2>2. PathLikeC(s)'
    BY <1>6, PathRight
  <2> QED BY <2>1, <2>2 DEF StringsLikeC, PathLikeC
<1>7. ASSUME NEW e, NEW n, OnError(e, n)
      PROVE  StringsLikeC'
  <2>1. call'.f = "error"
    BY <1>7 DEF OnError, Called
  <2> QED BY <2>1 DEF StringsLikeC
<1> QED BY <1>1, <1>2, <1>3, <1>4, <1>5, <1>6, <1>7 DEF StringsNext

\* For all texts, paths and bounds: each function leaves the text, and returns the value,
\* that the C standard or the comment in its source says; strncpy and strncmp do so for a
\* bound that a long holds; with a greater one strncpy writes nothing, and strncmp finds no
\* difference.  Each writes no byte outside
\* what it is given, and looks at none behind its bound: but strncmp looks at one, and
\* strndup reads to the NUL.
THEOREM StringsAlwaysLikeC == StringsSpec => []StringsLikeC
<1>1. StringsInit => StringsLikeC
  BY DEF StringsInit, StringsLikeC, NoCall
<1>2. StringsLikeC /\ [StringsNext]_strings => StringsLikeC'
  BY StringsAssumption, StringsNextRight
<1> QED BY <1>1, <1>2, PTL DEF StringsSpec

=============================================================================
