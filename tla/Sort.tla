-------------------------------- MODULE Sort --------------------------------
(***************************************************************************)
(* qsort: quicksort down to partitions of MAX_THRESH + 1 items, with the    *)
(* larger part put on a stack, and an insertion sort of the whole array.    *)
(* One step is one comparison of an inner loop.  Items are numbers, and the *)
(* comparison is <; a pointer is an index.                                  *)
(***************************************************************************)
EXTENDS Integers, Sequences, FiniteSets

CONSTANT
    Inputs      \* the arrays, each with a MAX_THRESH; it is 4 in the code

Sorting == [items : Seq(Nat), thresh : Nat \ {0}]

ASSUME SortAssumption == Inputs \subseteq Sorting

VARIABLES
    input,
    array,
    pc,             \* the loop that runs
    lo, hi,         \* the partition that is sorted
    left, right,    \* left_ptr and right_ptr
    pivot,          \* the item in pivot_buffer
    stack,          \* partitions that are put off
    run, tmp        \* run_ptr and tmp_ptr of the insertion sort

sortVars == <<input, array, pc, lo, hi, left, right, pivot, stack, run, tmp>>

Size == Len(input.items)
MaxThresh == input.thresh
Least(x, y) == IF x < y THEN x ELSE y

\* s with the items at i and j exchanged.
Swap(s, i, j) == [s EXCEPT ![i] = s[j], ![j] = s[i]]

SortInit ==
    /\ input \in Inputs
    /\ array = input.items
    /\ pc = IF Size = 0 THEN "done"
            ELSE IF Size > MaxThresh THEN "median" ELSE "first"
    /\ lo = 1 /\ hi = Size
    /\ left = 1 /\ right = 1 /\ pivot = 0
    /\ stack = <<>>
    /\ run = 3 /\ tmp = 2

\* s with the items at i, j and k in order.
Ordered(s, i, j, k) ==
    LET s1 == IF s[j] < s[i] THEN Swap(s, i, j) ELSE s
        s2 == IF s1[k] < s1[j] THEN Swap(s1, j, k) ELSE s1
    IN  IF s1[k] < s1[j] /\ s2[j] < s2[i] THEN Swap(s2, i, j) ELSE s2

Median ==
    /\ pc = "median"
    /\ LET mid == lo + (hi - lo) \div 2
       IN  /\ array' = Ordered(array, lo, mid, hi)
           /\ pivot' = array'[mid]
    /\ left' = lo + 1 /\ right' = hi - 1
    /\ pc' = "left"
    /\ UNCHANGED <<input, lo, hi, stack, run, tmp>>

Left ==
    /\ pc = "left"
    /\ IF array[left] < pivot THEN left' = left + 1 /\ UNCHANGED pc
       ELSE pc' = "right" /\ UNCHANGED left
    /\ UNCHANGED <<input, array, lo, hi, right, pivot, stack, run, tmp>>

Right ==
    /\ pc = "right"
    /\ IF pivot < array[right] THEN right' = right - 1 /\ UNCHANGED pc
       ELSE pc' = "meet" /\ UNCHANGED right
    /\ UNCHANGED <<input, array, lo, hi, left, pivot, stack, run, tmp>>

\* A slip: nothing is done where the walls meet.
Meet_Stays ==
    /\ pc = "meet"
    /\ IF left < right
       THEN /\ array' = Swap(array, left, right)
            /\ left' = left + 1 /\ right' = right - 1
       ELSE UNCHANGED <<array, left, right>>
    /\ pc' = IF left' <= right' THEN "left" ELSE "split"
    /\ UNCHANGED <<input, lo, hi, pivot, stack, run, tmp>>

Meet ==
    /\ pc = "meet"
    /\ array' = IF left < right THEN Swap(array, left, right) ELSE array
    /\ IF left <= right THEN left' = left + 1 /\ right' = right - 1
       ELSE UNCHANGED <<left, right>>
    /\ pc' = IF left # right /\ left' <= right' THEN "left" ELSE "split"
    /\ UNCHANGED <<input, lo, hi, pivot, stack, run, tmp>>

\* The larger part is put off.
Later(l, r) ==
    IF r - lo > hi - l THEN [later |-> <<lo, r>>, now |-> <<l, hi>>]
    ELSE [later |-> <<l, hi>>, now |-> <<lo, r>>]

Split ==
    /\ pc = "split"
    /\ LET smallLeft  == right - lo <= MaxThresh
           smallRight == hi - left <= MaxThresh
           both       == Later(left, right)
       IN  \/ /\ smallLeft /\ smallRight /\ stack = <<>>
              /\ pc' = "first"
              /\ UNCHANGED <<lo, hi, stack>>
           \/ /\ smallLeft /\ smallRight /\ stack # <<>>
              /\ lo' = stack[Len(stack)][1] /\ hi' = stack[Len(stack)][2]
              /\ stack' = SubSeq(stack, 1, Len(stack) - 1)
              /\ pc' = "median"
           \/ /\ smallLeft /\ ~smallRight
              /\ lo' = left
              /\ pc' = "median"
              /\ UNCHANGED <<hi, stack>>
           \/ /\ ~smallLeft /\ smallRight
              /\ hi' = right
              /\ pc' = "median"
              /\ UNCHANGED <<lo, stack>>
           \/ /\ ~smallLeft /\ ~smallRight
              /\ stack' = Append(stack, both.later)
              /\ lo' = both.now[1] /\ hi' = both.now[2]
              /\ pc' = "median"
    /\ UNCHANGED <<input, array, left, right, pivot, run, tmp>>

\* A slip: no smaller item is looked for.
FirstPlaces_One == {1}

\* Where the smallest item must be, after the quicksort.
FirstPlaces == 1 .. Least(Size, MaxThresh + 1)

\* The first of the smallest items goes to the front.
First ==
    /\ pc = "first"
    /\ \E s \in FirstPlaces :
         /\ \A i \in FirstPlaces : array[s] <= array[i] /\ (i < s => array[s] < array[i])
         /\ array' = Swap(array, 1, s)
    /\ pc' = IF Size >= 3 THEN "insert" ELSE "done"
    /\ UNCHANGED <<input, lo, hi, left, right, pivot, stack, run, tmp>>

\* s with the item at from put at to, and those between moved up.
Moved(s, from, to) ==
    [i \in DOMAIN s |-> IF i = to THEN s[from]
                        ELSE IF i \in to + 1 .. from THEN s[i - 1] ELSE s[i]]

\* A slip: the last item is left where it is.
InsertGoesOn_NotLast == run + 1 < Size

\* Whether there is another item to insert.
InsertGoesOn == run + 1 <= Size

Insert ==
    /\ pc = "insert"
    /\ \/ /\ array[run] < array[tmp]
          /\ tmp' = tmp - 1
          /\ UNCHANGED <<array, run, pc>>
       \/ /\ array[run] >= array[tmp]
          /\ array' = Moved(array, run, tmp + 1)
          /\ run' = run + 1 /\ tmp' = run
          /\ pc' = IF InsertGoesOn THEN "insert" ELSE "done"
    /\ UNCHANGED <<input, lo, hi, left, right, pivot, stack>>

SortNext == Median \/ Left \/ Right \/ Meet \/ Split \/ First \/ Insert

SortSpec == SortInit /\ [][SortNext]_sortVars

-----------------------------------------------------------------------------

SortTypeOK ==
    /\ pc \in {"median", "left", "right", "meet", "split", "first", "insert", "done"}
    /\ input \in Inputs
    /\ array \in Seq(Nat) /\ Len(array) = Size
    /\ lo \in Nat /\ hi \in Nat /\ left \in Nat /\ right \in Nat /\ pivot \in Nat
    /\ run \in Nat /\ tmp \in Nat
    /\ stack \in Seq((1 .. Size) \X (1 .. Size))

\* No item is read outside the array: the inner loops have no test of their own,
\* they rely on the median of three and on the smallest item in front.  And the
\* sizes of the parts, which the code takes for unsigned, are not negative.
StaysInArray ==
    /\ pc \in {"median", "split"} => 1 <= lo /\ lo <= hi /\ hi <= Size
    /\ pc = "left" => left \in 1 .. Size
    /\ pc = "right" => right \in 1 .. Size
    /\ pc = "split" => lo <= right /\ left <= hi
    /\ pc = "insert" => tmp \in 1 .. Size /\ run \in 1 .. Size

\* How often v is in s.
Occurs(s, v) == Cardinality({i \in DOMAIN s : s[i] = v})

\* The array always holds the items it held.
KeepsItems ==
    \A k \in 1 .. Size : Occurs(array, input.items[k]) = Occurs(input.items, input.items[k])

\* The quicksort leaves no two items out of order that are further apart than
\* insertion sort is meant for.
NearlySorted ==
    pc = "first" => \A i, j \in 1 .. Size : i + MaxThresh < j => array[i] <= array[j]

\* What qsort returns is in order.
ReturnsInOrder == pc = "done" => \A i, j \in 1 .. Size : i < j => array[i] <= array[j]

\* 2 to the power of n.
Doubled[n \in Nat] == IF n = 0 THEN 1 ELSE 2 * Doubled[n - 1]

\* qsort.c: the smaller part first guarantees no more than log (n) stack size.
StackBounded == pc = "median" => (hi - lo + 1) * Doubled[Len(stack)] <= Size

\* The inner loops, which do not look for the ends of the array, stay in it, and the
\* partitions put off are as many as the logarithm of the size at most.
InBounds == SortTypeOK /\ StaysInArray /\ StackBounded

\* The array holds the items it held; the quicksort leaves nothing that the insertion
\* sort is not meant for; and what qsort returns is in order.
Sorted == KeepsItems /\ ReturnsInOrder /\ NearlySorted
=============================================================================
