------------------------------- MODULE Search -------------------------------
(***************************************************************************)
(* bsearch in an array in order: the key is between the indices a and b,    *)
(* or nowhere.  Indices count from 0, as in the code; a step is one round   *)
(* of the loop.                                                             *)
(***************************************************************************)
EXTENDS Integers

CONSTANTS
    Num,        \* the number of items
    Base,       \* the items
    Keys        \* what is looked for

InOrder == \A i, j \in 0 .. Num - 1 : i <= j => Base[i] <= Base[j]

ASSUME SearchAssumption ==
    /\ Num \in Nat
    /\ Base \in [0 .. Num - 1 -> Int]
    /\ Keys \subseteq Int
    /\ InOrder

VARIABLES key, a, b, ret

vars == <<key, a, b, ret>>

Null == -1      \* not an index
NotYet == -2      \* bsearch has not returned

Init ==
    /\ key \in Keys
    /\ a = 0 /\ b = Num
    /\ ret = NotYet

Middle == (a + b) \div 2

\* A slip: the search ends below what is in front of the middle.
LowerEnd_Less(c) == c - 1

\* Where the search goes on above the middle, and where it ends below it.
UpperStart(c) == c + 1
LowerEnd(c) == c

Compare ==
    /\ ret = NotYet /\ a < b
    /\ \/ /\ key < Base[Middle]
          /\ b' = LowerEnd(Middle)
          /\ UNCHANGED <<a, ret>>
       \/ /\ key > Base[Middle]
          /\ a' = UpperStart(Middle)
          /\ UNCHANGED <<b, ret>>
       \/ /\ key = Base[Middle]
          /\ ret' = Middle
          /\ UNCHANGED <<a, b>>
    /\ UNCHANGED key

NotThere ==
    /\ ret = NotYet /\ a >= b
    /\ ret' = Null
    /\ UNCHANGED <<key, a, b>>

Next == Compare \/ NotThere

Spec == Init /\ [][Next]_vars

-----------------------------------------------------------------------------

\* What is found is the key; and when nothing is found it is not in the array.
FindsIt ==
    /\ ret \notin {NotYet, Null} => ret \in 0 .. Num - 1 /\ Base[ret] = key
    /\ ret = Null => \A i \in 0 .. Num - 1 : Base[i] # key

\* The item that is compared is one of the array.
StaysInside == ret = NotYet /\ a < b => Middle \in 0 .. Num - 1

\* Both: an off-by-one at either end loses a key or leaves the array.
SearchSound == FindsIt /\ StaysInside
=============================================================================
