------------------------------ MODULE Environ ------------------------------
(***************************************************************************)
(* The environment: setenv, unsetenv and getenv (setenv.c, getenv.c).       *)
(*                                                                         *)
(* environ points to an array of strings.  The first array is the one the   *)
(* startup code built behind the bss; setenv extends it with realloc, and   *)
(* keeps in last_environ the array it allocated.  The memory of the arrays  *)
(* is modelled by blocks: realloc may extend one where it is or move it.    *)
(***************************************************************************)
EXTENDS Integers, Sequences, SequencesExt

CONSTANTS
    Names, Values,
    MaxGiven,       \* bound: strings in the array the startup code has built
    Blocks,         \* the blocks realloc may return
    MaxEntries,     \* bound: strings in the environment
    Unset,
    NULL,
    FailsAfterMove, \* whether memory for a string may be lacking when realloc has just
                    \* moved the array
    MayReset        \* whether the program sets environ itself

StartBlock == "start"

\* A string NAME=VALUE.
Entry == [name : Names, value : Values]

ASSUME EnvironAssumption ==
    /\ MaxGiven \in Nat
    /\ NULL \notin Blocks /\ StartBlock \notin Blocks
    /\ Unset \notin Values
    /\ MaxEntries \in Nat
    /\ {FailsAfterMove, MayReset} \subseteq BOOLEAN

VARIABLES
    environ,
    last_environ,
    array,      \* what the blocks hold
    held,       \* the blocks that are allocated
    ret         \* the last call, its name, and what it returned

vars == <<environ, last_environ, array, held, ret>>

-----------------------------------------------------------------------------

IsVariable(s, name) == s.name = name

Returned(call, name, code) == [call |-> call, name |-> name, code |-> code]

\* The strings, and the first of them that is NAME=..., or one behind the last.
Strings == array[environ]
IndexIn(strings, name) ==
    LET found == {i \in DOMAIN strings : IsVariable(strings[i], name)}
    IN  IF found = {} THEN Len(strings) + 1
        ELSE CHOOSE i \in found : \A j \in found : i <= j

Getenv(name) ==
    LET i == IndexIn(Strings, name)
    IN  IF i > Len(Strings) THEN Unset ELSE Strings[i].value

\* What realloc(last_environ) may do: nothing (NULL); extend the block; or move
\* to another one, which frees it.
Reallocated ==
    {[block |-> NULL, held |-> held]}
      \cup (IF last_environ = NULL THEN {} ELSE {[block |-> last_environ, held |-> held]})
      \cup {[block |-> b, held |-> (held \ {last_environ}) \cup {b}]
              : b \in Blocks \ held}

\* The blocks when block b has got these strings; one that is free holds nothing.
Stored(b, allocated, strings) ==
    [c \in DOMAIN array |->
        IF c = b THEN strings
        ELSE IF c \in Blocks \ allocated THEN <<>> ELSE array[c]]

\* The array once the new string stands behind size old ones.  realloc brought
\* the strings along where environ is the array it extended; otherwise they are
\* copied.
Extended(size, entry) == Append(SubSeq(Strings, 1, size), entry)

\* What is left in last_environ when realloc has made it as long as the new array is to
\* be, and no string was put there.
Resized(size) ==
    IF last_environ = NULL THEN <<>>
    ELSE LET old == array[last_environ]
         IN  SubSeq(old, 1, IF size < Len(old) THEN size ELSE Len(old))

\* A slip: the strings are not copied, only what realloc brought along is there.
AddEntry_NoCopy(name, value) ==
    LET size == Len(Strings)
    IN  /\ size < MaxEntries
        /\ \E r \in Reallocated :
             IF r.block = NULL
             THEN ret' = Returned("setenv", name, -1) /\ UNCHANGED <<environ, last_environ, array, held>>
             ELSE /\ environ' = r.block
                  /\ last_environ' = r.block
                  /\ held' = r.held
                  /\ array' = Stored(r.block, r.held,
                       (IF last_environ = NULL THEN <<>> ELSE array[last_environ])
                         \o <<[name |-> name, value |-> value]>>)
                  /\ ret' = Returned("setenv", name, 0)

\* A slip: the old block is taken to be the current one even when it moved.
AddEntry_OldBlock(name, value) ==
    \E r \in Reallocated :
      /\ Len(Strings) < MaxEntries
      /\ r.block # NULL
      /\ environ' = IF last_environ = NULL THEN r.block ELSE last_environ
      /\ last_environ' = r.block
      /\ held' = r.held
      /\ array' = Stored(r.block, r.held,
            Extended(Len(Strings), [name |-> name, value |-> value]))
      /\ ret' = Returned("setenv", name, 0)

\* Lines 77 to 111: NAME is not there yet.
AddEntry(name, value) ==
    LET size == Len(Strings)
    IN  /\ size < MaxEntries
        /\ \E r \in Reallocated :
             \/ /\ r.block = NULL
                /\ ret' = Returned("setenv", name, -1)
                /\ UNCHANGED <<environ, last_environ, array, held>>
             \/ /\ r.block # NULL
                /\ environ' = r.block
                /\ last_environ' = r.block
                /\ held' = r.held
                /\ array' = Stored(r.block, r.held,
                     Extended(size, [name |-> name, value |-> value]))
                /\ ret' = Returned("setenv", name, 0)
             \* no memory for the string: realloc is not undone
             \/ /\ r.block # NULL
                /\ FailsAfterMove \/ last_environ \in r.held \cup {NULL}
                /\ held' = r.held
                /\ array' = Stored(r.block, r.held, Resized(size))
                /\ ret' = Returned("setenv", name, -1)
                /\ UNCHANGED <<environ, last_environ>>

\* Lines 112 to 131: NAME is string i.  The old string is not freed.
ReplaceEntry(i, name, value, replace) ==
    /\ \/ /\ replace
          /\ array' = [array EXCEPT ![environ][i] = [name |-> name, value |-> value]]
          /\ ret' = Returned("setenv", name, 0)
       \/ /\ replace
          /\ ret' = Returned("setenv", name, -1)
          /\ UNCHANGED array
       \/ /\ ~replace
          /\ ret' = Returned("setenv", name, 0)
          /\ UNCHANGED array
    /\ UNCHANGED <<environ, last_environ, held>>

Setenv(name, value, replace) ==
    LET i == IndexIn(Strings, name)
    IN  IF i > Len(Strings) THEN AddEntry(name, value)
        ELSE ReplaceEntry(i, name, value, replace)

\* A name that is empty or holds an =, given to setenv or unsetenv.
Invalid(call) ==
    /\ ret' = Returned(call, NULL, -1)
    /\ UNCHANGED <<environ, last_environ, array, held>>

\* The strings that are not NAME=..., in their order: the later ones move back.
Without(strings, name) ==
    LET kept[n \in 0 .. Len(strings)] ==
          IF n = 0 THEN <<>>
          ELSE IF IsVariable(strings[n], name) THEN kept[n - 1]
          ELSE Append(kept[n - 1], strings[n])
    IN  kept[Len(strings)]

Unsetenv(name) ==
    /\ array' = [array EXCEPT ![environ] = Without(Strings, name)]
    /\ ret' = Returned("unsetenv", name, 0)
    /\ UNCHANGED <<environ, last_environ, held>>

\* The program goes back to the array it was started with.
ProgramResets ==
    /\ MayReset
    /\ environ' = StartBlock
    /\ UNCHANGED <<last_environ, array, held, ret>>

\* What the startup code may have built: a name may stand in it twice.
Given == UNION {[1 .. n -> Entry] : n \in 0 .. MaxGiven}

Init ==
    /\ environ = StartBlock
    /\ last_environ = NULL
    /\ array \in {[b \in Blocks \cup {StartBlock} |-> IF b = StartBlock THEN g ELSE <<>>]
                    : g \in Given}
    /\ held = {}
    /\ ret = Returned("none", NULL, 0)

Next ==
    \/ \E name \in Names, value \in Values, replace \in BOOLEAN :
         Setenv(name, value, replace)
    \/ \E call \in {"setenv", "unsetenv"} : Invalid(call)
    \/ \E name \in Names : Unsetenv(name)
    \/ ProgramResets

Spec == Init /\ [][Next]_vars

-----------------------------------------------------------------------------

TypeOK ==
    /\ environ \in Blocks \cup {StartBlock}
    /\ last_environ \in Blocks \cup {NULL}
    /\ array \in [Blocks \cup {StartBlock} -> Seq(Entry)]
    /\ held \subseteq Blocks
    /\ ret \in [call : {"none", "setenv", "unsetenv"}, name : Names \cup {NULL},
               code : {0, -1}]

\* environ points to memory the program has, and so does last_environ (setenv.c:
\* If this variable is not a null pointer we allocated the current environment).
EnvironValid ==
    /\ environ \in held \cup {StartBlock}
    /\ last_environ \in held \cup {NULL}

\* environ and all variables are in order.
EnvironSound == TypeOK /\ EnvironValid

\* The abstract environment: each name has a value or none.
env == [name \in Names |-> Getenv(name)]

Abstract == INSTANCE Environment

\* setenv, unsetenv and getenv do what they promise, also when the program has gone
\* back to its first environment in between, and when there is no memory for the array
\* or for the string (but see FailsAfterMove for a string that finds none behind an
\* array that has moved).
ImplementsEnvironment ==
    Abstract!Init /\ [][Abstract!Next \/ ProgramResets]_<<env, ret>>
=============================================================================
