------------------------------ MODULE Cookies -------------------------------
(***************************************************************************)
(* Getcookie: the walk over the system's cookie jar, a row of entries of a  *)
(* name and a value.  An entry of the name zero ends it; its value is the   *)
(* room in the jar.  One step is one turn of the loop.                      *)
(***************************************************************************)
EXTENDS Naturals, Sequences

CONSTANTS
    Names,      \* the names of cookies
    Values,
    Room        \* entries the jar has room for

CookiesAssumption == 0 \notin Names /\ Room \in Nat /\ Values \subseteq Nat

Zero == 0
Entry == [name: Names, value: Values]
End == [name |-> Zero, value |-> Room]

VARIABLES
    jar,        \* the entries and the end; <<>> on a system without a jar
    pc,
    cookie,     \* what is looked for
    at,         \* cookiejar, as an index
    found,      \* C_FOUND
    value       \* *p_value

vars == <<jar, pc, cookie, at, found, value>>

\* A system that has a jar puts its own cookies there first.
Init ==
    /\ jar \in {<<>>} \cup {<<e, End>> : e \in Entry}
    /\ pc = "idle"
    /\ cookie = Zero /\ at = 1
    /\ found = FALSE /\ value = 0

\* A driver puts a cookie in front of the end.
Install(e) ==
    /\ pc # "walk"
    /\ jar # <<>> /\ Len(jar) < Room
    /\ jar' = Append([jar EXCEPT ![Len(jar)] = e], End)
    /\ pc' = "idle"
    /\ UNCHANGED <<cookie, at, found, value>>

Getcookie(c) ==
    /\ pc # "walk"
    /\ cookie' = c /\ at' = 1
    /\ value' = 0 /\ found' = FALSE
    /\ pc' = IF jar = <<>> THEN "done" ELSE "walk"
    /\ UNCHANGED jar

Found ==
    /\ pc = "walk" /\ jar[at].name = cookie
    /\ value' = jar[at].value /\ found' = TRUE
    /\ pc' = "done"
    /\ UNCHANGED <<jar, cookie, at>>

Ends(i) == jar[i].name = Zero

Other ==
    /\ pc = "walk" /\ jar[at].name # cookie
    /\ at' = at + 1
    /\ pc' = IF Ends(at + 1) THEN "done" ELSE "walk"
    /\ UNCHANGED <<jar, cookie, found, value>>

Next ==
    \/ \E e \in Entry : Install(e)
    \/ \E c \in Names \cup {Zero} : Getcookie(c)
    \/ Found
    \/ Other

Spec == Init /\ [][Next]_vars

-----------------------------------------------------------------------------
(* Properties. *)

\* The walk never leaves the jar.
TypeOK ==
    /\ jar \in Seq(Entry \cup {End})
    /\ pc \in {"idle", "walk", "done"}
    /\ cookie \in Names \cup {Zero}
    /\ pc = "walk" => at \in 1 .. Len(jar)
    /\ found \in BOOLEAN /\ value \in Values \cup {0}

Cookies == {i \in 1 .. Len(jar) : jar[i].name # Zero}

\* Getcookie finds a cookie exactly when there is one, gives the value of the
\* first one of the name, and zero for the others.
AnswersTheJar ==
    pc = "done" /\ cookie # Zero =>
        LET Matches == {i \in Cookies : jar[i].name = cookie}
        IN  /\ found <=> Matches # {}
            /\ IF found
               THEN \E i \in Matches : value = jar[i].value /\ \A k \in Matches : i <= k
               ELSE value = 0
=============================================================================
