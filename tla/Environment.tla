---------------------------- MODULE Environment ----------------------------
(***************************************************************************)
(* What setenv, unsetenv and getenv promise: each name has a value or none; *)
(* setenv gives it one, unsetenv takes it away, for all of the strings it   *)
(* may have; a call that fails changes nothing; other names are untouched.  *)
(***************************************************************************)
EXTENDS Integers

CONSTANTS Names, Values, Unset, NULL

VARIABLES
    env,        \* what getenv gives for each name
    ret         \* the last call, its name, and what it returned

Returned(call, name, code) == [call |-> call, name |-> name, code |-> code]

Init ==
    /\ env \in [Names -> Values \cup {Unset}]
    /\ ret = Returned("none", NULL, 0)

Set(name, value, replace) ==
    \/ /\ env' = IF replace \/ env[name] = Unset
                 THEN [env EXCEPT ![name] = value] ELSE env
       /\ ret' = Returned("setenv", name, 0)
    \/ /\ ret' = Returned("setenv", name, -1)
       /\ UNCHANGED env

Remove(name) ==
    /\ env' = [env EXCEPT ![name] = Unset]
    /\ ret' = Returned("unsetenv", name, 0)

\* A call with an empty name, or one with an =.
Reject(call) == ret' = Returned(call, NULL, -1) /\ UNCHANGED env

Next ==
    \/ \E name \in Names, value \in Values, replace \in BOOLEAN :
         Set(name, value, replace)
    \/ \E name \in Names : Remove(name)
    \/ \E call \in {"setenv", "unsetenv"} : Reject(call)

Spec == Init /\ [][Next]_<<env, ret>>
=============================================================================
