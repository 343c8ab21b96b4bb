-------------------------------- MODULE Rand --------------------------------
(***************************************************************************)
(* rand and srand: Schrage's way to compute A * _lseed % M without a        *)
(* product that leaves a 32 bit long.  In the code A = 16807 and            *)
(* M = 2^31 - 1.                                                            *)
(***************************************************************************)
EXTENDS Integers

CONSTANTS
    A,          \* the multiplier
    M,          \* the modulus
    Seeds       \* arguments of srand

Q == M \div A
R == M % A

\* Schrage's condition, and seeds a generator modulo M can start from.
ASSUME RandAssumption ==
    /\ A \in Nat \ {0} /\ M \in Nat \ {0}
    /\ 1 < M
    /\ M % A < M \div A
    /\ Seeds \subseteq 1 .. M - 1

VARIABLE _lseed

randVars == <<_lseed>>

RandInit == _lseed = 1

\* A slip: one too much is added.
Positive_Off(x) == IF x < 0 THEN x + M + 1 ELSE x

\* "if (_lseed < 0) _lseed += M"
Positive(x) == IF x < 0 THEN x + M ELSE x

LeftProduct(s) == A * (s % Q)

RightProduct(s) == R * (s \div Q)

rand == _lseed' = Positive(LeftProduct(_lseed) - RightProduct(_lseed))

srand(seed) == _lseed' = seed

RandNext == rand \/ \E seed \in Seeds : srand(seed)

RandSpec == RandInit /\ [][RandNext]_randVars

-----------------------------------------------------------------------------
(* Properties. *)

\* The seed stays in 0 .. M - 1, so that rand's results stay up to RAND_MAX.
RandTypeOK == _lseed \in 0 .. M - 1

\* Neither product of a call leaves the range of the long it is computed in.
NoOverflow == LeftProduct(_lseed) < M /\ RightProduct(_lseed) < M

\* Every call of rand multiplies the seed by A modulo M.
IsLehmer == [][rand => _lseed' = (A * _lseed) % M]_randVars

\* rand computes in 32 bits what it would compute in 64, and its results stay in range.
RandIsExact == []RandTypeOK /\ []NoOverflow /\ IsLehmer
=============================================================================
