----------------------------- MODULE Allocator -----------------------------
(***************************************************************************)
(* What malloc, free and realloc promise the program, whatever the heap     *)
(* looks like inside: the blocks the program holds never overlap, and a     *)
(* block that moves has its new place clear of the old one, so that its     *)
(* contents can be copied.  A call may fail and change nothing.             *)
(***************************************************************************)
EXTENDS Naturals

CONSTANTS Pointer,  \* the addresses a block may start at
          Size      \* the sizes of blocks

VARIABLE live       \* the blocks in the program's hands: pointer to size

Apart(p, n, q, m) == p + n <= q \/ q + m <= p

\* A block of n bytes at p is new to the blocks in f and overlaps none.
Clear(p, n, f) == p \notin DOMAIN f /\ \A q \in DOMAIN f : Apart(p, n, q, f[q])

Without(p) == [q \in DOMAIN live \ {p} |-> live[q]]
With(f, p, n) == [q \in DOMAIN f \cup {p} |-> IF q = p THEN n ELSE f[q]]

Acquire(p, n) == Clear(p, n, live) /\ live' = With(live, p, n)

Release(p) == p \in DOMAIN live /\ live' = Without(p)

\* The block at p gets n bytes where it is, or moves to q.
ResizeHere(p, n) ==
    /\ p \in DOMAIN live
    /\ Clear(p, n, Without(p))
    /\ live' = With(live, p, n)

ResizeMoving(p, q, n) ==
    /\ p \in DOMAIN live
    /\ Clear(q, n, live)
    /\ live' = With(Without(p), q, n)

Init == live = [p \in {} |-> 0]

Next ==
    \/ \E p \in Pointer, n \in Size : Acquire(p, n) \/ ResizeHere(p, n)
    \/ \E p \in Pointer : Release(p)
    \/ \E p, q \in Pointer, n \in Size : ResizeMoving(p, q, n)

Spec == Init /\ [][Next]_live

-----------------------------------------------------------------------------
\* Blocks in use never share a byte.
BlocksApart ==
    \A p, q \in DOMAIN live : p # q => Apart(p, live[p], q, live[q])
=============================================================================
