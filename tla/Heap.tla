-------------------------------- MODULE Heap --------------------------------
(***************************************************************************)
(* The memory allocator of libcmini: malloc.c, free.c, realloc.c, calloc.c  *)
(* and mallint.h.                                                           *)
(*                                                                         *)
(* Memory got from GEMDOS in "hunks" is cut into chunks.  A chunk starts    *)
(* with a header (struct mem_chunk).  Free chunks, and one VAL_SBRK chunk   *)
(* at the start of every hunk, are on a circular doubly linked list with    *)
(* the static header _mchunk_free_list as its head; allocated chunks are    *)
(* on no list.  Every call runs to completion before the next one starts    *)
(* (the library has no threads), so each call is one action.                *)
(***************************************************************************)
EXTENDS Naturals, FiniteSets

CONSTANTS
    Top,            \* the addresses are 1 .. Top
    HeaderSize,     \* sizeof(struct mem_chunk)
    SizeTSize,      \* sizeof(size_t)
    Alignment,      \* MALLOC_ALIGNMENT
    PageSize,       \* page_size in malloc
    InitMinHunk,    \* what MINHUNK starts as
    InitMaxHunk,    \* what MAXHUNK starts as
    SizeLimit,      \* size_t arithmetic is modulo SizeLimit
    Requests,       \* the sizes the program asks for
    ChunkSizes,     \* the sizes the program gives __mallocChunkSize
    Places,         \* the addresses at which GEMDOS may place a hunk
    MaxLive         \* bound: blocks the program holds at once

RoundUp(n, unit) == ((n + unit - 1) \div unit) * unit

AllocExtra == RoundUp(HeaderSize, Alignment)
SbrkExtra  == RoundUp(HeaderSize + SizeTSize, Alignment)

\* What malloc makes of a request of n bytes.
ChunkSizeFor(n) == (AllocExtra + RoundUp(n, Alignment)) % SizeLimit

\* The bytes malloc asks GEMDOS for when it needs a chunk of the given size.
HunkSizeFor(size, minHunk) ==
    RoundUp(IF size + SbrkExtra > minHunk THEN size + SbrkExtra ELSE minHunk,
            PageSize)

ASSUME SizesAssumption ==
    /\ {Top, SizeTSize, InitMinHunk, InitMaxHunk, MaxLive} \subseteq Nat
    /\ {HeaderSize, Alignment, PageSize, SizeLimit} \subseteq Nat \ {0}
    /\ ChunkSizes \subseteq Nat
    /\ Places \subseteq 1 .. Top

\* No request comes so close to SizeLimit that adding the header wraps.
ASSUME RequestsAssumption ==
    /\ Requests \subseteq Nat
    /\ \A n \in Requests : ChunkSizeFor(n) >= AllocExtra + n

Addr == 1 .. Top
ListHead == 0           \* &_mchunk_free_list
NULL == 0
Link == Addr \cup {ListHead}

-----------------------------------------------------------------------------
(***************************************************************************)
(* The chunk list.  heap.valid[a] is "NONE" where no chunk starts; the      *)
(* fields of such an address, and the links of an allocated chunk, are      *)
(* never read by the code and are kept at 0.                                *)
(***************************************************************************)

VARIABLES
    heap,       \* the headers: valid, next, prev, size, and SBRK_SIZE
    MINHUNK,
    MAXHUNK,
    hunks,      \* GEMDOS: the hunks the program holds, base to length
    live,       \* the program: its blocks, pointer to the size asked for
    errno       \* "none" is 0

allocator == <<heap, MINHUNK, MAXHUNK, hunks>>
vars == <<heap, MINHUNK, MAXHUNK, hunks, live, errno>>

HeapType == [valid : [Addr -> {"NONE", "FREE", "ALLOC", "SBRK"}],
             next  : [Link -> Link],
             prev  : [Link -> Link],
             size  : [Addr -> Nat],
             sbrk  : [Addr -> Nat]]

EmptyHeap == [valid |-> [a \in Addr |-> "NONE"],
              next  |-> [a \in Link |-> ListHead],
              prev  |-> [a \in Link |-> ListHead],
              size  |-> [a \in Addr |-> 0],
              sbrk  |-> [a \in Addr |-> 0]]

Nodes(h)  == {a \in Addr : h.valid[a] \in {"FREE", "SBRK"}}
Chunks(h) == {a \in Addr : h.valid[a] # "NONE"}
List(h)   == Nodes(h) \cup {ListHead}

\* Where a walk from head->next that stops at the first member of S, or on
\* coming back to the head, ends: the list is in ascending order.
FirstOf(S) == IF S = {} THEN ListHead ELSE CHOOSE a \in S : \A b \in S : a <= b

\* Link chunk a into the list in front of node p.
LinkBefore(h, a, p) ==
    [h EXCEPT !.next = [@ EXCEPT ![a] = p, ![h.prev[p]] = a],
              !.prev = [@ EXCEPT ![a] = h.prev[p], ![p] = a]]

\* Take node a off the list, leaving a header of the given kind.
Unlink(h, a, kind) ==
    LET next == [h.next EXCEPT ![h.prev[a]] = h.next[a]]
        prev == [h.prev EXCEPT ![h.next[a]] = h.prev[a]]
    IN  [h EXCEPT !.valid[a] = kind,
                  !.next = [next EXCEPT ![a] = ListHead],
                  !.prev = [prev EXCEPT ![a] = ListHead]]

\* There is no chunk at a any more.
Vanish(h, a) ==
    [Unlink(h, a, "NONE") EXCEPT !.size[a] = 0, !.sbrk[a] = 0]

\* Chunk b, a node directly behind chunk a, becomes part of it.
Absorb(h, a, b) ==
    [Vanish(h, b) EXCEPT !.size[a] = h.size[a] + h.size[b]]

\* A slip: the search wants more room than it needs.
FirstFit_Strict(h, size) ==
    FirstOf({b \in Nodes(h) : h.valid[b] # "SBRK" /\ h.size[b] > size})

\* The first node that is not below address a, and the first fit.
NodeFrom(h, a) == FirstOf({b \in Nodes(h) : b >= a})
FirstFit(h, size) ==
    FirstOf({b \in Nodes(h) : h.valid[b] # "SBRK" /\ h.size[b] >= size})

\* "while (q != head && !stop) q = q->next" from head->next, followed link by
\* link; the walk is cut after as many steps as there are nodes.
Walk(h, stops) ==
    LET at[k \in 0 .. Cardinality(Nodes(h))] ==
          IF k = 0 THEN h.next[ListHead]
          ELSE LET q == at[k - 1]
               IN  IF q = ListHead \/ q \in stops THEN q ELSE h.next[q]
    IN  at[Cardinality(Nodes(h))]

-----------------------------------------------------------------------------
(***************************************************************************)
(* malloc                                                                   *)
(***************************************************************************)

\* A hunk of the given length at base joins the list: its VAL_SBRK chunk and
\* behind it one free chunk with all the rest.
AddHunk(h, base, length) ==
    LET p     == NodeFrom(h, base)
        first == base + SbrkExtra
        g     == LinkBefore([h EXCEPT !.valid[base] = "SBRK",
                                      !.size[base] = SbrkExtra,
                                      !.sbrk[base] = length - SbrkExtra],
                            base, p)
    IN  LinkBefore([g EXCEPT !.valid[first] = "FREE",
                             !.size[first] = length - SbrkExtra],
                   first, p)

\* Whether free chunk q is cut in two to give a chunk of the given size, and
\* the chunk handed out then: the upper part, or all of q.
Splits(h, q, size) == h.size[q] > size + AllocExtra
Carved(h, q, size) ==
    IF Splits(h, q, size) THEN q + (h.size[q] - size) ELSE q

Carve(h, q, size) ==
    IF Splits(h, q, size)
    THEN LET a == Carved(h, q, size)
         IN  [h EXCEPT !.valid[a] = "ALLOC",
                       !.size[q] = h.size[q] - size,
                       !.size[a] = size]
    ELSE Unlink(h, q, "ALLOC")

\* GEMDOS: where a hunk of the given length fits.  Hunks may touch.
Vacant(hk, length) ==
    {b \in Places :
        /\ b + length <= Top + 1
        /\ \A s \in DOMAIN hk : b + length <= s \/ s + hk[s] <= b}

WithHunk(hk, base, length) ==
    [s \in DOMAIN hk \cup {base} |-> IF s = base THEN length ELSE hk[s]]

\* What malloc(n) may return, and the allocator's state after it.  GEMDOS may
\* refuse at any time; MINHUNK has been doubled by then.
MallocResults(n) ==
    LET size == ChunkSizeFor(n)
        fit  == FirstFit(heap, size)
        length == HunkSizeFor(size, MINHUNK)
        min == IF size + SbrkExtra <= MINHUNK /\ MINHUNK < MAXHUNK
               THEN 2 * MINHUNK ELSE MINHUNK
    IN  IF fit # ListHead
        THEN {[chunk |-> Carved(heap, fit, size), min |-> MINHUNK,
               heap |-> Carve(heap, fit, size), hunks |-> hunks]}
        ELSE {[chunk |-> NULL, min |-> min, heap |-> heap, hunks |-> hunks]}
             \cup
             {LET grown == AddHunk(heap, b, length)
                  q     == b + SbrkExtra
              IN  [chunk |-> Carved(grown, q, size), min |-> min,
                   heap  |-> Carve(grown, q, size),
                   hunks |-> WithHunk(hunks, b, length)]
                : b \in Vacant(hunks, length)}

Holding(f, p, n) ==
    [q \in DOMAIN f \cup {p} |-> IF q = p THEN n ELSE f[q]]
Dropping(f, p) == [q \in DOMAIN f \ {p} |-> f[q]]

Malloc(n) ==
    /\ Cardinality(DOMAIN live) < MaxLive
    /\ \E out \in MallocResults(n) :
         /\ heap' = out.heap
         /\ hunks' = out.hunks
         /\ MINHUNK' = out.min
         /\ IF out.chunk = NULL
            THEN errno' = "ENOMEM" /\ UNCHANGED live
            ELSE /\ live' = Holding(live, out.chunk + AllocExtra, n)
                 /\ UNCHANGED errno
    /\ UNCHANGED MAXHUNK

\* calloc: the product is taken in size_t; clearing the block is not modelled.
Calloc(n, sz) ==
    LET total == (n * sz) % SizeLimit
    IN  total \in Requests /\ Malloc(total)

-----------------------------------------------------------------------------
(***************************************************************************)
(* free                                                                     *)
(***************************************************************************)

LinkInOrder(h, r) ==
    LinkBefore([h EXCEPT !.valid[r] = "FREE"], r, NodeFrom(h, r))

MergeAfter(h, r) ==
    LET next == h.next[r]
    IN  IF next # ListHead /\ r + h.size[r] = next /\ h.valid[next] = "FREE"
        THEN Absorb(h, r, next) ELSE h

\* A slip: the node before is never found adjacent.
MergesBefore_Never(h, r) ==
    LET prev == h.prev[r]
    IN  prev # ListHead /\ h.valid[prev] = "FREE" /\ prev + h.size[prev] = r + AllocExtra

MergesBefore(h, r) ==
    LET prev == h.prev[r]
    IN  prev # ListHead /\ h.valid[prev] = "FREE" /\ prev + h.size[prev] = r

\* The heap once allocated chunk r is back on the list, and the free chunk
\* that r is now or has become part of.
Freed(h, r) ==
    LET g == MergeAfter(LinkInOrder(h, r), r)
    IN  IF MergesBefore(g, r)
        THEN [heap |-> Absorb(g, g.prev[r], r), chunk |-> g.prev[r]]
        ELSE [heap |-> g, chunk |-> r]

\* Free chunk r is all there is of the hunk whose VAL_SBRK chunk is before it.
FillsHunk(h, r) ==
    LET s == h.prev[r]
    IN  s # ListHead /\ h.valid[s] = "SBRK" /\ h.sbrk[s] = h.size[r]

\* free(r): link, merge, and give an empty hunk back to GEMDOS.
FreeResult(h, hk, r) ==
    LET f == Freed(h, r)
        s == f.heap.prev[f.chunk]
    IN  IF FillsHunk(f.heap, f.chunk)
        THEN [heap |-> Vanish(Vanish(f.heap, f.chunk), s),
              hunks |-> Dropping(hk, s)]
        ELSE [heap |-> f.heap, hunks |-> hk]

\* A pointer whose header does not say VAL_ALLOC: one freed before, whose
\* header is that of a free chunk still.
Stale(p) == p # NULL /\ \E r \in Addr : p = r + AllocExtra /\ heap.valid[r] = "FREE"

FreeChunk(p) ==
    LET out == FreeResult(heap, hunks, p - AllocExtra)
    IN  /\ heap' = out.heap
        /\ hunks' = out.hunks
        /\ live' = Dropping(live, p)
        /\ UNCHANGED <<MINHUNK, MAXHUNK>>

Free(p) ==
    /\ p \in DOMAIN live
    /\ FreeChunk(p)
    /\ UNCHANGED errno

\* free(NULL), and free of a pointer that is free already.
FreeIgnored(p) ==
    /\ p = NULL \/ Stale(p)
    /\ UNCHANGED vars

-----------------------------------------------------------------------------
(***************************************************************************)
(* realloc                                                                  *)
(***************************************************************************)

\* realloc(NULL, n)
ReallocNull(n) == Malloc(n)

\* realloc(p, 0)
ReallocZero(p) ==
    /\ p \in DOMAIN live
    /\ FreeChunk(p)
    /\ errno' = "none"

ReallocStale(p, n) ==
    /\ n # 0
    /\ Stale(p)
    /\ errno' = "EINVAL"
    /\ UNCHANGED <<allocator, live>>

\* A slip: the old block goes before the new one is asked for (the failing
\* case is left as it is).
Move_FreeFirst(p, n, whenFull) ==
    LET rest == FreeResult(heap, hunks, p - AllocExtra)
        size == ChunkSizeFor(n)
        fit  == FirstFit(rest.heap, size)
    IN  /\ fit # ListHead
        /\ heap' = Carve(rest.heap, fit, size)
        /\ hunks' = rest.hunks
        /\ live' = Holding(Dropping(live, p), Carved(rest.heap, fit, size) + AllocExtra, n)
        /\ UNCHANGED <<MINHUNK, MAXHUNK, errno>>

\* malloc(n), copy, free(p): whenFull says what becomes of the program's block
\* when malloc returns NULL.
Move(p, n, whenFull) ==
    /\ \E out \in MallocResults(n) :
         IF out.chunk = NULL
         THEN /\ heap' = out.heap
              /\ hunks' = out.hunks
              /\ MINHUNK' = out.min
              /\ live' = whenFull
              /\ errno' = "ENOMEM"
         ELSE LET rest == FreeResult(out.heap, out.hunks, p - AllocExtra)
              IN  /\ heap' = rest.heap
                  /\ hunks' = rest.hunks
                  /\ MINHUNK' = out.min
                  /\ live' = Holding(Dropping(live, p), out.chunk + AllocExtra, n)
                  /\ UNCHANGED errno
    /\ UNCHANGED MAXHUNK

ShrinksBy(p, n) == heap.size[p - AllocExtra] > ChunkSizeFor(n) + 2 * AllocExtra
TooSmall(p, n)  == heap.size[p - AllocExtra] < ChunkSizeFor(n)

\* A slip: the size of the two together is not looked at.
CanExtend_AnySize(p, n) ==
    LET r == p - AllocExtra
        next == NodeFrom(heap, r)
    IN  /\ next # ListHead
        /\ r + heap.size[r] = next
        /\ heap.valid[next] = "FREE"

\* The chunk behind p's is free, and the two are enough.
CanExtend(p, n) ==
    LET r == p - AllocExtra
        next == NodeFrom(heap, r)
    IN  /\ next # ListHead
        /\ r + heap.size[r] = next
        /\ heap.size[r] + heap.size[next] >= ChunkSizeFor(n)
        /\ heap.valid[next] = "FREE"

ReallocDown(p, n) ==
    /\ p \in DOMAIN live /\ n # 0
    /\ ShrinksBy(p, n)
    /\ Move(p, n, [live EXCEPT ![p] = n])

ReallocInPlace(p, n) ==
    /\ p \in DOMAIN live /\ n # 0
    /\ ~ShrinksBy(p, n) /\ ~TooSmall(p, n)
    /\ live' = [live EXCEPT ![p] = n]
    /\ UNCHANGED <<allocator, errno>>

ReallocExtend(p, n) ==
    /\ p \in DOMAIN live /\ n # 0
    /\ TooSmall(p, n) /\ CanExtend(p, n)
    /\ LET r == p - AllocExtra
       IN  heap' = Absorb(heap, r, NodeFrom(heap, r))
    /\ live' = [live EXCEPT ![p] = n]
    /\ UNCHANGED <<MINHUNK, MAXHUNK, hunks, errno>>

ReallocUp(p, n) ==
    /\ p \in DOMAIN live /\ n # 0
    /\ TooSmall(p, n) /\ ~CanExtend(p, n)
    /\ Move(p, n, live)

\* __mallocChunkSize(siz)
MallocChunkSize(siz) ==
    /\ MINHUNK' = siz
    /\ MAXHUNK' = siz
    /\ UNCHANGED <<heap, hunks, live, errno>>

-----------------------------------------------------------------------------

Pointers == DOMAIN live \cup {r + AllocExtra : r \in Nodes(heap)} \cup {NULL}

Init ==
    /\ heap = EmptyHeap
    /\ MINHUNK = InitMinHunk
    /\ MAXHUNK = InitMaxHunk
    /\ hunks = [s \in {} |-> 0]
    /\ live = [p \in {} |-> 0]
    /\ errno = "none"

Next ==
    \/ \E n \in Requests : Malloc(n) \/ ReallocNull(n)
    \/ \E n, sz \in Requests : Calloc(n, sz)
    \/ \E p \in Pointers : Free(p) \/ FreeIgnored(p) \/ ReallocZero(p)
    \/ \E p \in Pointers, n \in Requests :
         \/ ReallocStale(p, n)
         \/ ReallocDown(p, n)
         \/ ReallocInPlace(p, n)
         \/ ReallocExtend(p, n)
         \/ ReallocUp(p, n)
    \/ \E siz \in ChunkSizes : MallocChunkSize(siz)

Spec == Init /\ [][Next]_vars

-----------------------------------------------------------------------------
(***************************************************************************)
(* Properties                                                               *)
(***************************************************************************)

\* The variables have the C types of malloc.c, and hunks and live are finite
\* maps from addresses to lengths.
TypeOK ==
    /\ heap \in HeapType
    /\ {MINHUNK, MAXHUNK} \subseteq Nat
    /\ DOMAIN hunks \subseteq Addr /\ \A s \in DOMAIN hunks : hunks[s] \in Nat
    /\ DOMAIN live \subseteq Nat /\ \A p \in DOMAIN live : live[p] \in Requests
    /\ errno \in {"none", "ENOMEM", "EINVAL"}

\* The links of h run through all its nodes in ascending address order, and
\* the prev links back the same way.
InOrder(h) ==
    \A a \in List(h) :
        /\ h.next[a] \in List(h) /\ h.prev[a] \in List(h)
        /\ h.prev[h.next[a]] = a /\ h.next[h.prev[a]] = a
        /\ h.next[a] # ListHead => a < h.next[a]
        /\ \A b \in Nodes(h) : a < b => h.next[a] # ListHead /\ h.next[a] <= b

\* Every walk over the free list ("preserving ascending address order",
\* free.c) meets every free chunk and every hunk once, in either direction.
LinksInOrder == InOrder(heap)

HunkEnd(s) == s + hunks[s]

\* No two chunks overlap, chunks fill each hunk from its VAL_SBRK chunk to its
\* end without a gap, and nothing lies outside the hunks.
ChunksTileHunks ==
    /\ \A a, b \in Chunks(heap) : a < b => a + heap.size[a] <= b
    /\ \A a \in Chunks(heap) : \E s \in DOMAIN hunks :
         /\ s <= a /\ a + heap.size[a] <= HunkEnd(s)
         /\ \/ a + heap.size[a] = HunkEnd(s)
            \/ a + heap.size[a] \in Chunks(heap)

\* The hunks GEMDOS lent are the VAL_SBRK chunks on the list, with the length
\* recorded in SBRK_SIZE: none is lost, and none is given back twice.
HunksTracked ==
    /\ DOMAIN hunks = {s \in Addr : heap.valid[s] = "SBRK"}
    /\ \A s \in DOMAIN hunks :
         hunks[s] = SbrkExtra + heap.sbrk[s] /\ heap.size[s] = SbrkExtra

\* free leaves no two free chunks side by side, whatever came before: one
\* request that fits the two together can be served.
Coalesced ==
    \A a, b \in Chunks(heap) :
        ~ (/\ heap.valid[a] = "FREE" /\ heap.valid[b] = "FREE"
           /\ a + heap.size[a] = b)

\* No hunk stays with the program once nothing in it is allocated.
NoIdleHunk ==
    \A s \in DOMAIN hunks : \E a \in Chunks(heap) :
        heap.valid[a] = "ALLOC" /\ s < a /\ a < HunkEnd(s)

\* What is free lies together, in chunks and in GEMDOS.
FreeLiesTogether == Coalesced /\ NoIdleHunk

\* Following the links from the head, malloc's search and the searches for
\* the place of an address end where FirstFit and NodeFrom say.
WalksAgree ==
    /\ \A n \in Requests :
         LET size == ChunkSizeFor(n)
         IN  Walk(heap, {q \in Addr : ~(heap.size[q] < size \/ heap.valid[q] = "SBRK")})
                = FirstFit(heap, size)
    /\ \A r \in Chunks(heap) : Walk(heap, {q \in Addr : q >= r}) = NodeFrom(heap, r)

\* What is free lies together, and every search for it and through it ends
\* where it should.
FreeIsFound == FreeLiesTogether /\ WalksAgree

\* Every block the program holds has an allocated chunk with room for what
\* was asked, and every allocated chunk is held: no call loses a chunk, the
\* failing ones of realloc included.
LiveBlocksHeld ==
    /\ {r \in Addr : heap.valid[r] = "ALLOC"} = {p - AllocExtra : p \in DOMAIN live}
    /\ \A p \in DOMAIN live :
         p > AllocExtra /\ heap.size[p - AllocExtra] >= AllocExtra + live[p]

\* What holds the heap together: the list is in order, it holds the hunks that
\* GEMDOS lent, chunks fill them, and the blocks of the program lie in chunks.
HeapSound ==
    TypeOK /\ LinksInOrder /\ HunksTracked /\ ChunksTileHunks /\ LiveBlocksHeld

\* A new hunk is taken only for a block that no free chunk could hold.
GrowsOnlyWhenFull ==
    [][\A s \in DOMAIN hunks' \ DOMAIN hunks :
         \E p \in DOMAIN live' :
            /\ s < p /\ p - AllocExtra < s + hunks'[s]
            /\ \A a \in Nodes(heap) :
                 heap.valid[a] = "FREE" => heap.size[a] < ChunkSizeFor(live'[p])]_vars

-----------------------------------------------------------------------------
\* The heap is an implementation of the abstract allocator: the blocks the
\* program holds are the abstract blocks.
Abstract == INSTANCE Allocator WITH Pointer <- 1 .. (Top + 1), Size <- Requests

\* malloc, calloc, realloc and free do what Allocator promises: blocks never
\* overlap, and a call that fails leaves them as they are.
ImplementsAllocator == Abstract!Spec
=============================================================================
