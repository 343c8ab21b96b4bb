----------------------------- MODULE HeapProofs -----------------------------
(***************************************************************************)
(* Proofs about Heap, for every size of header, page, hunk and memory.      *)
(***************************************************************************)
EXTENDS Heap, Induction, FiniteSetTheorems

\* Heap h has the fields of the C types.
Typed(h) == h \in HeapType

LEMMA HeapFields ==
    ASSUME NEW h \in HeapType
    PROVE  /\ h.valid \in [Addr -> {"NONE", "FREE", "ALLOC", "SBRK"}]
           /\ h.next \in [Link -> Link]
           /\ h.prev \in [Link -> Link]
           /\ h.size \in [Addr -> Nat]
           /\ h.sbrk \in [Addr -> Nat]
BY DEF HeapType

\* LinkBefore changes the links of a and of its neighbours, and nothing else.
LEMMA LinkBeforeFields ==
    ASSUME NEW h \in HeapType, NEW a \in Addr, NEW p \in Link
    PROVE  LET g == LinkBefore(h, a, p) IN
           /\ g \in HeapType
           /\ g.valid = h.valid /\ g.size = h.size /\ g.sbrk = h.sbrk
           /\ \A x \in Link : g.next[x] = IF x = h.prev[p] THEN a
                                          ELSE IF x = a THEN p ELSE h.next[x]
           /\ \A x \in Link : g.prev[x] = IF x = p THEN a
                                          ELSE IF x = a THEN h.prev[p] ELSE h.prev[x]
BY DEF LinkBefore, HeapType, Link

\* Unlink changes the kind of a, clears its links and joins its neighbours.
LEMMA UnlinkFields ==
    ASSUME NEW h \in HeapType, NEW a \in Addr,
           NEW kind \in {"NONE", "ALLOC"}
    PROVE  LET g == Unlink(h, a, kind) IN
           /\ g \in HeapType
           /\ g.size = h.size /\ g.sbrk = h.sbrk
           /\ \A x \in Addr : g.valid[x] = IF x = a THEN kind ELSE h.valid[x]
           /\ \A x \in Link : g.next[x] = IF x = a THEN ListHead
                                          ELSE IF x = h.prev[a] THEN h.next[a] ELSE h.next[x]
           /\ \A x \in Link : g.prev[x] = IF x = a THEN ListHead
                                          ELSE IF x = h.next[a] THEN h.prev[a] ELSE h.prev[x]
BY DEF Unlink, HeapType, Link

LEMMA LinkKeepsOrder ==
    ASSUME NEW h \in HeapType, NEW a \in Addr, NEW p \in List(h),
           InOrder(h), a \notin Nodes(h),
           p # ListHead => a < p,
           \A b \in Nodes(h) : a < b => p # ListHead /\ p <= b,
           NEW f \in HeapType, f.next = h.next, f.prev = h.prev,
           Nodes(f) = Nodes(h) \cup {a}
    PROVE  InOrder(LinkBefore(f, a, p))
<1> DEFINE g == LinkBefore(f, a, p)
           q == h.prev[p]
<1>0. List(h) \subseteq Link /\ List(h) \subseteq Nat /\ a \in Nat /\ a > 0 /\ a \in Link
  BY SizesAssumption DEF List, Nodes, Link, Addr, ListHead
<1>p. p \in Link
  BY <1>0
<1>f. /\ g.valid = f.valid
      /\ \A x \in Link : g.next[x] = IF x = f.prev[p] THEN a ELSE IF x = a THEN p ELSE f.next[x]
      /\ \A x \in Link : g.prev[x] = IF x = p THEN a ELSE IF x = a THEN f.prev[p] ELSE f.prev[x]
  BY LinkBeforeFields, <1>p, SMTT(60)
<1>1. /\ Nodes(g) = Nodes(h) \cup {a}
      /\ List(g) = List(h) \cup {a}
  BY <1>f DEF Nodes, List
<1>2. /\ q \in List(h) /\ h.next[q] = p
      /\ a # ListHead /\ a \notin List(h) /\ a # p /\ a # q
  BY SizesAssumption DEF InOrder, List, Nodes, Addr, ListHead
<1>3. List(h) \subseteq Link /\ List(h) \subseteq Nat /\ a \in Nat /\ a > 0
  BY <1>0
<1>4. \A x \in List(g) : /\ g.next[x] = IF x = q THEN a ELSE IF x = a THEN p ELSE h.next[x]
                         /\ g.prev[x] = IF x = p THEN a ELSE IF x = a THEN q ELSE h.prev[x]
  BY <1>f, <1>1, <1>0
<1>5. q < a
  BY <1>2, <1>3 DEF InOrder, List, Nodes, ListHead, Addr
<1> HIDE DEF g, q
<1> SUFFICES ASSUME NEW x \in List(g)
             PROVE  /\ g.next[x] \in List(g) /\ g.prev[x] \in List(g)
                    /\ g.prev[g.next[x]] = x /\ g.next[g.prev[x]] = x
                    /\ g.next[x] # ListHead => x < g.next[x]
                    /\ \A b \in Nodes(g) : x < b => g.next[x] # ListHead /\ g.next[x] <= b
  BY DEF InOrder, g
<1>6. g.next[x] \in List(g) /\ g.prev[x] \in List(g)
  BY <1>1, <1>2, <1>4 DEF InOrder
<1>7. g.prev[g.next[x]] = x /\ g.next[g.prev[x]] = x
  BY <1>1, <1>2, <1>4, <1>6 DEF InOrder, q
<1>8. g.next[x] # ListHead => x < g.next[x]
  BY <1>1, <1>2, <1>3, <1>4, <1>5 DEF InOrder
<1>9. \A b \in Nodes(g) : x < b => g.next[x] # ListHead /\ g.next[x] <= b
  BY <1>1, <1>2, <1>3, <1>4, <1>5 DEF InOrder, List
<1> QED BY <1>6, <1>7, <1>8, <1>9

LEMMA UnlinkKeepsOrder ==
    ASSUME NEW h \in HeapType, NEW a \in Nodes(h), InOrder(h),
           NEW kind \in {"NONE", "ALLOC"}
    PROVE  /\ InOrder(Unlink(h, a, kind))
           /\ Nodes(Unlink(h, a, kind)) = Nodes(h) \ {a}
<1> DEFINE g == Unlink(h, a, kind)
           p == h.next[a]
           q == h.prev[a]
<1>0. a \in Addr
  BY DEF Nodes
<1>f. /\ \A x \in Addr : g.valid[x] = IF x = a THEN kind ELSE h.valid[x]
      /\ \A x \in Link : g.next[x] = IF x = a THEN ListHead ELSE IF x = q THEN p ELSE h.next[x]
      /\ \A x \in Link : g.prev[x] = IF x = a THEN ListHead ELSE IF x = p THEN q ELSE h.prev[x]
  <2>1. \A x \in Addr : g.valid[x] = IF x = a THEN kind ELSE h.valid[x]
    BY UnlinkFields, <1>0, kind \in {"NONE","ALLOC"}, Z3
  <2>2. \A x \in Link : g.next[x] = IF x = a THEN ListHead ELSE IF x = q THEN p ELSE h.next[x]
    BY UnlinkFields, <1>0
  <2>3. \A x \in Link : g.prev[x] = IF x = a THEN ListHead ELSE IF x = p THEN q ELSE h.prev[x]
    BY UnlinkFields, <1>0
  <2> QED BY <2>1, <2>2, <2>3
<1>1a. Nodes(g) = Nodes(h) \ {a}
  BY <1>f, <1>0 DEF Nodes
<1>1b. a # ListHead
  BY <1>0, SizesAssumption DEF Addr, ListHead
<1>1. /\ Nodes(g) = Nodes(h) \ {a}
      /\ List(g) = List(h) \ {a}
  BY <1>1a, <1>1b DEF List
<1>2. List(h) \subseteq Link /\ List(h) \subseteq Nat /\ a \in Nat /\ a > 0
  BY SizesAssumption DEF List, Nodes, Link, Addr, ListHead
<1>3. /\ p \in List(h) /\ q \in List(h) /\ h.prev[p] = a /\ h.next[q] = a
      /\ q < a /\ (p # ListHead => a < p) /\ a # ListHead
  BY <1>2 DEF InOrder, List, ListHead
<1>4. \A x \in List(g) : /\ g.next[x] = IF x = q THEN p ELSE h.next[x]
                         /\ g.prev[x] = IF x = p THEN q ELSE h.prev[x]
  BY <1>f, <1>1, <1>2
<1> HIDE DEF g, p, q
<1> SUFFICES ASSUME NEW x \in List(g)
             PROVE  /\ g.next[x] \in List(g) /\ g.prev[x] \in List(g)
                    /\ g.prev[g.next[x]] = x /\ g.next[g.prev[x]] = x
                    /\ g.next[x] # ListHead => x < g.next[x]
                    /\ \A b \in Nodes(g) : x < b => g.next[x] # ListHead /\ g.next[x] <= b
  BY <1>1 DEF InOrder, g
<1>5. p # a /\ q # a
  BY <1>2, <1>3
<1>6. g.next[x] \in List(g) /\ g.prev[x] \in List(g)
  BY <1>1, <1>3, <1>4, <1>5 DEF InOrder, p, q
<1>7. g.prev[g.next[x]] = x /\ g.next[g.prev[x]] = x
  BY <1>1, <1>3, <1>4, <1>5, <1>6 DEF InOrder, p, q
<1>8. g.next[x] # ListHead => x < g.next[x]
  BY <1>1, <1>2, <1>3, <1>4, <1>5 DEF InOrder
<1>9. \A b \in Nodes(g) : x < b => g.next[x] # ListHead /\ g.next[x] <= b
  BY <1>1, <1>2, <1>3, <1>4, <1>5 DEF InOrder, List, p
<1> QED BY <1>6, <1>7, <1>8, <1>9

-----------------------------------------------------------------------------
(***************************************************************************)
(* The layout of a heap h in hunks hk.  It is kept by every step of a call, *)
(* not only by whole calls.                                                 *)
(***************************************************************************)

Disjoint(h) == \A a, b \in Chunks(h) : a < b => a + h.size[a] <= b

HunksListed(h, hk) ==
    /\ DOMAIN hk = {s \in Addr : h.valid[s] = "SBRK"}
    /\ \A s \in DOMAIN hk : /\ hk[s] = SbrkExtra + h.sbrk[s]
                            /\ h.size[s] = SbrkExtra
                            /\ s + hk[s] <= Top + 1
    /\ \A s, t \in DOMAIN hk : s < t => s + hk[s] <= t

\* Chunk a lies in hunk s, and ends where s ends or the next chunk starts.
LiesIn(h, hk, a, s) ==
    /\ s <= a /\ a + h.size[a] <= s + hk[s]
    /\ a + h.size[a] = s + hk[s] \/ a + h.size[a] \in Chunks(h)

Layout(h, hk) ==
    /\ h \in HeapType
    /\ InOrder(h)
    /\ \A a \in Chunks(h) : h.size[a] > 0
    /\ Disjoint(h)
    /\ HunksListed(h, hk)
    /\ \A a \in Chunks(h) : \E s \in DOMAIN hk : LiesIn(h, hk, a, s)

\* A nonempty set of addresses has a least member, so FirstOf finds it.
LEMMA FirstOfLeast ==
    ASSUME NEW S \in SUBSET Addr
    PROVE  /\ S = {} => FirstOf(S) = ListHead
           /\ S # {} => /\ FirstOf(S) \in S
                        /\ \A b \in S : FirstOf(S) <= b
<1>1. CASE S = {}
  BY <1>1 DEF FirstOf
<1>2. CASE S # {}
  <2> DEFINE Below == {ss \in Nat \X Nat : ss[1] < ss[2]}
  <2>1. IsWellFoundedOn(Below, Nat)
    BY NatLessThanWellFounded DEF OpToRel
  <2>2. S \subseteq Nat
    BY SizesAssumption DEF Addr
  <2>3. PICK m \in S : \A y \in S : ~ (<<y, m>> \in Below)
    BY <2>1, <2>2, <1>2, WFMin
  <2>4. ASSUME NEW y \in S PROVE m <= y
    <3>1. y \in Nat /\ m \in Nat
      BY <2>2
    <3>2. y < m => <<y, m>> \in Below
      BY <3>1
    <3> QED BY <2>3, <3>1, <3>2
  <2> QED
    BY <1>2, <2>4 DEF FirstOf
<1> QED BY <1>1, <1>2

LEMMA SizeFacts ==
    /\ Addr \subseteq Nat \ {0} /\ Link \subseteq Nat /\ Addr \subseteq Link
    /\ ListHead = 0 /\ ListHead \in Link /\ ListHead \notin Addr /\ Top \in Nat
    /\ \A a \in Nat : a \in Addr <=> a # 0 /\ a < Top + 1
BY SizesAssumption DEF Addr, Link, ListHead

\* The chunks and their fields, for a heap that has a layout.
LEMMA LayoutFacts ==
    ASSUME NEW h, NEW hk, Layout(h, hk)
    PROVE  /\ h \in HeapType /\ InOrder(h)
           /\ \A a \in Addr : h.size[a] \in Nat /\ h.sbrk[a] \in Nat
           /\ \A a \in Addr : h.valid[a] \in {"NONE", "FREE", "ALLOC", "SBRK"}
           /\ Chunks(h) \subseteq Addr /\ Nodes(h) \subseteq Chunks(h)
BY HeapFields DEF Layout, Chunks, Nodes

\* A walk for address a ends at the least node not below it.
LEMMA NodeFromFacts ==
    ASSUME NEW h, NEW a \in Addr, a \notin Nodes(h)
    PROVE  LET p == NodeFrom(h, a) IN
           /\ p \in List(h) /\ p \in Link /\ (p # ListHead => a < p)
           /\ \A b \in Nodes(h) : a < b => p # ListHead /\ p <= b
<1> DEFINE S == {b \in Nodes(h) : b >= a}
           p == NodeFrom(h, a)
<1>1. S \in SUBSET Addr /\ p = FirstOf(S)
  BY DEF NodeFrom, Nodes
<1>2. /\ S = {} => p = ListHead
      /\ S # {} => p \in S /\ \A b \in S : p <= b
  BY <1>1, FirstOfLeast
<1> HIDE DEF p
<1>3. \A b \in S : b \in Nodes(h) /\ b > a /\ b \in Nat /\ b \in Addr
  BY SizeFacts DEF Nodes
<1>4. \A b \in Nodes(h) : a < b => b \in S
  <2>1. a \in Nat /\ \A b \in Nodes(h) : b \in Nat
    BY SizeFacts DEF Nodes
  <2> QED BY <2>1
<1>5. p \in List(h) /\ p \in Link /\ (p # ListHead => a < p)
  BY <1>2, <1>3, SizeFacts DEF List
<1>6. \A b \in Nodes(h) : a < b => p # ListHead /\ p <= b
  BY <1>2, <1>3, <1>4, SizeFacts
<1> QED BY <1>5, <1>6 DEF p

LEMMA LinkInOrderLayout ==
    ASSUME NEW h, NEW hk, Layout(h, hk), NEW r \in Addr, h.valid[r] = "ALLOC"
    PROVE  LET g == LinkInOrder(h, r) IN
           /\ Layout(g, hk)
           /\ g.size = h.size /\ g.sbrk = h.sbrk
           /\ \A x \in Addr : g.valid[x] = IF x = r THEN "FREE" ELSE h.valid[x]
<1> DEFINE f == [h EXCEPT !.valid[r] = "FREE"]
           p == NodeFrom(h, r)
           g == LinkBefore(f, r, p)
<1>1. /\ f \in HeapType
      /\ f.next = h.next /\ f.prev = h.prev /\ f.size = h.size /\ f.sbrk = h.sbrk
      /\ \A x \in Addr : f.valid[x] = IF x = r THEN "FREE" ELSE h.valid[x]
  BY LayoutFacts DEF HeapType
<1>2. /\ Nodes(f) = Nodes(h) \cup {r} /\ r \notin Nodes(h)
      /\ Chunks(f) = Chunks(h) /\ r \in Chunks(h)
  BY <1>1 DEF Nodes, Chunks
<1>3. /\ p \in List(h) /\ (p # ListHead => r < p)
      /\ \A b \in Nodes(h) : r < b => p # ListHead /\ p <= b
  BY <1>2, NodeFromFacts
<1>4. InOrder(g)
  BY <1>1, <1>2, <1>3, LinkKeepsOrder, LayoutFacts
<1>5. p \in Link
  BY <1>3, SizeFacts DEF List, Nodes
<1>6. /\ g \in HeapType /\ g.size = h.size /\ g.sbrk = h.sbrk
      /\ \A x \in Addr : g.valid[x] = IF x = r THEN "FREE" ELSE h.valid[x]
  <2> HIDE DEF f, p
  <2>1. g \in HeapType /\ g.size = f.size /\ g.sbrk = f.sbrk /\ g.valid = f.valid
    BY <1>1, <1>5, LinkBeforeFields
  <2> QED BY <2>1, <1>1
<1>7. Chunks(g) = Chunks(h)
  BY <1>6 DEF Chunks
<1>8. g = LinkInOrder(h, r)
  BY DEF LinkInOrder
<1> HIDE DEF g
<1>9. \A a, s : LiesIn(g, hk, a, s) <=> LiesIn(h, hk, a, s)
  BY <1>6, <1>7, Zenon DEF LiesIn
<1>10. HunksListed(g, hk)
  <2>1. {s \in Addr : g.valid[s] = "SBRK"} = {s \in Addr : h.valid[s] = "SBRK"}
    BY <1>6
  <2> QED BY <2>1, <1>6 DEF HunksListed, Layout
<1> QED BY <1>4, <1>6, <1>7, <1>8, <1>9, <1>10 DEF Layout, Disjoint

LEMMA VanishFields ==
    ASSUME NEW h, NEW a \in Nodes(h), h \in HeapType, InOrder(h)
    PROVE  LET g == Vanish(h, a) IN
           /\ g \in HeapType /\ InOrder(g)
           /\ Nodes(g) = Nodes(h) \ {a}
           /\ \A x \in Addr : /\ g.valid[x] = IF x = a THEN "NONE" ELSE h.valid[x]
                              /\ g.size[x] = IF x = a THEN 0 ELSE h.size[x]
                              /\ g.sbrk[x] = IF x = a THEN 0 ELSE h.sbrk[x]
<1> DEFINE u == Unlink(h, a, "NONE")
           g == Vanish(h, a)
<1>1. a \in Addr
  BY DEF Nodes
<1>2. /\ u \in HeapType /\ u.size = h.size /\ u.sbrk = h.sbrk
      /\ \A x \in Addr : u.valid[x] = IF x = a THEN "NONE" ELSE h.valid[x]
  BY <1>1, UnlinkFields
<1>3. InOrder(u) /\ Nodes(u) = Nodes(h) \ {a}
  BY UnlinkKeepsOrder
<1> HIDE DEF u
<1>4. /\ g \in HeapType
      /\ g.valid = u.valid /\ g.next = u.next /\ g.prev = u.prev
      /\ \A x \in Addr : /\ g.size[x] = IF x = a THEN 0 ELSE u.size[x]
                         /\ g.sbrk[x] = IF x = a THEN 0 ELSE u.sbrk[x]
  BY <1>1, <1>2 DEF Vanish, HeapType, u
<1> HIDE DEF g
<1>5. Nodes(g) = Nodes(u) /\ List(g) = List(u)
  BY <1>4 DEF Nodes, List
<1>6. InOrder(g)
  BY <1>3, <1>4, <1>5 DEF InOrder
<1> QED BY <1>2, <1>3, <1>4, <1>5, <1>6 DEF g

\* A free chunk joins the chunk in front of it.
LEMMA AbsorbLayout ==
    ASSUME NEW h, NEW hk, Layout(h, hk), NEW a \in Addr, NEW b \in Addr,
           h.valid[a] \in {"FREE", "ALLOC"}, h.valid[b] = "FREE", a + h.size[a] = b
    PROVE  LET g == Absorb(h, a, b) IN
           /\ Layout(g, hk)
           /\ \A x \in Addr :
                /\ g.valid[x] = IF x = b THEN "NONE" ELSE h.valid[x]
                /\ g.size[x] = IF x = a THEN h.size[a] + h.size[b]
                               ELSE IF x = b THEN 0 ELSE h.size[x]
                /\ g.sbrk[x] = IF x = b THEN 0 ELSE h.sbrk[x]
<1> DEFINE v == Vanish(h, b)
           g == Absorb(h, a, b)
<1>0. /\ a \in Chunks(h) /\ b \in Chunks(h) /\ b \in Nodes(h)
      /\ h.size[a] \in Nat /\ h.size[b] \in Nat /\ h.size[a] > 0 /\ h.size[b] > 0
      /\ a < b
  BY LayoutFacts, SizeFacts DEF Layout, Chunks, Nodes
<1>1. /\ v \in HeapType /\ InOrder(v) /\ Nodes(v) = Nodes(h) \ {b}
      /\ \A x \in Addr : /\ v.valid[x] = IF x = b THEN "NONE" ELSE h.valid[x]
                         /\ v.size[x] = IF x = b THEN 0 ELSE h.size[x]
                         /\ v.sbrk[x] = IF x = b THEN 0 ELSE h.sbrk[x]
  BY <1>0, VanishFields, LayoutFacts
<1> HIDE DEF v
<1>2. /\ g \in HeapType
      /\ g.valid = v.valid /\ g.next = v.next /\ g.prev = v.prev /\ g.sbrk = v.sbrk
      /\ \A x \in Addr : g.size[x] = IF x = a THEN h.size[a] + h.size[b] ELSE v.size[x]
  BY <1>0, <1>1 DEF Absorb, HeapType, v
<1> HIDE DEF g
<1>3. \A x \in Addr : /\ g.valid[x] = IF x = b THEN "NONE" ELSE h.valid[x]
                      /\ g.size[x] = IF x = a THEN h.size[a] + h.size[b]
                                     ELSE IF x = b THEN 0 ELSE h.size[x]
                      /\ g.sbrk[x] = IF x = b THEN 0 ELSE h.sbrk[x]
  BY <1>1, <1>2
<1>4. InOrder(g)
  <2>1. Nodes(g) = Nodes(v) /\ List(g) = List(v)
    BY <1>2 DEF Nodes, List
  <2> QED BY <2>1, <1>1, <1>2 DEF InOrder
<1>5. Chunks(g) = Chunks(h) \ {b}
  BY <1>3 DEF Chunks
<1>6. \A x \in Chunks(g) : g.size[x] > 0
  BY <1>0, <1>3, <1>5, LayoutFacts DEF Layout
<1>7. Disjoint(g)
  <2> SUFFICES ASSUME NEW x \in Chunks(g), NEW y \in Chunks(g), x < y
               PROVE  x + g.size[x] <= y
    BY DEF Disjoint
  <2>1. /\ x \in Chunks(h) /\ y \in Chunks(h) /\ x # b /\ y # b
        /\ x \in Addr /\ y \in Addr /\ x \in Nat /\ y \in Nat /\ b \in Nat
        /\ x + h.size[x] <= y
    BY <1>5, LayoutFacts, SizeFacts DEF Layout, Disjoint
  <2>2. CASE x # a
    BY <2>1, <2>2, <1>3
  <2>3. CASE x = a
    <3>1. b < y
      BY <2>1, <2>3
    <3>2. b + h.size[b] <= y
      BY <3>1, <2>1, <1>0 DEF Layout, Disjoint
    <3> QED BY <3>2, <2>3, <2>1, <1>3, <1>0, SizeFacts
  <2> QED BY <2>2, <2>3
<1>8. HunksListed(g, hk)
  <2>1. {s \in Addr : g.valid[s] = "SBRK"} = {s \in Addr : h.valid[s] = "SBRK"}
    BY <1>3
  <2>2. \A s \in Addr : h.valid[s] = "SBRK" => g.size[s] = h.size[s] /\ g.sbrk[s] = h.sbrk[s]
    BY <1>3
  <2> QED BY <2>1, <2>2 DEF HunksListed, Layout
<1>9. ASSUME NEW x \in Chunks(g) PROVE \E s \in DOMAIN hk : LiesIn(g, hk, x, s)
  <2>1. /\ x \in Chunks(h) /\ x # b /\ x \in Addr /\ x \in Nat /\ b \in Nat /\ a \in Nat
        /\ h.size[x] \in Nat /\ h.size[x] > 0
    BY <1>5, LayoutFacts, SizeFacts DEF Layout
  <2>2. PICK s \in DOMAIN hk : LiesIn(h, hk, x, s)
    BY <2>1 DEF Layout
  <2>3. CASE x # a
    <3>1. x + h.size[x] # b
      BY <2>1, <2>3, <1>0 DEF Layout, Disjoint
    <3> QED BY <3>1, <2>1, <2>2, <2>3, <1>3, <1>5 DEF LiesIn
  <2>4. CASE x = a
    <3>1. PICK t \in DOMAIN hk : LiesIn(h, hk, b, t)
      BY <1>0 DEF Layout
    <3>2. /\ s \in Nat /\ t \in Nat /\ hk[s] \in Nat /\ hk[t] \in Nat
          /\ s < t => s + hk[s] <= t
          /\ t < s => t + hk[t] <= s
          /\ h.valid[t] = "SBRK"
      <4>1. s \in Addr /\ t \in Addr /\ h.valid[t] = "SBRK"
        BY DEF Layout, HunksListed
      <4>2. hk[s] = h.size[s] + h.sbrk[s] /\ hk[t] = h.size[t] + h.sbrk[t]
        BY DEF Layout, HunksListed
      <4> QED BY <4>1, <4>2, LayoutFacts, SizeFacts DEF Layout, HunksListed
    <3>3. s = t
      BY <3>1, <3>2, <2>2, <2>4, <2>1, <1>0 DEF LiesIn
    <3>4. a + g.size[a] = b + h.size[b]
      BY <1>3, <1>0, <2>1
    <3>5. b + h.size[b] # b
      BY <1>0, <2>1
    <3> QED BY <3>1, <3>3, <3>4, <3>5, <2>2, <2>4, <1>5 DEF LiesIn
  <2> QED BY <2>3, <2>4
<1> QED BY <1>2, <1>3, <1>4, <1>6, <1>7, <1>8, <1>9 DEF Layout, g

\* Where a hunk of a layout is, and that no other one meets it.
LEMMA HunkFacts ==
    ASSUME NEW h, NEW hk, Layout(h, hk), NEW s \in DOMAIN hk
    PROVE  /\ s \in Addr /\ s \in Nat /\ hk[s] \in Nat /\ h.valid[s] = "SBRK"
           /\ hk[s] = SbrkExtra + h.sbrk[s] /\ h.size[s] = SbrkExtra
           /\ s + hk[s] <= Top + 1
           /\ \A t \in DOMAIN hk : s # t => s + hk[s] <= t \/ t + hk[t] <= s
<1>1. s \in Addr /\ h.valid[s] = "SBRK"
  BY DEF Layout, HunksListed
<1>2. hk[s] = h.size[s] + h.sbrk[s] /\ hk[s] \in Nat
  BY <1>1, LayoutFacts DEF Layout, HunksListed
<1>3. \A t \in DOMAIN hk : t \in Nat
  BY SizeFacts DEF Layout, HunksListed
<1> QED BY <1>1, <1>2, <1>3, SizeFacts DEF Layout, HunksListed

\* A free chunk that fills its hunk goes away with the hunk.
LEMMA ReleaseLayout ==
    ASSUME NEW h, NEW hk, Layout(h, hk), NEW c \in Addr, h.valid[c] = "FREE",
           FillsHunk(h, c)
    PROVE  LET s == h.prev[c]
               g == Vanish(Vanish(h, c), s) IN
           /\ Layout(g, Dropping(hk, s))
           /\ s \in Addr /\ h.valid[s] = "SBRK"
           /\ \A x \in Addr :
                /\ g.valid[x] = IF x \in {c, s} THEN "NONE" ELSE h.valid[x]
                /\ g.size[x] = IF x \in {c, s} THEN 0 ELSE h.size[x]
                /\ g.sbrk[x] = IF x \in {c, s} THEN 0 ELSE h.sbrk[x]
<1> DEFINE s == h.prev[c]
           v == Vanish(h, c)
           g == Vanish(v, s)
           hk2 == Dropping(hk, s)
<1>1. /\ c \in Nodes(h) /\ s \in List(h) /\ s # ListHead /\ s \in Addr /\ s \in Nodes(h)
      /\ h.valid[s] = "SBRK" /\ h.sbrk[s] = h.size[c] /\ h.next[s] = c
      /\ s # c
  BY LayoutFacts DEF FillsHunk, Nodes, List, InOrder
<1>2. s < c /\ \A b \in Nodes(h) : s < b => c <= b
  BY <1>1, LayoutFacts, SizeFacts DEF InOrder
<1> HIDE DEF s
<1>3. /\ v \in HeapType /\ InOrder(v) /\ Nodes(v) = Nodes(h) \ {c}
      /\ \A x \in Addr : /\ v.valid[x] = IF x = c THEN "NONE" ELSE h.valid[x]
                         /\ v.size[x] = IF x = c THEN 0 ELSE h.size[x]
                         /\ v.sbrk[x] = IF x = c THEN 0 ELSE h.sbrk[x]
  BY <1>1, VanishFields, LayoutFacts
<1> HIDE DEF v
<1>4. s \in Nodes(v)
  BY <1>1, <1>3
<1>5. /\ g \in HeapType /\ InOrder(g) /\ Nodes(g) = Nodes(v) \ {s}
      /\ \A x \in Addr : /\ g.valid[x] = IF x = s THEN "NONE" ELSE v.valid[x]
                         /\ g.size[x] = IF x = s THEN 0 ELSE v.size[x]
                         /\ g.sbrk[x] = IF x = s THEN 0 ELSE v.sbrk[x]
  BY <1>3, <1>4, VanishFields
<1> HIDE DEF g
<1>6. \A x \in Addr : /\ g.valid[x] = IF x \in {c, s} THEN "NONE" ELSE h.valid[x]
                      /\ g.size[x] = IF x \in {c, s} THEN 0 ELSE h.size[x]
                      /\ g.sbrk[x] = IF x \in {c, s} THEN 0 ELSE h.sbrk[x]
  BY <1>1, <1>3, <1>5
<1>7. Chunks(g) = Chunks(h) \ {c, s}
  BY <1>6 DEF Chunks
<1>8. s \in DOMAIN hk /\ c \in Chunks(h) /\ s \in Chunks(h)
  BY <1>1 DEF Layout, HunksListed, Chunks
<1>9. c = s + SbrkExtra /\ c + h.size[c] = s + hk[s]
  <2>1. PICK t \in DOMAIN hk : LiesIn(h, hk, c, t)
    BY <1>8 DEF Layout
  <2>2. t \in Nodes(h) /\ t # c
    BY HunkFacts DEF Nodes
  <2>3. t <= s
    BY <2>1, <2>2, <1>1, <1>2, HunkFacts, SizeFacts DEF LiesIn
  <2>4. t = s
    BY <2>1, <2>3, <1>2, <1>8, HunkFacts, SizeFacts, LayoutFacts DEF LiesIn
  <2>5. s + SbrkExtra <= c
    BY <1>2, <1>8, HunkFacts DEF Layout, Disjoint
  <2>6. hk[s] = SbrkExtra + h.size[c]
    BY <1>1, <1>8, HunkFacts
  <2>7. c + h.size[c] <= s + hk[s]
    BY <2>1, <2>4 DEF LiesIn
  <2>8. SbrkExtra \in Nat /\ h.size[c] \in Nat /\ c \in Nat /\ s \in Nat
    BY <1>1, <1>8, HunkFacts, LayoutFacts, SizeFacts
  <2> QED BY <2>5, <2>6, <2>7, <2>8
<1>10. DOMAIN hk2 = DOMAIN hk \ {s} /\ \A t \in DOMAIN hk2 : hk2[t] = hk[t]
  BY DEF Dropping
<1> HIDE DEF hk2
<1>11. Disjoint(g)
  BY <1>6, <1>7, LayoutFacts DEF Layout, Disjoint
<1>12. HunksListed(g, hk2)
  <2>1. {t \in Addr : g.valid[t] = "SBRK"} = {t \in Addr : h.valid[t] = "SBRK"} \ {s}
    BY <1>6
  <2>2. \A t \in DOMAIN hk2 : /\ t \in DOMAIN hk /\ g.size[t] = h.size[t] /\ g.sbrk[t] = h.sbrk[t]
    BY <1>6, <1>10, HunkFacts
  <2> QED BY <2>1, <2>2, <1>10 DEF HunksListed, Layout
<1>13. ASSUME NEW x \in Chunks(g) PROVE \E t \in DOMAIN hk2 : LiesIn(g, hk2, x, t)
  <2>1. /\ x \in Chunks(h) /\ x # c /\ x # s /\ x \in Addr /\ x \in Nat
        /\ h.size[x] \in Nat /\ h.size[x] > 0 /\ g.size[x] = h.size[x]
    BY <1>6, <1>7, LayoutFacts, SizeFacts DEF Layout
  <2>2. PICK t \in DOMAIN hk : LiesIn(h, hk, x, t)
    BY <2>1 DEF Layout
  <2>3. /\ c \in Nat /\ s \in Nat /\ SbrkExtra \in Nat /\ h.size[c] \in Nat /\ hk[s] \in Nat
        /\ h.size[s] = SbrkExtra /\ c # s
    BY <1>1, <1>8, HunkFacts, LayoutFacts, SizeFacts
  <2>4. x + h.size[x] <= s \/ s + hk[s] <= x
    <3>1. x < s => x + h.size[x] <= s
      BY <2>1, <1>8 DEF Layout, Disjoint
    <3>2. s < x => s + SbrkExtra <= x
      BY <2>1, <2>3, <1>8 DEF Layout, Disjoint
    <3>3. c < x => c + h.size[c] <= x
      BY <2>1, <1>8 DEF Layout, Disjoint
    <3> QED BY <3>1, <3>2, <3>3, <2>1, <2>3, <1>9
  <2>5. t # s
    BY <2>2, <2>4, <2>1, <2>3 DEF LiesIn
  <2>6. x + h.size[x] # c
    BY <2>1, <2>3, <2>4, <1>2, <1>9, <1>8 DEF Layout, Disjoint
  <2>7. x + h.size[x] = s => x + h.size[x] = t + hk[t]
    BY <2>2, <2>5, <2>1, <1>8, HunkFacts DEF LiesIn
  <2>8. t \in DOMAIN hk2 /\ hk2[t] = hk[t]
    BY <2>5, <1>10
  <2> QED BY <2>1, <2>2, <2>6, <2>7, <2>8, <1>7 DEF LiesIn
<1>14. \A x \in Chunks(g) : g.size[x] > 0
  BY <1>6, <1>7, LayoutFacts DEF Layout
<1>15. Layout(g, hk2)
  BY <1>5, <1>11, <1>12, <1>13, <1>14 DEF Layout
<1> QED
  BY <1>1, <1>6, <1>15 DEF g, v, s, hk2

LEMMA RoundUpFacts ==
    ASSUME NEW n \in Nat, NEW unit \in Nat \ {0}
    PROVE  RoundUp(n, unit) \in Nat /\ RoundUp(n, unit) >= n
<1> DEFINE m == n + unit - 1
           k == m \div unit
           r == m % unit
<1>1. m \in Nat /\ k \in Nat /\ r \in 0 .. (unit - 1) /\ m = unit * k + r
  BY SMT
<1> HIDE DEF k, r
<1>2. k * unit = unit * k /\ k * unit \in Nat
  BY <1>1, SMT
<1>3. RoundUp(n, unit) = k * unit
  BY DEF RoundUp, k
<1> QED BY <1>1, <1>2, <1>3

LEMMA ExtraFacts ==
    /\ AllocExtra \in Nat /\ AllocExtra > 0
    /\ SbrkExtra \in Nat /\ SbrkExtra > 0
BY SizesAssumption, RoundUpFacts DEF AllocExtra, SbrkExtra

\* malloc takes what it needs out of a free chunk that is large enough.
LEMMA CarveLayout ==
    ASSUME NEW h, NEW hk, Layout(h, hk), NEW q \in Addr, h.valid[q] = "FREE",
           NEW size \in Nat, size > 0, h.size[q] >= size
    PROVE  LET g == Carve(h, q, size)
               a == Carved(h, q, size) IN
           /\ Layout(g, hk)
           /\ a \in Addr /\ h.valid[a] # "ALLOC" /\ g.size[a] >= size
           /\ q <= a /\ a + g.size[a] = q + h.size[q]
           /\ a # q => q + g.size[q] = a
           /\ \A x \in Addr :
                /\ g.valid[x] = IF x = a THEN "ALLOC" ELSE h.valid[x]
                /\ x \notin {a, q} => g.size[x] = h.size[x]
                /\ g.sbrk[x] = h.sbrk[x]
<1> DEFINE g == Carve(h, q, size)
           a == Carved(h, q, size)
<1>0. /\ q \in Chunks(h) /\ q \in Nodes(h) /\ q \in Nat
      /\ h.size[q] \in Nat /\ h.size[q] > 0
  BY LayoutFacts, SizeFacts DEF Layout, Chunks, Nodes
<1>1. CASE ~Splits(h, q, size)
  <2>1. a = q /\ g = Unlink(h, q, "ALLOC")
    BY <1>1 DEF Carve, Carved
  <2> HIDE DEF a, g
  <2>2. /\ g \in HeapType /\ InOrder(g) /\ g.size = h.size /\ g.sbrk = h.sbrk
        /\ \A x \in Addr : g.valid[x] = IF x = q THEN "ALLOC" ELSE h.valid[x]
    <3>1. InOrder(g)
      BY <2>1, <1>0, UnlinkKeepsOrder, LayoutFacts
    <3>2. g \in HeapType /\ g.size = h.size /\ g.sbrk = h.sbrk
      BY <2>1, UnlinkFields, LayoutFacts
    <3>3. \A x \in Addr : g.valid[x] = IF x = q THEN "ALLOC" ELSE h.valid[x]
      BY <2>1, UnlinkFields, LayoutFacts, "ALLOC" \in {"NONE", "ALLOC"}, Z3
    <3> QED BY <3>1, <3>2, <3>3
  <2>3. Chunks(g) = Chunks(h)
    BY <2>2, <1>0 DEF Chunks
  <2>4. HunksListed(g, hk)
    <3>1. {s \in Addr : g.valid[s] = "SBRK"} = {s \in Addr : h.valid[s] = "SBRK"}
      BY <2>2
    <3> QED BY <3>1, <2>2 DEF HunksListed, Layout
  <2>5. \A x, s : LiesIn(g, hk, x, s) <=> LiesIn(h, hk, x, s)
    BY <2>2, <2>3, Zenon DEF LiesIn
  <2>6. Layout(g, hk)
    BY <2>2, <2>3, <2>4, <2>5 DEF Layout, Disjoint
  <2> QED BY <2>1, <2>2, <2>6, <1>0 DEF a, g
<1>2. CASE Splits(h, q, size)
  <2>1. /\ a = q + (h.size[q] - size) /\ h.size[q] > size + AllocExtra
        /\ a \in Nat /\ q < a /\ a < q + h.size[q]
    BY <1>2, <1>0, ExtraFacts DEF Carved, Splits
  <2>2. PICK s \in DOMAIN hk : LiesIn(h, hk, q, s)
    BY <1>0 DEF Layout
  <2>3. a \in Addr
    BY <2>1, <2>2, <1>0, HunkFacts, SizeFacts DEF LiesIn
  <2>4. a \notin Chunks(h)
    BY <2>1, <1>0 DEF Layout, Disjoint
  <2>5. h.valid[a] = "NONE"
    BY <2>3, <2>4 DEF Chunks
  <2>6. g = [h EXCEPT !.valid[a] = "ALLOC",
                      !.size[q] = h.size[q] - size,
                      !.size[a] = size]
    BY <1>2 DEF Carve
  <2> HIDE DEF a, g
  <2>7. /\ g \in HeapType /\ g.next = h.next /\ g.prev = h.prev /\ g.sbrk = h.sbrk
        /\ \A x \in Addr : /\ g.valid[x] = IF x = a THEN "ALLOC" ELSE h.valid[x]
                           /\ g.size[x] = IF x = a THEN size
                                          ELSE IF x = q THEN h.size[q] - size
                                          ELSE h.size[x]
    <3>1. h.size[q] - size \in Nat /\ a # q
      BY <1>0, <2>1
    <3> QED BY <3>1, <2>3, <2>6, LayoutFacts DEF HeapType
  <2>8. /\ Chunks(g) = Chunks(h) \cup {a} /\ Nodes(g) = Nodes(h) /\ List(g) = List(h)
    BY <2>3, <2>5, <2>7 DEF Chunks, Nodes, List
  <2>9. InOrder(g)
    BY <2>7, <2>8, LayoutFacts DEF InOrder
  <2>10. ASSUME NEW x \in Chunks(g) PROVE g.size[x] > 0
    <3>1. CASE x = a
      BY <3>1, <2>3, <2>7
    <3>2. CASE x = q
      BY <3>2, <2>1, <2>7, <1>0, ExtraFacts
    <3>3. CASE x # a /\ x # q
      BY <3>3, <2>7, <2>8, LayoutFacts DEF Layout
    <3> QED BY <3>1, <3>2, <3>3
  <2>11. Disjoint(g)
    <3> SUFFICES ASSUME NEW x \in Chunks(g), NEW y \in Chunks(g), x < y
                 PROVE  x + g.size[x] <= y
      BY DEF Disjoint
    <3>1. x \in Addr /\ y \in Addr /\ x \in Nat /\ y \in Nat
      BY <2>3, <2>8, LayoutFacts, SizeFacts
    <3>2. CASE x = a
      <4>1. y \in Chunks(h) /\ q < y
        BY <3>1, <3>2, <2>1, <2>8, <1>0
      <4>2. q + h.size[q] <= y
        BY <4>1, <1>0 DEF Layout, Disjoint
      <4>3. a + g.size[a] = q + h.size[q]
        BY <2>1, <2>3, <2>7, <1>0
      <4> QED BY <4>2, <4>3, <3>2
    <3>3. CASE x # a /\ y = a
      <4>1. x \in Chunks(h)
        BY <3>3, <2>8
      <4>2. CASE x = q
        <5>1. g.size[x] = h.size[q] - size
          BY <4>2, <3>1, <2>7, <2>1, <1>0
        <5> QED BY <5>1, <4>2, <3>3, <2>1, <1>0
      <4>3. CASE x # q
        <5>1. x < q
          BY <4>1, <4>3, <3>1, <3>3, <2>1, <1>0 DEF Layout, Disjoint
        <5>2. x + h.size[x] <= q /\ h.size[x] \in Nat
          BY <5>1, <4>1, <3>1, <1>0, LayoutFacts DEF Layout, Disjoint
        <5>3. g.size[x] = h.size[x]
          BY <4>3, <3>1, <3>3, <2>7
        <5> QED BY <5>2, <5>3, <3>1, <3>3, <2>1, <1>0
      <4> QED BY <4>2, <4>3
    <3>4. CASE x # a /\ y # a
      <4>1. x \in Chunks(h) /\ y \in Chunks(h) /\ h.size[x] \in Nat
        BY <3>4, <3>1, <2>8, LayoutFacts
      <4>2. x + h.size[x] <= y
        BY <4>1 DEF Layout, Disjoint
      <4>3. g.size[x] <= h.size[x] /\ g.size[x] \in Nat
        BY <4>1, <3>1, <3>4, <2>7, <2>1, <1>0
      <4> QED BY <4>1, <4>2, <4>3, <3>1
    <3> QED BY <3>2, <3>3, <3>4
  <2>12. HunksListed(g, hk)
    <3>1. {t \in Addr : g.valid[t] = "SBRK"} = {t \in Addr : h.valid[t] = "SBRK"}
      BY <2>7, <2>5
    <3>2. \A t \in DOMAIN hk : g.size[t] = h.size[t] /\ g.sbrk[t] = h.sbrk[t]
      BY <2>7, <2>5, HunkFacts
    <3> QED BY <3>1, <3>2 DEF HunksListed, Layout
  <2>13. ASSUME NEW x \in Chunks(g) PROVE \E t \in DOMAIN hk : LiesIn(g, hk, x, t)
    <3>1. CASE x = a
      <4>1. a + g.size[a] = q + h.size[q]
        BY <2>1, <2>3, <2>7, <1>0
      <4>2. s <= a
        BY <2>1, <2>2, <1>0, HunkFacts DEF LiesIn
      <4> QED BY <4>1, <4>2, <3>1, <2>2, <2>8 DEF LiesIn
    <3>2. CASE x = q
      <4>1. q + g.size[q] = a
        BY <2>1, <2>7, <1>0
      <4>2. a <= s + hk[s]
        BY <2>1, <2>2, <1>0, HunkFacts DEF LiesIn
      <4> QED BY <4>1, <4>2, <3>2, <2>2, <2>8 DEF LiesIn
    <3>3. CASE x # a /\ x # q
      <4>1. x \in Chunks(h) /\ g.size[x] = h.size[x]
        BY <3>3, <2>7, <2>8, LayoutFacts
      <4>2. PICK t \in DOMAIN hk : LiesIn(h, hk, x, t)
        BY <4>1 DEF Layout
      <4> QED BY <4>1, <4>2, <2>8 DEF LiesIn
    <3> QED BY <3>1, <3>2, <3>3
  <2>14. Layout(g, hk)
    BY <2>7, <2>9, <2>10, <2>11, <2>12, <2>13 DEF Layout
  <2>15. a + g.size[a] = q + h.size[q] /\ g.size[a] = size /\ q + g.size[q] = a
    BY <2>1, <2>3, <2>7, <1>0
  <2> QED BY <2>1, <2>3, <2>5, <2>7, <2>14, <2>15, <1>0 DEF a, g
<1> QED BY <1>1, <1>2

\* GEMDOS lends a hunk: all of it is one free chunk behind the VAL_SBRK one.
LEMMA AddHunkLayout ==
    ASSUME NEW h, NEW hk, Layout(h, hk), NEW len \in Nat, len > SbrkExtra,
           NEW b \in Vacant(hk, len)
    PROVE  LET g == AddHunk(h, b, len)
               first == b + SbrkExtra IN
           /\ Layout(g, WithHunk(hk, b, len))
           /\ b \notin DOMAIN hk /\ first \in Addr
           /\ g.valid[first] = "FREE" /\ g.size[first] = len - SbrkExtra
           /\ h.valid[b] = "NONE" /\ h.valid[first] = "NONE" /\ g.valid[b] = "SBRK"
           /\ \A x \in Addr \ {b, first} : /\ g.valid[x] = h.valid[x]
                                           /\ g.size[x] = h.size[x]
<1> DEFINE first == b + SbrkExtra
           p  == NodeFrom(h, b)
           f1 == [h EXCEPT !.valid[b] = "SBRK", !.size[b] = SbrkExtra,
                           !.sbrk[b] = len - SbrkExtra]
           g1 == LinkBefore(f1, b, p)
           f2 == [g1 EXCEPT !.valid[first] = "FREE", !.size[first] = len - SbrkExtra]
           g2 == LinkBefore(f2, first, p)
           hk2 == WithHunk(hk, b, len)
<1>1. /\ b \in Addr /\ b \in Nat /\ first \in Addr /\ first \in Nat /\ b + len <= Top + 1
      /\ b < first /\ first < b + len /\ len - SbrkExtra \in Nat
      /\ \A s \in DOMAIN hk : b + len <= s \/ s + hk[s] <= b
  <2>1. /\ b \in 1 .. Top /\ b + len <= Top + 1 /\ Top \in Nat
        /\ \A s \in DOMAIN hk : b + len <= s \/ s + hk[s] <= b
    BY SizesAssumption DEF Vacant
  <2>2. first \in 1 .. Top /\ b < first /\ first < b + len /\ len - SbrkExtra \in Nat
    BY <2>1, ExtraFacts
  <2> QED BY <2>1, <2>2 DEF Addr
<1>2. \A x \in Chunks(h) : x + h.size[x] <= b \/ b + len <= x
  <2> SUFFICES ASSUME NEW x \in Chunks(h) PROVE x + h.size[x] <= b \/ b + len <= x
    OBVIOUS
  <2>1. PICK s \in DOMAIN hk : LiesIn(h, hk, x, s)
    BY DEF Layout
  <2>2. x \in Nat /\ h.size[x] \in Nat
    BY LayoutFacts, SizeFacts
  <2> QED BY <2>1, <2>2, <1>1, HunkFacts DEF LiesIn
<1>3. /\ b \notin Chunks(h) /\ first \notin Chunks(h)
      /\ \A x \in Chunks(h) : h.size[x] \in Nat /\ h.size[x] > 0 /\ x \in Nat /\ x \in Addr
  <2>1. \A x \in Chunks(h) : h.size[x] \in Nat /\ h.size[x] > 0 /\ x \in Nat /\ x \in Addr
    BY LayoutFacts, SizeFacts DEF Layout
  <2> HIDE DEF first
  <2>2. b \notin Chunks(h)
    BY <2>1, <1>1, <1>2
  <2>3. first \notin Chunks(h)
    BY <2>1, <1>1, <1>2
  <2> QED BY <2>1, <2>2, <2>3
<1>4. h.valid[b] = "NONE" /\ h.valid[first] = "NONE" /\ b \notin Nodes(h) /\ first \notin Nodes(h)
  BY <1>1, <1>3, LayoutFacts DEF Chunks
<1>5. /\ p \in List(h) /\ p \in Link /\ (p # ListHead => b < p)
      /\ \A x \in Nodes(h) : b < x => p # ListHead /\ p <= x
  BY <1>1, <1>4, NodeFromFacts
<1>6. p # ListHead => first < p
  <2>1. p # ListHead => p \in Chunks(h)
    BY <1>5, LayoutFacts DEF List
  <2> QED BY <2>1, <1>1, <1>2, <1>3, <1>5
<1> HIDE DEF p
<1>7. /\ f1 \in HeapType /\ f1.next = h.next /\ f1.prev = h.prev
      /\ \A x \in Addr : /\ f1.valid[x] = IF x = b THEN "SBRK" ELSE h.valid[x]
                         /\ f1.size[x] = IF x = b THEN SbrkExtra ELSE h.size[x]
                         /\ f1.sbrk[x] = IF x = b THEN len - SbrkExtra ELSE h.sbrk[x]
  <2> DEFINE rest == len - SbrkExtra
  <2>1. h \in HeapType /\ SbrkExtra \in Nat /\ rest \in Nat /\ b \in Addr
    BY <1>1, LayoutFacts, ExtraFacts
  <2> HIDE DEF rest
  <2>2. f1 = [h EXCEPT !.valid[b] = "SBRK", !.size[b] = SbrkExtra, !.sbrk[b] = rest]
    BY DEF rest
  <2> HIDE DEF f1
  <2>3. /\ f1 \in HeapType /\ f1.next = h.next /\ f1.prev = h.prev
        /\ \A x \in Addr : /\ f1.valid[x] = IF x = b THEN "SBRK" ELSE h.valid[x]
                           /\ f1.size[x] = IF x = b THEN SbrkExtra ELSE h.size[x]
                           /\ f1.sbrk[x] = IF x = b THEN rest ELSE h.sbrk[x]
    BY <2>1, <2>2 DEF HeapType
  <2> QED BY <2>3 DEF rest
<1>8. Nodes(f1) = Nodes(h) \cup {b}
  BY <1>1, <1>7 DEF Nodes
<1> HIDE DEF f1
<1>9. InOrder(g1)
  BY <1>1, <1>4, <1>5, <1>7, <1>8, LinkKeepsOrder, LayoutFacts
<1>10. /\ g1 \in HeapType /\ g1.valid = f1.valid /\ g1.size = f1.size /\ g1.sbrk = f1.sbrk
       /\ Nodes(g1) = Nodes(h) \cup {b}
  <2>1. g1 \in HeapType /\ g1.valid = f1.valid /\ g1.size = f1.size /\ g1.sbrk = f1.sbrk
    BY <1>1, <1>5, <1>7, LinkBeforeFields
  <2> QED BY <2>1, <1>8 DEF Nodes
<1> HIDE DEF g1
<1>11. /\ f2 \in HeapType /\ f2.next = g1.next /\ f2.prev = g1.prev /\ f2.sbrk = g1.sbrk
       /\ \A x \in Addr : /\ f2.valid[x] = IF x = first THEN "FREE" ELSE g1.valid[x]
                          /\ f2.size[x] = IF x = first THEN len - SbrkExtra ELSE g1.size[x]
  <2> HIDE DEF first
  <2> QED BY <1>1, <1>10 DEF HeapType
<1>12. Nodes(f2) = Nodes(g1) \cup {first}
  <2> HIDE DEF first, f2
  <2> QED BY <1>1, <1>11 DEF Nodes
<1> HIDE DEF f2
<1>13. InOrder(g2)
  <2>1. p \in List(g1) /\ first \notin Nodes(g1)
    BY <1>1, <1>4, <1>5, <1>10 DEF List
  <2>2. \A x \in Nodes(g1) : first < x => p # ListHead /\ p <= x
    <3>1. \A x \in Nodes(h) : x \in Nat
      BY SizeFacts DEF Nodes
    <3> QED BY <3>1, <1>1, <1>5, <1>10
  <2> HIDE DEF first
  <2> QED BY <2>1, <2>2, <1>1, <1>6, <1>9, <1>10, <1>11, <1>12, LinkKeepsOrder
<1>14. /\ g2 \in HeapType
       /\ \A x \in Addr :
            /\ g2.valid[x] = IF x = first THEN "FREE" ELSE IF x = b THEN "SBRK" ELSE h.valid[x]
            /\ g2.size[x] = IF x = first THEN len - SbrkExtra
                            ELSE IF x = b THEN SbrkExtra ELSE h.size[x]
            /\ g2.sbrk[x] = IF x = b THEN len - SbrkExtra ELSE h.sbrk[x]
  <2> HIDE DEF first
  <2>1. g2 \in HeapType /\ g2.valid = f2.valid /\ g2.size = f2.size /\ g2.sbrk = f2.sbrk
    BY <1>1, <1>5, <1>11, LinkBeforeFields
  <2> QED BY <2>1, <1>7, <1>10, <1>11
<1> HIDE DEF g2
<1>15. Chunks(g2) = Chunks(h) \cup {b, first}
  <2> HIDE DEF first
  <2> QED BY <1>1, <1>14 DEF Chunks
<1>16. DOMAIN hk2 = DOMAIN hk \cup {b} /\ hk2[b] = len /\ \A s \in DOMAIN hk : s # b => hk2[s] = hk[s]
  BY DEF WithHunk
<1> HIDE DEF hk2
<1>17. b \notin DOMAIN hk
  BY <1>4, HunkFacts
<1>18. \A x \in Chunks(g2) : g2.size[x] > 0
  <2> HIDE DEF first
  <2> QED BY <1>1, <1>3, <1>14, <1>15, ExtraFacts
<1>19. Disjoint(g2)
  <2> SUFFICES ASSUME NEW x \in Chunks(g2), NEW y \in Chunks(g2), x < y
               PROVE  x + g2.size[x] <= y
    BY DEF Disjoint
  <2>1. /\ b + g2.size[b] = first /\ first + g2.size[first] = b + len
        /\ \A z \in Chunks(h) : g2.size[z] = h.size[z]
    BY <1>1, <1>3, <1>14, ExtraFacts
  <2> HIDE DEF first
  <2>2. CASE x \in Chunks(h) /\ y \in Chunks(h)
    BY <2>1, <2>2 DEF Layout, Disjoint
  <2>3. CASE x \in Chunks(h) /\ y \in {b, first}
    BY <2>1, <2>3, <1>1, <1>2, <1>3
  <2>4. CASE x \in {b, first} /\ y \in Chunks(h)
    BY <2>1, <2>4, <1>1, <1>2, <1>3
  <2>5. CASE x \in {b, first} /\ y \in {b, first}
    BY <2>1, <2>5, <1>1
  <2> QED BY <2>2, <2>3, <2>4, <2>5, <1>15
<1>20. HunksListed(g2, hk2)
  <2>1. DOMAIN hk2 = {s \in Addr : g2.valid[s] = "SBRK"}
    <3> HIDE DEF first
    <3>1. \A s \in Addr : g2.valid[s] = "SBRK" <=> s = b \/ h.valid[s] = "SBRK"
      BY <1>1, <1>4, <1>14
    <3> QED BY <3>1, <1>1, <1>16 DEF Layout, HunksListed
  <2>2. ASSUME NEW s \in DOMAIN hk2
        PROVE  /\ hk2[s] = SbrkExtra + g2.sbrk[s] /\ g2.size[s] = SbrkExtra
               /\ s + hk2[s] <= Top + 1
    <3>1. CASE s = b
      BY <3>1, <1>1, <1>14, <1>16, ExtraFacts
    <3>2. CASE s # b
      <4>1. s \in DOMAIN hk /\ hk2[s] = hk[s] /\ s # first /\ s \in Addr
        BY <3>2, <1>4, <1>16, HunkFacts
      <4>2. g2.size[s] = h.size[s] /\ g2.sbrk[s] = h.sbrk[s]
        BY <3>2, <4>1, <1>14
      <4> QED BY <4>1, <4>2, HunkFacts
    <3> QED BY <3>1, <3>2
  <2>3. ASSUME NEW s \in DOMAIN hk2, NEW t \in DOMAIN hk2, s < t
        PROVE  s + hk2[s] <= t
    <3>1. CASE s # b /\ t # b
      BY <2>3, <3>1, <1>16 DEF Layout, HunksListed
    <3>2. CASE s = b /\ t # b
      BY <2>3, <3>2, <1>1, <1>16, HunkFacts
    <3>3. CASE s # b /\ t = b
      BY <2>3, <3>3, <1>1, <1>16, HunkFacts
    <3>4. ~(s = b /\ t = b)
      BY <2>3, <1>1
    <3> QED BY <3>1, <3>2, <3>3, <3>4
  <2> QED BY <2>1, <2>2, <2>3 DEF HunksListed
<1>21. ASSUME NEW x \in Chunks(g2) PROVE \E s \in DOMAIN hk2 : LiesIn(g2, hk2, x, s)
  <2>1. CASE x = b
    <3>1. b + g2.size[b] = first /\ first <= b + hk2[b] /\ b \in DOMAIN hk2 /\ b <= b
      BY <1>1, <1>14, <1>16
    <3> QED BY <3>1, <2>1, <1>15 DEF LiesIn
  <2>2. CASE x = first
    <3>1. first + g2.size[first] = b + hk2[b] /\ b <= first /\ b \in DOMAIN hk2
          /\ b + hk2[b] <= b + hk2[b]
      BY <1>1, <1>14, <1>16, ExtraFacts
    <3> QED BY <3>1, <2>2 DEF LiesIn
  <2>3. CASE x # b /\ x # first
    <3>1. x \in Chunks(h) /\ g2.size[x] = h.size[x]
      BY <2>3, <1>3, <1>14, <1>15
    <3>2. PICK s \in DOMAIN hk : LiesIn(h, hk, x, s)
      BY <3>1 DEF Layout
    <3>3. s \in DOMAIN hk2 /\ hk2[s] = hk[s]
      BY <1>16, <1>17
    <3> QED BY <3>1, <3>2, <3>3, <1>15 DEF LiesIn
  <2> QED BY <2>1, <2>2, <2>3
<1>22. Layout(g2, hk2)
  BY <1>13, <1>14, <1>18, <1>19, <1>20, <1>21 DEF Layout
<1>23. g2 = AddHunk(h, b, len)
  BY DEF AddHunk, g2, f2, g1, f1, p
<1>24. /\ g2.valid[first] = "FREE" /\ g2.size[first] = len - SbrkExtra /\ g2.valid[b] = "SBRK"
       /\ \A x \in Addr \ {b, first} : g2.valid[x] = h.valid[x] /\ g2.size[x] = h.size[x]
  <2> HIDE DEF first
  <2> QED BY <1>1, <1>14
<1> QED BY <1>1, <1>4, <1>17, <1>22, <1>23, <1>24 DEF hk2

-----------------------------------------------------------------------------
(***************************************************************************)
(* Whole calls: what malloc and free do to a heap with a layout.            *)
(***************************************************************************)

\* Chunk x is allocated in g, with the size it has in h.
SameBlock(g, h, x) == g.valid[x] = "ALLOC" /\ g.size[x] = h.size[x]

LEMMA FreeResultFacts ==
    ASSUME NEW h, NEW hk, Layout(h, hk), NEW r \in Addr, h.valid[r] = "ALLOC"
    PROVE  LET out == FreeResult(h, hk, r) IN
           /\ Layout(out.heap, out.hunks)
           /\ out.heap.valid[r] # "ALLOC"
           /\ \A x \in Addr \ {r} : IF h.valid[x] = "ALLOC" THEN SameBlock(out.heap, h, x)
                                    ELSE out.heap.valid[x] # "ALLOC"
<1> DEFINE Kept(g) == /\ g.valid[r] # "ALLOC"
                      /\ \A x \in Addr \ {r} : IF h.valid[x] = "ALLOC" THEN SameBlock(g, h, x)
                                               ELSE g.valid[x] # "ALLOC"
           g0 == LinkInOrder(h, r)
           g1 == MergeAfter(g0, r)
           f  == Freed(h, r)
           out == FreeResult(h, hk, r)
<1>1. Layout(g0, hk) /\ Kept(g0) /\ g0.valid[r] = "FREE"
  BY LinkInOrderLayout DEF SameBlock
<1> HIDE DEF g0
<1>2. Layout(g1, hk) /\ Kept(g1) /\ g1.valid[r] = "FREE"
  <2> DEFINE next == g0.next[r]
  <2>1. CASE ~(next # ListHead /\ r + g0.size[r] = next /\ g0.valid[next] = "FREE")
    <3>1. g1 = g0
      BY <2>1 DEF MergeAfter
    <3> QED BY <3>1, <1>1
  <2>2. CASE next # ListHead /\ r + g0.size[r] = next /\ g0.valid[next] = "FREE"
    <3>1. g1 = Absorb(g0, r, next)
      BY <2>2 DEF MergeAfter
    <3>2. next \in Addr /\ next # r
      <4>1. r \in List(g0) /\ r \in Chunks(g0)
        BY <1>1 DEF List, Nodes, Chunks
      <4>2. next \in List(g0) /\ r < next
        BY <4>1, <2>2, <1>1, LayoutFacts DEF InOrder
      <4> QED BY <4>2, <2>2, SizeFacts DEF List, Nodes
    <3> HIDE DEF next, g1
    <3>3. /\ Layout(g1, hk)
          /\ \A x \in Addr :
               /\ g1.valid[x] = IF x = next THEN "NONE" ELSE g0.valid[x]
               /\ x \notin {r, next} => g1.size[x] = g0.size[x]
      BY <3>1, <3>2, <2>2, <1>1, AbsorbLayout
    <3> QED BY <3>2, <3>3, <2>2, <1>1 DEF SameBlock
  <2> QED BY <2>1, <2>2
<1> HIDE DEF g1
<1>3. Layout(f.heap, hk) /\ Kept(f.heap) /\ f.chunk \in Addr /\ f.heap.valid[f.chunk] = "FREE"
  <2> DEFINE prev == g1.prev[r]
  <2>1. CASE ~MergesBefore(g1, r)
    <3>1. f.heap = g1 /\ f.chunk = r
      BY <2>1 DEF Freed, g1, g0
    <3> QED BY <3>1, <1>2
  <2>2. CASE MergesBefore(g1, r)
    <3>1. f.heap = Absorb(g1, prev, r) /\ f.chunk = prev
      BY <2>2 DEF Freed, g1, g0
    <3>2. prev # ListHead /\ g1.valid[prev] = "FREE" /\ prev + g1.size[prev] = r
      BY <2>2 DEF MergesBefore
    <3>3. prev \in Addr /\ prev # r
      <4>1. r \in List(g1) /\ r \in Chunks(g1)
        BY <1>2 DEF List, Nodes, Chunks
      <4>2. prev \in List(g1)
        BY <4>1, <1>2, LayoutFacts DEF InOrder
      <4>3. prev \in Addr /\ prev \in Chunks(g1)
        BY <4>2, <3>2 DEF List, Nodes, Chunks
      <4>4. g1.size[prev] > 0 /\ g1.size[prev] \in Nat /\ prev \in Nat
        BY <4>3, <1>2, LayoutFacts, SizeFacts DEF Layout
      <4> QED BY <4>3, <4>4, <3>2
    <3> HIDE DEF prev, f
    <3>4. /\ Layout(f.heap, hk)
          /\ \A x \in Addr :
               /\ f.heap.valid[x] = IF x = r THEN "NONE" ELSE g1.valid[x]
               /\ x \notin {r, prev} => f.heap.size[x] = g1.size[x]
      BY <3>1, <3>2, <3>3, <1>2, AbsorbLayout
    <3> QED BY <3>1, <3>2, <3>3, <3>4, <1>2 DEF SameBlock
  <2> QED BY <2>1, <2>2
<1> HIDE DEF f
<1>4. Layout(out.heap, out.hunks) /\ Kept(out.heap)
  <2> DEFINE c == f.chunk
             s == f.heap.prev[c]
  <2>1. CASE ~FillsHunk(f.heap, c)
    <3>1. out.heap = f.heap /\ out.hunks = hk
      BY <2>1 DEF FreeResult, f
    <3> QED BY <3>1, <1>3
  <2>2. CASE FillsHunk(f.heap, c)
    <3>1. out.heap = Vanish(Vanish(f.heap, c), s) /\ out.hunks = Dropping(hk, s)
      BY <2>2 DEF FreeResult, f
    <3> HIDE DEF c, s, out
    <3>2. f.heap.prev[c] = s /\ c \in Addr /\ f.heap.valid[c] = "FREE"
      BY <1>3 DEF s, c
    <3>3. /\ Layout(out.heap, out.hunks)
          /\ f.heap.valid[s] = "SBRK"
          /\ \A x \in Addr :
               /\ out.heap.valid[x] = IF x \in {c, s} THEN "NONE" ELSE f.heap.valid[x]
               /\ x \notin {c, s} => out.heap.size[x] = f.heap.size[x]
      BY <3>1, <3>2, <2>2, <1>3, ReleaseLayout
    <3> QED BY <3>2, <3>3, <1>3 DEF SameBlock
  <2> QED BY <2>1, <2>2
<1> QED BY <1>4

LEMMA ChunkSizeFacts ==
    ASSUME NEW n \in Requests
    PROVE  /\ n \in Nat /\ ChunkSizeFor(n) \in Nat
           /\ ChunkSizeFor(n) >= AllocExtra + n /\ ChunkSizeFor(n) > 0
<1>1. n \in Nat /\ ChunkSizeFor(n) >= AllocExtra + n
  BY RequestsAssumption
<1>2. RoundUp(n, Alignment) \in Nat
  BY <1>1, SizesAssumption, RoundUpFacts
<1>3. ChunkSizeFor(n) \in Nat
  <2>1. AllocExtra + RoundUp(n, Alignment) \in Nat /\ SizeLimit \in Nat \ {0}
    BY <1>2, ExtraFacts, SizesAssumption
  <2> QED BY <2>1 DEF ChunkSizeFor
<1> QED BY <1>1, <1>3, ExtraFacts

LEMMA HunkSizeFacts ==
    ASSUME NEW size \in Nat, NEW minHunk \in Nat
    PROVE  /\ HunkSizeFor(size, minHunk) \in Nat
           /\ HunkSizeFor(size, minHunk) >= size + SbrkExtra
<1> DEFINE need == IF size + SbrkExtra > minHunk THEN size + SbrkExtra ELSE minHunk
<1>1. need \in Nat /\ need >= size + SbrkExtra
  BY ExtraFacts
<1>2. HunkSizeFor(size, minHunk) = RoundUp(need, PageSize)
  BY DEF HunkSizeFor
<1> HIDE DEF need
<1>3. RoundUp(need, PageSize) \in Nat /\ RoundUp(need, PageSize) >= need
  BY <1>1, SizesAssumption, RoundUpFacts
<1> QED BY <1>1, <1>2, <1>3, ExtraFacts

\* malloc fails and leaves the heap alone, or makes one more block of what was
\* free and leaves the other blocks alone.
LEMMA MallocFacts ==
    ASSUME Layout(heap, hunks), MINHUNK \in Nat,
           NEW n \in Requests, NEW out \in MallocResults(n)
    PROVE  /\ Layout(out.heap, out.hunks)
           /\ out.min \in Nat
           /\ out.chunk = NULL => out.heap = heap /\ out.hunks = hunks
           /\ out.chunk # NULL =>
                /\ out.chunk \in Addr /\ heap.valid[out.chunk] # "ALLOC"
                /\ out.heap.valid[out.chunk] = "ALLOC"
                /\ out.heap.size[out.chunk] >= ChunkSizeFor(n)
                /\ \A x \in Addr \ {out.chunk} :
                     IF heap.valid[x] = "ALLOC" THEN SameBlock(out.heap, heap, x)
                     ELSE out.heap.valid[x] # "ALLOC"
<1> DEFINE size == ChunkSizeFor(n)
           fit == FirstFit(heap, size)
           len == HunkSizeFor(size, MINHUNK)
           min == IF size + SbrkExtra <= MINHUNK /\ MINHUNK < MAXHUNK
                  THEN 2 * MINHUNK ELSE MINHUNK
<1>1. size \in Nat /\ size > 0 /\ len \in Nat /\ len >= size + SbrkExtra /\ min \in Nat
  <2>1. size \in Nat /\ size > 0
    BY ChunkSizeFacts
  <2>2. min \in Nat
    BY SMT
  <2> HIDE DEF size
  <2>3. len \in Nat /\ len >= size + SbrkExtra
    BY <2>1, HunkSizeFacts
  <2> QED BY <2>1, <2>2, <2>3
<1>2. CASE fit # ListHead
  <2>1. out = [chunk |-> Carved(heap, fit, size), min |-> MINHUNK,
               heap |-> Carve(heap, fit, size), hunks |-> hunks]
    BY <1>2 DEF MallocResults
  <2>2. /\ fit \in Addr /\ heap.valid[fit] = "FREE" /\ heap.size[fit] >= size
    <3> DEFINE S == {b \in Nodes(heap) : heap.valid[b] # "SBRK" /\ heap.size[b] >= size}
    <3>1. S \in SUBSET Addr /\ fit = FirstOf(S)
      BY DEF FirstFit, Nodes
    <3>2. fit \in S
      BY <3>1, <1>2, FirstOfLeast
    <3> QED BY <3>2 DEF Nodes
  <2> HIDE DEF fit, size
  <2>3. /\ Layout(out.heap, hunks) /\ out.chunk \in Addr
        /\ heap.valid[out.chunk] # "ALLOC" /\ out.heap.size[out.chunk] >= size
        /\ \A x \in Addr :
             /\ out.heap.valid[x] = IF x = out.chunk THEN "ALLOC" ELSE heap.valid[x]
             /\ x \notin {out.chunk, fit} => out.heap.size[x] = heap.size[x]
    BY <2>1, <2>2, <1>1, CarveLayout
  <2>4. ASSUME NEW x \in Addr \ {out.chunk}
        PROVE  IF heap.valid[x] = "ALLOC" THEN SameBlock(out.heap, heap, x)
               ELSE out.heap.valid[x] # "ALLOC"
    BY <2>2, <2>3 DEF SameBlock
  <2>5. out.min = MINHUNK /\ out.hunks = hunks /\ out.heap.valid[out.chunk] = "ALLOC"
    BY <2>1, <2>3
  <2>6. out.chunk # NULL
    BY <2>3, SizeFacts DEF NULL
  <2> QED BY <2>3, <2>4, <2>5, <2>6 DEF size
<1>3. CASE fit = ListHead /\ out = [chunk |-> NULL, min |-> min, heap |-> heap, hunks |-> hunks]
  BY <1>1, <1>3
<1>4. ASSUME NEW b \in Vacant(hunks, len),
             LET grown == AddHunk(heap, b, len)
                 q == b + SbrkExtra
             IN  out = [chunk |-> Carved(grown, q, size), min |-> min,
                        heap |-> Carve(grown, q, size), hunks |-> WithHunk(hunks, b, len)]
      PROVE  /\ Layout(out.heap, out.hunks) /\ out.min = min
             /\ out.chunk \in Addr /\ heap.valid[out.chunk] # "ALLOC"
             /\ out.heap.valid[out.chunk] = "ALLOC"
             /\ out.heap.size[out.chunk] >= size
             /\ \A x \in Addr \ {out.chunk} :
                  IF heap.valid[x] = "ALLOC" THEN SameBlock(out.heap, heap, x)
                  ELSE out.heap.valid[x] # "ALLOC"
  <2> DEFINE grown == AddHunk(heap, b, len)
             q == b + SbrkExtra
             hk2 == WithHunk(hunks, b, len)
  <2>1. /\ out.chunk = Carved(grown, q, size) /\ out.heap = Carve(grown, q, size)
        /\ out.hunks = hk2 /\ out.min = min
    BY <1>4
  <2> HIDE DEF len, size, min
  <2>2. len > SbrkExtra
    BY <1>1, ExtraFacts
  <2>3. /\ Layout(grown, hk2) /\ q \in Addr /\ grown.valid[q] = "FREE"
        /\ grown.size[q] = len - SbrkExtra
        /\ heap.valid[b] = "NONE" /\ heap.valid[q] = "NONE" /\ grown.valid[b] = "SBRK"
        /\ \A x \in Addr \ {b, q} : /\ grown.valid[x] = heap.valid[x]
                                    /\ grown.size[x] = heap.size[x]
    BY <2>2, <1>1, AddHunkLayout
  <2>4. grown.size[q] >= size
    BY <2>3, <1>1, ExtraFacts
  <2> HIDE DEF grown, q, hk2
  <2>5. /\ Layout(out.heap, hk2) /\ out.chunk \in Addr
        /\ grown.valid[out.chunk] # "ALLOC" /\ out.heap.size[out.chunk] >= size
        /\ \A x \in Addr :
             /\ out.heap.valid[x] = IF x = out.chunk THEN "ALLOC" ELSE grown.valid[x]
             /\ x \notin {out.chunk, q} => out.heap.size[x] = grown.size[x]
    BY <2>1, <2>3, <2>4, <1>1, CarveLayout
  <2>6. \A x \in Addr : heap.valid[x] = "ALLOC" =>
              x # b /\ x # q /\ grown.valid[x] = "ALLOC" /\ grown.size[x] = heap.size[x]
    BY <2>3
  <2>7. \A x \in Addr : grown.valid[x] = "ALLOC" => heap.valid[x] = "ALLOC"
    BY <2>3
  <2> QED BY <2>1, <2>5, <2>6, <2>7 DEF SameBlock
<1>5. out.chunk \in Addr => out.chunk # NULL
  BY SizeFacts DEF NULL
<1>6. CASE fit = ListHead
  <2>1. \/ out = [chunk |-> NULL, min |-> min, heap |-> heap, hunks |-> hunks]
        \/ \E b \in Vacant(hunks, len) :
             out = [chunk |-> Carved(AddHunk(heap, b, len), b + SbrkExtra, size), min |-> min,
                    heap |-> Carve(AddHunk(heap, b, len), b + SbrkExtra, size),
                    hunks |-> WithHunk(hunks, b, len)]
    BY <1>6 DEF MallocResults
  <2> QED BY <2>1, <1>1, <1>3, <1>4, <1>5, <1>6
<1> QED BY <1>2, <1>6

-----------------------------------------------------------------------------
(***************************************************************************)
(* The inductive invariant.  LinksInOrder alone is not inductive: that a    *)
(* new hunk's two nodes go side by side into the list needs the layout, and *)
(* that what free puts on the list was not there needs the program's blocks *)
(* to be the allocated chunks.                                              *)
(***************************************************************************)

\* The blocks in lv are the allocated chunks of h, and have room enough.
Held(h, lv) ==
    /\ \A x \in Addr : h.valid[x] = "ALLOC" <=> x + AllocExtra \in DOMAIN lv
    /\ \A p \in DOMAIN lv : /\ p \in Nat /\ p - AllocExtra \in Addr
                            /\ lv[p] \in Requests
                            /\ h.size[p - AllocExtra] >= AllocExtra + lv[p]

HeapInv ==
    /\ Layout(heap, hunks)
    /\ Held(heap, live)
    /\ MINHUNK \in Nat /\ MAXHUNK \in Nat
    /\ errno \in {"none", "ENOMEM", "EINVAL"}

LEMMA HeldMore ==
    ASSUME NEW h, NEW g, NEW lv, NEW c \in Addr, NEW n \in Requests,
           Held(h, lv), h.valid[c] # "ALLOC", g.valid[c] = "ALLOC",
           g.size[c] >= ChunkSizeFor(n), g.size[c] \in Nat,
           \A x \in Addr \ {c} : IF h.valid[x] = "ALLOC" THEN SameBlock(g, h, x)
                                 ELSE g.valid[x] # "ALLOC"
    PROVE  Held(g, Holding(lv, c + AllocExtra, n))
<1> DEFINE q == c + AllocExtra
           l2 == Holding(lv, q, n)
<1>1. DOMAIN l2 = DOMAIN lv \cup {q} /\ l2[q] = n /\ \A p \in DOMAIN lv : p # q => l2[p] = lv[p]
  BY DEF Holding
<1>2. q \in Nat /\ q - AllocExtra = c /\ c \in Nat
  BY SizeFacts, ExtraFacts
<1>3. \A x \in Addr : x + AllocExtra = q => x = c
  BY SizeFacts, ExtraFacts
<1>4. q \notin DOMAIN lv
  BY DEF Held
<1> HIDE DEF l2, q
<1>5. ASSUME NEW x \in Addr
      PROVE  g.valid[x] = "ALLOC" <=> x + AllocExtra \in DOMAIN l2
  <2>1. CASE x = c
    BY <2>1, <1>1, <1>2 DEF q
  <2>2. CASE x # c
    BY <2>2, <1>1, <1>3 DEF Held, SameBlock
  <2> QED BY <2>1, <2>2
<1>6. ASSUME NEW p \in DOMAIN l2
      PROVE  /\ p \in Nat /\ p - AllocExtra \in Addr /\ l2[p] \in Requests
             /\ g.size[p - AllocExtra] >= AllocExtra + l2[p]
  <2>1. CASE p = q
    <3>1. ChunkSizeFor(n) >= AllocExtra + n /\ ChunkSizeFor(n) \in Nat /\ n \in Nat
      BY ChunkSizeFacts
    <3> QED BY <2>1, <3>1, <1>1, <1>2, ExtraFacts
  <2>2. CASE p # q
    <3>1. /\ p \in DOMAIN lv /\ p \in Nat /\ p - AllocExtra \in Addr /\ l2[p] = lv[p]
          /\ lv[p] \in Requests /\ h.size[p - AllocExtra] >= AllocExtra + lv[p]
      BY <2>2, <1>1 DEF Held
    <3>2. (p - AllocExtra) + AllocExtra = p
      BY <3>1, ExtraFacts
    <3>3. h.valid[p - AllocExtra] = "ALLOC" /\ p - AllocExtra # c
      BY <3>1, <3>2 DEF Held
    <3>4. g.size[p - AllocExtra] = h.size[p - AllocExtra]
      BY <3>1, <3>3 DEF SameBlock
    <3> QED BY <3>1, <3>4
  <2> QED BY <2>1, <2>2
<1> QED BY <1>5, <1>6 DEF Held, l2, q

LEMMA HeldLess ==
    ASSUME NEW h, NEW g, NEW lv, NEW p \in DOMAIN lv, Held(h, lv),
           g.valid[p - AllocExtra] # "ALLOC",
           \A x \in Addr \ {p - AllocExtra} :
              IF h.valid[x] = "ALLOC" THEN SameBlock(g, h, x) ELSE g.valid[x] # "ALLOC"
    PROVE  Held(g, Dropping(lv, p))
<1> DEFINE r == p - AllocExtra
           l2 == Dropping(lv, p)
<1>1. DOMAIN l2 = DOMAIN lv \ {p} /\ \A q \in DOMAIN l2 : l2[q] = lv[q]
  BY DEF Dropping
<1>2. r \in Addr /\ r + AllocExtra = p /\ p \in Nat
  BY ExtraFacts DEF Held
<1>3. \A x \in Addr : x + AllocExtra = p => x = r
  BY <1>2, SizeFacts, ExtraFacts
<1> HIDE DEF l2, r
<1>5. ASSUME NEW x \in Addr
      PROVE  g.valid[x] = "ALLOC" <=> x + AllocExtra \in DOMAIN l2
  <2>1. CASE x = r
    BY <2>1, <1>1, <1>2 DEF r
  <2>2. CASE x # r
    BY <2>2, <1>1, <1>3 DEF Held, SameBlock, r
  <2> QED BY <2>1, <2>2
<1>6. ASSUME NEW q \in DOMAIN l2
      PROVE  /\ q \in Nat /\ q - AllocExtra \in Addr /\ l2[q] \in Requests
             /\ g.size[q - AllocExtra] >= AllocExtra + l2[q]
  <2>1. /\ q \in DOMAIN lv /\ q # p /\ q \in Nat /\ q - AllocExtra \in Addr /\ l2[q] = lv[q]
        /\ lv[q] \in Requests /\ h.size[q - AllocExtra] >= AllocExtra + lv[q]
    BY <1>1 DEF Held
  <2>2. (q - AllocExtra) + AllocExtra = q
    BY <2>1, ExtraFacts
  <2>3. h.valid[q - AllocExtra] = "ALLOC" /\ q - AllocExtra # r
    BY <2>1, <2>2, <1>2 DEF Held
  <2> QED BY <2>1, <2>3 DEF SameBlock, r
<1> QED BY <1>5, <1>6 DEF Held, l2

\* The program's block p and its chunk.
LEMMA HeldFacts ==
    ASSUME HeapInv, NEW p \in DOMAIN live
    PROVE  /\ p - AllocExtra \in Addr /\ p \in Nat /\ p = (p - AllocExtra) + AllocExtra
           /\ heap.valid[p - AllocExtra] = "ALLOC"
           /\ live[p] \in Requests
<1>1. p \in Nat /\ p - AllocExtra \in Addr /\ live[p] \in Requests
  BY DEF HeapInv, Held
<1>2. p = (p - AllocExtra) + AllocExtra
  BY <1>1, ExtraFacts
<1> QED BY <1>1, <1>2 DEF HeapInv, Held

\* Asking for another size of a block that is large enough changes no chunk.
LEMMA HeldResized ==
    ASSUME NEW h, NEW g, NEW lv, NEW p \in DOMAIN lv, NEW n \in Requests, Held(h, lv),
           g.size[p - AllocExtra] \in Nat,
           g.size[p - AllocExtra] >= ChunkSizeFor(n),
           \A x \in Addr : g.valid[x] = "ALLOC" <=> h.valid[x] = "ALLOC",
           \A x \in Addr \ {p - AllocExtra} :
              h.valid[x] = "ALLOC" => g.size[x] = h.size[x]
    PROVE  Held(g, [lv EXCEPT ![p] = n])
<1> DEFINE l2 == [lv EXCEPT ![p] = n]
<1>1. DOMAIN l2 = DOMAIN lv /\ l2[p] = n /\ \A q \in DOMAIN lv : q # p => l2[q] = lv[q]
  OBVIOUS
<1> HIDE DEF l2
<1>2. ASSUME NEW q \in DOMAIN lv
      PROVE  /\ q \in Nat /\ q - AllocExtra \in Addr /\ l2[q] \in Requests
             /\ g.size[q - AllocExtra] >= AllocExtra + l2[q]
  <2>1. /\ q \in Nat /\ q - AllocExtra \in Addr /\ lv[q] \in Requests
        /\ h.size[q - AllocExtra] >= AllocExtra + lv[q]
        /\ p \in Nat /\ p - AllocExtra \in Addr
    BY DEF Held
  <2>2. CASE q = p
    <3>1. ChunkSizeFor(n) >= AllocExtra + n /\ ChunkSizeFor(n) \in Nat /\ n \in Nat
      BY ChunkSizeFacts
    <3> QED BY <2>1, <2>2, <3>1, <1>1, ExtraFacts
  <2>3. CASE q # p
    <3>1. q - AllocExtra # p - AllocExtra /\ (q - AllocExtra) + AllocExtra = q
      BY <2>1, <2>3, ExtraFacts
    <3>2. h.valid[q - AllocExtra] = "ALLOC"
      BY <2>1, <3>1 DEF Held
    <3> QED BY <2>1, <2>3, <3>1, <3>2, <1>1
  <2> QED BY <2>2, <2>3
<1> QED BY <1>1, <1>2 DEF Held, l2

LEMMA InitInv == Init => HeapInv
<1> SUFFICES ASSUME Init PROVE HeapInv
  OBVIOUS
<1>1. /\ heap \in HeapType
      /\ \A a \in Addr : heap.valid[a] = "NONE"
      /\ \A a \in Link : heap.next[a] = ListHead /\ heap.prev[a] = ListHead
  BY SizeFacts DEF Init, EmptyHeap, HeapType
<1>2. Nodes(heap) = {} /\ Chunks(heap) = {} /\ List(heap) = {ListHead}
  BY <1>1 DEF Nodes, Chunks, List
<1>3. InOrder(heap)
  BY <1>1, <1>2, SizeFacts DEF InOrder
<1>4. DOMAIN hunks = {} /\ DOMAIN live = {}
  BY DEF Init
<1>5. HunksListed(heap, hunks)
  BY <1>1, <1>4 DEF HunksListed
<1>6. Layout(heap, hunks)
  BY <1>1, <1>2, <1>3, <1>5 DEF Layout, Disjoint
<1>7. Held(heap, live)
  BY <1>1, <1>4 DEF Held
<1> QED BY <1>6, <1>7, SizesAssumption DEF HeapInv, Init

LEMMA MallocInv ==
    ASSUME HeapInv, NEW n \in Requests, Malloc(n)
    PROVE  HeapInv'
<1>1. PICK out \in MallocResults(n) :
        /\ heap' = out.heap /\ hunks' = out.hunks /\ MINHUNK' = out.min
        /\ IF out.chunk = NULL
           THEN errno' = "ENOMEM" /\ UNCHANGED live
           ELSE /\ live' = Holding(live, out.chunk + AllocExtra, n)
                /\ UNCHANGED errno
  BY DEF Malloc
<1>2. MAXHUNK' = MAXHUNK
  BY DEF Malloc
<1>3. /\ Layout(out.heap, out.hunks) /\ out.min \in Nat
      /\ out.chunk = NULL => out.heap = heap /\ out.hunks = hunks
      /\ out.chunk # NULL =>
                /\ out.chunk \in Addr /\ heap.valid[out.chunk] # "ALLOC"
                /\ out.heap.valid[out.chunk] = "ALLOC"
                /\ out.heap.size[out.chunk] >= ChunkSizeFor(n)
                /\ \A x \in Addr \ {out.chunk} :
                     IF heap.valid[x] = "ALLOC" THEN SameBlock(out.heap, heap, x)
                     ELSE out.heap.valid[x] # "ALLOC"
  BY MallocFacts DEF HeapInv
<1>4. CASE out.chunk = NULL
  BY <1>1, <1>2, <1>3, <1>4 DEF HeapInv
<1>5. CASE out.chunk # NULL
  <2>1. Held(out.heap, Holding(live, out.chunk + AllocExtra, n))
    BY <1>3, <1>5, HeldMore, LayoutFacts DEF HeapInv
  <2> QED BY <2>1, <1>1, <1>2, <1>3, <1>5 DEF HeapInv
<1> QED BY <1>4, <1>5

LEMMA FreeChunkInv ==
    ASSUME HeapInv, NEW p \in DOMAIN live, FreeChunk(p),
           errno' \in {"none", "ENOMEM", "EINVAL"}
    PROVE  HeapInv'
<1> DEFINE r == p - AllocExtra
           out == FreeResult(heap, hunks, r)
<1>1. r \in Addr /\ heap.valid[r] = "ALLOC"
  BY HeldFacts
<1>2. /\ Layout(out.heap, out.hunks) /\ out.heap.valid[r] # "ALLOC"
      /\ \A x \in Addr \ {r} : IF heap.valid[x] = "ALLOC" THEN SameBlock(out.heap, heap, x)
                               ELSE out.heap.valid[x] # "ALLOC"
  BY <1>1, FreeResultFacts DEF HeapInv
<1>3. /\ heap' = out.heap /\ hunks' = out.hunks /\ live' = Dropping(live, p)
      /\ UNCHANGED <<MINHUNK, MAXHUNK>>
  BY DEF FreeChunk
<1> HIDE DEF out
<1>4. Held(out.heap, Dropping(live, p))
  BY <1>2, HeldLess DEF HeapInv
<1> QED BY <1>2, <1>3, <1>4 DEF HeapInv

\* malloc, copy and free in one realloc: while both blocks exist the heap has
\* a layout too, and the old block is the one that goes.
LEMMA MoveInv ==
    ASSUME HeapInv, NEW p \in DOMAIN live, NEW n \in Requests, NEW whenFull,
           Held(heap, whenFull), Move(p, n, whenFull)
    PROVE  HeapInv'
<1> DEFINE r == p - AllocExtra
<1>1. PICK out \in MallocResults(n) :
         IF out.chunk = NULL
         THEN /\ heap' = out.heap /\ hunks' = out.hunks /\ MINHUNK' = out.min
              /\ live' = whenFull /\ errno' = "ENOMEM"
         ELSE LET rest == FreeResult(out.heap, out.hunks, r)
              IN  /\ heap' = rest.heap /\ hunks' = rest.hunks /\ MINHUNK' = out.min
                  /\ live' = Holding(Dropping(live, p), out.chunk + AllocExtra, n)
                  /\ UNCHANGED errno
  BY DEF Move
<1>2. MAXHUNK' = MAXHUNK
  BY DEF Move
<1>3. /\ Layout(out.heap, out.hunks) /\ out.min \in Nat
      /\ out.chunk = NULL => out.heap = heap /\ out.hunks = hunks
      /\ out.chunk # NULL =>
                /\ out.chunk \in Addr /\ heap.valid[out.chunk] # "ALLOC"
                /\ out.heap.valid[out.chunk] = "ALLOC"
                /\ out.heap.size[out.chunk] >= ChunkSizeFor(n)
                /\ \A x \in Addr \ {out.chunk} :
                     IF heap.valid[x] = "ALLOC" THEN SameBlock(out.heap, heap, x)
                     ELSE out.heap.valid[x] # "ALLOC"
  BY MallocFacts DEF HeapInv
<1>4. CASE out.chunk = NULL
  BY <1>1, <1>2, <1>3, <1>4 DEF HeapInv
<1>5. CASE out.chunk # NULL
  <2> DEFINE rest == FreeResult(out.heap, out.hunks, r)
             q == out.chunk + AllocExtra
             both == Holding(live, q, n)
  <2>1. /\ heap' = rest.heap /\ hunks' = rest.hunks /\ MINHUNK' = out.min
        /\ live' = Holding(Dropping(live, p), q, n)
        /\ UNCHANGED errno
    BY <1>1, <1>5
  <2>2. r \in Addr /\ heap.valid[r] = "ALLOC" /\ p = r + AllocExtra
    BY HeldFacts
  <2>3. out.chunk # r /\ out.heap.valid[r] = "ALLOC"
    BY <1>3, <1>5, <2>2 DEF SameBlock
  <2>4. Held(out.heap, both)
    BY <1>3, <1>5, HeldMore, LayoutFacts DEF HeapInv
  <2>5. /\ Layout(rest.heap, rest.hunks) /\ rest.heap.valid[r] # "ALLOC"
        /\ \A x \in Addr \ {r} :
             IF out.heap.valid[x] = "ALLOC" THEN SameBlock(rest.heap, out.heap, x)
             ELSE rest.heap.valid[x] # "ALLOC"
    BY <1>3, <2>2, <2>3, FreeResultFacts
  <2> HIDE DEF rest
  <2>6. p \in DOMAIN both /\ p # q
    <3>1. p # q
      BY <1>3, <1>5 DEF HeapInv, Held
    <3> QED BY <3>1 DEF Holding
  <2>7. Held(rest.heap, Dropping(both, p))
    BY <2>4, <2>5, <2>6, HeldLess
  <2>8. Dropping(both, p) = Holding(Dropping(live, p), q, n)
    BY <2>6 DEF Dropping, Holding
  <2> QED BY <2>1, <2>5, <2>7, <2>8, <1>2, <1>3 DEF HeapInv
<1> QED BY <1>4, <1>5

LEMMA ReallocDownInv ==
    ASSUME HeapInv, NEW p \in DOMAIN live, NEW n \in Requests, ReallocDown(p, n)
    PROVE  HeapInv'
<1>1. p - AllocExtra \in Addr
  BY HeldFacts
<1>2. heap.size[p - AllocExtra] \in Nat
  BY <1>1, LayoutFacts DEF HeapInv
<1>3. heap.size[p - AllocExtra] >= ChunkSizeFor(n)
  BY <1>2, ChunkSizeFacts, ExtraFacts DEF ReallocDown, ShrinksBy
<1>4. Held(heap, [live EXCEPT ![p] = n])
  BY <1>2, <1>3, HeldResized DEF HeapInv
<1> QED BY <1>4, MoveInv DEF ReallocDown

LEMMA ReallocInPlaceInv ==
    ASSUME HeapInv, NEW p \in DOMAIN live, NEW n \in Requests, ReallocInPlace(p, n)
    PROVE  HeapInv'
<1>1. p - AllocExtra \in Addr
  BY HeldFacts
<1>2. heap.size[p - AllocExtra] \in Nat
  BY <1>1, LayoutFacts DEF HeapInv
<1>3. heap.size[p - AllocExtra] >= ChunkSizeFor(n)
  BY <1>2, ChunkSizeFacts DEF ReallocInPlace, TooSmall
<1>4. Held(heap, [live EXCEPT ![p] = n])
  BY <1>2, <1>3, HeldResized DEF HeapInv
<1> QED BY <1>4 DEF ReallocInPlace, HeapInv, allocator

LEMMA ReallocExtendInv ==
    ASSUME HeapInv, NEW p \in DOMAIN live, NEW n \in Requests, ReallocExtend(p, n)
    PROVE  HeapInv'
<1> DEFINE r == p - AllocExtra
           next == NodeFrom(heap, r)
           g == Absorb(heap, r, next)
<1>1. /\ next # ListHead /\ r + heap.size[r] = next /\ heap.valid[next] = "FREE"
      /\ heap.size[r] + heap.size[next] >= ChunkSizeFor(n)
  BY DEF ReallocExtend, CanExtend
<1>2. /\ heap' = g /\ live' = [live EXCEPT ![p] = n]
      /\ UNCHANGED <<MINHUNK, MAXHUNK, hunks, errno>>
  BY DEF ReallocExtend
<1>3. r \in Addr /\ heap.valid[r] = "ALLOC"
  BY HeldFacts
<1>4. next \in Addr /\ next # r
  <2>1. r \notin Nodes(heap)
    BY <1>3 DEF Nodes
  <2>2. next \in List(heap)
    BY <1>3, <2>1, NodeFromFacts
  <2> QED BY <1>1, <1>3, <2>2 DEF List, Nodes
<1> HIDE DEF next, g, r
<1>5. /\ Layout(g, hunks)
      /\ \A x \in Addr : /\ g.valid[x] = IF x = next THEN "NONE" ELSE heap.valid[x]
                         /\ g.size[x] = IF x = r THEN heap.size[r] + heap.size[next]
                                        ELSE IF x = next THEN 0 ELSE heap.size[x]
  BY <1>1, <1>3, <1>4, AbsorbLayout DEF HeapInv, g
<1>6. g.size[r] \in Nat /\ g.size[r] >= ChunkSizeFor(n)
  BY <1>1, <1>3, <1>5, LayoutFacts
<1>7. \A x \in Addr : g.valid[x] = "ALLOC" <=> heap.valid[x] = "ALLOC"
  BY <1>1, <1>5
<1>8. \A x \in Addr \ {r} : heap.valid[x] = "ALLOC" => g.size[x] = heap.size[x]
  BY <1>1, <1>5
<1>9. Held(g, [live EXCEPT ![p] = n])
  BY <1>6, <1>7, <1>8, HeldResized DEF HeapInv, r
<1> QED BY <1>2, <1>5, <1>9 DEF HeapInv

LEMMA NextInv == HeapInv /\ [Next]_vars => HeapInv'
<1> SUFFICES ASSUME HeapInv, [Next]_vars PROVE HeapInv'
  OBVIOUS
<1>1. ASSUME NEW n \in Requests, Malloc(n) \/ ReallocNull(n) PROVE HeapInv'
  BY <1>1, MallocInv DEF ReallocNull
<1>2. ASSUME NEW n \in Requests, NEW sz \in Requests, Calloc(n, sz) PROVE HeapInv'
  BY <1>2, MallocInv DEF Calloc
<1>3. ASSUME NEW p, Free(p) PROVE HeapInv'
  <2>1. p \in DOMAIN live /\ FreeChunk(p) /\ errno' = errno
    BY <1>3 DEF Free
  <2> QED BY <2>1, FreeChunkInv DEF HeapInv
<1>4. ASSUME NEW p, ReallocZero(p) PROVE HeapInv'
  BY <1>4, FreeChunkInv DEF ReallocZero
<1>5. ASSUME NEW p, FreeIgnored(p) PROVE HeapInv'
  BY <1>5 DEF FreeIgnored, vars, HeapInv
<1>6. ASSUME NEW p, NEW n \in Requests, ReallocStale(p, n) PROVE HeapInv'
  BY <1>6 DEF ReallocStale, allocator, HeapInv
<1>7. ASSUME NEW p, NEW n \in Requests, ReallocDown(p, n) PROVE HeapInv'
  BY <1>7, ReallocDownInv DEF ReallocDown
<1>8. ASSUME NEW p, NEW n \in Requests, ReallocInPlace(p, n) PROVE HeapInv'
  BY <1>8, ReallocInPlaceInv DEF ReallocInPlace
<1>9. ASSUME NEW p, NEW n \in Requests, ReallocExtend(p, n) PROVE HeapInv'
  BY <1>9, ReallocExtendInv DEF ReallocExtend
<1>10. ASSUME NEW p, NEW n \in Requests, ReallocUp(p, n) PROVE HeapInv'
  BY <1>10, MoveInv DEF ReallocUp, HeapInv
<1>11. ASSUME NEW siz \in ChunkSizes, MallocChunkSize(siz) PROVE HeapInv'
  BY <1>11, SizesAssumption DEF MallocChunkSize, HeapInv
<1>12. CASE UNCHANGED vars
  BY <1>12 DEF vars, HeapInv
<1> QED
  BY <1>1, <1>2, <1>3, <1>4, <1>5, <1>6, <1>7, <1>8, <1>9, <1>10, <1>11, <1>12 DEF Next

\* The heap keeps its layout and the program its blocks, for ever.
THEOREM HeapInvariant == Spec => []HeapInv
<1>1. Init => HeapInv
  BY InitInv
<1>2. HeapInv /\ [Next]_vars => HeapInv'
  BY NextInv
<1> QED BY <1>1, <1>2, PTL DEF Spec

LEMMA InvImpliesTypeOK == HeapInv => TypeOK
<1> SUFFICES ASSUME HeapInv PROVE TypeOK
  OBVIOUS
<1>1. heap \in HeapType
  BY LayoutFacts DEF HeapInv
<1>2. DOMAIN hunks \subseteq Addr /\ \A s \in DOMAIN hunks : hunks[s] \in Nat
  BY HunkFacts DEF HeapInv
<1>3. DOMAIN live \subseteq Nat /\ \A p \in DOMAIN live : live[p] \in Requests
  BY DEF HeapInv, Held
<1> QED BY <1>1, <1>2, <1>3 DEF TypeOK, HeapInv

LEMMA InvImpliesTiles == HeapInv => ChunksTileHunks
BY DEF HeapInv, Layout, Disjoint, LiesIn, ChunksTileHunks, HunkEnd

LEMMA InvImpliesHeld == HeapInv => LiveBlocksHeld
<1> SUFFICES ASSUME HeapInv PROVE LiveBlocksHeld
  OBVIOUS
<1>1. ASSUME NEW p \in DOMAIN live
      PROVE  /\ p > AllocExtra
             /\ heap.size[p - AllocExtra] >= AllocExtra + live[p]
             /\ p - AllocExtra \in Addr /\ heap.valid[p - AllocExtra] = "ALLOC"
  <2>1. p \in Nat /\ p - AllocExtra \in Addr /\ heap.valid[p - AllocExtra] = "ALLOC"
    BY HeldFacts
  <2>2. p > AllocExtra
    BY <2>1, SizeFacts, ExtraFacts
  <2> QED BY <2>1, <2>2 DEF HeapInv, Held
<1>2. ASSUME NEW r \in Addr, heap.valid[r] = "ALLOC"
      PROVE  \E p \in DOMAIN live : r = p - AllocExtra
  <2>1. r + AllocExtra \in DOMAIN live
    BY <1>2 DEF HeapInv, Held
  <2>2. (r + AllocExtra) - AllocExtra = r
    BY SizeFacts, ExtraFacts
  <2> QED BY <2>1, <2>2
<1> QED BY <1>1, <1>2 DEF LiveBlocksHeld

\* The variables always have their types.
THEOREM TypeCorrect == Spec => []TypeOK
BY HeapInvariant, InvImpliesTypeOK, PTL

\* Whatever the order of malloc, free and realloc, and wherever GEMDOS places
\* the hunks, the free list stays a doubly linked list in ascending order of
\* address.
THEOREM ListStaysInOrder == Spec => []LinksInOrder
<1>1. HeapInv => LinksInOrder
  BY DEF HeapInv, Layout, LinksInOrder
<1> QED BY <1>1, HeapInvariant, PTL

\* Chunks never overlap, and the hunks are made of them.
THEOREM ChunksAlwaysTile == Spec => []ChunksTileHunks
BY HeapInvariant, InvImpliesTiles, PTL

\* The hunks on the list are the ones GEMDOS lent.
THEOREM HunksAlwaysTracked == Spec => []HunksTracked
<1>1. HeapInv => HunksTracked
  BY DEF HeapInv, Layout, HunksListed, HunksTracked
<1> QED BY <1>1, HeapInvariant, PTL

\* No call loses a chunk or leaves a block without room.
THEOREM BlocksAlwaysHeld == Spec => []LiveBlocksHeld
BY HeapInvariant, InvImpliesHeld, PTL

\* All of it together: no sequence of calls takes the heap apart.
THEOREM HeapStaysSound == Spec => []HeapSound
BY TypeCorrect, ListStaysInOrder, HunksAlwaysTracked, ChunksAlwaysTile,
   BlocksAlwaysHeld, PTL DEF HeapSound

-----------------------------------------------------------------------------
(* Heap implements Allocator: every call of the library is one step of the  *)
(* abstract allocator, or changes none of the program's blocks.             *)

\* Blocks that have allocated chunks with room for them do not meet.
LEMMA HeldApart ==
    ASSUME NEW h, NEW hk, NEW lv, Layout(h, hk), Held(h, lv)
    PROVE  /\ \A p \in DOMAIN lv : p \in 1 .. (Top + 1)
           /\ \A p, q \in DOMAIN lv : p # q => Abstract!Apart(p, lv[p], q, lv[q])
<1>1. ASSUME NEW p \in DOMAIN lv
      PROVE  /\ p \in Nat /\ p - AllocExtra \in Chunks(h) /\ lv[p] \in Nat
             /\ h.size[p - AllocExtra] \in Nat /\ p - AllocExtra \in Nat
             /\ h.size[p - AllocExtra] >= AllocExtra + lv[p]
             /\ p > 0 /\ p <= Top + 1
  <2> DEFINE r == p - AllocExtra
  <2>1. /\ p \in Nat /\ r \in Addr /\ lv[p] \in Nat /\ r + AllocExtra = p
        /\ h.size[r] >= AllocExtra + lv[p]
    <3>1. p \in Nat /\ r \in Addr /\ lv[p] \in Requests /\ h.size[r] >= AllocExtra + lv[p]
      BY DEF Held
    <3>2. lv[p] \in Nat
      BY <3>1, RequestsAssumption
    <3>3. r + AllocExtra = p
      BY <3>1, ExtraFacts
    <3> QED BY <3>1, <3>2, <3>3
  <2>2. h.valid[r] = "ALLOC"
    BY <2>1 DEF Held
  <2>3. r \in Chunks(h) /\ h.size[r] \in Nat /\ r \in Nat /\ r # 0
    BY <2>1, <2>2, LayoutFacts, SizeFacts DEF Chunks
  <2>4. PICK s \in DOMAIN hk : LiesIn(h, hk, r, s)
    BY <2>3 DEF Layout
  <2>5. r + h.size[r] <= Top + 1
    BY <2>3, <2>4, HunkFacts, SizeFacts DEF LiesIn
  <2> HIDE DEF r
  <2>6. p <= Top + 1 /\ p > 0
    BY <2>1, <2>3, <2>5, ExtraFacts, SizeFacts
  <2> QED BY <2>1, <2>3, <2>6 DEF r
<1>2. ASSUME NEW p \in DOMAIN lv, NEW q \in DOMAIN lv, p # q
      PROVE  p + lv[p] <= q \/ q + lv[q] <= p
  <2> DEFINE r == p - AllocExtra
             t == q - AllocExtra
  <2>1. /\ p \in Nat /\ q \in Nat /\ p = r + AllocExtra /\ q = t + AllocExtra
        /\ r # t /\ r \in Nat /\ t \in Nat /\ r \in Chunks(h) /\ t \in Chunks(h)
        /\ lv[p] \in Nat /\ lv[q] \in Nat /\ h.size[r] \in Nat /\ h.size[t] \in Nat
        /\ h.size[r] >= AllocExtra + lv[p] /\ h.size[t] >= AllocExtra + lv[q]
    BY <1>1, <1>2, ExtraFacts
  <2> HIDE DEF r, t
  <2>2. r + h.size[r] <= t \/ t + h.size[t] <= r
    BY <2>1 DEF Layout, Disjoint
  <2> QED BY <2>1, <2>2, ExtraFacts
<1>3. \A p \in DOMAIN lv : p \in 1 .. (Top + 1)
  BY <1>1, SizeFacts
<1> QED BY <1>2, <1>3 DEF Abstract!Apart

\* malloc's block is new and clear of the ones the program has.
LEMMA MallocClear ==
    ASSUME HeapInv, NEW n \in Requests, NEW out \in MallocResults(n), out.chunk # NULL
    PROVE  /\ out.chunk + AllocExtra \in 1 .. (Top + 1)
           /\ Abstract!Clear(out.chunk + AllocExtra, n, live)
<1> DEFINE q == out.chunk + AllocExtra
           both == Holding(live, q, n)
<1>1. /\ Layout(out.heap, out.hunks)
      /\ out.chunk \in Addr /\ heap.valid[out.chunk] # "ALLOC"
      /\ out.heap.valid[out.chunk] = "ALLOC"
      /\ out.heap.size[out.chunk] >= ChunkSizeFor(n)
      /\ \A x \in Addr \ {out.chunk} :
           IF heap.valid[x] = "ALLOC" THEN SameBlock(out.heap, heap, x)
           ELSE out.heap.valid[x] # "ALLOC"
  BY MallocFacts DEF HeapInv
<1>2. Held(out.heap, both)
  BY <1>1, HeldMore, LayoutFacts DEF HeapInv
<1>3. q \notin DOMAIN live
  BY <1>1 DEF HeapInv, Held
<1> HIDE DEF q
<1>4. /\ q \in DOMAIN both /\ both[q] = n
      /\ \A x \in DOMAIN live : x \in DOMAIN both /\ x # q /\ both[x] = live[x]
  BY <1>3 DEF Holding
<1> HIDE DEF both
<1>5. q \in 1 .. (Top + 1) /\ \A x \in DOMAIN live : Abstract!Apart(q, n, x, live[x])
  BY <1>1, <1>2, <1>4, HeldApart
<1> QED BY <1>3, <1>5 DEF Abstract!Clear, q

LEMMA MallocRefines ==
    ASSUME HeapInv, NEW n \in Requests, Malloc(n)
    PROVE  [Abstract!Next]_live
<1>1. PICK out \in MallocResults(n) :
         IF out.chunk = NULL THEN UNCHANGED live
         ELSE live' = Holding(live, out.chunk + AllocExtra, n)
  BY DEF Malloc
<1>2. CASE out.chunk = NULL
  BY <1>1, <1>2
<1>3. CASE out.chunk # NULL
  <2> DEFINE q == out.chunk + AllocExtra
  <2>1. q \in 1 .. (Top + 1) /\ Abstract!Clear(q, n, live)
    BY <1>3, MallocClear
  <2>2. live' = Holding(live, q, n)
    BY <1>1, <1>3
  <2> HIDE DEF q
  <2>3. Abstract!Acquire(q, n)
    BY <2>1, <2>2 DEF Abstract!Acquire, Abstract!With, Holding
  <2> QED BY <2>1, <2>3 DEF Abstract!Next
<1> QED BY <1>2, <1>3

LEMMA FreeRefines ==
    ASSUME HeapInv, NEW p \in DOMAIN live, FreeChunk(p)
    PROVE  Abstract!Next
<1>1. p \in 1 .. (Top + 1)
  BY HeldApart DEF HeapInv
<1>2. Abstract!Release(p)
  BY DEF FreeChunk, Dropping, Abstract!Release, Abstract!Without
<1> QED BY <1>1, <1>2 DEF Abstract!Next

\* A block that stays where it is and gets another size.
LEMMA ResizeRefines ==
    ASSUME HeapInv, HeapInv', NEW p \in DOMAIN live, NEW n \in Requests,
           live' = [live EXCEPT ![p] = n]
    PROVE  Abstract!Next
<1>1. p \in 1 .. (Top + 1)
  BY HeldApart DEF HeapInv
<1> DEFINE l2 == live'
<1>2. /\ DOMAIN l2 = DOMAIN live /\ l2[p] = n
      /\ \A q \in DOMAIN live : q # p => l2[q] = live[q]
  OBVIOUS
<1>3. Layout(heap', hunks') /\ Held(heap', l2)
  BY DEF HeapInv
<1> HIDE DEF l2
<1>4. \A q \in DOMAIN live : q # p => Abstract!Apart(p, n, q, live[q])
  BY <1>2, <1>3, HeldApart
<1>5. Abstract!Clear(p, n, Abstract!Without(p))
  BY <1>4 DEF Abstract!Clear, Abstract!Without
<1>6. live' = Abstract!With(live, p, n)
  BY DEF Abstract!With
<1>7. Abstract!ResizeHere(p, n)
  BY <1>5, <1>6 DEF Abstract!ResizeHere
<1> QED BY <1>1, <1>7 DEF Abstract!Next

LEMMA MoveRefines ==
    ASSUME HeapInv, HeapInv', NEW p \in DOMAIN live, NEW n \in Requests, NEW whenFull,
           whenFull \in {live, [live EXCEPT ![p] = n]},
           Move(p, n, whenFull)
    PROVE  [Abstract!Next]_live
<1>1. PICK out \in MallocResults(n) :
         IF out.chunk = NULL THEN live' = whenFull
         ELSE live' = Holding(Dropping(live, p), out.chunk + AllocExtra, n)
  BY DEF Move
<1>2. CASE out.chunk = NULL
  BY <1>1, <1>2, ResizeRefines
<1>3. CASE out.chunk # NULL
  <2> DEFINE q == out.chunk + AllocExtra
  <2>1. q \in 1 .. (Top + 1) /\ Abstract!Clear(q, n, live)
    BY <1>3, MallocClear
  <2>2. live' = Holding(Dropping(live, p), q, n)
    BY <1>1, <1>3
  <2>3. p \in 1 .. (Top + 1)
    BY HeldApart DEF HeapInv
  <2> HIDE DEF q
  <2>4. Abstract!ResizeMoving(p, q, n)
    BY <2>1, <2>2 DEF Abstract!ResizeMoving, Abstract!With, Abstract!Without, Holding, Dropping
  <2> QED BY <2>1, <2>3, <2>4 DEF Abstract!Next
<1> QED BY <1>2, <1>3

LEMMA NextRefines == HeapInv /\ HeapInv' /\ [Next]_vars => [Abstract!Next]_live
<1> SUFFICES ASSUME HeapInv, HeapInv', [Next]_vars PROVE [Abstract!Next]_live
  OBVIOUS
<1>1. ASSUME NEW n \in Requests, Malloc(n) \/ ReallocNull(n) PROVE [Abstract!Next]_live
  BY <1>1, MallocRefines DEF ReallocNull
<1>2. ASSUME NEW n \in Requests, NEW sz \in Requests, Calloc(n, sz) PROVE [Abstract!Next]_live
  BY <1>2, MallocRefines DEF Calloc
<1>3. ASSUME NEW p, Free(p) \/ ReallocZero(p) PROVE [Abstract!Next]_live
  BY <1>3, FreeRefines DEF Free, ReallocZero
<1>4. ASSUME NEW p, FreeIgnored(p) PROVE [Abstract!Next]_live
  BY <1>4 DEF FreeIgnored, vars
<1>5. ASSUME NEW p, NEW n \in Requests, ReallocStale(p, n) PROVE [Abstract!Next]_live
  BY <1>5 DEF ReallocStale
<1>6. ASSUME NEW p, NEW n \in Requests, ReallocDown(p, n) PROVE [Abstract!Next]_live
  BY <1>6, MoveRefines DEF ReallocDown
<1>7. ASSUME NEW p, NEW n \in Requests, ReallocInPlace(p, n) PROVE [Abstract!Next]_live
  BY <1>7, ResizeRefines DEF ReallocInPlace
<1>8. ASSUME NEW p, NEW n \in Requests, ReallocExtend(p, n) PROVE [Abstract!Next]_live
  BY <1>8, ResizeRefines DEF ReallocExtend
<1>9. ASSUME NEW p, NEW n \in Requests, ReallocUp(p, n) PROVE [Abstract!Next]_live
  BY <1>9, MoveRefines DEF ReallocUp
<1>10. ASSUME NEW siz \in ChunkSizes, MallocChunkSize(siz) PROVE [Abstract!Next]_live
  BY <1>10 DEF MallocChunkSize
<1>11. CASE UNCHANGED vars
  BY <1>11 DEF vars
<1> QED
  BY <1>1, <1>2, <1>3, <1>4, <1>5, <1>6, <1>7, <1>8, <1>9, <1>10, <1>11 DEF Next

\* Every behaviour of malloc, free, realloc and calloc is one of the abstract
\* allocator: the program's blocks never overlap, a failing call loses none,
\* and a block that moves goes to a place clear of all the others and of its
\* own old one.
THEOREM HeapImplementsAllocator == Spec => ImplementsAllocator
<1>1. Init => Abstract!Init
  BY DEF Init, Abstract!Init
<1>2. HeapInv /\ HeapInv' /\ [Next]_vars => [Abstract!Next]_live
  BY NextRefines
<1> QED
  BY <1>1, <1>2, HeapInvariant, PTL DEF Spec, ImplementsAllocator, Abstract!Spec

-----------------------------------------------------------------------------
(***************************************************************************)
(* Free memory lies together.                                               *)
(***************************************************************************)

\* Chunks a and b are both free, and b starts where a ends.
Adjoin(h, a, b) ==
    /\ a \in Chunks(h) /\ b \in Chunks(h)
    /\ h.valid[a] = "FREE" /\ h.valid[b] = "FREE"
    /\ a + h.size[a] = b

Merged(h) == \A a, b \in Chunks(h) : ~Adjoin(h, a, b)

\* Something in hunk s is allocated.
InUse(h, hk, s) == \E a \in Chunks(h) : h.valid[a] = "ALLOC" /\ s < a /\ a < s + hk[s]

Tidy(h, hk) == Merged(h) /\ \A s \in DOMAIN hk : InUse(h, hk, s)

\* A free chunk directly behind chunk a is the next node after it.
LEMMA NextAdjoins ==
    ASSUME NEW h, NEW hk, Layout(h, hk), NEW a \in Nodes(h), NEW b \in Nodes(h),
           a + h.size[a] = b
    PROVE  h.next[a] = b /\ h.prev[b] = a /\ a < b
<1>1. /\ a \in Chunks(h) /\ a \in Nat /\ b \in Nat /\ b \in Chunks(h)
      /\ h.size[a] \in Nat /\ h.size[a] > 0
  BY LayoutFacts, SizeFacts DEF Layout
<1>2. a < b
  BY <1>1
<1>3. a \in List(h) /\ InOrder(h)
  BY LayoutFacts DEF List
<1>4. h.next[a] # ListHead /\ h.next[a] <= b /\ a < h.next[a] /\ h.next[a] \in List(h)
  BY <1>2, <1>3 DEF InOrder
<1>5. h.next[a] \in Chunks(h) /\ h.next[a] \in Nat
  BY <1>4, LayoutFacts, SizeFacts DEF List
<1>6. a + h.size[a] <= h.next[a]
  BY <1>1, <1>4, <1>5 DEF Layout, Disjoint
<1>7. h.next[a] = b
  BY <1>4, <1>5, <1>6, <1>1
<1> QED BY <1>2, <1>3, <1>7 DEF InOrder

\* Where nothing in a hunk is allocated, one free chunk fills it.
LEMMA IdleHunk ==
    ASSUME NEW h, NEW hk, Layout(h, hk), Merged(h), NEW s \in DOMAIN hk,
           hk[s] > SbrkExtra, ~InUse(h, hk, s)
    PROVE  LET c == s + SbrkExtra IN
           /\ c \in Addr /\ h.valid[c] = "FREE" /\ c + h.size[c] = s + hk[s]
           /\ h.prev[c] = s /\ FillsHunk(h, c)
<1> DEFINE c == s + SbrkExtra
           end == s + hk[s]
<1>1. /\ s \in Addr /\ s \in Nat /\ hk[s] \in Nat /\ h.valid[s] = "SBRK"
      /\ hk[s] = SbrkExtra + h.sbrk[s] /\ h.size[s] = SbrkExtra
      /\ \A t \in DOMAIN hk : s # t => end <= t \/ t + hk[t] <= s
      /\ SbrkExtra \in Nat /\ SbrkExtra > 0
  BY HunkFacts, ExtraFacts
<1>2. s \in Chunks(h) /\ s \in Nodes(h)
  BY <1>1 DEF Chunks, Nodes
<1>3. \A x \in Chunks(h) : x \in Nat /\ x \in Addr /\ h.size[x] \in Nat /\ h.size[x] > 0
  BY LayoutFacts, SizeFacts DEF Layout
\* A chunk that starts in the hunk ends in it.
<1>4. ASSUME NEW x \in Chunks(h), s <= x, x < end
      PROVE  x + h.size[x] <= end /\ (x + h.size[x] = end \/ x + h.size[x] \in Chunks(h))
  <2>1. PICK t \in DOMAIN hk : LiesIn(h, hk, x, t)
    BY DEF Layout
  <2>2. t \in Nat /\ hk[t] \in Nat
    BY HunkFacts
  <2>3. t = s
    BY <2>1, <2>2, <1>1, <1>3, <1>4 DEF LiesIn
  <2> QED BY <2>1, <2>3 DEF LiesIn
\* A chunk in the hunk that is not its first is free.
<1>5. ASSUME NEW x \in Chunks(h), s < x, x < end PROVE h.valid[x] = "FREE"
  <2>1. h.valid[x] # "ALLOC"
    BY <1>5 DEF InUse
  <2>2. h.valid[x] # "SBRK"
    <3>1. SUFFICES ASSUME x \in DOMAIN hk PROVE FALSE
      BY <1>3 DEF Layout, HunksListed
    <3>2. x + hk[x] <= s \/ end <= x
      BY <3>1, <1>1, <1>3, <1>5
    <3>3. hk[x] \in Nat /\ x \in Nat
      BY <3>1, HunkFacts
    <3> QED BY <3>2, <3>3, <1>1, <1>5
  <2> QED BY <2>1, <2>2, <1>3, LayoutFacts DEF Chunks
<1>6. c < end /\ c > s /\ c \in Nat
  BY <1>1
<1>7. c \in Chunks(h)
  BY <1>1, <1>2, <1>4, <1>6
<1>8. h.valid[c] = "FREE"
  BY <1>5, <1>6, <1>7
<1>9. c \in Nodes(h) /\ c \in Addr
  BY <1>3, <1>7, <1>8 DEF Nodes
<1>10. c + h.size[c] = end
  <2> DEFINE d == c + h.size[c]
  <2>1. d <= end /\ (d = end \/ d \in Chunks(h))
    BY <1>4, <1>6, <1>7, <1>1
  <2>2. d \in Nat /\ c < d
    BY <1>3, <1>7, <1>6
  <2>3. d \in Chunks(h) /\ d < end => h.valid[d] = "FREE"
    <3> HIDE DEF d
    <3> QED BY <2>2, <1>5, <1>6, <1>1
  <2>4. ~ (d \in Chunks(h) /\ d < end)
    <3> HIDE DEF c
    <3> QED BY <2>3, <1>7, <1>8 DEF Merged, Adjoin
  <2> HIDE DEF d
  <2> QED BY <2>1, <2>2, <2>4, <1>1 DEF d
<1>11. h.prev[c] = s
  BY <1>1, <1>2, <1>9, NextAdjoins
<1>12. FillsHunk(h, c)
  <2>1. h.sbrk[s] \in Nat /\ h.size[c] \in Nat
    BY <1>1, <1>3, <1>7, LayoutFacts
  <2>2. h.sbrk[s] = h.size[c]
    <3> DEFINE left == h.sbrk[s]
               right == h.size[c]
    <3>1. left \in Nat /\ right \in Nat /\ hk[s] = SbrkExtra + left /\ s + SbrkExtra + right = s + hk[s]
      BY <2>1, <1>1, <1>10
    <3> HIDE DEF left, right
    <3>2. left = right
      BY <3>1, <1>1
    <3> QED BY <3>2 DEF left, right
  <2> QED BY <2>2, <1>1, <1>11, SizeFacts DEF FillsHunk
<1> QED BY <1>8, <1>9, <1>10, <1>11, <1>12

\* What malloc takes out of a free chunk is allocated, so no two free ones meet.
LEMMA CarveMerged ==
    ASSUME NEW h, NEW hk, Layout(h, hk), NEW q \in Addr, h.valid[q] = "FREE",
           NEW size \in Nat, size > 0, h.size[q] >= size,
           \A x, y \in Chunks(h) : x # q => ~Adjoin(h, x, y)
    PROVE  Merged(Carve(h, q, size))
<1> DEFINE g == Carve(h, q, size)
           a == Carved(h, q, size)
<1>1. /\ a # q => q + g.size[q] = a
      /\ \A x \in Addr :
           /\ g.valid[x] = IF x = a THEN "ALLOC" ELSE h.valid[x]
           /\ x \notin {a, q} => g.size[x] = h.size[x]
  BY CarveLayout
<1> HIDE DEF g, a
<1>2. SUFFICES ASSUME NEW x \in Chunks(g), NEW y \in Chunks(g), Adjoin(g, x, y) PROVE FALSE
  BY DEF Merged, g
<1>3. /\ x \in Addr /\ y \in Addr /\ x # a /\ y # a
      /\ h.valid[x] = "FREE" /\ h.valid[y] = "FREE" /\ x + g.size[x] = y
  BY <1>1, <1>2 DEF Adjoin, Chunks
<1>4. x # q
  BY <1>1, <1>3
<1>5. g.size[x] = h.size[x]
  BY <1>1, <1>3, <1>4
<1> QED BY <1>3, <1>4, <1>5 DEF Adjoin, Chunks

\* A chunk that stays allocated keeps its hunk in use.
LEMMA StaysInUse ==
    ASSUME NEW h, NEW g, NEW hk, NEW s, InUse(h, hk, s),
           \A x \in Addr : h.valid[x] = "ALLOC" => g.valid[x] = "ALLOC"
    PROVE  InUse(g, hk, s)
<1>1. PICK a \in Chunks(h) : h.valid[a] = "ALLOC" /\ s < a /\ a < s + hk[s]
  BY DEF InUse
<1>2. a \in Chunks(g) /\ g.valid[a] = "ALLOC"
  BY <1>1 DEF Chunks
<1> QED BY <1>1, <1>2 DEF InUse

\* The first free chunk that is large enough, or none is.
LEMMA FirstFitFacts ==
    ASSUME NEW h \in HeapType, NEW size \in Nat
    PROVE  LET fit == FirstFit(h, size) IN
           /\ fit # ListHead => fit \in Addr /\ h.valid[fit] = "FREE" /\ h.size[fit] >= size
           /\ fit = ListHead =>
                \A a \in Nodes(h) : h.valid[a] = "FREE" => h.size[a] < size
<1> DEFINE fit == FirstFit(h, size)
           S == {b \in Nodes(h) : h.valid[b] # "SBRK" /\ h.size[b] >= size}
<1>1. S \in SUBSET Addr /\ fit = FirstOf(S)
  BY DEF FirstFit, Nodes
<1>2. /\ S = {} => fit = ListHead
      /\ S # {} => fit \in S
  BY <1>1, FirstOfLeast
<1> HIDE DEF fit
<1>3. ASSUME fit # ListHead
      PROVE  fit \in Addr /\ h.valid[fit] = "FREE" /\ h.size[fit] >= size
  BY <1>2, <1>3 DEF Nodes
<1>4. ASSUME fit = ListHead, NEW a \in Nodes(h), h.valid[a] = "FREE"
      PROVE  h.size[a] < size
  <2>1. S = {}
    <3>1. S # {} => fit \in Addr
      BY <1>1, <1>2
    <3> HIDE DEF S
    <3> QED BY <3>1, <1>4, SizeFacts
  <2>2. a \in Addr /\ h.size[a] \in Nat
    BY HeapFields DEF Nodes
  <2>3. ~(h.size[a] >= size)
    BY <2>1, <1>4
  <2> QED BY <2>2, <2>3
<1> QED BY <1>3, <1>4 DEF fit

LEMMA MallocTidy ==
    ASSUME Layout(heap, hunks), Tidy(heap, hunks), MINHUNK \in Nat,
           NEW n \in Requests, NEW out \in MallocResults(n)
    PROVE  /\ Tidy(out.heap, out.hunks)
           /\ \A s \in DOMAIN out.hunks \ DOMAIN hunks :
                /\ s < out.chunk /\ out.chunk < s + out.hunks[s] /\ out.chunk # NULL
                /\ \A a \in Nodes(heap) :
                     heap.valid[a] = "FREE" => heap.size[a] < ChunkSizeFor(n)
<1> DEFINE size == ChunkSizeFor(n)
           fit == FirstFit(heap, size)
           len == HunkSizeFor(size, MINHUNK)
           min == IF size + SbrkExtra <= MINHUNK /\ MINHUNK < MAXHUNK
                  THEN 2 * MINHUNK ELSE MINHUNK
           Wanted == /\ Tidy(out.heap, out.hunks)
                     /\ \A s \in DOMAIN out.hunks \ DOMAIN hunks :
                          s < out.chunk /\ out.chunk < s + out.hunks[s] /\ out.chunk # NULL
<1>1. size \in Nat /\ size > 0
  BY ChunkSizeFacts
<1>2. len \in Nat /\ len >= size + SbrkExtra
  <2> HIDE DEF size
  <2> QED BY <1>1, HunkSizeFacts
<1>3. heap \in HeapType
  BY LayoutFacts
<1>4. CASE fit # ListHead
  <2>1. /\ out.chunk = Carved(heap, fit, size) /\ out.heap = Carve(heap, fit, size)
        /\ out.hunks = hunks
    BY <1>4 DEF MallocResults
  <2>2. fit \in Addr /\ heap.valid[fit] = "FREE" /\ heap.size[fit] >= size
    BY <1>1, <1>3, <1>4, FirstFitFacts
  <2> HIDE DEF fit, size
  <2>3. Merged(out.heap)
    BY <2>1, <2>2, <1>1, CarveMerged DEF Tidy, Merged
  <2>4. \A x \in Addr : heap.valid[x] = "ALLOC" => out.heap.valid[x] = "ALLOC"
    BY <2>1, <2>2, <1>1, CarveLayout
  <2>5. \A s \in DOMAIN hunks : InUse(out.heap, hunks, s)
    BY <2>4, StaysInUse DEF Tidy
  <2> QED BY <2>1, <2>3, <2>5 DEF Tidy
<1>5. CASE out = [chunk |-> NULL, min |-> min, heap |-> heap, hunks |-> hunks]
  BY <1>5
<1>6. ASSUME NEW b \in Vacant(hunks, len),
             out = [chunk |-> Carved(AddHunk(heap, b, len), b + SbrkExtra, size), min |-> min,
                    heap |-> Carve(AddHunk(heap, b, len), b + SbrkExtra, size),
                    hunks |-> WithHunk(hunks, b, len)]
      PROVE  Wanted
  <2> DEFINE grown == AddHunk(heap, b, len)
             q == b + SbrkExtra
             hk2 == WithHunk(hunks, b, len)
  <2>1. /\ out.chunk = Carved(grown, q, size) /\ out.heap = Carve(grown, q, size)
        /\ out.hunks = hk2
    BY <1>6
  <2> HIDE DEF len, size, min
  <2>2. len > SbrkExtra
    BY <1>1, <1>2, ExtraFacts
  <2>3. /\ Layout(grown, hk2) /\ b \notin DOMAIN hunks /\ q \in Addr /\ grown.valid[q] = "FREE"
        /\ grown.size[q] = len - SbrkExtra
        /\ heap.valid[b] = "NONE" /\ heap.valid[q] = "NONE" /\ grown.valid[b] = "SBRK"
        /\ \A x \in Addr \ {b, q} : /\ grown.valid[x] = heap.valid[x]
                                    /\ grown.size[x] = heap.size[x]
    BY <2>2, <1>2, AddHunkLayout
  <2>4. grown.size[q] >= size
    BY <2>3, <1>1, <1>2, ExtraFacts
  <2>5. b \in Addr /\ b \in Nat /\ q \in Nat /\ b < q
    BY SizesAssumption, SizeFacts, ExtraFacts DEF Vacant, Addr
  <2>6. /\ DOMAIN hk2 = DOMAIN hunks \cup {b} /\ hk2[b] = len
        /\ \A s \in DOMAIN hunks : hk2[s] = hunks[s]
    BY <2>3 DEF WithHunk
  <2>6a. b + len = q + grown.size[q]
    BY <2>3, <2>5, <1>2, ExtraFacts
  <2> HIDE DEF grown, hk2, q
  <2>7. ASSUME NEW x \in Chunks(grown), NEW y \in Chunks(grown), x # q PROVE ~Adjoin(grown, x, y)
    <3>1. SUFFICES ASSUME Adjoin(grown, x, y) PROVE FALSE
      OBVIOUS
    <3>2. /\ x \in Addr /\ x # b /\ y \in Addr /\ y # b
          /\ heap.valid[x] = "FREE" /\ grown.size[x] = heap.size[x] /\ x + heap.size[x] = y
      BY <2>3, <3>1, <2>7 DEF Adjoin, Chunks
    <3>3. CASE y # q
      <4>1. Adjoin(heap, x, y) /\ x \in Chunks(heap) /\ y \in Chunks(heap)
        BY <2>3, <3>1, <3>2, <3>3 DEF Adjoin, Chunks
      <4> QED BY <4>1 DEF Tidy, Merged
    <3>4. CASE y = q
      <4>1. /\ b \in Chunks(grown) /\ x \in Nat /\ heap.size[x] \in Nat /\ heap.size[x] > 0
        BY <2>3, <2>5, <3>2, SizeFacts, LayoutFacts DEF Chunks, Layout
      <4>2. x < b => x + heap.size[x] <= b
        BY <4>1, <3>2, <2>3 DEF Layout, Disjoint
      <4>3. q = b + SbrkExtra /\ grown.size[b] = SbrkExtra /\ SbrkExtra \in Nat
        BY <2>3, <2>6, HunkFacts, ExtraFacts DEF q
      <4>4. b < x => q <= x
        BY <4>1, <4>3, <2>3 DEF Layout, Disjoint
      <4> QED BY <4>1, <4>2, <4>4, <3>2, <3>4, <2>5
    <3> QED BY <3>3, <3>4
  <2>8. Merged(out.heap)
    BY <2>1, <2>3, <2>4, <2>7, <1>1, CarveMerged
  <2>9. /\ out.chunk \in Addr /\ q <= out.chunk /\ out.chunk + out.heap.size[out.chunk] = b + len
        /\ Layout(out.heap, hk2)
        /\ \A x \in Addr : out.heap.valid[x] = IF x = out.chunk THEN "ALLOC" ELSE grown.valid[x]
    BY <2>1, <2>3, <2>4, <2>6a, <1>1, CarveLayout
  <2>10. ASSUME NEW s \in DOMAIN hunks PROVE InUse(out.heap, hk2, s)
    <3>1. \A x \in Addr : heap.valid[x] = "ALLOC" => out.heap.valid[x] = "ALLOC"
      BY <2>3, <2>9
    <3>2. InUse(out.heap, hunks, s)
      BY <3>1, StaysInUse DEF Tidy
    <3> QED BY <3>2, <2>6 DEF InUse
  <2>11. b < out.chunk /\ out.chunk < b + len /\ out.chunk # NULL
    <3>1. out.chunk \in Chunks(out.heap) /\ out.chunk \in Nat
      BY <2>9, SizeFacts DEF Chunks
    <3>2. out.heap.size[out.chunk] \in Nat /\ out.heap.size[out.chunk] > 0
      BY <3>1, <2>9, LayoutFacts DEF Layout
    <3> QED BY <3>1, <3>2, <2>9, <2>5, <1>2, SizeFacts DEF NULL
  <2>12. InUse(out.heap, hk2, b)
    <3>1. out.chunk \in Chunks(out.heap) /\ out.heap.valid[out.chunk] = "ALLOC"
      BY <2>9 DEF Chunks
    <3> QED BY <3>1, <2>6, <2>11 DEF InUse
  <2> QED BY <2>1, <2>6, <2>8, <2>10, <2>11, <2>12 DEF Tidy
<1>7. CASE fit = ListHead
  <2>1. \/ out = [chunk |-> NULL, min |-> min, heap |-> heap, hunks |-> hunks]
        \/ \E b \in Vacant(hunks, len) :
             out = [chunk |-> Carved(AddHunk(heap, b, len), b + SbrkExtra, size), min |-> min,
                    heap |-> Carve(AddHunk(heap, b, len), b + SbrkExtra, size),
                    hunks |-> WithHunk(hunks, b, len)]
    BY <1>7 DEF MallocResults
  <2>2. \A a \in Nodes(heap) : heap.valid[a] = "FREE" => heap.size[a] < size
    BY <1>1, <1>3, <1>7, FirstFitFacts
  <2>3. Wanted
    BY <2>1, <1>5, <1>6
  <2> QED BY <2>2, <2>3
<1> QED BY <1>4, <1>7

\* The two merges of free: behind a chunk r that has just become free there is
\* no free chunk after the first one, and none before it after the second.
LEMMA MergeAfterMerges ==
    ASSUME NEW h, NEW hk, Layout(h, hk), Merged(h), NEW r \in Addr, h.valid[r] = "ALLOC"
    PROVE  LET g == MergeAfter(LinkInOrder(h, r), r) IN
           /\ Layout(g, hk) /\ g.valid[r] = "FREE"
           /\ \A x \in Addr \ {r} : g.valid[x] = "ALLOC" <=> h.valid[x] = "ALLOC"
           /\ \A x, y \in Chunks(g) : y # r => ~Adjoin(g, x, y)
<1> DEFINE g0 == LinkInOrder(h, r)
           g == MergeAfter(g0, r)
           next == g0.next[r]
<1>0. SUFFICES /\ Layout(g, hk) /\ g.valid[r] = "FREE"
               /\ \A x \in Addr \ {r} : g.valid[x] = "ALLOC" <=> h.valid[x] = "ALLOC"
               /\ \A x, y \in Chunks(g) : y # r => ~Adjoin(g, x, y)
  OBVIOUS
<1>1. /\ Layout(g0, hk) /\ g0.size = h.size
      /\ \A x \in Addr : g0.valid[x] = IF x = r THEN "FREE" ELSE h.valid[x]
  BY LinkInOrderLayout
<1> HIDE DEF g0
<1>2. ASSUME NEW x \in Chunks(g0), NEW y \in Chunks(g0), x # r, y # r PROVE ~Adjoin(g0, x, y)
  <2>1. SUFFICES ASSUME Adjoin(g0, x, y) PROVE FALSE
    OBVIOUS
  <2>2. Adjoin(h, x, y) /\ x \in Chunks(h) /\ y \in Chunks(h)
    BY <1>1, <1>2, <2>1 DEF Adjoin, Chunks
  <2> QED BY <2>2 DEF Merged
<1>3. r \in Nodes(g0) /\ r \in Chunks(g0)
  BY <1>1 DEF Nodes, Chunks
<1>4. CASE ~(next # ListHead /\ r + g0.size[r] = next /\ g0.valid[next] = "FREE")
  <2>1. g = g0
    BY <1>4 DEF MergeAfter
  <2> HIDE DEF g
  <2>2. ASSUME NEW x \in Chunks(g0), NEW y \in Chunks(g0), y # r PROVE ~Adjoin(g0, x, y)
    <3>1. CASE x # r
      BY <2>2, <3>1, <1>2
    <3>2. CASE x = r
      <4>1. SUFFICES ASSUME Adjoin(g0, r, y) PROVE FALSE
        BY <3>2
      <4>2. y \in Nodes(g0) /\ r + g0.size[r] = y /\ g0.valid[y] = "FREE" /\ y \in Addr
        BY <4>1 DEF Adjoin, Nodes, Chunks
      <4>3. next = y
        BY <4>2, <1>1, <1>3, NextAdjoins
      <4> QED BY <4>2, <4>3, <1>4, SizeFacts
    <3> QED BY <3>1, <3>2
  <2> QED BY <2>1, <2>2, <1>1
<1>5. CASE next # ListHead /\ r + g0.size[r] = next /\ g0.valid[next] = "FREE"
  <2>1. g = Absorb(g0, r, next)
    BY <1>5 DEF MergeAfter
  <2>2. next \in Addr /\ next # r /\ next \in Chunks(g0)
    <3>1. r \in List(g0)
      BY <1>3 DEF List
    <3>2. next \in List(g0) /\ r < next
      BY <3>1, <1>5, <1>1, LayoutFacts DEF InOrder
    <3> QED BY <3>2, <1>1, <1>5, SizeFacts, LayoutFacts DEF List, Nodes
  <2> HIDE DEF g, next
  <2>3. /\ Layout(g, hk)
        /\ \A x \in Addr :
             /\ g.valid[x] = IF x = next THEN "NONE" ELSE g0.valid[x]
             /\ g.size[x] = IF x = r THEN g0.size[r] + g0.size[next]
                            ELSE IF x = next THEN 0 ELSE g0.size[x]
    BY <2>1, <2>2, <1>1, <1>5, AbsorbLayout
  <2>4. ASSUME NEW x \in Chunks(g), NEW y \in Chunks(g), y # r, Adjoin(g, x, y) PROVE FALSE
    <3>1. /\ x \in Addr /\ y \in Addr /\ x # next /\ y # next
          /\ g0.valid[x] = "FREE" /\ g0.valid[y] = "FREE" /\ x + g.size[x] = y
      BY <2>3, <2>4 DEF Adjoin, Chunks
    <3>2. CASE x # r
      <4>1. x + g0.size[x] = y
        BY <2>3, <3>1, <3>2
      <4> QED BY <4>1, <3>1, <3>2, <2>4, <1>2 DEF Adjoin, Chunks
    <3>3. CASE x = r
      <4>1. g.size[r] = g0.size[r] + g0.size[next]
        BY <2>3
      <4>2. g0.size[r] \in Nat /\ g0.size[next] \in Nat /\ r \in Nat /\ next \in Nat
        BY <1>1, <2>2, LayoutFacts, SizeFacts
      <4>3. next + g0.size[next] = y
        BY <4>1, <4>2, <3>1, <3>3, <1>5
      <4>4. Adjoin(g0, next, y)
        BY <4>3, <2>2, <3>1, <1>5 DEF Adjoin, Chunks
      <4> QED BY <4>4, <2>2, <2>4, <1>2 DEF Adjoin
    <3> QED BY <3>2, <3>3
  <2>5. \A x \in Addr \ {r} : g.valid[x] = "ALLOC" <=> h.valid[x] = "ALLOC"
    BY <2>3, <1>1, <1>5
  <2>6. g.valid[r] = "FREE"
    BY <2>3, <2>2, <1>1
  <2> QED BY <2>3, <2>4, <2>5, <2>6
<1> QED BY <1>4, <1>5

LEMMA FreedMerges ==
    ASSUME NEW h, NEW hk, Layout(h, hk), Merged(h), NEW r \in Addr, h.valid[r] = "ALLOC"
    PROVE  LET f == Freed(h, r) IN
           /\ Layout(f.heap, hk) /\ Merged(f.heap)
           /\ f.chunk \in Addr /\ f.heap.valid[f.chunk] = "FREE"
           /\ f.chunk <= r /\ r < f.chunk + f.heap.size[f.chunk]
           /\ \A x \in Addr \ {r} : f.heap.valid[x] = "ALLOC" <=> h.valid[x] = "ALLOC"
<1> DEFINE g == MergeAfter(LinkInOrder(h, r), r)
           f == Freed(h, r)
           prev == g.prev[r]
<1>0. SUFFICES /\ Layout(f.heap, hk) /\ Merged(f.heap)
               /\ f.chunk \in Addr /\ f.heap.valid[f.chunk] = "FREE"
               /\ f.chunk <= r /\ r < f.chunk + f.heap.size[f.chunk]
               /\ \A x \in Addr \ {r} : f.heap.valid[x] = "ALLOC" <=> h.valid[x] = "ALLOC"
  OBVIOUS
<1>1. /\ Layout(g, hk) /\ g.valid[r] = "FREE"
      /\ \A x \in Addr \ {r} : g.valid[x] = "ALLOC" <=> h.valid[x] = "ALLOC"
      /\ \A x, y \in Chunks(g) : y # r => ~Adjoin(g, x, y)
  BY MergeAfterMerges
<1>2. f = IF MergesBefore(g, r)
          THEN [heap |-> Absorb(g, g.prev[r], r), chunk |-> g.prev[r]]
          ELSE [heap |-> g, chunk |-> r]
  BY DEF Freed
<1> HIDE DEF f, g
<1>3. r \in Nodes(g) /\ r \in Chunks(g)
  BY <1>1 DEF Nodes, Chunks
<1>4. r \in Nat /\ g.size[r] \in Nat /\ g.size[r] > 0
  BY <1>1, <1>3, LayoutFacts, SizeFacts DEF Layout
<1>5. CASE ~MergesBefore(g, r)
  <2>1. f.heap = g /\ f.chunk = r
    BY <1>2, <1>5
  <2>2. ASSUME NEW x \in Chunks(g), Adjoin(g, x, r) PROVE FALSE
    <3>1. x \in Nodes(g) /\ x + g.size[x] = r /\ g.valid[x] = "FREE" /\ x # ListHead
      BY <2>2, SizeFacts DEF Adjoin, Nodes, Chunks
    <3>2. g.prev[r] = x
      BY <3>1, <1>1, <1>3, NextAdjoins
    <3> QED BY <3>1, <3>2, <1>5 DEF MergesBefore
  <2>3. Merged(g)
    BY <2>2, <1>1 DEF Merged
  <2>4. r <= r /\ r < r + g.size[r]
    BY <1>4
  <2> QED BY <2>1, <2>3, <2>4, <1>1
<1>6. CASE MergesBefore(g, r)
  <2>1. f.heap = Absorb(g, prev, r) /\ f.chunk = prev
    BY <1>2, <1>6
  <2>2. prev # ListHead /\ g.valid[prev] = "FREE" /\ prev + g.size[prev] = r
    BY <1>6 DEF MergesBefore
  <2>3. prev \in Addr /\ prev \in Chunks(g)
    <3>1. prev \in List(g)
      BY <1>1, <1>3, LayoutFacts DEF InOrder, List
    <3> QED BY <3>1, <2>2 DEF List, Nodes, Chunks
  <2> HIDE DEF prev
  <2>4. prev \in Nat /\ g.size[prev] \in Nat /\ g.size[prev] > 0
    BY <2>3, <1>1, LayoutFacts, SizeFacts DEF Layout
  <2>5. prev # r
    BY <2>2, <2>4
  <2>6. /\ Layout(f.heap, hk)
        /\ \A x \in Addr :
             /\ f.heap.valid[x] = IF x = r THEN "NONE" ELSE g.valid[x]
             /\ f.heap.size[x] = IF x = prev THEN g.size[prev] + g.size[r]
                                 ELSE IF x = r THEN 0 ELSE g.size[x]
    BY <2>1, <2>2, <2>3, <1>1, AbsorbLayout
  <2>7. ASSUME NEW x \in Chunks(f.heap), NEW y \in Chunks(f.heap), Adjoin(f.heap, x, y) PROVE FALSE
    <3>1. /\ x \in Addr /\ y \in Addr /\ x # r /\ y # r
          /\ g.valid[x] = "FREE" /\ g.valid[y] = "FREE" /\ x + f.heap.size[x] = y
      BY <2>6, <2>7 DEF Adjoin, Chunks
    <3>2. CASE x # prev
      <4>1. x + g.size[x] = y
        BY <2>6, <3>1, <3>2
      <4> QED BY <4>1, <3>1, <1>1 DEF Adjoin, Chunks
    <3>3. CASE x = prev
      <4>1. f.heap.size[prev] = g.size[prev] + g.size[r]
        BY <2>6, <2>3
      <4>2. r + g.size[r] = y
        BY <4>1, <3>1, <3>3, <2>2, <2>4, <1>4
      <4> QED BY <4>2, <3>1, <1>1, <1>3 DEF Adjoin, Chunks
    <3> QED BY <3>2, <3>3
  <2>8. Merged(f.heap)
    BY <2>7 DEF Merged
  <2>9. prev <= r /\ r < prev + f.heap.size[prev]
    <3>1. f.heap.size[prev] = g.size[prev] + g.size[r]
      BY <2>6, <2>3
    <3> QED BY <3>1, <2>2, <2>4, <1>4
  <2>10. \A x \in Addr \ {r} : f.heap.valid[x] = "ALLOC" <=> h.valid[x] = "ALLOC"
    BY <2>6, <1>1
  <2>11. f.heap.valid[prev] = "FREE"
    BY <2>6, <2>2, <2>3, <2>5
  <2> QED BY <2>1, <2>3, <2>6, <2>8, <2>9, <2>10, <2>11
<1> QED BY <1>5, <1>6

\* free keeps free memory together: a hunk that has nothing allocated left goes
\* back to GEMDOS.
LEMMA FreeTidy ==
    ASSUME NEW h, NEW hk, Layout(h, hk), Tidy(h, hk), NEW r \in Addr, h.valid[r] = "ALLOC"
    PROVE  LET out == FreeResult(h, hk, r) IN
           /\ Tidy(out.heap, out.hunks)
           /\ DOMAIN out.hunks \subseteq DOMAIN hk
           /\ \A s \in DOMAIN out.hunks : out.hunks[s] = hk[s]
<1> DEFINE f == Freed(h, r)
           g == f.heap
           c == f.chunk
           s == g.prev[c]
           out == FreeResult(h, hk, r)
<1>0. SUFFICES /\ Tidy(out.heap, out.hunks)
               /\ DOMAIN out.hunks \subseteq DOMAIN hk
               /\ \A x \in DOMAIN out.hunks : out.hunks[x] = hk[x]
  OBVIOUS
<1>1. /\ Layout(g, hk) /\ Merged(g)
      /\ c \in Addr /\ g.valid[c] = "FREE" /\ c <= r /\ r < c + g.size[c]
      /\ \A x \in Addr \ {r} : g.valid[x] = "ALLOC" <=> h.valid[x] = "ALLOC"
  BY FreedMerges DEF Tidy
<1>2. IF FillsHunk(g, c)
      THEN out.heap = Vanish(Vanish(g, c), s) /\ out.hunks = Dropping(hk, s)
      ELSE out.heap = g /\ out.hunks = hk
  BY DEF FreeResult
<1> HIDE DEF out, f, g, c
<1>3. c \in Chunks(g) /\ c \in Nat /\ g.size[c] \in Nat /\ r \in Nat
  BY <1>1, LayoutFacts, SizeFacts DEF Chunks
\* The hunk that has lost its last block is the one the free chunk fills.
<1>4. ASSUME NEW t \in DOMAIN hk, ~InUse(g, hk, t)
      PROVE  FillsHunk(g, c) /\ s = t
  <2> DEFINE d == t + SbrkExtra
  <2>1. PICK a \in Chunks(h) : h.valid[a] = "ALLOC" /\ t < a /\ a < t + hk[t]
    BY DEF Tidy, InUse
  <2>2. a = r
    BY <2>1, <1>1, <1>4, LayoutFacts DEF InUse, Chunks
  <2>3. /\ t \in Nat /\ hk[t] \in Nat /\ SbrkExtra \in Nat /\ t \in Chunks(h)
        /\ h.size[t] = SbrkExtra
    BY HunkFacts, ExtraFacts DEF Chunks
  <2>4. t + SbrkExtra <= r
    BY <2>1, <2>2, <2>3 DEF Layout, Disjoint
  <2>5. hk[t] > SbrkExtra
    BY <2>1, <2>2, <2>3, <2>4, <1>3
  <2>6. /\ d \in Addr /\ g.valid[d] = "FREE" /\ d + g.size[d] = t + hk[t]
        /\ g.prev[d] = t /\ FillsHunk(g, d)
    BY <2>5, <1>1, <1>4, IdleHunk
  <2>7. d <= r
    BY <2>4
  <2> HIDE DEF d
  <2>8. d \in Chunks(g) /\ d \in Nat /\ g.size[d] \in Nat
    BY <2>6, <1>1, LayoutFacts, SizeFacts DEF Chunks
  <2>9. c < d => c + g.size[c] <= d
    BY <2>8, <1>1, <1>3 DEF Layout, Disjoint
  <2>10. d < c => d + g.size[d] <= c
    BY <2>8, <1>1, <1>3 DEF Layout, Disjoint
  <2>11. c = d
    BY <2>1, <2>2, <2>3, <2>6, <2>7, <2>8, <2>9, <2>10, <1>1, <1>3
  <2> QED BY <2>6, <2>11
<1>5. CASE ~FillsHunk(g, c)
  <2>1. out.heap = g /\ out.hunks = hk
    BY <1>2, <1>5
  <2>2. Tidy(g, hk)
    BY <1>1, <1>4, <1>5 DEF Tidy
  <2> QED BY <2>1, <2>2
<1>6. CASE FillsHunk(g, c)
  <2>1. out.heap = Vanish(Vanish(g, c), s) /\ out.hunks = Dropping(hk, s)
    BY <1>2, <1>6
  <2>2. /\ DOMAIN out.hunks = DOMAIN hk \ {s}
        /\ \A t \in DOMAIN out.hunks : out.hunks[t] = hk[t]
    BY <2>1 DEF Dropping
  <2>2a. g.prev[c] = s
    OBVIOUS
  <2> HIDE DEF s
  <2>3. /\ g.valid[s] = "SBRK"
        /\ \A x \in Addr :
             /\ out.heap.valid[x] = IF x \in {c, s} THEN "NONE" ELSE g.valid[x]
             /\ out.heap.size[x] = IF x \in {c, s} THEN 0 ELSE g.size[x]
    BY <2>1, <2>2a, <1>1, <1>6, ReleaseLayout
  <2>4. ASSUME NEW x \in Chunks(out.heap), NEW y \in Chunks(out.heap), Adjoin(out.heap, x, y)
        PROVE  FALSE
    <3>1. /\ x \in Addr /\ y \in Addr /\ x \notin {c, s} /\ y \notin {c, s}
          /\ g.valid[x] = "FREE" /\ g.valid[y] = "FREE" /\ x + g.size[x] = y
      BY <2>3, <2>4 DEF Adjoin, Chunks
    <3> QED BY <3>1, <1>1 DEF Adjoin, Chunks, Merged
  <2>5. ASSUME NEW t \in DOMAIN out.hunks PROVE InUse(out.heap, out.hunks, t)
    <3>1. t \in DOMAIN hk /\ t # s /\ out.hunks[t] = hk[t]
      BY <2>2
    <3>2. InUse(g, hk, t)
      BY <3>1, <1>4, <2>2a
    <3>3. \A x \in Addr : g.valid[x] = "ALLOC" => out.heap.valid[x] = "ALLOC"
      BY <2>3, <1>1
    <3>4. InUse(out.heap, hk, t)
      BY <3>2, <3>3, StaysInUse
    <3> QED BY <3>1, <3>4 DEF InUse
  <2> QED BY <2>2, <2>4, <2>5 DEF Tidy, Merged
<1> QED BY <1>5, <1>6

\* The heap is sound, and what is free in it lies together.
TidyInv == HeapInv /\ Tidy(heap, hunks)

\* Every hunk that a step adds came for a block that no free chunk could hold.
GrowthWanted ==
    \A s \in DOMAIN hunks' \ DOMAIN hunks :
       \E p \in DOMAIN live' :
          /\ s < p /\ p - AllocExtra < s + hunks'[s]
          /\ \A a \in Nodes(heap) :
               heap.valid[a] = "FREE" => heap.size[a] < ChunkSizeFor(live'[p])

\* What a step that takes or gives back memory has to show.
Kept == Tidy(heap', hunks') /\ GrowthWanted

\* The block malloc returns lies in the hunk it was taken for.
LEMMA BlockInHunk ==
    ASSUME NEW c \in Addr, NEW s \in Nat, NEW len \in Nat, s < c, c < s + len
    PROVE  s < c + AllocExtra /\ (c + AllocExtra) - AllocExtra < s + len
BY ExtraFacts, SizeFacts

LEMMA MallocKeeps ==
    ASSUME TidyInv, NEW n \in Requests, Malloc(n)
    PROVE  Kept
<1>1. PICK out \in MallocResults(n) :
        /\ heap' = out.heap /\ hunks' = out.hunks
        /\ IF out.chunk = NULL THEN UNCHANGED live
           ELSE live' = Holding(live, out.chunk + AllocExtra, n)
  BY DEF Malloc
<1>2. /\ Tidy(out.heap, out.hunks)
      /\ \A s \in DOMAIN out.hunks \ DOMAIN hunks :
           /\ s < out.chunk /\ out.chunk < s + out.hunks[s] /\ out.chunk # NULL
           /\ \A a \in Nodes(heap) :
                heap.valid[a] = "FREE" => heap.size[a] < ChunkSizeFor(n)
  BY MallocTidy DEF TidyInv, HeapInv
<1>3. /\ Layout(out.heap, out.hunks)
      /\ out.chunk # NULL => out.chunk \in Addr
  BY MallocFacts DEF TidyInv, HeapInv
<1>4. ASSUME NEW s \in DOMAIN hunks' \ DOMAIN hunks
      PROVE  \E p \in DOMAIN live' :
               /\ s < p /\ p - AllocExtra < s + hunks'[s]
               /\ \A a \in Nodes(heap) :
                    heap.valid[a] = "FREE" => heap.size[a] < ChunkSizeFor(live'[p])
  <2> DEFINE q == out.chunk + AllocExtra
  <2>1. /\ s < out.chunk /\ out.chunk < s + hunks'[s] /\ out.chunk # NULL
        /\ \A a \in Nodes(heap) :
             heap.valid[a] = "FREE" => heap.size[a] < ChunkSizeFor(n)
    BY <1>1, <1>2
  <2>2. s \in Nat /\ hunks'[s] \in Nat
    <3>1. s \in DOMAIN out.hunks
      BY <1>1
    <3> QED BY <3>1, <1>1, <1>3, HunkFacts
  <2>3. s < q /\ q - AllocExtra < s + hunks'[s]
    BY <2>1, <2>2, <1>3, BlockInHunk
  <2> HIDE DEF q
  <2>4. q \in DOMAIN live' /\ live'[q] = n
    BY <1>1, <2>1 DEF Holding, q
  <2> QED BY <2>1, <2>3, <2>4
<1> QED BY <1>1, <1>2, <1>4 DEF Kept, GrowthWanted

LEMMA FreeKeeps ==
    ASSUME TidyInv, NEW p \in DOMAIN live, FreeChunk(p)
    PROVE  Kept
<1> DEFINE r == p - AllocExtra
           out == FreeResult(heap, hunks, r)
<1>1. r \in Addr /\ heap.valid[r] = "ALLOC"
  BY HeldFacts DEF TidyInv
<1>2. heap' = out.heap /\ hunks' = out.hunks
  BY DEF FreeChunk
<1>3. Tidy(out.heap, out.hunks) /\ DOMAIN out.hunks \subseteq DOMAIN hunks
  BY <1>1, FreeTidy DEF TidyInv, HeapInv
<1> HIDE DEF out
<1> QED BY <1>2, <1>3 DEF Kept, GrowthWanted

LEMMA MoveKeeps ==
    ASSUME TidyInv, NEW p \in DOMAIN live, NEW n \in Requests, NEW whenFull,
           Move(p, n, whenFull)
    PROVE  Kept
<1> DEFINE r == p - AllocExtra
<1>1. PICK out \in MallocResults(n) :
         IF out.chunk = NULL
         THEN /\ heap' = out.heap /\ hunks' = out.hunks
         ELSE LET rest == FreeResult(out.heap, out.hunks, r)
              IN  /\ heap' = rest.heap /\ hunks' = rest.hunks
                  /\ live' = Holding(Dropping(live, p), out.chunk + AllocExtra, n)
  BY DEF Move
<1>2. /\ Tidy(out.heap, out.hunks)
      /\ \A s \in DOMAIN out.hunks \ DOMAIN hunks :
           /\ s < out.chunk /\ out.chunk < s + out.hunks[s] /\ out.chunk # NULL
           /\ \A a \in Nodes(heap) :
                heap.valid[a] = "FREE" => heap.size[a] < ChunkSizeFor(n)
  BY MallocTidy DEF TidyInv, HeapInv
<1>3. /\ Layout(out.heap, out.hunks)
      /\ out.chunk = NULL => out.heap = heap /\ out.hunks = hunks
      /\ out.chunk # NULL =>
           /\ out.chunk \in Addr /\ heap.valid[out.chunk] # "ALLOC"
           /\ \A x \in Addr \ {out.chunk} : heap.valid[x] = "ALLOC" => out.heap.valid[x] = "ALLOC"
  BY MallocFacts DEF TidyInv, HeapInv, SameBlock
<1>4. CASE out.chunk = NULL
  BY <1>1, <1>2, <1>3, <1>4 DEF Kept, GrowthWanted
<1>5. CASE out.chunk # NULL
  <2> DEFINE rest == FreeResult(out.heap, out.hunks, r)
             q == out.chunk + AllocExtra
  <2>1. heap' = rest.heap /\ hunks' = rest.hunks /\ live' = Holding(Dropping(live, p), q, n)
    BY <1>1, <1>5
  <2>2. r \in Addr /\ heap.valid[r] = "ALLOC"
    BY HeldFacts DEF TidyInv
  <2>3. out.heap.valid[r] = "ALLOC"
    BY <1>3, <1>5, <2>2
  <2>4. /\ Tidy(rest.heap, rest.hunks) /\ DOMAIN rest.hunks \subseteq DOMAIN out.hunks
        /\ \A s \in DOMAIN rest.hunks : rest.hunks[s] = out.hunks[s]
    BY <1>2, <1>3, <2>2, <2>3, FreeTidy
  <2>5. q \in DOMAIN live' /\ live'[q] = n
    BY <2>1 DEF Holding
  <2> HIDE DEF rest
  <2>6. ASSUME NEW s \in DOMAIN hunks' \ DOMAIN hunks
        PROVE  /\ s < q /\ q - AllocExtra < s + hunks'[s]
               /\ \A a \in Nodes(heap) :
                    heap.valid[a] = "FREE" => heap.size[a] < ChunkSizeFor(n)
    <3>1. s \in DOMAIN out.hunks \ DOMAIN hunks /\ hunks'[s] = out.hunks[s]
      BY <2>1, <2>4
    <3>2. s \in Nat /\ out.hunks[s] \in Nat
      BY <3>1, <1>3, HunkFacts
    <3>3. /\ s < out.chunk /\ out.chunk < s + out.hunks[s]
          /\ \A a \in Nodes(heap) :
               heap.valid[a] = "FREE" => heap.size[a] < ChunkSizeFor(n)
      BY <3>1, <1>2
    <3>4. s < q /\ q - AllocExtra < s + out.hunks[s]
      BY <3>2, <3>3, <1>3, <1>5, BlockInHunk
    <3> QED BY <3>1, <3>3, <3>4
  <2> HIDE DEF q
  <2>7. GrowthWanted
    BY <2>5, <2>6 DEF GrowthWanted
  <2> QED BY <2>1, <2>4, <2>7 DEF Kept
<1> QED BY <1>4, <1>5

LEMMA ExtendKeeps ==
    ASSUME TidyInv, NEW p \in DOMAIN live, NEW n \in Requests, ReallocExtend(p, n)
    PROVE  Kept
<1> DEFINE r == p - AllocExtra
           next == NodeFrom(heap, r)
           g == Absorb(heap, r, next)
<1>1. next # ListHead /\ r + heap.size[r] = next /\ heap.valid[next] = "FREE"
  BY DEF ReallocExtend, CanExtend
<1>2. heap' = g /\ hunks' = hunks
  BY DEF ReallocExtend
<1>3. r \in Addr /\ heap.valid[r] = "ALLOC"
  BY HeldFacts DEF TidyInv
<1>4. next \in Addr /\ next # r
  <2>1. r \notin Nodes(heap)
    BY <1>3 DEF Nodes
  <2>2. next \in List(heap)
    BY <1>3, <2>1, NodeFromFacts
  <2> QED BY <1>1, <1>3, <2>2 DEF List, Nodes
<1> HIDE DEF next, g, r
<1>5. \A x \in Addr : /\ g.valid[x] = IF x = next THEN "NONE" ELSE heap.valid[x]
                      /\ g.size[x] = IF x = r THEN heap.size[r] + heap.size[next]
                                     ELSE IF x = next THEN 0 ELSE heap.size[x]
  BY <1>1, <1>3, <1>4, AbsorbLayout DEF TidyInv, HeapInv, g
<1>6. ASSUME NEW x \in Chunks(g), NEW y \in Chunks(g), Adjoin(g, x, y) PROVE FALSE
  <2>1. /\ x \in Addr /\ y \in Addr /\ x # next /\ x # r
        /\ heap.valid[x] = "FREE" /\ heap.valid[y] = "FREE" /\ x + heap.size[x] = y
    BY <1>3, <1>5, <1>6 DEF Adjoin, Chunks
  <2> QED BY <2>1 DEF Adjoin, Chunks, Merged, Tidy, TidyInv
<1>7. \A x \in Addr : heap.valid[x] = "ALLOC" => g.valid[x] = "ALLOC"
  BY <1>1, <1>5
<1>8. \A s \in DOMAIN hunks : InUse(g, hunks, s)
  BY <1>7, StaysInUse DEF TidyInv, Tidy
<1>9. Tidy(g, hunks)
  BY <1>6, <1>8 DEF Tidy, Merged
<1> QED BY <1>2, <1>9 DEF Kept, GrowthWanted

LEMMA NextKeeps == TidyInv /\ [Next]_vars => Kept
<1> SUFFICES ASSUME TidyInv, [Next]_vars PROVE Kept
  OBVIOUS
<1>1. ASSUME NEW n \in Requests, Malloc(n) \/ ReallocNull(n) PROVE Kept
  BY <1>1, MallocKeeps DEF ReallocNull
<1>2. ASSUME NEW n \in Requests, NEW sz \in Requests, Calloc(n, sz) PROVE Kept
  BY <1>2, MallocKeeps DEF Calloc
<1>3. ASSUME NEW p, Free(p) \/ ReallocZero(p) PROVE Kept
  BY <1>3, FreeKeeps DEF Free, ReallocZero
<1>4. ASSUME NEW p, NEW n \in Requests, ReallocDown(p, n) PROVE Kept
  BY <1>4, MoveKeeps DEF ReallocDown
<1>5. ASSUME NEW p, NEW n \in Requests, ReallocExtend(p, n) PROVE Kept
  BY <1>5, ExtendKeeps DEF ReallocExtend
<1>6. ASSUME NEW p, NEW n \in Requests, ReallocUp(p, n) PROVE Kept
  BY <1>6, MoveKeeps DEF ReallocUp
<1>7. ASSUME UNCHANGED <<heap, hunks>> PROVE Kept
  BY <1>7 DEF Kept, GrowthWanted, TidyInv
<1>8. ASSUME NEW p, FreeIgnored(p) PROVE Kept
  BY <1>7, <1>8 DEF FreeIgnored, vars
<1>9. ASSUME NEW p, NEW n \in Requests, ReallocStale(p, n) \/ ReallocInPlace(p, n) PROVE Kept
  BY <1>7, <1>9 DEF ReallocStale, ReallocInPlace, allocator
<1>10. ASSUME NEW siz \in ChunkSizes, MallocChunkSize(siz) PROVE Kept
  BY <1>7, <1>10 DEF MallocChunkSize
<1>11. CASE UNCHANGED vars
  BY <1>7, <1>11 DEF vars
<1> QED
  BY <1>1, <1>2, <1>3, <1>4, <1>5, <1>6, <1>8, <1>9, <1>10, <1>11 DEF Next

THEOREM TidyInvariant == Spec => []TidyInv
<1>1. Init => TidyInv
  <2> SUFFICES ASSUME Init PROVE TidyInv
    OBVIOUS
  <2>1. HeapInv
    BY InitInv
  <2>2. Chunks(heap) = {} /\ DOMAIN hunks = {}
    BY DEF Init, EmptyHeap, Chunks
  <2> QED BY <2>1, <2>2 DEF TidyInv, Tidy, Merged
<1>2. TidyInv /\ [Next]_vars => TidyInv'
  BY NextInv, NextKeeps DEF TidyInv, Kept
<1> QED BY <1>1, <1>2, PTL DEF Spec

\* A new hunk is taken only for a block that no free chunk could hold: malloc
\* and both moves of realloc search the whole list before they ask GEMDOS.
THEOREM HeapGrowsOnlyWhenFull == Spec => GrowsOnlyWhenFull
<1>1. TidyInv /\ [Next]_vars => [GrowthWanted]_vars
  BY NextKeeps DEF Kept
<1> QED BY <1>1, TidyInvariant, PTL DEF Spec, GrowsOnlyWhenFull, GrowthWanted

LEMMA TidyLiesTogether == TidyInv => FreeLiesTogether
<1> SUFFICES ASSUME TidyInv PROVE FreeLiesTogether
  OBVIOUS
<1>1. Coalesced
  BY DEF TidyInv, Tidy, Merged, Adjoin, Coalesced
<1>2. NoIdleHunk
  BY DEF TidyInv, Tidy, InUse, NoIdleHunk, HunkEnd
<1> QED BY <1>1, <1>2 DEF FreeLiesTogether

-----------------------------------------------------------------------------
(***************************************************************************)
(* The walks along the links.                                               *)
(***************************************************************************)

\* A step of the walk comes nearer to the first stop, target, and has as many
\* nodes behind it as steps were made.
Walking(h, target, k, q) ==
    \/ q = target
    \/ /\ q \in Nodes(h) /\ (target # ListHead => q < target)
       /\ Cardinality({b \in Nodes(h) : b <= q}) > k

LEMMA NodesFinite ==
    ASSUME NEW h, NEW q \in Nat
    PROVE  LET low == {b \in Nodes(h) : b <= q} IN
           /\ IsFiniteSet(Nodes(h)) /\ IsFiniteSet(low)
           /\ Cardinality(Nodes(h)) \in Nat /\ Cardinality(low) \in Nat
           /\ Cardinality(low) <= Cardinality(Nodes(h))
<1>1. IsFiniteSet(1 .. Top)
  BY FS_Interval, SizesAssumption
<1>2. Nodes(h) \subseteq 1 .. Top
  BY DEF Nodes, Addr
<1> QED BY <1>1, <1>2, FS_Subset, FS_CardinalityType

\* Whoever is above some node has more nodes below.
LEMMA OneMoreBelow ==
    ASSUME NEW h, NEW q \in Nat, NEW n \in Nodes(h), q < n
    PROVE  Cardinality({b \in Nodes(h) : b <= n}) > Cardinality({b \in Nodes(h) : b <= q})
<1> DEFINE low == {b \in Nodes(h) : b <= q}
           up  == {b \in Nodes(h) : b <= n}
<1>1. n \in Nat /\ \A b \in Nodes(h) : b \in Nat
  BY SizeFacts DEF Nodes
<1>2. IsFiniteSet(low) /\ IsFiniteSet(up) /\ Cardinality(low) \in Nat /\ Cardinality(up) \in Nat
  BY <1>1, NodesFinite
<1>3. n \notin low /\ low \cup {n} \subseteq up
  <2>1. n \notin low /\ n \in up
    BY <1>1
  <2>2. ASSUME NEW b \in low PROVE b \in up
    BY <1>1
  <2> QED BY <2>1, <2>2
<1>4. Cardinality(low \cup {n}) = Cardinality(low) + 1
  BY <1>2, <1>3, FS_AddElement
<1>5. Cardinality(low \cup {n}) <= Cardinality(up)
  BY <1>2, <1>3, FS_Subset
<1> QED BY <1>2, <1>4, <1>5

\* What one step of the walk does.
StepFrom(h, stops, q) == IF q = ListHead \/ q \in stops THEN q ELSE h.next[q]

LEMMA WalkAdvances ==
    ASSUME NEW h, InOrder(h), NEW stops \in SUBSET Addr, NEW k \in Nat, NEW q \in List(h),
           Walking(h, FirstOf(Nodes(h) \cap stops), k, q)
    PROVE  /\ StepFrom(h, stops, q) \in List(h)
           /\ Walking(h, FirstOf(Nodes(h) \cap stops), k + 1, StepFrom(h, stops, q))
<1> DEFINE S == Nodes(h) \cap stops
           t == FirstOf(S)
           n == StepFrom(h, stops, q)
<1>1. /\ S = {} => t = ListHead
      /\ S # {} => t \in S /\ \A b \in S : t <= b
  BY FirstOfLeast
<1>2. /\ \A b \in Nodes(h) : b \in Nat /\ b # ListHead
      /\ S \subseteq Nodes(h) /\ S \subseteq stops /\ Nodes(h) \cap stops \subseteq S
  BY SizeFacts DEF Nodes
<1> HIDE DEF S, t
<1>3. CASE q = t
  <2>1. n = t
    BY <1>1, <1>2, <1>3 DEF StepFrom
  <2> QED BY <2>1, <1>3 DEF Walking, t, S
<1>4. CASE q # t
  <2>1. /\ q \in Nodes(h) /\ q \in Nat /\ (t # ListHead => q < t)
        /\ Cardinality({b \in Nodes(h) : b <= q}) > k
    BY <1>2, <1>4 DEF Walking, t, S
  <2>2. q \notin stops
    <3>1. SUFFICES ASSUME q \in S PROVE FALSE
      BY <1>2, <2>1
    <3>2. t \in S /\ t <= q /\ t # ListHead /\ t \in Nat
      BY <3>1, <1>1, <1>2
    <3> QED BY <3>2, <2>1
  <2>3. n = h.next[q] /\ q # ListHead
    BY <2>1, <2>2, <1>2 DEF StepFrom
  <2> HIDE DEF n
  <2>4. /\ n \in List(h) /\ (n # ListHead => q < n)
        /\ \A b \in Nodes(h) : q < b => n # ListHead /\ n <= b
    BY <2>3 DEF InOrder
  <2>5. t # ListHead => n # ListHead /\ n <= t
    BY <1>1, <1>2, <2>1, <2>4
  <2>6. CASE n = t
    BY <2>4, <2>6 DEF Walking, t, S, n
  <2>7. CASE n # t
    <3>1. n # ListHead
      BY <2>5, <2>7
    <3>2. n \in Nodes(h) /\ n \in Nat /\ q < n
      BY <3>1, <2>4, <1>2 DEF List
    <3>3. t # ListHead => n < t
      <4>1. t # ListHead => t \in Nat
        BY <1>1, <1>2
      <4>2. n # t
        BY <2>7
      <4> QED BY <4>1, <4>2, <2>5, <3>2
    <3>4. Cardinality({b \in Nodes(h) : b <= n}) > k + 1
      <4>1. Cardinality({b \in Nodes(h) : b <= n}) > Cardinality({b \in Nodes(h) : b <= q})
        BY <3>2, <2>1, OneMoreBelow
      <4>2. /\ Cardinality({b \in Nodes(h) : b <= n}) \in Nat
            /\ Cardinality({b \in Nodes(h) : b <= q}) \in Nat
        BY <3>2, <2>1, NodesFinite
      <4> QED BY <4>1, <4>2, <2>1
    <3>5. Walking(h, t, k + 1, n)
      BY <3>2, <3>3, <3>4 DEF Walking
    <3> QED BY <3>5, <2>4 DEF t, S, n
  <2> QED BY <2>6, <2>7
<1> QED BY <1>3, <1>4

\* A walk ends at the first node that it is to stop at, or back at the head.
LEMMA WalkEnds ==
    ASSUME NEW h \in HeapType, InOrder(h), NEW stops \in SUBSET Addr
    PROVE  Walk(h, stops) = FirstOf(Nodes(h) \cap stops)
<1> DEFINE t == FirstOf(Nodes(h) \cap stops)
           last == Cardinality(Nodes(h))
           step == [n \in Nat |-> [q \in Link |-> StepFrom(h, stops, q)]]
           first == h.next[ListHead]
           Body(g) == [k \in 0 .. last |-> IF k = 0 THEN first ELSE StepFrom(h, stops, g[k - 1])]
           at == CHOOSE g : g = Body(g)
<1>1. first \in Link /\ \A q \in Link : StepFrom(h, stops, q) \in Link
  BY HeapFields, SizeFacts DEF StepFrom
<1>2. last \in Nat
  BY NodesFinite
<1>3. \A n \in Nat : \A q \in Link : step[n][q] \in Link
  BY <1>1
<1>4. \A n \in Nat, q \in Link : step[n][q] = StepFrom(h, stops, q)
  OBVIOUS
<1>5. Walk(h, stops) = at[last]
  BY DEF Walk, StepFrom
<1> HIDE DEF step, first, last
<1>6. PICK g : Iterated(Link, first, step, last, g)
  BY <1>1, <1>2, <1>3, Iterates
<1>7. g = Body(g)
  <2>1. g \in [0 .. last -> Link] /\ g[0] = first /\ \A n \in 1 .. last : g[n] = step[n][g[n - 1]]
    BY <1>6 DEF Iterated
  <2>2. ASSUME NEW k \in 0 .. last PROVE g[k] = Body(g)[k]
    <3>1. CASE k = 0
      BY <3>1, <2>1
    <3>2. CASE k # 0
      <4>1. k \in 1 .. last /\ k - 1 \in 0 .. last /\ k \in Nat
        BY <3>2, <1>2
      <4>2. g[k] = StepFrom(h, stops, g[k - 1])
        BY <4>1, <2>1, <1>4
      <4> QED BY <4>2, <3>2
    <3> QED BY <3>1, <3>2
  <2> QED BY <2>1, <2>2
<1>8. at = Body(at)
  BY <1>7
<1> HIDE DEF at
<1>9. /\ at[0] = first
      /\ \A k \in Nat : k + 1 <= last => at[k + 1] = StepFrom(h, stops, at[k])
  <2>1. \A k \in 0 .. last : at[k] = IF k = 0 THEN first ELSE StepFrom(h, stops, at[k - 1])
    BY <1>8
  <2>2. 0 \in 0 .. last
    BY <1>2
  <2>3. ASSUME NEW k \in Nat, k + 1 <= last PROVE at[k + 1] = StepFrom(h, stops, at[k])
    <3>1. k + 1 \in 0 .. last /\ k + 1 # 0 /\ (k + 1) - 1 = k
      BY <1>2, <2>3
    <3> QED BY <2>1, <3>1
  <2> QED BY <2>1, <2>2, <2>3
<1> DEFINE P == {k \in Nat : k <= last => at[k] \in List(h) /\ Walking(h, t, k, at[k])}
<1> HIDE DEF t
<1>10. 0 \in P
  <2>1. /\ first \in List(h) /\ (first # ListHead => ListHead < first)
        /\ \A b \in Nodes(h) : ListHead < b => first # ListHead /\ first <= b
    BY DEF InOrder, List, first
  <2>2. /\ Nodes(h) \cap stops = {} => t = ListHead
        /\ Nodes(h) \cap stops # {} => t \in Nodes(h)
    BY FirstOfLeast DEF t, Nodes
  <2>3. \A b \in Nodes(h) : b \in Nat /\ b # ListHead /\ ListHead < b
    BY SizeFacts DEF Nodes
  <2>4. CASE first = t
    BY <2>1, <2>4, <1>9 DEF Walking
  <2>5. CASE first # t
    <3>1. first # ListHead
      BY <2>1, <2>2, <2>3, <2>5
    <3>2. first \in Nodes(h) /\ first \in Nat
      BY <3>1, <2>1, <2>3 DEF List
    <3>3. t # ListHead => first < t
      <4>1. t # ListHead => t \in Nodes(h) /\ first <= t /\ t \in Nat
        BY <2>1, <2>2, <2>3
      <4> QED BY <4>1, <3>2, <2>5
    <3>4. Cardinality({b \in Nodes(h) : b <= first}) > 0
      <4> DEFINE low == {b \in Nodes(h) : b <= first}
      <4>1. first \in low
        BY <3>2
      <4>2. IsFiniteSet(low) /\ Cardinality(low) \in Nat
        BY <3>2, NodesFinite
      <4> HIDE DEF low
      <4>3. Cardinality(low) # 0
        BY <4>1, <4>2, FS_EmptySet
      <4> QED BY <4>2, <4>3 DEF low
    <3> QED BY <3>2, <3>3, <3>4, <2>1, <1>9 DEF Walking
  <2> QED BY <2>4, <2>5
<1>11. ASSUME NEW k \in Nat, k \in P PROVE k + 1 \in P
  <2>1. SUFFICES ASSUME k + 1 <= last
                 PROVE  at[k + 1] \in List(h) /\ Walking(h, t, k + 1, at[k + 1])
    OBVIOUS
  <2>2. k <= last
    BY <2>1, <1>2
  <2>3. at[k] \in List(h) /\ Walking(h, t, k, at[k])
    BY <2>2, <1>11
  <2>4. at[k + 1] = StepFrom(h, stops, at[k])
    BY <2>1, <1>9
  <2>5. PICK q : q = at[k]
    OBVIOUS
  <2>6. q \in List(h) /\ Walking(h, FirstOf(Nodes(h) \cap stops), k, q)
    BY <2>3, <2>5 DEF t
  <2>7. /\ StepFrom(h, stops, q) \in List(h)
        /\ Walking(h, FirstOf(Nodes(h) \cap stops), k + 1, StepFrom(h, stops, q))
    BY <2>6, WalkAdvances
  <2> QED BY <2>4, <2>5, <2>7 DEF t
<1> HIDE DEF P
<1>12. last \in P
  BY <1>2, <1>10, <1>11, SetInduction
<1>13. at[last] \in List(h) /\ Walking(h, t, last, at[last])
  BY <1>2, <1>12 DEF P
<1>14. at[last] = t
  <2>1. SUFFICES ASSUME at[last] \in Nodes(h),
                        Cardinality({b \in Nodes(h) : b <= at[last]}) > last
                 PROVE  FALSE
    BY <1>13 DEF Walking
  <2>2. PICK q : q = at[last]
    OBVIOUS
  <2>3. q \in Nat
    BY <2>1, <2>2, SizeFacts DEF Nodes
  <2>4. /\ Cardinality({b \in Nodes(h) : b <= q}) <= last
        /\ Cardinality({b \in Nodes(h) : b <= q}) \in Nat
    BY <2>3, NodesFinite DEF last
  <2> QED BY <2>1, <2>2, <2>4, <1>2
<1> QED BY <1>5, <1>14 DEF t

LEMMA OrderedWalksAgree == heap \in HeapType /\ InOrder(heap) => WalksAgree
<1> SUFFICES ASSUME heap \in HeapType, InOrder(heap) PROVE WalksAgree
  OBVIOUS
<1>1. ASSUME NEW n \in Requests
      PROVE  Walk(heap, {q \in Addr : ~(heap.size[q] < ChunkSizeFor(n) \/ heap.valid[q] = "SBRK")})
               = FirstFit(heap, ChunkSizeFor(n))
  <2> DEFINE size == ChunkSizeFor(n)
             stops == {q \in Addr : ~(heap.size[q] < size \/ heap.valid[q] = "SBRK")}
  <2>1. size \in Nat
    BY ChunkSizeFacts
  <2> HIDE DEF size
  <2>2. \A q \in Addr : heap.size[q] \in Nat
    BY HeapFields
  <2>3. Nodes(heap) \cap stops = {b \in Nodes(heap) : heap.valid[b] # "SBRK" /\ heap.size[b] >= size}
    BY <2>1, <2>2 DEF Nodes
  <2>4. Walk(heap, stops) = FirstOf(Nodes(heap) \cap stops)
    <3>1. stops \in SUBSET Addr
      OBVIOUS
    <3> HIDE DEF stops
    <3> QED BY <3>1, WalkEnds
  <2> QED BY <2>3, <2>4 DEF FirstFit, size
<1>2. ASSUME NEW r \in Chunks(heap)
      PROVE  Walk(heap, {q \in Addr : q >= r}) = NodeFrom(heap, r)
  <2> DEFINE stops == {q \in Addr : q >= r}
  <2>1. Nodes(heap) \cap stops = {b \in Nodes(heap) : b >= r}
    BY DEF Nodes
  <2>2. Walk(heap, stops) = FirstOf(Nodes(heap) \cap stops)
    <3>1. stops \in SUBSET Addr
      OBVIOUS
    <3> HIDE DEF stops
    <3> QED BY <3>1, WalkEnds
  <2> QED BY <2>1, <2>2 DEF NodeFrom
<1> QED BY <1>1, <1>2 DEF WalksAgree

\* No two free chunks lie side by side, no hunk stays that is all free, and
\* each search of malloc, free and realloc along the links ends at the chunk it
\* is for.
THEOREM FreeIsAlwaysFound == Spec => []FreeIsFound
<1>1. TidyInv => FreeIsFound
  <2>1. TidyInv => heap \in HeapType /\ InOrder(heap)
    BY LayoutFacts DEF TidyInv, HeapInv
  <2> QED BY <2>1, TidyLiesTogether, OrderedWalksAgree DEF FreeIsFound
<1> QED BY <1>1, TidyInvariant, PTL
=============================================================================
