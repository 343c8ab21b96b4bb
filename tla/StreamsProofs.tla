--------------------------- MODULE StreamsProofs ---------------------------
(***************************************************************************)
(* The list of streams is sound, and every open handle is somebody's: for   *)
(* every set of FILEs, handles and paths, and every mode.  And a stream     *)
(* that is opened leaves the files, and gets a handle, as its mode says.    *)
(***************************************************************************)
EXTENDS Streams, Induction, FiniteSetTheorems

FileSet == [Files \cup StdStreams -> FileType]
OpenEntry == [path : Paths, access : 0 .. 2, pos : {"start", "end"}]

\* ord is the list: what is allocated, from the head on.
Ordered(l, n, ord) ==
    /\ n \in Nat /\ ord \in [1 .. n -> Files]
    /\ \A i, j \in 1 .. n : ord[i] = ord[j] => i = j
    /\ l.alloc = {ord[i] : i \in 1 .. n}
    /\ l.head = IF n = 0 THEN NULL ELSE ord[1]
    /\ \A i \in 1 .. n : l.file[ord[i]].next = IF i < n THEN ord[i + 1] ELSE NULL

LibraryOK(l) ==
    /\ l = [head |-> l.head, file |-> l.file, alloc |-> l.alloc]
    /\ l.head \in Files \cup {NULL}
    /\ l.file \in FileSet
    /\ l.alloc \subseteq Files
    /\ \A s \in StdStreams : l.file[s].handle \notin Handles
    /\ \A f \in l.alloc : l.file[f].magic
    /\ \E n, ord : Ordered(l, n, ord)

GemdosOK(g) ==
    /\ g = [disk |-> g.disk, open |-> g.open, refused |-> g.refused]
    /\ g.refused \in BOOLEAN
    /\ g.disk \in [Paths -> {"absent", "empty", "data"}]
    /\ g.open \in [DOMAIN g.open -> OpenEntry]
    /\ DOMAIN g.open \subseteq Handles

\* own are the handles the program keeps to itself.
Owned(l, g, own) ==
    /\ DOMAIN g.open = own \cup {l.file[f].handle : f \in l.alloc}
    /\ \A f \in l.alloc : l.file[f].handle \notin own
    /\ \A e, f \in l.alloc : l.file[e].handle = l.file[f].handle => e = f

Sound(l, g, own) == LibraryOK(l) /\ GemdosOK(g) /\ Owned(l, g, own)

\* The inductive invariant.
StreamsInv ==
    /\ Sound(Library, gemdos, fds)
    /\ refused \in BOOLEAN
    /\ cursor \in alloc \cup {NULL}

-----------------------------------------------------------------------------
(* GEMDOS *)

IsOutcome(o) == o = [fd |-> o.fd, g |-> o.g]

\* What a call that may open a handle leaves.
Gives(g, o) ==
    /\ GemdosOK(o.g)
    /\ \/ o.fd = Fail /\ DOMAIN o.g.open = DOMAIN g.open
       \/ /\ o.fd \in Handles \ DOMAIN g.open
          /\ DOMAIN o.g.open = DOMAIN g.open \cup {o.fd}

\* The lowest of the free handles is one of them.
LEMMA LowestIsFree ==
    ASSUME NEW g, Free(g) # {}
    PROVE  Lowest(Free(g)) \in Handles \ DOMAIN g.open
<1>1. Free(g) \in SUBSET Nat
  BY StreamsAssumption DEF Free
<1>2. \E h \in Free(g) : \A i \in Free(g) : h <= i
  BY <1>1, LeastNumber
<1> QED BY <1>2 DEF Lowest, Free

\* Fail is no handle.
LEMMA FailIsNone == Fail \notin Handles /\ Skipped \notin Handles /\ Fail # Skipped
  BY StreamsAssumption DEF Fail, Skipped

\* Opened opens the lowest free handle and leaves the rest.
LEMMA OpenedOpens ==
    ASSUME NEW g, GemdosOK(g), Free(g) # {},
           NEW path \in Paths, NEW access \in 0 .. 2, NEW pos \in {"start", "end"}
    PROVE  LET h == Lowest(Free(g)) o == Opened(g, path, access, pos)
           IN  /\ GemdosOK(o)
               /\ o.disk = g.disk
               /\ DOMAIN o.open = DOMAIN g.open \cup {h}
               /\ o.open[h] = [path |-> path, access |-> access, pos |-> pos]
<1> DEFINE h == Lowest(Free(g))
           o == Opened(g, path, access, pos)
           entry == [path |-> path, access |-> access, pos |-> pos]
           table == [i \in DOMAIN g.open \cup {h} |-> IF i \in DOMAIN g.open THEN g.open[i] ELSE entry]
<1>1. h \in Handles \ DOMAIN g.open
  BY LowestIsFree
<1>2. entry \in OpenEntry
  BY DEF OpenEntry
<1>3. o = [disk |-> g.disk, open |-> table, refused |-> g.refused]
  BY DEF Opened, GemdosOK
<1>4. /\ DOMAIN table = DOMAIN g.open \cup {h}
      /\ table[h] = entry
      /\ table \in [DOMAIN g.open \cup {h} -> OpenEntry]
  <2> HIDE DEF h, entry
  <2> QED BY <1>1, <1>2 DEF GemdosOK
<1> HIDE DEF h, o, entry, table
<1>5. GemdosOK(o)
  BY <1>1, <1>3, <1>4 DEF GemdosOK
<1>6. o.disk = g.disk /\ DOMAIN o.open = DOMAIN g.open \cup {h} /\ o.open[h] = entry
  BY <1>3, <1>4
<1> QED BY <1>5, <1>6 DEF h, o, entry

\* Fopen, whether it refuses or not.
LEMMA GFopenGives ==
    ASSUME NEW g, GemdosOK(g), NEW path \in Paths, NEW access \in 0 .. 2,
           NEW o \in GFopen(g, path, access)
    PROVE  /\ Gives(g, o)
           /\ IsOutcome(o)
           /\ o.g.disk = g.disk
           /\ o.fd # Fail =>
                o.g.open[o.fd] = [path |-> path, access |-> access, pos |-> "start"]
<1>1. CASE o = [fd |-> Fail, g |-> g]
  BY <1>1 DEF Gives, IsOutcome
<1>2. CASE o # [fd |-> Fail, g |-> g]
  <2> DEFINE h == Lowest(Free(g))
             opened == Opened(g, path, access, "start")
  <2>1. o = [fd |-> h, g |-> opened] /\ Free(g) # {}
    BY <1>2 DEF GFopen
  <2>2. h \in Handles \ DOMAIN g.open
    BY <2>1, LowestIsFree
  <2>3. /\ GemdosOK(opened) /\ opened.disk = g.disk
        /\ DOMAIN opened.open = DOMAIN g.open \cup {h}
        /\ opened.open[h] = [path |-> path, access |-> access, pos |-> "start"]
    BY <2>1, OpenedOpens
  <2> HIDE DEF h, opened
  <2>4. o.fd = h /\ o.g = opened /\ IsOutcome(o)
    BY <2>1 DEF IsOutcome
  <2>5. Gives(g, o)
    BY <2>2, <2>3, <2>4 DEF Gives
  <2> QED BY <2>3, <2>4, <2>5
<1> QED BY <1>1, <1>2

\* Fcreate.
LEMMA GFcreateGives ==
    ASSUME NEW g, GemdosOK(g), NEW path \in Paths, NEW o \in GFcreate(g, path)
    PROVE  /\ Gives(g, o)
           /\ IsOutcome(o)
           /\ o.fd = Fail => o.g = g
           /\ o.fd # Fail => /\ Free(g) # {} /\ path \notin ReadOnly
                             /\ o.g.disk = [g.disk EXCEPT ![path] = "empty"]
                             /\ o.g.open[o.fd] = [path |-> path, access |-> 2, pos |-> "start"]
<1>1. CASE o = [fd |-> Fail, g |-> g]
  BY <1>1 DEF Gives, IsOutcome
<1>2. CASE o # [fd |-> Fail, g |-> g]
  <2> DEFINE h == Lowest(Free(g))
             opened == Opened(g, path, 2, "start")
             created == [opened EXCEPT !.disk[path] = "empty"]
  <2>1. Free(g) # {} /\ path \notin ReadOnly /\ o = [fd |-> h, g |-> created]
    BY <1>2 DEF GFcreate
  <2>2. h \in Handles \ DOMAIN g.open
    BY <2>1, LowestIsFree
  <2>3. /\ GemdosOK(opened) /\ opened.disk = g.disk
        /\ DOMAIN opened.open = DOMAIN g.open \cup {h}
        /\ opened.open[h] = [path |-> path, access |-> 2, pos |-> "start"]
    <3> DEFINE both == 2
    <3>1. both \in 0 .. 2 /\ "start" \in {"start", "end"} /\ Free(g) # {}
      BY <2>1
    <3> HIDE DEF both
    <3>2. LET o2 == Opened(g, path, both, "start")
          IN  /\ GemdosOK(o2)
               /\ o2.disk = g.disk
               /\ DOMAIN o2.open = DOMAIN g.open \cup {h}
               /\ o2.open[h] = [path |-> path, access |-> both, pos |-> "start"]
      BY <3>1, OpenedOpens
    <3> QED BY <3>2 DEF both
  <2> HIDE DEF opened
  <2>4. created = [disk |-> [g.disk EXCEPT ![path] = "empty"], open |-> opened.open,
                   refused |-> opened.refused]
    BY <2>3 DEF GemdosOK
  <2> HIDE DEF created, h
  <2>5. GemdosOK(created)
    BY <2>3, <2>4 DEF GemdosOK
  <2>6. o.fd = h /\ o.g = created /\ o.g.open = opened.open /\ IsOutcome(o)
    BY <2>1, <2>4 DEF IsOutcome
  <2>7. Gives(g, o)
    BY <2>2, <2>3, <2>5, <2>6 DEF Gives
  <2>8. h # Fail
    BY <2>2, FailIsNone
  <2> QED BY <2>1, <2>3, <2>4, <2>6, <2>7, <2>8
<1> QED BY <1>1, <1>2

\* Fclose; a handle that is not open, one of a standard stream, changes nothing.
LEMMA GFcloseCloses ==
    ASSUME NEW g, GemdosOK(g), NEW h
    PROVE  /\ GemdosOK(GFclose(g, h))
           /\ GFclose(g, h).disk = g.disk
           /\ DOMAIN GFclose(g, h).open = DOMAIN g.open \ {h}
<1> DEFINE table == [i \in DOMAIN g.open \ {h} |-> g.open[i]]
<1>1. GFclose(g, h) = [disk |-> g.disk, open |-> table, refused |-> g.refused]
  BY DEF GFclose, GemdosOK
<1>2. DOMAIN table = DOMAIN g.open \ {h} /\ table \in [DOMAIN g.open \ {h} -> OpenEntry]
  BY DEF GemdosOK
<1> HIDE DEF table
<1> QED BY <1>1, <1>2 DEF GemdosOK

\* Fseek to the end.
LEMMA GFseekEndSeeks ==
    ASSUME NEW g, GemdosOK(g), NEW h \in DOMAIN g.open
    PROVE  /\ GemdosOK(GFseekEnd(g, h))
           /\ GFseekEnd(g, h).disk = g.disk
           /\ DOMAIN GFseekEnd(g, h).open = DOMAIN g.open
           /\ GFseekEnd(g, h).open[h].path = g.open[h].path
           /\ GFseekEnd(g, h).open[h].access = g.open[h].access
           /\ GFseekEnd(g, h).open[h].pos = "end"
<1> DEFINE entry == [path |-> g.open[h].path, access |-> g.open[h].access, pos |-> "end"]
           table == [g.open EXCEPT ![h] = entry]
<1>1. g.open[h] \in OpenEntry
  BY DEF GemdosOK
<1>2. [g.open[h] EXCEPT !.pos = "end"] = entry /\ entry \in OpenEntry
  BY <1>1 DEF OpenEntry
<1>3. GFseekEnd(g, h) = [disk |-> g.disk, open |-> table, refused |-> g.refused]
  <2>1. GFseekEnd(g, h) =
          [disk |-> g.disk, open |-> [g.open EXCEPT ![h] = [g.open[h] EXCEPT !.pos = "end"]],
           refused |-> g.refused]
    BY DEF GFseekEnd, GemdosOK
  <2> QED BY <1>2, <2>1
<1> HIDE DEF entry
<1>4. DOMAIN table = DOMAIN g.open /\ table \in [DOMAIN g.open -> OpenEntry] /\ table[h] = entry
  BY <1>2 DEF GemdosOK
<1> HIDE DEF table
<1>5. GemdosOK(GFseekEnd(g, h))
  BY <1>3, <1>4 DEF GemdosOK
<1> QED BY <1>3, <1>4, <1>5 DEF entry

\* What a mode of fopen never lacks.
ModeOK(m) ==
    /\ m \subseteq Flags
    /\ "create" \in m => "write" \in m
    /\ "append" \in m => "create" \in m

\* The outcome o of opening path in mode m: only the file asked for changes, and only
\* when it may be created; the handle is of that file, with the access of the mode, and
\* behind what an append leaves there.
Opens(g, path, m, o) ==
    /\ Gives(g, o)
    /\ \A p \in Paths : o.g.disk[p] # g.disk[p] => p = path /\ "create" \in m
    /\ o.fd # Fail =>
         /\ o.g.open[o.fd].path = path
         /\ o.g.open[o.fd].access = AccessOf(m)
         /\ "append" \in m => o.g.open[o.fd].pos = "end" \/ o.g.disk[path] = "empty"

\* And an append that empties the file is one GEMDOS had refused.
AsAsked(g, path, m, o) ==
    /\ Opens(g, path, m, o)
    /\ "append" \in m /\ g.disk[path] = "data" /\ o.g.disk[path] = "empty" => o.g.refused

LEMMA AccessInRange == ASSUME NEW m PROVE AccessOf(m) \in 0 .. 2
  BY DEF AccessOf

\* Creating a file and opening it again.
LEMMA CreateThenOpenOpens ==
    ASSUME NEW g, GemdosOK(g), NEW path \in Paths, NEW m, ModeOK(m),
           NEW o \in CreateThenOpen(g, path, m)
    PROVE  Opens(g, path, m, o) /\ IsOutcome(o)
<1> DEFINE access == AccessOf(m)
           creations == IF "create" \in m THEN GFcreate(g, path)
                        ELSE {[fd |-> Skipped, g |-> g]}
           Again(c) == GFopen(IF c.fd = Skipped THEN c.g ELSE GFclose(c.g, c.fd), path, access)
           Ends(c) == c.fd = Fail \/ (c.fd # Skipped /\ "read" \in m)
<1>a. access \in 0 .. 2
  BY AccessInRange
<1>1. PICK c \in creations : o \in IF Ends(c) THEN {c} ELSE Again(c)
  BY DEF CreateThenOpen
<1> HIDE DEF access
<1>2. CASE "create" \notin m
  <2>1. c = [fd |-> Skipped, g |-> g]
    BY <1>1, <1>2
  <2>2. o \in GFopen(g, path, access)
    BY <1>1, <2>1, FailIsNone
  <2>3. "append" \notin m
    BY <1>2 DEF ModeOK
  <2>4. /\ Gives(g, o) /\ o.g.disk = g.disk /\ IsOutcome(o)
        /\ o.fd # Fail => o.g.open[o.fd] = [path |-> path, access |-> access, pos |-> "start"]
    BY <1>a, <2>2, GFopenGives
  <2> QED BY <2>3, <2>4 DEF Opens, access
<1>3. CASE "create" \in m /\ c.fd = Fail
  <2>1. o = c /\ c \in GFcreate(g, path)
    BY <1>1, <1>3
  <2>2. Gives(g, o) /\ o.g = g /\ IsOutcome(o)
    BY <1>3, <2>1, GFcreateGives
  <2> QED BY <1>3, <2>1, <2>2 DEF Opens
<1>4. CASE "create" \in m /\ c.fd # Fail
  <2>1. c \in GFcreate(g, path)
    BY <1>1, <1>4
  <2>2. /\ Gives(g, c) /\ IsOutcome(c)
        /\ c.g.disk = [g.disk EXCEPT ![path] = "empty"]
        /\ c.g.open[c.fd] = [path |-> path, access |-> 2, pos |-> "start"]
    BY <1>4, <2>1, GFcreateGives
  <2>3. /\ GemdosOK(c.g) /\ c.fd \in Handles \ DOMAIN g.open
        /\ DOMAIN c.g.open = DOMAIN g.open \cup {c.fd}
    BY <1>4, <2>2 DEF Gives
  <2>5. \A p \in Paths : c.g.disk[p] # g.disk[p] => p = path
    BY <2>2 DEF GemdosOK
  <2>6. c.g.disk[path] = "empty"
    BY <2>2 DEF GemdosOK
  <2>7. CASE "read" \in m
    <3>1. o = c
      BY <1>1, <2>3, <2>7, FailIsNone
    <3>2. AccessOf(m) = 2
      BY <1>4, <2>7 DEF AccessOf, ModeOK
    <3>3. c.g.open[c.fd].path = path /\ c.g.open[c.fd].access = AccessOf(m)
      BY <2>2, <3>2
    <3> QED BY <1>4, <2>2, <2>5, <2>6, <3>1, <3>3 DEF Opens
  <2>8. CASE "read" \notin m
    <3> DEFINE closed == GFclose(c.g, c.fd)
    <3>1. o \in GFopen(closed, path, access)
      BY <1>1, <1>4, <2>3, <2>8, FailIsNone
    <3>2. GemdosOK(closed) /\ closed.disk = c.g.disk /\ DOMAIN closed.open = DOMAIN g.open
      <4>1. /\ GemdosOK(closed) /\ closed.disk = c.g.disk
            /\ DOMAIN closed.open = DOMAIN c.g.open \ {c.fd}
        BY <2>3, GFcloseCloses
      <4> HIDE DEF closed
      <4> QED BY <2>3, <4>1
    <3> HIDE DEF closed
    <3>3. /\ Gives(closed, o) /\ o.g.disk = closed.disk /\ IsOutcome(o)
          /\ o.fd # Fail => o.g.open[o.fd] = [path |-> path, access |-> access, pos |-> "start"]
      BY <1>a, <3>1, <3>2, GFopenGives
    <3>4. Gives(g, o)
      BY <3>2, <3>3 DEF Gives
    <3> QED BY <1>4, <2>5, <2>6, <3>2, <3>3, <3>4 DEF Opens, access
  <2> QED BY <2>7, <2>8
<1> QED BY <1>2, <1>3, <1>4

\* fopen's calls of GEMDOS do what the mode asks for.
LEMMA OpensWhatIsAsked ==
    ASSUME NEW g, GemdosOK(g), NEW path \in Paths, NEW m, ModeOK(m),
           NEW o \in OpenResults(g, path, m)
    PROVE  AsAsked(g, path, m, o)
<1>1. CASE "append" \notin m
  <2>1. o \in CreateThenOpen(g, path, m)
    BY <1>1 DEF OpenResults
  <2> QED BY <1>1, <2>1, CreateThenOpenOpens DEF AsAsked
<1>2. CASE "append" \in m
  <2>1. PICK first \in GFopen(g, path, AccessOf(m)) :
          o \in IF first.fd # Fail THEN {[first EXCEPT !.g = GFseekEnd(first.g, first.fd)]}
                ELSE {Observed(g, path, c) : c \in CreateThenOpen(first.g, path, m)}
    BY <1>2 DEF OpenResults
  <2>2. /\ Gives(g, first) /\ first.g.disk = g.disk /\ IsOutcome(first)
        /\ first.fd # Fail =>
             first.g.open[first.fd] = [path |-> path, access |-> AccessOf(m), pos |-> "start"]
    BY GFopenGives, AccessInRange
  <2>3. CASE first.fd # Fail
    <3>1. o = [first EXCEPT !.g = GFseekEnd(first.g, first.fd)]
      BY <2>1, <2>3
    <3>2. o.fd = first.fd /\ o.g = GFseekEnd(first.g, first.fd)
      BY <2>2, <3>1 DEF IsOutcome
    <3>3. /\ GemdosOK(first.g) /\ first.fd \in Handles \ DOMAIN g.open
          /\ DOMAIN first.g.open = DOMAIN g.open \cup {first.fd}
      BY <2>2, <2>3 DEF Gives
    <3>4. /\ GemdosOK(o.g) /\ o.g.disk = first.g.disk
          /\ DOMAIN o.g.open = DOMAIN first.g.open
          /\ o.g.open[o.fd].path = first.g.open[o.fd].path
          /\ o.g.open[o.fd].access = first.g.open[o.fd].access
          /\ o.g.open[o.fd].pos = "end"
      <4>1. first.fd \in DOMAIN first.g.open
        BY <3>3
      <4> QED BY <3>2, <3>3, <4>1, GFseekEndSeeks
    <3>5. Gives(g, o)
      BY <3>2, <3>3, <3>4 DEF Gives
    <3>6. o.g.open[o.fd].path = path /\ o.g.open[o.fd].access = AccessOf(m)
      BY <2>2, <2>3, <3>2, <3>4
    <3> QED BY <2>2, <3>4, <3>5, <3>6 DEF AsAsked, Opens
  <2>4. CASE first.fd = Fail
    <3>1. PICK c \in CreateThenOpen(first.g, path, m) : o = Observed(g, path, c)
      BY <2>1, <2>4
    <3>2. GemdosOK(first.g) /\ DOMAIN first.g.open = DOMAIN g.open
      BY <2>2, <2>4, FailIsNone DEF Gives
    <3>3. Opens(first.g, path, m, c) /\ IsOutcome(c)
      BY <3>1, <3>2, CreateThenOpenOpens
    <3>4. GemdosOK(c.g)
      BY <3>3 DEF Opens, Gives
    <3>5. /\ o.fd = c.fd /\ o.g.disk = c.g.disk /\ o.g.open = c.g.open
          /\ o.g.refused = (g.disk[path] = "data" /\ c.g.disk[path] = "empty")
          /\ o.g = [disk |-> c.g.disk, open |-> c.g.open, refused |-> o.g.refused]
      <4> DEFINE seen == g.disk[path] = "data" /\ c.g.disk[path] = "empty"
                 all == [disk |-> c.g.disk, open |-> c.g.open, refused |-> seen]
      <4>1. o = [c EXCEPT !.g = [c.g EXCEPT !.refused = seen]]
        BY <3>1 DEF Observed
      <4> HIDE DEF seen
      <4>2. [c.g EXCEPT !.refused = seen] = all
        BY <3>4 DEF GemdosOK
      <4>3. o.fd = c.fd /\ o.g = all
        <5> HIDE DEF all
        <5> QED BY <3>3, <4>1, <4>2 DEF IsOutcome
      <4>4. o.g.disk = c.g.disk /\ o.g.open = c.g.open /\ o.g.refused = seen
        BY <4>3
      <4> QED BY <4>3, <4>4 DEF seen
    <3>6. GemdosOK(o.g)
      BY <3>4, <3>5 DEF GemdosOK
    <3>7. Gives(g, o)
      BY <3>2, <3>3, <3>5, <3>6 DEF Opens, Gives
    <3>8. Opens(g, path, m, o)
      BY <2>2, <3>3, <3>5, <3>7 DEF Opens
    <3> QED BY <3>5, <3>8 DEF AsAsked
  <2> QED BY <2>3, <2>4
<1> QED BY <1>1, <1>2

-----------------------------------------------------------------------------
(* The list *)

\* A new FILE goes in front of the list.
LEMMA JoinKeepsList ==
    ASSUME NEW l, LibraryOK(l), NEW f \in Files \ l.alloc,
           NEW h \in Handles, NEW m \in SUBSET Flags
    PROVE  /\ LibraryOK(Join(l, f, h, m))
           /\ Join(l, f, h, m).alloc = l.alloc \cup {f}
           /\ \A e \in l.alloc : Join(l, f, h, m).file[e].handle = l.file[e].handle
           /\ Join(l, f, h, m).file[f].handle = h
           /\ Join(l, f, h, m).file[f].mode = m
<1> DEFINE entry == [magic |-> TRUE, handle |-> h, next |-> l.head, mode |-> m]
           files == [l.file EXCEPT ![f] = entry]
           j == Join(l, f, h, m)
<1>1. j = [head |-> f, file |-> files, alloc |-> l.alloc \cup {f}]
  BY DEF Join
<1>2. entry \in FileType
  BY DEF LibraryOK, FileType
<1>3. /\ files \in FileSet /\ files[f] = entry
      /\ \A e \in Files \cup StdStreams : e # f => files[e] = l.file[e]
  <2> HIDE DEF entry
  <2> QED BY <1>2 DEF LibraryOK, FileSet
<1>4. /\ entry.magic /\ entry.handle = h /\ entry.next = l.head /\ entry.mode = m
  OBVIOUS
<1> HIDE DEF entry, files, j
<1>5. PICK n, ord : Ordered(l, n, ord)
  BY DEF LibraryOK
<1> DEFINE new == [i \in 1 .. n + 1 |-> IF i = 1 THEN f ELSE ord[i - 1]]
<1>6. /\ n \in Nat /\ n + 1 \in Nat /\ new \in [1 .. n + 1 -> Files] /\ new[1] = f
      /\ \A i \in 1 .. n : new[i + 1] = ord[i] /\ ord[i] \in l.alloc
      /\ \A i \in 2 .. n + 1 : i - 1 \in 1 .. n /\ new[i] = ord[i - 1]
  BY <1>5 DEF Ordered
<1> HIDE DEF new
<1>7. Ordered(j, n + 1, new)
  <2>1. ASSUME NEW i \in 1 .. n + 1, NEW k \in 1 .. n + 1, new[i] = new[k]
        PROVE  i = k
    <3>1. CASE i = 1 \/ k = 1
      BY <1>6, <2>1, <3>1
    <3>2. CASE i # 1 /\ k # 1
      <4>1. i - 1 \in 1 .. n /\ k - 1 \in 1 .. n /\ ord[i - 1] = ord[k - 1]
        BY <1>6, <2>1, <3>2
      <4>2. i - 1 = k - 1
        BY <1>5, <4>1 DEF Ordered
      <4> QED BY <4>2
    <3> QED BY <3>1, <3>2
  <2>2. j.alloc = {new[i] : i \in 1 .. n + 1}
    <3>1. l.alloc = {ord[i] : i \in 1 .. n}
      BY <1>5 DEF Ordered
    <3>2. ASSUME NEW e \in l.alloc \cup {f} PROVE \E i \in 1 .. n + 1 : new[i] = e
      <4>1. CASE e = f
        BY <1>6, <4>1
      <4>2. CASE e # f
        <5>1. PICK i \in 1 .. n : ord[i] = e
          BY <3>1, <4>2
        <5>2. i + 1 \in 1 .. n + 1 /\ new[i + 1] = e
          BY <1>6, <5>1
        <5> QED BY <5>2
      <4> QED BY <4>1, <4>2
    <3>3. ASSUME NEW i \in 1 .. n + 1 PROVE new[i] \in l.alloc \cup {f}
      <4>1. CASE i = 1
        BY <1>6, <4>1
      <4>2. CASE i # 1
        <5>1. i \in 2 .. n + 1
          BY <1>6, <4>2
        <5> QED BY <1>6, <5>1
      <4> QED BY <4>1, <4>2
    <3>4. j.alloc = l.alloc \cup {f}
      BY <1>1
    <3> QED BY <3>2, <3>3, <3>4
  <2>3. j.head = IF n + 1 = 0 THEN NULL ELSE new[1]
    BY <1>1, <1>6
  <2>4. ASSUME NEW i \in 1 .. n + 1
        PROVE  j.file[new[i]].next = IF i < n + 1 THEN new[i + 1] ELSE NULL
    <3>1. j.file = files
      BY <1>1
    <3>2. CASE i = 1
      <4>1. j.file[new[i]].next = l.head
        BY <1>3, <1>4, <1>6, <3>1, <3>2
      <4>2. l.head = IF n = 0 THEN NULL ELSE ord[1]
        BY <1>5 DEF Ordered
      <4>3. n # 0 => new[2] = ord[1]
        BY <1>6
      <4> QED BY <1>6, <3>2, <4>1, <4>2, <4>3
    <3>3. CASE i # 1
      <4>1. i - 1 \in 1 .. n /\ new[i] = ord[i - 1] /\ (i - 1) + 1 = i
        BY <1>6, <3>3
      <4>2. ord[i - 1] \in l.alloc /\ ord[i - 1] # f /\ ord[i - 1] \in Files \cup StdStreams
        BY <1>6, <4>1 DEF LibraryOK
      <4>3. j.file[new[i]].next = l.file[ord[i - 1]].next
        BY <1>3, <3>1, <4>1, <4>2
      <4>4. l.file[ord[i - 1]].next = IF i - 1 < n THEN ord[(i - 1) + 1] ELSE NULL
        BY <1>5, <4>1 DEF Ordered
      <4>5. i < n + 1 => i \in 1 .. n /\ new[i + 1] = ord[i]
        BY <1>6
      <4>6. i - 1 < n <=> i < n + 1
        BY <1>6
      <4> QED BY <4>1, <4>3, <4>4, <4>5, <4>6
    <3> QED BY <3>2, <3>3
  <2> QED BY <1>6, <2>1, <2>2, <2>3, <2>4 DEF Ordered
<1>8. \A s \in StdStreams : files[s] = l.file[s]
  BY <1>3, StreamsAssumption
<1>9. \A e \in l.alloc : files[e] = l.file[e]
  BY <1>3 DEF LibraryOK
<1>10. LibraryOK(j)
  <2>1. /\ j = [head |-> j.head, file |-> j.file, alloc |-> j.alloc]
        /\ j.head \in Files \cup {NULL} /\ j.file \in FileSet /\ j.alloc \subseteq Files
    BY <1>1, <1>3 DEF LibraryOK
  <2>2. \A s \in StdStreams : j.file[s].handle \notin Handles
    BY <1>1, <1>8 DEF LibraryOK
  <2>3. \A e \in j.alloc : j.file[e].magic
    <3>1. j.alloc = l.alloc \cup {f} /\ j.file = files
      BY <1>1
    <3> QED BY <1>3, <1>4, <1>9, <3>1 DEF LibraryOK
  <2> QED BY <1>7, <2>1, <2>2, <2>3 DEF LibraryOK
<1>11. /\ j.alloc = l.alloc \cup {f}
       /\ \A e \in l.alloc : j.file[e].handle = l.file[e].handle
       /\ j.file[f].handle = h /\ j.file[f].mode = m
  BY <1>1, <1>3, <1>4, <1>9
<1> QED BY <1>10, <1>11 DEF j

\* A FILE leaves the list from whatever place it has there.
LEMMA LeaveKeepsList ==
    ASSUME NEW l, LibraryOK(l), NEW f \in l.alloc
    PROVE  /\ LibraryOK(Leave(l, f))
           /\ Leave(l, f).alloc = l.alloc \ {f}
           /\ \A e \in l.alloc \ {f} : Leave(l, f).file[e].handle = l.file[e].handle
<1> DEFINE Bent(e) == [l.file[e] EXCEPT !.next = l.file[f].next]
           files == [e \in DOMAIN l.file |->
                      IF e = f THEN Blank
                      ELSE IF l.file[e].next = f /\ e \in l.alloc THEN Bent(e)
                      ELSE l.file[e]]
           v == Leave(l, f)
           first == IF l.head = f THEN l.file[f].next ELSE l.head
<1>1. v = [head |-> first, alloc |-> l.alloc \ {f}, file |-> files]
  BY DEF Leave
<1>2. /\ l.alloc \subseteq Files /\ f \in Files
      /\ DOMAIN l.file = Files \cup StdStreams
      /\ \A e \in Files \cup StdStreams : l.file[e] \in FileType
  BY DEF LibraryOK, FileSet
<1>3. Blank \in FileType
  BY DEF Blank, FileType, NoHandle
<1>4. ASSUME NEW e \in Files \cup StdStreams
      PROVE  /\ Bent(e) \in FileType
             /\ Bent(e).next = l.file[f].next /\ Bent(e).handle = l.file[e].handle
             /\ Bent(e).magic = l.file[e].magic
  <2>1. l.file[e] \in FileType /\ l.file[f] \in FileType
    BY <1>2
  <2> QED BY <2>1 DEF FileType
<1> HIDE DEF Bent
<1>5. files \in FileSet
  BY <1>2, <1>3, <1>4 DEF FileSet
<1>6. ASSUME NEW e \in l.alloc \ {f}
      PROVE  /\ files[e].next = IF l.file[e].next = f THEN l.file[f].next ELSE l.file[e].next
             /\ files[e].handle = l.file[e].handle
             /\ files[e].magic = l.file[e].magic
  <2>1. e \in DOMAIN l.file /\ e \in Files \cup StdStreams /\ e # f
    BY <1>2
  <2>2. files[e] = IF l.file[e].next = f THEN Bent(e) ELSE l.file[e]
    BY <2>1
  <2> QED BY <1>4, <2>1, <2>2
<1>7. \A s \in StdStreams : files[s].handle = l.file[s].handle
  <2>1. \A s \in StdStreams : s \in DOMAIN l.file /\ s # f /\ s \notin l.alloc
    BY <1>2, StreamsAssumption
  <2> QED BY <2>1
<1> HIDE DEF files, v
<1>8. PICK n, ord : Ordered(l, n, ord)
  BY DEF LibraryOK
<1>9. PICK k \in 1 .. n : ord[k] = f
  BY <1>8 DEF Ordered
<1>10. /\ n \in Nat \ {0} /\ n - 1 \in Nat
       /\ \A i \in 1 .. n : ord[i] \in l.alloc
       /\ \A i \in 1 .. n : i # k => ord[i] # f
  BY <1>8, <1>9 DEF Ordered
<1> DEFINE new == [i \in 1 .. n - 1 |-> IF i < k THEN ord[i] ELSE ord[i + 1]]
           Was(i) == IF i < k THEN i ELSE i + 1
<1>11. ASSUME NEW i \in 1 .. n - 1
       PROVE  /\ Was(i) \in 1 .. n /\ Was(i) # k
              /\ new[i] = ord[Was(i)]
              /\ new[i] \in l.alloc \ {f} /\ new[i] \in Files
  <2>1. Was(i) \in 1 .. n /\ Was(i) # k /\ new[i] = ord[Was(i)]
    BY <1>9, <1>10
  <2> HIDE DEF new, Was
  <2> QED BY <1>2, <1>10, <2>1
<1>12. new \in [1 .. n - 1 -> Files]
  <2> SUFFICES \A i \in 1 .. n - 1 : new[i] \in Files
    OBVIOUS
  <2> HIDE DEF new
  <2> QED BY <1>11
<1> HIDE DEF new
<1>13. Ordered(v, n - 1, new)
  <2>1. ASSUME NEW i \in 1 .. n - 1, NEW j \in 1 .. n - 1, new[i] = new[j]
        PROVE  i = j
    <3>1. Was(i) = Was(j)
      <4> HIDE DEF Was
      <4> QED BY <1>8, <1>11, <2>1 DEF Ordered
    <3> QED BY <3>1, <1>9, <1>10
  <2>2. v.alloc = {new[i] : i \in 1 .. n - 1}
    <3>1. ASSUME NEW e \in l.alloc \ {f} PROVE \E i \in 1 .. n - 1 : new[i] = e
      <4>1. PICK i \in 1 .. n : ord[i] = e
        BY <1>8 DEF Ordered
      <4>2. i # k
        BY <1>9, <4>1
      <4>3. CASE i < k
        <5>1. i \in 1 .. n - 1 /\ Was(i) = i
          BY <4>3, <1>9, <1>10
        <5> QED BY <1>11, <4>1, <5>1
      <4>4. CASE i > k
        <5>1. i - 1 \in 1 .. n - 1 /\ Was(i - 1) = i
          BY <4>4, <1>9, <1>10
        <5> QED BY <1>11, <4>1, <5>1
      <4> QED BY <4>2, <4>3, <4>4
    <3>2. v.alloc = l.alloc \ {f}
      BY <1>1
    <3> QED BY <1>11, <3>1, <3>2
  <2>3. v.head = IF n - 1 = 0 THEN NULL ELSE new[1]
    <3>1. l.head = ord[1] /\ v.head = first
      BY <1>1, <1>8, <1>10 DEF Ordered
    <3>2. CASE k = 1
      <4>1. v.head = IF k < n THEN ord[k + 1] ELSE NULL
        BY <1>8, <1>9, <3>1, <3>2 DEF Ordered
      <4>2. n - 1 # 0 => 1 \in 1 .. n - 1 /\ Was(1) = 2
        BY <1>10, <3>2
      <4>3. n - 1 # 0 => new[1] = ord[2]
        BY <1>11, <4>2
      <4> QED BY <1>10, <3>2, <4>1, <4>3
    <3>3. CASE k # 1
      <4>1. 1 \in 1 .. n - 1 /\ Was(1) = 1 /\ 1 \in 1 .. n
        BY <1>9, <1>10, <3>3
      <4>2. new[1] = ord[1]
        BY <1>11, <4>1
      <4>3. v.head = l.head
        BY <1>10, <3>1, <3>3, <4>1
      <4> QED BY <3>1, <4>1, <4>2, <4>3
    <3> QED BY <3>2, <3>3
  <2>4. ASSUME NEW i \in 1 .. n - 1
        PROVE  v.file[new[i]].next = IF i < n - 1 THEN new[i + 1] ELSE NULL
    <3> DEFINE w == Was(i)
    <3>1. w \in 1 .. n /\ w # k /\ new[i] = ord[w] /\ new[i] \in l.alloc \ {f}
      BY <1>11
    <3>2. v.file[new[i]].next =
            IF l.file[ord[w]].next = f THEN l.file[f].next ELSE l.file[ord[w]].next
      <4>1. v.file = files
        BY <1>1
      <4> QED BY <1>6, <3>1, <4>1
    <3>3. /\ l.file[ord[w]].next = IF w < n THEN ord[w + 1] ELSE NULL
          /\ l.file[f].next = IF k < n THEN ord[k + 1] ELSE NULL
      BY <1>8, <1>9, <3>1 DEF Ordered
    <3>4. f # NULL
      BY <1>2, StreamsAssumption
    <3>5. CASE w + 1 = k
      <4>1. i = k - 1 /\ w < n
        BY <1>9, <1>10, <3>5
      <4>2. v.file[new[i]].next = IF k < n THEN ord[k + 1] ELSE NULL
        BY <1>9, <3>2, <3>3, <3>5, <4>1
      <4>3. i < n - 1 => i + 1 \in 1 .. n - 1 /\ Was(i + 1) = k + 1
        BY <4>1, <1>9, <1>10
      <4>4. i < n - 1 => new[i + 1] = ord[k + 1]
        BY <1>11, <4>3
      <4>5. i < n - 1 <=> k < n
        BY <4>1, <1>9, <1>10
      <4> QED BY <4>2, <4>4, <4>5
    <3>6. CASE w + 1 # k
      <4>1. w < n => w + 1 \in 1 .. n /\ ord[w + 1] # f
        BY <1>10, <3>1, <3>6
      <4>2. v.file[new[i]].next = IF w < n THEN ord[w + 1] ELSE NULL
        BY <3>2, <3>3, <3>4, <4>1
      <4>3. i < n - 1 => i + 1 \in 1 .. n - 1 /\ Was(i + 1) = w + 1
        BY <1>9, <1>10, <3>6
      <4>4. i < n - 1 => new[i + 1] = ord[w + 1]
        BY <1>11, <4>3
      <4>5. i < n - 1 <=> w < n
        BY <1>9, <1>10, <3>6
      <4> QED BY <4>2, <4>4, <4>5
    <3> QED BY <3>5, <3>6
  <2> QED BY <1>10, <1>12, <2>1, <2>2, <2>3, <2>4 DEF Ordered
<1>14. LibraryOK(v)
  <2>1. first \in Files \cup {NULL}
    <3>1. l.file[f].next \in Files \cup {NULL}
      BY <1>2 DEF FileType
    <3> QED BY <3>1 DEF LibraryOK
  <2> HIDE DEF first
  <2>2. /\ v = [head |-> v.head, file |-> v.file, alloc |-> v.alloc]
        /\ v.head \in Files \cup {NULL} /\ v.file \in FileSet /\ v.alloc \subseteq Files
    BY <1>1, <1>2, <1>5, <2>1
  <2>3. \A s \in StdStreams : v.file[s].handle \notin Handles
    BY <1>1, <1>7 DEF LibraryOK
  <2>4. \A e \in v.alloc : v.file[e].magic
    <3>1. v.file = files /\ v.alloc = l.alloc \ {f}
      BY <1>1
    <3> QED BY <1>6, <3>1 DEF LibraryOK
  <2> QED BY <1>13, <2>2, <2>3, <2>4 DEF LibraryOK
<1>15. v.alloc = l.alloc \ {f} /\ \A e \in l.alloc \ {f} : v.file[e].handle = l.file[e].handle
  BY <1>1, <1>6
<1> QED BY <1>14, <1>15 DEF v

\* Closing a standard stream, or one that is closed, leaves the list and its handles.
LEMMA LeaveStandard ==
    ASSUME NEW l, LibraryOK(l), NEW f \in StdStreams
    PROVE  /\ LibraryOK(Leave(l, f))
           /\ Leave(l, f).alloc = l.alloc
           /\ \A e \in l.alloc : Leave(l, f).file[e] = l.file[e]
<1> DEFINE entry == [l.file[f] EXCEPT !.magic = FALSE, !.handle = NoHandle]
           files == [l.file EXCEPT ![f] = entry]
           v == Leave(l, f)
<1>1. f \notin Files /\ f \notin l.alloc /\ l.file[f] \in FileType
  BY StreamsAssumption DEF LibraryOK, FileSet
<1>2. entry \in FileType /\ entry.handle = NoHandle
  BY <1>1 DEF FileType
<1>3. v = [head |-> l.head, file |-> files, alloc |-> l.alloc]
  <2> DEFINE no == FALSE
             one == [l.file[f] EXCEPT !.magic = no]
             once == [l.file EXCEPT ![f] = one]
             half == [head |-> l.head, file |-> once, alloc |-> l.alloc]
  <2>1. v = [l EXCEPT !.file[f].magic = no, !.file[f].handle = NoHandle]
    BY <1>1 DEF Leave
  <2> HIDE DEF no
  <2>2. [l EXCEPT !.file[f].magic = no] = half
    <3>1. l = [head |-> l.head, file |-> l.file, alloc |-> l.alloc]
      BY DEF LibraryOK
    <3> HIDE DEF LibraryOK
    <3>2. ASSUME NEW a, NEW b, NEW c, NEW value
          PROVE  [[head |-> a, file |-> b, alloc |-> c] EXCEPT !.file[f].magic = value] =
                 [head |-> a, file |-> [b EXCEPT ![f] = [b[f] EXCEPT !.magic = value]], alloc |-> c]
      OBVIOUS
    <3> QED BY <3>1, <3>2
  <2>3. v = [half EXCEPT !.file[f].handle = NoHandle]
    BY <2>1, <2>2
  <2>4. [half EXCEPT !.file[f].handle = NoHandle] =
          [head |-> l.head, alloc |-> l.alloc,
           file |-> [once EXCEPT ![f] = [once[f] EXCEPT !.handle = NoHandle]]]
    <3> HIDE DEF once
    <3> QED OBVIOUS
  <2>5. f \in DOMAIN l.file /\ l.file = [e \in DOMAIN l.file |-> l.file[e]]
    BY DEF LibraryOK, FileSet
  <2>6. once[f] = one /\ [one EXCEPT !.handle = NoHandle] = entry
    BY <2>5 DEF no
  <2> HIDE DEF one, entry
  <2>7. [once EXCEPT ![f] = entry] = files
    BY <2>5
  <2> QED BY <2>3, <2>4, <2>6, <2>7
<1> HIDE DEF entry
<1>4. /\ files \in FileSet /\ files[f] = entry
      /\ \A e \in Files \cup StdStreams : e # f => files[e] = l.file[e]
  BY <1>2 DEF LibraryOK, FileSet
<1> HIDE DEF files, v
<1>5. \A e \in l.alloc : v.file[e] = l.file[e]
  BY <1>1, <1>3, <1>4 DEF LibraryOK
<1>6. LibraryOK(v)
  <2>1. PICK n, ord : Ordered(l, n, ord)
    BY DEF LibraryOK
  <2>2. \A i \in 1 .. n : ord[i] \in l.alloc
    BY <2>1 DEF Ordered
  <2>3. v.alloc = l.alloc /\ v.head = l.head /\ v.file = files
    BY <1>3
  <2>4. Ordered(v, n, ord)
    BY <1>5, <2>1, <2>2, <2>3 DEF Ordered
  <2>5. NoHandle \notin Handles
    BY StreamsAssumption DEF NoHandle
  <2>6. \A s \in StdStreams : v.file[s].handle \notin Handles
    BY <1>2, <1>4, <2>3, <2>5 DEF LibraryOK
  <2>7. v = [head |-> v.head, file |-> v.file, alloc |-> v.alloc]
    BY <1>3
  <2>8. \A e \in v.alloc : v.file[e].magic
    BY <1>5, <2>3 DEF LibraryOK
  <2> QED BY <1>4, <2>3, <2>4, <2>6, <2>7, <2>8 DEF LibraryOK
<1> QED BY <1>3, <1>5, <1>6 DEF v

\* fclose leaves the library, GEMDOS and what the program has in order; and the file
\* alone.
LEMMA ClosedKeeps ==
    ASSUME NEW l, NEW g, NEW own, Sound(l, g, own), NEW f \in l.alloc \cup StdStreams
    PROVE  /\ Sound(Closed(l, g, f).l, Closed(l, g, f).g, own)
           /\ Closed(l, g, f).g.disk = g.disk
           /\ Closed(l, g, f).l.alloc = l.alloc \ {f}
<1> DEFINE h == l.file[f].handle
           v == Leave(l, f)
           w == GFclose(g, h)
<1>1. CASE f \in l.alloc
  <2>1. Closed(l, g, f) = [l |-> v, g |-> w]
    BY <1>1 DEF Closed, Sound, LibraryOK
  <2>2. /\ LibraryOK(v) /\ v.alloc = l.alloc \ {f}
        /\ \A e \in l.alloc \ {f} : v.file[e].handle = l.file[e].handle
    BY <1>1, LeaveKeepsList DEF Sound
  <2>3. GemdosOK(w) /\ w.disk = g.disk /\ DOMAIN w.open = DOMAIN g.open \ {h}
    BY GFcloseCloses DEF Sound
  <2> HIDE DEF v, w
  <2>4. Owned(v, w, own)
    BY <1>1, <2>2, <2>3 DEF Owned, Sound
  <2> QED BY <2>1, <2>2, <2>3, <2>4 DEF Sound
<1>2. CASE f \in StdStreams /\ l.file[f].magic
  <2>1. Closed(l, g, f) = [l |-> v, g |-> w]
    BY <1>2 DEF Closed
  <2>2. /\ LibraryOK(v) /\ v.alloc = l.alloc
        /\ \A e \in l.alloc : v.file[e] = l.file[e]
    BY <1>2, LeaveStandard DEF Sound
  <2>3. GemdosOK(w) /\ w.disk = g.disk /\ DOMAIN w.open = DOMAIN g.open \ {h}
    BY GFcloseCloses DEF Sound
  <2>4. h \notin Handles /\ f \notin l.alloc
    BY <1>2, StreamsAssumption DEF Sound, LibraryOK
  <2>5. DOMAIN w.open = DOMAIN g.open
    BY <2>3, <2>4 DEF Sound, GemdosOK
  <2> HIDE DEF v, w
  <2>6. Owned(v, w, own)
    BY <2>2, <2>5 DEF Owned, Sound
  <2> QED BY <2>1, <2>2, <2>3, <2>4, <2>6 DEF Sound
<1>3. CASE f \in StdStreams /\ ~l.file[f].magic
  <2>1. Closed(l, g, f) = [l |-> l, g |-> g]
    BY <1>3 DEF Closed
  <2>2. f \notin l.alloc
    BY <1>3, StreamsAssumption DEF Sound, LibraryOK
  <2> QED BY <2>1, <2>2
<1> QED BY <1>1, <1>2, <1>3

-----------------------------------------------------------------------------
(* fopen *)

LEMMA ParsedModeOK ==
    ASSUME NEW mode \in Modes
    PROVE  /\ ModeOK(ParsedMode(mode))
           /\ ParsedMode(mode) \subseteq Flags /\ FinalMode(ParsedMode(mode)) \subseteq Flags
           /\ "create" \in ParsedMode(mode) /\ "append" \notin ParsedMode(mode) => Truncates(mode)
           /\ "append" \in ParsedMode(mode) => mode.letter = "a"
<1>1. mode.letter \in {"r", "w", "a"}
  BY StreamsAssumption DEF Modes
<1> QED BY <1>1 DEF ParsedMode, Letter, ModeOK, Flags, FinalMode, Truncates

\* What fopen does to the library: nothing, or a FILE for the handle it got.
LEMMA FopenResult ==
    ASSUME NEW l, NEW g, NEW own, Sound(l, g, own), NEW path \in Paths, NEW mode \in Modes,
           NEW r \in FopenResults(l, g, path, mode)
    PROVE  /\ Sound(r.l, r.g, own)
           /\ \/ r.l = l /\ r.g = g
              \/ \E o : AsAsked(g, path, ParsedMode(mode), o) /\ r.g = o.g
                    /\ \/ r.l = l
                       \/ /\ o.fd \in Handles \ DOMAIN g.open
                          /\ \E f \in Files \ l.alloc :
                               r.l = Join(l, f, o.fd, FinalMode(ParsedMode(mode)))
<1> DEFINE m == ParsedMode(mode)
           final == FinalMode(m)
<1>1. CASE Files \subseteq l.alloc
  <2>1. r = [fp |-> NULL, l |-> l, g |-> g]
    BY <1>1 DEF FopenResults
  <2> QED BY <2>1
<1>2. CASE ~(Files \subseteq l.alloc)
  <2>m. ModeOK(m) /\ final \subseteq Flags
    BY ParsedModeOK
  <2>1. PICK o \in OpenResults(g, path, m), f \in Files \ l.alloc :
          r = IF o.fd = Fail THEN [fp |-> NULL, l |-> l, g |-> o.g]
              ELSE [fp |-> f, l |-> Join(l, f, o.fd, final), g |-> o.g]
    BY <1>2 DEF FopenResults
  <2>2. AsAsked(g, path, m, o)
    BY <2>m, OpensWhatIsAsked DEF Sound
  <2> HIDE DEF m, final
  <2>3. CASE o.fd = Fail
    <3>1. r.l = l /\ r.g = o.g
      BY <2>1, <2>3
    <3>2. GemdosOK(o.g) /\ DOMAIN o.g.open = DOMAIN g.open
      BY <2>2, <2>3, FailIsNone DEF AsAsked, Opens, Gives
    <3>3. Sound(l, o.g, own)
      BY <3>2 DEF Sound, Owned
    <3> QED BY <2>2, <3>1, <3>3 DEF m
  <2>4. CASE o.fd # Fail
    <3> DEFINE j == Join(l, f, o.fd, final)
    <3>1. r.l = j /\ r.g = o.g
      BY <2>1, <2>4
    <3>2. /\ GemdosOK(o.g) /\ o.fd \in Handles \ DOMAIN g.open
          /\ DOMAIN o.g.open = DOMAIN g.open \cup {o.fd}
      BY <2>2, <2>4 DEF AsAsked, Opens, Gives
    <3>3. /\ LibraryOK(j) /\ j.alloc = l.alloc \cup {f}
          /\ \A e \in l.alloc : j.file[e].handle = l.file[e].handle
          /\ j.file[f].handle = o.fd
      <4>1. final \in SUBSET Flags /\ o.fd \in Handles
        BY <2>m, <3>2
      <4> QED BY <4>1, JoinKeepsList DEF Sound
    <3> HIDE DEF j
    <3>4. Owned(j, o.g, own)
      BY <3>2, <3>3 DEF Sound, Owned
    <3>5. Sound(r.l, r.g, own)
      BY <3>1, <3>2, <3>3, <3>4 DEF Sound
    <3> QED BY <2>2, <3>1, <3>2, <3>5 DEF j, m, final
  <2> QED BY <2>3, <2>4
<1> QED BY <1>1, <1>2

-----------------------------------------------------------------------------
(* The invariant *)

\* A call that makes the library l and GEMDOS g leaves them as the variables.
LEMMA BecomesThat ==
    ASSUME NEW l, NEW g, NEW own, Sound(l, g, own), Becomes(l, g)
    PROVE  Library' = l /\ Sound(l, gemdos', own) /\ refused' \in BOOLEAN
<1>1. Library' = l
  BY DEF Sound, LibraryOK, Becomes, Library
<1>2. gemdos' = [disk |-> g.disk, open |-> g.open, refused |-> FALSE] /\ refused' = g.refused
  BY DEF Becomes, gemdos
<1>3. GemdosOK(gemdos') /\ gemdos'.open = g.open
  <2> DEFINE now == [disk |-> g.disk, open |-> g.open, refused |-> FALSE]
  <2>1. now.disk = g.disk /\ now.open = g.open /\ now.refused = FALSE
        /\ now = [disk |-> now.disk, open |-> now.open, refused |-> now.refused]
    OBVIOUS
  <2>2. GemdosOK(now)
    <3> HIDE DEF now
    <3> QED BY <2>1 DEF Sound, GemdosOK
  <2> QED BY <1>2, <2>1, <2>2
<1>4. refused' \in BOOLEAN
  BY <1>2 DEF Sound, GemdosOK
<1> QED BY <1>1, <1>3, <1>4 DEF Sound, Owned

\* The streams and GEMDOS as they are at the start.
LEMMA InitSound == Init => StreamsInv
<1> SUFFICES ASSUME Init PROVE StreamsInv
  OBVIOUS
<1> DEFINE none == [i \in 1 .. 0 |-> NULL]
<1>1. none \in [1 .. 0 -> Files] /\ \A i \in 1 .. 0 : FALSE
  <2>1. \A i \in 1 .. 0 : FALSE
    OBVIOUS
  <2>2. DOMAIN none = 1 .. 0 /\ none = [i \in 1 .. 0 |-> none[i]]
    BY Zenon
  <2> QED BY <2>1, <2>2
<1>2. Ordered(Library, 0, none)
  BY <1>1 DEF Init, Library, Ordered
<1>3. file \in FileSet
  <2>1. Blank \in FileType
    BY DEF Blank, FileType, NoHandle
  <2>2. ASSUME NEW f \in StdStreams
        PROVE  [magic |-> TRUE, handle |-> StdHandle[f], next |-> NULL,
                mode |-> IF f = "stdin" THEN {"read"} ELSE {"write"}] \in FileType
    BY DEF StdHandle, FileType, Flags, StdStreams
  <2> QED BY <2>1, <2>2 DEF Init, FileSet
<1>4. LibraryOK(Library)
  <2>1. \A s \in StdStreams : file[s].handle = StdHandle[s]
    BY StreamsAssumption DEF Init
  <2>2. \A s \in StdStreams : StdHandle[s] \in 0 .. 2
    BY DEF StdHandle, StdStreams
  <2>3. \A s \in StdStreams : file[s].handle \notin Handles
    BY <2>1, <2>2, StreamsAssumption
  <2> QED BY <1>2, <1>3, <2>3 DEF Init, Library, LibraryOK
<1>5. GemdosOK(gemdos)
  BY DEF Init, gemdos, GemdosOK, OpenEntry
<1>6. Owned(Library, gemdos, fds)
  BY DEF Init, Owned, Library, gemdos
<1> QED BY <1>4, <1>5, <1>6 DEF StreamsInv, Sound, Init

\* fopen.
LEMMA FopenSound ==
    ASSUME StreamsInv, cursor = NULL, NEW path \in Paths, NEW mode \in Modes, Fopen(path, mode)
    PROVE  StreamsInv'
<1>1. PICK r \in FopenResults(Library, gemdos, path, mode) : Becomes(r.l, r.g)
  BY DEF Fopen
<1>2. Sound(r.l, r.g, fds)
  BY <1>1, FopenResult DEF StreamsInv
<1>3. /\ Library' = r.l /\ Sound(r.l, gemdos', fds) /\ refused' \in BOOLEAN
      /\ fds' = fds /\ cursor' = NULL
  BY <1>1, <1>2, BecomesThat DEF Fopen
<1> QED BY <1>2, <1>3 DEF StreamsInv

\* fdopen.
LEMMA FdopenSound ==
    ASSUME StreamsInv, cursor = NULL, NEW fd \in fds, NEW mode \in Modes, Fdopen(fd, mode)
    PROVE  StreamsInv'
<1> DEFINE m == ParsedMode(mode)
           final == FinalMode(m)
           g == IF "append" \in m THEN GFseekEnd(gemdos, fd) ELSE gemdos
<1>1. PICK f \in Files \ alloc : Becomes(Join(Library, f, fd, final), g)
  BY DEF Fdopen
<1>2. /\ fds' = fds \ {fd} /\ cursor' = NULL
      /\ fd \in DOMAIN gemdos.open /\ fd \in Handles /\ final \in SUBSET Flags
  BY ParsedModeOK DEF Fdopen, StreamsInv, Sound, Owned, GemdosOK
<1>3. GemdosOK(g) /\ DOMAIN g.open = DOMAIN gemdos.open
  BY <1>2, GFseekEndSeeks DEF StreamsInv, Sound
<1> HIDE DEF final, g
<1> DEFINE j == Join(Library, f, fd, final)
<1>4. /\ LibraryOK(j) /\ j.alloc = Library.alloc \cup {f}
      /\ \A e \in Library.alloc : j.file[e].handle = Library.file[e].handle
      /\ j.file[f].handle = fd
  <2>1. f \in Files \ Library.alloc
    BY DEF Library
  <2> QED BY <1>2, <2>1, JoinKeepsList DEF StreamsInv, Sound
<1>5. Owned(Library, gemdos, fds)
  BY DEF StreamsInv, Sound
<1>6. Becomes(j, g)
  BY <1>1
<1> HIDE DEF j
<1>7. Owned(j, g, fds \ {fd})
  BY <1>3, <1>4, <1>5 DEF Owned
<1>8. Sound(j, g, fds \ {fd})
  BY <1>3, <1>4, <1>7 DEF Sound
<1>9. Library' = j /\ Sound(j, gemdos', fds \ {fd}) /\ refused' \in BOOLEAN
  BY <1>6, <1>8, BecomesThat
<1> QED BY <1>2, <1>8, <1>9 DEF StreamsInv

\* fclose.
LEMMA FcloseSound ==
    ASSUME StreamsInv, cursor = NULL, NEW f \in alloc \cup StdStreams, Fclose(f)
    PROVE  StreamsInv'
<1> DEFINE c == Closed(Library, gemdos, f)
<1>1. Becomes(c.l, c.g) /\ fds' = fds /\ cursor' = NULL
  BY DEF Fclose
<1>2. Sound(c.l, c.g, fds)
  BY ClosedKeeps DEF StreamsInv, Library
<1> HIDE DEF c
<1>3. Library' = c.l /\ Sound(c.l, gemdos', fds) /\ refused' \in BOOLEAN
  BY <1>1, <1>2, BecomesThat
<1> QED BY <1>1, <1>2, <1>3 DEF StreamsInv

\* freopen.
LEMMA FreopenSound ==
    ASSUME StreamsInv, cursor = NULL, NEW f \in alloc \cup StdStreams, NEW path \in Paths,
           NEW mode \in Modes, Freopen(path, mode, f)
    PROVE  StreamsInv'
<1> DEFINE c == Closed(Library, gemdos, f)
<1>1. PICK r \in FopenResults(c.l, c.g, path, mode) : Becomes(r.l, r.g)
  BY DEF Freopen
<1>2. Sound(c.l, c.g, fds)
  BY ClosedKeeps DEF StreamsInv, Library
<1> HIDE DEF c
<1>3. Sound(r.l, r.g, fds)
  BY <1>1, <1>2, FopenResult
<1>4. /\ Library' = r.l /\ Sound(r.l, gemdos', fds) /\ refused' \in BOOLEAN
      /\ fds' = fds /\ cursor' = NULL
  BY <1>1, <1>3, BecomesThat DEF Freopen
<1> QED BY <1>3, <1>4 DEF StreamsInv

\* A step of fcloseall: what it goes to next is still on the list.
LEMMA FcloseallStepSound ==
    ASSUME StreamsInv, FcloseallStep
    PROVE  StreamsInv'
<1> DEFINE c == Closed(Library, gemdos, cursor)
<1>1. /\ cursor \in alloc /\ cursor' = file[cursor].next
      /\ Becomes(c.l, c.g) /\ fds' = fds
  BY DEF FcloseallStep, StreamsInv
<1>2. Sound(c.l, c.g, fds) /\ c.l.alloc = alloc \ {cursor}
  <2>1. cursor \in Library.alloc \cup StdStreams
    BY <1>1 DEF Library
  <2>2. Library.alloc = alloc
    BY DEF Library
  <2> QED BY <2>1, <2>2, ClosedKeeps DEF StreamsInv
<1> HIDE DEF c
<1>3. Library' = c.l /\ Sound(c.l, gemdos', fds) /\ refused' \in BOOLEAN
  BY <1>1, <1>2, BecomesThat
<1>4. alloc' = alloc \ {cursor}
  BY <1>2, <1>3 DEF Library
<1>5. PICK n, ord : Ordered(Library, n, ord)
  BY DEF StreamsInv, Sound, LibraryOK
<1>6. PICK k \in 1 .. n : ord[k] = cursor
  BY <1>1, <1>5 DEF Ordered, Library
<1>7. cursor' = IF k < n THEN ord[k + 1] ELSE NULL
  BY <1>1, <1>5, <1>6 DEF Ordered, Library
<1>8. k < n => ord[k + 1] \in alloc /\ ord[k + 1] # ord[k]
  <2>1. n \in Nat /\ (k < n => k + 1 \in 1 .. n)
    BY <1>5 DEF Ordered
  <2> QED BY <1>5, <2>1 DEF Ordered, Library
<1>9. cursor' \in alloc' \cup {NULL}
  BY <1>4, <1>6, <1>7, <1>8
<1> QED BY <1>1, <1>2, <1>3, <1>9 DEF StreamsInv

\* The program's own open.
LEMMA ProgramOpenSound ==
    ASSUME StreamsInv, cursor = NULL, NEW path \in Paths, NEW access \in 0 .. 2,
           ProgramOpen(path, access)
    PROVE  StreamsInv'
<1>1. PICK o \in GFopen(gemdos, path, access) :
        o.fd # Fail /\ open' = o.g.open /\ fds' = fds \cup {o.fd}
  BY DEF ProgramOpen
<1>2. Gives(gemdos, o) /\ o.g.disk = gemdos.disk
  BY GFopenGives DEF StreamsInv, Sound
<1>3. /\ GemdosOK(o.g) /\ o.fd \in Handles \ DOMAIN gemdos.open
      /\ DOMAIN o.g.open = DOMAIN gemdos.open \cup {o.fd}
  BY <1>1, <1>2 DEF Gives
<1>4. Library' = Library /\ cursor' = NULL /\ disk' = disk /\ refused' = FALSE
  BY DEF ProgramOpen, Library
<1>5. GemdosOK(gemdos') /\ gemdos'.open = o.g.open
  <2>1. gemdos' = [disk |-> o.g.disk, open |-> o.g.open, refused |-> FALSE]
    BY <1>1, <1>2, <1>4 DEF gemdos
  <2> QED BY <1>3, <2>1 DEF GemdosOK
<1>6. LibraryOK(Library) /\ Owned(Library, gemdos, fds)
  BY DEF StreamsInv, Sound
<1>7. \A f \in Library.alloc : Library.file[f].handle \in DOMAIN gemdos.open
  BY <1>6 DEF Owned
<1>8. Owned(Library, gemdos', fds \cup {o.fd})
  BY <1>3, <1>5, <1>6, <1>7 DEF Owned
<1>9. Sound(Library, gemdos', fds \cup {o.fd})
  BY <1>5, <1>6, <1>8 DEF Sound
<1> QED BY <1>1, <1>4, <1>9 DEF StreamsInv

\* Writing through a handle.
LEMMA ProgramWriteSound ==
    ASSUME StreamsInv, cursor = NULL, NEW h \in DOMAIN open, ProgramWrite(h)
    PROVE  StreamsInv'
<1> DEFINE g == [disk |-> disk', open |-> open', refused |-> FALSE]
           entry == [open[h] EXCEPT !.pos = "end"]
<1>1. GemdosOK(gemdos) /\ LibraryOK(Library) /\ Owned(Library, gemdos, fds)
  BY DEF StreamsInv, Sound
<1>2. open[h] \in OpenEntry /\ open \in [DOMAIN open -> OpenEntry]
  BY <1>1 DEF GemdosOK, gemdos
<1>3. entry \in OpenEntry /\ open[h].path \in Paths
  BY <1>2 DEF OpenEntry
<1>4. open' = [open EXCEPT ![h] = entry] /\ disk' = [disk EXCEPT ![open[h].path] = "data"]
  BY DEF ProgramWrite
<1> HIDE DEF entry
<1>5. open' \in [DOMAIN open -> OpenEntry] /\ DOMAIN open' = DOMAIN open
  BY <1>2, <1>3, <1>4
<1>6. disk' \in [Paths -> {"absent", "empty", "data"}]
  BY <1>1, <1>3, <1>4 DEF GemdosOK, gemdos
<1>7. GemdosOK(g) /\ DOMAIN g.open = DOMAIN gemdos.open
  BY <1>1, <1>5, <1>6 DEF GemdosOK, gemdos
<1>8. /\ gemdos' = g /\ Library' = Library /\ fds' = fds /\ cursor' = NULL
      /\ refused' = FALSE
  BY DEF ProgramWrite, gemdos, Library
<1> HIDE DEF g
<1>9. Sound(Library, g, fds)
  BY <1>1, <1>7 DEF Sound, Owned
<1> QED BY <1>8, <1>9 DEF StreamsInv

\* The list, the handles and the running fcloseall are in order in every state.
THEOREM StreamsInvariant == Spec => []StreamsInv
<1>1. StreamsInv /\ [Next]_vars => StreamsInv'
  <2> SUFFICES ASSUME StreamsInv, [Next]_vars PROVE StreamsInv'
    OBVIOUS
  <2>1. CASE Call
    <3>0. cursor = NULL
      BY <2>1 DEF Call
    <3>1. CASE \E path \in Paths, mode \in Modes : Fopen(path, mode)
      BY <3>0, <3>1, FopenSound
    <3>2. CASE FopenBadMode \/ Fcloseall
      <4>1. /\ Library' = Library /\ gemdos' = gemdos /\ fds' = fds /\ alloc' = alloc
            /\ refused' = refused
        BY <3>2 DEF FopenBadMode, Fcloseall, vars, Library, gemdos
      <4>2. cursor' = cursor \/ cursor' = head
        BY <3>2 DEF FopenBadMode, Fcloseall, vars
      <4>3. head \in alloc \cup {NULL}
        <5>1. PICK n, ord : Ordered(Library, n, ord)
          BY DEF StreamsInv, Sound, LibraryOK
        <5>2. n # 0 => 1 \in 1 .. n
          BY <5>1 DEF Ordered
        <5> QED BY <5>1, <5>2 DEF Ordered, Library
      <4> QED BY <4>1, <4>2, <4>3 DEF StreamsInv
    <3>3. CASE \E fd \in fds, mode \in Modes : Fdopen(fd, mode)
      BY <3>0, <3>3, FdopenSound
    <3>4. CASE \E f \in alloc \cup StdStreams : Fclose(f)
      BY <3>0, <3>4, FcloseSound
    <3>5. CASE \E f \in alloc \cup StdStreams, path \in Paths, mode \in Modes :
                 Freopen(path, mode, f)
      BY <3>0, <3>5, FreopenSound
    <3>6. CASE \E path \in Paths, access \in 0 .. 2 : ProgramOpen(path, access)
      BY <3>0, <3>6, ProgramOpenSound
    <3>7. CASE \E h \in DOMAIN open : ProgramWrite(h)
      BY <3>0, <3>7, ProgramWriteSound
    <3> QED BY <2>1, <3>1, <3>2, <3>3, <3>4, <3>5, <3>6, <3>7 DEF Call
  <2>2. CASE FcloseallStep
    BY <2>2, FcloseallStepSound
  <2>3. CASE UNCHANGED vars
    BY <2>3 DEF vars, StreamsInv, Library, gemdos
  <2> QED BY <2>1, <2>2, <2>3 DEF Next
<1> QED BY <1>1, InitSound, PTL DEF Spec

-----------------------------------------------------------------------------
(* What the run checks *)

\* No list is longer than there are FILEs.
LEMMA ListIsShort ==
    ASSUME NEW l, NEW n, NEW ord, Ordered(l, n, ord)
    PROVE  n <= Cardinality(Files) /\ Cardinality(Files) \in Nat
<1>1. n \in Nat /\ ord \in Injection(1 .. n, Files)
  BY DEF Ordered, Injection, IsInjective
<1>2. Cardinality(1 .. n) <= Cardinality(Files)
  BY <1>1, FS_Injection, StreamsAssumption
<1>3. Cardinality(1 .. n) = n
  BY <1>1, FS_Interval
<1>4. Cardinality(Files) \in Nat
  BY FS_CardinalityType, StreamsAssumption
<1> QED BY <1>2, <1>3, <1>4

\* Following the links from the head leads through the list and to its end.
LEMMA LinkedIsTheList ==
    ASSUME NEW n, NEW ord, Ordered(Library, n, ord)
    PROVE  /\ DOMAIN Linked = 0 .. Cardinality(Files)
           /\ \A k \in 0 .. Cardinality(Files) :
                Linked[k] = IF k < n THEN ord[k + 1] ELSE NULL
<1> DEFINE N == Cardinality(Files)
           Body(f) == [k \in 0 .. N |->
                         IF k = 0 THEN head
                         ELSE IF f[k - 1] = NULL THEN NULL ELSE file[f[k - 1]].next]
           g == [k \in 0 .. N |-> IF k < n THEN ord[k + 1] ELSE NULL]
           at == CHOOSE f : f = Body(f)
<1>1. n \in Nat /\ N \in Nat /\ n <= N
  <2>1. n <= N /\ N \in Nat
    BY ListIsShort
  <2> QED BY <2>1 DEF Ordered
<1>2. /\ \A k \in 1 .. n : ord[k] # NULL /\ file[ord[k]].next = IF k < n THEN ord[k + 1] ELSE NULL
      /\ head = IF n = 0 THEN NULL ELSE ord[1]
  <2>1. \A k \in 1 .. n : ord[k] \in Files
    BY DEF Ordered
  <2> QED BY <2>1, StreamsAssumption DEF Ordered, Library
<1> HIDE DEF N
<1>3. ASSUME NEW k \in 0 .. N, NEW f,
             k # 0 => f[k - 1] = IF k - 1 < n THEN ord[k] ELSE NULL
      PROVE  Body(f)[k] = IF k < n THEN ord[k + 1] ELSE NULL
  <2>1. Body(f)[k] = IF k = 0 THEN head
                     ELSE IF f[k - 1] = NULL THEN NULL ELSE file[f[k - 1]].next
    OBVIOUS
  <2> HIDE DEF Body
  <2>2. CASE k = 0
    BY <1>1, <1>2, <2>1, <2>2
  <2>3. CASE k # 0 /\ k - 1 < n
    <3>1. k \in 1 .. n
      BY <1>1, <2>3
    <3> QED BY <1>2, <1>3, <2>1, <2>3, <3>1
  <2>4. CASE k # 0 /\ ~(k - 1 < n)
    <3>1. ~(k < n)
      BY <1>1, <2>4
    <3> QED BY <1>3, <2>1, <2>4, <3>1
  <2> QED BY <2>2, <2>3, <2>4
<1>4. g = Body(g)
  <2>1. ASSUME NEW k \in 0 .. N PROVE g[k] = Body(g)[k]
    <3>1. k # 0 => k - 1 \in 0 .. N /\ (k - 1) + 1 = k
      BY <1>1
    <3>2. k # 0 => g[k - 1] = IF k - 1 < n THEN ord[k] ELSE NULL
      BY <3>1
    <3>3. g[k] = IF k < n THEN ord[k + 1] ELSE NULL
      OBVIOUS
    <3> HIDE DEF g, Body
    <3> QED BY <1>3, <3>2, <3>3
  <2>2. g = [k \in 0 .. N |-> g[k]]
    OBVIOUS
  <2>3. Body(g) = [k \in 0 .. N |-> Body(g)[k]]
    <3> HIDE DEF g
    <3> QED OBVIOUS
  <2> HIDE DEF g, Body
  <2> QED BY <2>1, <2>2, <2>3
<1>5. at = Body(at)
  BY <1>4
<1>6. Linked = at
  BY DEF Linked, N
<1>d. DOMAIN at = 0 .. N
  <2>1. DOMAIN Body(at) = 0 .. N
    OBVIOUS
  <2> HIDE DEF Body, at
  <2> QED BY <1>5, <2>1
<1> HIDE DEF at, g
<1> DEFINE Right(k) == at[k] = IF k < n THEN ord[k + 1] ELSE NULL
           S == {k \in Nat : k <= N => Right(k)}
<1>7. ASSUME NEW k \in 0 .. N, k # 0 => Right(k - 1) PROVE Right(k)
  <2>1. k # 0 => (k - 1) + 1 = k
    BY <1>1
  <2> HIDE DEF Body
  <2>2. Body(at)[k] = IF k < n THEN ord[k + 1] ELSE NULL
    BY <1>3, <1>7, <2>1
  <2> QED BY <1>5, <2>2
<1> HIDE DEF Right
<1>8. 0 \in S
  BY <1>1, <1>7
<1>9. ASSUME NEW k \in Nat, k \in S PROVE k + 1 \in S
  <2>1. k + 1 <= N => k + 1 \in 0 .. N /\ (k + 1) - 1 = k /\ Right(k)
    BY <1>1, <1>9
  <2> QED BY <1>7, <2>1
<1>10. Nat \subseteq S
  <2> HIDE DEF S
  <2> QED BY <1>8, <1>9, SetInduction
<1>11. ASSUME NEW k \in 0 .. N PROVE Right(k)
  BY <1>1, <1>10
<1> QED BY <1>6, <1>d, <1>11 DEF Right, N

\* The variables have their types.
LEMMA TypesFollow == StreamsInv => TypeOK
<1> SUFFICES ASSUME StreamsInv PROVE TypeOK
  OBVIOUS
<1>1. LibraryOK(Library) /\ GemdosOK(gemdos) /\ Owned(Library, gemdos, fds)
  BY DEF StreamsInv, Sound
<1>2. /\ head \in Files \cup {NULL} /\ alloc \subseteq Files
      /\ file \in [Files \cup StdStreams -> FileType]
  BY <1>1 DEF LibraryOK, Library, FileSet
<1>3. /\ disk \in [Paths -> {"absent", "empty", "data"}]
      /\ open \in [DOMAIN open -> OpenEntry] /\ DOMAIN open \subseteq Handles
  BY <1>1 DEF GemdosOK, gemdos
<1>4. fds \subseteq DOMAIN open
  BY <1>1 DEF Owned, gemdos
<1>5. cursor \in Files \cup {NULL} /\ refused \in BOOLEAN
  BY <1>2 DEF StreamsInv
<1> QED BY <1>2, <1>3, <1>4, <1>5 DEF TypeOK, OpenEntry

\* The list is as ListSound says.
LEMMA ListFollows == StreamsInv => ListSound
<1> SUFFICES ASSUME StreamsInv PROVE ListSound
  OBVIOUS
<1> DEFINE N == Cardinality(Files)
<1>1. PICK n, ord : Ordered(Library, n, ord)
  BY DEF StreamsInv, Sound, LibraryOK
<1>2. /\ n \in Nat /\ N \in Nat /\ n <= N
      /\ alloc = {ord[i] : i \in 1 .. n}
  <2>1. n <= N /\ N \in Nat
    BY <1>1, ListIsShort
  <2> QED BY <1>1, <2>1 DEF Ordered, Library
<1>3. \A k \in 0 .. N : Linked[k] = IF k < n THEN ord[k + 1] ELSE NULL
  BY <1>1, LinkedIsTheList
<1>4. DOMAIN Linked = 0 .. N
  BY <1>1, LinkedIsTheList
<1> HIDE DEF N
<1>5. alloc \subseteq Files /\ NULL \notin alloc
  BY StreamsAssumption DEF StreamsInv, Sound, LibraryOK, Library
<1>6. Listed = alloc
  <2>1. ASSUME NEW k \in 0 .. N, Linked[k] # NULL PROVE Linked[k] \in alloc
    <3>1. k < n /\ k + 1 \in 1 .. n
      BY <1>2, <1>3, <2>1
    <3> QED BY <1>2, <1>3, <3>1
  <2>2. ASSUME NEW f \in alloc PROVE \E k \in 0 .. N : Linked[k] = f
    <3>1. PICK i \in 1 .. n : ord[i] = f
      BY <1>2
    <3>2. i - 1 \in 0 .. N /\ i - 1 < n /\ (i - 1) + 1 = i
      BY <1>2
    <3> QED BY <1>3, <3>1, <3>2
  <2> QED BY <1>4, <1>5, <2>1, <2>2 DEF Listed
<1>7. Linked[N] = NULL
  BY <1>2, <1>3
<1>8. \A f \in alloc : file[f].magic
  BY DEF StreamsInv, Sound, LibraryOK, Library
<1> QED BY <1>6, <1>7, <1>8 DEF ListSound, N

\* Whatever the program opens, reopens and closes, and whichever step of fopen fails:
\* the list ends and holds exactly the allocated FILEs, and every open handle belongs to
\* one of them or to the program.
THEOREM StreamsAlwaysSound == Spec => []StreamsSound
<1>1. StreamsInv => HandlesOwned
  BY DEF StreamsInv, Sound, Owned, HandlesOwned, Library, gemdos
<1>2. StreamsInv => StreamsSound
  BY <1>1, TypesFollow, ListFollows DEF StreamsSound
<1> QED BY <1>2, StreamsInvariant, PTL

\* What is left of a file, and what a new stream s may do, behind a call of fopen that
\* found the library l and GEMDOS g.
LeavesFiles(g, h, path, mode) ==
    \A p \in Paths : g.disk[p] = "data" /\ h.disk[p] = "empty" =>
       p = path /\ (Truncates(mode) \/ (mode.letter = "a" /\ h.refused))

NewOnesServe(l, v, h) ==
    \A f \in v.alloc \ l.alloc :
      LET s == v.file[f]
      IN  /\ h.open[s.handle].access =
               IF "write" \notin s.mode THEN 0 ELSE IF "read" \in s.mode THEN 2 ELSE 1
          /\ "append" \in s.mode =>
               h.open[s.handle].pos = "end" \/ h.disk[h.open[s.handle].path] = "empty"

LEMMA FopenServes ==
    ASSUME NEW l, NEW g, NEW own, Sound(l, g, own), NEW path \in Paths, NEW mode \in Modes,
           NEW r \in FopenResults(l, g, path, mode)
    PROVE  LeavesFiles(g, r.g, path, mode) /\ NewOnesServe(l, r.l, r.g)
<1> DEFINE m == ParsedMode(mode)
           final == FinalMode(m)
<1>1. CASE r.l = l /\ r.g = g
  BY <1>1 DEF LeavesFiles, NewOnesServe
<1>2. CASE ~(r.l = l /\ r.g = g)
  <2>1. PICK o : /\ AsAsked(g, path, m, o) /\ r.g = o.g
                 /\ \/ r.l = l
                    \/ /\ o.fd \in Handles \ DOMAIN g.open
                       /\ \E f \in Files \ l.alloc : r.l = Join(l, f, o.fd, final)
    BY <1>2, FopenResult
  <2>2. /\ "create" \in m /\ "append" \notin m => Truncates(mode)
        /\ "append" \in m => mode.letter = "a"
        /\ final \in SUBSET Flags
    BY ParsedModeOK
  <2>3. /\ "append" \in final <=> "append" \in m
        /\ "write" \in final <=> "write" \in m
        /\ "read" \in final <=> "read" \in m
    BY DEF FinalMode
  <2> HIDE DEF m, final
  <2>4. LeavesFiles(g, r.g, path, mode)
    <3>1. AsAsked(g, path, m, o) /\ r.g = o.g
      BY <2>1
    <3>2. \A p \in Paths : o.g.disk[p] # g.disk[p] => p = path /\ "create" \in m
      BY <3>1 DEF AsAsked, Opens
    <3>3. "append" \in m /\ g.disk[path] = "data" /\ o.g.disk[path] = "empty" => o.g.refused
      BY <3>1 DEF AsAsked
    <3> QED BY <2>2, <3>1, <3>2, <3>3 DEF LeavesFiles
  <2>5. CASE r.l = l
    BY <2>4, <2>5 DEF NewOnesServe
  <2>6. CASE r.l # l
    <3>1. PICK f \in Files \ l.alloc : r.l = Join(l, f, o.fd, final)
      BY <2>1, <2>6
    <3>2. o.fd \in Handles
      BY <2>1, <2>6
    <3>3. /\ r.l.alloc = l.alloc \cup {f}
          /\ r.l.file[f].handle = o.fd /\ r.l.file[f].mode = final
      BY <2>2, <3>1, <3>2, JoinKeepsList DEF Sound
    <3>4. /\ r.g.open[o.fd].path = path
          /\ r.g.open[o.fd].access = AccessOf(m)
          /\ "append" \in m => r.g.open[o.fd].pos = "end" \/ r.g.disk[path] = "empty"
      BY <2>1, <3>2, FailIsNone DEF AsAsked, Opens
    <3>5. NewOnesServe(l, r.l, r.g)
      BY <2>3, <3>3, <3>4 DEF NewOnesServe, AccessOf
    <3> QED BY <2>4, <3>5
  <2> QED BY <2>5, <2>6
<1> QED BY <1>1, <1>2

\* fopen and freopen find the same files, and the new FILE is none that was allocated.
LEMMA OpeningServes ==
    ASSUME StreamsInv, NEW path \in Paths, NEW mode \in Modes,
           Fopen(path, mode) \/ \E f \in alloc \cup StdStreams : Freopen(path, mode, f)
    PROVE  LosesOnRequest /\ OpensForItsMode /\ AppendsBehind
<1>1. PICK l, g : /\ Sound(l, g, fds) /\ g.disk = disk /\ l.alloc \subseteq alloc
                  /\ \E r \in FopenResults(l, g, path, mode) : Becomes(r.l, r.g)
  <2>1. CASE Fopen(path, mode)
    <3>1. /\ Sound(Library, gemdos, fds) /\ gemdos.disk = disk /\ Library.alloc \subseteq alloc
          /\ \E r \in FopenResults(Library, gemdos, path, mode) : Becomes(r.l, r.g)
      BY <2>1 DEF Fopen, StreamsInv, Library, gemdos
    <3> QED BY <3>1
  <2>2. CASE \E f \in alloc \cup StdStreams : Freopen(path, mode, f)
    <3>1. PICK f \in alloc \cup StdStreams : Freopen(path, mode, f)
      BY <2>2
    <3> DEFINE c == Closed(Library, gemdos, f)
    <3>2. \E r \in FopenResults(c.l, c.g, path, mode) : Becomes(r.l, r.g)
      BY <3>1 DEF Freopen
    <3>3. Library.alloc = alloc /\ gemdos.disk = disk
      BY DEF Library, gemdos
    <3>4. Sound(c.l, c.g, fds) /\ c.g.disk = gemdos.disk /\ c.l.alloc = Library.alloc \ {f}
      BY <3>3, ClosedKeeps DEF StreamsInv
    <3>5. c.g.disk = disk /\ c.l.alloc \subseteq alloc
      BY <3>3, <3>4
    <3> HIDE DEF c
    <3> QED BY <3>2, <3>4, <3>5
  <2> QED BY <2>1, <2>2
<1>2. PICK r \in FopenResults(l, g, path, mode) : Becomes(r.l, r.g)
  BY <1>1
<1>3. LeavesFiles(g, r.g, path, mode) /\ NewOnesServe(l, r.l, r.g)
  BY <1>1, <1>2, FopenServes
<1>4. /\ alloc' = r.l.alloc /\ file' = r.l.file /\ disk' = r.g.disk /\ open' = r.g.open
      /\ refused' = r.g.refused
  BY <1>2 DEF Becomes
<1>5. LosesOnRequest
  BY <1>1, <1>3, <1>4 DEF LeavesFiles, LosesOnRequest, Overrides
<1>6. \A f \in alloc' \ alloc : f \in r.l.alloc \ l.alloc
  BY <1>1, <1>4
<1>7. OpensForItsMode /\ AppendsBehind
  BY <1>3, <1>4, <1>6 DEF NewOnesServe, OpensForItsMode, AppendsBehind
<1> QED BY <1>5, <1>7

\* fdopen takes a handle that is open, and looks for its end to append.
LEMMA FdopenServes ==
    ASSUME StreamsInv, NEW fd \in fds, NEW mode \in Modes, Fdopen(fd, mode)
    PROVE  LosesOnRequest /\ OpensForItsMode /\ AppendsBehind
<1> DEFINE m == ParsedMode(mode)
           final == FinalMode(m)
           g == IF "append" \in m THEN GFseekEnd(gemdos, fd) ELSE gemdos
<1>1. PICK f \in Files \ alloc : Becomes(Join(Library, f, fd, final), g)
  BY DEF Fdopen
<1>2. fd \in DOMAIN gemdos.open /\ fd \in Handles /\ final \in SUBSET Flags
  BY ParsedModeOK DEF StreamsInv, Sound, Owned, GemdosOK
<1>3. g.disk = gemdos.disk /\ ("append" \in m => g.open[fd].pos = "end")
  BY <1>2, GFseekEndSeeks DEF StreamsInv, Sound
<1>4. "append" \in final <=> "append" \in m
  BY DEF FinalMode
<1> HIDE DEF m, final, g
<1> DEFINE j == Join(Library, f, fd, final)
<1>5. j.alloc = alloc \cup {f} /\ j.file[f].handle = fd /\ j.file[f].mode = final
  <2>1. f \in Files \ Library.alloc /\ Library.alloc = alloc
    BY DEF Library
  <2> QED BY <1>2, <2>1, JoinKeepsList DEF StreamsInv, Sound
<1>6. alloc' = j.alloc /\ file' = j.file /\ disk' = g.disk /\ open' = g.open
  BY <1>1 DEF Becomes
<1> HIDE DEF j
<1>7. disk' = disk /\ DOMAIN open = DOMAIN gemdos.open
  BY <1>3, <1>6 DEF gemdos
<1>8. LosesOnRequest
  BY <1>7 DEF LosesOnRequest
<1>9. OpensForItsMode
  BY <1>2, <1>5, <1>6, <1>7 DEF OpensForItsMode
<1>10. AppendsBehind
  BY <1>3, <1>4, <1>5, <1>6 DEF AppendsBehind
<1> QED BY <1>8, <1>9, <1>10

\* Whatever fopen finds, and whatever GEMDOS refuses it: a file loses its contents only
\* to a "w", or to an "a" that GEMDOS did not let open the file; a new stream's handle may
\* do what its mode says, and an append is behind what the file holds.
THEOREM StreamsOpenAsAsked == Spec => OpensAsAsked
<1>1. StreamsInv /\ [Next]_vars => [LosesOnRequest /\ OpensForItsMode /\ AppendsBehind]_vars
  <2> SUFFICES ASSUME StreamsInv, Next
               PROVE  LosesOnRequest /\ OpensForItsMode /\ AppendsBehind
    OBVIOUS
  <2> DEFINE Quiet == disk' = disk /\ alloc' \subseteq alloc
  <2>q. Quiet => LosesOnRequest /\ OpensForItsMode /\ AppendsBehind
    BY DEF LosesOnRequest, OpensForItsMode, AppendsBehind
  <2>c. ASSUME NEW f \in alloc \cup StdStreams,
               Becomes(Closed(Library, gemdos, f).l, Closed(Library, gemdos, f).g)
        PROVE  Quiet
    <3> DEFINE c == Closed(Library, gemdos, f)
    <3>1. Library.alloc = alloc /\ gemdos.disk = disk
      BY DEF Library, gemdos
    <3>2. c.g.disk = gemdos.disk /\ c.l.alloc = Library.alloc \ {f}
      BY <3>1, ClosedKeeps DEF StreamsInv
    <3>3. disk' = c.g.disk /\ alloc' = c.l.alloc
      BY <2>c DEF Becomes
    <3> HIDE DEF c
    <3> QED BY <3>1, <3>2, <3>3
  <2>1. CASE \E path \in Paths, mode \in Modes :
               \/ Fopen(path, mode)
               \/ \E f \in alloc \cup StdStreams : Freopen(path, mode, f)
    BY <2>1, OpeningServes
  <2>2. CASE \E fd \in fds, mode \in Modes : Fdopen(fd, mode)
    BY <2>2, FdopenServes
  <2>3. CASE \E f \in alloc \cup StdStreams : Fclose(f)
    BY <2>3, <2>c, <2>q DEF Fclose
  <2>4. CASE FcloseallStep
    <3>1. cursor \in alloc
      BY <2>4 DEF FcloseallStep, StreamsInv
    <3> QED BY <2>4, <2>c, <2>q, <3>1 DEF FcloseallStep
  <2>5. CASE FopenBadMode \/ Fcloseall
    BY <2>5, <2>q DEF FopenBadMode, Fcloseall, vars
  <2>6. CASE \E path \in Paths, access \in 0 .. 2 : ProgramOpen(path, access)
    BY <2>6, <2>q DEF ProgramOpen
  <2>7. CASE \E h \in DOMAIN open : ProgramWrite(h)
    <3>1. PICK h \in DOMAIN open : ProgramWrite(h)
      BY <2>7
    <3>2. /\ alloc' = alloc
          /\ disk' = [disk EXCEPT ![open[h].path] = "data"]
          /\ disk \in [Paths -> {"absent", "empty", "data"}]
      BY <3>1 DEF ProgramWrite, StreamsInv, Sound, GemdosOK, gemdos
    <3>3. \A path \in Paths : disk[path] = "data" => disk'[path] = "data"
      BY <3>2
    <3> QED BY <3>2, <3>3 DEF LosesOnRequest, OpensForItsMode, AppendsBehind
  <2> QED BY <2>1, <2>2, <2>3, <2>4, <2>5, <2>6, <2>7 DEF Next, Call
<1> QED BY <1>1, StreamsInvariant, PTL DEF Spec, OpensAsAsked, KeepsContents, AccessMatches, AppendsAtEnd
=============================================================================
