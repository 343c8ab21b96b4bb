------------------------------ MODULE Streams ------------------------------
(***************************************************************************)
(* The streams of libcmini: fopen, fdopen, freopen, fclose, fcloseall and   *)
(* the list __stdio_head they keep (fopen.c, fdopen.c, freopen.c, fclose.c, *)
(* fcloseall.c, stdio.c).                                                   *)
(*                                                                         *)
(* A FILE is allocated with calloc and linked in front of the list; the     *)
(* three standard streams are static and never on it.  GEMDOS gives out     *)
(* handles from a small table and may have files that cannot be written.    *)
(* Every call runs to completion, but fcloseall closes one stream at a      *)
(* time, and each of these closings is a step.                              *)
(***************************************************************************)
EXTENDS Integers, FiniteSets

CONSTANTS
    Files,          \* the FILE objects calloc may return
    Paths,          \* the names of files
    ReadOnly,       \* those of them GEMDOS does not let be written
    Handles,        \* the handles GEMDOS gives out, numbers above 5
    OnMiNT,         \* what __is_mint() says
    Letters,        \* what the modes the program passes start with
    ModeFlags,      \* what may come behind
    NULL

StdStreams == {"stdin", "stdout", "stderr"}
StdHandle == [s \in StdStreams |->
                 CASE s = "stdin" -> 0 [] s = "stdout" -> 1 [] s = "stderr" -> 2]
NoHandle == -7      \* what fclose leaves

ASSUME StreamsAssumption ==
    /\ Handles \subseteq Nat \ (0 .. 5)
    /\ IsFiniteSet(Handles) /\ IsFiniteSet(Files)
    /\ ReadOnly \subseteq Paths
    /\ OnMiNT \in BOOLEAN
    /\ Letters \subseteq {"r", "w", "a"} /\ ModeFlags \subseteq {"+", "b", "x"}
    /\ NULL \notin Files \cup StdStreams
    /\ Files \cap StdStreams = {}

Modes == [letter : Letters, flags : SUBSET ModeFlags]

Flags == {"read", "write", "append", "binary", "create", "exclusive"}

VARIABLES
    head,       \* __stdio_head
    file,       \* the FILEs: magic, handle, next, mode
    alloc,      \* the FILEs calloc has given out
    disk,       \* GEMDOS: what a path holds
    open,       \* GEMDOS: open handles, with path, access and position
    fds,        \* handles the program opened itself and made no stream of
    refused,    \* observed: the last call's Fcreate emptied a file Fopen had refused
    cursor      \* f of a running fcloseall

vars == <<head, file, alloc, disk, open, fds, refused, cursor>>

\* What a call finds.
gemdos == [disk |-> disk, open |-> open, refused |-> FALSE]

FileType == [magic : BOOLEAN, handle : Handles \cup 0 .. 2 \cup {NoHandle},
             next : Files \cup {NULL}, mode : SUBSET Flags]

-----------------------------------------------------------------------------
(***************************************************************************)
(* GEMDOS, as the calls see it.  An operation maps the state g to the set   *)
(* of its outcomes: a handle or Fail, and the state after it.               *)
(***************************************************************************)

Fail == -1
Skipped == -2       \* the call is not made

Lowest(S) == CHOOSE h \in S : \A i \in S : h <= i
Free(g) == Handles \ DOMAIN g.open

\* access: 0 to read, 1 to write, 2 both.
Opened(g, path, access, pos) ==
    [g EXCEPT !.open = [h \in DOMAIN @ \cup {Lowest(Free(g))} |->
                           IF h \in DOMAIN @ THEN @[h]
                           ELSE [path |-> path, access |-> access, pos |-> pos]]]

\* Fopen may refuse any file: it is not there or may not be written, the table is
\* full, somebody else holds it, GEMDOS has no memory.
GFopen(g, path, access) ==
    {[fd |-> Fail, g |-> g]} \cup
    IF g.disk[path] = "absent" \/ Free(g) = {} \/ (access > 0 /\ path \in ReadOnly)
    THEN {}
    ELSE {[fd |-> Lowest(Free(g)), g |-> Opened(g, path, access, "start")]}

\* Fcreate may also find the disk full.
GFcreate(g, path) ==
    {[fd |-> Fail, g |-> g]} \cup
    IF Free(g) = {} \/ path \in ReadOnly THEN {}
    ELSE {[fd |-> Lowest(Free(g)),
           g  |-> [Opened(g, path, 2, "start") EXCEPT !.disk[path] = "empty"]]}

GFclose(g, h) == [g EXCEPT !.open = [i \in DOMAIN @ \ {h} |-> @[i]]]
GFseekEnd(g, h) == [g EXCEPT !.open[h].pos = "end"]

-----------------------------------------------------------------------------
(***************************************************************************)
(* The list                                                                 *)
(***************************************************************************)

\* The FILE n links behind the head; what is behind the end is the end.
Linked ==
    LET at[n \in 0 .. Cardinality(Files)] ==
          IF n = 0 THEN head
          ELSE IF at[n - 1] = NULL THEN NULL ELSE file[at[n - 1]].next
    IN  at

Listed == {Linked[n] : n \in DOMAIN Linked} \ {NULL}

Blank == [magic |-> FALSE, handle |-> NoHandle, next |-> NULL, mode |-> {}]

\* l is the library's state [head, file, alloc].
Join(l, f, h, mode) ==
    [head |-> f, alloc |-> l.alloc \cup {f},
     file |-> [l.file EXCEPT ![f] = [magic |-> TRUE, handle |-> h,
                                     next |-> l.head, mode |-> mode]]]

\* The list without f, and f freed: the link that led to f is bent.
Leave(l, f) ==
    IF f \in l.alloc
    THEN [head |-> IF l.head = f THEN l.file[f].next ELSE l.head,
          alloc |-> l.alloc \ {f},
          file |-> [e \in DOMAIN l.file |->
                      IF e = f THEN Blank
                      ELSE IF l.file[e].next = f /\ e \in l.alloc
                      THEN [l.file[e] EXCEPT !.next = l.file[f].next]
                      ELSE l.file[e]]]
    ELSE [l EXCEPT !.file[f].magic = FALSE, !.file[f].handle = NoHandle]

-----------------------------------------------------------------------------
(***************************************************************************)
(* fopen and fdopen                                                         *)
(***************************************************************************)

Letter == [r |-> {"read"}, w |-> {"write", "create"},
           a |-> {"write", "create", "append"}]

ParsedMode(mode) ==
    Letter[mode.letter]
      \cup (IF "+" \in mode.flags THEN {"read", "write"} ELSE {})
      \cup (IF "b" \in mode.flags THEN {"binary"} ELSE {})
      \cup (IF "x" \in mode.flags THEN {"exclusive"} ELSE {})

AccessOf(m) ==
    IF "write" \in m THEN (IF "read" \in m THEN 2 ELSE 1) ELSE 0

\* A slip: the handle of Fcreate stays open when the file is opened again.
CreateThenOpen_Leak(g, path, m) ==
    LET creations == IF "create" \in m THEN GFcreate(g, path)
                     ELSE {[fd |-> Skipped, g |-> g]}
    IN  UNION {IF c.fd = Fail \/ (c.fd # Skipped /\ "read" \in m) THEN {c}
               ELSE GFopen(c.g, path, AccessOf(m)) : c \in creations}

\* Lines 86 to 104: create, and open unless the created handle will do.
CreateThenOpen(g, path, m) ==
    LET creations == IF "create" \in m THEN GFcreate(g, path)
                     ELSE {[fd |-> Skipped, g |-> g]}
    IN  UNION {IF c.fd = Fail \/ (c.fd # Skipped /\ "read" \in m) THEN {c}
               ELSE GFopen(IF c.fd = Skipped THEN c.g ELSE GFclose(c.g, c.fd),
                           path, AccessOf(m))
               : c \in creations}

\* A slip: a file opened to append is created all the same.
OpenResults_AppendCreates(g, path, m) == CreateThenOpen(g, path, m)

\* The outcome o of a call that found g, where Fopen refused first.
Observed(g, path, o) ==
    [o EXCEPT !.g.refused = g.disk[path] = "data" /\ o.g.disk[path] = "empty"]

\* What fopen gets from GEMDOS.  An append creates the file whatever the reason was
\* for which Fopen refused it.
OpenResults(g, path, m) ==
    IF "append" \in m
    THEN UNION {IF o.fd # Fail THEN {[o EXCEPT !.g = GFseekEnd(o.g, o.fd)]}
                ELSE {Observed(g, path, c) : c \in CreateThenOpen(o.g, path, m)}
                : o \in GFopen(g, path, AccessOf(m))}
    ELSE CreateThenOpen(g, path, m)

\* On MiNT every stream is binary.
FinalMode(m) == IF OnMiNT THEN m \cup {"binary"} ELSE m

\* The results of fopen in library state l and GEMDOS state g: NULL or a FILE.
FopenResults(l, g, path, mode) ==
    LET m == ParsedMode(mode)
    IN  IF Files \subseteq l.alloc
        THEN {[fp |-> NULL, l |-> l, g |-> g]}
        ELSE {IF o.fd = Fail
              THEN [fp |-> NULL, l |-> l, g |-> o.g]
              ELSE [fp |-> f, l |-> Join(l, f, o.fd, FinalMode(m)), g |-> o.g]
              : o \in OpenResults(g, path, m), f \in Files \ l.alloc}

Library == [head |-> head, file |-> file, alloc |-> alloc]

Becomes(l, g) ==
    /\ head' = l.head /\ file' = l.file /\ alloc' = l.alloc
    /\ disk' = g.disk /\ open' = g.open /\ refused' = g.refused

Fopen(path, mode) ==
    /\ \E r \in FopenResults(Library, gemdos, path, mode) : Becomes(r.l, r.g)
    /\ UNCHANGED <<fds, cursor>>

\* A mode that starts with none of r, w and a: the FILE is freed again.
FopenBadMode == UNCHANGED vars

\* fdopen trusts fd; the stream has it from here on.
Fdopen(fd, mode) ==
    LET m == ParsedMode(mode)
        g == IF "append" \in m THEN GFseekEnd(gemdos, fd) ELSE gemdos
    IN  /\ \E f \in Files \ alloc :
             Becomes(Join(Library, f, fd, FinalMode(m)), g)
        /\ fds' = fds \ {fd}
        /\ UNCHANGED cursor

-----------------------------------------------------------------------------
(***************************************************************************)
(* fclose, freopen, fcloseall                                               *)
(***************************************************************************)

\* fclose on a FILE without the magic number does nothing: on a standard
\* stream that is closed already.
Closed(l, g, f) ==
    IF l.file[f].magic
    THEN [l |-> Leave(l, f), g |-> GFclose(g, l.file[f].handle)]
    ELSE [l |-> l, g |-> g]

Fclose(f) ==
    /\ LET c == Closed(Library, gemdos, f) IN Becomes(c.l, c.g)
    /\ UNCHANGED <<fds, cursor>>

Freopen(path, mode, f) ==
    /\ LET c == Closed(Library, gemdos, f)
       IN  \E r \in FopenResults(c.l, c.g, path, mode) : Becomes(r.l, r.g)
    /\ UNCHANGED <<fds, cursor>>

Fcloseall ==
    /\ cursor' = head
    /\ UNCHANGED <<head, file, alloc, disk, open, fds, refused>>

\* A slip: the link is followed once the FILE is freed.
FcloseallStep_LateNext ==
    /\ cursor # NULL
    /\ LET c == Closed(Library, gemdos, cursor)
       IN  /\ Becomes(c.l, c.g)
           /\ cursor' = c.l.file[cursor].next
    /\ UNCHANGED fds

FcloseallStep ==
    /\ cursor # NULL
    /\ cursor' = file[cursor].next
    /\ LET c == Closed(Library, gemdos, cursor) IN Becomes(c.l, c.g)
    /\ UNCHANGED fds

-----------------------------------------------------------------------------
(***************************************************************************)
(* The program besides: it opens handles itself and writes through streams. *)
(***************************************************************************)

ProgramOpen(path, access) ==
    \E o \in GFopen(gemdos, path, access) :
        /\ o.fd # Fail
        /\ open' = o.g.open
        /\ fds' = fds \cup {o.fd}
        /\ refused' = FALSE
        /\ UNCHANGED <<head, file, alloc, disk, cursor>>

ProgramWrite(h) ==
    /\ open[h].access > 0
    /\ disk' = [disk EXCEPT ![open[h].path] = "data"]
    /\ open' = [open EXCEPT ![h].pos = "end"]
    /\ refused' = FALSE
    /\ UNCHANGED <<head, file, alloc, fds, cursor>>

Init ==
    /\ head = NULL
    /\ file = [f \in Files \cup StdStreams |->
                 IF f \in Files THEN Blank
                 ELSE [magic |-> TRUE, handle |-> StdHandle[f], next |-> NULL,
                       mode |-> IF f = "stdin" THEN {"read"} ELSE {"write"}]]
    /\ alloc = {}
    /\ disk \in [Paths -> {"absent", "data"}]
    /\ open = [h \in {} |-> [path |-> NULL, access |-> 0, pos |-> "start"]]
    /\ fds = {}
    /\ refused = FALSE
    /\ cursor = NULL

\* The calls the program makes, one at a time.
Call ==
    /\ cursor = NULL
    /\ \/ \E path \in Paths, mode \in Modes : Fopen(path, mode)
       \/ FopenBadMode
       \/ \E fd \in fds, mode \in Modes : Fdopen(fd, mode)
       \/ \E f \in alloc \cup StdStreams : Fclose(f)
       \/ \E f \in alloc \cup StdStreams, path \in Paths, mode \in Modes :
            Freopen(path, mode, f)
       \/ Fcloseall
       \/ \E path \in Paths, access \in 0 .. 2 : ProgramOpen(path, access)
       \/ \E h \in DOMAIN open : ProgramWrite(h)

Next == Call \/ FcloseallStep

\* A call that has started goes on: fcloseall is plain code.
Spec == Init /\ [][Next]_vars /\ WF_vars(FcloseallStep)

-----------------------------------------------------------------------------

TypeOK ==
    /\ head \in Files \cup {NULL}
    /\ file \in [Files \cup StdStreams -> FileType]
    /\ alloc \subseteq Files
    /\ disk \in [Paths -> {"absent", "empty", "data"}]
    /\ DOMAIN open \subseteq Handles
    /\ \A h \in DOMAIN open :
         open[h] \in [path : Paths, access : 0 .. 2, pos : {"start", "end"}]
    /\ fds \subseteq Handles
    /\ refused \in BOOLEAN
    /\ cursor \in Files \cup {NULL}

\* The list ends, and holds exactly the FILEs that are allocated, each with its
\* magic number: no call loses a stream or leaves a freed one on the list.
ListSound ==
    /\ Linked[Cardinality(Files)] = NULL
    /\ Listed = alloc
    /\ \A f \in alloc : file[f].magic

\* Every open handle is the handle of exactly one stream on the list, or one the
\* program opened itself; and every such handle is open.  A fopen that fails on
\* the way, or an fclose, leaks no handle and closes nobody else's.
HandlesOwned ==
    /\ DOMAIN open = fds \cup {file[f].handle : f \in alloc}
    /\ \A f \in alloc : file[f].handle \notin fds
    /\ \A e, f \in alloc : file[e].handle = file[f].handle => e = f

\* The list, the handles and all variables are in order.
StreamsSound == TypeOK /\ ListSound /\ HandlesOwned

\* A file loses its contents only in a call for this file that asks for it, or to an
\* append GEMDOS did not let open the file that was there: fopen takes every refusal for
\* a file that is missing.  Never because a stream was opened to read, or to append to a
\* file GEMDOS opens.
Truncates(mode) == mode.letter = "w"
Overrides(mode) == mode.letter = "a" /\ refused'
LosesOnRequest ==
    \A path \in Paths :
      disk[path] = "data" /\ disk'[path] = "empty" =>
        \E mode \in Modes :
           /\ Truncates(mode) \/ Overrides(mode)
           /\ \/ Fopen(path, mode)
              \/ \E f \in alloc \cup StdStreams : Freopen(path, mode, f)
KeepsContents == [][LosesOnRequest]_vars

\* A stream fopen made may do with its handle what its mode says, and its handle
\* no more than that.
OpensForItsMode ==
    \A f \in alloc' \ alloc :
      LET s == file'[f]
      IN  s.handle \notin DOMAIN open =>
            open'[s.handle].access = IF "write" \notin s.mode THEN 0
                                     ELSE IF "read" \in s.mode THEN 2 ELSE 1
AccessMatches == [][OpensForItsMode]_vars

\* What a stream opened to append writes goes behind what the file holds.
AppendsBehind ==
    \A f \in alloc' \ alloc :
      "append" \in file'[f].mode =>
          LET h == open'[file'[f].handle]
          IN  h.pos = "end" \/ disk'[h.path] = "empty"
AppendsAtEnd == [][AppendsBehind]_vars

\* A stream that is opened leaves the files, and gets a handle, as its mode says, but
\* for the append to a file Fopen refused.
OpensAsAsked == KeepsContents /\ AccessMatches /\ AppendsAtEnd

\* fcloseall comes to its end, with no stream left.
FcloseallEnds == (cursor # NULL) ~> (cursor = NULL /\ alloc = {})
=============================================================================
