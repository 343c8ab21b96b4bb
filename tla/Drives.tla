------------------------------- MODULE Drives -------------------------------
(***************************************************************************)
(* chdir, getcwd, getcurdir and setdisk.  GEMDOS keeps a current drive, and *)
(* a current directory for each drive.                                      *)
(***************************************************************************)
EXTENDS Integers, Sequences

CONSTANTS
    Mounted,    \* the drives
    Paths,      \* the directories of each drive, as sequences of names of one character
    Missing,    \* a path to nowhere
    Sizes       \* of the buffers for getcwd

Current == ""       \* a name without a drive: the current one

DrivesAssumption ==
    /\ Current \notin Mounted
    /\ Paths \subseteq Seq(STRING) /\ <<>> \in Paths
    /\ Missing \in Seq(STRING) \ Paths /\ Missing # <<>>
    /\ Sizes \subseteq Nat

VARIABLES
    drive,      \* GEMDOS: the current drive
    path,       \* GEMDOS: the current directory of each drive
    saved,      \* a directory getcwd has told
    buffer,     \* what the last getcwd returned: whose memory, its size, what is written
    returned    \* whether the last call was a chdir to what was saved

driveVars == <<drive, path, saved, buffer, returned>>

Whole(d, abs, p) == [drive |-> d, abs |-> abs, path |-> p]
PathNames == [drive : Mounted \cup {Current}, abs : BOOLEAN, path : Paths \cup {Missing}]

\* GEMDOS: what Dsetpath makes of the rest of a name; "" is where one is already.
Target(d, name) == IF name.abs THEN name.path ELSE path[d] \o name.path

\* The name Dsetpath gets: nothing at all is the root.
Rest(name) ==
    IF name.drive = Current /\ ~name.abs /\ name.path = <<>> THEN Whole(Current, TRUE, <<>>)
    ELSE name

\* The drive is set before the path, and stays so when there is no such path.
chdir(name) ==
    LET d == IF name.drive = Current THEN drive ELSE name.drive
        target == Target(d, Rest(name))
    IN  /\ drive' = d
        /\ path' = IF target \in Paths THEN [path EXCEPT ![d] = target] ELSE path
        /\ returned' = FALSE
        /\ UNCHANGED <<saved, buffer>>

\* getcwd's name of a place: for the root just the drive, without the \.
NameOf(place) == Whole(place.drive, place.path # <<>>, place.path)
Length(place) == 2 + 2 * Len(place.path)

Answer(memory, size, written) == [memory |-> memory, size |-> size, written |-> written]

\* own: the program's buffer; otherwise malloc's of the given size, or strdup's.  ok:
\* whether Dgetpath answers; if not, the buffer is returned as it is.  Memory that
\* malloc gave and that is too small is not given back.
getcwd(own, size, ok) ==
    LET place == [drive |-> drive, path |-> path[drive]]
        alloc == ~own /\ size > 0
        fits == size > Length(place)
    IN  /\ buffer' = IF ~own /\ ~alloc
                     THEN IF ok THEN Answer("malloc", Length(place) + 1, Length(place) + 1)
                          ELSE Answer("NULL", 0, 0)
                     ELSE IF ok /\ ~fits THEN Answer("NULL", size, 0)
                     ELSE Answer(IF own THEN "own" ELSE "malloc", size,
                                 IF ok THEN Length(place) + 1 ELSE 0)
        /\ saved' = IF ok /\ (fits \/ (~own /\ ~alloc)) THEN place ELSE saved
        /\ returned' = FALSE
        /\ UNCHANGED <<drive, path>>

\* The program goes back to where it was.
GoBack ==
    LET name == NameOf(saved)
        target == Target(name.drive, Rest(name))
    IN  /\ drive' = name.drive
        /\ path' = [path EXCEPT ![name.drive] = target]
        /\ returned' = TRUE
        /\ UNCHANGED <<saved, buffer>>

setdisk(d) == drive' = d /\ returned' = FALSE /\ UNCHANGED <<path, saved, buffer>>

DrivesInit ==
    /\ drive \in Mounted /\ path = [d \in Mounted |-> <<>>]
    /\ saved = [drive |-> drive, path |-> <<>>]
    /\ buffer = Answer("NULL", 0, 0) /\ returned = FALSE

DrivesNext ==
    \/ \E name \in PathNames : chdir(name)
    \/ \E own, ok \in BOOLEAN, size \in Sizes : getcwd(own, size, ok)
    \/ GoBack
    \/ \E d \in Mounted : setdisk(d)

-----------------------------------------------------------------------------

\* getcwd writes no more than the buffer has room for, and what it tells leads chdir
\* back from wherever the program has gone: but not to a root from another directory of
\* the drive, since getcwd calls a root A:, and chdir takes that for where one is there.
LeadsBack ==
    /\ buffer.written <= buffer.size
    /\ \A d \in Mounted : path[d] \in Paths
    /\ returned => drive = saved.drive /\ (saved.path # <<>> => path[drive] = saved.path)
=============================================================================
