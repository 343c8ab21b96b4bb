---------------------------- MODULE Directories ----------------------------
(***************************************************************************)
(* Directory streams: opendir, readdir, readdir_r, rewinddir, seekdir,      *)
(* telldir and closedir, beside findfirst and findnext, stat, and a search  *)
(* of the program's own with Fsfirst and Fsnext.                            *)
(*                                                                         *)
(* GEMDOS keeps the state of a search in the DTA that is set when Fsfirst   *)
(* or Fsnext is called.  Each stream has its own, so has each ffblk, stat   *)
(* has one on the stack, and the program has one; every call sets its DTA   *)
(* and puts the old one back.                                               *)
(***************************************************************************)
EXTENDS Integers, Sequences, SequencesExt

CONSTANTS
    Streams,        \* the DIR structures
    Tree,           \* directories (sequences of names) to their entries
    Names,          \* what is given to opendir: [abs, path]
    MayFail,        \* whether Fsnext may fail, and malloc for the DIR and for dirname
    NULL

User == "user"      \* the program's own DTA,
Block == "ffblk"    \* that of findfirst and findnext,
Stack == "stack"    \* and that of stat, which is gone when stat returns
Searches == Streams \cup {User, Block}
Root == <<>>

DirectoriesAssumption ==
    /\ Streams \cap {User, Block, Stack, NULL} = {}
    /\ Root \in DOMAIN Tree
    /\ \A p \in DOMAIN Tree : Tree[p] \in Seq(STRING)
    /\ Names \subseteq [abs : BOOLEAN, path : Seq(STRING)]
    /\ MayFail \in BOOLEAN

VARIABLES
    dir,        \* the DIRs: status, d_off and dirname; "closed" is no DIR; and with each
                \* the directory it searches, and whether it was opened by an absolute name
    dta,        \* GEMDOS: whose DTA is set
    search,     \* GEMDOS: the DTAs: directory searched, entries found so far
    cwd,        \* GEMDOS: the current directory
    seen,       \* what a search has given the program since its start
    told,       \* what telldir gave, and what was still to come then
    arrived,    \* the stream that seekdir has just brought to its place
    ret         \* whether the last call succeeded: 0, -1 or what happens to be returned

vars == <<dir, dta, search, cwd, seen, told, arrived, ret>>

NoFile == "NMFILE"
Nothing == [pos |-> 0, ahead |-> <<>>]
NoSearch == [path |-> Root, at |-> 0]
Statuses == {"closed", "STARTSEARCH", "INSEARCH", NoFile}

\* Where the program may be: on the drive of Root.  Only a root can be empty, so another
\* directory that is empty is the root of another drive.
Folders == {Root} \cup {p \in DOMAIN Tree : Tree[p] # <<>>}

Closed == [status |-> "closed", off |-> 0, dirname |-> NULL, opened |-> Root, abs |-> TRUE]

-----------------------------------------------------------------------------

Gives(code) == ret' = code /\ arrived' = NULL

Resolve(name) == IF name.abs THEN name.path ELSE cwd \o name.path

\* What opendir keeps for rewinddir.  Dgetpath gives the current directory
\* without a \ at its end, and none is put in: the last name of the path and the
\* first of the given name run together.  At the root the result is A: and the
\* name, which GEMDOS takes from the current directory of that time.
Joined(where, path) == Front(where) \o <<Last(where) \o Head(path)>> \o Tail(path)
DirName(name) ==
    IF name.abs \/ cwd = Root THEN name
    ELSE [abs |-> TRUE, path |-> Joined(cwd, name.path)]

Entries(path) == IF path \in DOMAIN Tree THEN Tree[path] ELSE <<>>

\* GEMDOS Fsfirst into DTA w: 0, or an error number.
FsfirstResult(path) ==
    IF path \notin DOMAIN Tree THEN "EPATH"
    ELSE IF Entries(path) = <<>> THEN "ENOENT" ELSE "found"
Fsfirst(w, path) ==
    search' = IF FsfirstResult(path) = "found"
              THEN [search EXCEPT ![w] = [path |-> path, at |-> 1]] ELSE search

\* GEMDOS Fsnext: whether DTA w has another file.
HasNext(w) == search[w].at < Len(Entries(search[w].path))

\* Whether opendir gives up after Fsfirst.
OpenFails(r) == r = "EPATH"

\* A slip: the stream's DTA stays set.
DtaAfter_Kept(d) == d

\* Whose DTA is set after a search of the stream: the one that was set before.
DtaAfter(d) == dta

\* malloc has room for the DIR; dirname may have none.
OpendirSearches(d, name) ==
    LET r == FsfirstResult(Resolve(name))
    IN  /\ Fsfirst(d, Resolve(name))
        /\ IF OpenFails(r)
           THEN Gives(-1) /\ UNCHANGED <<dir, seen, told>>
           ELSE /\ \E dirname \in {DirName(name)} \cup (IF MayFail THEN {NULL} ELSE {}) :
                     dir' = [dir EXCEPT ![d] =
                       [status |-> IF r = "found" THEN "STARTSEARCH" ELSE NoFile, off |-> 0,
                        dirname |-> dirname, opened |-> Resolve(name), abs |-> name.abs]]
                /\ seen' = [seen EXCEPT ![d] = <<>>]
                /\ told' = [told EXCEPT ![d] = [pos |-> 0, ahead |-> Entries(Resolve(name))]]
                /\ Gives(0)
        /\ dta' = DtaAfter(d)

Opendir(d, name) ==
    /\ dir[d].status = "closed"
    /\ \/ OpendirSearches(d, name)
       \/ MayFail /\ Gives(-1) /\ UNCHANGED <<dir, dta, search, seen, told>>
    /\ UNCHANGED cwd

\* What the stream or the program gets: the name in its DTA.
Found(w, at) == Tree[search[w].path][at]

\* readdir gives an entry (0) or NULL (-1).
Readdir(d) ==
    /\ dir[d].status # "closed"
    /\ \/ /\ dir[d].status = NoFile
          /\ Gives(-1)
          /\ UNCHANGED <<dir, search, seen>>
       \/ /\ dir[d].status = "STARTSEARCH"
          /\ dir' = [dir EXCEPT ![d].status = "INSEARCH", ![d].off = @ + 1]
          /\ seen' = [seen EXCEPT ![d] = Append(@, Found(d, search[d].at))]
          /\ Gives(0)
          /\ UNCHANGED search
       \/ /\ dir[d].status = "INSEARCH" /\ HasNext(d)
          /\ search' = [search EXCEPT ![d].at = @ + 1]
          /\ dir' = [dir EXCEPT ![d].off = @ + 1]
          /\ seen' = [seen EXCEPT ![d] = Append(@, Found(d, search[d].at + 1))]
          /\ Gives(0)
       \/ /\ dir[d].status = "INSEARCH" /\ ~HasNext(d)
          /\ dir' = [dir EXCEPT ![d].status = NoFile]
          /\ Gives(-1)
          /\ UNCHANGED <<search, seen>>
       \/ /\ dir[d].status = "INSEARCH" /\ MayFail
          /\ Gives(-1)
          /\ UNCHANGED <<dir, search, seen>>
    /\ dta' = IF dir[d].status = "INSEARCH" THEN DtaAfter(d) ELSE dta
    /\ UNCHANGED <<cwd, told>>

\* readdir_r looks into the result that was there before, and gives up when that is
\* NULL; otherwise it is readdir, and a copy.
readdir_r(d, result) ==
    IF result # NULL THEN Readdir(d)
    ELSE Gives(-1) /\ UNCHANGED <<dir, dta, search, cwd, seen, told>>

Telldir(d) ==
    /\ dir[d].status # "closed"
    /\ told' = [told EXCEPT ![d] =
         [pos   |-> dir[d].off,
          ahead |-> LET all == Entries(dir[d].opened)
                    IN  SubSeq(all, Len(seen[d]) + 1, Len(all))]]
    /\ Gives(0)
    /\ UNCHANGED <<dir, dta, search, cwd, seen>>

\* The DIR after rewinddir, with dirname there: it searches what dirname stands for now.
Rewound(d) ==
    [dir[d] EXCEPT !.off = 0, !.opened = Resolve(dir[d].dirname),
                   !.status = IF FsfirstResult(Resolve(dir[d].dirname)) = "found"
                              THEN "STARTSEARCH" ELSE NoFile]

Rewinddir(d) ==
    /\ dir[d].status # "closed"
    /\ IF dir[d].dirname = NULL
       THEN UNCHANGED <<dir, search, seen>>
       ELSE /\ Fsfirst(d, Resolve(dir[d].dirname))
            /\ dir' = [dir EXCEPT ![d] = Rewound(d)]
            /\ seen' = [seen EXCEPT ![d] = <<>>]
    /\ Gives(0)
    /\ dta' = DtaAfter(d)
    /\ UNCHANGED <<cwd, told>>

\* How many entries readdir gives before d_off is pos, or before there are no more.
Steps(off, ahead, pos) ==
    IF pos \in off .. off + Len(ahead) THEN pos - off ELSE Len(ahead)

\* seekdir: rewinddir, then readdir until d_off is pos or it gives NULL, which it
\* may also do because Fsnext fails (code -1; seekdir itself returns nothing).
\* r is the DIR after rewinddir.
Seekdir(d, pos) ==
    /\ dir[d].status # "closed"
    /\ LET back  == dir[d].dirname # NULL
           path  == IF back THEN Resolve(dir[d].dirname) ELSE search[d].path
           r     == IF back THEN Rewound(d) ELSE dir[d]
           given == IF back THEN <<>> ELSE seen[d]
           ahead == IF r.status = NoFile THEN <<>>
                    ELSE SubSeq(Entries(path), Len(given) + 1, Len(Entries(path)))
           all   == Steps(r.off, ahead, pos)
       IN  \E n \in {all} \cup (IF MayFail THEN 1 .. all - 1 ELSE {}) :
             /\ seen' = [seen EXCEPT ![d] = given \o SubSeq(ahead, 1, n)]
             /\ dir' = [dir EXCEPT ![d] =
                  [r EXCEPT !.off = r.off + n,
                            !.status = IF n = Len(ahead) /\ r.off + n # pos THEN NoFile
                                       ELSE IF n = 0 THEN r.status ELSE "INSEARCH"]]
             /\ search' = IF r.status = NoFile THEN search
                          ELSE [search EXCEPT ![d] =
                                 [path |-> path, at |-> IF r.off + n = 0 THEN 1 ELSE r.off + n]]
             /\ arrived' = IF n = all /\ dir[d].dirname # NULL THEN d ELSE NULL
             /\ ret' = 0
    /\ dta' = DtaAfter(d)
    /\ UNCHANGED <<cwd, told>>

\* closedir returns a variable it has never set: any value.
Closedir(d) ==
    /\ dir[d].status # "closed"
    /\ dir' = [dir EXCEPT ![d] = Closed]
    /\ seen' = [seen EXCEPT ![d] = <<>>]
    /\ told' = [told EXCEPT ![d] = Nothing]
    /\ search' = [search EXCEPT ![d] = NoSearch]
    /\ \E r \in {-1, 0, 1} : Gives(r)
    /\ UNCHANGED <<dta, cwd>>

-----------------------------------------------------------------------------
(***************************************************************************)
(* The program besides: a search of its own, in the DTA it has set.         *)
(***************************************************************************)

UserFirst(path) ==
    /\ Tree[path] # <<>> /\ seen[Block] = <<>>
    /\ Fsfirst(dta, path)
    /\ seen' = [seen EXCEPT ![User] = <<Tree[path][1]>>]
    /\ told' = [told EXCEPT ![User] = [pos |-> 0, ahead |-> Tree[path]]]
    /\ Gives(0)
    /\ UNCHANGED <<dir, dta, cwd>>

UserNext ==
    /\ seen[User] # <<>>
    /\ HasNext(dta)
    /\ search' = [search EXCEPT ![dta].at = @ + 1]
    /\ seen' = [seen EXCEPT ![User] = Append(@, Found(dta, search[dta].at + 1))]
    /\ Gives(0)
    /\ UNCHANGED <<dir, dta, cwd, told>>

\* The search is given up (bound: the program has one search at a time, of its own or
\* with findfirst).
GiveUp ==
    /\ seen' = [seen EXCEPT ![User] = <<>>, ![Block] = <<>>]
    /\ told' = [told EXCEPT ![User] = Nothing, ![Block] = Nothing]
    /\ search' = [search EXCEPT ![User] = NoSearch, ![Block] = NoSearch]
    /\ dta = User
    /\ Gives(0)
    /\ UNCHANGED <<dir, dta, cwd>>

Chdir(path) ==
    /\ cwd' = path
    /\ Gives(0)
    /\ UNCHANGED <<dir, dta, search, seen, told>>

-----------------------------------------------------------------------------
(***************************************************************************)
(* findfirst and findnext, and stat.                                        *)
(***************************************************************************)

findfirst(path) ==
    /\ seen[User] = <<>>
    /\ Fsfirst(Block, path)
    /\ IF FsfirstResult(path) = "found"
       THEN /\ seen' = [seen EXCEPT ![Block] = <<Tree[path][1]>>]
            /\ told' = [told EXCEPT ![Block] = [pos |-> 0, ahead |-> Tree[path]]]
            /\ Gives(0)
       ELSE Gives(-1) /\ UNCHANGED <<seen, told>>
    /\ dta' = DtaAfter(Block)
    /\ UNCHANGED <<dir, cwd>>

findnext ==
    /\ seen[Block] # <<>>
    /\ IF HasNext(Block)
       THEN /\ search' = [search EXCEPT ![Block].at = @ + 1]
            /\ seen' = [seen EXCEPT ![Block] = Append(@, Found(Block, search[Block].at + 1))]
            /\ Gives(0)
       ELSE Gives(-1) /\ UNCHANGED <<search, seen>>
    /\ dta' = DtaAfter(Block)
    /\ UNCHANGED <<dir, cwd, told>>

\* stat looks for one file with an Fsfirst (and opens it when it is no directory).
stat(there) ==
    /\ Gives(IF there THEN 0 ELSE -1)
    /\ dta' = DtaAfter(Stack)
    /\ UNCHANGED <<dir, search, cwd, seen, told>>

Init ==
    /\ dir = [d \in Streams |-> Closed]
    /\ dta = User
    /\ search = [w \in Searches \cup {Stack} |-> NoSearch]
    /\ cwd \in Folders
    /\ seen = [w \in Searches |-> <<>>]
    /\ told = [w \in Searches |-> Nothing]
    /\ arrived = NULL /\ ret = 0

Next ==
    \/ \E d \in Streams :
         \/ \E name \in Names : Opendir(d, name)
         \/ Readdir(d)
         \/ \E result \in {NULL, "entry"} : readdir_r(d, result)
         \/ Telldir(d)
         \/ Rewinddir(d)
         \/ Seekdir(d, told[d].pos)
         \/ Closedir(d)
    \/ \E path \in DOMAIN Tree : UserFirst(path)
    \/ UserNext \/ GiveUp
    \/ \E path \in DOMAIN Tree : findfirst(path)
    \/ findnext
    \/ \E there \in BOOLEAN : stat(there)
    \/ \E path \in Folders : Chdir(path)

-----------------------------------------------------------------------------

TypeOK ==
    /\ \A d \in Streams : dir[d].status \in Statuses /\ dir[d].off \in Nat
    /\ dta = User
    /\ cwd \in Folders
    /\ \A w \in Searches :
         /\ search[w].at \in Nat
         /\ seen[w] \in Seq(STRING)

\* What a stream has given since its start, or since the last rewinddir, is the
\* front part of the directory it searches, in order and without gaps; d_off counts it;
\* and when readdir says there is no more, there is none.  This is the directory that was
\* opened; for a relative name only until rewinddir (see SeekLeadsBack).
EntriesInOrder ==
    \A d \in Streams :
      dir[d].status # "closed" =>
        /\ IsPrefix(seen[d], Entries(dir[d].opened))
        /\ dir[d].off = Len(seen[d])
        /\ dir[d].status = NoFile => seen[d] = Entries(dir[d].opened)

\* A search of the program's own, or with findfirst, goes on where it was, whatever is
\* done with directory streams and stat in between; and findnext says that there is no
\* more when there is none.
UserSearchInOrder == \A w \in {User, Block} : IsPrefix(seen[w], told[w].ahead)

\* Every search is in order, the streams' and the program's.
SearchesInOrder == TypeOK /\ EntriesInOrder /\ UserSearchInOrder

\* Whether the entries ahead of the stream are again those that were ahead when telldir
\* gave the place.
LedBack(d) == seen'[d] \o told[d].ahead = Entries(dir[d].opened)

\* seekdir to a place telldir gave leads back there: the same entries are ahead.  So it is
\* for a stream that was opened by an absolute name, where malloc gave opendir the room
\* for the name and Fsnext does not fail.
SeekLeadsBack == [][\A d \in Streams : arrived' = d /\ dir[d].abs => LedBack(d)]_vars

\* dirname is the directory of the search (bits/dirent.h), built for rewinddir "if
\* necessary" (opendir): a stream opened by any name is led back.
DirnameLeadsBack == [][\A d \in Streams : arrived' = d => LedBack(d)]_vars
=============================================================================
