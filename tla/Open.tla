-------------------------------- MODULE Open --------------------------------
(***************************************************************************)
(* open, remove and unlink: the calls of the system they are made of, while *)
(* another process may create and delete the same file between any two of   *)
(* them.                                                                    *)
(*                                                                         *)
(* MiNT's Fopen knows O_CREAT, O_EXCL and O_TRUNC, and has FTRUNCATE.  TOS  *)
(* ignores these bits and has only Fcreate, which empties what is there.    *)
(***************************************************************************)
EXTENDS Integers

CONSTANTS
    Shared,     \* where there is another process: TRUE for MiNT, FALSE for TOS
    MayFail,    \* whether Fopen and Fcreate may fail, for want of handles, and FTRUNCATE
    MaxFiles    \* bound: files that ever exist under the name

OpenAssumption ==
    /\ Shared \subseteq BOOLEAN /\ MayFail \in BOOLEAN
    /\ MaxFiles \in Nat \ {0}

VARIABLES
    mint,       \* whether the system is MiNT
    file,       \* what the name stands for: kind, and which file
    last,       \* the number of files so far
    iomode,     \* what is called, and the arguments of open
    pc,         \* its next call
    handles,    \* the handles the process has on the file
    made,       \* the files this open has created,
    emptied,    \* and those it has emptied
    removed,    \* what remove or unlink has removed: files and directories
    ret         \* what was returned

vars == <<mint, file, last, iomode, pc, handles, made, emptied, removed, ret>>

Modes == {"RDONLY", "WRONLY", "RDWR"}
Flags == {"CREAT", "EXCL", "TRUNC", "APPEND", "DIRECTORY"}
None == [kind |-> "none", id |-> 0]

Init ==
    /\ mint \in BOOLEAN
    /\ file \in {None} \cup [kind : {"file", "dir", "full"}, id : {1}]
    /\ last = 1
    /\ iomode \in [call : {"open"}, access : Modes, flags : SUBSET Flags, slash : BOOLEAN]
               \cup [call : {"remove", "unlink"}, access : {"RDONLY"}, flags : {{}}, slash : {FALSE}]
    /\ pc = IF iomode.call = "open" THEN "stat"
            ELSE IF iomode.call = "remove" THEN "Ddelete" ELSE "Fdelete"
    /\ handles = {} /\ made = {} /\ emptied = {} /\ removed = {}
    /\ ret = "none"

Has(f) == f \in iomode.flags

\* A directory may be empty, or "full".
IsDir == file.kind \in {"dir", "full"}

Return(code) == ret' = code /\ pc' = "done"

-----------------------------------------------------------------------------
(***************************************************************************)
(* The system.  Each call gives a code and what it changes.                 *)
(***************************************************************************)

Handle(id) == [id |-> id, access |-> iomode.access, pos |-> "start"]

\* The bits the system gets.
RealMode == iomode.flags

FopenCode(bits) ==
    IF file.kind = "none" THEN IF mint /\ "CREAT" \in bits THEN "made" ELSE "ENOENT"
    ELSE IF IsDir THEN IF mint THEN "EISDIR" ELSE "ENOENT"
    ELSE IF mint /\ {"CREAT", "EXCL"} \subseteq bits THEN "EEXIST" ELSE "opened"

\* Fopen gives code; MiNT empties what it opens for writing with O_TRUNC.
Fopen(bits, code) ==
    /\ code \in {FopenCode(bits)} \cup (IF MayFail THEN {"EMFILE"} ELSE {})
    /\ code = "made" => last < MaxFiles
    /\ IF code = "made"
       THEN /\ file' = [kind |-> "file", id |-> last + 1]
            /\ last' = last + 1
            /\ made' = made \cup {last + 1}
            /\ handles' = handles \cup {Handle(last + 1)}
            /\ UNCHANGED emptied
       ELSE IF code = "opened"
       THEN LET clears == mint /\ "TRUNC" \in bits /\ iomode.access # "RDONLY"
            IN  /\ emptied' = IF clears THEN emptied \cup {file.id} ELSE emptied
                /\ handles' = handles \cup {Handle(file.id)}
                /\ UNCHANGED <<file, last, made>>
       ELSE UNCHANGED <<file, last, made, emptied, handles>>

\* Fcreate opens what it creates or empties for reading and writing.
Fcreate(code) ==
    /\ code \in (IF IsDir THEN {"EACCES"} ELSE {"made"})
               \cup (IF MayFail THEN {"EMFILE"} ELSE {})
    /\ IF code # "made" THEN UNCHANGED <<file, last, made, emptied, handles>>
       ELSE LET id == IF file.kind = "file" THEN file.id ELSE last + 1
            IN  /\ id <= MaxFiles
                /\ file' = [kind |-> "file", id |-> id]
                /\ last' = IF id > last THEN id ELSE last
                /\ made' = IF file.kind = "file" THEN made ELSE made \cup {id}
                /\ emptied' = emptied \cup {id}
                /\ handles' = handles \cup {[id |-> id, access |-> "RDWR", pos |-> "start"]}

-----------------------------------------------------------------------------
(***************************************************************************)
(* open                                                                     *)
(***************************************************************************)

Stat ==
    /\ pc = "stat"
    /\ \/ /\ file.kind = "none"
          /\ pc' = "noent" /\ UNCHANGED ret
       \/ /\ file.kind = "file" /\ Has("DIRECTORY")
          /\ Return("ENOTDIR")
       \/ /\ IsDir \/ (file.kind = "file" /\ ~Has("DIRECTORY"))
          /\ IF Has("CREAT") /\ Has("EXCL") THEN Return("EEXIST")
             ELSE pc' = "open" /\ UNCHANGED ret
    /\ UNCHANGED <<file, last, iomode, handles, made, emptied>>

\* A file that was there for stat; it may have gone.
OpenFile ==
    /\ pc = "open"
    /\ \E code \in {"opened", "ENOENT", "EISDIR", "EEXIST", "EMFILE"} :
         /\ Fopen(RealMode \ {"CREAT"}, code)
         /\ \/ code = "ENOENT" /\ pc' = "noent" /\ UNCHANGED ret
            \/ /\ code = "opened"
               /\ pc' = IF Has("TRUNC") THEN "truncate" ELSE "opened"
               /\ UNCHANGED ret
            \/ code \notin {"ENOENT", "opened"} /\ Return(code)
    /\ UNCHANGED iomode

\* O_TRUNC and O_RDONLY.
Conflict ==
    /\ pc = "truncate" /\ iomode.access = "RDONLY"
    /\ handles' = {}
    /\ Return("EACCES")
    /\ UNCHANGED <<file, last, iomode, made, emptied>>

\* FTRUNCATE, through the handle; the file may have no name any more.  TOS does not
\* know it, and MiNT may refuse it.
Ftruncate ==
    /\ pc = "truncate" /\ iomode.access # "RDONLY"
    /\ \/ /\ mint
          /\ emptied' = emptied \cup {h.id : h \in handles}
          /\ pc' = "opened"
          /\ UNCHANGED handles
       \/ /\ ~mint \/ MayFail
          /\ handles' = {}
          /\ pc' = "recreate"
          /\ UNCHANGED emptied
    /\ UNCHANGED <<file, last, iomode, made, ret>>

Recreate ==
    /\ pc = "recreate"
    /\ \E code \in {"made", "EACCES", "EMFILE"} :
         /\ Fcreate(code)
         /\ IF code = "made" THEN pc' = "close" /\ UNCHANGED ret ELSE Return(code)
    /\ UNCHANGED iomode

CloseRecreated ==
    /\ pc = "close"
    /\ handles' = {}
    /\ pc' = "reopen"
    /\ UNCHANGED <<file, last, iomode, made, emptied, ret>>

Reopen ==
    /\ pc = "reopen"
    /\ \E code \in {"opened", "made", "ENOENT", "EISDIR", "EEXIST", "EMFILE"} :
         /\ Fopen(RealMode, code)
         /\ IF code \in {"opened", "made"} THEN pc' = "opened" /\ UNCHANGED ret
            ELSE Return(code)
    /\ UNCHANGED iomode

\* A slip: open starts again, since the file has disappeared.
NoEntry_Retries ==
    /\ pc = "noent"
    /\ IF Has("CREAT") THEN pc' = "opencreate" ELSE pc' = "stat"
    /\ UNCHANGED <<file, last, iomode, handles, made, emptied, ret>>

\* Without O_CREAT, or with a name that ends in a slash, there is nothing to do.
NoEntry ==
    /\ pc = "noent"
    /\ \/ ~Has("CREAT") /\ Return("ENOENT")
       \/ Has("CREAT") /\ iomode.slash /\ Return("EISDIR")
       \/ Has("CREAT") /\ ~iomode.slash /\ pc' = "opencreate" /\ UNCHANGED ret
    /\ UNCHANGED <<file, last, iomode, handles, made, emptied>>

OpenCreate ==
    /\ pc = "opencreate"
    /\ \E code \in {"opened", "made", "ENOENT", "EISDIR", "EEXIST", "EMFILE"} :
         /\ Fopen(RealMode, code)
         /\ \/ code = "ENOENT" /\ pc' = "create" /\ UNCHANGED ret
            \/ code \in {"opened", "made"} /\ pc' = "opened" /\ UNCHANGED ret
            \/ code \notin {"ENOENT", "opened", "made"} /\ Return(code)
    /\ UNCHANGED iomode

Create ==
    /\ pc = "create"
    /\ \E code \in {"made", "EACCES", "EMFILE"} :
         /\ Fcreate(code)
         /\ IF code = "made" THEN pc' = "opened" /\ UNCHANGED ret ELSE Return(code)
    /\ UNCHANGED iomode

\* O_APPEND, and the handle is returned.
Opened ==
    /\ pc = "opened"
    /\ handles' = IF Has("APPEND") THEN {[h EXCEPT !.pos = "end"] : h \in handles}
                  ELSE handles
    /\ Return("handle")
    /\ UNCHANGED <<file, last, iomode, made, emptied>>

-----------------------------------------------------------------------------
(***************************************************************************)
(* remove and unlink                                                        *)
(***************************************************************************)

\* TOS does not tell a file from what is not there: neither is a path to a directory.
DdeleteCode ==
    IF file.kind = "none" THEN IF mint THEN "ENOENT" ELSE "ENOTDIR"
    ELSE IF file.kind = "file" THEN "ENOTDIR"
    ELSE IF file.kind = "full" THEN "EACCES" ELSE "removed"
FdeleteCode ==
    IF file.kind = "none" THEN "ENOENT"
    ELSE IF file.kind = "file" THEN "removed"
    ELSE IF mint THEN "EISDIR" ELSE "ENOENT"

Gone(code) ==
    IF code = "removed" THEN removed' = removed \cup {file} /\ file' = None
    ELSE UNCHANGED <<file, removed>>

\* A slip: the other way round.
Ddelete_Else ==
    /\ pc = "Ddelete"
    /\ Gone(DdeleteCode)
    /\ IF DdeleteCode = "ENOTDIR" THEN Return(DdeleteCode) ELSE pc' = "Fdelete" /\ UNCHANGED ret
    /\ UNCHANGED <<last, iomode, handles, made, emptied>>

\* remove: what is no directory may be a file.
Ddelete ==
    /\ pc = "Ddelete"
    /\ Gone(DdeleteCode)
    /\ IF DdeleteCode = "ENOTDIR" THEN pc' = "Fdelete" /\ UNCHANGED ret ELSE Return(DdeleteCode)
    /\ UNCHANGED <<last, iomode, handles, made, emptied>>

\* unlink, and the second half of remove.
Fdelete ==
    /\ pc = "Fdelete"
    /\ Gone(FdeleteCode)
    /\ Return(FdeleteCode)
    /\ UNCHANGED <<last, iomode, handles, made, emptied>>

-----------------------------------------------------------------------------
(***************************************************************************)
(* The other process.                                                       *)
(***************************************************************************)

OtherCreates ==
    /\ mint \in Shared /\ pc # "done" /\ file.kind = "none" /\ last < MaxFiles
    /\ last' = last + 1
    /\ \E kind \in {"file", "dir", "full"} : file' = [kind |-> kind, id |-> last + 1]
    /\ UNCHANGED <<iomode, pc, handles, made, emptied, removed, ret>>
OtherDeletes ==
    /\ mint \in Shared /\ pc # "done" /\ file.kind # "none"
    /\ file' = None
    /\ UNCHANGED <<last, iomode, pc, handles, made, emptied, removed, ret>>

Call ==
    \/ /\ \/ Stat \/ OpenFile \/ Conflict \/ Ftruncate \/ Recreate \/ CloseRecreated
          \/ Reopen \/ NoEntry \/ OpenCreate \/ Create \/ Opened
       /\ UNCHANGED removed
    \/ Ddelete \/ Fdelete

Next == (Call \/ OtherCreates \/ OtherDeletes) /\ UNCHANGED mint

-----------------------------------------------------------------------------

TypeOK ==
    /\ mint \in BOOLEAN
    /\ file.kind \in {"none", "file", "dir", "full"}
    /\ last \in 1 .. MaxFiles
    /\ made \subseteq 1 .. MaxFiles /\ emptied \subseteq 1 .. MaxFiles
    /\ handles \subseteq [id : 1 .. MaxFiles, access : Modes, pos : {"start", "end"}]
    /\ \A g, h \in handles : g = h

\* When open fails, whichever of its calls has failed, no handle is left behind;
\* when it does not, there is the one it returns.
NoHandleLeaked ==
    pc = "done" => (ret = "handle" <=> handles # {})

\* The handles and all variables are in order.
HandlesInOrder == TypeOK /\ NoHandleLeaked

\* With O_CREAT and O_EXCL only a file that this call has created is opened,
\* whatever another process does meanwhile (stdio.h: error if file exists).
ExclusiveCreates ==
    ret = "handle" /\ Has("CREAT") /\ Has("EXCL") => \A h \in handles : h.id \in made

\* With O_TRUNC a file that is opened for writing has been emptied, or made, by
\* this call.
TruncationDone ==
    ret = "handle" /\ Has("TRUNC") /\ iomode.access # "RDONLY" => \A h \in handles : h.id \in made \cup emptied

\* A file that was there is opened with the access asked for, also if it had to
\* be created anew to be emptied.
AccessAsAsked ==
    ret = "handle" => \A h \in handles : h.id \in made \/ h.access = iomode.access

\* What open returns is what it was asked for.
OpensAsAsked == ExclusiveCreates /\ TruncationDone /\ AccessAsAsked

\* remove and unlink return 0 when they have removed one thing, and remove no directory
\* that is not empty; where no other process interferes, remove removes all else that
\* is there.
RemovesOne ==
    /\ (ret = "removed" <=> removed # {}) /\ \A q, r \in removed : q = r
    /\ \A r \in removed : r.kind # "full"
    /\ mint \notin Shared /\ pc = "done" /\ iomode.call = "remove" => file.kind \in {"none", "full"}

\* Names stand for what was asked: open and remove.
OpensAndRemoves == OpensAsAsked /\ RemovesOne
=============================================================================
