------------------------------ MODULE Handles ------------------------------
(***************************************************************************)
(* The calls on an open handle: read, write, lseek, close, getftime and     *)
(* setftime, which are one call of GEMDOS each, and filelength, fstat and   *)
(* isatty, which ask by moving the position of the handle and, fstat, by    *)
(* writing back the byte it has read.  On MiNT another process that has the *)
(* file open may change it between any two calls of GEMDOS.                 *)
(***************************************************************************)
EXTENDS Integers, Sequences, FiniteSetsExt

CONSTANTS
    Contents,   \* what the file may hold: sequences of bytes
    MaxSize,    \* bound: the size of the file
    Others,     \* bound: how often the other process changes it
    Pieces      \* what the program writes

Magic == <<"60", "1A">>     \* X_MAGIC
Bytes == {"60", "1A", "z"}

HandlesAssumption ==
    /\ Contents \cup Pieces \subseteq Seq(Bytes)
    /\ \A f \in Contents : Len(f) <= MaxSize
    /\ MaxSize \in Nat /\ Others \in Nat

VARIABLES
    file,       \* the bytes of the file
    handle,     \* GEMDOS: its kind, the access it was opened for, and the position
    op,         \* the call that is in progress: f, its next step, and its variables
    told,       \* what the last call returned
    held,       \* what the file has held since the call began
    theirs,     \* what the file would hold without the writes of fstat
    raced,      \* whether the other process has changed what fstat writes back
    others      \* how often the other process has changed the file

handleVars == <<file, handle, op, told, held, theirs, raced, others>>

EBADF == -37
EACCES == -36
ERANGE == -64

Whence == {"SEEK_SET", "SEEK_CUR", "SEEK_END"}
Accesses == {"RDONLY", "WRONLY", "RDWR"}
Kinds == {"file", "tty", "closed"}

-----------------------------------------------------------------------------
(***************************************************************************)
(* GEMDOS.  A terminal has no position: Fseek gives 0.                      *)
(***************************************************************************)

SeekTo(offset, whence) ==
    IF whence = "SEEK_SET" THEN offset
    ELSE IF whence = "SEEK_CUR" THEN handle.pos + offset ELSE Len(file) + offset
Fseek(offset, whence) ==
    IF handle.kind = "closed" THEN EBADF
    ELSE IF handle.kind = "tty" THEN 0
    ELSE IF SeekTo(offset, whence) \in 0 .. Max({Len(file), handle.pos})
         THEN SeekTo(offset, whence) ELSE ERANGE

\* The position after Fseek gave r.
At(r) == [handle EXCEPT !.pos = IF r >= 0 /\ handle.kind = "file" THEN r ELSE @]

\* What Fread from a position gives: a number of bytes, or an error.
Fread(pos, n) ==
    IF handle.kind = "closed" THEN EBADF
    ELSE IF handle.kind = "tty" THEN n
    ELSE IF handle.access = "WRONLY" THEN EACCES
    ELSE Max({0, Min({n, Len(file) - pos})})
Fwrite(n) ==
    IF handle.kind = "closed" THEN EBADF
    ELSE IF handle.kind = "file" /\ handle.access = "RDONLY" THEN EACCES ELSE n

\* The bytes of f after some are written at a position that is in it.
Written(f, pos, bytes) ==
    [i \in 1 .. Max({Len(f), pos + Len(bytes)}) |->
        IF i \in pos + 1 .. pos + Len(bytes) THEN bytes[i - pos] ELSE f[i]]

-----------------------------------------------------------------------------

Idle == [f |-> "none", next |-> "none", pos |-> 0, size |-> 0, byte |-> "z", w |-> FALSE, x |-> FALSE]
Tells(f, code, errno) ==
    [f |-> f, code |-> code, errno |-> errno, size |-> 0, w |-> FALSE, x |-> FALSE]

\* A call of one step: its errors are -1 and errno.
Simple(f, r) == Tells(f, IF r < 0 THEN -1 ELSE r, IF r < 0 THEN -r ELSE 0)

Free == op = Idle

read(n) ==
    /\ Free
    /\ told' = Simple("read", Fread(handle.pos, n))
    /\ handle' = IF handle.kind = "file" /\ Fread(handle.pos, n) > 0
                 THEN At(handle.pos + Fread(handle.pos, n)) ELSE handle
    /\ UNCHANGED <<file, op, held, theirs, raced, others>>

write(bytes) ==
    /\ Free
    /\ handle.pos <= Len(file) /\ handle.pos + Len(bytes) <= MaxSize
    /\ told' = Simple("write", Fwrite(Len(bytes)))
    /\ IF handle.kind = "file" /\ Fwrite(Len(bytes)) > 0
       THEN /\ file' = Written(file, handle.pos, bytes)
            /\ theirs' = file'
            /\ handle' = At(handle.pos + Len(bytes))
       ELSE UNCHANGED <<file, theirs, handle>>
    /\ UNCHANGED <<op, held, raced, others>>

\* lseek hands on the error of GEMDOS, and leaves errno alone.
lseek(offset, whence) ==
    /\ Free
    /\ told' = Tells("lseek", Fseek(offset, whence), 0)
    /\ handle' = At(Fseek(offset, whence))
    /\ UNCHANGED <<file, op, held, theirs, raced, others>>

close ==
    /\ Free
    /\ told' = Simple("close", IF handle.kind = "closed" THEN EBADF ELSE 0)
    /\ handle' = [handle EXCEPT !.kind = "closed", !.pos = 0]
    /\ UNCHANGED <<file, op, held, theirs, raced, others>>

\* getftime and setftime ask with an Fseek whether there is such a handle.
getftime ==
    /\ Free
    /\ told' = Tells("getftime", IF Fseek(0, "SEEK_CUR") < 0 THEN -1 ELSE 0,
                     IF Fseek(0, "SEEK_CUR") < 0 THEN -EBADF ELSE 0)
    /\ UNCHANGED <<file, handle, op, held, theirs, raced, others>>

\* filelength and fstat give up when there is no position; isatty does not look.
Begin(f) ==
    /\ Free
    /\ LET pos == Fseek(0, "SEEK_CUR")
       IN  IF pos < 0 /\ f # "isatty"
           THEN told' = Simple(f, pos) /\ UNCHANGED op
           ELSE /\ op' = [Idle EXCEPT !.f = f, !.pos = pos,
                                      !.next = IF f = "isatty" THEN "one" ELSE "end"]
                /\ UNCHANGED told
    /\ held' = {file} /\ theirs' = file /\ raced' = FALSE
    /\ UNCHANGED <<file, handle, others>>

\* isatty: r = Fseek(1, handle, SEEK_SET).
One ==
    /\ op.next = "one"
    /\ op' = [op EXCEPT !.size = Fseek(1, "SEEK_SET"), !.next = "back"]
    /\ handle' = At(Fseek(1, "SEEK_SET"))
    /\ UNCHANGED <<file, told, held, theirs, raced, others>>

\* The size; fstat reads a byte when there is one.
End ==
    /\ op.next = "end"
    /\ LET size == Fseek(0, "SEEK_END")
       IN  /\ op' = [op EXCEPT !.size = size,
                               !.next = IF op.f = "fstat" /\ size > 0 THEN "first" ELSE "back"]
           /\ handle' = At(size)
    /\ UNCHANGED <<file, told, held, theirs, raced, others>>

\* Fseek(0, handle, SEEK_SET) and Fread(handle, 1, &byte).
First ==
    /\ op.next = "first"
    /\ op' = IF Fread(0, 1) = 1 THEN [op EXCEPT !.byte = file[1], !.next = "again"]
             ELSE [op EXCEPT !.next = "back"]
    /\ handle' = [handle EXCEPT !.pos = Max({0, Fread(0, 1)})]
    /\ UNCHANGED <<file, told, held, theirs, raced, others>>

\* A slip: the byte goes where the position is after the read.
Again_Behind ==
    /\ op.next = "again"
    /\ op' = [op EXCEPT !.w = Fwrite(1) = 1, !.next = IF op.size > 1 THEN "magic" ELSE "back"]
    /\ handle' = [handle EXCEPT !.pos = 1]
    /\ file' = IF Fwrite(1) = 1 /\ Len(file) \in 1 .. MaxSize - 1
               THEN Written(file, 1, <<op.byte>>) ELSE file
    /\ held' = held \cup {file'}
    /\ UNCHANGED <<told, theirs, raced, others>>

\* Fseek(0, handle, SEEK_SET) and Fwrite(handle, 1, &byte): whether it can be written.
Again ==
    /\ op.next = "again"
    /\ op' = [op EXCEPT !.w = Fwrite(1) = 1, !.next = IF op.size > 1 THEN "magic" ELSE "back"]
    /\ handle' = [handle EXCEPT !.pos = IF Fwrite(1) = 1 THEN 1 ELSE 0]
    /\ file' = IF Fwrite(1) = 1 THEN Written(file, 0, <<op.byte>>) ELSE file
    /\ held' = held \cup {file'}
    /\ UNCHANGED <<told, theirs, raced, others>>

\* Fseek(0, handle, SEEK_SET) and Fread(handle, sizeof(magic), &magic).
ReadMagic ==
    /\ op.next = "magic"
    /\ op' = [op EXCEPT !.x = Fread(0, 2) = 2 /\ SubSeq(file, 1, 2) = Magic, !.next = "back"]
    /\ handle' = [handle EXCEPT !.pos = Fread(0, 2)]
    /\ UNCHANGED <<file, told, held, theirs, raced, others>>

\* A slip: what Fseek was asked last is put back in place of what was found first.
Back_Size ==
    /\ op.next = "back"
    /\ handle' = At(Fseek(op.size, "SEEK_SET"))
    /\ told' = [f |-> op.f, code |-> 0, errno |-> 0, size |-> op.size, w |-> op.w, x |-> op.x]
    /\ op' = Idle
    /\ UNCHANGED <<file, held, theirs, raced, others>>

\* The position is put back, whatever Fseek says to it, and the call returns.
Back ==
    /\ op.next = "back"
    /\ handle' = At(Fseek(op.pos, "SEEK_SET"))
    /\ told' = [f |-> op.f, errno |-> 0, size |-> op.size, w |-> op.w, x |-> op.x,
                code |-> IF op.f = "isatty" THEN IF op.size = 0 THEN 1 ELSE 0
                         ELSE IF op.f = "filelength" THEN op.size ELSE 0]
    /\ op' = Idle
    /\ UNCHANGED <<file, held, theirs, raced, others>>

\* The other process writes over the first byte, makes the file longer or shorter.
OtherChanges(f) ==
    /\ others < Others /\ handle.kind = "file"
    /\ f # file
    /\ file' = f
    /\ theirs' = IF theirs = file THEN f ELSE theirs
    /\ held' = IF Free THEN held ELSE held \cup {f}
    /\ raced' = (raced \/ (op.next = "again" /\ (f = <<>> \/ f[1] # op.byte)))
    /\ others' = others + 1
    /\ UNCHANGED <<handle, op, told>>

HandlesInit ==
    /\ file \in Contents
    /\ handle \in [kind : {"file"}, access : Accesses, pos : {0, Len(file)}]
              \cup [kind : {"tty"}, access : {"RDWR"}, pos : {0}]
    /\ op = Idle /\ told = Tells("none", 0, 0)
    /\ held = {file} /\ theirs = file /\ raced = FALSE /\ others = 0

Asking == One \/ End \/ First \/ Again \/ ReadMagic \/ Back

HandlesNext ==
    \/ \E n \in 1 .. 2 : read(n)
    \/ \E bytes \in Pieces : write(bytes)
    \/ \E offset \in -1 .. 1, whence \in Whence : lseek(offset, whence)
    \/ close \/ getftime
    \/ \E f \in {"filelength", "fstat", "isatty"} : Begin(f)
    \/ Asking
    \/ \E b \in Bytes : file # <<>> /\ OtherChanges([file EXCEPT ![1] = b])
    \/ \E b \in Bytes : Len(file) < MaxSize /\ OtherChanges(Append(file, b))
    \/ \E n \in 0 .. Len(file) - 1 : OtherChanges(SubSeq(file, 1, n))

-----------------------------------------------------------------------------

HandlesTypeOK ==
    /\ file \in Seq(Bytes) /\ Len(file) <= MaxSize
    /\ handle.kind \in Kinds /\ handle.access \in Accesses /\ handle.pos \in 0 .. MaxSize
    /\ op.f \in {"none", "filelength", "fstat", "isatty"}

Lengths == {Len(f) : f \in held}
Executable(f) == Len(f) >= 2 /\ SubSeq(f, 1, 2) = Magic

\* What isatty, filelength and fstat tell was true at some time during the call, and
\* is just true when nothing has changed: but fstat takes a file that is empty, or that
\* cannot be read, for one that cannot be written either.
ToldWasTrue ==
    Free =>
    /\ told.f = "isatty" => (told.code = 1) = (handle.kind = "tty")
    /\ told.f \in {"filelength", "fstat"} /\ handle.kind = "file" => told.size \in Lengths
    /\ told.f = "fstat" /\ handle.kind = "file" =>
         /\ told.x => \E f \in held : Executable(f)
         /\ told.w => handle.access = "RDWR"
         /\ handle.access = "RDWR" /\ <<>> \notin held => told.w
         /\ handle.access # "WRONLY" /\ (\A f \in held : Executable(f)) => told.x

\* The call leaves the file to what others make of it, if no one changes its first byte
\* or takes it away between the two calls in which fstat reads and writes it.
LeavesTheBytes == raced \/ file = theirs

\* After each of them the position is the one that was found, unless the file does not
\* reach that far any more.
KeepsPlace ==
    [][op # Idle /\ op' = Idle /\ handle.kind = "file" /\ op.pos <= Len(file)
         => handle'.pos = op.pos]_handleVars
=============================================================================
