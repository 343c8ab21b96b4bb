------------------------------- MODULE Files -------------------------------
(***************************************************************************)
(* The functions on files and directories: directory streams and searches   *)
(* (Directories), open, remove and unlink (Open), what is done with a       *)
(* handle (Handles), and the current directories (Drives).  They share no   *)
(* state of the library; a program uses one of them.                        *)
(***************************************************************************)
EXTENDS Integers

CONSTANTS
    Streams, Tree, Names, NULL,             \* of Directories
    Shared, MaxFiles,                       \* of Open
    MayFail,                                \* of both
    Contents, MaxSize, Others, Pieces,      \* of Handles
    Mounted, Paths, Missing, Sizes          \* of Drives

VARIABLES
    used,       \* what is used
    dir, dta, search, cwd, seen, told, arrived, ret,
    mint, name, last, iomode, pc, handles, made, emptied, removed, result,
    bytes, handle, op, answer, held, theirs, raced, others,
    drive, path, saved, buffer, returned

Dirs == INSTANCE Directories
Opn == INSTANCE Open WITH file <- name, ret <- result
Hdl == INSTANCE Handles WITH file <- bytes, told <- answer
Cwd == INSTANCE Drives

ASSUME FilesAssumption ==
    /\ Dirs!DirectoriesAssumption /\ Opn!OpenAssumption
    /\ Hdl!HandlesAssumption /\ Cwd!DrivesAssumption

dirVars == <<dir, dta, search, cwd, seen, told, arrived, ret>>
openVars == <<mint, name, last, iomode, pc, handles, made, emptied, removed, result>>
handleVars == <<bytes, handle, op, answer, held, theirs, raced, others>>
driveVars == <<drive, path, saved, buffer, returned>>
fileVars == <<used, dirVars, openVars, handleVars, driveVars>>

\* What is not used stands in one of its initial states.
DirsIdle == cwd = <<>> /\ Dirs!Init
OpenIdle ==
    /\ mint = TRUE /\ name = Opn!None
    /\ iomode = [call |-> "unlink", access |-> "RDONLY", flags |-> {}, slash |-> FALSE]
    /\ Opn!Init
HandlesIdle == bytes = <<>> /\ handle = [kind |-> "tty", access |-> "RDWR", pos |-> 0] /\ Hdl!HandlesInit
DrivesIdle == drive = (CHOOSE d \in Mounted : TRUE) /\ Cwd!DrivesInit

FilesInit ==
    \/ used = "directories" /\ Dirs!Init /\ OpenIdle /\ HandlesIdle /\ DrivesIdle
    \/ used = "names" /\ DirsIdle /\ Opn!Init /\ HandlesIdle /\ DrivesIdle
    \/ used = "handle" /\ DirsIdle /\ OpenIdle /\ Hdl!HandlesInit /\ DrivesIdle
    \/ used = "drives" /\ DirsIdle /\ OpenIdle /\ HandlesIdle /\ Cwd!DrivesInit

DirStep == used = "directories" /\ Dirs!Next /\ UNCHANGED <<used, openVars, handleVars, driveVars>>

NameStep ==
    /\ used = "names" /\ (Opn!Call \/ Opn!OtherCreates \/ Opn!OtherDeletes)
    /\ UNCHANGED <<used, mint, dirVars, handleVars, driveVars>>

\* open, remove or unlink goes on.
CallStep ==
    used = "names" /\ Opn!Call /\ UNCHANGED <<used, mint, dirVars, handleVars, driveVars>>

HandleStep ==
    used = "handle" /\ Hdl!HandlesNext /\ UNCHANGED <<used, dirVars, openVars, driveVars>>

DriveStep == used = "drives" /\ Cwd!DrivesNext /\ UNCHANGED <<used, dirVars, openVars, handleVars>>

FilesNext == DirStep \/ NameStep \/ HandleStep \/ DriveStep

\* open and remove are plain code, which goes on; nothing makes a program call.
FilesSpec == FilesInit /\ [][FilesNext]_fileVars /\ WF_fileVars(CallStep)

-----------------------------------------------------------------------------

\* Every search is in order, the streams' and the program's.
SearchesInOrder == used = "directories" => Dirs!SearchesInOrder

\* A telldir's place is found again in a directory opened by an absolute name, and a
\* position is put back.
SeekLeadsBack == Dirs!SeekLeadsBack /\ Hdl!KeepsPlace

\* A telldir's place is found again, by whatever name the directory was opened.
DirnameLeadsBack == Dirs!DirnameLeadsBack

\* open and remove do what they are asked for, and no handle is lost.
OpensAndRemoves == used = "names" => Opn!HandlesInOrder /\ Opn!OpensAndRemoves

\* What fstat and its kind tell of a file was true, and leaves the file as it was;
\* and what getcwd tells leads back.
TellsTheFile ==
    /\ used = "handle" => Hdl!HandlesTypeOK /\ Hdl!ToldWasTrue /\ Hdl!LeavesTheBytes
    /\ used = "drives" => Cwd!LeadsBack

\* open, remove and unlink return, whatever another process does.
Returns == (used = "names") ~> (pc = "done")
=============================================================================
