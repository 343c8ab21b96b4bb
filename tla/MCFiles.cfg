\* Two streams opened by absolute and relative names, with malloc and Fsnext that may fail; MiNT with
\* another process, and TOS, which runs one program.  open returns and the system stops.
SPECIFICATION FilesSpec
CONSTANTS
    Streams = {d1, d2}
    Tree <- MCTree
    Names <- MCNames
    NULL = NULL
    Shared = {TRUE}
    MaxFiles = 4
    MayFail = TRUE
    Contents <- MCContents
    MaxSize = 2
    Others = 2
    Pieces <- MCPieces
    Mounted = {"A", "B"}
    Paths <- MCPaths
    Missing <- MCMissing
    Sizes = {0, 2, 3, 4, 5, 6, 7}
CHECK_DEADLOCK FALSE
INVARIANTS
    SearchesInOrder
    OpensAndRemoves
    TellsTheFile
PROPERTIES
    SeekLeadsBack
    Returns
