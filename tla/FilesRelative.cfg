\* A stream opened by a name relative to a directory that is not the root, with enough memory.
SPECIFICATION FilesSpec
CONSTANTS
    Streams = {d1}
    Tree <- DeepTree
    Names <- RelativeNames
    NULL = NULL
    Shared = {TRUE}
    MaxFiles = 4
    MayFail = FALSE
    Contents <- MCContents
    MaxSize = 2
    Others = 2
    Pieces <- MCPieces
    Mounted = {"A", "B"}
    Paths <- MCPaths
    Missing <- MCMissing
    Sizes = {0, 2, 3, 4, 5, 6, 7}
CHECK_DEADLOCK FALSE
PROPERTIES
    DirnameLeadsBack
