\* realloc may fail, extend or move; a string may find no memory, but not behind an array
\* that has moved; the program may set environ back to the array it was started with.
SPECIFICATION Spec
CONSTANTS
    Blocks = {b1, b2}
    NULL = NULL
    Unset = Unset
    Names = {"PATH", "TZ"}
    Values = {"x", "y"}
    MaxGiven = 3
    MaxEntries = 4
    FailsAfterMove = FALSE
    MayReset = TRUE
INVARIANTS
    EnvironSound
PROPERTIES
    ImplementsEnvironment
