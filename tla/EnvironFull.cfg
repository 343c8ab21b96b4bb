\* The memory for a string runs out also behind a realloc that has moved the array.
SPECIFICATION Spec
CONSTANTS
    Blocks = {b1, b2}
    NULL = NULL
    Unset = Unset
    Names = {"PATH", "TZ", "HOME"}
    Values = {"x", "y"}
    MaxGiven = 2
    MaxEntries = 3
    FailsAfterMove = TRUE
    MayReset = FALSE
INVARIANTS
    EnvironValid
