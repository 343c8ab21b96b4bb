\* One call of each function.  It returns, and the system stops.
SPECIFICATION StringsSpec
CONSTANTS
    FarNumbers = {400, 1000000000}
    Sizes = {0, 1, 2, 14, 15, 25, 60}
    Alphabets = {{65, 97}, {97, 98}, {97, 132}}
    TextLength = 3
    PathBytes = {47, 58, 92, 97}
    PathLength = 5
    Bounds = {0, 1, 2, 3, 4, 5, 7}
    LongMax = 6
    Room = 8
    Junk = 97
CHECK_DEADLOCK FALSE
INVARIANTS
    StringsLikeC
    TablesTell
