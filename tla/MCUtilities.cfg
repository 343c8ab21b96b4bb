\* A multiplier and a modulus that meet the condition of Schrage (Q = 12, R = 7); jars
\* of up to three cookies, two of them of one name.  The functions return and stop.
SPECIFICATION UtilitiesSpec
CONSTANTS
    Num = 19
    Base <- MCBase
    Keys <- MCKeys
    A = 17
    M = 211
    Seeds = {1, 2, 11, 12, 13, 42, 209, 210}
    Inputs <- MCInputs
    Names = {1, 2}
    Values = {0, 7}
    Room = 4
    Top = 156
    Pieces <- MCPieces
    Moves <- MCMoves
    Uses <- MCUses
    TokenTexts <- MCTokenTexts
    Delim = {",", ";"}
    ByteBits = 3
    Memories <- MCMemories
    Wanted = {0, 1, 4, 7}
    Machines <- MCMachines
    Features = {"NF_NAME", "NF_VERSION", "NF_STDERR", "NF_SHUTDOWN"}
    Modes = {0, 1}
    Results = {0, 5}
    Garbage = {0, 7}
    Half = 64
    CLOCKS_PER_SEC = 5
    Counts = {0, 40, 63, 64, 120, 127}
    Waits <- MCWaits
    MaxLate = 3
CHECK_DEADLOCK FALSE
INVARIANTS
    InBounds
    Sorted
    SearchSound
    SearchesAnswer
    MovesWhole
    TokensInOrder
    NearTheMachine
PROPERTIES
    RandIsExact
    AllReturn
