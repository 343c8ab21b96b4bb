\* Two FILEs and two handles: the program's own handles can use up the table while
\* a FILE is free.  The paths are told apart, so nothing is symmetric but the FILEs,
\* and fcloseall's liveness forbids a symmetry set.
SPECIFICATION Spec
CONSTANTS
    NULL = NULL
    OnMiNT = TRUE
    Files = {f1, f2}
    Paths = {"log", "rom"}
    ReadOnly = {"rom"}
    Handles = {6, 7}
    Letters = {"r", "w", "a"}
    ModeFlags = {"+"}
INVARIANTS
    StreamsSound
PROPERTIES
    OpensAsAsked
    FcloseallEnds
