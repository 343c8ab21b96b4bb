\* fread with a character pushed back.
SPECIFICATION Spec
CONSTANTS
    Streams = {s1}
    Pushed = {"a", "CR", "LF"}
    Lengths = {2, 3}
    Sizes = {1, 2, 3}
    MayFail = FALSE
    FreadAnyTime = TRUE
PROPERTIES
    PushedBackIsNext
