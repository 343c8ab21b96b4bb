\* Text output: a buffer of three characters, so that calls of up to four take one, two
\* or three bufferfuls, and programs that write up to five.  A disk that may fill up:
\* every write may be short or fail, or go through.
\* Text input: one stream, text, binary or the console, with read errors.
SPECIFICATION StdioSpec
CONSTANTS
    Streams = {s1}
    Pushed = {"a", "CR", "LF"}
    Lengths = {0, 1, 2, 3}
    Sizes = {1, 2, 3}
    MayFail = TRUE
    FreadAnyTime = FALSE
    BUFSIZE = 3
    DataLengths = {2, 3, 4}
    TextLengths = {2, 3}
    MaxSent = 5
    Faults = {"short", "error"}
CHECK_DEADLOCK FALSE
INVARIANTS
    InputSound
    OutputSound
PROPERTIES
    ReadsFromPlace
    CountsTell
