\* printf: formats of up to three items into every small size and into vsprintf's
\* memory; buf needs no more than the largest precision and two, or the largest
\* width.  A program has used its function, and the clock ends.
SPECIFICATION ConversionsSpec
CONSTANTS
    Literals = {"t"}
    Mixed <- MixedTest
    Alone <- SeparateTest
    Sizes = {0, 1, 2, 5, 100}
    Unbounded = 100
    MaxPrinted = 3
    PrintBuffer = 7
    WordSize = 4096
    DEFAULT_DIGITS_REMAINDER = 2
    MAX_DIGITS_REMAINDER = 3
    Widths = {0, 2, 6}
    Texts <- MCTexts
    Items <- MCItems
    MaxItems = 2
    BufferSize = 5
    LongSize = 65536
    LongLongSize = 262144
    IntSize = 8192
    HalfDigits = 2
    maxExponent = 7
    PowerCount = 3
    FloatTexts <- MCFloatTexts
    NumbersWritten <- MCNumbersWritten
    Radices = {2, 3, 8, 10, 16}
    NumberTexts <- MCNumberTexts
    Bases = {0, 2, 8, 10, 16}
    Zones <- MCZones
    TZ_STRLEN_MAX = 8
    Starts <- MCStarts
    Seconds <- MCSeconds
    AskedDays = 1
    Formats <- MCFormats
    StampSizes = {0, 5, 40}
CHECK_DEADLOCK FALSE
INVARIANTS
    WritesWhatFits
    FormatsLikeC
    ReadsLikeC
    ConvertsLikeC
PROPERTIES
    TellsTheTime
