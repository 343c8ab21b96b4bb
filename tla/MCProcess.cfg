\* The four parts from all the states they may be entered in, and three programs followed
\* from their arguments to their options.  A program that has ended, or that main keeps, stops.
SPECIFICATION ProcessSpec
CONSTANTS
    Messages <- MCMessages
    Pads = {1, 4}
    Followed <- MCFollowed
    Asked <- MCAsked
    Image = 20
    Tpas <- MCTpas
    Sizes <- ModestSizes
    MinFree = 8
    MinKeep = 64
    Half = 512
    Lines <- AllLines
    Plain = {"a"}
    WithArg = {"b"}
    Functions = {"f", "g", "h"}
    Exiting = {"h"}
    MaxRegistered = 4
CHECK_DEADLOCK FALSE
INVARIANTS
    CallerUnderstood
    StaysInBuffer
    StackFits
    LineReported
    AllHaveRun
PROPERTIES
    PartsEnd
