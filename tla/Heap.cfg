\* Headers of two units, hunks of 12 or 24: the one large request fills a hunk.
CONSTANTS
    Top = 36
    HeaderSize = 2
    SizeTSize = 1
    Alignment = 2
    PageSize = 12
    InitMinHunk = 12
    InitMaxHunk = 24
    SizeLimit = 256
    Requests = {0, 3, 6}
    ChunkSizes = {12}
    Places = {1, 13, 25}
    MaxLive = 3
SPECIFICATION Spec
INVARIANTS
    HeapSound
    FreeIsFound
PROPERTIES
    GrowsOnlyWhenFull
    ImplementsAllocator
