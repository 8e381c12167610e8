CONSTANTS
    InitialCapacity = 4
    MaximumCapacity = 13
    BudgetLimit = 13
    MaxGeneration = 3
    MaxPins = 2
    Sizes = {0, 1}
    Alignments = {1, 2}
    s1 = s1
    s2 = s2
    p1 = p1
    p2 = p2
    Holders <- MCHolders
    Sessions <- MCSessions
    OtherSizes = {7}
    MaxViews = 2
    HeaderSize = 2
    NativeAlignment = 2
    NativeSizes = {0, 2}
    MaxBlocks = 2
SPECIFICATION NativeSpec
INVARIANTS SessionMemoryIntact NoPinLeaked NoAliasing NoBlockLost
PROPERTY PinnedStays
SYMMETRY Symmetry
