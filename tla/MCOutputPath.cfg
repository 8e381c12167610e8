CONSTANTS
    InitialCapacity = 2
    MaximumCapacity = 5
    BudgetLimit = 6
    OtherSizes = {0, 2}
    Blocks = {1, 2}
    MaxBytes = 5
    SliceCapacity = 2
    VectorCapacity = 2
SPECIFICATION OutputSpec
INVARIANTS ResourcesExact OutputInOrder
PROPERTIES RefinesByteQueue EverythingWritten
