CONSTANTS
    Capacity = 3
    Variables = {a, b}
    MaxNested = 3
SPECIFICATION SlabSpec
INVARIANTS SlotsPartitioned
