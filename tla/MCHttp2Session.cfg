CONSTANTS
    Streams = {s1, s2, s3}
    NoStream = NoStream
    MaxFields = 2
    MaxBytes = 3
    HeaderSizes = {1, 2}
    MaxPendingResets = 2
    Chunk = 1
    MaxGeneration = 2
SPECIFICATION Spec
INVARIANTS NoRejectionLost ReportsExact
SYMMETRY Symmetry
