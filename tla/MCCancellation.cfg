CONSTANTS
    States = {a, b}
    NoState = NoState
    Writers = {w1, w2}
    Observers = {o1}
    MaxDepth = 1
    Deadlines = {1}
    MaxTime = 1
SPECIFICATION Spec
SYMMETRY Symmetry
INVARIANTS CallersAgree NoMissedCancellation ReportsAreReal
