SPECIFICATION Spec
CONSTANTS
    root = root
    child = child
    leaf = leaf
    emergency = emergency
    none = none
    nobody = nobody
    NoWorker = nobody
    r1 = r1
    r2 = r2
    r3 = r3
    w1 = w1
    w2 = w2
    Budgets <- MCBudgets
    NoBudget = none
    Parent <- MCParent
    Reservations <- MCReservations
    Workers <- MCWorkers
    SizeMax = 2
    Limits <- MCLimits
SYMMETRY Symmetry
INVARIANTS
    NoCounterFault
    CountersConserved
    WithinLimit
    NoDanglingBudget
    OneWorkerPerChain
CHECK_DEADLOCK FALSE
PROPERTY LedgerSpec
