SPECIFICATION Spec
CONSTANTS
    UMax = 31
    SMax = 15
    Ppm = 10
    PercentPpm = 10
    FractionDigits = 1
    Resamples = 2
    Slots = {"baseline", "candidate"}
    Machines <- MCMachines
    CommandLines <- MCCommandLines
    Workload = 1
    MaximumIntervals = 2
    MaximumWarmups = 1
    OperationsPerInterval = 2
    NanosecondsPerSecond = 5
    Readings <- MCReadings
    Schema = "v1"
    MinimumSamples = 2
    MaximumSamples = 2
    MaximumRules = 2
    Manifests <- MCManifests
    IntervalSizes = {1, 2, 39, 40, 41, 80, 81}
    MaximumNodes = 6
    MaximumMembers = 3
    MaximumElements = 3
    MaximumDepth = 2
INVARIANTS
    ArithmeticExact
    ReaderExact
    ReportFaithful
    VerdictSound
CHECK_DEADLOCK FALSE
