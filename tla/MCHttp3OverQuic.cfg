CONSTANTS
    Streams = {"control", "request"}
    Control = "control"
    MaxBytes <- MCMaxBytes
    MaxFields = 2
    SectionLimit = 3
    HeaderLists <- MCHeaderLists
    QueueCapacity = 2
    MaxLost <- MCMaxLost
SPECIFICATION Spec
INVARIANTS FailuresReported CallerInformed RetransmissionBacked
PROPERTY DeadNotEntered
