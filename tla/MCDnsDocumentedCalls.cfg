CONSTANTS
    Capacity = 2
    Limit = 2
    Descriptors = {d1, d2, d3}
    MaxSockets = 2
    MaxToken = 2
    MaxInstance = 2
    MaxNesting = 2
SPECIFICATION Spec
INVARIANT SinkOnlyInDocumentedCalls
