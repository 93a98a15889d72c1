SPECIFICATION FairSpec
CONSTANTS
    d1 = d1
    d2 = d2
    d3 = d3
    a1 = a1
    a2 = a2
    Deferred = {d1, d2, d3}
    Async = {a1, a2}
    Adder <- MCAdder
INVARIANTS
    StartedInOrder
    QuietAfterShutdown
PROPERTIES
    ShutdownReturns
    TaskStarts
