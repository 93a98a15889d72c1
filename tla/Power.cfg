SPECIFICATION FairSpec
CONSTANTS
    loc = loc
    all = all
    Slaves = {loc}
    Machine <- MCMachine
    MaxRequests = 3
    MaxQueues = 2
CHECK_DEADLOCK FALSE
INVARIANTS
    FlagInWindow
    DownAsTold
PROPERTIES
    HaltedStaysUp
    TaskEnds
