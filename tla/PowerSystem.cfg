SPECIFICATION SysFairSpec
CONSTANTS
    sl = sl
    Slaves = {sl}
    Machine <- MCMachine
    MaxRequests = 3
    MaxQueues = 2
    MaxEvents = 3
    Triggers <- MCTriggers
CHECK_DEADLOCK FALSE
INVARIANTS
    SucceededMeansDone
PROPERTIES
    ImplementsEventManager
    AnsweredUnlessReplaced
