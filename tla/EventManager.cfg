SPECIFICATION EMFairSpec
CONSTANTS
    MaxEvents = 3
    Triggers <- MCTriggers
CHECK_DEADLOCK FALSE
INVARIANTS
    AnswerIsForHead
    AnsweredOnce
    LatestWins
    LockGivenBack
PROPERTIES
    EventAnswered
