SPECIFICATION Spec
CONSTANTS
    Clients = {c1, c2, c3}
    MaxManagers = 2
    Outcomes = {"AVAILABLE", "FAILED", "UNAVAILABLE"}
CHECK_DEADLOCK FALSE
INVARIANTS
    CalledOnce
    SharedManager
PROPERTIES
    HolderIsCalled
