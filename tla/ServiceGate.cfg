SPECIFICATION Spec
CONSTANT MaxChanges = 4
INVARIANTS
    LastCallbackDecides
