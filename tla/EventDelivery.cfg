SPECIFICATION FairSpec
CHECK_DEADLOCK FALSE
CONSTANTS
  c1 = c1
  l1 = l1
  l2 = l2
  Clients = {c1}
  Listeners = {l1, l2}
  Filters = {"f", "g"}
  Owner <- MCOwner
  MaxEvents = 2
  MaxChanges = 3
INVARIANTS FiltersAgree HeardInOrder
PROPERTIES DueIsHeard
