\* A one-time row and one of period zero in one queue, two ticks, a PATCH, a fault.
SPECIFICATION Spec
CONSTANTS
  OneTime = OneTime
  t1 = t1
  t2 = t2
  t3 = t3
  p1 = p1
  p2 = p2
  Ids = {"once", "always"}
  Ticks = {t1, t2}
  Patchers = {p1}
  PatchStatuses = {"pending", "executed"}
  Times <- MCTimes
  Task <- MCTask
  Recurrence <- MCRecurrence
  MaxNow = 1
  MaxFaults = 1
  MaxCrashes = 1
SYMMETRY MCSymmetry
INVARIANTS IInv AtMostOnce StatusExplained
PROPERTIES FinalStays
CHECK_DEADLOCK FALSE
