\* A pending row is executed after its action was deactivated.
SPECIFICATION ASpec
CONSTANTS
  OneTime = OneTime
  t1 = t1
  t2 = t2
  p1 = p1
  w1 = w1
  e1 = e1
  e2 = e2
  Ids <- MCIds
  Events = {e1}
  Actions = {3}
  Ticks = {t1}
  Patchers = {}
  PatchStatuses = {}
  Editors = {w1}
  Times <- MCTimes
  Task <- MCTask
  Recurrence <- MCRecurrence
  Kind <- MCKind
  TriggerEvent <- MCTriggerEvent
  ScheduleType <- MCScheduleType
  Time <- MCTime
  MaxNow = 3
  MaxFaults = 0
  MaxCrashes = 0
  MaxRejections = 1
PROPERTIES InactiveIsSkipped
CHECK_DEADLOCK FALSE
