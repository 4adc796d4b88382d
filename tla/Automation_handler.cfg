\* One event, an action of every kind, an edit of the workspace, a tick, a restart.
SPECIFICATION AFairSpec
CONSTANTS
  OneTime = OneTime
  t1 = t1
  t2 = t2
  p1 = p1
  w1 = w1
  e1 = e1
  e2 = e2
  Ids <- MCIds
  Events = {e1}
  Actions = {2, 3, 4}
  Ticks = {t1}
  Patchers = {}
  PatchStatuses = {}
  Editors = {w1}
  Times <- MCTimes
  Task <- MCTask
  Recurrence <- MCRecurrence
  Kind <- MCKind
  TriggerEvent <- MCTriggerEvent
  ScheduleType <- MCScheduleType
  Time <- MCTime
  MaxNow = 1
  MaxFaults = 0
  MaxCrashes = 1
  MaxRejections = 1
INVARIANTS OneEffectPerEvent
PROPERTIES Spec EveryActionHasItsTurn
CHECK_DEADLOCK FALSE
