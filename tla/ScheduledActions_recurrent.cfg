\* A recurrent row under overlapping ticks, a PATCH, faults and a restart; due
\* rows are processed under the fairness of timers and awaits.
SPECIFICATION FairSpec
CONSTANTS
  OneTime = OneTime
  t1 = t1
  t2 = t2
  t3 = t3
  p1 = p1
  p2 = p2
  Ids = {"every"}
  Ticks = {t1, t2}
  Patchers = {p1}
  PatchStatuses = {"pending", "executed"}
  Times <- MCTimes
  Task <- MCTask
  Recurrence <- MCRecurrence
  MaxNow = 3
  MaxFaults = 1
  MaxCrashes = 1
INVARIANTS TicksSpaced
PROPERTIES ScheduleAdvances DueIsProcessed
CHECK_DEADLOCK FALSE
