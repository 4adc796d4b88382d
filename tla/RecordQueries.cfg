\* Six queries beside two writing requests on two records.
SPECIFICATION QSpec
CONSTANTS
  r1 = r1
  r2 = r2
  u1 = u1
  q1 = q1
  q2 = q2
  None = None
  Unsent = Unsent
  Bad = Bad
  Unborn = Unborn
  Absent = Absent
  Records = {r1, r2}
  Existing = {r1}
  Users = {u1}
  Fields <- MCFields
  UserFields <- MCUserFields
  Requests = {q1, q2}
  Bodies <- MCBodies
  Queries <- MCQueries
  MaxFaults = 1
  MaxCrashes = 0
SYMMETRY MCSymmetry
INVARIANTS QuietAnswerIsExact AnswersHappened
CHECK_DEADLOCK FALSE
