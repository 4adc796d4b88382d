\* Three requests on two records, a user who leaves, a rejected call, a restart.
SPECIFICATION RSpec
CONSTANTS
  r1 = r1
  r2 = r2
  u1 = u1
  q1 = q1
  q2 = q2
  q3 = q3
  None = None
  Unsent = Unsent
  Bad = Bad
  Unborn = Unborn
  Absent = Absent
  Records = {r1, r2}
  Existing = {r1}
  Users = {u1}
  Fields <- MCFields
  UserFields <- MCUserFields
  Requests = {q1, q2, q3}
  Bodies <- MCBodies
  MaxFaults = 1
  MaxCrashes = 1
SYMMETRY MCSymmetry
INVARIANTS RInv ReadsAgree OneRelationPerField LastEventIsRow
PROPERTIES EventOrder
CHECK_DEADLOCK FALSE
