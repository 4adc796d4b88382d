SPECIFICATION USpec
CONSTANTS
  u1 = u1
  u2 = u2
  m1 = m1
  m2 = m2
  q1 = q1
  q2 = q2
  q3 = q3
  q4 = q4
  None = None
  Users = {u1, u2}
  Existing = {u1}
  Emails = {m1, m2}
  Email <- MCEmail
  Requests = {q1, q2, q3, q4}
  MaxFaults = 1
SYMMETRY MCSymmetry
INVARIANTS UInv NoLostUpdate ResetHitsOwner
PROPERTIES RemovedStaysRemoved EditsAreAtomic
CHECK_DEADLOCK FALSE
