SPECIFICATION CSpec
CONSTANTS
  u1 = u1
  u2 = u2
  u3 = u3
  c1 = c1
  c2 = c2
  q1 = q1
  q2 = q2
  q3 = q3
  q4 = q4
  Nobody = Nobody
  Users = {u1, u2, u3}
  Admins = {u2}
  Conversations = {c1}
  Requests = {q1, q2, q3, q4}
  MaxFaults = 1
SYMMETRY MCSymmetry
PROPERTIES DeletedStaysDeleted
CHECK_DEADLOCK FALSE
INVARIANTS CTypeOK SenderParticipates AnsweredIsKept
