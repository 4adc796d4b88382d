SPECIFICATION SvSpec
CONSTANTS
  u1 = u1
  u2 = u2
  i1 = i1
  i2 = i2
  q1 = q1
  q2 = q2
  q3 = q3
  None = None
  Users = {u1, u2}
  Ids = {i1, i2}
  Owner <- MCOwner
  Stored = {i1}
  Requests = {q1, q2, q3}
  Endpoints = {e1}
  PageSize = 1
  MaxFaults = 1
SYMMETRY MCSymmetry
INVARIANTS SvTypeOK NothingMissed RowsHaveObjects EndpointHasHolder SubscribersAreReached RegistryIsLive OneConnection
PROPERTIES RowsEditedAtomically OrphansStay
CHECK_DEADLOCK FALSE
