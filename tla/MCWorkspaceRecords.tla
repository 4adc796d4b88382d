------------------------- MODULE MCWorkspaceRecords -------------------------
(* Instances of WorkspaceRecords: field 1 links a record, field 2 a user.    *)
EXTENDS WorkspaceRecords, TLC

CONSTANTS r1, r2, u1, q1, q2, q3

MCFields     == {1, 2}
MCUserFields == {2}

\* Both links, one link taken away, and a value that is no uuid.
MCBodies ==
  {<<r1, u1>>, <<Unsent, None>>, <<Bad, u1>>}

MCSymmetry == Permutations(Requests)
=============================================================================
