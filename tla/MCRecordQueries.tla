---------------------------- MODULE MCRecordQueries ----------------------------
(* Instances of RecordQueries: field 1 links a record, field 2 a user.       *)
EXTENDS RecordQueries

CONSTANTS r1, r2, u1, q1, q2

MCFields     == {1, 2}
MCUserFields == {2}

\* Both links, and one link taken away.
MCBodies == {<<r1, u1>>, <<r2, Unsent>>, <<None, u1>>}

All ==
  [action |-> "getAll", record |-> r1, operator |-> "any", field |-> 1, value |-> r1,
   page |-> 1, limit |-> 2, include |-> {}, additional |-> FALSE]

MCQueries ==
  {[All EXCEPT !.include = MCFields],
   [All EXCEPT !.operator = "equals", !.include = {1}, !.additional = TRUE],
   [All EXCEPT !.operator = "not_equals", !.limit = 1, !.page = 2],
   [All EXCEPT !.operator = "greater_than", !.limit = 1],
   [All EXCEPT !.action = "count", !.operator = "equals"],
   [All EXCEPT !.action = "get", !.include = {1}, !.additional = TRUE]}

MCSymmetry == Permutations(Requests)
=============================================================================
