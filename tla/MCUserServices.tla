---------------------------- MODULE MCUserServices ----------------------------
(***************************************************************************)
(* Two users; the first has a row at the start and may get another.        *)
(***************************************************************************)
EXTENDS UserServices

CONSTANTS u1, u2, i1, i2, q1, q2, q3

MCOwner == (i1 :> u1) @@ (i2 :> u1)

MCSymmetry == Permutations(Requests)
=============================================================================
