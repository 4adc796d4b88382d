----------------------------- MODULE MCAccounts -----------------------------
(* Instances of Accounts: one user is there, another may register. *)
EXTENDS Accounts, TLC

CONSTANTS u1, u2, m1, m2, q1, q2, q3, q4

MCEmail == [u \in Users |-> m1]

MCSymmetry == Permutations(Requests)
=============================================================================
