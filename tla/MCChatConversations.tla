------------------------ MODULE MCChatConversations ------------------------
(* Instances of ChatConversations. *)
EXTENDS ChatConversations, TLC

CONSTANTS u1, u2, u3, c1, c2, q1, q2, q3, q4

MCSymmetry == Permutations(Requests) \cup Permutations(Conversations)
=============================================================================
