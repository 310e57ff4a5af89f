--------------------------- MODULE MCAwaitMembers ---------------------------
(* Instances of AwaitMembers: one key, a few requests and watched members. *)
EXTENDS AwaitMembers, TLC

CONSTANTS q1, q2, m1

TwoReqs == {q1, q2}
OneMember == {m1}
Completed == {"completed"}

Symmetry == Permutations(TwoReqs)
=============================================================================
