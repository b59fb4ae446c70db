-------------------------- MODULE MCProcessHandoff --------------------------
(* A wrapper that carries the token changes its user and executes the       *)
(* application, which gives the user up again.                              *)
EXTENDS ProcessHandoff, TLC

CONSTANTS p1, p2

MCStages == <<{"token"}, {"uid", "token"}, Fields, {"exe", "token"}>>

MCSymmetry == Permutations(Pids)

=============================================================================
