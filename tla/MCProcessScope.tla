--------------------------- MODULE MCProcessScope ---------------------------
(* ProcessScope with a root that may fork two helpers, and the shell.       *)
EXTENDS ProcessScope, TLC

CONSTANTS root, shell, p1, p2, init

MCPids     == {root, shell, p1, p2}
MCOneHelper == {root, shell, p1}
MCSymmetry == Permutations({p1, p2})

=============================================================================
