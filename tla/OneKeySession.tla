---------------------------- MODULE OneKeySession ---------------------------
(***************************************************************************)
(* What one application smoke test promises, without saying how: a window  *)
(* is proven at most once, the close shortcut is sent at most once and     *)
(* only for a proven window, and only a session whose shortcut was sent    *)
(* can pass.  A proof may come after the verdict: the user did not wait.    *)
(***************************************************************************)
EXTENDS Naturals

VARIABLES
  proven,   \* a window with useful content was proven
  keys,     \* close shortcuts sent
  verdict

vars == <<proven, keys, verdict>>

Init == proven = FALSE /\ keys = 0 /\ verdict = "pending"

Prove ==
  /\ ~proven
  /\ proven' = TRUE
  /\ UNCHANGED <<keys, verdict>>

Key ==
  /\ proven /\ keys = 0 /\ verdict = "pending"
  /\ keys' = 1
  /\ UNCHANGED <<proven, verdict>>

Pass ==
  /\ keys = 1 /\ verdict = "pending"
  /\ verdict' = "passed"
  /\ UNCHANGED <<proven, keys>>

Fail ==
  /\ verdict = "pending"
  /\ verdict' = "failed"
  /\ UNCHANGED <<proven, keys>>

Next == Prove \/ Key \/ Pass \/ Fail

Spec == Init /\ [][Next]_vars

=============================================================================
