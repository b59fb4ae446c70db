--------------------------- MODULE MCSmokeSession ---------------------------
(* SmokeSession with two windows that the probe may prove.                  *)
EXTENDS SmokeSession, TLC

CONSTANTS w1, w2, none

MCWindows    == {w1, w2}
MCIneligible == {}
(* Both close modes; a standard application with and without the wait for    *)
(* speech, with its windows its own and handed over.                        *)
MCContracts ==
  {[mode |-> "process-exit", speech |-> TRUE,  handsOver |-> FALSE],
   [mode |-> "process-exit", speech |-> FALSE, handsOver |-> TRUE],
   [mode |-> "window-close", speech |-> TRUE,  handsOver |-> TRUE]}

(* The contract with the most waits: Orca, and every process of the launch.  *)
MCLiveContracts ==
  {[mode |-> "process-exit", speech |-> TRUE, handsOver |-> TRUE]}

MCSymmetry   == Permutations({w1, w2})

=============================================================================
