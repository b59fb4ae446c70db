--------------------------- MODULE MCSmokeCleanup ---------------------------
(* SmokeCleanup with the launched command, a helper it forked, and two      *)
(* processes of the desktop, one started by the other.                      *)
EXTENDS SmokeCleanup

CONSTANTS cmd, helper, manager, panel, init

MCProcs    == {cmd, helper, manager, panel}
MCDesktop  == {manager, panel}
MCParents  == [p \in MCDesktop |-> IF p = panel THEN manager ELSE init]
(* The helper's window accessible only, the manager's on X11 only, the      *)
(* panel's both; or a session without accessibility.                        *)
MCMixed    == [atspi |-> {helper, panel}, x11 |-> {manager, panel}]
MCX11Only  == [atspi |-> {}, x11 |-> {helper, manager}]
MCDisplays == {MCMixed, MCX11Only}
MCFaults   == {"overrun", "refusal", "xprop"}

=============================================================================
