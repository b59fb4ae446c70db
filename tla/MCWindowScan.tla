---------------------------- MODULE MCWindowScan ----------------------------
(* WindowScan with two owned applications and a foreign one; the target has *)
(* one sibling, the other owned application publishes no window.            *)
EXTENDS WindowScan

CONSTANTS mainApp, helper, shell, t, s, noApp

MCApps    == {mainApp, helper, shell}
MCOwned   == {mainApp, helper}
MCWindows == {t, s}
MCOwnerOf == [w \in MCWindows |-> mainApp]

=============================================================================
