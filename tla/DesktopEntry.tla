---------------------------- MODULE DesktopEntry ----------------------------
(***************************************************************************)
(* A .desktop file of the ISO, what the guest's launcher reads from it and *)
(* what it is worth to the application smoke test.  A file is a record of  *)
(* the keys that decide anything:                                          *)
(*   readable  the test user may open it     type      Type=               *)
(*   hidden    Hidden=true                   terminal  Terminal=true       *)
(*   tryExec   "none", "present", "missing"  launch    "exec", "dbus" or "none" *)
(*   onlyShowIn, notShowIn   sets of desktops                              *)
(*   binary    the command the launch runs, "orca" when it is Orca         *)
(***************************************************************************)
EXTENDS Naturals, Sequences

CONSTANTS
  CurrentDesktop,   \* XDG_CURRENT_DESKTOP: names in order of preference
  HasGio            \* whether gio is installed

ASSUME HasGioAssumption == HasGio \in BOOLEAN

(* An entry that cannot be opened becomes one with nothing launchable.      *)
ParseDesktopEntry(file) ==
  IF file.readable THEN file
  ELSE [file EXCEPT !.type = "", !.hidden = FALSE, !.terminal = FALSE, !.tryExec = "none",
                    !.launch = "none", !.onlyShowIn = {}, !.notShowIn = {}]

(* The entry cannot be launched (skip_reason).                              *)
Unlaunchable(entry) ==
  \/ entry.type # "Application"
  \/ entry.hidden
  \/ entry.tryExec = "missing"
  \/ entry.launch = "none"
  \/ entry.launch = "dbus" /\ ~HasGio

(* The first name of the current desktop that either list holds decides.    *)
Shown(entry) ==
  LET Named(i) == CurrentDesktop[i] \in entry.onlyShowIn \union entry.notShowIn
      Deciding == {i \in DOMAIN CurrentDesktop :
                     Named(i) /\ \A j \in 1..(i - 1) : ~Named(j)}
  IN IF Deciding = {} THEN entry.onlyShowIn = {}
     ELSE \A i \in Deciding : CurrentDesktop[i] \in entry.onlyShowIn

(* The entry is outside this test (not_applicable_reason), whether it could *)
(* be launched or not.                                                      *)
OutsideSession(entry) ==
  \/ entry.hidden
  \/ entry.type \in {"Link", "Directory"}
  \/ ~Shown(entry)
  \/ entry.tryExec = "missing"
  \/ entry.terminal

(* Orca has no window of its own; the binary is known of an entry that can  *)
(* be launched.                                                             *)
NotApplicable(entry) ==
  \/ OutsideSession(entry)
  \/ ~Unlaunchable(entry) /\ entry.binary = "orca"

=============================================================================
