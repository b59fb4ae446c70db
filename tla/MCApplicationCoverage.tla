----------------------- MODULE MCApplicationCoverage -----------------------
(* Two shards, three entries: an application, its alias and a dialog.       *)
EXTENDS ApplicationCoverage, TLC

CONSTANTS app, twin, dialog, s0, s1, none

MCIds     == {app, twin, dialog}
MCJobs    == {s0, s1}
MCDigest  == (app :> 4) @@ (twin :> 7) @@ (dialog :> 3)
MCCtrlQ   == {dialog}
MCLacking == {"video-device"}
MCDesktop == <<"X-Big", "KDE">>

Plain    == [readable |-> TRUE, type |-> "Application", hidden |-> FALSE, terminal |-> FALSE,
             tryExec |-> "none", launch |-> "exec", onlyShowIn |-> {}, notShowIn |-> {},
             binary |-> "other"]
Hidden   == [Plain EXCEPT !.hidden = TRUE]
Locked   == [Plain EXCEPT !.readable = FALSE]
Broken   == [Plain EXCEPT !.launch = "none"]
Foreign  == [Plain EXCEPT !.onlyShowIn = {"GNOME"}]
Ours     == [Plain EXCEPT !.onlyShowIn = {"KDE"}, !.notShowIn = {"GNOME"}]
Service  == [Plain EXCEPT !.binary = "orca"]
Optional == [Plain EXCEPT !.tryExec = "missing"]

(* What the first ISO ships; the second one ships the application alone.    *)
Contents(apps, aliases, dialogs) ==
  {("iso1" :> ((app :> a) @@ (twin :> b) @@ (dialog :> d)))
     @@ ("iso2" :> ((app :> Plain) @@ (twin :> none) @@ (dialog :> none))) :
     a \in apps, b \in aliases, d \in dialogs}

NoContracts == [id \in {} |-> none]
DialogKey(key, kind, exits, requires) ==
  dialog :> [kind |-> kind, closeKey |-> key, exits |-> exits, requires |-> requires]

MCPolicies ==
  {[excluded |-> {}, aliases |-> twin :> app, critical |-> {app},
    contracts |-> DialogKey("esc", "transient-dialog", none, {})],
   [excluded |-> {}, aliases |-> twin :> app, critical |-> {app},
    contracts |-> DialogKey("ctrl-q", "shared-window", {0}, {"video-device"})],
   [excluded |-> {app}, aliases |-> twin :> app, critical |-> {},
    contracts |-> NoContracts],
   [excluded |-> {dialog}, aliases |-> NoContracts, critical |-> {},
    contracts |-> DialogKey("esc", "standard", none, {})]}

Job(iso, commit, index, count, filter) ==
  [iso |-> iso, commit |-> commit, index |-> index, count |-> count, filter |-> filter]

(* The matrix as it is set up, and one thing wrong with its second job or   *)
(* with both.                                                               *)
Matrix(second) == (s0 :> Job("iso1", "head", 0, 2, MCIds)) @@ (s1 :> second)

Settings ==
  {Matrix(Job("iso1", "head", 1, 2, MCIds)),
   Matrix(Job("iso2", "head", 1, 2, MCIds)),
   Matrix(Job("iso1", "old", 1, 2, MCIds)),
   Matrix(Job("iso1", "head", 0, 2, MCIds)), Matrix(Job("iso1", "head", 1, 3, MCIds)),
   Matrix(Job("iso1", "head", 1, 2, {app})),
   (s0 :> Job("iso1", "head", 0, 2, {app})) @@ (s1 :> Job("iso1", "head", 1, 2, {app}))}

MCWorlds ==
  {[content |-> c, setting |-> s, policy |-> ("head" :> p) @@ ("old" :> p)] :
     c \in Contents({Plain, Broken}, {none, Plain, Hidden},
                    {none, Ours, Locked, Foreign, Optional, Service}),
     s \in Settings, p \in MCPolicies}

=============================================================================
