---------------------------- MODULE SmokeCleanup ----------------------------
(***************************************************************************)
(* What happens after an application was tested: the host kills the        *)
(* process groups it started and asks the probe to remove what is left     *)
(* (cleanup in openqa/lib/atspi.pm, cleanup_new_windows in                 *)
(* data/atspi_probe.py).  Processes have at most one window that the       *)
(* session baseline does not have; it is seen through AT-SPI, through X11, *)
(* or both.  The accessible windows are read application by application,   *)
(* by their index in the registry, and the X11 windows after them.         *)
(***************************************************************************)
EXTENDS Naturals, FiniteSets, SequencesExt, ProcessTree

CONSTANTS
  Procs,       \* processes of the launch and of the desktop
  Desktop,     \* those that ran when the session baseline was taken
  DesktopParent, \* their parents
  Launched,    \* the launched command; it leads the process group of the launch
  InitPid,     \* PID 1, or the manager that adopts the session's orphans
  Displays,    \* which processes' windows AT-SPI and X11 may list
  Faults       \* what may fail: the kill command overruns, a call of the probe
               \* is refused, xprop gives no answer

ASSUME ProcsAssumption ==
  /\ IsFiniteSet(Procs) /\ Desktop \subseteq Procs
  /\ Launched \in Procs \ Desktop /\ InitPid \notin Procs
  /\ DesktopParent \in [Desktop -> Desktop \union {InitPid}]
  /\ Displays \subseteq [atspi : SUBSET Procs, x11 : SUBSET Procs]
  /\ Faults \subseteq {"overrun", "refusal", "xprop"}

VARIABLES
  display,    \* the one this session has
  protected,  \* the desktop's processes with an accessible window in the baseline
  alive,      \* running processes
  parent,     \* their PPid
  group,      \* processes in the group the launched command leads
  stubborn,   \* processes that ignore SIGTERM
  open,       \* processes whose new window, absent from the baseline, is open
  registry,   \* the applications registered with AT-SPI, in order
  owned,      \* launch and window PIDs the host knows
  host,       \* where the host is
  ownedGone,  \* what the host read of the owned PIDs
  probe,      \* where the probe is
  late,       \* the probe's deadline has passed
  round,      \* its escalation: 0 list, 1 close, 2 kill the client, 3 SIGTERM, 4 SIGKILL
  index, count, \* the next registry index of the walk, and the last one
  listed,     \* the accessible windows of the last walk
  clients,    \* the X11 windows of the last complete read
  unread,     \* the X11 windows whose PID the last read of X11 did not tell
  blind,      \* it told no window at all, because xprop failed
  outcome,    \* the probe's record
  status,     \* what cleanup returns
  degraded,   \* with its mark
  reopened,   \* history: windows opened since the read that counts began
  slipped     \* history: applications that moved, during the last walk, from an
              \* index still to be read to one already read

processVars == <<display, protected, alive, parent, group, stubborn, open, registry>>
walkVars    == <<index, count, listed, slipped>>
x11Vars     == <<clients, unread, blind>>
probeVars   == <<probe, late, round, walkVars, x11Vars, outcome>>
hostVars    == <<owned, host, ownedGone, status, degraded>>
vars == <<processVars, probeVars, hostVars, reopened>>

Accessible == display.atspi  \* processes whose window is registered with AT-SPI
OnX11      == display.x11    \* processes whose window is an X11 client
remaining  == listed \union clients

Outcomes == {"none", "passed", "failed", "inconclusive"}

TypeOK ==
  /\ display \in Displays /\ protected \subseteq Desktop
  /\ alive \subseteq Procs /\ parent \in [Procs -> Procs \union {InitPid}]
  /\ group \subseteq Procs /\ stubborn \subseteq Procs /\ open \subseteq alive
  /\ registry \in Seq(Procs) /\ open \intersect Accessible \subseteq ToSet(registry)
  /\ owned \subseteq Procs
  /\ host \in {"term", "kill", "verify", "probe", "done"}
  /\ ownedGone \in BOOLEAN /\ degraded \in BOOLEAN /\ late \in BOOLEAN
  /\ probe \in {"idle", "read", "walk", "clients", "close", "x11", "judge", "ended"}
  /\ round \in 0..4 /\ index \in Nat /\ count \in Nat
  /\ listed \subseteq Procs /\ clients \subseteq OnX11 /\ unread \subseteq OnX11
  /\ blind \in BOOLEAN /\ reopened \subseteq Procs /\ slipped \subseteq Procs
  /\ outcome \in Outcomes /\ status \in Outcomes

(* The test is over.  The launched command may have forked helpers, which   *)
(* stay in its group or leave it, and have been re-parented if it ended.    *)
Init ==
  LET helpers == Procs \ ({Launched} \union Desktop)
      orphaned(p) == IF p \in helpers /\ Launched \in alive THEN Launched ELSE InitPid
  IN
  /\ display \in Displays
  /\ alive \in {running \in SUBSET Procs : Desktop \subseteq running}
  /\ protected \in SUBSET (Desktop \intersect Accessible)
  /\ parent = [p \in Procs |-> IF p \in Desktop THEN DesktopParent[p] ELSE orphaned(p)]
  /\ group \in {{Launched} \union members : members \in SUBSET helpers}
  /\ stubborn \in SUBSET helpers
  /\ open \in SUBSET (alive \intersect (Accessible \union OnX11))
  /\ registry \in SetToAllKPermutations(Accessible \intersect alive)
  /\ (open \union protected) \intersect Accessible \subseteq ToSet(registry)
  /\ owned \in {{Launched}} \union {{Launched, p} : p \in helpers}
  /\ host = "term" /\ ownedGone = FALSE
  /\ probe = "idle" /\ late = FALSE /\ round = 0 /\ index = 1 /\ count = 0
  /\ listed = {} /\ clients = {} /\ unread = {} /\ blind = FALSE
  /\ outcome = "none" /\ status = "none" /\ degraded = FALSE
  /\ reopened = {} /\ slipped = {}

(* From the first call of a read to what is made of it.                     *)
Reading == {"walk", "clients", "judge", "ended"}

-----------------------------------------------------------------------------
(* The processes.                                                          *)

Die(dead) ==
  /\ alive' = alive \ dead
  /\ open' = open \ dead
  /\ parent' = [p \in Procs |-> IF parent[p] \in dead THEN InitPid ELSE parent[p]]
  /\ UNCHANGED <<display, protected, group, stubborn, registry>>

Close(closed) ==
  /\ open' = open \ closed
  /\ UNCHANGED <<display, protected, alive, parent, group, stubborn, registry>>

(* A process that is still there may show a window at any time.             *)
OpenWindow(p) ==
  /\ host # "done" /\ p \in (alive \intersect (Accessible \union OnX11)) \ open
  /\ open' = open \union {p}
  /\ reopened' = IF probe \in Reading THEN reopened \union {p} ELSE reopened
  /\ registry' = IF p \in Accessible \ ToSet(registry) THEN Append(registry, p) ELSE registry
  /\ UNCHANGED <<display, protected, alive, parent, group, stubborn, probeVars, hostVars>>

(* An application leaves the registry, at once or some time after its       *)
(* window or its process; the later ones move down by one.                  *)
Deregister(i) ==
  /\ host # "done" /\ i \in DOMAIN registry /\ registry[i] \notin open
  /\ registry' = RemoveAt(registry, i)
  /\ slipped' = IF probe = "walk" /\ i < index /\ index \in DOMAIN registry \intersect 1..count
                THEN slipped \union {registry[index]} ELSE slipped
  /\ UNCHANGED <<display, protected, alive, parent, group, stubborn, open, probe, late, round,
                 index, count, listed, x11Vars, outcome, hostVars, reopened>>

-----------------------------------------------------------------------------
(* The host.                                                               *)

OwnedTree  == TreeOf(owned, [p \in alive |-> parent[p]]) \intersect alive
OwnedGroup == IF Launched \in owned THEN group \intersect alive ELSE {}

(* kill_tree: SIGTERM to each owned PID, its descendants and its group.     *)
TermOwned ==
  /\ host = "term"
  /\ Die((OwnedTree \union OwnedGroup) \ stubborn)
  /\ host' = "kill"
  /\ UNCHANGED <<owned, ownedGone, status, degraded, probeVars, reopened>>

(* kill_tree_hard: SIGKILL to each owned PID and its descendants; the group *)
(* gets SIGTERM again.                                                     *)
KillOwned ==
  /\ host = "kill"
  /\ Die(OwnedTree \union (OwnedGroup \ stubborn))
  /\ host' = "verify"
  /\ UNCHANGED <<owned, ownedGone, status, degraded, probeVars, reopened>>

(* The command overran its budget and was interrupted.                      *)
KillInterrupted ==
  /\ host \in {"term", "kill"} /\ "overrun" \in Faults
  /\ host' = "verify"
  /\ UNCHANGED <<owned, ownedGone, status, degraded, processVars, probeVars, reopened>>

(* Mutant: the status of the command that looks for the PIDs is ignored.    *)
VerifyIgnored ==
  /\ host = "verify"
  /\ ownedGone' = TRUE
  /\ host' = "probe" /\ probe' = "read"
  /\ UNCHANGED <<owned, status, degraded, late, round, walkVars, x11Vars, outcome, processVars,
                 reopened>>

(* No owned PID is left, unless the command that looks gave no answer.      *)
Verify ==
  /\ host = "verify"
  /\ ownedGone' \in {FALSE, owned \intersect alive = {}}
  /\ host' = "probe" /\ probe' = "read"
  /\ UNCHANGED <<owned, status, degraded, late, round, walkVars, x11Vars, outcome, processVars,
                 reopened>>

(* Mutant: the host asks again until the probe's answer is conclusive.      *)
DecideConclusive ==
  /\ host = "probe"
  /\ probe = "ended" /\ outcome # "inconclusive"
  /\ status' = IF ~ownedGone \/ outcome = "failed" THEN "failed" ELSE "passed"
  /\ degraded' = FALSE
  /\ host' = "done"
  /\ UNCHANGED <<owned, ownedGone, processVars, probeVars, reopened>>

(* The verdict; a probe that never answers counts as an incomplete one.     *)
Decide ==
  /\ host = "probe"
  /\ probe = "ended"
  /\ status' = IF ~ownedGone \/ outcome = "failed" THEN "failed" ELSE "passed"
  /\ degraded' = (ownedGone /\ outcome = "inconclusive")
  /\ host' = "done"
  /\ UNCHANGED <<owned, ownedGone, processVars, probeVars, reopened>>

-----------------------------------------------------------------------------
(* The probe.                                                              *)

(* Mutant: windows of baseline processes are not protected.                 *)
NewWindowsUnprotected(windows, unnamed) == windows

(* The baseline has the PIDs of its accessible windows: a window is passed  *)
(* over when its PID is one of them, which it cannot be when it is unknown. *)
NewWindows(windows, unnamed) == {p \in windows : p \notin protected \/ p \in unnamed}

ProbeEnds(result) ==
  /\ probe' = "ended" /\ outcome' = result
  /\ UNCHANGED <<late, round, walkVars, x11Vars, processVars, hostVars, reopened>>

(* What a read told is local to it.                                         *)
Forget ==
  index' = 1 /\ count' = 0 /\ listed' = {} /\ clients' = {} /\ reopened' = {} /\ slipped' = {}

(* The number of applications is read once per walk.                        *)
StartWalk ==
  /\ probe = "read"
  /\ probe' = "walk" /\ index' = 1 /\ count' = Len(registry)
  /\ listed' = {} /\ unread' = {} /\ blind' = FALSE /\ reopened' = {} /\ slipped' = {}
  /\ UNCHANGED <<late, round, clients, outcome, processVars, hostVars>>

(* Oldest first.  An index past the end is no application, and one whose    *)
(* process exited has no window: both are passed over.                      *)
ReadApp ==
  /\ probe = "walk" /\ index <= count /\ ~late
  /\ listed' = listed \union
       (NewWindows(open, {}) \intersect {registry[i] : i \in {index} \intersect DOMAIN registry})
  /\ index' = index + 1
  /\ UNCHANGED <<probe, late, round, count, slipped, x11Vars, outcome, processVars, hostVars,
                 reopened>>

(* Mutant: a walk cut by the deadline counts as empty.                      *)
TruncatedIsEmpty ==
  /\ probe = "walk" /\ index <= count /\ late
  /\ ProbeEnds("passed")

(* The deadline is checked before each index: past it, the walk of a        *)
(* registry with an entry is cut short.                                     *)
Truncated ==
  /\ probe = "walk" /\ index <= count /\ late
  /\ ProbeEnds("inconclusive")

(* A provider refuses a call, or the host gives the probe up.               *)
Refused ==
  /\ probe \notin {"idle", "ended"} /\ "refusal" \in Faults
  /\ ProbeEnds("inconclusive")

(* The first walk lists what to close, the others what remains.             *)
EndWalk ==
  /\ probe = "walk" /\ index > count
  /\ probe' = IF round = 0 THEN "close" ELSE "clients"
  /\ index' = 1 /\ count' = 0
  /\ UNCHANGED <<late, round, listed, slipped, x11Vars, outcome, processVars, hostVars, reopened>>

(* One read of X11.  xprop may fail: for the list of windows, which then    *)
(* counts as empty, or for one of them, whose PID is then unknown, as it is *)
(* when the window carries none.                                            *)
ReadX11 ==
  /\ blind' \in IF "xprop" \in Faults THEN BOOLEAN ELSE {FALSE}
  /\ unread' \in SUBSET (IF "xprop" \in Faults /\ ~blind' THEN open \intersect OnX11 ELSE {})

X11Windows(unnamed, failed) ==
  IF failed THEN {} ELSE NewWindows(open \intersect OnX11, unnamed)

ReadClients ==
  /\ probe = "clients" /\ ReadX11
  /\ clients' = X11Windows(unread', blind')
  /\ probe' = "judge"
  /\ UNCHANGED <<late, round, walkVars, outcome, processVars, hostVars, reopened>>

(* Accessible close actions, then the window manager's close request: a     *)
(* process may ignore either.                                               *)
CloseWindows ==
  /\ probe = "close"
  /\ \E closed \in SUBSET listed : Close(closed)
  /\ probe' = "x11" /\ round' = 1 /\ Forget
  /\ UNCHANGED <<late, unread, blind, outcome, hostVars>>

CloseX11Windows ==
  /\ probe = "x11" /\ ReadX11
  /\ \E closed \in SUBSET X11Windows(unread', blind') : Close(closed)
  /\ probe' = "read"
  /\ UNCHANGED <<late, round, walkVars, clients, outcome, hostVars, reopened>>

NothingRemains ==
  /\ probe = "judge" /\ remaining = {}
  /\ ProbeEnds("passed")

(* There is still time: look again.                                        *)
LookAgain ==
  /\ probe = "judge" /\ remaining # {} /\ ~late
  /\ probe' = "read" /\ Forget
  /\ UNCHANGED <<late, round, unread, blind, outcome, processVars, hostVars>>

(* Time is up: kill the X11 clients and wait again.                         *)
ForceX11 ==
  /\ probe = "judge" /\ remaining # {} /\ late /\ round = 1 /\ ReadX11
  /\ \E killed \in SUBSET X11Windows(unread', blind') : Die(killed)
  /\ round' = 2 /\ probe' = "read" /\ Forget
  /\ UNCHANGED <<late, outcome, hostVars>>

(* The processes of the remaining windows whose PID is known, with all that *)
(* descends from them, be it protected or not.                              *)
Links == [p \in alive |-> parent[p]]
ResidualTree == TreeOf(listed \union (clients \ unread), Links) \intersect alive

(* SIGTERM to the process trees of the remaining windows.  No time is left  *)
(* for the loop of requests that follows it.                                *)
TermResidue ==
  /\ probe = "judge" /\ remaining # {} /\ late /\ round = 2
  /\ Die(ResidualTree \ stubborn)
  /\ round' = 3
  /\ UNCHANGED <<probe, late, walkVars, x11Vars, outcome, hostVars, reopened>>

(* SIGKILL, the X11 clients once more, close requests and one last read.    *)
KillResidue ==
  /\ probe = "judge" /\ remaining # {} /\ late /\ round = 3 /\ ReadX11
  /\ \E killed \in SUBSET X11Windows(unread', blind') : Die(ResidualTree \union killed)
  /\ round' = 4 /\ probe' = "x11" /\ Forget
  /\ UNCHANGED <<late, outcome, hostVars>>

(* Mutant: windows that survive SIGKILL start one more round.               *)
WindowsRemainAnotherRound ==
  /\ probe = "judge" /\ remaining # {} /\ round = 4
  /\ round' = round + 1 /\ probe' = "read" /\ Forget
  /\ UNCHANGED <<late, unread, blind, outcome, processVars, hostVars>>

WindowsRemain ==
  /\ probe = "judge" /\ remaining # {} /\ round = 4
  /\ ProbeEnds("failed")

DeadlinePasses ==
  /\ probe \notin {"idle", "ended"} /\ ~late
  /\ late' = TRUE
  /\ UNCHANGED <<probe, round, walkVars, x11Vars, outcome, processVars, hostVars, reopened>>

Host  == TermOwned \/ KillOwned \/ KillInterrupted \/ Verify \/ Decide
Probe ==
  \/ StartWalk \/ ReadApp \/ EndWalk \/ Truncated \/ Refused \/ ReadClients
  \/ CloseWindows \/ CloseX11Windows \/ NothingRemains \/ LookAgain \/ ForceX11
  \/ TermResidue \/ KillResidue \/ WindowsRemain
Processes == (\E p \in Procs : OpenWindow(p)) \/ \E i \in DOMAIN registry : Deregister(i)

Next == Host \/ Probe \/ DeadlinePasses \/ Processes

Spec == Init /\ [][Next]_vars

(* Both ends are scheduled and the probe's clock runs; the processes are    *)
(* free.                                                                   *)
FairSpec == Spec /\ WF_vars(Host \/ Probe) /\ WF_vars(DeadlinePasses)

-----------------------------------------------------------------------------
(* The desktop's processes that the baseline does not protect, and whose    *)
(* new window is therefore taken for one a test left.                       *)
Strays == (Desktop \intersect (open \union remaining)) \ protected

(* Cleanup ends a process of the desktop, or closes its new window, in two  *)
(* cases only: it is such a stray process or descends from one, or it has a *)
(* new X11 window whose PID the read did not tell.                          *)
DesktopUntouched ==
  [][\A p \in alive \intersect Desktop :
       \/ p \in alive' /\ (p \in open => p \in open')
       \/ p \in TreeOf(Strays, Links)
       \/ p \in open \intersect unread']_vars

(* Without the two cases it would be what the baseline is for.  It does not *)
(* hold: the tree of a stray process is killed with the protected processes *)
(* in it, and a window without a PID is closed whoever it belongs to.       *)
ProtectedSurvive ==
  [][alive \intersect protected \subseteq alive' /\ open \intersect protected \subseteq open']_vars

(* Cleanup never passes while a PID the host owns is alive.                 *)
OwnedPidsGone == status = "passed" => owned \intersect alive = {}

(* A pass without the degraded mark means that the last read of both window *)
(* systems was complete and empty: a new window that is open was opened     *)
(* since that read began, unless an application that left the registry      *)
(* before its own let it slip past the walk, or xprop told no window.       *)
FullPassIsClean ==
  status = "passed" /\ ~degraded =>
    /\ (open \intersect Accessible) \ protected \subseteq reopened \union slipped
    /\ ~blind => (open \intersect OnX11) \ protected \subseteq reopened

(* "Terminate their process trees so one bad Desktop Entry cannot poison    *)
(* the AT-SPI registry for every later entry": once cleanup passes, no      *)
(* process the session did not start with keeps an accessible window from   *)
(* before the last read.  It does not hold: the wait for what remains may   *)
(* spend the deadline of the termination, and that pass is only degraded.   *)
ResidueTerminated ==
  status = "passed" => (open \intersect Accessible) \ Desktop \subseteq reopened \union slipped

(* "Every process group owned by this launch is gone", says the degraded    *)
(* pass.  A member that ignores SIGTERM and left the launched command's     *)
(* descendants is still there: the group never gets SIGKILL.                *)
OwnedGroupsGone == status = "passed" /\ degraded => group \intersect alive = {}

(* Cleanup always ends.                                                     *)
CleanupEnds == <>(host = "done")

=============================================================================
