---------------------------- MODULE ProcessScope ----------------------------
(***************************************************************************)
(* How the probe decides that a launch has ended: _owned_process_scope     *)
(* collects the launched processes from two passes over /proc, then        *)
(* _process_scope_exited asks each of them (data/atspi_probe.py).  Every   *)
(* read of /proc is a step of its own, and processes fork, leave their     *)
(* group, exit and are re-parented between any two of them.                *)
(***************************************************************************)
EXTENDS FiniteSets, ProcessTree

CONSTANTS
  Pids,       \* the processes the launch and the desktop may have
  Root,       \* the supervised root PID
  Shell,      \* a process of the desktop that the launch does not own
  InitPid     \* PID 1, which adopts orphans and which no scope admits

ASSUME PidsAssumption ==
  /\ IsFiniteSet(Pids) /\ Root \in Pids /\ Shell \in Pids \ {Root}
  /\ InitPid \notin Pids

VARIABLES
  state,      \* of each process
  parent,     \* PPid of each process
  group,      \* process group of each process, named by its first leader
  pc,         \* where the poll is
  known,      \* window PIDs the caller adds to the scope
  toRead,     \* listed in /proc by this pass and not read yet
  ppid,       \* the PPid fields the first pass read
  groups,     \* the process groups the scope is widened to
  scope,      \* the PIDs in scope
  unchecked,  \* those of them that were not seen to have ended
  launch,     \* history: Root and everything it forked, directly or not
  bornLate    \* history: forked since the second pass listed /proc

processVars == <<state, parent, group, launch>>
vars == <<processVars, pc, known, toRead, ppid, groups, scope, unchecked, bornLate>>

Running(p) == state[p] = "running"
Visible(p) == state[p] \in {"running", "zombie"}
Listing    == {p \in Pids : Visible(p)}

TypeOK ==
  /\ state \in [Pids -> {"free", "running", "zombie", "ended"}]
  /\ parent \in [Pids -> Pids \union {InitPid}] /\ group \in [Pids -> Pids]
  /\ pc \in {"idle", "tree", "root", "group", "check", "exited"}
  /\ known \subseteq Pids /\ toRead \subseteq Pids
  /\ DOMAIN ppid \subseteq Pids /\ groups \subseteq Pids
  /\ scope \subseteq Pids /\ unchecked \subseteq scope
  /\ launch \subseteq Pids /\ bornLate \subseteq Pids

(* The supervised root leads its own group; another root shares the shell's. *)
Init ==
  /\ state = [p \in Pids |-> IF p \in {Root, Shell} THEN "running" ELSE "free"]
  /\ parent = [p \in Pids |-> InitPid]
  /\ \E leader \in {Root, Shell} :
       group = [p \in Pids |-> IF p = Root THEN leader ELSE Shell]
  /\ pc = "idle" /\ known = {} /\ toRead = {} /\ ppid = <<>> /\ groups = {}
  /\ scope = {} /\ unchecked = {} /\ launch = {Root} /\ bornLate = {}

-----------------------------------------------------------------------------
(* The processes.                                                          *)

scanVars == <<pc, known, toRead, ppid, groups, scope, unchecked>>

Fork(p, q) ==
  /\ Running(p) /\ p \in launch /\ state[q] = "free"
  /\ state' = [state EXCEPT ![q] = "running"]
  /\ parent' = [parent EXCEPT ![q] = p]
  /\ group' = [group EXCEPT ![q] = group[p]]
  /\ launch' = launch \union {q}
  /\ bornLate' = IF pc \in {"group", "check", "exited"} THEN bornLate \union {q} ELSE bornLate
  /\ UNCHANGED scanVars

(* A daemon leaves the group it was forked in.                              *)
NewGroup(p) ==
  /\ Running(p) /\ p \in launch \ {Root} /\ group[p] # p
  /\ group' = [group EXCEPT ![p] = p]
  /\ UNCHANGED <<state, parent, launch, bornLate, scanVars>>

Exit(p) ==
  /\ Running(p) /\ p \in launch
  /\ state' = [state EXCEPT ![p] = "zombie"]
  /\ parent' = [q \in Pids |-> IF parent[q] = p THEN InitPid ELSE parent[q]]
  /\ UNCHANGED <<group, launch, bornLate, scanVars>>

Reap(p) ==
  /\ state[p] = "zombie"
  /\ state' = [state EXCEPT ![p] = "ended"]
  /\ UNCHANGED <<parent, group, launch, bornLate, scanVars>>

Processes ==
  \/ \E p, q \in Pids : Fork(p, q)
  \/ \E p \in Pids : NewGroup(p) \/ Exit(p) \/ Reap(p)

-----------------------------------------------------------------------------
(* The poll.                                                               *)

(* _process_tree lists /proc; the caller adds the window PIDs it knows.     *)
Start ==
  /\ pc = "idle"
  /\ known' \in {{}} \union {{p} : p \in launch}
  /\ toRead' = Listing /\ ppid' = <<>>
  /\ pc' = "tree"
  /\ UNCHANGED <<groups, scope, unchecked, bornLate, processVars>>

ReadParent(p) ==
  /\ pc = "tree" /\ p \in toRead
  /\ ppid' = IF Visible(p)
             THEN [q \in DOMAIN ppid \union {p} |-> IF q = p THEN parent[p] ELSE ppid[q]]
             ELSE ppid
  /\ toRead' = toRead \ {p}
  /\ UNCHANGED <<pc, known, groups, scope, unchecked, bornLate, processVars>>

(* Mutant: the tree is followed upwards.                                    *)
TreeUpwards ==
  {Root} \union (IF Root \in DOMAIN ppid THEN {ppid[Root]} ELSE {})

(* Root and its descendants by the PPid fields that were read.              *)
Tree == TreeOf({Root}, ppid)

TreeRead ==
  /\ pc = "tree" /\ toRead = {}
  /\ scope' = Tree \union known
  /\ pc' = "root"
  /\ ppid' = <<>> /\ known' = {}
  /\ UNCHANGED <<toRead, groups, unchecked, bornLate, processVars>>

(* Mutants: the group of a root that has ended is not followed; the group   *)
(* of the root is followed whoever leads it.                                *)
GroupsWhileLeading == IF Visible(Root) /\ group[Root] = Root THEN {Root} ELSE {}
GroupsOfRoot == IF Visible(Root) THEN {group[Root]} ELSE {Root}

(* Widen to the group the root leads, also once the root has ended.         *)
Groups == IF Visible(Root) /\ group[Root] # Root THEN {} ELSE {Root}

ReadRoot ==
  /\ pc = "root"
  /\ groups' = Groups
  /\ toRead' = Listing
  /\ bornLate' = {}
  /\ pc' = "group"
  /\ UNCHANGED <<known, ppid, scope, unchecked, processVars>>

ReadGroup(p) ==
  /\ pc = "group" /\ p \in toRead
  /\ scope' = IF Visible(p) /\ group[p] \in groups THEN scope \union {p} ELSE scope
  /\ toRead' = toRead \ {p}
  /\ UNCHANGED <<pc, known, ppid, groups, unchecked, bornLate, processVars>>

GroupRead ==
  /\ pc = "group" /\ toRead = {}
  /\ unchecked' = scope
  /\ pc' = "check" /\ groups' = {}
  /\ UNCHANGED <<known, toRead, ppid, scope, bornLate, processVars>>

(* Mutant: a process its parent has not reaped counts as running.           *)
EndedAndReaped(p) == ~Visible(p)

(* launch_process_exited.                                                   *)
Ended(p) == ~Running(p)

CheckEnded(p) ==
  /\ pc = "check" /\ p \in unchecked /\ Ended(p)
  /\ unchecked' = unchecked \ {p}
  /\ UNCHANGED <<pc, known, toRead, ppid, groups, scope, bornLate, processVars>>

(* One process is alive: the caller polls again.                            *)
CheckAlive(p) ==
  /\ pc = "check" /\ p \in unchecked /\ ~Ended(p)
  /\ pc' = "idle" /\ scope' = {} /\ unchecked' = {} /\ bornLate' = {}
  /\ UNCHANGED <<known, toRead, ppid, groups, processVars>>

ScopeExited ==
  /\ pc = "check" /\ unchecked = {}
  /\ pc' = "exited"
  /\ UNCHANGED <<known, toRead, ppid, groups, scope, unchecked, bornLate, processVars>>

Poll ==
  \/ Start \/ TreeRead \/ ReadRoot \/ GroupRead \/ ScopeExited
  \/ \E p \in Pids : ReadParent(p) \/ ReadGroup(p) \/ CheckEnded(p) \/ CheckAlive(p)

Next == Processes \/ Poll

Spec == Init /\ [][Next]_vars

(* The probe polls for as long as the caller's deadline allows.             *)
FairSpec == Spec /\ WF_vars(Poll)

-----------------------------------------------------------------------------
(* The scope never admits a process the launch did not fork: sharing a      *)
(* process group with the root is not enough.                               *)
NothingImported == scope \subseteq launch

(* When the launch counts as ended, every process that is still running in  *)
(* its group was forked after the second pass listed /proc.                 *)
EndedUnlessBornLate ==
  pc = "exited" =>
    \A p \in launch : Running(p) /\ group[p] = Root => p \in bornLate

(* "Return true only when every process in a scoped launch has ended."      *)
(* One that was forked after the second listing has not been asked.         *)
EndedMeansEnded ==
  pc = "exited" => \A p \in launch : group[p] = Root => ~Running(p)

(* A launch whose processes all end is noticed, also when their parent does *)
(* not reap them.                                                           *)
AllEnded == \A p \in launch : ~Running(p)
EndIsNoticed == [](AllEnded => <>(pc = "exited"))

=============================================================================
