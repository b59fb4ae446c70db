---------------------------- MODULE SmokeSession ----------------------------
(***************************************************************************)
(* One application smoke test of the openQA gate: the probe that runs in   *)
(* the guest (application_smoke_session in data/atspi_probe.py), the host  *)
(* that waits for READY and sends one close shortcut                       *)
(* (launch_smoke_desktop_entry in openqa/lib/atspi.pm), the verdict        *)
(* (check in openqa/lib/application_smoke.pm) and the application, whose   *)
(* processes and windows change between any two steps of the others.       *)
(*                                                                         *)
(* Time is a flag: `late' becomes TRUE when the deadline of the probe's    *)
(* current phase has passed, and is cleared when a phase with a deadline   *)
(* of its own begins.  A read of the accessibility tree is one step.  The   *)
(* end of the launch is asked in two: `scope' is what _owned_process_scope  *)
(* listed, and each of these processes is looked at later.                 *)
(***************************************************************************)
EXTENDS Naturals

CONSTANTS
  Windows,     \* the top-level windows the launch may ever publish
  Ineligible,  \* those discover skips: in the baseline, a splash, another role
  None,        \* no window, no record
  Contracts    \* the close contracts of the policy that a test may run under

ContractType ==
  [mode: {"process-exit", "window-close"}, speech: BOOLEAN, handsOver: BOOLEAN]

(* READY, with the windows its readings came from and whether the content   *)
(* deadline had passed; the final record, with the shortcuts sent by then.  *)
ReadyRecord ==
  [window: Windows, evidence: Windows, activeOf: Windows, expired: BOOLEAN]
FinalRecord ==
  [status: {"passed", "failed", "inconclusive"}, processGone: BOOLEAN, keys: 0..1]

ASSUME WindowsAssumption == Ineligible \subseteq Windows
ASSUME ContractsAssumption == Contracts \subseteq ContractType
ASSUME NoneAssumption == None \notin Windows \union ReadyRecord \union FinalRecord

VARIABLES
  contract,    \* close mode, whether Orca must speak, whose the windows are
  proc,        \* the launched command and the process it may fork
  fresh,       \* history: those forked while the listed ones were looked at
  win,         \* what each window looks like to AT-SPI
  active,      \* the window that has the ACTIVE state, or None
  pc,          \* where the probe is
  late,        \* the current phase's deadline has passed
  scope,       \* the processes listed and not yet looked at, or none
  target,      \* target_window
  unseen,      \* the target read as not SHOWING or as DEFUNCT
  gone,        \* the probe's `gone'
  evidence,    \* the window the probe's `evidence' was read from, or None
  activeOf,    \* the window the probe's `active' was read from, None if false
  ready,       \* the READY record the probe printed, or None
  record,      \* the final record the probe printed, or None
  host,        \* where the host is
  keys,        \* shortcuts sent
  opinion,     \* what the launch came to before cleanup
  verdict      \* the status check returns

appVars   == <<contract, proc, win, active>>
scopeVars == <<scope, fresh>>
probeVars == <<pc, late, target, unseen, gone, evidence, activeOf, ready, record>>
hostVars  == <<host, keys, opinion, verdict>>
vars      == <<appVars, scopeVars, probeVars, hostVars>>

Procs     == {"launcher", "app"}
ProcState == {"unborn", "running", "detached", "exited", "crashed", "killed"}
WinState  == {"absent", "blank", "filled", "hidden", "gone"}
Timed     == {"open", "settle", "look", "follow", "read", "watch"}
ProbePc   == Timed \union {"judge", "speech", "closing", "ended", "dead"}
HostPc    == {"waitReady", "sendKey", "waitFinal", "recover", "cleanup", "done"}
Opinions  == {"pending", "passed", "failed", "refused", "silent"}

(* The process whose windows the application publishes.                    *)
Owner == IF contract.handsOver THEN "app" ELSE "launcher"

(* A detached process left the group of the launch and lost its parent.     *)
Alive(p) == proc[p] \in {"running", "detached"}

(* What the two listings of /proc find of the launch; ProcessScope has what *)
(* they may miss.  The caller adds the PID of the window it proved.         *)
Launch == {p \in Procs : p = "launcher" \/ proc[p] = "running"}
Known  == IF target = None THEN {} ELSE {Owner}

(* Mutant: the tree alone is listed, without the group of the launch.       *)
ListedTree ==
  (IF proc["launcher"] = "running" THEN Launch ELSE {"launcher"}) \union Known

Listed == Launch \union Known

(* _process_scope_exited: every process that was listed has ended by now.   *)
ListedExited == scope # {} /\ \A p \in scope : ~Alive(p)

Showing(w) == win[w] \in {"blank", "filled"}

(* The windows discover may return for the processes it listed: an active   *)
(* candidate if there is one.                                              *)
Candidates == {w \in Windows \ Ineligible : Showing(w)}
Discovered(processes) ==
  IF Owner \notin processes THEN {}
  ELSE IF active \in Candidates THEN {active} ELSE Candidates

TypeOK ==
  /\ contract \in ContractType
  /\ proc \in [Procs -> ProcState]
  /\ scope \subseteq Procs /\ fresh \subseteq Procs
  /\ win \in [Windows -> WinState]
  /\ active \in Windows \union {None}
  /\ pc \in ProbePc
  /\ late \in BOOLEAN /\ unseen \in BOOLEAN /\ gone \in BOOLEAN
  /\ target \in Windows \union {None}
  /\ evidence \in Windows \union {None}
  /\ activeOf \in Windows \union {None}
  /\ ready \in ReadyRecord \union {None}
  /\ record \in FinalRecord \union {None}
  /\ host \in HostPc
  /\ keys \in 0..1
  /\ opinion \in Opinions
  /\ verdict \in {"pending", "passed", "failed"}

Init ==
  /\ contract \in Contracts
  /\ proc = [p \in Procs |-> IF p = "launcher" THEN "running" ELSE "unborn"]
  /\ win = [w \in Windows |-> "absent"]
  /\ active = None
  /\ scope = {} /\ fresh = {}
  /\ pc = "open" /\ late = FALSE /\ target = None
  /\ unseen = FALSE /\ gone = FALSE /\ evidence = None /\ activeOf = None
  /\ ready = None /\ record = None
  /\ host = "waitReady" /\ keys = 0
  /\ opinion = "pending" /\ verdict = "pending"

-----------------------------------------------------------------------------
(* The application.  It is free: it may answer the shortcut, ignore it, or  *)
(* do the same things on its own before the shortcut.                      *)

(* The model follows a process until the verdict.                           *)
Live(p) == Alive(p) /\ verdict = "pending"

(* The application, or a helper, also one it leaves behind on its way out.  *)
Fork ==
  /\ Live("launcher") /\ proc["app"] = "unborn"
  /\ proc' = [proc EXCEPT !["app"] = "running"]
  /\ fresh' = IF scope = {} THEN fresh ELSE fresh \union {"app"}
  /\ UNCHANGED <<contract, scope, win, active, probeVars, hostVars>>

(* It leads a session of its own, and its parent is gone.                   *)
Detach ==
  /\ proc["app"] = "running" /\ ~Alive("launcher") /\ verdict = "pending"
  /\ proc' = [proc EXCEPT !["app"] = "detached"]
  /\ UNCHANGED <<contract, win, active, scopeVars, probeVars, hostVars>>

(* The windows of a process do not outlive it, and no more will come.       *)
WindowsVanish ==
  /\ win' = [w \in Windows |-> "gone"]
  /\ active' = None

Exit(p) ==
  /\ Live(p)
  /\ \E end \in {"exited", "crashed"} : proc' = [proc EXCEPT ![p] = end]
  /\ IF p = Owner
     THEN WindowsVanish
     ELSE UNCHANGED <<win, active>>
  /\ UNCHANGED <<contract, scopeVars, probeVars, hostVars>>

(* Windows are followed as long as the probe may look at them.              *)
Watched == Live(Owner) /\ pc \notin {"ended", "dead"}

Map(w) ==
  /\ Watched /\ win[w] \in {"absent", "hidden"}
  /\ \E s \in {"blank", "filled"} : win' = [win EXCEPT ![w] = s]
  /\ UNCHANGED <<contract, proc, active, scopeVars, probeVars, hostVars>>

Fill(w) ==
  /\ Watched /\ win[w] = "blank"
  /\ win' = [win EXCEPT ![w] = "filled"]
  /\ UNCHANGED <<contract, proc, active, scopeVars, probeVars, hostVars>>

(* A toolkit that maps a window again drops SHOWING for a moment and may    *)
(* keep ACTIVE.                                                            *)
Hide(w) ==
  /\ Watched /\ Showing(w)
  /\ win' = [win EXCEPT ![w] = "hidden"]
  /\ UNCHANGED <<contract, proc, active, scopeVars, probeVars, hostVars>>

Destroy(w) ==
  /\ Watched /\ win[w] \notin {"absent", "gone"}
  /\ win' = [win EXCEPT ![w] = "gone"]
  /\ active' = IF active = w THEN None ELSE active
  /\ UNCHANGED <<contract, proc, scopeVars, probeVars, hostVars>>

Activate(w) ==
  /\ Watched /\ win[w] \notin {"absent", "gone"} /\ active # w
  /\ active' = w
  /\ UNCHANGED <<contract, proc, win, scopeVars, probeVars, hostVars>>

(* The focus goes to a window the launch does not own.                      *)
Deactivate ==
  /\ Watched /\ active # None
  /\ active' = None
  /\ UNCHANGED <<contract, proc, win, scopeVars, probeVars, hostVars>>

Application ==
  \/ Fork \/ Detach \/ Deactivate
  \/ \E p \in Procs : Exit(p)
  \/ \E w \in Windows : Map(w) \/ Fill(w) \/ Hide(w) \/ Destroy(w) \/ Activate(w)

-----------------------------------------------------------------------------
(* The probe.                                                              *)

(* What no step of the probe changes, and what most leave alone.            *)
world  == <<appVars, hostVars>>
others == <<world, scopeVars>>

(* The processes have been looked at: the next check lists them anew.       *)
ScopeRead == scope' = {} /\ fresh' = {}

ListScope ==
  /\ scope = {}
  /\ \/ pc \in {"open", "settle", "look"} /\ ~late
     \/ pc = "watch" /\ contract.mode = "process-exit" /\ ~late
     \/ pc = "closing"
  /\ scope' = Listed
  /\ UNCHANGED <<fresh, world, probeVars>>

(* The readings of the content loop are read no more.                       *)
Forget ==
  late' = FALSE /\ unseen' = FALSE /\ gone' = FALSE /\ evidence' = None /\ activeOf' = None

(* Print the final record and stop.                                        *)
End(status, processGone) ==
  /\ record' = [status |-> status, processGone |-> processGone, keys |-> keys]
  /\ pc' = "ended" /\ Forget
  /\ scope' = {}
  /\ UNCHANGED <<fresh, target, ready, world>>

DeadlinePasses ==
  /\ pc \in Timed /\ ~late
  /\ late' = TRUE
  /\ UNCHANGED <<pc, target, unseen, gone, evidence, activeOf, ready, record, others>>

(* A read cut by its deadline reaches main as WalkTruncated, and a provider *)
(* that still refuses at the open deadline as ProbeError.                   *)
Truncated ==
  /\ pc \in {"open", "follow", "read"} /\ late
  /\ End("inconclusive", FALSE)

OpenFound ==
  /\ pc = "open"
  /\ target' \in Discovered(scope)
  /\ pc' = "settle" /\ late' = FALSE
  /\ ScopeRead
  /\ UNCHANGED <<unseen, gone, evidence, activeOf, ready, record, world>>

(* Nothing was found, or a provider refused and is asked again.             *)
OpenAgain ==
  /\ pc = "open" /\ scope # {}
  /\ ScopeRead
  /\ UNCHANGED <<world, probeVars>>

OpenFailed ==
  /\ pc = "open"
  /\ late \/ (Discovered(scope) = {} /\ ListedExited)
  /\ End("failed", FALSE)

SettleExited ==
  /\ pc = "settle" /\ ListedExited
  /\ End("failed", FALSE)

(* A poll that finds a process of the launch: the next one lists again.     *)
StillRuns ==
  /\ pc = "settle" \/ (pc = "watch" /\ contract.mode = "process-exit")
  /\ scope # {} /\ ~ListedExited
  /\ ScopeRead
  /\ UNCHANGED <<world, probeVars>>

Settled ==
  /\ pc = "settle" /\ scope = {} /\ late
  /\ pc' = "look" /\ late' = FALSE
  /\ evidence' = None /\ activeOf' = None /\ gone' = FALSE
  /\ UNCHANGED <<target, unseen, ready, record, others>>

(* The end of an iteration of the content loop.                            *)
EndIteration(found, seenActive) ==
  /\ evidence' = found
  /\ pc' = IF late \/ (found # None /\ seenActive # None) THEN "judge" ELSE "look"

ContentExited ==
  /\ pc = "look" /\ ListedExited
  /\ End("failed", FALSE)

ContentExpired ==
  /\ pc = "look" /\ scope = {} /\ late
  /\ pc' = "judge"
  /\ UNCHANGED <<late, target, unseen, gone, evidence, activeOf, ready, record, others>>

Look ==
  /\ pc = "look" /\ scope # {} /\ ~ListedExited
  /\ ScopeRead
  /\ activeOf' = IF active = target THEN target ELSE None
  /\ unseen' = ~Showing(target)
  /\ pc' = IF active = target /\ Showing(target) THEN "read" ELSE "follow"
  /\ UNCHANGED <<late, target, gone, evidence, ready, record, world>>

(* A provider that is busy or gone refuses the call: the iteration proves   *)
(* nothing, and keeps the `active' of the one before.                      *)
LookRefused ==
  /\ pc = "look" /\ scope # {} /\ ~ListedExited
  /\ ScopeRead
  /\ EndIteration(None, activeOf)
  /\ UNCHANGED <<late, target, unseen, gone, activeOf, ready, record, world>>

(* Mutant: the followed window is judged with the readings of the one       *)
(* before it.                                                               *)
FollowMovedSameReading ==
  /\ pc = "follow" /\ unseen' = FALSE
  /\ target' \in Discovered(Launch) \ {target}
  /\ pc' = "read"
  /\ UNCHANGED <<late, gone, evidence, activeOf, ready, record, others>>

(* The launch made another window active: follow it.                        *)
FollowMoved ==
  /\ pc = "follow" /\ unseen' = FALSE
  /\ target' \in Discovered(Launch) \ {target}
  /\ pc' = "look"
  /\ UNCHANGED <<late, gone, evidence, activeOf, ready, record, others>>

FollowStayed ==
  /\ pc = "follow" /\ unseen' = FALSE
  /\ Discovered(Launch) = {} \/ target \in Discovered(Launch)
  /\ gone' = unseen
  /\ IF unseen THEN EndIteration(None, activeOf)
               ELSE pc' = "read" /\ UNCHANGED evidence
  /\ UNCHANGED <<late, target, activeOf, ready, record, others>>

FollowRefused ==
  /\ pc = "follow" /\ unseen' = FALSE
  /\ EndIteration(None, activeOf)
  /\ UNCHANGED <<late, target, gone, activeOf, ready, record, others>>

ReadContent ==
  /\ pc = "read"
  /\ gone' = FALSE
  /\ \/ win[target] = "filled" /\ EndIteration(target, activeOf)
     \/ EndIteration(None, activeOf)
  /\ UNCHANGED <<late, target, unseen, activeOf, ready, record, others>>

EmitReady ==
  /\ ready' = [window |-> target, evidence |-> evidence, activeOf |-> activeOf,
               expired |-> late]
  /\ pc' = "watch" /\ Forget
  /\ UNCHANGED <<target, record, others>>

Proven == ~gone /\ evidence # None /\ activeOf # None

JudgeFailed ==
  /\ pc = "judge" /\ ~Proven
  /\ End("failed", FALSE)

JudgeProven ==
  /\ pc = "judge" /\ Proven
  /\ IF contract.speech
     THEN /\ pc' = "speech"
          /\ UNCHANGED <<late, target, unseen, gone, evidence, activeOf, ready, record, others>>
     ELSE EmitReady

Spoke == pc = "speech" /\ EmitReady

Silent ==
  /\ pc = "speech"
  /\ End("failed", FALSE)

(* A standard application is watched through its processes.                 *)
WatchExited ==
  /\ pc = "watch" /\ contract.mode = "process-exit" /\ ListedExited
  /\ End("passed", TRUE)

WatchExpired ==
  /\ pc = "watch" /\ contract.mode = "process-exit" /\ scope = {} /\ late
  /\ End("failed", FALSE)

(* A shared window is watched by an isolated observer.  What it may take    *)
(* for the window's closing is WindowScan's subject; here it may say either.*)
WatchObserved ==
  /\ pc = "watch" /\ contract.mode = "window-close"
  /\ unseen' \in BOOLEAN
  /\ pc' = "closing"
  /\ UNCHANGED <<late, target, gone, evidence, activeOf, ready, record, others>>

WatchClosed ==
  /\ pc = "closing" /\ scope # {}
  /\ ListedExited \/ unseen
  /\ End("passed", ListedExited)

WatchUnclosed ==
  /\ pc = "closing" /\ scope # {} /\ ~ListedExited /\ ~unseen
  /\ End("failed", FALSE)

(* `timeout' or an interrupt ends the probe, or a native call never returns.*)
Dies ==
  /\ pc \notin {"ended", "dead"}
  /\ pc' = "dead" /\ Forget
  /\ scope' = {} /\ fresh' = {}
  /\ UNCHANGED <<target, ready, record, world>>

ProbeStep ==
  \/ ListScope \/ StillRuns \/ Truncated
  \/ OpenFound \/ OpenAgain \/ OpenFailed \/ SettleExited \/ Settled
  \/ ContentExited \/ ContentExpired \/ Look \/ LookRefused
  \/ FollowMoved \/ FollowStayed \/ FollowRefused \/ ReadContent
  \/ JudgeFailed \/ JudgeProven \/ Spoke \/ Silent
  \/ WatchExited \/ WatchExpired \/ WatchObserved \/ WatchClosed \/ WatchUnclosed

Probe == ProbeStep \/ DeadlinePasses \/ Dies

-----------------------------------------------------------------------------
(* The host.                                                               *)

(* A record before READY: every branch of check that handles it fails.      *)
HostEarly ==
  /\ host = "waitReady" /\ ready = None /\ record # None
  /\ host' = "cleanup" /\ opinion' = "failed"
  /\ UNCHANGED <<keys, verdict, appVars, scopeVars, probeVars>>

(* Mutant: any record of the probe is taken for READY.                      *)
HostReadyAnyRecord ==
  /\ host = "waitReady" /\ (ready # None \/ record # None)
  /\ host' = "sendKey"
  /\ UNCHANGED <<keys, opinion, verdict, appVars, scopeVars, probeVars>>

HostReady ==
  /\ host = "waitReady" /\ ready # None
  /\ host' = "sendKey"
  /\ UNCHANGED <<keys, opinion, verdict, appVars, scopeVars, probeVars>>

SendKey ==
  /\ host = "sendKey"
  /\ keys' = keys + 1
  /\ host' = "waitFinal"
  /\ UNCHANGED <<opinion, verdict, appVars, scopeVars, probeVars>>

(* READY or the final record is not the JSON it should be: the match on the *)
(* serial line may end before the record does.  The call dies and leaves the *)
(* probe to itself.                                                        *)
HostRefuses ==
  /\ \/ host = "waitReady" /\ ready # None
     \/ host = "waitFinal" /\ record # None
  /\ host' = "cleanup" /\ opinion' = "refused"
  /\ UNCHANGED <<keys, verdict, appVars, scopeVars, probeVars>>

(* No marker within the serial budget.  The probe knows nothing of it: its  *)
(* own `timeout' is longer than the budget for READY.                       *)
GiveUp ==
  /\ host' = "recover" /\ opinion' = "silent"
  /\ UNCHANGED <<keys, verdict, appVars, scopeVars, probeVars>>

(* Mutant: READY is not looked for once the budget is over.                  *)
HostTimeoutReadyLost ==
  host \in {"waitReady", "waitFinal"} /\ record = None /\ GiveUp

HostTimeout ==
  /\ \/ host = "waitReady" /\ ready = None /\ record = None
     \/ host = "waitFinal" /\ record = None
  /\ GiveUp

(* Ctrl-C is typed, and the shell waited for.  The probe hears of it when it *)
(* is not in a native call: that is one more reason to die (Dies), at once   *)
(* or after it printed something.                                           *)
Recover ==
  /\ host = "recover"
  /\ host' = "cleanup"
  /\ UNCHANGED <<keys, opinion, verdict, appVars, scopeVars, probeVars>>

(* What the status file of the supervisor says of the launched command; it  *)
(* may not have been written yet.                                          *)
ExitCodes ==
  {"missing"} \union (IF proc["launcher"] = "running" THEN {} ELSE {proc["launcher"]})

(* The contract's outcome, from the final record and the exit code.         *)
OutcomeAllowed(code) ==
  /\ record.status = "passed"
  /\ IF contract.mode = "window-close"
     THEN code \in {"missing", "exited"}
     ELSE record.processGone /\ code = "exited"

HostFinal ==
  /\ host = "waitFinal" /\ record # None
  /\ \E code \in ExitCodes :
       opinion' = IF OutcomeAllowed(code) THEN "passed" ELSE "failed"
  /\ host' = "cleanup"
  /\ UNCHANGED <<keys, verdict, appVars, scopeVars, probeVars>>

(* Cleanup kills what is left of the launch, and the process of a window it *)
(* finds; it can only lower the verdict.                                    *)
Cleanup ==
  /\ host = "cleanup"
  /\ \/ /\ proc' = [p \in Procs |->
                     IF Alive(p) /\ p \in Launch \union {Owner} THEN "killed" ELSE proc[p]]
        /\ WindowsVanish
        /\ verdict' = IF opinion = "passed" THEN "passed" ELSE "failed"
     \/ verdict' = "failed" /\ UNCHANGED <<proc, win, active>>
  /\ host' = "done"
  /\ UNCHANGED <<contract, keys, opinion, scopeVars, probeVars>>

HostStep ==
  \/ HostEarly \/ HostReady \/ HostRefuses \/ SendKey \/ HostFinal
  \/ HostTimeout \/ Recover \/ Cleanup

Next == Application \/ Probe \/ HostStep

Spec == Init /\ [][Next]_vars

(* Clocks run, the probe's process is scheduled, and the host acts on what  *)
(* it reads.  The host's budget is longer than the probe's, so it is only   *)
(* certain to run out when the probe is dead.  Nothing is assumed of the    *)
(* application.                                                            *)
Fairness ==
  /\ WF_vars(ProbeStep)
  /\ WF_vars(DeadlinePasses)
  /\ WF_vars(HostEarly \/ HostReady \/ HostRefuses \/ SendKey \/ HostFinal
               \/ Recover \/ Cleanup)
  /\ WF_vars(pc = "dead" /\ HostTimeout)

FairSpec == Spec /\ Fairness

-----------------------------------------------------------------------------
(* Safety.                                                                 *)

(* A READY record is whole when its content evidence and its ACTIVE reading *)
(* both come from the window it names.                                     *)
Whole == ready.evidence = ready.window /\ ready.activeOf = ready.window

(* READY is whole when the content loop of application_smoke_session left   *)
(* by its `break', before the content deadline: following the active        *)
(* window never mixes the readings of two windows there.                   *)
ReadyIsWholeInTime == ready # None /\ ~ready.expired => Whole

(* "It holds on to the exact window it proved": READY is whole whichever    *)
(* way the content loop ends.  It is not: a deadline that passes between    *)
(* the two readings of a window that was followed leaves them apart.        *)
ReadyIsWhole == ready # None => Whole

(* A standard application passes only if READY was printed, one shortcut    *)
(* was sent, its launched command exited with an allowed status and the     *)
(* process of the proven window ended by itself.  What is left of the       *)
(* launch, or was left for cleanup to kill, was forked after the probe had  *)
(* last listed it, while the processes it found were looked at; it, and a   *)
(* helper that left both the tree and the group, nobody waits for.          *)
StandardPassIsNatural ==
  verdict = "passed" /\ contract.mode = "process-exit" =>
    /\ ready # None /\ keys = 1
    /\ proc["launcher"] = "exited"
    /\ proc[Owner] \in {"exited", "crashed"}
    /\ \A p \in Procs : proc[p] \in {"running", "killed"} => p \in fresh

(* "Wait for the single key the host sends; watch for that window or        *)
(* process to go away": a passing outcome is observed after the key.  It    *)
(* may precede it, when the application ends on its own after READY.        *)
OutcomeFollowsKey == record # None /\ record.status = "passed" => record.keys = 1

(* "A crash fails": no process of a standard application that passes        *)
(* crashed.  One that the launched command forked may have: nobody waits    *)
(* for its exit code.                                                       *)
CrashFails ==
  verdict = "passed" /\ contract.mode = "process-exit" =>
    \A p \in Procs : proc[p] # "crashed"

(* The probe moves only to a window that is showing and is a new top-level  *)
(* of the launch, and no longer moves once READY named it.                  *)
ProvenWindowIsKept ==
  [][target' # target =>
       /\ ready = None
       /\ target' \in Windows \ Ineligible /\ Showing(target')]_vars

(* What the session promises, whatever the application does.                *)
Promise == INSTANCE OneKeySession WITH proven <- (ready # None)
OneKey  == Promise!Spec

-----------------------------------------------------------------------------
(* Liveness.                                                               *)

(* The probe always ends, by its record or by being killed: following       *)
(* windows never outlives the content deadline.                            *)
ProbeEnds == <>(pc \in {"ended", "dead"})

(* check always returns a verdict, also when the probe dies.                *)
VerdictReached == <>(verdict # "pending")

(* READY that is printed while the host waits for it is answered by the     *)
(* shortcut, unless the host refuses what it read of it.  READY that comes  *)
(* after the host gave up is not.                                          *)
ReadyIsAnswered == ready # None /\ host = "waitReady" ~> keys = 1 \/ opinion = "refused"

(* A session comes to its end on both sides, and on the way between them.   *)
SessionEnds == ProbeEnds /\ VerdictReached /\ ReadyIsAnswered

=============================================================================
