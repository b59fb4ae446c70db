# Verification of the BigLinux release gate

This project states, checks and proves what the openQA release gate of
`biglinux/iso-profiles` promises. An ISO is published only if the gate passes,
so the questions are: can the gate pass something it did not see, can it lose a
verdict, can it hang, and does it leave the session fit for the next test.

Everything here is translated from the source; the line ranges are in
`PROJECT.json`, under `map`. Model checking uses TLC, proofs use TLAPS.

## 1. The system

### Parts

| Part | Source | State it keeps | Operations |
|---|---|---|---|
| smoke session, probe side | `data/atspi_probe.py` `application_smoke_session` | phase, target window, last readings, deadline | discover, settle, prove content and focus, wait for Orca, READY, watch, final record |
| smoke session, host side | `openqa/lib/atspi.pm` `launch_smoke_desktop_entry`, `openqa/lib/application_smoke.pm` `check` | what was read from the serial console, shortcuts sent, metric | launch, wait READY, one shortcut, wait final record, exit code, verdict, cleanup |
| window enumeration | `_window_records`, `wait_for_window_change`, `_read_until_ready` | registry index, child index, deadline | walk by index, retry, judge absence |
| process scope | `_owned_process_scope`, `_launch_process_scope`, `_process_scope_exited` | PPid fields read, group, scope | two passes over `/proc`, one check per process |
| cleanup | `cleanup` in `atspi.pm`, `cleanup_new_windows` | owned PIDs, baseline, deadline, escalation | kill groups, verify, close, kill clients, SIGTERM, SIGKILL |
| close shortcut with auxiliary dialogs | `close_with_shortcut` | dialogs dismissed | up to three dismissals, then the close |
| launch and supervision | `gui_user_launch.sh`, `gui_supervisor.sh`, `desktop_entry_launcher.py`, `_launch_argv` | status file, candidates | start in a new session, record PID and exit code |
| process handoff | `process_handoff.py` | identities of running processes | arm, wait for the new process |
| serial console | `_run_guest_command`, `guest_json`, `guest_shell.pm` | markers | run, wait, interrupt, recover |
| widget search, keyboard traversal | `wait_for_widget`, `focused_widget`, `focus_widget` | search order, visited controls | find, move focus, activate |
| Orca observer | `orca_probe.py`, `orca.pm` | offset in the speech log | check that Orca spoke |
| inventory, policy, shards | `tests/applications.pm`, `application-policy.yaml` | classified entries, metrics | classify, shard, test, upload |
| aggregation | `aggregate-application-results.py` | shards' results | validate inventory, policy and shards |
| plan runner | `run-plan.sh`, `release-gate.yaml` | container, phase | preflight, isotovideo, logs, verification, report |
| report | `report_outcome.py`, `finalize_report.py` | verdict | normalise, take the worst |
| release gate | `openqa.yml`, `build-iso.yml`, `openqa-report.yml` | job results, artifacts | static, plan, aggregate, report, gate, publish |
| installer and installed system | `calamares.pm`, `installed_system.pm`, `tests/*` | one screen after another | drive and assert |
| ISO build | `build-iso/*.sh` | files | edit, call build tools |

### Interaction

The host (Perl, outside the VM) and the probe (Python, in the guest) share
nothing but the serial console and the keyboard. The host types a command; the
probe prints READY, waits while the host sends one shortcut, and prints a final
record. The application and its toolkit are a third actor that neither waits
for: its processes fork and exit, its windows open, hide and close, and the
accessibility registry changes between any two calls. The supervisor writes the
launched command's PID and exit code to a status file the host reads. After
every entry the host kills what it launched and the probe removes what is left.
The plans of the gate run in parallel jobs and meet in the aggregation, the
report and the gate job.

### What is hard

- *Interleaving*: every reading of the accessibility tree or of `/proc` is a
  sequence of calls; what was read is stale when it is used.
- *Ordering*: the outcome of the shortcut may precede it; an answer may arrive
  after its budget.
- *Timeouts*: every phase has a deadline, the host has a longer one, and an
  escalation may find no time left.
- *Partial failure*: the probe dies, a provider refuses or hangs, the kill
  command is interrupted, the status file is not there yet.
- *Re-runs*: a job may run again and leave artifacts of two attempts.

`PROJECT.json`, under `hazards`, lists each at its line with the properties
that cover it, or why none does yet.

### What makes each part correct

- smoke session: READY is about one window; one shortcut, only after READY; a
  pass is a natural end; a verdict is always reached.
- window enumeration: nothing that stays is missed; an absence that is
  declared was one.
- process scope: nothing foreign is imported; what counts as ended has ended.
- cleanup: an owned process never survives a pass; of the desktop nothing is
  touched but what a stray window drags along; a full pass means that nothing
  was left when the last read looked.
- inventory and aggregation: a passing gate tested every launchable entry
  exactly once.
- release gate: an ISO is only published when every plan of that build passed.

## 2. The modules

| Module | What it is |
|---|---|
| `SmokeSession` | the smoke test: application, probe, host |
| `OneKeySession` | what it promises, abstractly |
| `SmokeSessionProofs` | its inductive invariant, four safety theorems, the refinement |
| `Registry` | the applications and windows both readers of the registry meet |
| `WindowScan` | the registry walk of the close observer |
| `WindowScanProofs` | its inductive invariant and three safety theorems; the same for `WidgetSearch`, with four |
| `ProcessTree` | what descends from some PIDs, as both process modules read it |
| `ProcessScope` | the two passes over `/proc` and the end check |
| `ProcessScopeProofs` | two inductive invariants, for the end check and for the lineage, and their theorems |
| `SmokeCleanup` | host and probe removing what a test left |
| `SmokeCleanupProofs` | its inductive invariant, three safety theorems and what cleanup may never do |
| `ReleaseGate` | one run of the workflow over all its attempts: build, plans, aggregation, report, gate, publication |
| `ReleaseGateProofs` | its inductive invariant, the theorems on publication, coverage and partial re-runs |
| `PlanRun` | one plan: script, container, traps, finalizer, report |
| `PlanRunProofs` | what the worst of several outcomes says, its inductive invariant, four theorems |
| `DesktopEntry` | what a desktop entry is worth to the test |
| `ApplicationCoverage` | classification, shards, metrics and their aggregation |
| `ApplicationCoverageProofs` | that both readings of contracts and classes agree, its inductive invariant, five theorems |
| `SerialConsole` | commands, markers, late answers and recovery on the console |
| `WidgetSearch` | the search for one control in a tree that changes |
| `ProcessHandoff` | the two scans that find an application behind a privilege boundary |
| `ProcessHandoffProofs` | its inductive invariant and both its properties; the same for `SerialConsole`, with three |
| `MC*` | constants for TLC |

They compose by what one hands to the next: `SmokeSession` takes as one step a
walk that `WindowScan` opens up, and as one step a listing of `/proc` whose
passes `ProcessScope` opens up; so do `WindowScan` and `WidgetSearch`, which let
every listing miss what `ProcessScope` lets it miss;
`SmokeCleanup` starts from the owned processes; `SerialConsole` carries the
answers of all of them; `ApplicationCoverage` takes a session's status as an
input and decides what a shard is worth; `ReleaseGate` takes a plan and a valid
shard as one step, which `PlanRun` and `ApplicationCoverage` open up.

### SmokeSession

`pc` is the place in `application_smoke_session`: `open`, `settle`, `look` (the
head of the content loop), `follow` (its discover), `read` (`_smoke_content`),
`judge` (after the loop), `speech`, `watch`, `closing` (what the close observer
makes of its read), `ended`, `dead`. `target`, `gone`,
`evidence` and `activeOf` are the variables of the function, where evidence is
the *window it was read from*, so that a record can be asked whether its parts
belong together. Time is the flag `late`: the deadline of the current phase has
passed. It may pass between any two steps, which covers every speed of the
probe. A walk of the tree is one step here; `WindowScan` opens it up.

Whether the launch has ended is asked in two steps, as in the code:
`ListScope` lists its processes, and one step later, or many, those are looked
at (`ListedExited`). `fresh` remembers who was forked in between and is asked by
nobody. A process that left both the launch's tree and its group (`detached`)
is listed only as the owner of the proven window.

`host` is the place in `launch_smoke_desktop_entry` and `check`. A READY or a
final record that is no whole record ends the call without a key
(`HostRefuses`). When its budget runs out the host types Ctrl-C and waits for
the shell (`Recover`); that does not kill the probe, whose own `timeout` is
longer than the budget for READY: it may still print READY or a record, or die.

The application is unconstrained: it forks one process, the owner of the windows
or a helper, at any time up to its own exit, maps, fills, hides and destroys
windows, moves the focus, exits or crashes, with or without the shortcut. Hiding
covers the moment of a window that is mapped again. Windows are followed while
the probe may still look at them.

`OneKeySession` says what the user of a verdict relies on: proven at most once,
one key, only for a proven window, and a pass only after the key. The proof may
come after the verdict: READY may be printed when the host has given up.

### WindowScan

One step per D-Bus call: the registry's count, the application at an index, its
child count, the child at an index, a child's states. Before every poll the
processes of the launch are listed again (`ReadScope`), without the process that
published the window: `belongs` are those in the launch's tree or group, which
one may leave (`Depart`), `owned` those this poll listed. `Refused` is
`_read_until_ready`: the whole scan again in the same scope, or the end when the
time is over.
`lingering` is what separates toolkits: the object of a window that left its
list may still answer with its states, or report an error. The history
variables record whether the target was missing at some moment of the scan and
whether an older sibling left during it. They and everything a scan has read
are local to it: `Forget` drops them when a scan ends without a "closed".

### ProcessScope

A tree of processes is stated as the smallest set that is closed under the PPid
fields that were read, which is what the loops over `/proc` compute. One step
per file of `/proc`. `state` distinguishes a zombie, which `/proc` lists and
`launch_process_exited` counts as ended. Sessions are reduced to process groups.
The local variables of a call are reset when it returns. `Start` also picks the
window PID its caller adds.

### SmokeCleanup

`host` walks `cleanup`: SIGTERM, SIGKILL, verification, probe, decision. `probe`
and `round` walk `cleanup_new_windows` through its four levels. A read of the
remaining windows is what it is in the code: the applications of the registry,
oldest first, by the index they have when their turn comes (`ReadApp`), while
applications register and leave; then one read of X11 (`ReadClients`).
`slipped` remembers an application that moved from an index still to be read to
one already read, `reopened` what opened behind the read. xprop has no error for
the probe: a list it cannot give counts as empty (`blind`), and a window it says
nothing about has no PID (`unread`), as one without `_NET_WM_PID`.

Two facts of the code drive the escalation: once the deadline has passed a walk
of a registry with any entry is cut short (`Truncated`), while X11 reads have no
deadline; and the wait for windows to go uses the deadline up, so the loop of
requests after SIGTERM is never entered. SIGTERM and SIGKILL go to the whole
process tree of what remains (`ResidualTree`), whatever is in it. One process
group is modelled, that of the launched command. A `stubborn` process ignores
SIGTERM.

The desktop's processes have any parents within the desktop, and any of those
with an accessible window may be in the baseline (`protected`). A process has at
most one window that the baseline has not. The baseline is taken before every
test and does not change here; a PID is not given to another process.

### ReleaseGate

`job` and `plan` hold the results the workflow expressions read; every result
but `success` is `failure` there, because no expression tells a cancelled or
timed-out job from a failed one. A plan is one step, which sets its result and
uploads an artifact or none. `ran` remembers the attempt and the ISO of each
plan's last execution. An artifact is `good` when what the report reads in it
passed and, for a shard, its metrics file is valid. The two places that select
the newest attempt, the shell of the aggregation and `latest_artifacts`, are
separate definitions, and so are the three places that refuse: the aggregator,
the verdict and the gate. `RerunJob` and `RerunPlans` start again what GitHub
lets a maintainer start again: one job or the failed ones, always with the jobs
that need them; results and outputs of the others are kept, artifacts of every
attempt too. The summary that the aggregation uploads matches the downloads'
patterns but holds nothing they read, so it is left out.

### PlanRun

`pc` walks `run-plan.sh`: preflight, the pipeline, the EXIT trap, the four
writes of `finalize_report.py`, the exit. `container` lives on its own: the
timeout and a signal end the docker client, not what it started, and a killed
script leaves the pipeline behind, so modules go on writing results. `executed`
is how the pipeline ended, `status` what the script has read of it. A signal is
pending until the foreground command is over, and goes before the status
(`ReadStatus`) and, once that is read, before what the script makes of it
(`Judge`): it exits with 130 or 143 and the trap runs in full. In the trap,
which gave up EXIT, a signal ends the script. A results directory is used once.
Every file the finalizer writes in place can be `Torn`; `Normalize`, `Worst`,
`ModuleOutcome`, `Evidence` and `ContextOutcomes` are `report_outcome.py`, where
a torn file and an empty one are the same. `Publish` is the job's report, over a
copy of the first one's `run-status.json`; `Rebuild` is the finalizer called
without a status, by hand.

isotovideo itself is external: which files it writes in which order, and which
exit code goes with which results.

### ApplicationCoverage, DesktopEntry

A desktop entry is a record of the keys that decide anything. The guest's
reading (`Classification`, contracts) and the aggregation's are separate
definitions, as they are separate programs in separate languages; the properties
compare them. The digest that gives an entry its shard is one operator for both
(`ShardFor`): a wrong number of shards is caught, two digests that differ are
not. What `ItemValid` leaves out of an item's evidence are checks that every
item the guest writes meets. `job` walks a shard: boot, coverage metadata, one
test per entry, the single upload, which may fail or arrive unheard, and a job
may be lost between any two. `Worlds` are the ISOs, policies and settings of
the matrix, among them a shard with another ISO, commit, index, count or filter.

### SerialConsole

`typed`, `running` and `serial` are the console: what the guest has not taken,
its foreground command, what the host has not read past. `Kinds` are the four
ways to ask: `probe` (`guest_json`), `handoff` and `child`, which share one
marker for all their calls, and `command`, with a marker of its own. `probe`
and `command` interrupt what they give up on and wait for the shell; the others
go on. `behind` remembers that the host went on without seeing the shell back.
That lines run in the order they were typed is stated by position: what is
printed is not after what runs, and that not after what is typed.

### WidgetSearch

One step per turn of the walk's queue: the registry, an application's windows,
the next child of a control by its index. `mode` is the caller: a unique match
over everything, the same with a registry index tried first, or a witness.
`scoped` is whether it asks the applications of a launch, listed for every scan
(`Scopes`) and read newest first, or all of them in the registry's order, as at
boot; then an application whose process exited is passed over. The histories
`steady` and `shown` say what stayed in its place through the scan and what was
seen at some moment of it; the properties are about the first for absence and
uniqueness and about the second for ambiguity. An application that others move
in the registry keeps its links; `slipped` remembers those that moved to an
index that is not read any more. Controls without an identity are left out. What
a set of links leads to is the smallest set of windows and controls closed under
it. The assumption says what a tree is: the registry lists applications, each
once; an application lists windows; a control hangs below a window or a control,
in several places if it likes, and even in a cycle.

### ProcessHandoff

One step per file of `/proc/PID`: `stat`, `status`, `exe`, `environ`, `stat`
again. A guest process runs through `Stages`, the sets of wanted fields it has;
it may exit, become a zombie and give its PID to another, `births` being the
start time. `began`, `steady` and `settled` remember who had all three fields
when the scan began, ever since, and through the scan before as well.

## 3. The runs

| Run | Question | Bounds |
|---|---|---|
| `smoke_safety` | is READY whole, a pass natural, the abstract session implemented | two windows the probe may prove, one forked process; three contracts: both close modes, with and without speech, windows handed over or not |
| `smoke_live` | do probe and host always end and is READY answered | two windows, the contract with the most waits |
| `scan` | is an application missed, what does a declared absence mean, does the observer end | two owned applications, one of them without a window, a foreign one; target and sibling |
| `scope` | is the scope right under any race, is the end noticed | root, two helpers, a desktop process |
| `handoff` | is the process taken over the only right one, is none missed | two PIDs, three births, processes of four stages |
| `cleanup` | what does a cleanup pass mean, what of the desktop can it touch, does it end | launched command, helper, two desktop processes, one the other's child; one display with accessibility registrations and one without; xprop may fail |
| `plan` | do exit status and reports say no more than was proved, is the container released | two modules, two signals, four results of a module, metrics with and without a failure |
| `coverage` | does passed coverage cover, is a shard that passed counted, do both readings agree | two shards; an application, its alias and a dialog; seven settings, four policies, two ISOs |
| `search` | is a match unique, an absence complete, an ambiguity real | two owned applications and a foreign one, three windows, three controls, four trees; with a scope, which may miss an application, and without; two changes during a search |
| `console` | is an answer the call's own, is the shell free | one kind of each sort, four operations |
| `gate` | is what is published tested, are only last executions counted, does a partial re-run add up, does the gate conclude | two shards and a firmware plan, two attempts |
| `v_ErrorsAreRetried` | a statement of the documentation, refuted by the code | as `search` |

Why these bounds suffice. Mixing the readings of two windows takes two eligible
windows; ignoring one that is not eligible is not run but proved (`WindowKept`).
A process that nobody asks takes one that is forked late. Index shifts take one
older sibling and one other application on either side. The races over `/proc`
take a child that is born and a parent that leaves; a second helper gives a
grandchild. Cleanup tells apart the launched command, what it left behind and
what belongs to the desktop, and a stray process of the desktop from a protected
one it started; a walk that an application slips past takes two. Counting an
execution that was superseded takes two attempts; a set of shards from different
attempts takes two shards; a verdict that fails on its own takes a plan the
aggregation does not read. A read that mixes two lives of a PID takes two births
under it, and a rival takes a third. A report over a superseded context takes
one module that passed and one that did not, and a signal before the trap and
one inside it are two. A wrong shard takes two of them, a wrong answer on the
console an operation that was given up, one that takes its answer and one that
is left with its own late; a fourth shows whether the console recovers. A search
goes wrong with one control that leaves and one that comes. The theorems below
remove the bounds for the safety of every module; the types of the session, the
handoff and the gate, and that the probe keeps the window it proved
(`ProvenWindowIsKept`), are proved and not run again.

Sessions, scans, polls, cleanups and runs really end, so all runs have
`CHECK_DEADLOCK FALSE`. `search` is the largest, with 3.5 million states, and
`plan` the next, with 3.1 million.

### Fairness

`SmokeSession`: the probe's process is scheduled, the clock runs, the host acts
on what it reads, and a dead probe makes the host's budget run out, as nothing
else will come. While the probe lives the budget may run out or not: it need not
for the session to end, because the probe's phases have deadlines of their own.
`WindowScan`, `ProcessScope`, `SmokeCleanup`: the observer or the host runs, and
the clock. `ReleaseGate`: a job ends, since every job has a `timeout-minutes`;
nobody has to start a run again. The other modules state safety only and no
fairness. Nothing is ever assumed of an application, of its windows or of a
provider's answer.

### Where the code disagrees with its documentation

`ErrorsAreRetried` is a run that TLC refutes, and `PROJECT.json` quotes the
lines: the children of a control are read lazily outside of the `try` that
makes an accessibility error one to retry, so it ends the probe.

The others are stated in the modules beside the weaker property that does hold
and that a run checks; the comment of each says that it fails and how.

1. `ReadyIsWhole`: READY may name a window that none of its readings came from,
   when the deadline passes while the probe follows the active window.
   `ReadyIsWholeInTime` shows that this is the only way. READY that is printed
   when the host has given up is not answered; `ReadyIsAnswered` is about the
   others.
2. `OutcomeFollowsKey`: an application that ends on its own between READY and
   the shortcut passes.
3. `CrashFails`: the crash of a forked application passes; only the launched
   command has an exit code.
4. `EndedMeansEnded`: a process forked after the second listing is not asked.
   `EndedUnlessBornLate` shows that this is the only way. So a standard
   application passes over a process forked while the others were looked at, and
   over a helper that left tree and group: `StandardPassIsNatural` says which of
   its processes may be left.
5. `ResidueTerminated`: cleanup passes, degraded, over a window it still sees,
   because the wait used up the time of the escalation. `FullPassIsClean` says
   what a pass that is not degraded means, and what it may still miss: an
   application that moved, in the registry, past the walk, and everything on X11
   when xprop fails.
6. `ProtectedSurvive`: the baseline does not protect a process of the desktop
   that descends from a stray one, since the whole tree of a stray window is
   killed, nor a new X11 window of unknown PID. `DesktopUntouched` shows that
   these, and the stray process itself, are the only ones.
7. `OwnedGroupsGone`: a re-parented member of the launch's group that ignores
   SIGTERM survives a degraded pass; `OwnedPidsGone` is what is left.
8. `PolicyAdapts`: an entry that does not apply to the session but has a
   contract or an alias makes the aggregation fail though every shard passed.
   `CleanMatrixPasses` names the conditions.
9. `AnswerIsOwn`: a late answer with a shared marker is taken for that of the
   next call. `OwnUnlessBehind` shows that it takes a shell that was not seen
   to come back.
10. A report that is built again when `run-status.json` was never written, or
    not to its end, may say ok: modules and metrics are all it knows, and
    `docs/openqa-reports.md` says that missing evidence never becomes a pass. It
    also says that each file is replaced atomically, where `run-status.json` and
    `RESULTADO.json` are written in place. `OkIsEarned` holds for the report of
    the script and the job, and for one that is built over a whole context.
11. "A partial tree never confirms absence" (`docs/openqa-design.md`): a walk in
    the registry's order, as without a scope, and one that tries an earlier
    index first, pass over an application that moved down past the reader, and
    say that a control that stayed is not there, or that a match is unique.
    `AbsenceIsComplete` and `PassedIsUnique` show that nothing else hides one;
    newest first and without a hint nothing does.

Two more are the close observer's: a window that is showing all along can be
declared closed when an older sibling left the list and still answers, and when
its application left the launch's tree and group, because the scope of a poll
does not include the window's own process. `AbsenceHasCause` shows that nothing
else does that.

## 4. The proofs

`SmokeSessionProofs`. The inductive invariant is `Inv == TypeOK /\ ProbeOrder /\
Readings /\ Scopes /\ HostOrder /\ Outcomes`: `ProbeOrder` says which records
exist in which phase; `Readings` that evidence and `active`, when set before the
deadline, come from the target, which the content loop's order of assignments
maintains and which `ReadyIsWholeInTime` alone does not carry through a step;
`Scopes` that what is listed was born and holds all of the launch but what was
forked since, which carries what the end check may say from the listing to the
look; `HostOrder` that the host is only past READY if READY was printed, and how
many shortcuts it has sent; `Outcomes` what a `passed` opinion requires, which
`StandardPassIsNatural` needs because the verdict comes one step later. From it
follow `TypeCorrect`, `ReadyWhole`, `StandardPass`, `WindowKept` and
`Refinement` (every step of the session is a step of `OneKeySession` or leaves
its variables alone), for every set of windows, every set of contracts and no
other assumption than `None` being none of the windows or records.

`ProcessScopeProofs`. Two inductive invariants, for every finite set of PIDs.
`Inv`, for `EndedUnlessLate`, follows a running member of the root's group that
is not born late: it is listed, then in scope, then unchecked, and cannot be
struck off while it runs. `LineageInv`, for `TypeCorrect` and `NoneImported`,
adds to the types that whoever has a parent other than init, or was *read* with
one, was forked by the launch, as was every member of the group the root leads.
`NothingImported` alone does not survive a re-parenting between two reads,
since the next tree is built from the fields read before it. That a tree stays
within the launch is the lemma `TreeWithin`: a set that holds the roots and
every process whose read parent it holds bounds the tree. No induction is
needed, because the tree is the smallest such set.

`SmokeCleanupProofs`. For any processes, any desktop, any parents within it and
any displays. The invariant adds four parts to the types. `DesktopApart`: the
desktop's parents stay within the desktop, and the host owns none of it, so the
trees and the group it kills have none (`OwnedApart`). `Unprotected`: nothing
protected is listed but an X11 window of unknown PID; from it the lemma
`ResidueIsStray` bounds what the probe kills of the desktop by the trees of
stray processes. `DesktopSurvives` needs the two at every one of the places that
close or kill. `VerdictKnown`: what the host read of its PIDs is still so when
it decides, one step or many later. `ReadIsFresh`: during the walk a window it
has to see is listed, or at an index still to be read (`Ahead`), or it opened or
slipped since; when an application leaves, all later indexes move by one, and
`DeregisterInv` shows that only the one at the index to be read next can fall
behind. This ties `FullPassMeansClean` to the read and not to the moment of the
verdict.

`WindowScanProofs`. For any applications and windows, in any order. `Once`:
what is not registered yet was never in a list, so nothing that left a list
comes back into it. `InReach`: an owned application that stays is covered, or
at an index the scan has not passed; removals only move it down, towards what
is still to be read (`NotLater`), and what is appended is not one that stayed;
what stayed is in the scope of this poll, so it is not skipped. That gives
`NoAppIsMissed`. `InScope`: every scope lists the target's application until
that leaves the launch. `AbsenceIsCaused` needs to follow the target within
its application's list, where the reading order is the other way round. While
it was neither missed (`InSight`) nor shifted, `Followed` says that it is still
ahead of the reader, at an index that the count includes, with all its older
siblings read so far in `found`; or that one of those is *dead*, no longer
listed and without an object that answers. A dead window stays dead
(`DeadStays`), so the scan fails when it asks for its states, and the target is
not declared closed by it. When an older sibling leaves and the target moves to
an index already read, `AheadStays` shows that one of the two is the case. The
assumptions are finite sets and that no application is a window.

`PlanRunProofs`. For any number of modules and signals, any payloads and codes.
The lemmas on outcomes come first: the worst of a set is in it, and is good
only if nothing failed or unknown is in the set (`WorstBounds`), so a good
summary has neither among the evidence and none in a context (`SummaryIsWorst`).
`ZeroIsFinal` says that a pipeline that ended with 0 left no container to write
more; without it `OkIsEarned` is lost when a module goes on after the report.
`SignalIsKept` says that a signal that came is pending or has failed the script,
whichever of the two places handled it.
`ResultIsJudged` carries what the trap saw to the exit, `ReportIsWritten` what
the finalizer has written to its next stage and to the reports that are built
later. `MarkerAssumption` keeps a missing and a torn file apart from every
content.

`ApplicationCoverageProofs`. For any entries, policies, number of shards and
worlds. The invariant says that a shard tests only after it accepted its
setting and policy (`Accepted`), records only what a test may give (`Recorded`),
and has passed only with its whole share tested and uploaded (`PassedShard`);
`Judged` relates the verdict to the evidence it was taken from, which no shard
changes any more. `PassedIsCovered` then follows from what the aggregation
checks: all files are there, with every index once, so the shard an entry's
digest names has it. `GuestsAndAggregationAgree` is the converse: the lemmas
`CompletedContract` and `Classes` prove, over all entries, that what the guest
writes about a contract or a class is what the aggregation computes, and
`MatrixIsGood` that no check can refuse a clean matrix. `WorldsAssumption` is
what the policy's parser guarantees of any policy.

`ReleaseGateProofs`. For any plans, shards and attempts: types and the unique
name of every artifact, `VerdictEarned`, `CoverageCurrent`, `PublishedTested`
and `RerunCompletes`. Besides the types the invariant has four parts: `Chain`, a
job with a result still has the results it required, which is what a partial
re-run could break; `Executions`, the last execution of a plan is not older than
any of its artifacts; `Passed`, a plan that passed left its artifact, on the ISO
that is the candidate now; `Counted`, what the aggregation took is that
evidence. The step from `Executions` and `Passed` to the choice of the newest
artifact is the lemma `NewestIsEvidence`, used by the aggregation, by the report
and by `RerunCompletes`: evidence of different attempts is of one ISO. A failed
execution that uploads nothing does make the report read an older artifact; what
keeps the verdict honest then is the result of the job, and the proof uses it.

`ProcessHandoffProofs`. Both properties hold for any PIDs, births and stages,
from one assumption: a process does not return to a user, an executable or a
token it left. Neither is inductive. The fields of one identity are read at
different times, so a single scan can match a process that never had all three
at once. `Readings` says that what was read *was had*, now or earlier; a field
had at the end of the first scan and again in the second was had in between, so
the match of the scan before either had everything when this scan began or has
lost something for good (`Lost`), and then comes only as far as the reading of
that (`Doomed`). `Steadily` follows a process that has everything throughout:
it is still listed, or being read, or found.

`ProcessHandoffProofs`, second half: the console. For any kinds of calls, any
number of them and any division into markers that are shared and markers that
are not. `OwnUnlessBehind` and `ShellIsFree` speak of one moment; what carries
them from call to call is where things are on the console. `NothingNewer`: no
line, typed, running or printed, is of a later call than the current one, and
the question whether the shell is back only exists once the command was given up
on. `AskedOnce`: the marker the host waits for is the last thing on the console
and there exactly once, so that finding it leaves nothing behind it; it is
typed, or runs, or is printed, and an interrupt takes away only what was typed
before it. `OnlyOwn`: while nothing was missed, all answers on the console are
this call's. A call that waits for a shared marker with an old answer before it
is exactly what `behind` excludes, and a call with a marker of its own clears it
because `NothingNewer` leaves no other call with that marker. The first match
the host reads up to is a least position, which exists because numbers are well
founded (`LeastExists`).

`WindowScanProofs`, second half: the search. For any finite set of controls, any
trees, hints and modes, and any changes of the tree between two steps. The
histories speak of paths, the search of a queue; the invariant needs neither
path nor induction. `Coverage` says there is a *set* of nodes that was searched:
every match in it was found, no steady link leads out of it, and the windows of
the owned applications that kept their place are in it or still due, that is in
`wins` or under an application at an index still to read. When nothing is due
that set is closed, so it bounds what steady links reach (`ReachedIsSearched`),
and every match that stayed was found. A scan begins with the empty set; leaving
a window adds the nodes visited in it (`LeaveWindowKeeps`), which are closed
because of `InWindow`: a steady child of a visited node is visited itself, or
queued at an index that its iterator has not passed. The tree may change between
any two of these steps. `LeaveMoves` and `JoinMoves` show, for any sequence of
children, that a link that is still steady after a change has its child at the
index it had, so an iterator that has not passed it will come to it.
Applications do move and stay steady; the histories reckon with one only while
it has not slipped (`Reckoned`), and `Passed` in the model is exactly what a
departure moves out of reach. In a scope and without a hint the indexes still to
be read are all below the reader (`Backwards`), so nothing that moves down
slips, which is the second half of `AbsenceComplete`. `Remembered` ties what was
found to what was shown, for `AmbiguityReal`. `broken` suspends `Coverage` and
`InWindow`; the code then never says that nothing is there, which is what
`AbsenceIsComplete` requires of it.

Both are proved in the module of the component they belong to, which extends
the two components: the process that is taken over is reported over that
console, and the search reads the registry that `WindowScan` opens up. The
second component therefore has names of its own (`ConsoleSpec`, `SearchSpec`,
`hostPc`, `stage`); nothing is assumed of how the steps of the two interleave,
and no assumption of one is used for the other.

Every inductive invariant was checked with TLC on its component's instance
before it was proved, and all proofs are free of assumptions but the named ones
of the modules, which TLC evaluates in the runs.

Only model-checked is liveness, since the prover has no fairness:
`SessionEnds`, `ObserverEnds`, `EndIsNoticed`, `CleanupEnds`, `GateConcludes`.
Every invariant and every other property of a passing run is proved.

## 5. Plan

Done: `SmokeSession` with `OneKeySession`, `WindowScan`, `ProcessScope`,
`SmokeCleanup`, `ReleaseGate`, `ApplicationCoverage`, `WidgetSearch`,
`SerialConsole`, `ProcessHandoff`, `PlanRun`, and the eight modules of proofs.

Next, in this order:

1. `Launch`: `gui_user_launch.sh`, `gui_supervisor.sh`, the launcher: one
   instance, the status file, the child's PID and exit code; it would cover the
   child whose PID is not read in time.
2. `CloseShortcut` with its dialogs, and `KeyboardTraversal`: visited controls,
   a focus that moves back.
3. `OrcaObserver`: the offset in the speech log.

## 6. Not modelled

Rendering of reports, package lists, overlays and themes hold no protocol.
The installer and the tests of the installed system go through one screen after
another, with the searches modelled here between them; the ISO build scripts
edit files and call build tools in sequence. PID reuse is modelled where the
code guards against it (`ProcessHandoff`) and abstracted elsewhere, as are the
compositor's focus and the contents of accessible objects; the hazards say
where that matters.
