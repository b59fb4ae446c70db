------------------------------ MODULE PlanRun ------------------------------
(***************************************************************************)
(* One plan of the gate: openqa/production/run-plan.sh around isotovideo   *)
(* in a container, its EXIT trap that releases the container and reports,  *)
(* the report (openqa/report/finalize_report.py and report_outcome.py),    *)
(* and the second report, of the job in openqa.yml or of somebody who      *)
(* builds it again.  Signals, a kill, the timeout and a full disk may come *)
(* at any time.                                                            *)
(***************************************************************************)
EXTENDS Naturals, FiniteSets

CONSTANTS
  Count,      \* the scheduled modules are 1..Count
  Payloads,   \* what isotovideo writes of one: [result, details]
  Metrics,    \* what the applications' metrics say: sets of statuses
  MaxSignals, \* bound on the signals the script gets
  Absent,     \* no such file, or no such value
  Torn        \* a file that was not written to its end

Modules == 1..Count
Outcomes == {"skipped", "ok", "softfail", "unknown", "fail"}
Raw == Outcomes \union {"none", "passed", "failed", "success", "failure", "cancelled"}
Codes == {0, 1, 100, 101, 124, 130, 137, 143}

ASSUME PlanAssumption ==
  /\ Count \in Nat \ {0} /\ MaxSignals \in Nat
  /\ Payloads \subseteq [result : Raw \union {Absent}, details : SUBSET Raw]
  /\ Metrics \subseteq SUBSET Raw

Contexts == [status : {"success", "failure", "cancelled", Absent},
             runner : Codes \union {Absent}, isotovideo : Codes \union {Absent}]
Reports == [result : Outcomes, detailed : BOOLEAN]

(* The two markers are none of the values in whose place they stand.        *)
ASSUME MarkerAssumption ==
  /\ Absent # Torn /\ Absent \notin Raw /\ Absent \notin Codes
  /\ \A set \in {Payloads, Metrics, Contexts, Reports} : Absent \notin set /\ Torn \notin set

VARIABLES
  container,   \* "none", "running", "gone"
  files,       \* the result file of each module
  order,       \* whether test_order.json lists the modules
  metrics,     \* the applications' metrics
  kvm,         \* whether the log proves KVM
  executed,    \* how the pipeline ended: isotovideo's code or the timeout's
  archived,    \* whether tee wrote the log
  pc,          \* where the script is
  result,      \* the status the script is about to exit with
  status,      \* isotovideo's, once the script read it
  signal, signals,  \* the pending signal as its exit status; how many came
  code,        \* how the script ended
  runStatus,   \* report/run-status.json
  report,      \* report/RESULTADO.json
  errors,      \* whether the finalizer failed
  published,   \* the result of the job's report
  rebuilt,     \* the result of a report that was built again
  interrupted, refused  \* history: a signal or kill cut the script short;
                        \* the container could not be removed

evidence == <<files, order, metrics>>
pipeline == <<kvm, executed, archived>>
script == <<pc, result, status, signal, signals, code>>
reports == <<runStatus, report, errors>>
after == <<published, rebuilt>>
history == <<interrupted, refused>>
vars == <<container, evidence, pipeline, script, reports, after, history>>

Finalizing == {"context", "summary", "detail", "rewrite"}

TypeOK ==
  /\ container \in {"none", "running", "gone"}
  /\ files \in [Modules -> Payloads \union {Absent, Torn}]
  /\ order \in BOOLEAN /\ metrics \in Metrics \union {Absent, Torn}
  /\ kvm \in BOOLEAN /\ executed \in Codes \union {Absent} /\ archived \in BOOLEAN
  /\ pc \in {"preflight", "isotovideo", "judge", "trap", "leave", "exited"} \union Finalizing
  /\ result \in Codes /\ status \in Codes \union {Absent}
  /\ signal \in {0, 130, 143} /\ signals \in 0..MaxSignals
  /\ code \in Codes \union {Absent} /\ (pc = "exited" <=> code # Absent)
  /\ runStatus \in Contexts \union {Absent, Torn}
  /\ report \in Reports \union {Absent, Torn}
  /\ errors \in BOOLEAN
  /\ published \in Outcomes \union {Absent} /\ rebuilt \in Outcomes \union {Absent}
  /\ interrupted \in BOOLEAN /\ refused \in BOOLEAN
  \* nothing runs before its container, and one module at a time
  /\ container = "none" => \A m \in Modules : files[m] = Absent
  /\ \A m, n \in Modules : m < n /\ files[n] # Absent => files[m] \in Payloads

Init ==
  /\ container = "none" /\ files = [m \in Modules |-> Absent] /\ order = FALSE
  /\ metrics = Absent /\ kvm = FALSE /\ executed = Absent /\ archived \in BOOLEAN
  /\ pc = "preflight" /\ result = 0 /\ status = Absent /\ signal = 0 /\ signals = 0
  /\ code = Absent /\ runStatus = Absent /\ report = Absent /\ errors = FALSE
  /\ published = Absent /\ rebuilt = Absent /\ interrupted = FALSE /\ refused = FALSE

-----------------------------------------------------------------------------
(* report_outcome.py                                                        *)

Normalize(value) ==
  CASE value \in Outcomes -> value
    [] value \in {"passed", "success"} -> "ok"
    [] value \in {"failed", "failure"} -> "fail"
    [] OTHER -> "unknown"

Priority(outcome) ==
  CASE outcome = "skipped" -> 0
    [] outcome = "ok" -> 1
    [] outcome = "softfail" -> 2
    [] outcome = "unknown" -> 3
    [] outcome = "fail" -> 4

Worst(values) ==
  IF values = {} THEN "unknown"
  ELSE CHOOSE w \in values : \A v \in values : Priority(v) <= Priority(w)

(* Mutant: a module is what it says it is.                                  *)
OwnResult(payload) ==
  IF payload = Torn \/ payload.result = Absent THEN "unknown" ELSE Normalize(payload.result)

(* A failed detail fails the module, whatever its own result is.            *)
ModuleOutcome(payload) ==
  LET values == {Normalize(d) : d \in payload.details}
      top    == Normalize(payload.result)
  IN  CASE payload = Torn -> "unknown"
        [] payload # Torn /\ payload.result = Absent -> Worst(values)
        [] payload # Torn /\ payload.result # Absent /\ "fail" \in values -> "fail"
        [] OTHER -> IF "softfail" \in values THEN Worst({top, "softfail"}) ELSE top

Unless(condition, outcome) == IF condition THEN {} ELSE {outcome}

Evidence ==
  LET present == {m \in Modules : files[m] # Absent}
      modules == {ModuleOutcome(files[m]) : m \in present}
  IN  modules
        \union Unless(order => present = Modules, "unknown")
        \union Unless(modules \ {"skipped"} # {}, "unknown")
        \union CASE metrics = Absent -> {}
                 [] metrics = Torn -> {"unknown"}
                 [] OTHER -> {Normalize(s) : s \in metrics}

(* What a run-status.json, or the environment, says of the execution.       *)
ContextOutcomes(context) ==
  IF context = Torn THEN {"unknown"}
  ELSE (IF context.status = Absent THEN {} ELSE {Normalize(context.status)})
         \union Unless(context.runner \in {0, Absent}, "fail")
         \union Unless(context.isotovideo \in {0, Absent}, "fail")

Summarize(contexts) == Worst(Evidence \union UNION {ContextOutcomes(c) : c \in contexts})

-----------------------------------------------------------------------------
(* isotovideo in its container.                                             *)

InContainer ==
  /\ container = "running"
  /\ UNCHANGED <<archived, script, reports, after, history>>

WriteOrder ==
  /\ InContainer /\ ~order
  /\ order' = TRUE /\ kvm' \in BOOLEAN
  /\ UNCHANGED <<container, files, metrics, executed>>

(* The next module writes its result.                                       *)
StartWriting ==
  /\ InContainer /\ order
  /\ \E m \in Modules :
       /\ files[m] = Absent /\ \A n \in Modules : n < m => files[n] \in Payloads
       /\ files' = [files EXCEPT ![m] = Torn]
  /\ UNCHANGED <<container, order, metrics, kvm, executed>>

EndWriting ==
  /\ InContainer
  /\ \E m \in Modules, payload \in Payloads :
       files[m] = Torn /\ files' = [files EXCEPT ![m] = payload]
  /\ UNCHANGED <<container, order, metrics, kvm, executed>>

UploadMetrics ==
  /\ InContainer /\ metrics = Absent
  /\ metrics' \in Metrics \union {Torn}
  /\ UNCHANGED <<container, files, order, kvm, executed>>

Succeeded(m) == files[m] \in Payloads /\ files[m].result \in {"ok", "softfail"}

(* With -e: 0 when every module ended ok or softfail, 100 when none ran, 101 *)
(* when one failed; anything else when the backend breaks.                  *)
IsotovideoEnds ==
  /\ InContainer
  /\ container' = "gone"
  /\ executed' \in
       IF executed # Absent THEN {executed}
       ELSE {1} \union (IF \A m \in Modules : Succeeded(m) THEN {0} ELSE {})
                \union (IF \A m \in Modules : files[m] = Absent THEN {100} ELSE {})
                \union (IF \E m \in Modules : files[m] \in Payloads /\ ~Succeeded(m)
                        THEN {101} ELSE {})
  /\ UNCHANGED <<evidence, kvm>>

(* timeout ends the docker client, and not the container it started.        *)
TimedOut ==
  /\ container = "running" /\ executed = Absent /\ executed' \in {124, 137}
  /\ UNCHANGED <<container, evidence, kvm, archived, script, reports, after, history>>

Container ==
  WriteOrder \/ StartWriting \/ EndWriting \/ UploadMetrics \/ IsotovideoEnds \/ TimedOut

-----------------------------------------------------------------------------
(* run-plan.sh                                                              *)

Signal ==
  /\ pc # "exited" /\ signal = 0 /\ signals < MaxSignals
  /\ signal' \in {130, 143} /\ signals' = signals + 1
  /\ UNCHANGED <<container, evidence, pipeline, pc, result, status, code, reports, after,
                 history>>

Exit(c) == pc' = "exited" /\ code' = c

(* Without a results directory there is nothing to report.                  *)
PreflightFails ==
  /\ pc = "preflight"
  /\ LET failure == IF signal # 0 THEN signal ELSE 1
     IN  /\ result' = failure /\ signal' = 0
         /\ \/ pc' = "trap" /\ UNCHANGED code
            \/ signal = 0 /\ Exit(failure)
  /\ UNCHANGED <<container, evidence, pipeline, status, signals, reports, after, history>>

Start ==
  /\ pc = "preflight" /\ signal = 0
  /\ pc' = "isotovideo" /\ container' = "running"
  /\ UNCHANGED <<evidence, pipeline, result, status, signal, signals, code, reports, after,
                 history>>

(* The pipeline is over.  A signal that came while it ran is handled now,   *)
(* before its status is read.                                               *)
ReadStatus ==
  /\ pc = "isotovideo" /\ executed # Absent
  /\ IF signal # 0
     THEN pc' = "trap" /\ result' = signal /\ signal' = 0 /\ UNCHANGED status
     ELSE pc' = "judge" /\ status' = executed /\ UNCHANGED <<result, signal>>
  /\ UNCHANGED <<container, evidence, pipeline, signals, code, reports, after, history>>

(* Mutant: what the log has to prove goes before how isotovideo ended.      *)
JudgedByLog == IF ~archived \/ ~kvm THEN 1 ELSE status

(* isotovideo's failure goes before what is wrong with its log.             *)
Judged == IF status # 0 THEN status ELSE IF ~archived \/ ~kvm THEN 1 ELSE 0

(* A signal that comes once the status is read still goes before it.        *)
Judge ==
  /\ pc = "judge" /\ pc' = "trap" /\ signal' = 0
  /\ result' = IF signal # 0 THEN signal ELSE Judged
  /\ UNCHANGED <<container, evidence, pipeline, status, signals, code, reports, after, history>>

(* Mutant: a container is removed when its own run failed.                  *)
RemoveFailed ==
  \/ /\ container' = IF status \notin {0, Absent} THEN "gone" ELSE container
     /\ UNCHANGED refused
  \/ container = "running" /\ refused' = TRUE /\ UNCHANGED container

(* docker rm --force after every failure; it may fail itself.               *)
Remove ==
  \/ /\ container' = IF result # 0 /\ container = "running" THEN "gone" ELSE container
     /\ UNCHANGED refused
  \/ result # 0 /\ container = "running" /\ refused' = TRUE /\ UNCHANGED container

(* finish_report.  Once it took the EXIT trap away, a signal ends the       *)
(* script: at once, or when docker rm is done.                              *)
Release ==
  /\ pc = "trap"
  /\ Remove
  /\ IF signal # 0
     THEN Exit(signal) /\ interrupted' = TRUE
     ELSE pc' = "context" /\ UNCHANGED <<code, interrupted>>
  /\ UNCHANGED <<evidence, pipeline, result, status, signal, signals, reports, after>>

Interrupted ==
  /\ pc = "trap" /\ signal # 0
  /\ Exit(signal) /\ interrupted' = TRUE
  /\ UNCHANGED <<container, evidence, pipeline, result, status, signal, signals, reports, after,
                 refused>>

(* Mutant: the trap ends with isotovideo's status, which may be none.       *)
LeaveWithStatus ==
  /\ pc = "leave" /\ Exit(IF signal # 0 THEN signal ELSE status)
  /\ interrupted' = (interrupted \/ signal # 0)
  /\ UNCHANGED <<container, evidence, pipeline, result, status, signal, signals, reports, after,
                 refused>>

(* The finalizer ended: a pass without its report is none.                  *)
Leave ==
  /\ pc = "leave"
  /\ Exit(CASE signal # 0 -> signal
            [] signal = 0 /\ errors /\ result = 0 -> 1
            [] OTHER -> result)
  /\ interrupted' = (interrupted \/ signal # 0)
  /\ UNCHANGED <<container, evidence, pipeline, result, status, signal, signals, reports, after,
                 refused>>

(* Nothing handles SIGKILL, and the pipeline goes on without the script.    *)
Kill ==
  /\ pc # "exited"
  /\ Exit(137) /\ interrupted' = TRUE
  /\ UNCHANGED <<container, evidence, pipeline, result, status, signal, signals, reports, after,
                 refused>>

Script ==
  \/ Signal \/ PreflightFails \/ Start \/ ReadStatus \/ Judge
  \/ Release \/ Interrupted \/ Leave \/ Kill

-----------------------------------------------------------------------------
(* finalize_report.py, called by the trap: every file is written in place.  *)

Context ==
  [status |-> IF result = 0 THEN "success" ELSE "failure", runner |-> result,
   isotovideo |-> status]

Unfinalized == UNCHANGED <<container, evidence, pipeline, result, status, signal, signals, code,
                           after, history>>

WriteContext ==
  /\ pc = "context" /\ pc' = "summary"
  /\ runStatus' = Context
  /\ UNCHANGED <<report, errors>> /\ Unfinalized

WriteSummary ==
  /\ pc = "summary" /\ pc' = "detail"
  /\ report' = [result |-> Summarize({Context, runStatus}), detailed |-> FALSE]
  /\ UNCHANGED <<runStatus, errors>> /\ Unfinalized

Render ==
  /\ pc = "detail" /\ pc' = "rewrite"
  /\ errors' \in BOOLEAN
  /\ UNCHANGED <<runStatus, report>> /\ Unfinalized

Rewrite ==
  /\ pc = "rewrite" /\ pc' = "leave"
  /\ report' = [report EXCEPT !.detailed = ~errors]
  /\ UNCHANGED <<runStatus, errors>> /\ Unfinalized

(* It gets the signal too, or cannot write: the file it was at is torn.     *)
FinalizerBreaks ==
  /\ pc \in Finalizing /\ pc' = "leave" /\ errors' = TRUE
  /\ runStatus' = IF pc = "context" THEN Torn ELSE runStatus
  /\ report' = IF pc \in {"summary", "rewrite"} THEN Torn ELSE report
  /\ Unfinalized

Finalizer == WriteContext \/ WriteSummary \/ Render \/ Rewrite \/ FinalizerBreaks

-----------------------------------------------------------------------------
(* The other callers of the finalizer.                                      *)

InJob(jobStatus) == [status |-> jobStatus, runner |-> Absent, isotovideo |-> Absent]

(* The job's report reads what was collected, the first report's context    *)
(* too, unless the password could not be redacted.                          *)
Publish ==
  /\ pc = "exited" /\ published = Absent /\ rebuilt = Absent
  /\ \E jobStatus \in {"success", "failure", "cancelled"}, redacted \in BOOLEAN :
       /\ jobStatus = "success" => code = 0 /\ redacted
       /\ published' = IF redacted
                       THEN Summarize({InJob(jobStatus)} \union ({runStatus} \ {Absent}))
                       ELSE Worst({"unknown"} \union ContextOutcomes(InJob(jobStatus)))
  /\ UNCHANGED <<container, evidence, pipeline, script, reports, rebuilt, history>>

(* Mutant: the context of whoever builds it again.                          *)
ForgottenContext == InJob(Absent)

(* Without a status of its own the finalizer takes the one that is there.   *)
KeptContext == IF runStatus \in {Absent, Torn} THEN InJob(Absent) ELSE runStatus

Rebuild ==
  /\ pc = "exited" /\ published = Absent /\ rebuilt = Absent
  /\ rebuilt' = Summarize({KeptContext})
  /\ UNCHANGED <<container, evidence, pipeline, script, reports, published, history>>

Next == Container \/ Script \/ Finalizer \/ Publish \/ Rebuild

Spec == Init /\ [][Next]_vars

-----------------------------------------------------------------------------
(* Properties.                                                              *)

Good == {"skipped", "ok", "softfail"}
Executed == executed = 0 /\ archived /\ kvm /\ \A m \in Modules : Succeeded(m)
Proven ==
  Executed /\ \A m \in Modules : {"fail", "failed"} \intersect files[m].details = {}

(* "Evidence that is missing or unreadable never becomes a pass": no report *)
(* is good over a plan that did not prove itself, whatever was cut short,   *)
(* and a report that is built again does not forget what the first knew.    *)
OkIsEarned ==
  /\ report \notin {Absent, Torn} /\ report.result \in Good => Proven
  /\ published \in Good => Proven /\ code = 0
  /\ rebuilt \in Good /\ runStatus \notin {Absent, Torn} => Proven

(* "The executor's own exit status is preserved; if the tests passed but    *)
(* the report failed, the run is not reported as a success."  A signal that *)
(* comes at any time before the exit, the status of isotovideo read or not, *)
(* is the one thing that goes before a failure of isotovideo, and no plan   *)
(* that got one exits with 0.                                               *)
ExitIsHonest ==
  pc = "exited" =>
    /\ code = 0 => /\ Executed /\ signals = 0
                   /\ report \notin {Absent, Torn} /\ report.detailed
    /\ ~interrupted /\ status \notin {0, Absent} =>
         code = status \/ (signals > 0 /\ code \in {130, 143})

(* A script that ended in any way but by the signals that cut its trap      *)
(* short leaves no container behind that docker could remove.               *)
ContainerReleased ==
  pc = "exited" /\ container = "running" => interrupted \/ refused

=============================================================================
