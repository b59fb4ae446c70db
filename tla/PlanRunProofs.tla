---------------------------- MODULE PlanRunProofs ---------------------------
(***************************************************************************)
(* For any number of modules, any results of theirs and any number of      *)
(* signals: what a good report, a zero exit status and an ended script     *)
(* prove of the plan.                                                      *)
(***************************************************************************)
EXTENDS PlanRun, TLAPS

(* The script has a status to exit with.                                    *)
Decided == {"trap", "leave"} \union Finalizing

(* Only a container that is gone leaves 0, so what 0 proves stays so.       *)
ZeroIsFinal ==
  /\ pc = "preflight" => container = "none"
  /\ executed = 0 => container = "gone" /\ \A m \in Modules : Succeeded(m)

(* The status of the script is that of a signal it got.                     *)
Signalled == signals > 0 /\ result \in {130, 143}

(* A signal that came is pending, or it has failed the script.              *)
SignalIsKept ==
  /\ signal # 0 => signals > 0
  /\ pc # "exited" /\ signals > 0 => signal # 0 \/ (pc \in Decided /\ result # 0)

(* A script that is about to exit with 0 has seen isotovideo succeed, and   *)
(* one that is not exits with isotovideo's own failure if it read one and   *)
(* no signal came before the exit.                                          *)
ResultIsJudged ==
  /\ pc \in {"preflight", "isotovideo"} => status = Absent
  /\ pc = "judge" => status # Absent /\ status = executed
  /\ pc \in Decided /\ result = 0 => Executed
  /\ pc \in Decided /\ status \notin {0, Absent} => result = status \/ Signalled
  /\ pc \in {"leave"} \union Finalizing => container # "running" \/ refused

(* What the finalizer has written when it gets to each of its stages.       *)
ReportIsWritten ==
  /\ pc \in {"detail", "rewrite"} => report \in Reports
  /\ pc = "leave" /\ ~errors => report \in Reports /\ report.detailed
  /\ runStatus \in Contexts => runStatus.runner # Absent
  /\ runStatus \in Contexts /\ runStatus.runner = 0 => Executed
  /\ pc # "exited" => published = Absent /\ rebuilt = Absent

Inv ==
  /\ TypeOK /\ ZeroIsFinal /\ SignalIsKept /\ ResultIsJudged /\ ReportIsWritten
  /\ OkIsEarned /\ ExitIsHonest /\ ContainerReleased

-----------------------------------------------------------------------------
(* Outcomes.                                                               *)

LEMMA NormalizeType == ASSUME NEW value PROVE Normalize(value) \in Outcomes
  BY DEF Normalize, Outcomes

(* A good worst outcome has nothing unknown and no failure under it.        *)
LEMMA WorstBounds ==
  ASSUME NEW values, values \subseteq Outcomes
  PROVE  /\ Worst(values) \in Outcomes
         /\ Worst(values) \in Good => "unknown" \notin values /\ "fail" \notin values
<1>1. CASE values = {}
  BY <1>1 DEF Worst, Outcomes
<1>2. CASE values # {}
  <2>1. /\ Priority("skipped") = 0 /\ Priority("ok") = 1 /\ Priority("softfail") = 2
        /\ Priority("unknown") = 3 /\ Priority("fail") = 4
    BY DEF Priority
  <2>2. \E w \in values : \A v \in values : Priority(v) <= Priority(w)
    <3>1. \A v \in values : v \in {"skipped", "ok", "softfail", "unknown", "fail"}
      BY DEF Outcomes
    <3>2. CASE "fail" \in values
      BY <2>1, <3>1, <3>2
    <3>3. CASE "fail" \notin values /\ "unknown" \in values
      BY <2>1, <3>1, <3>3
    <3>4. CASE "fail" \notin values /\ "unknown" \notin values /\ "softfail" \in values
      BY <2>1, <3>1, <3>4
    <3>5. CASE values \intersect {"fail", "unknown", "softfail"} = {} /\ "ok" \in values
      BY <2>1, <3>1, <3>5
    <3>6. CASE values \subseteq {"skipped"}
      <4>1. "skipped" \in values /\ \A v \in values : v = "skipped"
        BY <1>2, <3>6
      <4>2. QED
        BY <2>1, <4>1
    <3>7. QED
      BY <3>1, <3>2, <3>3, <3>4, <3>5, <3>6
  <2>3. Worst(values) \in values /\ \A v \in values : Priority(v) <= Priority(Worst(values))
    BY <1>2, <2>2 DEF Worst
  <2>4. ASSUME Worst(values) \in Good, NEW v \in values, v \in {"unknown", "fail"}
        PROVE  FALSE
    BY <2>1, <2>3, <2>4 DEF Good
  <2>5. QED
    BY <2>3, <2>4
<1>3. QED
  BY <1>1, <1>2

LEMMA ModuleOutcomeType == ASSUME NEW payload PROVE ModuleOutcome(payload) \in Outcomes
<1> DEFINE values == {Normalize(d) : d \in payload.details}
           top    == Normalize(payload.result)
<1>1. values \subseteq Outcomes /\ top \in Outcomes /\ {top, "softfail"} \subseteq Outcomes
  BY NormalizeType DEF Outcomes
<1>2. Worst(values) \in Outcomes /\ Worst({top, "softfail"}) \in Outcomes
  BY <1>1, WorstBounds
<1>3. QED
  BY <1>1, <1>2 DEF ModuleOutcome, Outcomes

LEMMA OutcomesType ==
  /\ Evidence \subseteq Outcomes
  /\ \A context : ContextOutcomes(context) \subseteq Outcomes
<1>1. Evidence \subseteq Outcomes
  <2> DEFINE present == {m \in Modules : files[m] # Absent}
             modules == {ModuleOutcome(files[m]) : m \in present}
             ofMetrics == CASE metrics = Absent -> {}
                            [] metrics = Torn -> {"unknown"}
                            [] OTHER -> {Normalize(s) : s \in metrics}
  <2>1. modules \subseteq Outcomes
    BY ModuleOutcomeType
  <2>2. ofMetrics \subseteq Outcomes
    BY NormalizeType DEF Outcomes
  <2>3. \A condition : Unless(condition, "unknown") \subseteq Outcomes
    BY DEF Unless, Outcomes
  <2> HIDE DEF ofMetrics
  <2>4. Evidence = modules \union Unless(order => present = Modules, "unknown")
                     \union Unless(modules \ {"skipped"} # {}, "unknown") \union ofMetrics
    BY DEF Evidence, ofMetrics
  <2>5. QED
    BY <2>1, <2>2, <2>3, <2>4
<1>2. ASSUME NEW context PROVE ContextOutcomes(context) \subseteq Outcomes
  <2>1. Normalize(context.status) \in Outcomes
    BY NormalizeType
  <2>2. QED
    BY <2>1 DEF ContextOutcomes, Unless, Outcomes
<1>3. QED
  BY <1>1, <1>2

(* A good summary is good about each of the things it summarises.           *)
LEMMA SummaryIsWorst ==
  ASSUME NEW contexts
  PROVE  /\ Summarize(contexts) \in Outcomes
         /\ Summarize(contexts) \in Good =>
              /\ Evidence \intersect {"unknown", "fail"} = {}
              /\ \A c \in contexts : ContextOutcomes(c) \intersect {"unknown", "fail"} = {}
<1> DEFINE all == Evidence \union UNION {ContextOutcomes(c) : c \in contexts}
<1>1. all \subseteq Outcomes
  BY OutcomesType
<1>2. Summarize(contexts) = Worst(all)
  BY DEF Summarize
<1> HIDE DEF all
<1>3. /\ Summarize(contexts) \in Outcomes
      /\ Summarize(contexts) \in Good => "unknown" \notin all /\ "fail" \notin all
  BY <1>1, <1>2, WorstBounds
<1>4. QED
  BY <1>3 DEF all

(* A context that spoils nothing was read whole and has no failed code.     *)
LEMMA GoodContext ==
  ASSUME NEW context, ContextOutcomes(context) \intersect {"unknown", "fail"} = {}
  PROVE  /\ context # Torn /\ context.runner \in {0, Absent}
         /\ context.status # Absent => Normalize(context.status) \notin {"unknown", "fail"}
  BY DEF ContextOutcomes, Unless

(* Good evidence over modules that succeeded has no failed detail in it.    *)
LEMMA GoodEvidence ==
  ASSUME TypeOK, Executed, Evidence \intersect {"unknown", "fail"} = {}
  PROVE  Proven
<1> USE MarkerAssumption
<1>1. SUFFICES ASSUME NEW m \in Modules, NEW d \in files[m].details, d \in {"fail", "failed"}
               PROVE  FALSE
  BY DEF Proven
<1>2. files[m] \in Payloads /\ files[m].result \in {"ok", "softfail"}
  BY DEF Executed, Succeeded
<1>3. files[m] # Torn /\ files[m] # Absent /\ files[m].result # Absent
  BY <1>2 DEF Raw, Outcomes
<1>4. ModuleOutcome(files[m]) \in Evidence
  BY <1>3 DEF Evidence
<1>5. Normalize(d) = "fail"
  BY <1>1 DEF Normalize, Outcomes
<1>6. "fail" \in {Normalize(e) : e \in files[m].details}
  BY <1>5
<1>7. ModuleOutcome(files[m]) = "fail"
  BY <1>3, <1>6 DEF ModuleOutcome
<1>8. QED
  BY <1>4, <1>7

-----------------------------------------------------------------------------
(* One lemma per actor.                                                    *)

LEMMA InitInv == Init => Inv
<1> SUFFICES ASSUME Init PROVE Inv
  OBVIOUS
<1> USE PlanAssumption, MarkerAssumption
<1>1. TypeOK
  <2>1. /\ order \in BOOLEAN /\ kvm \in BOOLEAN /\ archived \in BOOLEAN /\ errors \in BOOLEAN
        /\ interrupted \in BOOLEAN /\ refused \in BOOLEAN
    BY DEF Init
  <2>2. \A m \in Modules : files[m] = Absent
    BY DEF Init
  <2>3. signals \in 0..MaxSignals /\ files \in [Modules -> Payloads \union {Absent, Torn}]
    BY DEF Init
  <2>4. QED
    BY <2>1, <2>2, <2>3 DEF Init, TypeOK, Codes, Finalizing
<1>2. ZeroIsFinal /\ SignalIsKept /\ ResultIsJudged /\ ReportIsWritten
  BY DEF Init, ZeroIsFinal, SignalIsKept, ResultIsJudged, ReportIsWritten, Decided, Finalizing,
         Codes
<1>3. OkIsEarned /\ ExitIsHonest /\ ContainerReleased
  BY DEF Init, OkIsEarned, ExitIsHonest, ContainerReleased, Good, Raw, Outcomes
<1>4. QED
  BY <1>1, <1>2, <1>3 DEF Inv

(* Isotovideo has not ended before such a step, so nothing is proved yet.   *)
LEMMA ContainerInv == Inv /\ Container => Inv'
<1> SUFFICES ASSUME Inv, Container PROVE Inv'
  OBVIOUS
<1> USE PlanAssumption, MarkerAssumption
<1>1. /\ container = "running" /\ container' \in {"running", "gone"}
      /\ UNCHANGED <<archived, script, reports, after, history>>
  BY DEF Container, WriteOrder, StartWriting, EndWriting, UploadMetrics, IsotovideoEnds, TimedOut,
         InContainer
<1>2. executed # 0
  BY <1>1 DEF Inv, ZeroIsFinal
<1>3. TypeOK'
  <2>1. CASE WriteOrder
    BY <2>1 DEF WriteOrder, InContainer, Inv, TypeOK, script, reports, after, history
  <2>2. CASE StartWriting
    BY <2>2 DEF StartWriting, InContainer, Inv, TypeOK, script, reports, after, history
  <2>3. CASE EndWriting
    BY <2>3 DEF EndWriting, InContainer, Inv, TypeOK, script, reports, after, history
  <2>4. CASE UploadMetrics
    BY <2>4 DEF UploadMetrics, InContainer, Inv, TypeOK, script, reports, after, history
  <2>5. CASE IsotovideoEnds
    <3>1. executed' \in Codes \union {Absent}
      BY <2>5 DEF IsotovideoEnds, Inv, TypeOK, Codes
    <3>2. QED
      BY <2>5, <3>1 DEF IsotovideoEnds, InContainer, Inv, TypeOK, evidence, script, reports, after,
                        history
  <2>6. CASE TimedOut
    BY <2>6 DEF TimedOut, Inv, TypeOK, Codes, evidence, script, reports, after, history
  <2>7. QED
    BY <2>1, <2>2, <2>3, <2>4, <2>5, <2>6 DEF Container
<1>4. ZeroIsFinal'
  <2>1. executed' = 0 => container' = "gone" /\ \A m \in Modules : Succeeded(m)'
    BY <1>2 DEF Container, WriteOrder, StartWriting, EndWriting, UploadMetrics, IsotovideoEnds,
                TimedOut, InContainer, evidence, Succeeded
  <2>2. QED
    BY <1>1, <2>1 DEF script, Inv, ZeroIsFinal
<1>5. ~Executed
  BY <1>2 DEF Executed
<1>6. /\ SignalIsKept' /\ ReportIsWritten'
      /\ Signalled' <=> Signalled
  BY <1>1, <1>5 DEF script, reports, after, history, Inv, SignalIsKept, Signalled, ReportIsWritten
<1>7. ResultIsJudged'
  <2>1. executed # Absent => executed' = executed
    BY DEF Container, WriteOrder, StartWriting, EndWriting, UploadMetrics, IsotovideoEnds,
           TimedOut, InContainer, evidence
  <2>2. QED
    BY <1>1, <1>5, <1>6, <2>1 DEF script, history, Inv, ResultIsJudged
<1>8. OkIsEarned' /\ ExitIsHonest' /\ ContainerReleased'
  BY <1>1, <1>5 DEF script, reports, after, history, Inv, OkIsEarned, ExitIsHonest,
                    ContainerReleased, Proven
<1>9. QED
  BY <1>3, <1>4, <1>6, <1>7, <1>8 DEF Inv

(* The script, where it does not report.                                    *)
LEMMA ScriptInv == Inv /\ Script => Inv'
<1> SUFFICES ASSUME Inv, Script PROVE Inv'
  OBVIOUS
<1> USE PlanAssumption, MarkerAssumption
<1> USE DEF evidence, pipeline, reports, after
<1>1. UNCHANGED <<evidence, pipeline, reports, after>>
  BY DEF Script, Signal, PreflightFails, Start, ReadStatus, Judge, Release, Interrupted, Leave,
         Kill
<1>2. /\ Executed' <=> Executed
      /\ Proven' <=> Proven
      /\ \A m \in Modules : Succeeded(m)' <=> Succeeded(m)
  BY <1>1 DEF Executed, Proven, Succeeded
<1>3. TypeOK'
  <2>1. CASE Signal
    BY <2>1 DEF Signal, Inv, TypeOK, history
  <2>2. CASE PreflightFails \/ Start
    BY <2>2 DEF PreflightFails, Start, Exit, Inv, TypeOK, Codes, Finalizing, history
  <2>3. CASE ReadStatus \/ Judge
    <3>1. signal # 0 => signal \in Codes
      BY DEF Inv, TypeOK, Codes
    <3>2. Judge => Judged \in Codes
      BY DEF Judge, Judged, Inv, TypeOK, ResultIsJudged, Codes
    <3>3. result' \in Codes /\ status' \in Codes \union {Absent} /\ signal' \in {0, 130, 143}
      BY <2>3, <3>1, <3>2 DEF ReadStatus, Judge, Inv, TypeOK
    <3>4. pc' \in {"judge", "trap"} /\ pc # "exited"
      BY <2>3 DEF ReadStatus, Judge
    <3>5. UNCHANGED <<container, evidence, pipeline, signals, code, reports, after, history>>
      BY <2>3 DEF ReadStatus, Judge
    <3>6. QED
      BY <3>3, <3>4, <3>5 DEF Inv, TypeOK, history
  <2>4. CASE Release
    <3>1. /\ container' \in {container, "gone"} /\ refused' \in BOOLEAN
          /\ UNCHANGED <<files, order, metrics, kvm, executed, archived>>
          /\ UNCHANGED <<result, status, signal, signals>>
      BY <2>4 DEF Release, Remove, Inv, TypeOK
    <3>2. /\ pc' \in {"exited", "context"} /\ code' \in Codes \union {Absent}
          /\ (pc' = "exited" <=> code' # Absent)
      <4>1. CASE signal # 0
        BY <2>4, <4>1 DEF Release, Exit, Inv, TypeOK, Codes
      <4>2. CASE signal = 0
        BY <2>4, <4>2 DEF Release, Inv, TypeOK
      <4>3. QED
        BY <4>1, <4>2
    <3>3. interrupted' \in BOOLEAN
      BY <2>4 DEF Release, Inv, TypeOK
    <3>4. QED
      BY <1>1, <3>1, <3>2, <3>3 DEF Inv, TypeOK, Finalizing
  <2>5. CASE Interrupted \/ Kill
    <3>1. interrupted' \in BOOLEAN
      BY <2>5 DEF Interrupted, Kill
    <3>2. PICK c \in Codes : Exit(c)
      BY <2>5 DEF Interrupted, Kill, Inv, TypeOK, Codes
    <3>3. /\ UNCHANGED <<container, evidence, pipeline, reports, after>>
          /\ UNCHANGED <<result, status, signal, signals, refused>>
      BY <2>5 DEF Interrupted, Kill
    <3>4. QED
      BY <3>1, <3>2, <3>3 DEF Exit, Inv, TypeOK
  <2>6. CASE Leave
    <3>1. PICK c \in Codes : Exit(c)
      BY <2>6 DEF Leave, Inv, TypeOK, Codes
    <3>2. QED
      BY <2>6, <3>1 DEF Leave, Exit, Inv, TypeOK
  <2>7. QED
    BY <2>1, <2>2, <2>3, <2>4, <2>5, <2>6 DEF Script
<1>4. ZeroIsFinal'
  BY <1>1, <1>2 DEF Script, Signal, PreflightFails, Start, ReadStatus, Judge, Release, Remove,
                    Interrupted, Leave, Kill, Exit, Inv, ZeroIsFinal, TypeOK
<1>5. SignalIsKept'
  <2>1. CASE Signal
    BY <2>1 DEF Signal, Inv, SignalIsKept, TypeOK
  <2>2. CASE PreflightFails \/ Start \/ ReadStatus \/ Judge
    BY <2>2 DEF PreflightFails, Start, ReadStatus, Judge, Exit, Inv, SignalIsKept, Decided,
                Finalizing
  <2>3. CASE Release \/ Interrupted \/ Leave \/ Kill
    BY <2>3 DEF Release, Interrupted, Leave, Kill, Exit, Inv, SignalIsKept, Decided, Finalizing
  <2>4. QED
    BY <2>1, <2>2, <2>3 DEF Script
<1>6. ResultIsJudged'
  <2>1. CASE Signal
    BY <2>1, <1>2 DEF Signal, Inv, ResultIsJudged, Signalled, TypeOK, history
  <2>2. CASE PreflightFails \/ Start
    BY <2>2, <1>2 DEF PreflightFails, Start, Exit, Inv, ResultIsJudged, TypeOK, Decided, Finalizing
  <2>3. CASE ReadStatus
    BY <2>3, <1>1 DEF ReadStatus, Inv, ResultIsJudged, Decided, Finalizing, TypeOK
  <2>4. CASE Judge
    <3>1. executed = 0 => \A m \in Modules : Succeeded(m)
      BY DEF Inv, ZeroIsFinal
    <3>2. status = executed /\ status # Absent /\ pc' = "trap" /\ status' = status
      BY <2>4 DEF Judge, Inv, ResultIsJudged
    <3>3. CASE signal # 0
      <4>1. result' \in {130, 143} /\ Signalled'
        BY <2>4, <3>3 DEF Judge, Inv, SignalIsKept, Signalled, TypeOK
      <4>2. QED
        BY <3>2, <4>1 DEF ResultIsJudged, Finalizing
    <3>4. CASE signal = 0
      <4>1. /\ result' = 0 => Executed
            /\ status # 0 => result' = status
        BY <2>4, <3>1, <3>2, <3>4 DEF Judge, Judged, Executed
      <4>2. QED
        BY <1>2, <3>2, <4>1 DEF ResultIsJudged, Finalizing
    <3>5. QED
      BY <3>3, <3>4
  <2>5. CASE Release
    <3>1. result = 0 => container # "running"
      BY <2>5 DEF Release, Inv, ResultIsJudged, ZeroIsFinal, Executed, Decided
    <3>2. Signalled' <=> Signalled
      BY <2>5 DEF Release, Signalled
    <3>3. QED
      BY <2>5, <3>1, <3>2, <1>2
      DEF Release, Remove, Exit, Inv, ResultIsJudged, Decided, Finalizing
  <2>6. CASE Interrupted \/ Kill \/ Leave
    BY <2>6 DEF Interrupted, Kill, Leave, Exit, ResultIsJudged, Decided, Finalizing
  <2>7. QED
    BY <2>1, <2>2, <2>3, <2>4, <2>5, <2>6 DEF Script
<1>7. ReportIsWritten'
  BY <1>1, <1>2 DEF Script, Signal, PreflightFails, Start, ReadStatus, Judge, Release, Interrupted,
                    Leave, Kill, Exit, Inv, ReportIsWritten
<1>8. OkIsEarned'
  <2>1. published \in Good => pc = "exited"
    BY DEF Inv, ReportIsWritten, Good, Raw, Outcomes
  <2>2. pc # "exited"
    BY DEF Script, Signal, PreflightFails, Start, ReadStatus, Judge, Release, Interrupted, Leave,
         Kill
  <2>3. QED
    BY <1>1, <1>2, <2>1, <2>2 DEF Inv, OkIsEarned
<1>9. ExitIsHonest' /\ ContainerReleased'
  <2>1. CASE Leave
    <3>1. ContainerReleased'
      BY <2>1 DEF Leave, Exit, Inv, ResultIsJudged, ContainerReleased
    <3>2. code' = 0 => signal = 0 /\ result = 0 /\ ~errors
      BY <2>1 DEF Leave, Exit
    <3>3. code' = 0 => Executed' /\ (report \in Reports /\ report.detailed)
      BY <2>1, <3>2, <1>2 DEF Leave, Inv, ResultIsJudged, ReportIsWritten, Decided
    <3>4. code' = 0 => report' \notin {Absent, Torn} /\ report'.detailed
      BY <1>1, <3>3
    <3>5. code' = 0 => signals' = 0
      <4>1. signals = 0 \/ signals > 0
        BY DEF Inv, TypeOK
      <4>2. QED
        BY <2>1, <3>2, <4>1 DEF Leave, Inv, SignalIsKept
    <3>6. ~interrupted' => code' = result \/ (code' = 1 /\ result = 0)
      BY <2>1 DEF Leave, Exit
    <3>7. /\ UNCHANGED <<status, signals>>
          /\ status \notin {0, Absent} => result = status \/ Signalled
          /\ result = 0 => Executed
      BY <2>1 DEF Leave, Inv, ResultIsJudged, Decided
    <3>8. status \notin {0, Absent} => result # 0
      BY <3>7 DEF Signalled
    <3>9. ~interrupted' /\ status' \notin {0, Absent} =>
            code' = status' \/ (signals' > 0 /\ code' \in {130, 143})
      BY <3>6, <3>7, <3>8 DEF Signalled
    <3>10. QED
      BY <3>1, <3>3, <3>4, <3>5, <3>9 DEF ExitIsHonest
  <2>2. CASE PreflightFails
    BY <2>2 DEF PreflightFails, Exit, Inv, ZeroIsFinal, ResultIsJudged, ExitIsHonest,
                ContainerReleased
  <2>3. CASE Release \/ Interrupted \/ Kill
    BY <2>3 DEF Release, Interrupted, Kill, Exit, ExitIsHonest, ContainerReleased
  <2>4. CASE Signal \/ Start \/ ReadStatus \/ Judge
    BY <2>4 DEF Signal, Start, ReadStatus, Judge, ExitIsHonest, ContainerReleased
  <2>5. QED
    BY <2>1, <2>2, <2>3, <2>4 DEF Script
<1>10. QED
  BY <1>3, <1>4, <1>5, <1>6, <1>7, <1>8, <1>9 DEF Inv

(* The finalizer the trap calls: a good report is one over a plan that       *)
(* proved itself, and one over which nothing broke.                         *)
LEMMA FinalizerInv == Inv /\ Finalizer => Inv'
<1> SUFFICES ASSUME Inv, Finalizer PROVE Inv'
  OBVIOUS
<1> USE PlanAssumption, MarkerAssumption
<1> USE DEF evidence, pipeline, after, history, Unfinalized
<1>1. pc \in Finalizing /\ pc' \in {"summary", "detail", "rewrite", "leave"} /\ Unfinalized
  BY DEF Finalizer, WriteContext, WriteSummary, Render, Rewrite, FinalizerBreaks, Finalizing
<1>2. /\ UNCHANGED <<container, files, order, metrics, kvm, executed, archived, result, status>>
      /\ UNCHANGED <<signal, signals, code, published, rebuilt, interrupted, refused>>
  BY <1>1
<1>3. /\ Executed' <=> Executed
      /\ Proven' <=> Proven
      /\ \A m \in Modules : Succeeded(m)' <=> Succeeded(m)
  BY <1>2 DEF Executed, Proven, Succeeded
<1>4. /\ Context \in Contexts /\ Context.runner = result /\ Context.runner # Absent
  BY DEF Context, Contexts, Inv, TypeOK
<1>5. ASSUME NEW contexts, Context \in contexts, Summarize(contexts) \in Good
      PROVE  Proven
  <2>1. /\ Evidence \intersect {"unknown", "fail"} = {}
        /\ ContextOutcomes(Context) \intersect {"unknown", "fail"} = {}
    BY <1>5, SummaryIsWorst
  <2>2. result = 0
    BY <1>4, <2>1, GoodContext
  <2>3. Executed
    BY <1>1, <2>2 DEF Inv, ResultIsJudged, Decided
  <2>4. QED
    BY <2>1, <2>3, GoodEvidence DEF Inv
<1>6. ZeroIsFinal' /\ SignalIsKept' /\ ResultIsJudged'
  <2>1. ZeroIsFinal'
    BY <1>1, <1>2, <1>3 DEF Inv, ZeroIsFinal
  <2>2. /\ pc \in Decided /\ pc \in {"leave"} \union Finalizing
        /\ pc # "exited" /\ pc' \in Decided /\ pc' \notin {"preflight", "isotovideo", "judge"}
    BY <1>1 DEF Decided, Finalizing
  <2>3. /\ result = 0 => Executed
        /\ status \notin {0, Absent} => result = status \/ Signalled
        /\ container # "running" \/ refused
    BY <2>2 DEF Inv, ResultIsJudged
  <2>4. Signalled' <=> Signalled
    BY <1>2 DEF Signalled
  <2>5. /\ result' = 0 => Executed'
        /\ status' \notin {0, Absent} => result' = status' \/ Signalled'
        /\ container' # "running" \/ refused'
    BY <1>2, <1>3, <2>3, <2>4
  <2>6. SignalIsKept'
    BY <1>2, <2>2 DEF Inv, SignalIsKept
  <2>7. QED
    BY <2>1, <2>2, <2>5, <2>6 DEF ResultIsJudged
<1>7. /\ runStatus' \in Contexts \union {Absent, Torn} /\ errors' \in BOOLEAN
      /\ runStatus' \in Contexts => runStatus' \in {runStatus, Context}
  <2>1. errors' \in BOOLEAN
    BY DEF Finalizer, WriteContext, WriteSummary, Render, Rewrite, FinalizerBreaks, Inv, TypeOK
  <2>2. runStatus' \in {runStatus, Context, Torn}
    BY DEF Finalizer, WriteContext, WriteSummary, Render, Rewrite, FinalizerBreaks
  <2>3. QED
    BY <1>4, <2>1, <2>2 DEF Inv, TypeOK
<1>8. /\ report' \in Reports \union {Absent, Torn}
      /\ report' \in Reports /\ report'.result \in Good => Proven
      /\ pc' \in {"detail", "rewrite"} => report' \in Reports
      /\ pc' = "leave" /\ ~errors' => report' \in Reports /\ report'.detailed
  <2>1. CASE WriteSummary
    <3> DEFINE sum == Summarize({Context, runStatus})
    <3>1. sum \in Outcomes /\ (sum \in Good => Proven)
      BY <1>5, SummaryIsWorst
    <3>2. report' = [result |-> sum, detailed |-> FALSE] /\ pc' = "detail"
      BY <2>1 DEF WriteSummary
    <3> HIDE DEF sum
    <3>3. QED
      BY <3>1, <3>2 DEF Reports
  <2>2. CASE WriteContext \/ Render
    BY <2>2 DEF WriteContext, Render, Inv, TypeOK, OkIsEarned, ReportIsWritten
  <2>3. CASE Rewrite
    <3>1. report \in Reports /\ report' = [report EXCEPT !.detailed = ~errors] /\ errors \in BOOLEAN
      BY <2>3 DEF Rewrite, Inv, TypeOK, ReportIsWritten
    <3>2. report' \in Reports /\ report'.result = report.result /\ report'.detailed = ~errors
      BY <3>1 DEF Reports
    <3>3. QED
      BY <2>3, <3>1, <3>2 DEF Rewrite, Inv, OkIsEarned
  <2>4. CASE FinalizerBreaks
    BY <2>4 DEF FinalizerBreaks, Finalizing, Inv, TypeOK, OkIsEarned
  <2>5. QED
    BY <2>1, <2>2, <2>3, <2>4 DEF Finalizer
<1>9. TypeOK'
  <2>1. pc' \in Finalizing \union {"leave"} /\ pc # "exited" /\ pc' # "exited"
    BY <1>1 DEF Finalizing
  <2>2. QED
    BY <1>2, <1>7, <1>8, <2>1 DEF Inv, TypeOK
<1>10. runStatus' \in Contexts => /\ runStatus'.runner # Absent
                                  /\ runStatus'.runner = 0 => Executed
  BY <1>1, <1>4, <1>7 DEF Inv, ReportIsWritten, ResultIsJudged, Decided
<1>11. published = Absent /\ rebuilt = Absent
  BY <1>1 DEF Inv, ReportIsWritten, Finalizing
<1>12. ReportIsWritten'
  BY <1>2, <1>3, <1>8, <1>10, <1>11 DEF ReportIsWritten
<1>13. OkIsEarned' /\ ExitIsHonest' /\ ContainerReleased'
  BY <1>1, <1>2, <1>3, <1>8, <1>11
  DEF OkIsEarned, ExitIsHonest, ContainerReleased, Good, Raw, Outcomes
<1>14. QED
  BY <1>6, <1>9, <1>12, <1>13 DEF Inv

(* The reports built after the script: they are no better than the first    *)
(* one's context, the status of the job and the evidence allow.             *)
LEMMA CallersInv == Inv /\ (Publish \/ Rebuild) => Inv'
<1> SUFFICES ASSUME Inv, Publish \/ Rebuild PROVE Inv'
  OBVIOUS
<1> USE PlanAssumption, MarkerAssumption
<1> USE DEF evidence, pipeline, script, reports, after, history
<1>1. /\ pc = "exited"
      /\ UNCHANGED <<container, files, order, metrics, kvm, executed, archived>>
      /\ UNCHANGED <<pc, result, status, signal, signals, code, runStatus, report, errors>>
      /\ UNCHANGED <<interrupted, refused>>
  BY DEF Publish, Rebuild
<1>2. /\ Executed' <=> Executed
      /\ Proven' <=> Proven
      /\ \A m \in Modules : Succeeded(m)' <=> Succeeded(m)
  BY <1>1 DEF Executed, Proven, Succeeded
<1>3. published' \in Outcomes \union {Absent} /\ (published' \in Good => Proven /\ code = 0)
  <2>1. CASE Rebuild
    BY <2>1 DEF Rebuild, Inv, TypeOK, OkIsEarned
  <2>2. ASSUME NEW jobStatus \in {"success", "failure", "cancelled"}, NEW redacted \in BOOLEAN,
               jobStatus = "success" => code = 0 /\ redacted,
               published' = IF redacted
                            THEN Summarize({InJob(jobStatus)} \union ({runStatus} \ {Absent}))
                            ELSE Worst({"unknown"} \union ContextOutcomes(InJob(jobStatus)))
        PROVE  /\ published' \in Outcomes \union {Absent}
               /\ published' \in Good => Proven /\ code = 0
    <3>1. CASE ~redacted
      <4>1. {"unknown"} \union ContextOutcomes(InJob(jobStatus)) \subseteq Outcomes
        BY OutcomesType DEF Outcomes
      <4>2. QED
        BY <2>2, <3>1, <4>1, WorstBounds
    <3>2. CASE redacted
      <4> DEFINE contexts == {InJob(jobStatus)} \union ({runStatus} \ {Absent})
      <4>1. published' = Summarize(contexts) /\ InJob(jobStatus) \in contexts
        BY <2>2, <3>2
      <4> HIDE DEF contexts
      <4>2. published' \in Outcomes
        BY <4>1, SummaryIsWorst
      <4>3. ASSUME published' \in Good PROVE Proven /\ code = 0
        <5>1. /\ Evidence \intersect {"unknown", "fail"} = {}
              /\ ContextOutcomes(InJob(jobStatus)) \intersect {"unknown", "fail"} = {}
          BY <4>1, <4>3, SummaryIsWorst
        <5>2. Normalize(jobStatus) \notin {"unknown", "fail"}
          <6>1. InJob(jobStatus).status = jobStatus /\ jobStatus # Absent
            BY DEF InJob, Raw
          <6>2. QED
            BY <5>1, <6>1, GoodContext
        <5>3. jobStatus = "success"
          BY <5>2 DEF Normalize, Outcomes
        <5>4. code = 0 /\ Executed
          BY <2>2, <5>3, <1>1 DEF Inv, ExitIsHonest
        <5>5. QED
          BY <5>1, <5>4, GoodEvidence DEF Inv
      <4>4. QED
        BY <4>2, <4>3
    <3>3. QED
      BY <3>1, <3>2
  <2>3. QED
    BY <2>1, <2>2 DEF Publish
<1>4. /\ rebuilt' \in Outcomes \union {Absent}
      /\ rebuilt' \in Good /\ runStatus \notin {Absent, Torn} => Proven
  <2>1. CASE Publish
    BY <2>1 DEF Publish, Inv, TypeOK, OkIsEarned
  <2>2. CASE Rebuild
    <3>1. rebuilt' = Summarize({KeptContext})
      BY <2>2 DEF Rebuild
    <3>2. rebuilt' \in Outcomes
      BY <3>1, SummaryIsWorst
    <3>3. ASSUME rebuilt' \in Good, runStatus \notin {Absent, Torn} PROVE Proven
      <4>1. KeptContext = runStatus /\ runStatus \in Contexts
        BY <3>3 DEF KeptContext, Inv, TypeOK
      <4>2. /\ Evidence \intersect {"unknown", "fail"} = {}
            /\ ContextOutcomes(runStatus) \intersect {"unknown", "fail"} = {}
        BY <3>1, <3>3, <4>1, SummaryIsWorst
      <4>3. runStatus.runner \in {0, Absent}
        BY <4>2, GoodContext
      <4>4. Executed
        BY <4>1, <4>3 DEF Inv, ReportIsWritten
      <4>5. QED
        BY <4>2, <4>4, GoodEvidence DEF Inv
    <3>4. QED
      BY <3>2, <3>3
  <2>3. QED
    BY <2>1, <2>2
<1>5. TypeOK'
  BY <1>1, <1>3, <1>4 DEF Inv, TypeOK
<1>6. ZeroIsFinal' /\ SignalIsKept' /\ ResultIsJudged' /\ ReportIsWritten'
  BY <1>1, <1>2
  DEF Inv, ZeroIsFinal, SignalIsKept, ResultIsJudged, ReportIsWritten, Decided, Finalizing
<1>7. OkIsEarned' /\ ExitIsHonest' /\ ContainerReleased'
  BY <1>1, <1>2, <1>3, <1>4 DEF Inv, OkIsEarned, ExitIsHonest, ContainerReleased
<1>8. QED
  BY <1>5, <1>6, <1>7 DEF Inv

(* The argument holds on every run of a plan.                               *)
THEOREM Inductive == Spec => []Inv
<1>1. Inv /\ UNCHANGED vars => Inv'
  <2> SUFFICES ASSUME Inv, UNCHANGED vars PROVE Inv'
    OBVIOUS
  <2> USE DEF vars, evidence, pipeline, script, reports, after, history
  <2>1. TypeOK'
    BY DEF Inv, TypeOK
  <2>2. /\ Executed' <=> Executed
        /\ Proven' <=> Proven
        /\ \A m \in Modules : Succeeded(m)' <=> Succeeded(m)
    BY DEF Executed, Proven, Succeeded
  <2>3. ZeroIsFinal' /\ SignalIsKept' /\ ResultIsJudged' /\ ReportIsWritten'
    BY <2>2 DEF Inv, ZeroIsFinal, SignalIsKept, ResultIsJudged, Signalled, ReportIsWritten
  <2>4. OkIsEarned' /\ ExitIsHonest' /\ ContainerReleased'
    BY <2>2 DEF Inv, OkIsEarned, ExitIsHonest, ContainerReleased
  <2>5. QED
    BY <2>1, <2>3, <2>4 DEF Inv
<1>2. Inv /\ [Next]_vars => Inv'
  BY <1>1, ContainerInv, ScriptInv, FinalizerInv, CallersInv DEF Next
<1>3. QED
  BY <1>2, InitInv, PTL DEF Spec

-----------------------------------------------------------------------------
(* The script, the container, the finalizer and their files are well typed; *)
(* the modules wrote their results in their order.                          *)
THEOREM TypeCorrect == Spec => []TypeOK
  BY Inductive, PTL DEF Inv

(* A report is good only over a plan whose every module succeeded with no   *)
(* failed detail, in a container whose log proves KVM: whatever was cut     *)
(* short and whoever built the report, and for a published one only if the  *)
(* script itself exited with 0.                                             *)
THEOREM GoodReportsAreEarned == Spec => []OkIsEarned
  BY Inductive, PTL DEF Inv

(* An exit status of 0 means an execution that succeeded and a report that  *)
(* was written in detail, with no signal on the way, and isotovideo's own   *)
(* failure is passed on unless a signal came between its being read and     *)
(* the exit.                                                                *)
THEOREM ExitStatusIsHonest == Spec => []ExitIsHonest
  BY Inductive, PTL DEF Inv

(* No container outlives the script but by a signal or by docker's refusal. *)
THEOREM NoContainerLeft == Spec => []ContainerReleased
  BY Inductive, PTL DEF Inv

=============================================================================
