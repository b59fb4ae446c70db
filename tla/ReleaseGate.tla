----------------------------- MODULE ReleaseGate -----------------------------
(***************************************************************************)
(* One run of the Build ISO workflow over all its attempts: the build, the *)
(* release gate it calls (openqa.yml) and the publication.  A run can be   *)
(* started again in part, so a gate may count plans that ran in different  *)
(* attempts and must not count one it has superseded.  "failure" stands    *)
(* for every result but success: failed, cancelled, timed out.             *)
(***************************************************************************)
EXTENDS Naturals

CONSTANTS
  Plans,       \* plans of release-gate.yaml with gate: true
  Shards,      \* those that test a shard of the application inventory
  MaxAttempt   \* bound on the attempts of the run

ASSUME PlansAssumption ==
  Shards \subseteq Plans /\ Shards # {} /\ MaxAttempt \in Nat \ {0}

VARIABLES
  publishRelease, \* the input publish_release
  attempt,        \* github.run_attempt
  candidate,      \* the attempt that built the ISO in the candidate artifact, or 0
  job,            \* result of each job but the plans
  plan,           \* result of each job of the plan matrix
  ran,            \* plan -> attempt and ISO of its last execution, 0 before
  artifacts,      \* the plan artifacts of the run
  counted,        \* those the last aggregation validated
  verdict,        \* output of the report job
  released        \* ISOs attached to a release

vars == <<publishRelease, attempt, candidate, job, plan, ran, artifacts, counted,
          verdict, released>>

Jobs == {"build", "static", "aggregate", "report", "gate", "publish"}

(* The jobs form a chain; the plans are its stage 2.                        *)
Stage == [build |-> 0, static |-> 1, aggregate |-> 3, report |-> 4, gate |-> 5,
          publish |-> 6]

Results   == {"waiting", "success", "failure", "skipped"}
Artifacts == [plan : Plans, attempt : 1..MaxAttempt, iso : 1..MaxAttempt, good : BOOLEAN]

TypeOK ==
  /\ publishRelease \in BOOLEAN
  /\ attempt \in 1..MaxAttempt /\ candidate \in 0..attempt
  /\ job \in [Jobs -> Results] /\ plan \in [Plans -> Results]
  /\ ran \in [Plans -> [attempt : 0..attempt, iso : 0..attempt]]
  /\ artifacts \subseteq Artifacts /\ counted \subseteq artifacts
  /\ verdict \in {"none", "good", "bad"}
  /\ released \subseteq 1..attempt
  \* upload-artifact refuses a second artifact of one name
  /\ \A a, b \in artifacts : a.plan = b.plan /\ a.attempt = b.attempt => a = b

Init ==
  /\ publishRelease \in BOOLEAN
  /\ attempt = 1 /\ candidate = 0
  /\ job = [j \in Jobs |-> "waiting"] /\ plan = [p \in Plans |-> "waiting"]
  /\ ran = [p \in Plans |-> [attempt |-> 0, iso |-> 0]]
  /\ artifacts = {} /\ counted = {} /\ verdict = "none" /\ released = {}

-----------------------------------------------------------------------------
(* Results the workflow expressions read.                                   *)

(* needs.plan.result: one result for the whole matrix.                      *)
PlanResult ==
  IF \E p \in Plans : plan[p] = "failure" THEN "failure"
  ELSE IF \E p \in Plans : plan[p] = "skipped" THEN "skipped" ELSE "success"

PlansDone == \A p \in Plans : plan[p] # "waiting"

(* Mutant: the ISO is published once the gate has run.                      *)
OpenqaEnded == job["static"] # "skipped"

(* needs.openqa.result: the called workflow succeeds unless a job in it     *)
(* failed; a skipped job does not fail it.                                  *)
OpenqaSucceeded ==
  /\ job["static"] # "skipped"
  /\ \A j \in {"static", "aggregate", "report", "gate"} : job[j] # "failure"
  /\ PlanResult # "failure"

Finish(j, result) == job' = [job EXCEPT ![j] = result]

-----------------------------------------------------------------------------
(* A build that fails may already have replaced the candidate.  Nothing     *)
(* after a failed build runs.                                               *)
Build ==
  /\ job["build"] = "waiting"
  /\ \/ /\ candidate' = attempt
        /\ Finish("build", "success")
        /\ UNCHANGED plan
     \/ /\ candidate' \in {candidate, attempt}
        /\ job' = [j \in Jobs |-> IF j = "build" THEN "failure" ELSE "skipped"]
        /\ plan' = [p \in Plans |-> "skipped"]
  /\ UNCHANGED <<publishRelease, attempt, ran, artifacts, counted, verdict, released>>

(* Only the plans need the static checks to succeed.                        *)
Static ==
  /\ job["build"] = "success" /\ job["static"] = "waiting"
  /\ \/ Finish("static", "success") /\ UNCHANGED plan
     \/ Finish("static", "failure") /\ plan' = [p \in Plans |-> "skipped"]
  /\ UNCHANGED <<publishRelease, attempt, candidate, ran, artifacts, counted, verdict, released>>

(* The artifact a plan uploads, named after the plan, the build, the run    *)
(* and the attempt.  It is good when every result in it is, and for a shard *)
(* when its metrics file is valid.                                          *)
Artifact(p, good) ==
  [plan |-> p, attempt |-> attempt, iso |-> candidate, good |-> good]

(* A plan succeeds when every step did, the upload included; what it        *)
(* uploads may still be inconclusive.  A plan that fails may upload what it *)
(* has, which shows no failure if a later step failed, or nothing.          *)
RunPlan(p) ==
  /\ job["static"] = "success" /\ plan[p] = "waiting"
  /\ ran' = [ran EXCEPT ![p] = [attempt |-> attempt, iso |-> candidate]]
  /\ \/ /\ plan' = [plan EXCEPT ![p] = "success"]
        /\ \E good \in BOOLEAN : artifacts' = artifacts \union {Artifact(p, good)}
     \/ /\ plan' = [plan EXCEPT ![p] = "failure"]
        /\ \/ \E good \in BOOLEAN : artifacts' = artifacts \union {Artifact(p, good)}
           \/ UNCHANGED artifacts
  /\ UNCHANGED <<publishRelease, attempt, candidate, job, counted, verdict, released>>

-----------------------------------------------------------------------------
AttemptsOf(p) == {a \in artifacts : a.plan = p}
Newest(S)     == {a \in S : \A b \in S : b.attempt <= a.attempt}

(* Mutants: the aggregation takes the first attempt of a shard; it takes    *)
(* the artifacts of this attempt only.                                      *)
SelectedShardsFirst ==
  {a \in artifacts : a.plan \in Shards /\ \A b \in AttemptsOf(a.plan) : a.attempt <= b.attempt}
SelectedShardsPinned == {a \in artifacts : a.plan \in Shards /\ a.attempt = attempt}

(* "Keep the newest attempt of each shard".                                 *)
SelectedShards == UNION {Newest(AttemptsOf(s)) : s \in Shards}

(* The aggregator wants one valid metrics file per shard, all of one ISO.   *)
CoverageComplete(S) ==
  /\ \A s \in Shards : \E a \in S : a.plan = s
  /\ \A a \in S : a.good
  /\ \A a, b \in S : a.iso = b.iso

(* It runs always; without the static checks it has no number of shards to  *)
(* expect.  Another step of the job may fail after a valid aggregation.     *)
Aggregate ==
  /\ job["static"] \in {"success", "failure"} /\ PlansDone /\ job["aggregate"] = "waiting"
  /\ IF job["static"] = "success" /\ CoverageComplete(SelectedShards)
     THEN counted' = SelectedShards /\ Finish("aggregate", "success")
     ELSE counted' = {} /\ Finish("aggregate", "failure")
  /\ UNCHANGED <<publishRelease, attempt, candidate, plan, ran, artifacts, verdict, released>>

(* The runner of the job is lost, or a step around the aggregation fails.   *)
AggregateLost ==
  /\ job["static"] \in {"success", "failure"} /\ PlansDone /\ job["aggregate"] = "waiting"
  /\ counted' \in {{}, SelectedShards} /\ Finish("aggregate", "failure")
  /\ UNCHANGED <<publishRelease, attempt, candidate, plan, ran, artifacts, verdict, released>>

(* latest_artifacts: the newest attempt of each plan that uploaded one.     *)
LatestArtifacts == UNION {Newest(AttemptsOf(p)) : p \in Plans}

(* Mutant: the report is called without its execution context.              *)
JobsUnread == TRUE

(* The results of the jobs the report needs, its execution context.         *)
JobsGood ==
  job["static"] = "success" /\ PlanResult = "success" /\ job["aggregate"] = "success"

(* summarize: the worst of what the artifacts and the jobs show; a plan     *)
(* without an artifact is unknown.                                          *)
Verdict ==
  IF /\ JobsGood
     /\ \A a \in LatestArtifacts : a.good
     /\ \A p \in Plans : \E a \in LatestArtifacts : a.plan = p
  THEN "good" ELSE "bad"

(* The report's own failure, in a renderer or in the upload, fails the job  *)
(* and keeps its verdict; if the runner is lost there is none.              *)
Report ==
  /\ job["aggregate"] \in {"success", "failure"} /\ job["report"] = "waiting"
  /\ \/ verdict' = Verdict /\ Finish("report", "success")
     \/ verdict' \in {Verdict, "none"} /\ Finish("report", "failure")
  /\ UNCHANGED <<publishRelease, attempt, candidate, plan, ran, artifacts, counted, released>>

(* Mutant: the gate job is not marked always(), so it is skipped after a    *)
(* failure.                                                                 *)
GateIfSuccess ==
  /\ job["report"] \in {"success", "failure"} /\ job["gate"] = "waiting"
  /\ LET needed == job["report"] = "success" /\ PlanResult = "success"
                     /\ job["static"] = "success" /\ job["aggregate"] = "success"
     IN IF needed THEN Finish("gate", IF verdict = "good" THEN "success" ELSE "failure")
                  ELSE Finish("gate", "skipped")
  /\ UNCHANGED <<publishRelease, attempt, candidate, plan, ran, artifacts, counted, verdict, released>>

(* The last job of the called workflow fails unless the results it needs    *)
(* are all there.                                                           *)
GateOpens ==
  /\ job["static"] = "success"
  /\ job["report"] = "success" /\ verdict = "good"
  /\ PlanResult = "success" /\ job["aggregate"] = "success"

(* It runs always.                                                          *)
Gate ==
  /\ job["report"] \in {"success", "failure"} /\ job["gate"] = "waiting"
  /\ \/ GateOpens /\ Finish("gate", "success")
     \/ Finish("gate", "failure")
  /\ UNCHANGED <<publishRelease, attempt, candidate, plan, ran, artifacts, counted, verdict, released>>

(* Publication downloads the candidate again, and attaches it to a release  *)
(* unless its checksums differ; the job may also fail after that.           *)
Publish ==
  /\ job["gate"] \in {"success", "failure", "skipped"} /\ job["publish"] = "waiting"
  /\ \/ /\ publishRelease /\ OpenqaSucceeded
        /\ released' = released \union {candidate}
        /\ \E result \in {"success", "failure"} : Finish("publish", result)
     \/ /\ publishRelease /\ OpenqaSucceeded
        /\ Finish("publish", "failure") /\ UNCHANGED released
     \/ /\ ~(publishRelease /\ OpenqaSucceeded)
        /\ Finish("publish", "skipped") /\ UNCHANGED released
  /\ UNCHANGED <<publishRelease, attempt, candidate, plan, ran, artifacts, counted, verdict>>

-----------------------------------------------------------------------------
(* Starting the run again, when it is over.  A job is started again with    *)
(* every job that needs it; the others keep their results and outputs, and  *)
(* every artifact stays.                                                    *)
Over == job["publish"] # "waiting"

Rerun(first, chosen) ==
  /\ Over /\ attempt < MaxAttempt /\ attempt' = attempt + 1
  /\ job' = [j \in Jobs |-> IF Stage[j] >= Stage[first] THEN "waiting" ELSE job[j]]
  /\ plan' = [p \in Plans |-> IF p \in chosen THEN "waiting" ELSE plan[p]]
  /\ counted' = IF Stage[first] <= Stage["aggregate"] THEN {} ELSE counted
  /\ verdict' = IF Stage[first] <= Stage["report"] THEN "none" ELSE verdict
  /\ UNCHANGED <<publishRelease, candidate, ran, artifacts, released>>

(* Every job ("Re-run all jobs" is build), or the first that failed, or any *)
(* other that has run.                                                      *)
RerunJob(j) ==
  /\ job[j] \in {"success", "failure"}
  /\ Rerun(j, IF j \in {"build", "static"} THEN Plans ELSE {})

(* "Re-run failed jobs" when plans failed, or one plan that has run.        *)
FailedPlans == {p \in Plans : plan[p] = "failure"}

RerunPlans(chosen) ==
  /\ chosen # {} /\ \A p \in chosen : plan[p] \in {"success", "failure"}
  /\ Rerun("aggregate", chosen)

-----------------------------------------------------------------------------
Work ==
  \/ Build \/ Static \/ Aggregate \/ AggregateLost \/ Report \/ Gate \/ Publish
  \/ \E p \in Plans : RunPlan(p)

Again ==
  \/ \E j \in Jobs : RerunJob(j)
  \/ \E chosen \in {FailedPlans} \union {{p} : p \in Plans} : RerunPlans(chosen)

Next == Work \/ Again

Spec == Init /\ [][Next]_vars

(* Every job has a timeout-minutes and a result after it.  Nobody has to    *)
(* start a run again.                                                       *)
FairSpec == Spec /\ WF_vars(Work)

-----------------------------------------------------------------------------
(* What is released is what was tested: when an ISO is published, the last  *)
(* execution of every plan of the gate passed, and on that ISO.             *)
PublishedIsTested ==
  [][released' # released =>
       /\ released' = released \union {candidate}
       /\ \A p \in Plans : plan[p] = "success" /\ ran[p].iso = candidate]_vars

(* "An older green attempt never hides a newer failure": a good verdict     *)
(* rests on the last execution of every plan, also when that execution      *)
(* uploaded nothing and the report read an older artifact.                  *)
VerdictIsEarned ==
  job["report"] = "success" /\ verdict = "good" =>
    \A p \in Plans : /\ plan[p] = "success"
                     /\ [plan |-> p, attempt |-> ran[p].attempt,
                         iso |-> candidate, good |-> TRUE] \in artifacts

(* A gate that opens counted, for every shard, the artifact of the shard's  *)
(* last execution and no other.                                             *)
CoverageIsCurrent ==
  job["gate"] = "success" =>
    counted = {[plan |-> s, attempt |-> ran[s].attempt,
                iso |-> candidate, good |-> TRUE] : s \in Shards}

(* "A partial re-run add[s] up to a complete set": when every shard passed  *)
(* in its last execution and left a good artifact, whatever the attempt,    *)
(* the aggregation accepts them.                                            *)
RerunAddsUp ==
  [][Aggregate /\ job["static"] = "success"
       /\ (\A s \in Shards :
             /\ plan[s] = "success"
             /\ \E a \in artifacts : a.plan = s /\ a.attempt = ran[s].attempt /\ a.good)
     => job'["aggregate"] = "success"]_vars

(* A candidate that was built gets an answer in every attempt: the gate     *)
(* job, which alone reads the verdict, ends with a result and is never      *)
(* skipped.                                                                 *)
GateConcludes ==
  job["build"] = "success" /\ job["gate"] = "waiting"
    ~> job["gate"] \in {"success", "failure"}

=============================================================================
