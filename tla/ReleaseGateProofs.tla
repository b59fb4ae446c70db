-------------------------- MODULE ReleaseGateProofs --------------------------
(***************************************************************************)
(* What the release gate guarantees for any number of plans, shards and    *)
(* attempts, and any choice of what is started again.                      *)
(***************************************************************************)
EXTENDS ReleaseGate, TLAPS

(* A job has a result only if those it needs have one, and the results it   *)
(* requires are still there.                                                *)
Chain ==
  /\ job["build"] = "success" => candidate # 0
  /\ job["static"] \in {"success", "failure"} => job["build"] = "success"
  /\ \A p \in Plans : plan[p] \in {"success", "failure"} => job["static"] = "success"
  /\ job["aggregate"] \in {"success", "failure"} => PlansDone
  /\ job["report"] \in {"success", "failure"} => job["aggregate"] \in {"success", "failure"}
  /\ job["gate"] = "skipped" => job["static"] = "skipped"
  /\ job["gate"] = "success" => GateOpens /\ job["report"] = "success"

(* The last execution of a plan is the newest with an artifact.             *)
Executions ==
  /\ \A p \in Plans : plan[p] = "waiting" => ran[p].attempt < attempt
  /\ \A a \in artifacts : a.attempt <= ran[a.plan].attempt

(* What a plan that passes leaves, on the ISO of the candidate artifact.    *)
Evidence(p, good) ==
  [plan |-> p, attempt |-> ran[p].attempt, iso |-> candidate, good |-> good]

Passed ==
  \A p \in Plans : plan[p] = "success" =>
    ran[p].iso = candidate /\ \E good \in BOOLEAN : Evidence(p, good) \in artifacts

(* An aggregation that succeeded counted the evidence of each shard.        *)
Counted ==
  job["aggregate"] = "success" /\ (\A s \in Shards : plan[s] = "success") =>
    counted = {Evidence(s, TRUE) : s \in Shards}

Inv == TypeOK /\ Chain /\ Executions /\ Passed /\ Counted /\ VerdictIsEarned

-----------------------------------------------------------------------------
(* In a matrix without a failed or skipped job, every plan that is done     *)
(* passed.                                                                  *)
LEMMA MatrixSuccess ==
  ASSUME plan \in [Plans -> Results], PlansDone, PlanResult = "success"
  PROVE  \A p \in Plans : plan[p] = "success"
  BY DEF PlansDone, PlanResult, Results

(* The newest artifact of a plan that passed is the evidence of its last    *)
(* execution.                                                               *)
LEMMA NewestIsEvidence ==
  ASSUME Inv, NEW p \in Plans, plan[p] = "success"
  PROVE  \E good \in BOOLEAN : Newest(AttemptsOf(p)) = {Evidence(p, good)}
<1>1. PICK good \in BOOLEAN : Evidence(p, good) \in artifacts
  BY DEF Inv, Passed
<1> DEFINE e == Evidence(p, good)
<1>2. /\ e \in AttemptsOf(p) /\ e.plan = p /\ e.attempt = ran[p].attempt
  BY <1>1 DEF AttemptsOf, Evidence
<1>3. \A a \in AttemptsOf(p) : /\ a \in artifacts /\ a.plan = p
                               /\ a.attempt \in Nat /\ a.attempt <= e.attempt
  BY <1>2, PlansAssumption DEF AttemptsOf, Inv, Executions, TypeOK, Artifacts
<1>4. e.attempt \in Nat
  BY <1>2, <1>3
<1>5. \A a \in AttemptsOf(p) : e.attempt <= a.attempt => a = e
  BY <1>1, <1>2, <1>3, <1>4 DEF Inv, TypeOK
<1>6. Newest(AttemptsOf(p)) = {e}
  BY <1>2, <1>3, <1>4, <1>5 DEF Newest
<1>7. QED
  BY <1>6

-----------------------------------------------------------------------------
LEMMA InitInv == Init => Inv
<1> SUFFICES ASSUME Init PROVE Inv
  OBVIOUS
<1> USE PlansAssumption DEF Init, Jobs, Results
<1>1. TypeOK
  BY DEF TypeOK, Artifacts
<1>2. Chain /\ Executions /\ Passed /\ Counted /\ VerdictIsEarned
  BY DEF Chain, Executions, Passed, Counted, VerdictIsEarned
<1>3. QED
  BY <1>1, <1>2 DEF Inv

LEMMA BuildInv == Inv /\ Build => Inv'
<1> SUFFICES ASSUME Inv, Build PROVE Inv'
  OBVIOUS
<1> USE DEF Inv
<1>1. TypeOK'
  BY PlansAssumption DEF Build, Finish, TypeOK, Jobs, Results
<1>2. /\ job'["static"] \notin {"success", "failure"}
      /\ \A p \in Plans : plan'[p] \notin {"success", "failure"}
      /\ \A p \in Plans : plan'[p] = "waiting" => plan[p] = "waiting"
  BY DEF Build, Finish, TypeOK, Chain, Jobs
<1>3. Chain'
  BY <1>2 DEF Build, Finish, TypeOK, Chain, Jobs, PlansDone, GateOpens, PlanResult
<1>4. Executions'
  BY <1>2 DEF Build, Executions
<1>5. Passed' /\ Counted' /\ VerdictIsEarned'
  BY <1>2, PlansAssumption DEF Build, Finish, TypeOK, Chain, Jobs, Passed, Counted, VerdictIsEarned, PlansDone
<1>6. QED
  BY <1>1, <1>3, <1>4, <1>5

LEMMA StaticInv == Inv /\ Static => Inv'
<1> SUFFICES ASSUME Inv, Static PROVE Inv'
  OBVIOUS
<1> USE DEF Inv
<1>1. TypeOK'
  BY DEF Static, Finish, TypeOK, Jobs, Results
<1>2. \A p \in Plans : plan'[p] \notin {"success", "failure"}
  BY DEF Static, Chain
<1>3. Chain'
  BY <1>2 DEF Static, Finish, TypeOK, Chain, Jobs, PlansDone, GateOpens, PlanResult
<1>4. Executions'
  BY DEF Static, Executions
<1>5. Passed' /\ Counted' /\ VerdictIsEarned'
  BY <1>2, PlansAssumption DEF Static, Finish, TypeOK, Chain, Jobs, Passed, Counted, VerdictIsEarned, PlansDone
<1>6. QED
  BY <1>1, <1>3, <1>4, <1>5

(* The artifact of this execution is newer than those the plan has.         *)
LEMMA RunPlanInv == ASSUME NEW p \in Plans PROVE Inv /\ RunPlan(p) => Inv'
<1> SUFFICES ASSUME Inv, RunPlan(p) PROVE Inv'
  OBVIOUS
<1> USE DEF Inv
<1>1. /\ artifacts \subseteq artifacts'
      /\ \A a \in artifacts' \ artifacts : \E good \in BOOLEAN : a = Artifact(p, good)
  BY DEF RunPlan
<1>2. \A a \in artifacts : a.plan = p => a.attempt \in Nat /\ a.attempt < attempt
  BY PlansAssumption DEF RunPlan, Executions, TypeOK, Artifacts
<1>3. /\ ran' = [ran EXCEPT ![p] = [attempt |-> attempt, iso |-> candidate]]
      /\ \A q \in Plans \ {p} : plan'[q] = plan[q] /\ ran'[q] = ran[q]
      /\ plan'[p] \in {"success", "failure"}
      /\ ran'[p] = [attempt |-> attempt, iso |-> candidate]
      /\ attempt' = attempt /\ candidate' = candidate /\ job' = job
      /\ counted' = counted /\ verdict' = verdict
  BY DEF RunPlan, TypeOK
<1>4. candidate \in 1..MaxAttempt /\ attempt \in 1..MaxAttempt
  BY PlansAssumption DEF RunPlan, Chain, TypeOK
<1>5. artifacts' \subseteq Artifacts
  BY <1>1, <1>4 DEF TypeOK, Artifact, Artifacts
<1>6. \A a, b \in artifacts' : a.plan = b.plan /\ a.attempt = b.attempt => a = b
  <2>1. \A a \in artifacts' : a \in artifacts \/ (a.plan = p /\ a.attempt = attempt)
    BY <1>1 DEF Artifact
  <2>2. \A a, b \in artifacts' \ artifacts : a = b
    BY DEF RunPlan
  <2>3. \A a \in artifacts : a.plan = p => a.attempt # attempt
    BY <1>2, <1>4
  <2>4. QED
    BY <2>1, <2>2, <2>3 DEF TypeOK
<1>7. TypeOK'
  BY <1>3, <1>4, <1>5, <1>6, PlansAssumption DEF RunPlan, TypeOK, Results
<1>8. Chain'
  <2>1. ~PlansDone /\ job["gate"] # "success" /\ job["build"] = "success"
    BY DEF RunPlan, PlansDone, Chain
  <2>2. QED
    BY <1>3, <2>1 DEF RunPlan, Chain
<1>9. Executions'
  <2>1. \A a \in artifacts : a.plan \in Plans /\ a.attempt \in Nat
    BY PlansAssumption DEF TypeOK, Artifacts
  <2>2. \A a \in artifacts : a.attempt <= ran'[a.plan].attempt
    BY <1>2, <1>3, <1>4, <2>1 DEF Executions
  <2>3. \A a \in artifacts' \ artifacts : a.attempt <= ran'[a.plan].attempt
    BY <1>1, <1>3, <1>4 DEF Artifact
  <2>4. QED
    BY <1>3, <2>2, <2>3 DEF Executions
<1>10. Passed'
  <2>1. plan'[p] = "success" => \E good \in BOOLEAN : Evidence(p, good)' \in artifacts'
    BY <1>3 DEF RunPlan, TypeOK, Results, Evidence, Artifact
  <2>2. ASSUME NEW q \in Plans \ {p}, plan'[q] = "success"
        PROVE  ran'[q].iso = candidate' /\ \E good \in BOOLEAN : Evidence(q, good)' \in artifacts'
    <3>1. plan[q] = "success" /\ ran'[q] = ran[q] /\ candidate' = candidate
      BY <1>3, <2>2
    <3>2. PICK good \in BOOLEAN : Evidence(q, good) \in artifacts
      BY <3>1 DEF Passed
    <3>3. ran[q].iso = candidate
      BY <3>1 DEF Passed
    <3>4. Evidence(q, good)' = Evidence(q, good)
      BY <3>1 DEF Evidence
    <3>5. QED
      BY <1>1, <3>1, <3>2, <3>3, <3>4
  <2>3. ran'[p].iso = candidate'
    BY <1>3
  <2>4. QED
    BY <2>1, <2>2, <2>3 DEF Passed
<1>11. Counted' /\ VerdictIsEarned'
  BY <1>3 DEF RunPlan, Chain, PlansDone, Counted, VerdictIsEarned
<1>12. QED
  BY <1>7, <1>8, <1>9, <1>10, <1>11

LEMMA AggregateInv == Inv /\ (Aggregate \/ AggregateLost) => Inv'
<1> SUFFICES ASSUME Inv, Aggregate \/ AggregateLost PROVE Inv'
  OBVIOUS
<1> USE DEF Inv
<1>1. SelectedShards \subseteq artifacts
  BY DEF SelectedShards, Newest, AttemptsOf
<1>2. TypeOK'
  <2>1. job' \in [Jobs -> Results] /\ counted' \subseteq artifacts
    BY <1>1 DEF Aggregate, AggregateLost, Finish, TypeOK, Jobs, Results
  <2>2. QED
    BY <2>1 DEF Aggregate, AggregateLost, TypeOK
<1>3. /\ PlansDone /\ job'["aggregate"] \in {"success", "failure"}
      /\ \A j \in Jobs \ {"aggregate"} : job'[j] = job[j]
      /\ job["report"] \notin {"success", "failure"} /\ job["gate"] # "success"
  BY DEF Aggregate, AggregateLost, Finish, TypeOK, Jobs, Results, Chain, GateOpens
<1>4. Chain'
  BY <1>3 DEF Aggregate, AggregateLost, Chain, PlansDone, Jobs
<1>5. Executions' /\ Passed'
  BY DEF Aggregate, AggregateLost, Executions, Passed, Evidence
<1>6. Counted'
  <2> SUFFICES ASSUME job'["aggregate"] = "success", \A s \in Shards : plan[s] = "success"
               PROVE  counted' = {Evidence(s, TRUE) : s \in Shards}
    BY DEF Aggregate, AggregateLost, Counted, Evidence
  <2>1. counted' = SelectedShards /\ \A a \in SelectedShards : a.good
    BY DEF Aggregate, AggregateLost, Finish, TypeOK, Jobs, CoverageComplete
  <2>2. \A s \in Shards : Newest(AttemptsOf(s)) = {Evidence(s, TRUE)}
    <3> SUFFICES ASSUME NEW s \in Shards PROVE Newest(AttemptsOf(s)) = {Evidence(s, TRUE)}
      OBVIOUS
    <3>1. PICK good \in BOOLEAN : Newest(AttemptsOf(s)) = {Evidence(s, good)}
      BY NewestIsEvidence, PlansAssumption
    <3>2. Evidence(s, good) \in SelectedShards
      BY <3>1 DEF SelectedShards
    <3>3. good
      BY <2>1, <3>2 DEF Evidence
    <3>4. QED
      BY <3>1, <3>3
  <2>3. SelectedShards = UNION {{Evidence(s, TRUE)} : s \in Shards}
    BY <2>2 DEF SelectedShards
  <2>4. QED
    BY <2>1, <2>3
<1>7. VerdictIsEarned'
  BY <1>3 DEF VerdictIsEarned, Jobs
<1>8. QED
  BY <1>2, <1>4, <1>5, <1>6, <1>7

(* A good verdict has read the newest artifact of every plan, and the jobs  *)
(* say that every plan passed.                                              *)
LEMMA ReportInv == Inv /\ Report => Inv'
<1> SUFFICES ASSUME Inv, Report PROVE Inv'
  OBVIOUS
<1> USE DEF Inv
<1>1. TypeOK'
  BY DEF Report, Finish, TypeOK, Jobs, Results, Verdict
<1>2. Chain'
  BY DEF Report, Finish, TypeOK, Jobs, Chain, PlansDone, GateOpens
<1>3. Executions' /\ Passed' /\ Counted'
  <2>1. job'["aggregate"] = job["aggregate"]
    BY DEF Report, Finish, TypeOK, Jobs
  <2>2. QED
    BY <2>1 DEF Report, Executions, Passed, Counted, Evidence
<1>4. VerdictIsEarned'
  <2> SUFFICES ASSUME job'["report"] = "success", verdict' = "good", NEW p \in Plans
               PROVE  plan[p] = "success" /\ Evidence(p, TRUE) \in artifacts
    BY DEF Report, VerdictIsEarned, Evidence
  <2>1. JobsGood /\ \A a \in LatestArtifacts : a.good
    BY DEF Report, Finish, TypeOK, Jobs, Verdict
  <2>2. plan[p] = "success"
    BY <2>1, MatrixSuccess DEF JobsGood, Report, Chain, TypeOK
  <2>3. PICK good \in BOOLEAN : Newest(AttemptsOf(p)) = {Evidence(p, good)}
    BY <2>2, NewestIsEvidence
  <2>4. Evidence(p, good) \in LatestArtifacts /\ Evidence(p, good) \in artifacts
    BY <2>3 DEF LatestArtifacts, Newest, AttemptsOf
  <2>5. good
    BY <2>1, <2>4 DEF Evidence
  <2>6. QED
    BY <2>2, <2>4, <2>5
<1>5. QED
  BY <1>1, <1>2, <1>3, <1>4

LEMMA GateInv == Inv /\ Gate => Inv'
<1> SUFFICES ASSUME Inv, Gate PROVE Inv'
  OBVIOUS
<1> USE DEF Inv
<1>1. TypeOK'
  BY DEF Gate, Finish, TypeOK, Jobs, Results
<1>2. Chain'
  BY DEF Gate, Finish, TypeOK, Jobs, Chain, PlansDone, GateOpens, PlanResult
<1>3. Executions' /\ Passed' /\ Counted' /\ VerdictIsEarned'
  BY DEF Gate, Finish, TypeOK, Jobs, Executions, Passed, Counted, Evidence, VerdictIsEarned
<1>4. QED
  BY <1>1, <1>2, <1>3

LEMMA PublishInv == Inv /\ Publish => Inv'
<1> SUFFICES ASSUME Inv, Publish PROVE Inv'
  OBVIOUS
<1> USE DEF Inv
<1>1. job["gate"] \in {"success", "failure", "skipped"}
  BY DEF Publish
<1>2. OpenqaSucceeded => job["build"] = "success"
  BY <1>1 DEF OpenqaSucceeded, Chain, GateOpens, TypeOK, Jobs, Results
<1>3. TypeOK'
  <2>1. job' \in [Jobs -> Results]
    BY DEF Publish, Finish, TypeOK, Jobs, Results
  <2>2. released' \subseteq 1..attempt
    <3>1. OpenqaSucceeded => candidate \in 1..attempt
      BY <1>2, PlansAssumption DEF Chain, TypeOK
    <3>2. QED
      BY <3>1 DEF Publish, TypeOK
  <2>3. QED
    BY <2>1, <2>2 DEF Publish, TypeOK
<1>4. Chain'
  BY DEF Publish, Finish, TypeOK, Jobs, Chain, PlansDone, GateOpens, PlanResult
<1>5. Executions' /\ Passed' /\ Counted' /\ VerdictIsEarned'
  BY DEF Publish, Finish, TypeOK, Jobs, Executions, Passed, Counted, Evidence, VerdictIsEarned
<1>6. QED
  BY <1>3, <1>4, <1>5

-----------------------------------------------------------------------------
(* The run starts again: what is reset waits, and nothing it rests on is    *)
(* reset alone.                                                             *)
LEMMA RerunInv ==
  ASSUME Inv, NEW first \in Jobs, NEW chosen \in SUBSET Plans, Rerun(first, chosen),
         job[first] \in {"success", "failure"} \/ first = "aggregate",
         first \in {"build", "static"} => chosen = Plans,
         first \in {"report", "gate", "publish"} => chosen = {},
         first = "aggregate" /\ chosen # {} => job["static"] = "success"
  PROVE  Inv'
<1> USE DEF Inv
<1>1. /\ attempt' = attempt + 1 /\ attempt' \in 1..MaxAttempt
      /\ candidate' = candidate /\ ran' = ran /\ artifacts' = artifacts
      /\ publishRelease' = publishRelease /\ released' = released
  BY PlansAssumption DEF Rerun, TypeOK
<1>2. /\ \A j \in Jobs : job'[j] = job[j] \/ job'[j] = "waiting"
      /\ \A p \in Plans : plan'[p] = plan[p] \/ plan'[p] = "waiting"
  BY DEF Rerun
<1>3. TypeOK'
  <2>1. job' \in [Jobs -> Results] /\ plan' \in [Plans -> Results]
    BY <1>2 DEF Rerun, TypeOK, Results
  <2>2. counted' \subseteq artifacts /\ verdict' \in {"none", "good", "bad"}
    BY DEF Rerun, TypeOK
  <2>3. ran \in [Plans -> [attempt : 0..attempt', iso : 0..attempt']]
    BY <1>1, PlansAssumption DEF TypeOK
  <2>4. candidate \in 0..attempt' /\ released \subseteq 1..attempt'
    BY <1>1, PlansAssumption DEF TypeOK
  <2>5. QED
    BY <1>1, <2>1, <2>2, <2>3, <2>4 DEF TypeOK
(* Which jobs wait, for each first one.                                     *)
<1>4. /\ job'["gate"] = IF first = "publish" THEN job["gate"] ELSE "waiting"
      /\ job'["report"] = IF first \in {"gate", "publish"} THEN job["report"] ELSE "waiting"
      /\ job'["aggregate"] = IF first \in {"report", "gate", "publish"}
                             THEN job["aggregate"] ELSE "waiting"
      /\ job'["static"] = IF first \in {"build", "static"} THEN "waiting" ELSE job["static"]
      /\ job'["build"] = IF first = "build" THEN "waiting" ELSE job["build"]
  BY DEF Rerun, Stage, Jobs
<1>5. /\ first \in {"report", "gate", "publish"} =>
           plan' = plan /\ counted' = counted
      /\ first \in {"gate", "publish"} => verdict' = verdict
      /\ first \in {"build", "static"} => \A p \in Plans : plan'[p] = "waiting"
  BY DEF Rerun, Stage, TypeOK
<1>6. Chain'
  <2>1. CASE first \in {"build", "static"}
    BY <2>1, <1>1, <1>4, <1>5 DEF Chain
  <2>2. CASE first = "aggregate"
    BY <2>2, <1>1, <1>2, <1>4 DEF Chain
  <2>3. CASE first \in {"report", "gate"}
    BY <2>3, <1>1, <1>4, <1>5 DEF Chain, PlansDone
  <2>4. CASE first = "publish"
    BY <2>4, <1>1, <1>4, <1>5 DEF Chain, PlansDone, GateOpens, PlanResult
  <2>5. QED
    BY <2>1, <2>2, <2>3, <2>4 DEF Jobs
<1>7. Executions'
  <2>1. \A p \in Plans : ran[p].attempt \in Nat /\ ran[p].attempt <= attempt
    BY DEF TypeOK
  <2>2. \A p \in Plans : ran[p].attempt < attempt'
    BY <1>1, <2>1, PlansAssumption DEF TypeOK
  <2>3. QED
    BY <1>1, <2>2 DEF Executions
<1>8. Passed'
  <2> SUFFICES ASSUME NEW p \in Plans, plan'[p] = "success"
               PROVE  /\ ran[p].iso = candidate
                      /\ \E good \in BOOLEAN : Evidence(p, good)' \in artifacts
    BY <1>1 DEF Passed
  <2>1. plan[p] = "success"
    BY <1>2
  <2>2. \A good \in BOOLEAN : Evidence(p, good)' = Evidence(p, good)
    BY <1>1 DEF Evidence
  <2>3. QED
    BY <2>1, <2>2 DEF Passed
<1>9. Counted'
  BY <1>1, <1>4, <1>5 DEF Counted, Evidence
<1>10. VerdictIsEarned'
  BY <1>1, <1>4, <1>5 DEF VerdictIsEarned
<1>11. QED
  BY <1>3, <1>6, <1>7, <1>8, <1>9, <1>10

LEMMA AgainInv == Inv /\ Again => Inv'
<1> SUFFICES ASSUME Inv, Again PROVE Inv'
  OBVIOUS
<1>1. ASSUME NEW j \in Jobs, RerunJob(j) PROVE Inv'
  <2> DEFINE chosen == IF j \in {"build", "static"} THEN Plans ELSE {}
  <2>1. Rerun(j, chosen) /\ job[j] \in {"success", "failure"} /\ chosen \in SUBSET Plans
    BY <1>1 DEF RerunJob
  <2>2. QED
    BY <2>1, RerunInv
<1>2. ASSUME NEW chosen \in SUBSET Plans, RerunPlans(chosen) PROVE Inv'
  <2>1. Rerun("aggregate", chosen) /\ "aggregate" \in Jobs
    BY <1>2 DEF RerunPlans, Jobs
  <2>2. job["static"] = "success"
    BY <1>2 DEF RerunPlans, Inv, Chain
  <2>3. QED
    BY <2>1, <2>2, RerunInv
<1>3. QED
  BY <1>1, <1>2 DEF Again, FailedPlans

(* Every step keeps the invariant.                                          *)
LEMMA StepInv == Inv /\ [Next]_vars => Inv'
<1> SUFFICES ASSUME Inv, [Next]_vars PROVE Inv'
  OBVIOUS
<1>1. CASE Work
  BY <1>1, BuildInv, StaticInv, RunPlanInv, AggregateInv, ReportInv, GateInv, PublishInv DEF Work
<1>2. CASE Again
  BY <1>2, AgainInv
<1>3. CASE UNCHANGED vars
  BY <1>3 DEF vars, Inv, TypeOK, Chain, PlansDone, GateOpens, PlanResult, Executions, Passed,
              Evidence, Counted, VerdictIsEarned
<1>4. QED
  BY <1>1, <1>2, <1>3 DEF Next

THEOREM Invariance == Spec => []Inv
  BY InitInv, StepInv, PTL DEF Spec

-----------------------------------------------------------------------------
(* The types, and one artifact of a name: no execution of a plan meets the  *)
(* artifact of an earlier one.                                              *)
THEOREM TypeCorrect == Spec => []TypeOK
<1>1. Inv => TypeOK
  BY DEF Inv
<1>2. QED
  BY <1>1, Invariance, PTL

(* A good verdict rests on the last execution of every plan.                *)
THEOREM VerdictEarned == Spec => []VerdictIsEarned
<1>1. Inv => VerdictIsEarned
  BY DEF Inv
<1>2. QED
  BY <1>1, Invariance, PTL

(* A gate that opens counted every shard's last execution.                  *)
THEOREM CoverageCurrent == Spec => []CoverageIsCurrent
<1>1. Inv => CoverageIsCurrent
  <2> SUFFICES ASSUME Inv, job["gate"] = "success" PROVE counted = {Evidence(s, TRUE) : s \in Shards}
    BY DEF CoverageIsCurrent, Evidence
  <2>1. GateOpens /\ \A p \in Plans : plan[p] = "success"
    BY DEF Inv, Chain, GateOpens, VerdictIsEarned
  <2>2. QED
    BY <2>1, PlansAssumption DEF Inv, Counted, GateOpens
<1>2. QED
  BY <1>1, Invariance, PTL

(* No ISO is published but the one every plan last passed on.               *)
THEOREM PublishedTested == Spec => PublishedIsTested
<1>1. Inv /\ [Next]_vars =>
        [released' # released =>
           /\ released' = released \union {candidate}
           /\ \A p \in Plans : plan[p] = "success" /\ ran[p].iso = candidate]_vars
  <2> SUFFICES ASSUME Inv, Next, released' # released
               PROVE  /\ released' = released \union {candidate}
                      /\ \A p \in Plans : plan[p] = "success" /\ ran[p].iso = candidate
    BY DEF vars
  <2>1. Publish
    BY DEF Next, Work, Again, Build, Static, RunPlan, Aggregate, AggregateLost, Report, Gate,
           RerunJob, RerunPlans, Rerun
  <2>2. released' = released \union {candidate} /\ OpenqaSucceeded
    BY <2>1 DEF Publish
  <2>3. job["gate"] = "success"
    BY <2>1, <2>2 DEF Publish, OpenqaSucceeded, Inv, Chain
  <2>4. \A p \in Plans : plan[p] = "success"
    BY <2>3 DEF Inv, Chain, GateOpens, VerdictIsEarned
  <2>5. QED
    BY <2>2, <2>4 DEF Inv, Passed
<1>2. QED
  BY <1>1, Invariance, PTL DEF Spec, PublishedIsTested

(* When every shard's last execution passed and left a good artifact, the   *)
(* aggregation accepts them, whatever attempts they come from: all were     *)
(* tested on the candidate that is there now.                               *)
THEOREM RerunCompletes == Spec => RerunAddsUp
<1> DEFINE Ready == \A s \in Shards :
             /\ plan[s] = "success"
             /\ \E a \in artifacts : a.plan = s /\ a.attempt = ran[s].attempt /\ a.good
<1>1. ASSUME Inv, Aggregate, job["static"] = "success", Ready
      PROVE  job'["aggregate"] = "success"
  <2>1. ASSUME NEW s \in Shards PROVE Newest(AttemptsOf(s)) = {Evidence(s, TRUE)}
    <3>1. s \in Plans /\ plan[s] = "success"
      BY <1>1, PlansAssumption
    <3>2. PICK good \in BOOLEAN : Newest(AttemptsOf(s)) = {Evidence(s, good)}
      BY <1>1, <3>1, NewestIsEvidence
    <3>3. PICK a \in artifacts : a.plan = s /\ a.attempt = ran[s].attempt /\ a.good
      BY <1>1
    <3>4. /\ Evidence(s, good) \in artifacts
          /\ Evidence(s, good).plan = s /\ Evidence(s, good).attempt = ran[s].attempt
      BY <3>2 DEF Newest, AttemptsOf, Evidence
    <3>5. a = Evidence(s, good)
      BY <1>1, <3>3, <3>4 DEF Inv, TypeOK
    <3>6. Evidence(s, good).good = good
      BY DEF Evidence
    <3>7. good = TRUE
      BY <3>3, <3>5, <3>6
    <3>8. QED
      BY <3>2, <3>7
  <2>2. SelectedShards = {Evidence(s, TRUE) : s \in Shards}
    BY <2>1 DEF SelectedShards
  <2>3. CoverageComplete(SelectedShards)
    <3>1. \A s \in Shards : /\ Evidence(s, TRUE).plan = s
                            /\ Evidence(s, TRUE).iso = candidate
                            /\ Evidence(s, TRUE).good = TRUE
      BY DEF Evidence
    <3>2. \A s \in Shards : Evidence(s, TRUE) \in SelectedShards
      BY <2>2
    <3>3. \A a \in SelectedShards : \E s \in Shards : a = Evidence(s, TRUE)
      BY <2>2
    <3>4. \A a \in SelectedShards : a.good /\ a.iso = candidate
      BY <3>1, <3>3
    <3>5. QED
      BY <3>1, <3>2, <3>4 DEF CoverageComplete
  <2>4. QED
    BY <1>1, <2>3 DEF Aggregate, Finish, Inv, TypeOK, Jobs
<1>2. Inv /\ [Next]_vars =>
        [Aggregate /\ job["static"] = "success" /\ Ready => job'["aggregate"] = "success"]_vars
  BY <1>1
<1>3. QED
  BY <1>2, Invariance, PTL DEF Spec, RerunAddsUp

=============================================================================
