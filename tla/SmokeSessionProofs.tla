------------------------ MODULE SmokeSessionProofs -------------------------
(***************************************************************************)
(* Proofs about SmokeSession, for every set of windows and of contracts.   *)
(* Inv is the inductive invariant; the safety theorems follow from it.     *)
(***************************************************************************)
EXTENDS SmokeSession, TLAPS

(* The probe has a target from settle on, and has printed nothing before    *)
(* READY.                                                                  *)
ProbeOrder ==
  /\ pc \in {"settle", "look", "follow", "read", "judge", "speech", "watch", "closing"}
       => target \in Windows
  /\ pc \in ProbePc \ {"watch", "closing", "ended", "dead"} => ready = None
  /\ pc \in {"watch", "closing"} => ready # None
  /\ record # None => pc = "ended"

(* What the content loop holds on to.  A stale reading survives only where  *)
(* the next read replaces it, or where the deadline has passed.             *)
Readings ==
  /\ pc \in {"follow", "read"} => activeOf \in {None, target}
  /\ pc \in {"judge", "speech"} /\ ~late => evidence = target /\ activeOf = target
  /\ pc = "speech" => Proven
  /\ ReadyIsWholeInTime

(* What is listed was born, and is the launch but for what was forked since.*)
Scopes ==
  /\ proc["launcher"] \notin {"unborn", "detached"}
  /\ target # None => proc[Owner] # "unborn"
  /\ \A p \in scope : proc[p] # "unborn"
  /\ scope # {} =>
       /\ "launcher" \in scope
       /\ target # None => Owner \in scope
       /\ \A p \in Procs : proc[p] = "running" /\ p \notin scope => p \in fresh
  /\ pc \in {"follow", "read", "judge", "speech", "ended", "dead"} => scope = {}

(* The host's shortcut and verdict follow what the probe printed.           *)
HostOrder ==
  /\ host \in {"waitReady", "sendKey"} => keys = 0
  /\ host = "sendKey" => ready # None
  /\ host = "waitFinal" => keys = 1
  /\ keys = 1 => ready # None
  /\ opinion = "pending" <=> host \in {"waitReady", "sendKey", "waitFinal"}
  /\ verdict # "pending" => host = "done"
  /\ verdict = "passed" => opinion = "passed"

(* What was listed last has ended, and none of it was killed by cleanup.    *)
EndedNaturally ==
  /\ proc["launcher"] \in {"exited", "crashed"}
  /\ proc[Owner] \in {"exited", "crashed"}
  /\ \A p \in Procs : proc[p] \in {"running", "killed"} => p \in fresh

(* A passing outcome of a standard application was natural.                 *)
Outcomes ==
  /\ host # "done" => \A p \in Procs : proc[p] # "killed"
  /\ record # None /\ host # "done" => (record.processGone => EndedNaturally)
  /\ record # None /\ record.status = "passed" => ready # None
  /\ opinion = "passed" =>
       /\ pc = "ended"
       /\ keys = 1
       /\ contract.mode = "process-exit" =>
            EndedNaturally /\ proc["launcher"] = "exited"

Inv == TypeOK /\ ProbeOrder /\ Readings /\ Scopes /\ HostOrder /\ Outcomes

-----------------------------------------------------------------------------
(* The initial states satisfy Inv.                                          *)
LEMMA InitInv == Init => Inv
<1> SUFFICES ASSUME Init PROVE Inv
  OBVIOUS
<1> USE DEF Init
<1>1. proc \in [Procs -> ProcState] /\ \A p \in Procs : proc[p] # "killed"
  BY DEF Procs, ProcState
<1>2. TypeOK
  <2>1. late \in BOOLEAN /\ unseen \in BOOLEAN /\ gone \in BOOLEAN
    OBVIOUS
  <2>2. win \in [Windows -> WinState]
    BY DEF WinState
  <2>3. pc \in ProbePc /\ host \in HostPc /\ keys \in 0..1
    BY DEF ProbePc, Timed, HostPc
  <2>4. QED
    BY <1>1, <2>1, <2>2, <2>3, ContractsAssumption DEF TypeOK, Opinions
<1>3. ProbeOrder /\ Readings /\ Scopes /\ HostOrder
  BY DEF ProbeOrder, Readings, ReadyIsWholeInTime, Scopes, Procs, HostOrder
<1>4. Outcomes
  BY <1>1 DEF Outcomes
<1>5. QED
  BY <1>2, <1>3, <1>4 DEF Inv

(* What the probe and the host know does not depend on the application's    *)
(* variables.                                                              *)
LEMMA FrameInv ==
  ASSUME Inv, UNCHANGED <<probeVars, hostVars>>
  PROVE  ProbeOrder' /\ Readings' /\ HostOrder'
  BY DEF Inv, ProbeOrder, Readings, HostOrder, ReadyIsWholeInTime, Whole, Proven,
         probeVars, hostVars

(* A step of the application keeps Inv: a process that ended stays ended,   *)
(* and only a launcher that is alive forks.                                 *)
LEMMA ApplicationInv == Inv /\ Application => Inv'
<1> SUFFICES ASSUME Inv, Application PROVE Inv'
  OBVIOUS
<1> USE DEF probeVars, hostVars, scopeVars
<1>1. UNCHANGED <<probeVars, hostVars, contract, scope>>
  BY DEF Application, Fork, Detach, Exit, WindowsVanish, Map, Fill, Hide, Destroy, Activate,
         Deactivate
<1>2. ProbeOrder' /\ Readings' /\ HostOrder'
  BY <1>1, FrameInv
<1>3. win' \in [Windows -> WinState] /\ active' \in Windows \union {None}
  BY DEF Application, Fork, Detach, Exit, WindowsVanish, Map, Fill, Hide, Destroy, Activate,
         Deactivate, Inv, TypeOK, WinState
<1> DEFINE Typed  == proc' \in [Procs -> ProcState] /\ fresh' \subseteq Procs
           Older  == \A p \in Procs : /\ proc[p] # "unborn" => proc'[p] # "unborn"
                                      /\ proc[p] # "killed" => proc'[p] # "killed"
           NoneNew == scope # {} =>
             \A p \in Procs : proc'[p] = "running" => proc[p] = "running" \/ p \in fresh'
           Stay   == fresh \subseteq fresh' /\ proc'["launcher"] # "detached"
           Still  == EndedNaturally => EndedNaturally' /\ proc'["launcher"] = proc["launcher"]
<1>4. Typed /\ Older /\ NoneNew /\ Stay /\ Still
  <2>1. CASE Fork
    <3>1. proc["launcher"] \in {"running", "detached"} /\ proc["app"] = "unborn"
          /\ proc' = [proc EXCEPT !["app"] = "running"]
          /\ fresh' = IF scope = {} THEN fresh ELSE fresh \union {"app"}
      BY <2>1 DEF Fork, Live, Alive
    <3>2. ~EndedNaturally
      BY <3>1 DEF EndedNaturally
    <3>3. QED
      BY <3>1, <3>2 DEF Inv, TypeOK, Procs, ProcState, Scopes
  <2>2. CASE Detach
    <3>1. proc["app"] = "running" /\ proc' = [proc EXCEPT !["app"] = "detached"]
          /\ UNCHANGED <<contract, fresh>>
      BY <2>2 DEF Detach
    <3>2. EndedNaturally => EndedNaturally' /\ proc'["launcher"] = proc["launcher"]
      BY <3>1 DEF EndedNaturally, Owner, Inv, TypeOK, Procs, ProcState
    <3>3. QED
      BY <3>1, <3>2 DEF Inv, TypeOK, Procs, ProcState, Scopes
  <2>3. ASSUME NEW p \in Procs, Exit(p) PROVE Typed /\ Older /\ NoneNew /\ Stay /\ Still
    <3>1. PICK end \in {"exited", "crashed"} : proc' = [proc EXCEPT ![p] = end]
      BY <2>3 DEF Exit
    <3>2. proc[p] \in {"running", "detached"} /\ UNCHANGED <<contract, fresh>>
      BY <2>3 DEF Exit, Live, Alive
    <3>3. EndedNaturally => EndedNaturally' /\ proc'["launcher"] = proc["launcher"]
      BY <3>1, <3>2 DEF EndedNaturally, Owner, Inv, TypeOK, Procs, ProcState
    <3>4. QED
      BY <3>1, <3>2, <3>3 DEF Inv, TypeOK, Procs, ProcState, Scopes
  <2>4. CASE UNCHANGED <<contract, proc, fresh>>
    BY <2>4 DEF Inv, TypeOK, EndedNaturally, Owner, Scopes
  <2>5. QED
    BY <2>1, <2>2, <2>3, <2>4
       DEF Application, Map, Fill, Hide, Destroy, Activate, Deactivate
<1>5. TypeOK'
  BY <1>1, <1>3, <1>4 DEF Inv, TypeOK
<1>6. Scopes'
  BY <1>1, <1>4 DEF Inv, TypeOK, Scopes, Owner, Procs
<1>7. Outcomes'
  BY <1>1, <1>4 DEF Inv, Outcomes
<1>8. QED
  BY <1>2, <1>5, <1>6, <1>7 DEF Inv

(* The processes that were listed have ended: so has the launch, but for    *)
(* what it forked meanwhile.                                                *)
LEMMA ListedEnded ==
  ASSUME Inv, ListedExited, target # None, host # "done"
  PROVE  EndedNaturally
<1>1. "launcher" \in scope /\ Owner \in scope /\ \A p \in scope : proc[p] \in {"exited", "crashed"}
  BY DEF ListedExited, Alive, Inv, TypeOK, Scopes, Outcomes, ProcState, Procs, Owner
<1>2. QED
  BY <1>1 DEF EndedNaturally, Inv, Scopes, Outcomes

(* The final record keeps Inv when the probe still runs and the record is   *)
(* one the probe may print.                                                *)
LEMMA EndInv ==
  ASSUME Inv, pc \in ProbePc \ {"ended", "dead"},
         NEW status \in {"passed", "failed", "inconclusive"},
         NEW processGone \in BOOLEAN,
         processGone => ListedExited /\ target # None,
         status = "passed" => ready # None,
         End(status, processGone)
  PROVE  Inv'
<1> USE DEF End, Forget, world, appVars, hostVars
<1>1. opinion # "passed" /\ record = None
  BY DEF Inv, ProbeOrder, Outcomes
<1>2. record' \in FinalRecord
  BY DEF Inv, TypeOK, FinalRecord
<1>3. TypeOK'
  BY <1>2 DEF Inv, TypeOK, ProbePc
<1>4. ProbeOrder' /\ Readings' /\ HostOrder'
  BY DEF Inv, ProbeOrder, Readings, ReadyIsWholeInTime, Whole, HostOrder
<1>5. Scopes'
  BY DEF Inv, Scopes, Owner
<1>6. Outcomes'
  <2>1. processGone /\ host # "done" => EndedNaturally
    BY ListedEnded
  <2>2. EndedNaturally => EndedNaturally'
    BY DEF EndedNaturally, Owner
  <2>3. record'.processGone = processGone /\ record'.status = status
    OBVIOUS
  <2>4. QED
    BY <1>1, <2>1, <2>2, <2>3 DEF Inv, Outcomes
<1>7. QED
  BY <1>3, <1>4, <1>5, <1>6 DEF Inv

(* A step of a running probe that prints no final record and leaves the     *)
(* application and the host alone keeps the host's part of Inv.             *)
LEMMA QuietInv ==
  ASSUME Inv, pc \in ProbePc \ {"ended", "dead"}, UNCHANGED <<record, world>>,
         ready # None => ready' # None
  PROVE  HostOrder' /\ Outcomes'
BY DEF Inv, ProbeOrder, HostOrder, Outcomes, world, appVars, hostVars

(* What a step of the probe that lists nothing does to the scope.           *)
LEMMA ScopeKept ==
  ASSUME Inv, UNCHANGED <<world, scopeVars, target>>,
         scope = {} \/ pc' \notin {"follow", "read", "judge", "speech", "ended", "dead"}
  PROVE  Scopes'
BY DEF Inv, Scopes, Owner, world, scopeVars, appVars

LEMMA ScopeEmpty ==
  ASSUME Inv, UNCHANGED world, scope' = {},
         target' # None => proc[Owner] # "unborn"
  PROVE  Scopes'
BY DEF Inv, Scopes, Owner, world, appVars

(* Every step of the probe keeps Inv.                                       *)
LEMMA ProbeInv == Inv /\ Probe => Inv'
<1> SUFFICES ASSUME Inv, Probe PROVE Inv'
  OBVIOUS
<1> USE DEF Timed, ProbePc, others, scopeVars
<1>0. pc \in ProbePc \ {"ended", "dead"}
  <2>1. pc \notin {"ended", "dead"}
    BY DEF Probe, ProbeStep, ListScope, StillRuns, Truncated, OpenFound, OpenAgain, OpenFailed,
           SettleExited, Settled, ContentExited, ContentExpired, Look, LookRefused,
           FollowMoved, FollowStayed, FollowRefused, ReadContent, JudgeFailed, JudgeProven,
           Spoke, Silent, WatchExited, WatchExpired, WatchObserved, WatchClosed,
           WatchUnclosed, DeadlinePasses, Dies
  <2>2. QED
    BY <2>1 DEF Inv, TypeOK
<1>1. CASE Truncated \/ OpenFailed \/ SettleExited \/ ContentExited \/ JudgeFailed
             \/ Silent \/ WatchExpired \/ WatchUnclosed
  <2>1. PICK status \in {"failed", "inconclusive"} : End(status, FALSE)
    BY <1>1 DEF Truncated, OpenFailed, SettleExited, ContentExited, JudgeFailed, Silent,
                WatchExpired, WatchUnclosed
  <2>2. QED
    BY <2>1, <1>0, EndInv
<1>2. CASE WatchExited \/ WatchClosed
  <2>1. PICK exited \in BOOLEAN : exited = ListedExited
    BY DEF ListedExited
  <2>2. ready # None /\ target # None
    BY <1>2, NoneAssumption DEF WatchExited, WatchClosed, Inv, ProbeOrder
  <2>3. CASE WatchExited
    <3>1. End("passed", TRUE) /\ ListedExited
      BY <2>3 DEF WatchExited
    <3>2. QED
      BY <3>1, <2>2, <1>0, EndInv
  <2>4. CASE WatchClosed
    <3>1. End("passed", exited)
      BY <2>4, <2>1 DEF WatchClosed
    <3>2. QED
      BY <3>1, <2>1, <2>2, <1>0, EndInv
  <2>5. QED
    BY <1>2, <2>3, <2>4
<1>3. CASE ListScope
  <2>1. UNCHANGED <<world, probeVars, fresh>> /\ scope' = Listed /\ scope = {}
        /\ pc \in {"open", "settle", "look", "watch", "closing"}
    BY <1>3 DEF ListScope
  <2>2. HostOrder' /\ Outcomes'
    BY <2>1, <1>0, QuietInv DEF probeVars
  <2>3. ProbeOrder' /\ Readings'
    BY <2>1 DEF probeVars, Inv, ProbeOrder, Readings, ReadyIsWholeInTime, Whole, Proven
  <2>4. /\ Listed \subseteq Procs /\ "launcher" \in Listed
        /\ target # None => Owner \in Listed
        /\ \A p \in Procs : proc[p] = "running" => p \in Listed
        /\ \A p \in Listed : proc[p] # "unborn"
    BY DEF Listed, Launch, Known, Owner, Procs, Inv, Scopes
  <2>5. TypeOK' /\ Scopes'
    BY <2>1, <2>4 DEF probeVars, world, appVars, hostVars, Inv, TypeOK, Scopes, Owner
  <2>6. QED
    BY <2>2, <2>3, <2>5 DEF Inv
<1>4. CASE StillRuns \/ OpenAgain
  <2>1. UNCHANGED <<world, probeVars>> /\ scope' = {} /\ fresh' = {}
    BY <1>4 DEF StillRuns, OpenAgain, ScopeRead
  <2>2. HostOrder' /\ Outcomes'
    BY <2>1, <1>0, QuietInv DEF probeVars
  <2>3. Scopes'
    BY <2>1, ScopeEmpty DEF probeVars, Inv, Scopes
  <2>4. TypeOK' /\ ProbeOrder' /\ Readings'
    BY <2>1 DEF probeVars, world, appVars, hostVars, Inv, TypeOK, ProbeOrder, Readings,
                ReadyIsWholeInTime, Whole, Proven
  <2>5. QED
    BY <2>2, <2>3, <2>4 DEF Inv
<1>5. CASE OpenFound
  <2>1. target' \in Windows /\ proc[Owner] # "unborn"
    BY <1>5 DEF OpenFound, Discovered, Candidates, Inv, Scopes
  <2>2. HostOrder' /\ Outcomes'
    BY <1>5, <1>0, QuietInv DEF OpenFound
  <2>3. Scopes'
    BY <1>5, <2>1, ScopeEmpty DEF OpenFound, ScopeRead
  <2>4. TypeOK' /\ ProbeOrder' /\ Readings'
    BY <1>5, <2>1 DEF OpenFound, ScopeRead, world, appVars, hostVars, Inv, TypeOK,
                      ProbeOrder, Readings, ReadyIsWholeInTime, Whole
  <2>5. QED
    BY <2>2, <2>3, <2>4 DEF Inv
<1>6. CASE Settled
  <2>1. HostOrder' /\ Outcomes'
    BY <1>6, <1>0, QuietInv DEF Settled
  <2>2. Scopes'
    BY <1>6, ScopeKept DEF Settled, Inv, Scopes
  <2>3. TypeOK' /\ ProbeOrder' /\ Readings'
    BY <1>6
       DEF Settled, world, appVars, hostVars, Inv, TypeOK, ProbeOrder,
           Readings, ReadyIsWholeInTime, Whole
  <2>4. QED
    BY <2>1, <2>2, <2>3 DEF Inv
<1>7. CASE ContentExpired
  <2>1. HostOrder' /\ Outcomes'
    BY <1>7, <1>0, QuietInv DEF ContentExpired
  <2>2. Scopes'
    BY <1>7, ScopeKept DEF ContentExpired, Inv, Scopes
  <2>3. TypeOK' /\ ProbeOrder' /\ Readings'
    BY <1>7
       DEF ContentExpired, world, appVars, hostVars, Inv, TypeOK, ProbeOrder,
           Readings, ReadyIsWholeInTime, Whole
  <2>4. QED
    BY <2>1, <2>2, <2>3 DEF Inv
<1>8. CASE Look
  <2>1. HostOrder' /\ Outcomes'
    BY <1>8, <1>0, QuietInv DEF Look
  <2>2. Scopes'
    BY <1>8, ScopeEmpty DEF Look, ScopeRead, Inv, Scopes
  <2>3. TypeOK' /\ ProbeOrder' /\ Readings'
    BY <1>8
       DEF Look, Showing, ScopeRead, world, appVars, hostVars, Inv, TypeOK, ProbeOrder,
           Readings, ReadyIsWholeInTime, Whole
  <2>4. QED
    BY <2>1, <2>2, <2>3 DEF Inv
<1>9. CASE LookRefused
  <2>1. HostOrder' /\ Outcomes'
    BY <1>9, <1>0, QuietInv DEF LookRefused
  <2>2. Scopes'
    BY <1>9, ScopeEmpty DEF LookRefused, ScopeRead, Inv, Scopes
  <2>3. TypeOK' /\ ProbeOrder' /\ Readings'
    BY <1>9
       DEF LookRefused, EndIteration, ScopeRead, world, appVars, hostVars, Inv, TypeOK, ProbeOrder,
           Readings, ReadyIsWholeInTime, Whole
  <2>4. QED
    BY <2>1, <2>2, <2>3 DEF Inv
<1>10. CASE FollowMoved
  <2>1. target' \in Windows
    BY <1>10 DEF FollowMoved, Discovered, Candidates
  <2>2. HostOrder' /\ Outcomes'
    BY <1>10, <1>0, QuietInv DEF FollowMoved
  <2>3. Scopes'
    BY <1>10, NoneAssumption, ScopeEmpty DEF FollowMoved, Inv, Scopes, ProbeOrder
  <2>4. TypeOK' /\ ProbeOrder' /\ Readings'
    BY <1>10, <2>1
       DEF FollowMoved, world, appVars, hostVars, Inv, TypeOK, ProbeOrder,
           Readings, ReadyIsWholeInTime, Whole
  <2>5. QED
    BY <2>2, <2>3, <2>4 DEF Inv
<1>11. CASE FollowStayed
  <2>1. HostOrder' /\ Outcomes'
    BY <1>11, <1>0, QuietInv DEF FollowStayed
  <2>2. Scopes'
    BY <1>11, ScopeKept DEF FollowStayed, Inv, Scopes
  <2>3. TypeOK' /\ ProbeOrder' /\ Readings'
    BY <1>11
       DEF FollowStayed, EndIteration, world, appVars, hostVars, Inv, TypeOK, ProbeOrder,
           Readings, ReadyIsWholeInTime, Whole
  <2>4. QED
    BY <2>1, <2>2, <2>3 DEF Inv
<1>12. CASE FollowRefused
  <2>1. HostOrder' /\ Outcomes'
    BY <1>12, <1>0, QuietInv DEF FollowRefused
  <2>2. Scopes'
    BY <1>12, ScopeKept DEF FollowRefused, Inv, Scopes
  <2>3. TypeOK' /\ ProbeOrder' /\ Readings'
    BY <1>12
       DEF FollowRefused, EndIteration, world, appVars, hostVars, Inv, TypeOK, ProbeOrder,
           Readings, ReadyIsWholeInTime, Whole
  <2>4. QED
    BY <2>1, <2>2, <2>3 DEF Inv
<1>13. CASE ReadContent
  <2>1. HostOrder' /\ Outcomes'
    BY <1>13, <1>0, QuietInv DEF ReadContent
  <2>2. Scopes'
    BY <1>13, ScopeKept DEF ReadContent, Inv, Scopes
  <2>3. TypeOK' /\ ProbeOrder' /\ Readings'
    BY <1>13, NoneAssumption
       DEF ReadContent, EndIteration, world, appVars, hostVars, Inv, TypeOK, ProbeOrder,
           Readings, ReadyIsWholeInTime, Whole
  <2>4. QED
    BY <2>1, <2>2, <2>3 DEF Inv
<1>14. CASE pc \in {"judge", "speech"} /\ Proven /\ EmitReady
  <2>1. ready' \in ReadyRecord
    BY <1>14 DEF EmitReady, Proven, ReadyRecord, Inv, TypeOK, ProbeOrder
  <2>2. HostOrder' /\ Outcomes'
    BY <1>14, <1>0, <2>1, NoneAssumption, QuietInv DEF EmitReady
  <2>3. Scopes'
    BY <1>14, ScopeKept DEF EmitReady, Inv, Scopes
  <2>4. TypeOK' /\ ProbeOrder'
    BY <1>14, <2>1, NoneAssumption
       DEF EmitReady, Forget, world, appVars, hostVars, Inv, TypeOK, ProbeOrder
  <2>5. Readings'
    BY <1>14 DEF EmitReady, Forget, Inv, Readings, ReadyIsWholeInTime, Whole
  <2>6. QED
    BY <2>2, <2>3, <2>4, <2>5 DEF Inv
<1>15. CASE JudgeProven /\ contract.speech
  <2>1. HostOrder' /\ Outcomes'
    BY <1>15, <1>0, QuietInv DEF JudgeProven
  <2>2. Scopes'
    BY <1>15, ScopeKept DEF JudgeProven, Inv, Scopes
  <2>3. TypeOK' /\ ProbeOrder' /\ Readings'
    BY <1>15 DEF JudgeProven, world, appVars, hostVars, Inv, TypeOK, ProbeOrder,
                 Readings, Proven, ReadyIsWholeInTime, Whole
  <2>4. QED
    BY <2>1, <2>2, <2>3 DEF Inv
<1>16. CASE WatchObserved
  <2>1. HostOrder' /\ Outcomes'
    BY <1>16, <1>0, QuietInv DEF WatchObserved
  <2>2. Scopes'
    BY <1>16, ScopeKept DEF WatchObserved, Inv, Scopes
  <2>3. TypeOK' /\ ProbeOrder' /\ Readings'
    BY <1>16
       DEF WatchObserved, world, appVars, hostVars, Inv, TypeOK, ProbeOrder,
           Readings, ReadyIsWholeInTime, Whole
  <2>4. QED
    BY <2>1, <2>2, <2>3 DEF Inv
<1>17. CASE DeadlinePasses
  <2>1. HostOrder' /\ Outcomes'
    BY <1>17, <1>0, QuietInv DEF DeadlinePasses
  <2>2. Scopes'
    BY <1>17, ScopeKept DEF DeadlinePasses, Inv, Scopes
  <2>3. TypeOK' /\ ProbeOrder' /\ Readings'
    BY <1>17
       DEF DeadlinePasses, world, appVars, hostVars, Inv, TypeOK, ProbeOrder,
           Readings, ReadyIsWholeInTime, Whole
  <2>4. QED
    BY <2>1, <2>2, <2>3 DEF Inv
<1>18. CASE Dies
  <2>1. HostOrder' /\ Outcomes'
    BY <1>18, <1>0, QuietInv DEF Dies
  <2>2. Scopes'
    BY <1>18, ScopeEmpty DEF Dies, Inv, Scopes
  <2>3. TypeOK' /\ ProbeOrder' /\ Readings'
    BY <1>18
       DEF Dies, Forget, world, appVars, hostVars, Inv, TypeOK, ProbeOrder,
           Readings, ReadyIsWholeInTime, Whole
  <2>4. QED
    BY <2>1, <2>2, <2>3 DEF Inv
<1>19. QED
  <2>1. CASE JudgeProven
    BY <2>1, <1>14, <1>15 DEF JudgeProven
  <2>2. CASE Spoke
    BY <2>2, <1>14 DEF Spoke, Inv, Readings
  <2>3. QED
    BY <2>1, <2>2, <1>1, <1>2, <1>3, <1>4, <1>5, <1>6, <1>7, <1>8, <1>9, <1>10, <1>11,
       <1>12, <1>13, <1>16, <1>17, <1>18
       DEF Probe, ProbeStep

(* Every step of the host keeps Inv.                                        *)
LEMMA HostInv == Inv /\ HostStep => Inv'
<1> SUFFICES ASSUME Inv, HostStep PROVE Inv'
  OBVIOUS
<1> USE DEF probeVars, appVars, scopeVars
<1>1. CASE HostEarly \/ HostReady \/ HostRefuses \/ SendKey \/ HostTimeout \/ Recover
  <2>1. UNCHANGED <<appVars, scopeVars, probeVars, verdict>>
        /\ host \notin {"cleanup", "done"} /\ host' # "done"
    BY <1>1 DEF HostEarly, HostReady, HostRefuses, SendKey, HostTimeout, GiveUp, Recover
  <2>2. ProbeOrder' /\ Readings' /\ Scopes'
    BY <2>1 DEF Inv, ProbeOrder, Readings, ReadyIsWholeInTime, Whole, Proven, Scopes, Owner
  <2>3. TypeOK' /\ HostOrder'
    BY <1>1, <2>1 DEF HostEarly, HostReady, HostRefuses, SendKey, HostTimeout, GiveUp, Recover,
                      Inv, TypeOK, HostPc, Opinions, HostOrder
  <2>4. opinion' # "passed" \/ (opinion' = opinion /\ keys' = keys)
    BY <1>1 DEF HostEarly, HostReady, HostRefuses, SendKey, HostTimeout, GiveUp, Recover,
                Inv, HostOrder
  <2>5. Outcomes'
    BY <2>1, <2>4 DEF Inv, Outcomes, EndedNaturally, Owner
  <2>6. QED
    BY <2>2, <2>3, <2>5 DEF Inv
<1>2. CASE HostFinal
  <2>1. opinion' \in {"passed", "failed"} /\ host' = "cleanup" /\ host = "waitFinal"
        /\ record # None /\ UNCHANGED <<keys, verdict, appVars, scopeVars, probeVars>>
    BY <1>2 DEF HostFinal
  <2>2. opinion' = "passed" /\ contract.mode = "process-exit" =>
          record.processGone /\ proc["launcher"] = "exited"
    BY <1>2 DEF HostFinal, OutcomeAllowed, ExitCodes
  <2>3. TypeOK' /\ ProbeOrder' /\ Readings' /\ Scopes'
    BY <2>1 DEF Inv, TypeOK, HostPc, Opinions, ProbeOrder, Readings, ReadyIsWholeInTime,
                Whole, Proven, Scopes, Owner
  <2>4. HostOrder' /\ pc = "ended"
    BY <2>1 DEF Inv, ProbeOrder, HostOrder
  <2>5. EndedNaturally' <=> EndedNaturally
    BY <2>1 DEF EndedNaturally, Owner
  <2>6. Outcomes'
    BY <2>1, <2>2, <2>4, <2>5 DEF Inv, HostOrder, Outcomes
  <2>7. QED
    BY <2>3, <2>4, <2>6 DEF Inv
<1>3. CASE Cleanup
  <2>1. /\ host = "cleanup" /\ host' = "done" /\ verdict' \in {"passed", "failed"}
        /\ verdict' = "passed" => opinion = "passed"
        /\ UNCHANGED <<contract, keys, opinion, scopeVars, probeVars>>
    BY <1>3 DEF Cleanup
  <2>2. /\ proc' \in [Procs -> ProcState]
        /\ \A p \in Procs : \/ proc'[p] = proc[p]
                            \/ proc[p] \in {"running", "detached"} /\ proc'[p] = "killed"
        /\ win' \in [Windows -> WinState] /\ active' \in Windows \union {None}
    BY <1>3 DEF Cleanup, Alive, WindowsVanish, WinState, ProcState, Inv, TypeOK
  <2>3. EndedNaturally =>
          EndedNaturally' /\ proc'["launcher"] = proc["launcher"]
    <3>1. CASE UNCHANGED proc
      BY <3>1, <2>1 DEF EndedNaturally, Owner
    <3>2. CASE proc' = [p \in Procs |->
                 IF Alive(p) /\ p \in Launch \union {Owner} THEN "killed" ELSE proc[p]]
      BY <3>2, <2>1 DEF EndedNaturally, Owner, Alive, Launch, Procs, Inv, TypeOK, Scopes
    <3>3. QED
      BY <1>3, <3>1, <3>2 DEF Cleanup
  <2>4. TypeOK' /\ ProbeOrder' /\ Readings' /\ HostOrder'
    BY <2>1, <2>2 DEF Inv, TypeOK, HostPc, ProbeOrder, Readings, ReadyIsWholeInTime,
                      Whole, Proven, HostOrder
  <2>5. Scopes'
    BY <2>1, <2>2 DEF Inv, TypeOK, Scopes, Owner, Procs
  <2>6. Outcomes'
    BY <2>1, <2>3 DEF Inv, HostOrder, Outcomes
  <2>7. QED
    BY <2>4, <2>5, <2>6 DEF Inv
<1>4. QED
  BY <1>1, <1>2, <1>3 DEF HostStep

(* Inv holds in every reachable state.                                      *)
THEOREM Invariance == Spec => []Inv
<1>1. Inv /\ [Next]_vars => Inv'
  <2> SUFFICES ASSUME Inv, [Next]_vars PROVE Inv'
    OBVIOUS
  <2>1. CASE Next
    BY <2>1, ApplicationInv, ProbeInv, HostInv DEF Next
  <2>2. CASE UNCHANGED vars
    BY <2>2 DEF vars, appVars, scopeVars, probeVars, hostVars, Inv, TypeOK, ProbeOrder,
                Readings, ReadyIsWholeInTime, Whole, Proven, Scopes, Owner, HostOrder,
                Outcomes, EndedNaturally
  <2>3. QED
    BY <2>1, <2>2
<1>2. QED
  BY <1>1, InitInv, PTL DEF Spec

-----------------------------------------------------------------------------
(* Every variable keeps its type.                                           *)
THEOREM TypeCorrect == Spec => []TypeOK
<1>1. Inv => TypeOK
  BY DEF Inv
<1>2. QED
  BY <1>1, Invariance, PTL

(* A READY printed before the content deadline names the window its         *)
(* evidence and its ACTIVE reading came from.                               *)
THEOREM ReadyWhole == Spec => []ReadyIsWholeInTime
<1>1. Inv => ReadyIsWholeInTime
  BY DEF Inv, Readings
<1>2. QED
  BY <1>1, Invariance, PTL

(* A standard application passes only by ending on its own, with an allowed *)
(* exit status, after the shortcut; nothing is left of it but what it forked*)
(* while the probe looked at the processes it had listed.                   *)
THEOREM StandardPass == Spec => []StandardPassIsNatural
<1>1. Inv => StandardPassIsNatural
  BY DEF Inv, HostOrder, Outcomes, StandardPassIsNatural, EndedNaturally
<1>2. QED
  BY <1>1, Invariance, PTL

(* The probe moves only to a showing top-level of the launch, and no longer *)
(* moves once it printed READY.                                             *)
THEOREM WindowKept == Spec => ProvenWindowIsKept
<1> DEFINE Kept == target' # target =>
                     /\ ready = None
                     /\ target' \in Windows \ Ineligible /\ Showing(target')
<1>1. Inv /\ [Next]_vars => Kept
  <2> SUFFICES ASSUME Inv, [Next]_vars, target' # target PROVE Kept
    OBVIOUS
  <2>1. OpenFound \/ FollowMoved
    BY DEF Next, Application, Fork, Detach, Exit, Map, Fill, Hide, Destroy, Activate, Deactivate,
           Probe, ProbeStep, ListScope, StillRuns, Truncated, OpenAgain, OpenFailed,
           SettleExited, Settled, ContentExited, ContentExpired, Look, LookRefused,
           FollowStayed, FollowRefused, ReadContent, JudgeFailed, JudgeProven, Spoke, Silent,
           EmitReady, WatchExited, WatchExpired,
           WatchObserved, WatchClosed, WatchUnclosed, DeadlinePasses, Dies, End, HostStep,
           HostEarly, HostReady, HostRefuses, SendKey, HostTimeout, GiveUp, Recover,
           HostFinal, Cleanup, vars, probeVars
  <2>2. target' \in Candidates
    BY <2>1 DEF OpenFound, FollowMoved, Discovered
  <2>3. ready = None
    BY <2>1 DEF OpenFound, FollowMoved, Inv, ProbeOrder, ProbePc, Timed
  <2>4. QED
    BY <2>2, <2>3 DEF Candidates
<1>2. QED
  BY <1>1, Invariance, PTL DEF Spec, ProvenWindowIsKept

-----------------------------------------------------------------------------
(* The session implements the abstract one: a window is proven once, its    *)
(* shortcut is sent once and only then, and only such a session passes.     *)
THEOREM Refinement == Spec => OneKey
<1>1. Init => Promise!Init
  BY DEF Init, Promise!Init
<1>2. Inv /\ [Next]_vars => [Promise!Next]_(Promise!vars)
  <2> SUFFICES ASSUME Inv, [Next]_vars PROVE Promise!Next \/ UNCHANGED Promise!vars
    OBVIOUS
  <2> USE DEF Promise!vars, probeVars, hostVars
  <2>1. CASE JudgeProven \/ Spoke
    <3>1. CASE UNCHANGED ready
      BY <2>1, <3>1 DEF JudgeProven, Spoke, EmitReady, others, world
    <3>2. CASE EmitReady
      <4>1. ready = None
        BY <2>1 DEF JudgeProven, Spoke, Inv, ProbeOrder, ProbePc, Timed
      <4>2. evidence \in Windows /\ activeOf \in Windows /\ target \in Windows
        BY <2>1 DEF JudgeProven, Spoke, Proven, Inv, TypeOK, ProbeOrder, Readings
      <4>3. ready' \in ReadyRecord
        BY <3>2, <4>2 DEF EmitReady, ReadyRecord, Inv, TypeOK
      <4>4. ready' # None /\ UNCHANGED <<keys, verdict>>
        BY <3>2, <4>3, NoneAssumption DEF EmitReady, others, world
      <4>5. QED
        BY <4>1, <4>4 DEF Promise!Next, Promise!Prove
    <3>3. QED
      BY <2>1, <3>1, <3>2 DEF JudgeProven, Spoke
  <2>2. CASE SendKey
    <3>1. ready # None /\ keys = 0 /\ keys' = 1 /\ verdict = "pending"
          /\ UNCHANGED <<ready, verdict>>
      BY <2>2 DEF SendKey, Inv, HostOrder
    <3>2. QED
      BY <3>1 DEF Promise!Next, Promise!Key
  <2>3. CASE Cleanup
    <3>1. /\ verdict = "pending" /\ verdict' \in {"passed", "failed"}
          /\ verdict' = "passed" => keys = 1
          /\ UNCHANGED <<ready, keys>>
      BY <2>3 DEF Cleanup, Inv, TypeOK, HostOrder, Outcomes
    <3>2. QED
      BY <3>1 DEF Promise!Next, Promise!Pass, Promise!Fail
  <2>4. CASE UNCHANGED <<ready, keys, verdict>>
    BY <2>4
  <2>5. QED
    BY <2>1, <2>2, <2>3, <2>4
       DEF Next, Application, Fork, Detach, Exit, Map, Fill, Hide, Destroy, Activate,
           Deactivate, Probe, ProbeStep, ListScope, StillRuns, Truncated, OpenFound,
           OpenAgain, OpenFailed, SettleExited, Settled, ContentExited, ContentExpired,
           Look, LookRefused, FollowMoved, FollowStayed, FollowRefused, ReadContent,
           JudgeFailed, Silent, WatchExited, WatchExpired, WatchObserved, WatchClosed,
           WatchUnclosed, DeadlinePasses, Dies, End, others, world, HostStep, HostEarly,
           HostReady, HostRefuses, HostTimeout, GiveUp, Recover, HostFinal, vars
<1>3. QED
  BY <1>1, <1>2, Invariance, PTL DEF Spec, OneKey, Promise!Spec

=============================================================================
