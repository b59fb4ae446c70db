----------------------------- MODULE WindowScan -----------------------------
(***************************************************************************)
(* How the isolated close observer (wait_for_window_change with a window   *)
(* identity, in data/atspi_probe.py) reads the accessibility registry: one *)
(* call per application and per window, by index, while applications and   *)
(* windows come and go.  Applications are read newest first over the count *)
(* read at the start of the scan; the windows of an owned application are  *)
(* read oldest first over the count read when the application was reached. *)
(* Which applications are owned is read again before every poll, without   *)
(* the process that published the window (ProcessScope opens that up).     *)
(***************************************************************************)
EXTENDS Registry, Naturals, FiniteSets, SequencesExt

CONSTANTS
  OwnerOf,    \* the application of each window
  Target,     \* the window the smoke session proved
  NoApp       \* no application is being read

ASSUME OwnersAssumption ==
  /\ IsFiniteSet(Apps) /\ IsFiniteSet(Windows)
  /\ Apps \intersect Windows = {}
  /\ Owned \subseteq Apps /\ NoApp \notin Apps
  /\ OwnerOf \in [Windows -> Apps]
  /\ Target \in Windows /\ OwnerOf[Target] \in Owned

VARIABLES
  registry,   \* the registered applications, in order of registration
  children,   \* the top-level windows of each application, in order
  showing,    \* the windows with the SHOWING state
  lingering,  \* windows that left their list and whose object still answers
  fresh,      \* the applications and windows that were never registered
  belongs,    \* the applications in the launch's tree or group
  owned,      \* those whose process the scope of this poll lists
  pc,         \* where the observer is
  late,       \* its deadline has passed
  appIndex,   \* the next registry index it reads, counted down to 0
  app,        \* the application being read, or NoApp
  winIndex,   \* the next child index it reads
  winCount,   \* the child count it read
  found,      \* the children read and not yet asked for their states
  seen,       \* the windows this scan saw showing
  stayed,     \* history: owned applications registered since the scan began
  covered,    \* history: applications this scan read to the end
  absent,     \* history: the target was missing at some moment of the scan
  shifted     \* history: an older sibling of the target left during the scan
              \* and lingers

providerVars == <<registry, children, showing, lingering, fresh, belongs>>
cursorVars   == <<appIndex, app, winIndex, winCount, found>>
historyVars  == <<stayed, covered, absent, shifted>>
vars == <<providerVars, pc, late, owned, cursorVars, seen, historyVars>>

Reading == {"apps", "windows", "states"}
Ended   == {"closed", "open", "inconclusive"}

Present(w) == OwnerOf[w] \in ToSet(registry) /\ w \in ToSet(children[OwnerOf[w]])
TargetShown == Present(Target) /\ Target \in showing

TypeOK ==
  /\ registry \in Seq(Apps) /\ IsInjective(registry)
  /\ children \in [Apps -> Seq(Windows)]
  /\ \A a \in Apps : /\ ToSet(children[a]) \subseteq {w \in Windows : OwnerOf[w] = a}
                    /\ IsInjective(children[a])
  /\ showing \subseteq Windows /\ lingering \subseteq Windows
  /\ fresh \subseteq Apps \union Windows
  /\ belongs \subseteq Owned /\ owned \subseteq Owned
  /\ pc \in {"scope", "poll"} \union Reading \union Ended /\ late \in BOOLEAN
  /\ appIndex \in 0..Cardinality(Apps) /\ app \in Apps \union {NoApp}
  /\ winCount \in 0..Cardinality(Windows) /\ winIndex \in 1..(winCount + 1)
  /\ found \in Seq(Windows) /\ seen \subseteq Windows
  /\ stayed \subseteq Owned /\ covered \subseteq Apps
  /\ absent \in BOOLEAN /\ shifted \in BOOLEAN

(* The smoke session has just proven the target.  What is there came in any *)
(* order.                                                                   *)
Init ==
  /\ registry \in SetToAllKPermutations(Apps)
  /\ children \in [Apps -> SetToAllKPermutations(Windows)]
  /\ \A a \in Apps :
       ToSet(children[a]) \subseteq
         {w \in Windows : OwnerOf[w] = a /\ a \in ToSet(registry)}
  /\ Present(Target)
  /\ showing = {w \in Windows : Present(w)} /\ lingering = {}
  /\ fresh = (Apps \ ToSet(registry)) \union {w \in Windows : ~Present(w)}
  /\ belongs = Owned /\ owned = {}
  /\ pc = "scope" /\ late = FALSE
  /\ appIndex = 0 /\ app = NoApp /\ winIndex = 1 /\ winCount = 0 /\ found = <<>>
  /\ seen = {} /\ stayed = {} /\ covered = {} /\ absent = FALSE /\ shifted = FALSE

-----------------------------------------------------------------------------
(* The providers.                                                          *)

(* What the change means for the scan in progress.                         *)
Remember ==
  /\ absent' = (pc \in Reading /\ (absent \/ ~TargetShown'))
  /\ stayed' = stayed \intersect ToSet(registry')
  /\ UNCHANGED <<belongs, pc, late, owned, cursorVars, seen, covered>>

Running == pc \notin Ended

Register(a) ==
  /\ Running /\ a \in fresh
  /\ registry' = Append(registry, a)
  /\ fresh' = fresh \ {a}
  /\ UNCHANGED <<children, showing, lingering, shifted>>
  /\ Remember

Unregister(a) ==
  /\ Running
  /\ \E i \in DOMAIN registry : registry[i] = a /\ registry' = RemoveAt(registry, i)
  /\ children' = [children EXCEPT ![a] = <<>>]
  /\ showing' = showing \ ToSet(children[a])
  /\ UNCHANGED <<lingering, fresh, shifted>>
  /\ Remember

Publish(w) ==
  /\ Running /\ w \in fresh /\ OwnerOf[w] \in ToSet(registry)
  /\ children' = [children EXCEPT ![OwnerOf[w]] = Append(@, w)]
  /\ showing' = showing \union {w}
  /\ fresh' = fresh \ {w}
  /\ UNCHANGED <<registry, lingering, shifted>>
  /\ Remember

Older(w, x) ==
  \E i, j \in 1..Len(children[OwnerOf[x]]) :
    i < j /\ children[OwnerOf[x]][i] = w /\ children[OwnerOf[x]][j] = x

(* Some toolkits keep the object of a window that left the list.            *)
Withdraw(w) ==
  /\ Running /\ Present(w)
  /\ lingering' \in {lingering, lingering \union {w}}
  /\ \E i \in DOMAIN children[OwnerOf[w]] :
       /\ children[OwnerOf[w]][i] = w
       /\ children' = [children EXCEPT ![OwnerOf[w]] = RemoveAt(@, i)]
  /\ showing' = showing \ {w}
  /\ shifted' = (pc \in Reading /\ (shifted \/ (Older(w, Target) /\ w \in lingering')))
  /\ UNCHANGED <<registry, fresh>>
  /\ Remember

Toggle(w) ==
  /\ Running /\ Present(w)
  /\ showing' = IF w \in showing THEN showing \ {w} ELSE showing \union {w}
  /\ UNCHANGED <<registry, children, lingering, fresh, shifted>>
  /\ Remember

Provider ==
  \/ \E a \in Apps : Register(a) \/ Unregister(a)
  \/ \E w \in Windows : Publish(w) \/ Withdraw(w) \/ Toggle(w)

(* A process whose parent ended and that left the launch's group: its       *)
(* windows stay, and the scope no longer leads to it.                       *)
Depart(a) ==
  /\ Running /\ a \in belongs
  /\ belongs' = belongs \ {a}
  /\ UNCHANGED <<registry, children, showing, lingering, fresh, pc, late, owned, cursorVars, seen,
                 historyVars>>

-----------------------------------------------------------------------------
(* The observer.                                                           *)

(* What a scan reads is local to it: nothing outlives it but its verdict.   *)
Forget ==
  /\ appIndex' = 0 /\ app' = NoApp /\ winIndex' = 1 /\ winCount' = 0 /\ found' = <<>>
  /\ seen' = {} /\ stayed' = {} /\ covered' = {} /\ absent' = FALSE /\ shifted' = FALSE

(* The loop: the processes of the launch are listed again.  A process that  *)
(* forks meanwhile may be missed, and its application registers later.      *)
ReadScope ==
  /\ pc = "scope" /\ ~late
  /\ pc' = "poll" /\ \E missed \in SUBSET fresh : owned' = belongs \ missed
  /\ UNCHANGED <<late, cursorVars, seen, historyVars, providerVars>>

Expired ==
  /\ pc = "scope" /\ late
  /\ pc' = "open"
  /\ UNCHANGED <<late, owned, cursorVars, seen, historyVars, providerVars>>

(* Mutant: the index starts one past the last application.                 *)
StartPastEnd ==
  /\ pc = "poll"
  /\ pc' = "apps" /\ appIndex' = Len(registry) + 1
  /\ app' = NoApp /\ found' = <<>> /\ winIndex' = 1 /\ winCount' = 0
  /\ seen' = {}
  /\ stayed' = owned \intersect ToSet(registry) /\ covered' = {}
  /\ absent' = ~TargetShown /\ shifted' = FALSE
  /\ UNCHANGED <<late, owned, providerVars>>

(* get_child_count of the registry.                                        *)
Start ==
  /\ pc = "poll"
  /\ pc' = "apps" /\ appIndex' = Len(registry)
  /\ app' = NoApp /\ found' = <<>> /\ winIndex' = 1 /\ winCount' = 0
  /\ seen' = {}
  /\ stayed' = owned \intersect ToSet(registry) /\ covered' = {}
  /\ absent' = ~TargetShown /\ shifted' = FALSE
  /\ UNCHANGED <<late, owned, providerVars>>

(* An index past the end reads as no child.                                 *)
AppAt(i) == IF i \in 1..Len(registry) THEN registry[i] ELSE NoApp

(* An application that is not owned is not asked for anything else.         *)
SkipApp ==
  /\ pc = "apps" /\ appIndex > 0 /\ AppAt(appIndex) \notin owned
  /\ appIndex' = appIndex - 1
  /\ UNCHANGED <<pc, late, owned, app, winIndex, winCount, found, seen, historyVars, providerVars>>

EnterApp ==
  /\ pc = "apps" /\ AppAt(appIndex) \in owned
  /\ app' = AppAt(appIndex)
  /\ winCount' = Len(children[app']) /\ winIndex' = 1
  /\ pc' = "windows"
  /\ UNCHANGED <<late, owned, appIndex, found, seen, historyVars, providerVars>>

(* Mutant: a window that refuses to be read is skipped.                     *)
ReadWindowSkipsRefused ==
  /\ pc = "windows" /\ winIndex <= winCount /\ app \in ToSet(registry)
  /\ \/ winIndex <= Len(children[app]) /\ found' = Append(found, children[app][winIndex])
     \/ UNCHANGED found
  /\ winIndex' = winIndex + 1
  /\ UNCHANGED <<pc, late, owned, appIndex, app, winCount, seen, historyVars, providerVars>>

ReadWindow ==
  /\ pc = "windows" /\ winIndex <= winCount /\ app \in ToSet(registry)
  /\ found' = IF winIndex <= Len(children[app])
              THEN Append(found, children[app][winIndex])
              ELSE found
  /\ winIndex' = winIndex + 1
  /\ UNCHANGED <<pc, late, owned, appIndex, app, winCount, seen, historyVars, providerVars>>

AskStates ==
  /\ pc = "windows" /\ winIndex > winCount
  /\ pc' = "states" /\ winIndex' = 1 /\ winCount' = 0
  /\ UNCHANGED <<late, owned, appIndex, app, found, seen, historyVars, providerVars>>

(* A window that left its application's list may still answer, as not       *)
(* SHOWING, when its toolkit keeps the object.                              *)
Answers(w) ==
  OwnerOf[w] \in ToSet(registry) /\ (w \in ToSet(children[OwnerOf[w]]) \/ w \in lingering)

ReadState ==
  /\ pc = "states" /\ found # <<>> /\ Answers(Head(found))
  /\ seen' = seen \union ({Head(found)} \intersect showing)
  /\ found' = Tail(found)
  /\ UNCHANGED <<pc, late, owned, appIndex, app, winIndex, winCount, historyVars, providerVars>>

LeaveApp ==
  /\ pc = "states" /\ found = <<>>
  /\ pc' = "apps" /\ appIndex' = appIndex - 1 /\ app' = NoApp
  /\ covered' = covered \union {app}
  /\ UNCHANGED <<late, owned, winIndex, winCount, found, seen, stayed, absent, shifted,
                 providerVars>>

(* Mutants: a refusal skips the application; each retry has a deadline of   *)
(* its own.                                                                *)
RefusedSkipsApp ==
  /\ pc \in {"windows", "states"}
  /\ pc' = "apps" /\ appIndex' = appIndex - 1 /\ app' = NoApp /\ found' = <<>>
  /\ UNCHANGED <<late, owned, winIndex, winCount, seen, historyVars, providerVars>>
RefusedNewDeadline ==
  /\ pc \in Reading /\ (pc = "apps" => appIndex > 0)
  /\ pc' = "poll" /\ late' = FALSE
  /\ UNCHANGED <<owned, cursorVars, seen, historyVars, providerVars>>

(* A call on the registry or an owned provider fails: the scan starts over, *)
(* in the same scope, while there is time, and proves nothing when there is *)
(* none.  Nothing else can follow when the provider has left or the window  *)
(* no longer answers.                                                       *)
Refused ==
  /\ pc \in {"poll"} \union Reading /\ (pc = "apps" => appIndex > 0)
  /\ pc' = IF late THEN "inconclusive" ELSE "poll"
  /\ Forget
  /\ UNCHANGED <<late, owned, providerVars>>

(* The deadline is checked before each index and before the states.         *)
Truncated ==
  /\ pc \in Reading /\ late /\ (pc = "apps" => appIndex > 0)
  /\ pc' = "inconclusive"
  /\ Forget
  /\ UNCHANGED <<late, owned, providerVars>>

(* The target counts as closed when the scan did not see it showing, or     *)
(* when no process of the scope is left.                                    *)
Judge ==
  /\ pc = "apps" /\ appIndex = 0
  /\ pc' \in IF Target \notin seen THEN {"closed"}
             ELSE IF owned \intersect ToSet(registry) = {} THEN {"closed", "scope"}
             ELSE {"scope"}
  /\ IF pc' = "closed" THEN UNCHANGED <<owned, cursorVars, seen, historyVars>>
                       ELSE owned' = {} /\ Forget
  /\ UNCHANGED <<late, providerVars>>

DeadlinePasses ==
  /\ Running /\ ~late
  /\ late' = TRUE
  /\ UNCHANGED <<pc, owned, cursorVars, seen, historyVars, providerVars>>

Observer ==
  \/ ReadScope \/ Expired \/ Start \/ SkipApp \/ EnterApp \/ ReadWindow \/ AskStates \/ ReadState
  \/ LeaveApp \/ Refused \/ Truncated \/ Judge

Next == Provider \/ (\E a \in Apps : Depart(a)) \/ Observer \/ DeadlinePasses

Spec == Init /\ [][Next]_vars

(* The observer's process is scheduled and its clock runs; nothing is       *)
(* assumed of the providers.                                               *)
FairSpec == Spec /\ WF_vars(Observer) /\ WF_vars(DeadlinePasses)

-----------------------------------------------------------------------------
(* Newest first, a scan misses no application that its scope lists and that *)
(* stays registered, whatever registers or leaves around it.                *)
NoAppMissed == pc = "apps" /\ appIndex = 0 => stayed \subseteq covered

(* "No absence from an incomplete read is accepted as success": the target  *)
(* is declared closed only when it was missing at some moment of the scan,  *)
(* or in one of two ways while it showed: an older sibling left the list,   *)
(* which moves the target to an index already read, and still answers, so   *)
(* that no call fails; or its application had left the launch's tree and    *)
(* group before the scope was listed, and is not looked at any more.        *)
AbsenceHasCause ==
  pc = "closed" => absent \/ shifted \/ OwnerOf[Target] \notin owned \union belongs

(* The observer always ends.                                                *)
ObserverEnds == <>(pc \in Ended)

=============================================================================
