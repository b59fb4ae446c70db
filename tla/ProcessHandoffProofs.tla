------------------------ MODULE ProcessHandoffProofs ------------------------
(***************************************************************************)
(* For any PIDs and stages: the process taken over is the one              *)
(* (PassedIsTheOne), and what is reported as missing was                   *)
(* (AbsenceIsReal).  The first needs both scans: a field that was wanted   *)
(* in the first and is again in the second was so in between.              *)
(*                                                                         *)
(* The answer of the scan comes back over the serial console.  The second  *)
(* half is about that: for any commands, an answer is the call's own       *)
(* unless the host lost sight of the shell before.                         *)
(***************************************************************************)
EXTENDS ProcessHandoff, SerialConsole, SequenceTheorems, WellFoundedInduction, TLAPS

(* The process of an identity is no longer there.                           *)
Gone(m) == proc[m[1]] = None \/ proc[m[1]].start # m[2]

(* It has, or had, a field; it will not have it any more.                   *)
Had(m, field) ==
  Gone(m) \/ \E i \in DOMAIN Stages : i <= proc[m[1]].stage /\ field \in Stages[i]
Lost(m, field) ==
  \/ Gone(m) \/ proc[m[1]].zombie
  \/ \A i \in DOMAIN Stages : i >= proc[m[1]].stage => field \notin Stages[i]

HadAll(m) == \A field \in Fields : Had(m, field)

(* What was read of the process that is being read was so at that time.     *)
Readings ==
  /\ pc \in {"exe", "environ", "again"} => Had(<<pid, start>>, "uid")
  /\ pc \in {"environ", "again"} => Had(<<pid, start>>, "exe")
  /\ pc = "again" => Had(<<pid, start>>, "token")
  /\ \A m \in matches : HadAll(m)
  /\ previous # None => HadAll(previous)

(* The match of the last scan that was not exact when this one began lost   *)
(* something for good, and comes only as far as the reading of that.        *)
Unfit == previous # None /\ previous \notin began
Condemned ==
  /\ pc \in {"next"} \union Reading =>
       (\E field \in Fields : Lost(previous, field)) /\ previous \notin matches
  /\ previous = <<pid, start>> =>
       /\ pc = "exe" => Lost(previous, "exe") \/ Lost(previous, "token")
       /\ pc = "environ" => Lost(previous, "token")
       /\ pc = "again" => Gone(previous)
Doomed == Unfit => Condemned

(* What stays exact is read, is being read, or has been found.              *)
Steadily ==
  /\ settled \subseteq steady /\ steady \subseteq began /\ steady \subseteq Exact
  /\ pc \in {"next"} \union Reading =>
       \A m \in steady :
         \/ m \in matches \/ m[1] \in left
         \/ pc \in Reading /\ pid = m[1] /\ (pc = "stat" \/ start = m[2])
  /\ pc = "list" => steady \subseteq {previous}
  /\ pc \in {"next"} \union Reading => settled \subseteq {previous}

Inv == TypeOK /\ Readings /\ Doomed /\ Steadily /\ PassedIsTheOne /\ AbsenceIsReal

-----------------------------------------------------------------------------

(* What is gone, was had or was lost stays so, whatever the processes do.   *)
Known == Pids \X (0..births)

LEMMA GuestKeeps ==
  ASSUME TypeOK, Guest, NEW m \in Known
  PROVE  /\ Gone(m) => Gone(m)'
         /\ \A field \in Fields : (Had(m, field) => Had(m, field)') /\ (Lost(m, field) => Lost(m, field)')
<1> DEFINE Process == [start : 1..births, stage : DOMAIN Stages, zombie : BOOLEAN]
<1>1. m[1] \in Pids /\ m[2] \in 0..births /\ births \in Nat
  BY HandoffAssumption DEF Known, TypeOK
<1>2. /\ proc \in [Pids -> Process \union {None}] /\ None \notin Process
      /\ DOMAIN Stages \subseteq Nat
  BY HandoffAssumption DEF TypeOK
<1>3. PICK p \in Pids : Appear(p) \/ Advance(p) \/ Exit(p)
  BY DEF Guest
<1>4. CASE Appear(p)
  <2>1. PICK stage \in DOMAIN Stages :
          proc' = [proc EXCEPT ![p] = [start |-> births + 1, stage |-> stage, zombie |-> FALSE]]
    BY <1>4 DEF Appear
  <2>2. proc[p] = None /\ births' = births + 1
    BY <1>4 DEF Appear
  <2>3. CASE p = m[1]
    <3>1. proc'[m[1]].start = births + 1
      BY <2>1, <2>3, <1>1, <1>2
    <3> QED  BY <3>1, <1>1 DEF Gone, Had, Lost
  <2>4. CASE p # m[1]
    <3>1. proc'[m[1]] = proc[m[1]]
      BY <2>1, <2>4, <1>1, <1>2
    <3> QED  BY <3>1 DEF Gone, Had, Lost
  <2> QED  BY <2>3, <2>4
<1>5. CASE Advance(p)
  <2>1. PICK stage \in DOMAIN Stages :
          stage > proc[p].stage /\ proc' = [proc EXCEPT ![p].stage = stage]
    BY <1>5 DEF Advance
  <2>2. proc[p] \in Process
    BY <1>5, <1>2 DEF Advance
  <2>3. CASE p = m[1]
    <3>1. /\ proc'[p].stage = stage /\ proc'[p].start = proc[p].start
          /\ proc'[p].zombie = proc[p].zombie /\ proc[p] # None
      BY <2>1, <2>2, <1>2
    <3>2. Gone(m) => Gone(m)'
      BY <3>1, <2>3 DEF Gone
    <3>3. stage \in Nat /\ proc[p].stage \in Nat /\ proc[p].stage < stage
      BY <2>1, <2>2, <1>2
    <3>4. \A field \in Fields : Had(m, field) => Had(m, field)'
      BY <3>1, <3>2, <3>3, <2>3, <1>2 DEF Had
    <3>5. \A field \in Fields : Lost(m, field) => Lost(m, field)'
      BY <3>1, <3>2, <3>3, <2>3, <1>2 DEF Lost
    <3> QED  BY <3>2, <3>4, <3>5
  <2>4. CASE p # m[1]
    <3>1. proc'[m[1]] = proc[m[1]]
      BY <2>1, <2>4, <1>1, <1>2
    <3> QED  BY <3>1 DEF Gone, Had, Lost
  <2> QED  BY <2>3, <2>4
<1>6. CASE Exit(p)
  <2>1. CASE p = m[1]
    <3>1. CASE proc' = [proc EXCEPT ![p] = None]
      <4>1. proc'[m[1]] = None
        BY <3>1, <2>1, <1>1, <1>2
      <4> QED  BY <4>1 DEF Gone, Had, Lost
    <3>2. CASE proc' = [proc EXCEPT ![p].zombie = TRUE] /\ ~proc[p].zombie
      <4>1. proc[p] \in Process
        BY <1>6, <1>2 DEF Exit
      <4>2. /\ proc'[p].stage = proc[p].stage /\ proc'[p].start = proc[p].start
            /\ proc'[p].zombie /\ proc[p] # None
        BY <4>1, <3>2, <1>2
      <4> QED  BY <4>2, <2>1 DEF Gone, Had, Lost
    <3> QED  BY <1>6, <3>1, <3>2 DEF Exit
  <2>2. CASE p # m[1]
    <3>1. proc'[m[1]] = proc[m[1]]
      BY <1>6, <2>2, <1>1, <1>2 DEF Exit
    <3> QED  BY <3>1 DEF Gone, Had, Lost
  <2> QED  BY <2>1, <2>2
<1> QED  BY <1>3, <1>4, <1>5, <1>6

(* How a scan judges: the only match, if there is one.                      *)
LEMMA OneMatch ==
  ASSUME TypeOK, ~Several
  PROVE  /\ matches = {} => Current = None
         /\ matches # {} => Current # None /\ matches = {Current}
         /\ Current \in matches \union {None}
<1>1. None \notin matches
  BY HandoffAssumption DEF TypeOK, Identities
<1>2. matches # {} => Current \in matches
  BY DEF Current
<1> QED  BY <1>1, <1>2 DEF Current, Several

LEMMA ExactType ==
  TypeOK => Exact \subseteq Identities
BY HandoffAssumption DEF TypeOK, Exact, Identity, Identities

LEMMA NextTypeOK ==
  TypeOK /\ [Next]_vars => TypeOK'
<1> SUFFICES ASSUME TypeOK, [Next]_vars PROVE TypeOK'
  OBVIOUS
<1> USE HandoffAssumption DEF TypeOK, Reading, Ended
<1>1. CASE Guest
  <2> DEFINE Process(n) == [start : 1..n, stage : DOMAIN Stages, zombie : BOOLEAN]
  <2>1. births' \in 0..MaxBirths /\ births' >= births
    BY <1>1 DEF Guest, Appear, Advance, Exit
  <2>2. proc' \in [Pids -> Process(births') \union {None}]
    <3>1. PICK p \in Pids : Appear(p) \/ Advance(p) \/ Exit(p)
      BY <1>1 DEF Guest
    <3>2. CASE Appear(p)
      <4>1. PICK stage \in DOMAIN Stages :
              proc' = [proc EXCEPT ![p] = [start |-> births + 1, stage |-> stage, zombie |-> FALSE]]
        BY <3>2 DEF Appear
      <4>2. births' = births + 1 /\ births \in Nat
        BY <3>2 DEF Appear
      <4>3. [start |-> births + 1, stage |-> stage, zombie |-> FALSE] \in Process(births')
        BY <4>2
      <4>4. Process(births) \subseteq Process(births')
        BY <4>2
      <4> QED  BY <4>1, <4>3, <4>4
    <3>3. CASE Advance(p)
      <4>1. proc[p] \in Process(births) /\ births' = births
        BY <3>3 DEF Advance
      <4>2. PICK stage \in DOMAIN Stages : proc' = [proc EXCEPT ![p].stage = stage]
        BY <3>3 DEF Advance
      <4>3. [proc[p] EXCEPT !.stage = stage] \in Process(births)
        BY <4>1
      <4> QED  BY <4>1, <4>2, <4>3
    <3>4. CASE Exit(p)
      <4>1. proc[p] \in Process(births) /\ births' = births
        BY <3>4 DEF Exit
      <4>2. [proc[p] EXCEPT !.zombie = TRUE] \in Process(births)
        BY <4>1
      <4> QED  BY <3>4, <4>1, <4>2 DEF Exit
    <3> QED  BY <3>1, <3>2, <3>3, <3>4
  <2>3. Identities \subseteq Identities'
    BY <2>1 DEF Identities
  <2>4. /\ steady' \subseteq steady /\ settled' \subseteq settled
        /\ UNCHANGED <<scriptVars, began>>
    BY <1>1 DEF Guest
  <2>5. start' \in 0..births'
    BY <2>1, <2>4 DEF scriptVars
  <2> QED  BY <2>1, <2>2, <2>3, <2>4, <2>5 DEF scriptVars
<1>2. CASE List
  <2>1. Exact \subseteq Identities
    BY ExactType
  <2>2. left' \subseteq Pids /\ began' \subseteq Identities
    BY <1>2, <2>1 DEF List
  <2>3. settled' = steady
    BY <1>2 DEF List
  <2>4. UNCHANGED <<births, proc, late, pid, start, previous, result>>
    BY <1>2 DEF List, procVars
  <2>5. pc = "list" /\ pc' = "next" /\ steady' = began' /\ matches' = {}
    BY <1>2 DEF List
  <2> QED  BY <2>2, <2>3, <2>4, <2>5 DEF Identities
<1>3. CASE Pick
  BY <1>3 DEF Pick, Scanning, procVars, history, Identities
<1>4. CASE ReadStart
  <2>1. start' \in 0..births
    BY <1>4 DEF ReadStart, Read
  <2> QED  BY <1>4, <2>1 DEF ReadStart, Read, Scanning, procVars, history, Identities
<1>5. CASE ReadStatus \/ ReadExe \/ ReadEnvironment
  BY <1>5 DEF ReadStatus, ReadExe, ReadEnvironment, Read, Scanning, procVars, history, Identities
<1>6. CASE ReadStartAgain
  <2>1. matches' \subseteq Identities
    BY <1>6 DEF ReadStartAgain, Identities
  <2> QED  BY <1>6, <2>1 DEF ReadStartAgain, Scanning, procVars, history, Identities
<1>7. CASE Conclude
  <2>1. Verdict \in {"ambiguous", "passed", "not-found", "list"}
    BY DEF Verdict
  <2>2. Verdict # "ambiguous" => Current \in matches \union {None}
    BY OneMatch DEF Verdict
  <2>3. Verdict = "passed" => Current # None
    BY DEF Verdict
  <2> QED  BY <1>7, <2>1, <2>2, <2>3 DEF Conclude, procVars, history, Identities
<1>8. CASE DeadlinePasses
  BY <1>8 DEF DeadlinePasses, procVars, history, Identities
<1>9. CASE UNCHANGED vars
  BY <1>9 DEF vars, procVars, scriptVars, history, Identities
<1> QED
  BY <1>1, <1>2, <1>3, <1>4, <1>5, <1>6, <1>7, <1>8, <1>9 DEF Next, Script

-----------------------------------------------------------------------------

LEMMA AreKnown ==
  ASSUME TypeOK
  PROVE  /\ Identities \subseteq Known
         /\ previous # None => previous \in Known
         /\ pc \in Reading => <<pid, start>> \in Known
BY HandoffAssumption DEF TypeOK, Known, Identities

(* A reading that succeeds says that the process has the field.             *)
LEMMA LiveHad ==
  ASSUME TypeOK, pc \in Reading, NEW field \in Fields, Live(field), proc[pid].start = start
  PROVE  Had(<<pid, start>>, field)
<1>1. proc[pid].stage \in DOMAIN Stages /\ proc[pid].stage \in Nat
  BY HandoffAssumption DEF TypeOK, Live
<1> QED  BY <1>1 DEF Live, Had

LEMMA NextReadings ==
  TypeOK /\ Readings /\ [Next]_vars => Readings'
<1> SUFFICES ASSUME TypeOK, Readings, [Next]_vars PROVE Readings'
  OBVIOUS
<1>1. CASE Guest
  <2>1. \A m \in Known : HadAll(m) => HadAll(m)'
    BY <1>1, GuestKeeps DEF HadAll
  <2>2. UNCHANGED <<pc, pid, start, matches, previous>>
    BY <1>1 DEF Guest, scriptVars
  <2>3. matches \subseteq Known /\ (previous # None => previous \in Known)
    BY AreKnown DEF TypeOK
  <2>4. pc \in {"exe", "environ", "again"} =>
          \A field \in Fields : Had(<<pid, start>>, field) => Had(<<pid, start>>, field)'
    <3> SUFFICES ASSUME pc \in {"exe", "environ", "again"}, NEW field \in Fields
                 PROVE  Had(<<pid, start>>, field) => Had(<<pid, start>>, field)'
      OBVIOUS
    <3>1. <<pid, start>> \in Known
      BY AreKnown DEF Reading
    <3>2. \A m \in Known : Had(m, field) => Had(m, field)'
      BY <1>1, GuestKeeps
    <3> QED  BY <2>2, <3>1, <3>2 DEF Had, Gone
  <2>5. (\A m \in matches : HadAll(m))' /\ (previous # None => HadAll(previous))'
    BY <2>1, <2>2, <2>3 DEF Readings, HadAll, Had, Gone
  <2>6. /\ (pc \in {"exe", "environ", "again"} => Had(<<pid, start>>, "uid"))'
        /\ (pc \in {"environ", "again"} => Had(<<pid, start>>, "exe"))'
        /\ (pc = "again" => Had(<<pid, start>>, "token"))'
    BY <2>2, <2>4 DEF Readings, Fields, Had, Gone
  <2> QED  BY <2>5, <2>6 DEF Readings
<1>2. CASE List
  BY <1>2 DEF List, procVars, Readings, HadAll, Had, Gone
<1>3. CASE Pick
  BY <1>3 DEF Pick, Scanning, procVars, Readings, HadAll, Had, Gone
<1>4. CASE ReadStart
  BY <1>4 DEF ReadStart, Read, Scanning, procVars, Readings, HadAll, Had, Gone
<1>5. CASE ReadStatus
  <2>1. pc' = "exe" => Had(<<pid, start>>, "uid")
    BY <1>5, LiveHad DEF ReadStatus, Read, Reading, Fields, Had, Gone
  <2> QED  BY <1>5, <2>1 DEF ReadStatus, Read, Scanning, procVars, Readings, HadAll, Had, Gone
<1>6. CASE ReadExe
  <2>1. pc' = "environ" => Had(<<pid, start>>, "exe")
    BY <1>6, LiveHad DEF ReadExe, Read, Reading, Fields, Had, Gone
  <2> QED  BY <1>6, <2>1 DEF ReadExe, Read, Scanning, procVars, Readings, HadAll, Had, Gone
<1>7. CASE ReadEnvironment
  <2>1. pc' = "again" => Had(<<pid, start>>, "token")
    BY <1>7, LiveHad DEF ReadEnvironment, Read, Reading, Fields, Had, Gone
  <2> QED
    BY <1>7, <2>1 DEF ReadEnvironment, Read, Scanning, procVars, Readings, HadAll, Had, Gone
<1>8. CASE ReadStartAgain
  <2>1. HadAll(<<pid, start>>)
    BY <1>8 DEF ReadStartAgain, Readings, HadAll, Fields
  <2>2. \A m \in matches' : HadAll(m)
    BY <1>8, <2>1 DEF ReadStartAgain, Readings
  <2> QED  BY <1>8, <2>2 DEF ReadStartAgain, Scanning, procVars, Readings, HadAll, Had, Gone
<1>9. CASE Conclude
  <2>1. pc' \in Ended \union {"list"}
    BY <1>9 DEF Conclude, Verdict, Ended
  <2>2. previous' # None => HadAll(previous')
    <3>1. Verdict \in {"passed", "ambiguous"} => previous' = previous
      BY <1>9 DEF Conclude
    <3>2. Verdict \notin {"passed", "ambiguous"} => previous' \in matches \union {None}
      BY <1>9, OneMatch DEF Conclude, Verdict
    <3> QED  BY <3>1, <3>2 DEF Readings
  <2> QED
    BY <1>9, <2>1, <2>2 DEF Conclude, procVars, Ended, Readings, HadAll, Had, Gone
<1>10. CASE DeadlinePasses
  BY <1>10 DEF DeadlinePasses, procVars, Readings, HadAll, Had, Gone
<1>11. CASE UNCHANGED vars
  BY <1>11 DEF vars, procVars, scriptVars, Readings, HadAll, Had, Gone
<1> QED
  BY <1>1, <1>2, <1>3, <1>4, <1>5, <1>6, <1>7, <1>8, <1>9, <1>10, <1>11 DEF Next, Script

(* What was had and is not there at a moment never comes back.              *)
LEMMA UnfitIsLost ==
  ASSUME TypeOK, NEW m \in Identities, HadAll(m), m \notin Exact
  PROVE  \E field \in Fields : Lost(m, field)
<1>1. CASE Gone(m)
  BY <1>1 DEF Lost, Fields
<1>2. CASE ~Gone(m)
  <2>1. /\ m[1] \in Pids /\ m = <<m[1], proc[m[1]].start>> /\ proc[m[1]] # None
        /\ proc[m[1]].stage \in DOMAIN Stages
    BY <1>2, HandoffAssumption DEF TypeOK, Gone, Identities
  <2>2. ~IsExact(proc[m[1]])
    BY <2>1 DEF Exact, Identity
  <2>3. CASE proc[m[1]].zombie
    BY <2>3 DEF Lost, Fields
  <2>4. CASE Stages[proc[m[1]].stage] # Fields
    <3>1. Stages[proc[m[1]].stage] \subseteq Fields
      BY <2>1, HandoffAssumption
    <3>2. PICK field \in Fields : field \notin Stages[proc[m[1]].stage]
      BY <2>4, <3>1
    <3>3. PICK i \in DOMAIN Stages : i <= proc[m[1]].stage /\ field \in Stages[i]
      BY <1>2 DEF HadAll, Had
    <3>4. \A k \in DOMAIN Stages : k >= proc[m[1]].stage => field \notin Stages[k]
      <4> SUFFICES ASSUME NEW k \in DOMAIN Stages, k >= proc[m[1]].stage, field \in Stages[k]
                   PROVE  FALSE
        OBVIOUS
      <4>1. proc[m[1]].stage <= k
        BY <2>1, HandoffAssumption
      <4>2. Stages[i] \intersect Stages[k] \subseteq Stages[proc[m[1]].stage]
        BY <2>1, <3>3, <4>1, HandoffAssumption
      <4> QED  BY <3>2, <3>3, <4>2
    <3> QED  BY <3>4 DEF Lost
  <2> QED  BY <2>2, <2>3, <2>4 DEF IsExact
<1> QED  BY <1>1, <1>2

(* A reading that succeeds of what lost the field is of another process.    *)
LEMMA LiveLost ==
  ASSUME TypeOK, pc \in Reading, NEW field \in Fields, Live(field), Lost(<<pid, start>>, field)
  PROVE  Gone(<<pid, start>>)
<1>1. proc[pid].stage \in DOMAIN Stages /\ proc[pid].stage \in Nat
  BY HandoffAssumption DEF TypeOK, Live
<1> QED  BY <1>1 DEF Live, Lost

LEMMA NextDoomed ==
  TypeOK /\ Readings /\ Doomed /\ [Next]_vars => Doomed'
<1> SUFFICES ASSUME TypeOK, Readings, Doomed, [Next]_vars, Unfit' PROVE Condemned'
  BY DEF Doomed
<1> USE DEF Reading
<1>1. CASE Guest
  <2>1. UNCHANGED <<pc, pid, start, matches, previous, began>>
    BY <1>1 DEF Guest, scriptVars
  <2>2. Unfit /\ previous \in Known
    BY <2>1, AreKnown DEF Unfit
  <2>3. \A m \in Known :
          /\ Gone(m) => Gone(m)'
          /\ \A field \in Fields : Lost(m, field) => Lost(m, field)'
    BY <1>1, GuestKeeps
  <2>4. Gone(previous) => Gone(previous)'
    BY <2>1, <2>2, <2>3 DEF Gone
  <2>5. \A field \in Fields : Lost(previous, field) => Lost(previous, field)'
    BY <2>1, <2>2, <2>3 DEF Lost, Gone
  <2>6. Condemned
    BY <2>2 DEF Doomed
  <2>7. (pc \in {"next"} \union Reading =>
           (\E field \in Fields : Lost(previous, field)) /\ previous \notin matches)'
    BY <2>1, <2>5, <2>6 DEF Condemned
  <2>8. (Lost(previous, "exe") => Lost(previous, "exe")') /\ (Lost(previous, "token") => Lost(previous, "token")')
    BY <2>5 DEF Fields
  <2>9. (previous = <<pid, start>> =>
           /\ pc = "exe" => Lost(previous, "exe") \/ Lost(previous, "token")
           /\ pc = "environ" => Lost(previous, "token")
           /\ pc = "again" => Gone(previous))'
    BY <2>1, <2>4, <2>6, <2>8 DEF Condemned
  <2> QED  BY <2>7, <2>9 DEF Condemned
<1>2. CASE List
  <2>1. /\ pc' = "next" /\ matches' = {} /\ began' = Exact
        /\ UNCHANGED <<previous, proc>>
    BY <1>2 DEF List, procVars
  <2>2. previous \in Identities /\ previous \notin Exact /\ HadAll(previous)
    BY <2>1 DEF Unfit, Readings, TypeOK
  <2>3. PICK field \in Fields : Lost(previous, field)
    BY <2>2, UnfitIsLost
  <2>4. Lost(previous, field)'
    BY <2>1, <2>3 DEF Lost, Gone
  <2> QED  BY <2>1, <2>4 DEF Condemned
<1>3. CASE Conclude
  BY <1>3 DEF Conclude, Verdict, Condemned
<1>4. CASE pc \in {"next"} \union Reading /\ UNCHANGED <<proc, previous, began>>
  <2> DEFINE Loses(field) == Lost(previous, field)
  <2>1. /\ Unfit /\ Condemned
        /\ Gone(previous)' <=> Gone(previous)
        /\ \A field \in Fields : Loses(field)' <=> Loses(field)
    BY <1>4 DEF Unfit, Doomed, Lost, Gone
  <2>2. \E field \in Fields : Loses(field)
    BY <1>4, <2>1 DEF Condemned
  <2>3. (\E field \in Fields : Lost(previous, field))'
    BY <2>1, <2>2
  <2>4. previous \notin matches
    BY <1>4, <2>1 DEF Condemned
  <2>5. (Loses("exe")' <=> Loses("exe")) /\ (Loses("token")' <=> Loses("token"))
    BY <2>1 DEF Fields
  <2>6. Gone(previous) => Loses("exe") /\ Loses("token")
    BY DEF Lost
  <2> HIDE DEF Loses
  <2>7. CASE Pick \/ ReadStart
    BY <2>3, <2>4, <2>7, <1>4 DEF Pick, ReadStart, Read, Condemned
  <2>8. CASE ReadStatus
    <3>1. CASE pc' = "exe"
      <4>1. Live("uid") /\ UNCHANGED <<pid, start, matches>>
        BY <2>8, <3>1 DEF ReadStatus, Read
      <4>2. previous = <<pid, start>> /\ Lost(previous, "uid") => Gone(previous)
        BY <4>1, <1>4, <2>8, LiveLost DEF Fields, ReadStatus, Read
      <4>3. previous = <<pid, start>> => Loses("exe") \/ Loses("token")
        BY <2>2, <2>6, <4>2 DEF Fields, Loses
      <4>4. (previous = <<pid, start>>)' => Loses("exe")' \/ Loses("token")'
        BY <1>4, <2>5, <4>1, <4>3
      <4> QED  BY <1>4, <2>3, <2>4, <3>1, <4>1, <4>4 DEF Condemned, Loses
    <3>2. CASE pc' = "next" /\ UNCHANGED matches
      BY <1>4, <2>3, <2>4, <3>2 DEF Condemned
    <3> QED  BY <2>8, <3>1, <3>2 DEF ReadStatus, Read
  <2>9. CASE ReadExe
    <3>1. CASE pc' = "environ"
      <4>1. pc = "exe" /\ Live("exe") /\ UNCHANGED <<pid, start, matches>>
        BY <2>9, <3>1 DEF ReadExe, Read
      <4>2. previous = <<pid, start>> /\ Lost(previous, "exe") => Gone(previous)
        BY <4>1, LiveLost DEF Fields
      <4>3. previous = <<pid, start>> => Loses("token")
        BY <2>1, <2>6, <4>1, <4>2 DEF Condemned, Loses
      <4>4. (previous = <<pid, start>>)' => Loses("token")'
        BY <1>4, <2>5, <4>1, <4>3
      <4> QED  BY <1>4, <2>3, <2>4, <3>1, <4>1, <4>4 DEF Condemned, Loses
    <3>2. CASE pc' = "next" /\ UNCHANGED matches
      BY <1>4, <2>3, <2>4, <3>2 DEF Condemned
    <3> QED  BY <2>9, <3>1, <3>2 DEF ReadExe, Read
  <2>10. CASE ReadEnvironment
    <3>1. CASE pc' = "again"
      <4>1. pc = "environ" /\ Live("token") /\ UNCHANGED <<pid, start, matches>>
        BY <2>10, <3>1 DEF ReadEnvironment, Read
      <4>2. previous = <<pid, start>> => Gone(previous)
        BY <2>1, <4>1, LiveLost DEF Condemned, Fields
      <4>3. (previous = <<pid, start>>)' => Gone(previous)'
        BY <1>4, <2>1, <4>1, <4>2
      <4> QED  BY <1>4, <2>3, <2>4, <3>1, <4>1, <4>3 DEF Condemned
    <3>2. CASE pc' = "next" /\ UNCHANGED matches
      BY <1>4, <2>3, <2>4, <3>2 DEF Condemned
    <3> QED  BY <2>10, <3>1, <3>2 DEF ReadEnvironment, Read
  <2>11. CASE ReadStartAgain
    <3>1. <<pid, start>> \in matches' => ~Gone(<<pid, start>>) \/ <<pid, start>> \in matches
      BY <2>11 DEF ReadStartAgain, Gone
    <3>2. previous = <<pid, start>> => Gone(previous)
      BY <2>1, <2>11 DEF ReadStartAgain, Condemned
    <3>3. previous \notin matches'
      BY <2>4, <2>11, <3>1, <3>2 DEF ReadStartAgain
    <3> QED  BY <1>4, <2>3, <2>11, <3>3 DEF ReadStartAgain, Condemned
  <2>12. CASE DeadlinePasses \/ UNCHANGED vars
    <3>1. UNCHANGED <<pc, pid, start, matches>>
      BY <2>12 DEF DeadlinePasses, vars, scriptVars
    <3> QED  BY <1>4, <2>1, <2>3, <2>4, <2>5, <3>1 DEF Condemned, Loses
  <2> QED
    BY <1>1, <1>2, <1>3, <2>7, <2>8, <2>9, <2>10, <2>11, <2>12 DEF Next, Script
<1>5. CASE pc \notin {"next"} \union Reading /\ (DeadlinePasses \/ UNCHANGED vars)
  BY <1>5 DEF DeadlinePasses, vars, scriptVars, Condemned
<1>6. Pick \/ ReadStart \/ ReadStatus \/ ReadExe \/ ReadEnvironment \/ ReadStartAgain
      => pc \in {"next"} \union Reading /\ UNCHANGED <<proc, previous, began>>
  BY DEF Pick, ReadStart, ReadStatus, ReadExe, ReadEnvironment, Read, ReadStartAgain,
         Scanning, procVars, history
<1>7. DeadlinePasses \/ UNCHANGED vars => UNCHANGED <<proc, previous, began>>
  BY DEF DeadlinePasses, vars, scriptVars, procVars, history
<1> QED
  BY <1>1, <1>2, <1>3, <1>4, <1>5, <1>6, <1>7 DEF Next, Script

-----------------------------------------------------------------------------

(* A reading of what is exact succeeds.                                     *)
LEMMA ExactIsLive ==
  ASSUME TypeOK, NEW m \in Exact
  PROVE  /\ m[1] \in Pids /\ m = <<m[1], m[2]>> /\ proc[m[1]] # None /\ proc[m[1]].start = m[2]
         /\ m[1] = pid => \A field \in Fields : Live(field)
BY HandoffAssumption DEF TypeOK, Exact, Identity, IsExact, Live

LEMMA NextSteadily ==
  TypeOK /\ Steadily /\ [Next]_vars => Steadily'
<1> SUFFICES ASSUME TypeOK, Steadily, [Next]_vars PROVE Steadily'
  OBVIOUS
<1> DEFINE Followed(m) ==
      \/ m \in matches \/ m[1] \in left
      \/ pc \in Reading /\ pid = m[1] /\ (pc = "stat" \/ start = m[2])
<1> DEFINE Scan ==
      Pick \/ ReadStart \/ ReadStatus \/ ReadExe \/ ReadEnvironment \/ ReadStartAgain
<1> USE DEF Reading
<1>1. CASE Guest
  BY <1>1 DEF Guest, scriptVars, Steadily
<1>2. CASE List
  <2>1. Exact' = Exact
    BY <1>2 DEF List, procVars, Exact, Identity
  <2>2. /\ steady \subseteq Exact /\ steady \subseteq {previous}
        /\ pc' = "next" /\ previous' = previous
        /\ left' = {p \in Pids : proc[p] # None}
        /\ began' = Exact /\ steady' = Exact /\ settled' = steady
    BY <1>2 DEF List, Steadily
  <2>3. \A m \in Exact : m[1] \in left'
    BY <2>2, ExactIsLive
  <2> QED  BY <2>1, <2>2, <2>3 DEF Steadily
<1>3. CASE Conclude
  <2>1. Exact' = Exact /\ UNCHANGED <<began, steady, settled, matches>>
    BY <1>3 DEF Conclude, procVars, history, Exact, Identity
  <2>2. steady \subseteq matches
    BY <1>3 DEF Conclude, Steadily
  <2>3. pc' = "list" => ~Several /\ previous' = Current
    BY <1>3 DEF Conclude, Verdict
  <2>4. pc' = "list" => steady \subseteq {previous'}
    BY <2>2, <2>3, OneMatch
  <2>5. pc' \in Ended \union {"list"}
    BY <1>3 DEF Conclude, Verdict, Ended
  <2> QED  BY <2>1, <2>4, <2>5 DEF Steadily, Ended
<1>4. CASE /\ pc \in {"next"} \union Reading /\ pc' \in {"next"} \union Reading
           /\ UNCHANGED <<proc, previous, history>>
           /\ Scan \/ DeadlinePasses \/ UNCHANGED vars
  <2>1. Exact' = Exact /\ UNCHANGED <<began, steady, settled, previous>>
    BY <1>4 DEF history, Exact, Identity
  <2>2. \A m \in steady : Followed(m)
    BY <1>4 DEF Steadily
  <2>3. SUFFICES \A m \in steady : Followed(m)'
    BY <1>4, <2>1 DEF Steadily
  <2> SUFFICES ASSUME NEW m \in steady PROVE Followed(m)'
    OBVIOUS
  <2>4. m \in Exact /\ Followed(m)
    BY <2>2 DEF Steadily
  <2>5. /\ m = <<m[1], m[2]>> /\ proc[m[1]] # None /\ proc[m[1]].start = m[2]
        /\ m[1] = pid => Live("uid") /\ Live("exe") /\ Live("token")
    BY <2>4, ExactIsLive DEF Fields
  <2>6. CASE Pick
    BY <2>4, <2>6 DEF Pick
  <2>7. CASE ReadStart
    BY <2>4, <2>5, <2>7 DEF ReadStart, Read
  <2>8. CASE ReadStatus
    BY <2>4, <2>5, <2>8 DEF ReadStatus, Read
  <2>9. CASE ReadExe
    BY <2>4, <2>5, <2>9 DEF ReadExe, Read
  <2>10. CASE ReadEnvironment
    BY <2>4, <2>5, <2>10 DEF ReadEnvironment, Read
  <2>11. CASE ReadStartAgain
    BY <2>4, <2>5, <2>11 DEF ReadStartAgain
  <2>12. CASE DeadlinePasses \/ UNCHANGED vars
    <3>1. UNCHANGED <<pc, left, pid, start, matches>>
      BY <2>12 DEF DeadlinePasses, vars, scriptVars
    <3> QED  BY <2>4, <3>1
  <2> QED
    BY <1>4, <2>6, <2>7, <2>8, <2>9, <2>10, <2>11, <2>12
<1>5. CASE pc \notin {"next"} \union Reading /\ (DeadlinePasses \/ UNCHANGED vars)
  <2>1. UNCHANGED <<pc, proc, previous, began, steady, settled>>
    BY <1>5 DEF DeadlinePasses, vars, procVars, scriptVars, history
  <2>2. Exact' = Exact
    BY <2>1 DEF Exact, Identity
  <2> QED  BY <1>5, <2>1, <2>2 DEF Steadily
<1>6. Scan
      => /\ pc \in {"next"} \union Reading /\ pc' \in {"next"} \union Reading
         /\ UNCHANGED <<proc, previous, history>>
  BY DEF Pick, ReadStart, ReadStatus, ReadExe, ReadEnvironment, Read, ReadStartAgain,
         Scanning, procVars
<1>7. DeadlinePasses \/ UNCHANGED vars => UNCHANGED <<pc, proc, previous, history>>
  BY DEF DeadlinePasses, vars, scriptVars, procVars
<1> QED
  BY <1>1, <1>2, <1>3, <1>4, <1>5, <1>6, <1>7 DEF Next, Script

(* A verdict is drawn from what one scan found, once every process is read. *)
LEMMA NextVerdicts ==
  Inv /\ [Next]_vars => PassedIsTheOne' /\ AbsenceIsReal'
<1> SUFFICES ASSUME Inv, [Next]_vars PROVE PassedIsTheOne' /\ AbsenceIsReal'
  OBVIOUS
<1>1. CASE Conclude
  <2>1. steady \subseteq matches /\ settled \subseteq steady /\ settled \subseteq {previous}
    BY <1>1 DEF Conclude, Inv, Steadily, Reading
  <2>2. UNCHANGED <<matches, began, steady, settled>>
    BY <1>1 DEF Conclude, history
  <2>3. ASSUME pc' = "passed" PROVE PassedIsTheOne'
    <3>1. ~Several /\ Current # None /\ Current = previous /\ result' = Current
      BY <1>1, <2>3 DEF Conclude, Verdict
    <3>2. matches = {previous}
      BY <3>1, OneMatch DEF Inv
    <3>3. previous \in began
      BY <1>1, <3>1, <3>2 DEF Conclude, Inv, Doomed, Unfit, Condemned
    <3> QED  BY <2>1, <2>2, <3>1, <3>2, <3>3 DEF PassedIsTheOne
  <2>4. ASSUME pc' = "not-found" PROVE AbsenceIsReal'
    <3>1. ~Several /\ (Current = None \/ Current # previous)
      BY <1>1, <2>4 DEF Conclude, Verdict
    <3>2. matches = {} \/ (matches = {Current} /\ Current # previous)
      BY <3>1, OneMatch DEF Inv
    <3> QED  BY <2>1, <2>2, <3>2 DEF AbsenceIsReal
  <2> QED  BY <2>3, <2>4 DEF PassedIsTheOne, AbsenceIsReal
<1>2. CASE pc' \notin Ended
  BY <1>2 DEF Ended, PassedIsTheOne, AbsenceIsReal
<1>3. CASE UNCHANGED vars
  BY <1>3 DEF Inv, vars, scriptVars, history, PassedIsTheOne, AbsenceIsReal
<1>4. [Next]_vars => Conclude \/ pc' \notin Ended \/ UNCHANGED vars
  BY DEF Next, Script, Guest, List, Pick, ReadStart, ReadStatus, ReadExe, ReadEnvironment,
         ReadStartAgain, Read, DeadlinePasses, scriptVars, Ended
<1> QED  BY <1>1, <1>2, <1>3, <1>4

(* What a scan has read, whom it must have dismissed and what the last two  *)
(* scans would have seen: the inductive invariant.                          *)
THEOREM Invariance == Spec => []Inv
<1>1. Init => Inv
  <2>1. ASSUME Init PROVE TypeOK
    <3>1. births \in 0..MaxBirths
      BY <2>1, HandoffAssumption DEF Init
    <3>2. proc \in [Pids -> [start : 1..births, stage : DOMAIN Stages, zombie : BOOLEAN] \union {None}]
      BY <2>1 DEF Init
    <3>3. start \in 0..births
      BY <2>1, <3>1 DEF Init
    <3>4. /\ left \subseteq Pids /\ matches \subseteq Identities
          /\ began \union steady \union settled \subseteq Identities
      BY <2>1 DEF Init
    <3>5. /\ pc = "list" /\ late \in BOOLEAN
          /\ pid = None /\ previous = None /\ result = None
      BY <2>1 DEF Init
    <3> QED  BY <3>1, <3>2, <3>3, <3>4, <3>5 DEF TypeOK, Reading, Ended
  <2> QED
    BY <2>1 DEF Init, Inv, Readings, Doomed, Unfit, Steadily, Reading, PassedIsTheOne,
                AbsenceIsReal
<1>2. Inv /\ [Next]_vars => Inv'
  BY NextTypeOK, NextReadings, NextDoomed, NextSteadily, NextVerdicts DEF Inv
<1> QED  BY <1>1, <1>2, PTL DEF Spec

(* The types, for any set of PIDs, any stages and any number of births.     *)
THEOREM TypeCorrect == Spec => []TypeOK
BY Invariance, PTL DEF Inv

(* The process that is taken over had the user, the executable and the      *)
(* token all at once, and no other had them through the scan.               *)
THEOREM PassedOne == Spec => []PassedIsTheOne
BY Invariance, PTL DEF Inv

(* What had them through the last two scans is not reported as missing.     *)
THEOREM AbsenceReal == Spec => []AbsenceIsReal
BY Invariance, PTL DEF Inv

-----------------------------------------------------------------------------

(***************************************************************************)
(* The console the host asks over, with a state of its own: what is proved *)
(* is proved for any kinds of calls and any number of them.                *)
(***************************************************************************)

(* The marker the host waits for, and the item that shows it.               *)
Asked == Line(op, hostPc = "recovering")
Printout(line) == [line |-> line, echo |-> FALSE]

(* No line on the console is of a later call than the last one; the shell   *)
(* is asked whether it is back only after the command was given up on.      *)
Typable(line) ==
  /\ op # Nothing /\ line.op.id <= op.id
  /\ hostPc = "waiting" /\ line.back => line.op.id < op.id
NothingNewer ==
  /\ \A i \in DOMAIN serial : Typable(serial[i].line)
  /\ running # Nothing => Typable(running)
  /\ \A j \in DOMAIN typed : typed[j] # Interrupt => Typable(typed[j])

(* What the host waits for is the last thing on the console, and only once: *)
(* still typed, in the shell, or printed.                                   *)
AskedOnce ==
  hostPc # "idle" =>
    \/ /\ typed # <<>> /\ typed[Len(typed)] = Asked /\ running # Asked
       /\ \A j \in 1..(Len(typed) - 1) : typed[j] # Asked
       /\ \A i \in DOMAIN serial : serial[i] # Printout(Asked)
    \/ /\ typed = <<>> /\ running = Asked
       /\ \A i \in DOMAIN serial : serial[i] # Printout(Asked)
    \/ /\ typed = <<>> /\ running = Nothing /\ serial # <<>>
       /\ serial[Len(serial)] = Printout(Asked)
       /\ \A i \in 1..(Len(serial) - 1) : serial[i] # Printout(Asked)

(* With nothing missed, what is on the console belongs to this call.        *)
OnlyOwn ==
  hostPc # "idle" /\ ~behind =>
    /\ running # Nothing => running.op = op
    /\ \A j \in DOMAIN typed : typed[j] # Interrupt => typed[j].op = op
    /\ \A i \in DOMAIN serial : ~serial[i].echo => serial[i].line.op = op

HostState ==
  /\ hostPc # "idle" => op # Nothing /\ answer = 0
  /\ op = Nothing => hostPc = "idle" /\ ~behind

(* The parts of TypeOK.                                                      *)
HostTypes ==
  /\ hostPc \in {"idle", "waiting", "recovering"} /\ op \in Ops \union {Nothing}
  /\ answer \in 0..MaxOps /\ behind \in BOOLEAN
GuestTypes ==
  /\ typed \in Seq(Lines \union {Interrupt})
  /\ running \in Lines \union {Nothing} /\ serial \in Seq(Printed)
Ordered ==
  /\ \A i, j \in DOMAIN serial : i < j => NotAfter(serial[i].line, serial[j].line)
  /\ running # Nothing => \A i \in DOMAIN serial : NotAfter(serial[i].line, running)
  /\ \A j \in DOMAIN typed : typed[j] # Interrupt =>
       /\ \A i \in DOMAIN serial : NotAfter(serial[i].line, typed[j])
       /\ running # Nothing => NotAfter(running, typed[j])
       /\ \A i \in 1..(j-1) : typed[i] # Interrupt => NotAfter(typed[i], typed[j])

ConsoleInv ==
  /\ HostTypes /\ GuestTypes /\ Ordered /\ NothingNewer /\ AskedOnce /\ OnlyOwn /\ HostState
  /\ OwnUnlessBehind /\ ShellIsFree

(* A set of numbers has a least one.                                        *)
LEMMA LeastExists ==
  ASSUME NEW S, S \subseteq Nat, S # {}
  PROVE  \E i \in S : \A j \in S : i <= j
<1>1. IsWellFoundedOn(OpToRel(<, Nat), Nat)
  BY NatLessThanWellFounded
<1>2. IsWellFoundedOn({ss \in Nat \X Nat : ss[1] < ss[2]}, Nat)
  BY <1>1 DEF OpToRel
<1>3. PICK i \in S : \A j \in S : ~(<<j, i>> \in {ss \in Nat \X Nat : ss[1] < ss[2]})
  BY <1>2, WFMin
<1>4. ASSUME NEW j \in S PROVE i <= j
  <2>1. i \in Nat /\ j \in Nat
    OBVIOUS
  <2>2. ~(j < i)
    <3>1. SUFFICES ASSUME j < i PROVE FALSE
      OBVIOUS
    <3>2. <<j, i>> \in {ss \in Nat \X Nat : ss[1] < ss[2]}
      BY <2>1, <3>1
    <3>3. QED
      BY <3>2, <1>3
  <2>3. QED
    BY <2>1, <2>2
<1>5. QED
  BY <1>4

(* The host stops at a marker that fits.                                    *)
LEMMA FirstFits ==
  ASSUME serial \in Seq(Printed), NEW line, Seen(line) # {}
  PROVE  /\ First(line) \in 1..Len(serial)
         /\ Marks(serial[First(line)], line)
<1>1. DOMAIN serial = 1..Len(serial)
  BY LenProperties
<1>2. Seen(line) \subseteq Nat
  BY <1>1 DEF Seen
<1>3. First(line) \in Seen(line)
  BY <1>2, LeastExists DEF First
<1>4. QED
  BY <1>1, <1>3 DEF Seen

(* A line is none of the markers.                                           *)
LEMMA LineType ==
  ASSUME NEW o \in Ops, NEW b \in BOOLEAN
  PROVE  /\ Line(o, b) \in Lines
         /\ Line(o, b).op = o /\ Line(o, b).back = b
         /\ Line(o, b) # Interrupt /\ Line(o, b) # Nothing /\ o # Nothing
         /\ o.id \in 1..MaxOps /\ MaxOps \in Nat
<1> DEFINE line == [op |-> o, back |-> b]
<1>1. line \in Lines
  BY DEF Lines
<1>2. MaxOps \in Nat /\ 1..MaxOps \subseteq Nat
  BY ConsoleAssumption
<1>3. o \in [id : Nat, kind : Kinds] /\ o.id \in 1..MaxOps
  BY <1>2 DEF Ops
<1>4. line \in [op : [id : Nat, kind : Kinds], back : BOOLEAN]
  BY <1>3
<1>5. line # Interrupt /\ line # Nothing /\ o # Nothing
  BY <1>3, <1>4, ConsoleAssumption
<1>6. QED
  BY <1>1, <1>2, <1>3, <1>5 DEF Line

LEMMA Typing == HostTypes /\ GuestTypes /\ Ordered <=> ConsoleTypeOK
  BY DEF HostTypes, GuestTypes, Ordered, ConsoleTypeOK

(* What stands at the places of the console.                                *)
Placed ==
  /\ DOMAIN serial = 1..Len(serial) /\ Len(serial) \in Nat
  /\ DOMAIN typed = 1..Len(typed) /\ Len(typed) \in Nat
  /\ \A i \in 1..Len(serial) :
       /\ serial[i].line \in Lines /\ serial[i].echo \in BOOLEAN
       /\ serial[i] = [line |-> serial[i].line, echo |-> serial[i].echo]
  /\ \A j \in 1..Len(typed) : typed[j] # Interrupt => typed[j] \in Lines
  /\ running # Nothing => running \in Lines

LEMMA Places == ASSUME GuestTypes PROVE Placed
<1>1. /\ DOMAIN serial = 1..Len(serial) /\ Len(serial) \in Nat
      /\ DOMAIN typed = 1..Len(typed) /\ Len(typed) \in Nat
      /\ \A i \in 1..Len(serial) : serial[i] \in Printed
      /\ \A j \in 1..Len(typed) : typed[j] \in Lines \union {Interrupt}
  BY LenProperties, ElementOfSeq DEF GuestTypes
<1>2. \A item \in Printed :
        /\ item.line \in Lines /\ item.echo \in BOOLEAN
        /\ item = [line |-> item.line, echo |-> item.echo]
  BY DEF Printed
<1>3. running # Nothing => running \in Lines
  BY DEF GuestTypes
<1>4. QED
  BY <1>1, <1>2, <1>3 DEF Placed

LEMMA LinesOnly ==
  ASSUME NEW line \in Lines
  PROVE  /\ line # Nothing /\ line # Interrupt /\ line.op \in Ops /\ line.back \in BOOLEAN
         /\ line = [op |-> line.op, back |-> line.back] /\ line.op.id \in 1..MaxOps
         /\ MaxOps \in Nat /\ line.op = [id |-> line.op.id, kind |-> line.op.kind]
<1>1. MaxOps \in Nat /\ 1..MaxOps \subseteq Nat
  BY ConsoleAssumption
<1>2. /\ line.op \in Ops /\ line.back \in BOOLEAN
      /\ line = [op |-> line.op, back |-> line.back]
  BY DEF Lines
<1>3. /\ line.op.id \in 1..MaxOps /\ line.op.kind \in Kinds
      /\ line.op = [id |-> line.op.id, kind |-> line.op.kind]
  BY <1>2 DEF Ops
<1>4. line \in [op : [id : Nat, kind : Kinds], back : BOOLEAN]
  BY <1>1, <1>2, <1>3
<1>5. QED
  BY <1>1, <1>2, <1>3, <1>4, ConsoleAssumption

(* A call does not get older than a line on the console.                    *)
LEMMA TypableKeeps ==
  ASSUME op' = op, hostPc' = hostPc \/ hostPc' # "waiting", NEW line, Typable(line)
  PROVE  Typable(line)'
  BY DEF Typable

LEMMA ConsoleBegins ==
  ConsoleInit => ConsoleInv
<1> SUFFICES ASSUME ConsoleInit PROVE ConsoleInv
  OBVIOUS
<1> USE DEF ConsoleInit
<1>1. DOMAIN serial = {} /\ DOMAIN typed = {}
  OBVIOUS
<1>2. HostTypes
  <2>1. 0 \in 0..MaxOps
    BY ConsoleAssumption
  <2>2. QED
    BY <2>1 DEF HostTypes
<1>3. GuestTypes
  <2>1. typed \in Seq(Lines \union {Interrupt}) /\ serial \in Seq(Printed)
    BY EmptySeq
  <2>2. QED
    BY <2>1 DEF GuestTypes
<1>4. QED
  BY <1>1, <1>2, <1>3 DEF ConsoleInv, Ordered, NothingNewer, AskedOnce, OnlyOwn, HostState,
     OwnUnlessBehind, ShellIsFree

(* A new call: the line it types is the latest, and there is none like it.  *)
LEMMA ConsoleBegin ==
  ASSUME ConsoleInv, NEW kind \in Kinds, Begin(kind)
  PROVE  ConsoleInv'
<1>0. /\ op' = [id |-> NextId, kind |-> kind] /\ NextId <= MaxOps
      /\ typed' = Append(typed, [op |-> op', back |-> FALSE])
      /\ hostPc = "idle" /\ hostPc' = "waiting" /\ answer' = 0
      /\ running' = running /\ serial' = serial /\ behind' = behind
  BY DEF Begin, Line
<1>1. PICK line \in Lines :
        /\ line = [op |-> op', back |-> FALSE] /\ line.op = op' /\ line.back = FALSE
        /\ line # Interrupt /\ line # Nothing
        /\ op' \in Ops /\ op' # Nothing /\ op'.id = NextId
  <2>1. NextId \in 1..MaxOps
    BY <1>0, ConsoleAssumption DEF ConsoleInv, HostTypes, NextId, Ops
  <2>2. op' \in Ops /\ op'.id = NextId
    BY <1>0, <2>1 DEF Ops
  <2>3. QED
    BY <2>2, LineType DEF Line
<1>2. typed' = Append(typed, line) /\ Asked' = line
  BY <1>0, <1>1 DEF Asked, Line
<1>3. GuestTypes /\ Placed
  BY Places DEF ConsoleInv
<1>4. /\ typed' \in Seq(Lines \union {Interrupt}) /\ typed' # <<>>
      /\ DOMAIN typed' = 1..(Len(typed) + 1) /\ Len(typed') = Len(typed) + 1
      /\ \A j \in 1..Len(typed) : typed'[j] = typed[j]
      /\ typed'[Len(typed) + 1] = line
  <2>1. typed \in Seq(Lines \union {Interrupt})
    BY <1>3 DEF GuestTypes
  <2>2. line \in Lines \union {Interrupt}
    BY <1>1
  <2>3. /\ typed' \in Seq(Lines \union {Interrupt}) /\ typed' # <<>>
        /\ Len(typed') = Len(typed) + 1
        /\ \A j \in 1..Len(typed) : typed'[j] = typed[j]
        /\ typed'[Len(typed) + 1] = line
    BY <1>2, <2>1, <2>2, AppendProperties
  <2>4. QED
    BY <2>3, LenProperties
<1>5. ASSUME NEW l \in Lines, Typable(l)
      PROVE  l.op.id < op'.id /\ NotAfter(l, line) /\ Typable(l)'
  <2>1. op \in Ops /\ op.id \in 1..MaxOps /\ l.op.id \in 1..MaxOps /\ MaxOps \in Nat
    BY <1>5, ConsoleAssumption DEF Typable, ConsoleInv, HostTypes, Ops, Lines
  <2>2. op'.id = op.id + 1 /\ l.op.id <= op.id
    BY <1>0, <1>1, <1>5 DEF Typable, NextId
  <2>3. QED
    BY <1>0, <1>1, <2>1, <2>2 DEF Typable, NotAfter
<1>6. /\ \A i \in 1..Len(serial) : Typable(serial[i].line)
      /\ running # Nothing => Typable(running)
      /\ \A j \in 1..Len(typed) : typed[j] # Interrupt => Typable(typed[j])
  BY <1>0, <1>3 DEF Placed, ConsoleInv, NothingNewer
<1>7. HostTypes' /\ HostState'
  <2>1. 0 \in 0..MaxOps
    BY ConsoleAssumption
  <2>2. QED
    BY <1>0, <1>1, <2>1 DEF ConsoleInv, HostTypes, HostState
<1>8. GuestTypes'
  BY <1>0, <1>3, <1>4 DEF GuestTypes
<1> USE DEF Placed
<1>9. Ordered'
  <2>1. ASSUME NEW j \in 1..(Len(typed) + 1), typed'[j] # Interrupt
        PROVE  /\ \A i \in DOMAIN serial : NotAfter(serial[i].line, typed'[j])
               /\ running # Nothing => NotAfter(running, typed'[j])
               /\ \A i \in 1..(j-1) : typed'[i] # Interrupt =>
                    NotAfter(typed'[i], typed'[j])
    <3>1. CASE j \in 1..Len(typed)
      <4>1. j \in DOMAIN typed /\ typed'[j] = typed[j]
        BY <3>1, <1>3, <1>4
      <4>2. \A i \in 1..(j-1) : typed'[i] = typed[i]
        BY <3>1, <1>3, <1>4
      <4>3. QED
        BY <4>1, <4>2, <2>1 DEF ConsoleInv, Ordered
    <3>2. CASE j = Len(typed) + 1
      <4>1. typed'[j] = line
        BY <3>2, <1>4
      <4>2. \A i \in 1..(j-1) : typed'[i] # Interrupt => NotAfter(typed'[i], line)
        BY <3>2, <1>3, <1>4, <1>5, <1>6
      <4>3. QED
        BY <4>1, <4>2, <1>3, <1>5, <1>6
    <3>3. QED
      BY <3>1, <3>2, <1>3
  <2>2. QED
    BY <1>0, <2>1, <1>4 DEF ConsoleInv, Ordered
<1>10. NothingNewer'
  <2>1. Typable(line)'
    <3>1. op'.id \in Int
      BY <1>0, <1>1 DEF Ops
    <3>2. QED
      <4>1. op' # Nothing /\ line.op.id <= op'.id
        BY <1>1, <3>1
      <4>2. hostPc' = "waiting" /\ line.back => line.op.id < op'.id
        BY <1>0, <1>1, <3>1
      <4>3. QED
        BY <4>1, <4>2 DEF Typable
  <2>2. ASSUME NEW j \in DOMAIN typed', typed'[j] # Interrupt
        PROVE  Typable(typed[j])'
    <3>1. CASE j = Len(typed) + 1
      BY <3>1, <2>1, <1>4
    <3>2. CASE j \in 1..Len(typed)
      <4>1. typed'[j] = typed[j] /\ typed[j] \in Lines /\ Typable(typed[j])
        BY <3>2, <2>2, <1>3, <1>4, <1>6
      <4>2. \A l \in Lines : Typable(l) => Typable(l)'
        BY <1>5
      <4>3. PICK l \in Lines : l = typed[j] /\ Typable(l)'
        BY <4>1, <4>2
      <4>4. QED
        BY <4>1, <4>3 DEF Typable
    <3>3. QED
      BY <2>2, <3>1, <3>2, <1>3, <1>4
  <2>3. \A i \in DOMAIN serial' : Typable(serial[i].line)'
    BY <1>0, <1>3, <1>5, <1>6
  <2>4. QED
    BY <1>0, <2>2, <2>3, <1>3, <1>5, <1>6 DEF NothingNewer
<1>11. AskedOnce' /\ OnlyOwn'
  <2>1. \A l \in Lines : Typable(l) => l # line
    <3>1. op'.id \in Int /\ line.op.id = op'.id
      BY <1>1 DEF Ops
    <3>2. ASSUME NEW l \in Lines, Typable(l) PROVE l # line
      <4>1. l.op.id < line.op.id
        BY <1>5, <3>1, <3>2
      <4>2. QED
        BY <3>1, <4>1
    <3>3. QED
      BY <3>2
  <2>2. \A i \in 1..Len(serial) : serial[i] # Printout(line)
    BY <1>0, <2>1, <1>3, <1>6 DEF Printout
  <2>3. running # line
    BY <1>0, <2>1, <1>1, <1>3, <1>6
  <2>4. \A j \in 1..Len(typed) : typed'[j] # line
    BY <1>0, <2>1, <1>1, <1>3, <1>4, <1>6
  <2>5. Len(typed') - 1 = Len(typed) /\ typed'[Len(typed')] = line
    BY <1>0, <1>3, <1>4
  <2>6. AskedOnce'
    BY <1>0, <1>2, <1>3, <1>4, <2>2, <2>3, <2>4, <2>5 DEF AskedOnce, Printout
  <2>7. OnlyOwn'
    BY <1>0, <1>1, <1>3, <1>4 DEF OnlyOwn, ConsoleInv, ShellIsFree
  <2>8. QED
    BY <2>6, <2>7
<1>12. QED
  BY <1>0, <1>1, <1>7, <1>8, <1>9, <1>10, <1>11 DEF ConsoleInv, OwnUnlessBehind,
     ShellIsFree

(* The shell takes the oldest line, and the terminal echoes it.             *)
LEMMA ConsoleTake ==
  ASSUME ConsoleInv, TakeLine
  PROVE  ConsoleInv'
<1>0. /\ running = Nothing /\ typed # <<>> /\ Head(typed) # Interrupt
      /\ running' = Head(typed) /\ typed' = Tail(typed)
      /\ serial' = Append(serial, [line |-> running', echo |-> TRUE])
      /\ hostPc' = hostPc /\ op' = op /\ answer' = answer /\ behind' = behind
  BY DEF TakeLine, hostVars
<1>1. GuestTypes /\ Placed
  BY Places DEF ConsoleInv
<1>2. PICK line \in Lines :
        line = typed[1] /\ running' = line /\ line # Nothing /\ line # Interrupt
             /\ line.op.id \in Int /\ Len(typed) >= 1
  <2>1. Len(typed) >= 1 /\ Head(typed) = typed[1]
    BY <1>0, <1>1, EmptySeq DEF GuestTypes, Placed
  <2>2. typed[1] \in Lines
    BY <1>0, <1>1, <2>1 DEF Placed
  <2>3. PICK line \in Lines : line = typed[1]
    BY <2>2
  <2>4. line # Nothing /\ line # Interrupt /\ line.op.id \in Int
    <3>1. line # Nothing /\ line # Interrupt
      BY LinesOnly
    <3>2. line.op.id \in 1..MaxOps
      BY LinesOnly
    <3>3. QED
      BY <3>1, <3>2
  <2>5. QED
    BY <1>0, <2>1, <2>3, <2>4
<1> DEFINE item == [line |-> line, echo |-> TRUE]
<1>3. item \in Printed /\ item.line = line /\ item.echo = TRUE
  BY DEF Printed
<1> HIDE DEF item
<1>4. /\ serial' \in Seq(Printed)
      /\ DOMAIN serial' = 1..(Len(serial) + 1)
      /\ \A i \in 1..Len(serial) : serial'[i] = serial[i]
      /\ serial'[Len(serial) + 1] = item
  <2>1. serial' = Append(serial, item) /\ serial \in Seq(Printed)
    BY <1>0, <1>1, <1>2 DEF item, GuestTypes
  <2>2. /\ serial' \in Seq(Printed) /\ Len(serial') = Len(serial) + 1
        /\ \A i \in 1..Len(serial) : serial'[i] = serial[i]
        /\ serial'[Len(serial) + 1] = item
    BY <1>3, <2>1, AppendProperties
  <2>3. QED
    BY <2>2, LenProperties
<1>5. /\ typed' \in Seq(Lines \union {Interrupt})
      /\ DOMAIN typed' = 1..(Len(typed) - 1) /\ Len(typed') = Len(typed) - 1
      /\ \A j \in 1..(Len(typed) - 1) : typed'[j] = typed[j + 1]
  <2>1. /\ typed' \in Seq(Lines \union {Interrupt}) /\ Len(typed') = Len(typed) - 1
        /\ \A j \in 1..Len(typed') : typed'[j] = typed[j + 1]
    BY <1>0, <1>1, HeadTailProperties DEF GuestTypes
  <2>2. QED
    BY <2>1, LenProperties
<1>6. HostTypes' /\ HostState' /\ GuestTypes'
  BY <1>0, <1>2, <1>4, <1>5 DEF ConsoleInv, HostTypes, HostState, GuestTypes
<1>7. \A j \in 2..Len(typed) : typed[j] # Interrupt => NotAfter(line, typed[j])
  BY <1>1, <1>2 DEF ConsoleInv, Ordered, Placed
<1>8. \A i \in 1..Len(serial) : NotAfter(serial[i].line, line)
  BY <1>1, <1>2 DEF ConsoleInv, Ordered, Placed
<1>9. Ordered'
  <2>1. \A i \in 1..(Len(serial) + 1) : NotAfter(serial'[i].line, line)
    BY <1>1, <1>2, <1>3, <1>4, <1>8 DEF Placed, NotAfter
  <2>2. ASSUME NEW i \in 1..(Len(serial) + 1), NEW j \in 1..(Len(serial) + 1), i < j
        PROVE  NotAfter(serial'[i].line, serial'[j].line)
    <3>1. CASE j = Len(serial) + 1
      BY <3>1, <2>1, <1>3, <1>4
    <3>2. CASE j \in 1..Len(serial)
      <4>1. i \in 1..Len(serial) /\ serial'[i] = serial[i] /\ serial'[j] = serial[j]
        BY <2>2, <3>2, <1>1, <1>4 DEF Placed
      <4>2. QED
        BY <4>1, <3>2, <2>2, <1>1 DEF ConsoleInv, Ordered, Placed
    <3>3. QED
      BY <3>1, <3>2, <1>1 DEF Placed
  <2>3. ASSUME NEW j \in 1..(Len(typed) - 1), typed'[j] # Interrupt
        PROVE  /\ \A i \in 1..(Len(serial) + 1) : NotAfter(serial'[i].line, typed'[j])
               /\ NotAfter(line, typed'[j])
               /\ \A i \in 1..(j-1) : typed'[i] # Interrupt =>
                    NotAfter(typed'[i], typed'[j])
    <3>1. j + 1 \in 2..Len(typed) /\ typed'[j] = typed[j + 1]
      BY <1>1, <1>5 DEF Placed
    <3>2. NotAfter(line, typed'[j])
      BY <3>1, <2>3, <1>7
    <3>3. \A i \in 1..(Len(serial) + 1) : NotAfter(serial'[i].line, typed'[j])
      BY <3>1, <3>2, <2>3, <1>1, <1>3, <1>4 DEF ConsoleInv, Ordered, Placed
    <3>4. ASSUME NEW i \in 1..(j-1), typed'[i] # Interrupt
          PROVE  NotAfter(typed'[i], typed'[j])
      <4>1. i + 1 \in 1..(j + 1 - 1) /\ typed'[i] = typed[i + 1] /\ j + 1 \in DOMAIN typed
        BY <3>1, <1>1, <1>5 DEF Placed
      <4>2. QED
        BY <4>1, <3>1, <3>4, <2>3 DEF ConsoleInv, Ordered
    <3>5. QED
      BY <3>2, <3>3, <3>4
  <2>4. QED
    BY <2>1, <2>2, <2>3, <1>2, <1>4, <1>5 DEF Ordered
<1>10. NothingNewer'
  <2>1. Typable(line)'
    BY <1>0, <1>1, <1>2, TypableKeeps DEF ConsoleInv, NothingNewer, Placed
  <2>2. ASSUME NEW i \in DOMAIN serial' PROVE Typable(serial[i].line)'
    <3>1. CASE i \in 1..Len(serial)
      <4>1. serial'[i].line = serial[i].line /\ Typable(serial[i].line)
        BY <3>1, <1>1, <1>4 DEF ConsoleInv, NothingNewer, Placed
      <4>2. QED
        BY <4>1, <1>0 DEF Typable
    <3>2. CASE i = Len(serial) + 1
      BY <3>2, <2>1, <1>3, <1>4 DEF Typable
    <3>3. QED
      BY <3>1, <3>2, <1>1, <1>4 DEF Placed
  <2>3. ASSUME NEW j \in DOMAIN typed', typed'[j] # Interrupt PROVE Typable(typed[j])'
    <3>1. j + 1 \in DOMAIN typed /\ typed'[j] = typed[j + 1]
      BY <1>1, <1>5 DEF Placed
    <3>2. QED
      BY <3>1, <2>3, <1>0 DEF ConsoleInv, NothingNewer, Typable
  <2>4. QED
    BY <2>1, <2>2, <2>3, <1>2 DEF NothingNewer
<1>11. AskedOnce'
  <2> SUFFICES ASSUME hostPc # "idle" PROVE AskedOnce'
    BY <1>0 DEF AskedOnce
  <2>0. Asked' = Asked
    BY <1>0 DEF Asked
  <2>1. /\ typed[Len(typed)] = Asked
        /\ \A j \in 1..(Len(typed) - 1) : typed[j] # Asked
        /\ \A i \in DOMAIN serial : serial[i] # Printout(Asked)
    BY <1>0 DEF ConsoleInv, AskedOnce
  <2>2. \A i \in DOMAIN serial' : serial'[i] # Printout(Asked)
    <3>1. item # Printout(Asked)
      BY <1>3 DEF Printout
    <3>2. QED
      BY <3>1, <2>1, <1>1, <1>4 DEF Placed
  <2>3. CASE Len(typed) = 1
    <3>1. typed' = <<>>
      BY <2>3, <1>5, EmptySeq
    <3>2. QED
      BY <3>1, <2>0, <2>1, <2>2, <2>3, <1>2 DEF AskedOnce
  <2>4. CASE Len(typed) > 1
    <3>1. typed'[Len(typed')] = Asked /\ line # Asked /\ typed' # <<>>
      BY <2>1, <2>4, <1>1, <1>2, <1>5, EmptySeq DEF Placed
    <3>2. \A j \in 1..(Len(typed') - 1) : typed'[j] # Asked
      <4> TAKE j \in 1..(Len(typed') - 1)
      <4>1. j \in 1..(Len(typed) - 1) /\ j + 1 \in 1..(Len(typed) - 1)
        BY <1>1, <1>5 DEF Placed
      <4>2. QED
        BY <4>1, <2>1, <1>5
    <3>3. QED
      BY <3>1, <3>2, <2>0, <2>2, <1>2 DEF AskedOnce
  <2>5. QED
    BY <2>3, <2>4, <1>1, <1>2 DEF Placed
<1>12. OnlyOwn'
  <2> SUFFICES ASSUME hostPc # "idle", ~behind PROVE OnlyOwn'
    BY <1>0 DEF OnlyOwn
  <2>1. /\ \A j \in DOMAIN typed : typed[j] # Interrupt => typed[j].op = op
        /\ \A i \in DOMAIN serial : ~serial[i].echo => serial[i].line.op = op
    BY DEF ConsoleInv, OnlyOwn
  <2>2. \A i \in DOMAIN serial' : ~serial'[i].echo => serial'[i].line.op = op
    BY <2>1, <1>1, <1>3, <1>4 DEF Placed
  <2>3. \A j \in DOMAIN typed' : typed'[j] # Interrupt => typed'[j].op = op
    <3> TAKE j \in DOMAIN typed'
    <3>1. j + 1 \in DOMAIN typed /\ typed'[j] = typed[j + 1]
      BY <1>1, <1>5 DEF Placed
    <3>2. QED
      BY <3>1, <2>1
  <2>4. line.op = op
    BY <2>1, <1>1, <1>2 DEF Placed
  <2>5. QED
    BY <2>2, <2>3, <2>4, <1>0, <1>2 DEF OnlyOwn
<1>13. QED
  BY <1>0, <1>6, <1>9, <1>10, <1>11, <1>12 DEF ConsoleInv, OwnUnlessBehind,
     ShellIsFree

(* The command ends and prints its marker.                                  *)
LEMMA ConsoleFinish ==
  ASSUME ConsoleInv, Finish
  PROVE  ConsoleInv'
<1>0. /\ running # Nothing /\ running' = Nothing /\ serial' = Append(serial, Printout(running))
      /\ hostPc' = hostPc /\ op' = op /\ answer' = answer /\ behind' = behind /\ typed' = typed
  BY DEF Finish, hostVars, Printout
<1>1. GuestTypes /\ Placed
  BY Places DEF ConsoleInv
<1>2. Printout(running) \in Printed /\ Printout(running).line = running
  <2>1. running \in Lines
    BY <1>0, <1>1 DEF Placed
  <2>2. QED
    BY <2>1 DEF Printout, Printed
<1>3. /\ serial' \in Seq(Printed)
      /\ DOMAIN serial' = 1..(Len(serial) + 1) /\ Len(serial') = Len(serial) + 1
      /\ \A i \in 1..Len(serial) : serial'[i] = serial[i]
      /\ serial'[Len(serial) + 1] = Printout(running)
  <2>1. serial \in Seq(Printed)
    BY <1>1 DEF GuestTypes
  <2>2. /\ serial' \in Seq(Printed) /\ Len(serial') = Len(serial) + 1
        /\ \A i \in 1..Len(serial) : serial'[i] = serial[i]
        /\ serial'[Len(serial) + 1] = Printout(running)
    BY <1>0, <1>2, <2>1, AppendProperties
  <2>3. QED
    BY <2>2, LenProperties
<1>4. HostTypes' /\ HostState' /\ GuestTypes'
  BY <1>0, <1>1, <1>3 DEF ConsoleInv, HostTypes, HostState, GuestTypes
<1>5. Ordered'
  <2>1. ASSUME NEW i \in 1..(Len(serial) + 1), NEW j \in 1..(Len(serial) + 1), i < j
        PROVE  NotAfter(serial'[i].line, serial'[j].line)
    <3>1. i \in 1..Len(serial) /\ serial'[i] = serial[i]
      BY <2>1, <1>1, <1>3 DEF Placed
    <3>2. CASE j = Len(serial) + 1
      BY <3>1, <3>2, <1>0, <1>1, <1>2, <1>3 DEF ConsoleInv, Ordered, Placed
    <3>3. CASE j \in 1..Len(serial)
      BY <3>1, <3>3, <2>1, <1>1, <1>3 DEF ConsoleInv, Ordered, Placed
    <3>4. QED
      BY <3>2, <3>3, <1>1 DEF Placed
  <2>2. ASSUME NEW j \in DOMAIN typed, typed[j] # Interrupt,
               NEW i \in 1..(Len(serial) + 1)
        PROVE  NotAfter(serial'[i].line, typed[j])
    <3>1. CASE i \in 1..Len(serial)
      BY <3>1, <2>2, <1>1, <1>3 DEF ConsoleInv, Ordered, Placed
    <3>2. CASE i = Len(serial) + 1
      BY <3>2, <2>2, <1>0, <1>2, <1>3 DEF ConsoleInv, Ordered
    <3>3. QED
      BY <3>1, <3>2, <1>1 DEF Placed
  <2>3. QED
    BY <2>1, <2>2, <1>0, <1>3 DEF ConsoleInv, Ordered
<1>6. NothingNewer'
  <2>1. ASSUME NEW i \in DOMAIN serial' PROVE Typable(serial[i].line)'
    <3>1. CASE i \in 1..Len(serial)
      <4>1. serial'[i].line = serial[i].line /\ Typable(serial[i].line)
        BY <3>1, <1>1, <1>3 DEF ConsoleInv, NothingNewer, Placed
      <4>2. QED
        BY <4>1, <1>0 DEF Typable
    <3>2. CASE i = Len(serial) + 1
      <4>1. serial'[i].line = running /\ Typable(running)
        BY <3>2, <1>0, <1>2, <1>3 DEF ConsoleInv, NothingNewer
      <4>2. QED
        BY <4>1, <1>0 DEF Typable
    <3>3. QED
      BY <3>1, <3>2, <1>1, <1>3 DEF Placed
  <2>2. QED
    BY <2>1, <1>0 DEF ConsoleInv, NothingNewer, Typable
<1>7. AskedOnce'
  <2> SUFFICES ASSUME hostPc # "idle" PROVE AskedOnce'
    BY <1>0 DEF AskedOnce
  <2>0. Asked' = Asked
    BY <1>0 DEF Asked
  <2>1. \A i \in 1..Len(serial) : serial'[i] # Printout(Asked)
    BY <1>0, <1>1, <1>3 DEF ConsoleInv, AskedOnce, Placed
  <2>2. CASE running = Asked
    <3>1. typed' = <<>> /\ serial' # <<>> /\ serial'[Len(serial')] = Printout(Asked)
      BY <2>2, <1>0, <1>1, <1>3, EmptySeq DEF ConsoleInv, AskedOnce, Placed
    <3>2. Len(serial') - 1 = Len(serial)
      BY <1>1, <1>3 DEF Placed
    <3>3. QED
      BY <3>1, <3>2, <2>0, <2>1, <1>0 DEF AskedOnce, Printout
  <2>3. CASE running # Asked
    <3>1. /\ typed # <<>> /\ typed[Len(typed)] = Asked
          /\ \A j \in 1..(Len(typed) - 1) : typed[j] # Asked
      BY <2>3, <1>0 DEF ConsoleInv, AskedOnce
    <3>2. Printout(running) # Printout(Asked)
      BY <2>3 DEF Printout
    <3>3. \A i \in DOMAIN serial' : serial'[i] # Printout(Asked)
      BY <3>2, <2>1, <1>1, <1>3 DEF Placed
    <3>4. Nothing # Asked
      <4>1. Asked \in Lines
        BY <3>1, <1>1, <1>0, LineType DEF Asked, ConsoleInv, HostTypes, HostState
      <4>2. QED
        BY <4>1, LinesOnly
    <3>5. QED
      BY <3>1, <3>3, <3>4, <2>0, <1>0 DEF AskedOnce, Printout
  <2>4. QED
    BY <2>2, <2>3
<1>8. OnlyOwn'
  <2> SUFFICES ASSUME hostPc # "idle", ~behind PROVE OnlyOwn'
    BY <1>0 DEF OnlyOwn
  <2>1. /\ running.op = op
        /\ \A i \in DOMAIN serial : ~serial[i].echo => serial[i].line.op = op
    BY <1>0 DEF ConsoleInv, OnlyOwn
  <2>2. \A i \in DOMAIN serial' : ~serial'[i].echo => serial'[i].line.op = op
    BY <2>1, <1>1, <1>2, <1>3 DEF Placed
  <2>3. QED
    BY <2>2, <1>0 DEF ConsoleInv, OnlyOwn
<1>9. QED
  BY <1>0, <1>4, <1>5, <1>6, <1>7, <1>8 DEF ConsoleInv, OwnUnlessBehind,
     ShellIsFree

(* An interrupt drops the command and what was typed before it, and never   *)
(* the line the host waits for, which was typed after it.                   *)
LEMMA ConsoleInterrupted ==
  ASSUME ConsoleInv, Interrupted
  PROVE  ConsoleInv'
<1>0. PICK n \in DOMAIN typed :
        /\ typed[n] = Interrupt /\ typed' = SubSeq(typed, n + 1, Len(typed))
        /\ running' = Nothing /\ serial' = serial
        /\ hostPc' = hostPc /\ op' = op /\ answer' = answer /\ behind' = behind
  BY DEF Interrupted, hostVars
<1>1. GuestTypes /\ Placed
  BY Places DEF ConsoleInv
<1>2. /\ typed' \in Seq(Lines \union {Interrupt})
      /\ DOMAIN typed' = 1..(Len(typed) - n) /\ Len(typed') = Len(typed) - n
      /\ \A j \in 1..(Len(typed) - n) :
           typed'[j] = typed[j + n] /\ j + n \in DOMAIN typed
  <2>1. n \in 1..Len(typed) /\ Len(typed) \in Nat
    BY <1>1 DEF Placed
  <2>2. \A j \in (n + 1)..Len(typed) : typed[j] \in Lines \union {Interrupt}
    BY <2>1, <1>1, ElementOfSeq DEF GuestTypes
  <2>3. /\ typed' \in Seq(Lines \union {Interrupt})
        /\ Len(typed') = Len(typed) - n
        /\ \A j \in 1..(Len(typed) - n) : typed'[j] = typed[n + j]
    BY <2>1, <2>2, <1>0, SubSeqProperties
  <2>4. DOMAIN typed' = 1..Len(typed')
    BY <2>3, LenProperties
  <2>5. \A j \in 1..(Len(typed) - n) : j + n \in DOMAIN typed /\ n + j = j + n
    BY <2>1, <1>1 DEF Placed
  <2>6. QED
    BY <2>3, <2>4, <2>5
<1>3. HostTypes' /\ HostState' /\ GuestTypes'
  BY <1>0, <1>1, <1>2 DEF ConsoleInv, HostTypes, HostState, GuestTypes
<1>4. Ordered'
  <2>1. ASSUME NEW j \in DOMAIN typed', typed'[j] # Interrupt
        PROVE  /\ \A i \in DOMAIN serial : NotAfter(serial[i].line, typed'[j])
               /\ \A i \in 1..(j-1) : typed'[i] # Interrupt =>
                    NotAfter(typed'[i], typed'[j])
    <3>1. j + n \in DOMAIN typed /\ typed'[j] = typed[j + n]
      BY <1>2
    <3>2. ASSUME NEW i \in 1..(j-1), typed'[i] # Interrupt
          PROVE  NotAfter(typed'[i], typed'[j])
      <4>1. i + n \in 1..(j + n - 1) /\ typed'[i] = typed[i + n]
        BY <1>1, <1>2 DEF Placed
      <4>2. PICK m \in DOMAIN typed : m = j + n
        BY <3>1
      <4> n \in Int /\ j \in Int /\ i \in Int
        BY <1>1, <1>2 DEF Placed
      <4>3. \A k \in 1..(m - 1) : typed[k] # Interrupt => NotAfter(typed[k], typed[m])
        BY <4>2, <3>1, <2>1 DEF ConsoleInv, Ordered
      <4>4. PICK k \in 1..(m - 1) : k = i + n
        BY <4>1, <4>2
      <4>5. typed'[i] = typed[k] /\ typed'[j] = typed[m] /\ typed[k] # Interrupt
        BY <4>1, <4>2, <4>4, <3>1, <3>2
      <4>6. QED
        BY <4>3, <4>4, <4>5
    <3>3. QED
      BY <3>1, <3>2, <2>1 DEF ConsoleInv, Ordered
  <2>2. QED
    BY <2>1, <1>0 DEF ConsoleInv, Ordered
<1>5. NothingNewer'
  <2>1. ASSUME NEW j \in DOMAIN typed', typed'[j] # Interrupt PROVE Typable(typed[j])'
    <3>1. j + n \in DOMAIN typed /\ typed'[j] = typed[j + n]
      BY <1>2
    <3>2. QED
      BY <3>1, <2>1, <1>0 DEF ConsoleInv, NothingNewer, Typable
  <2>2. QED
    BY <2>1, <1>0 DEF ConsoleInv, NothingNewer, Typable
<1>6. AskedOnce'
  <2> SUFFICES ASSUME hostPc # "idle" PROVE AskedOnce'
    BY <1>0 DEF AskedOnce
  <2>0. Asked' = Asked
    BY <1>0 DEF Asked
  <2>1. Asked # Interrupt /\ Asked # Nothing
    <3>1. Asked \in Lines
      BY LineType DEF Asked, ConsoleInv, HostTypes, HostState
    <3>2. QED
      BY <3>1, LinesOnly
  <2>2. /\ typed[Len(typed)] = Asked
        /\ \A j \in 1..(Len(typed) - 1) : typed[j] # Asked
        /\ \A i \in DOMAIN serial : serial[i] # Printout(Asked)
    BY <1>0, <1>1, EmptySeq DEF ConsoleInv, AskedOnce, Placed
  <2>3. n < Len(typed)
    BY <2>1, <2>2, <1>0, <1>1 DEF Placed
  <2>4. typed' # <<>> /\ typed'[Len(typed')] = Asked
    <3>1. Len(typed') \in 1..(Len(typed) - n) /\ Len(typed') + n = Len(typed)
      BY <2>3, <1>1, <1>2 DEF Placed
    <3>2. QED
      BY <3>1, <2>2, <1>2, EmptySeq
  <2>5. \A j \in 1..(Len(typed') - 1) : typed'[j] # Asked
    <3> TAKE j \in 1..(Len(typed') - 1)
    <3>1. j \in 1..(Len(typed) - n) /\ j + n \in 1..(Len(typed) - 1)
      BY <1>1, <1>2 DEF Placed
    <3>2. QED
      BY <3>1, <2>2, <1>2
  <2>6. QED
    BY <2>0, <2>1, <2>2, <2>4, <2>5, <1>0 DEF AskedOnce
<1>7. OnlyOwn'
  <2>1. \A j \in DOMAIN typed' : typed'[j] = typed[j + n] /\ j + n \in DOMAIN typed
    BY <1>2
  <2>2. QED
    BY <2>1, <1>0 DEF ConsoleInv, OnlyOwn
<1>8. ShellIsFree'
  BY <1>0, <1>1, EmptySeq DEF ConsoleInv, ShellIsFree, Placed
<1>9. QED
  BY <1>0, <1>3, <1>4, <1>5, <1>6, <1>7, <1>8 DEF ConsoleInv, OwnUnlessBehind

(* Leaving off at a marker: unless an answer of an earlier call was missed  *)
(* and looks the same, it is the last thing on the console.                 *)
LEMMA ConsoleRead ==
  ASSUME ConsoleInv, hostPc # "idle",
         NEW n \in 1..Len(serial), Marks(serial[n], Asked),
         serial' = SubSeq(serial, n + 1, Len(serial)),
         answer' = 0 \/ answer' = serial[n].line.op.id,
         hostPc' = "idle", behind' = (behind /\ op.kind \in Shared),
         op' = op, typed' = typed, running' = running
  PROVE  ConsoleInv'
<1>1. GuestTypes /\ Placed
  BY Places DEF ConsoleInv
<1>2. /\ serial' \in Seq(Printed)
      /\ DOMAIN serial' = 1..(Len(serial) - n)
      /\ \A i \in 1..(Len(serial) - n) : serial'[i] = serial[i + n] /\ i + n \in DOMAIN serial
  <2>1. \A i \in (n + 1)..Len(serial) : serial[i] \in Printed
    BY <1>1, ElementOfSeq DEF GuestTypes
  <2>2. n \in Int /\ n <= Len(serial) /\ Len(serial) \in Nat
    BY <1>1 DEF Placed
  <2>3. /\ serial' \in Seq(Printed) /\ Len(serial') = Len(serial) - n
        /\ \A i \in 1..(Len(serial) - n) : serial'[i] = serial[n + i]
    BY <2>1, <2>2, SubSeqProperties
  <2>4. DOMAIN serial' = 1..Len(serial')
    BY <2>3, LenProperties
  <2>5. \A i \in 1..(Len(serial) - n) : i + n \in DOMAIN serial /\ n + i = i + n
    BY <2>2, <1>1 DEF Placed
  <2>6. QED
    BY <2>3, <2>4, <2>5
<1>3. PICK line \in Lines :
        /\ line = serial[n].line /\ line.op.id \in 0..MaxOps
        /\ line.op = [id |-> line.op.id, kind |-> line.op.kind]
        /\ line = [op |-> line.op, back |-> line.back]
  <2>1. PICK line \in Lines : line = serial[n].line
    BY <1>1 DEF Placed
  <2>2. line.op.id \in 1..MaxOps /\ MaxOps \in Nat
    BY LinesOnly
  <2>3. /\ line.op = [id |-> line.op.id, kind |-> line.op.kind]
        /\ line = [op |-> line.op, back |-> line.back]
    BY LinesOnly
  <2>4. QED
    BY <2>1, <2>2, <2>3
<1>4. op \in Ops /\ op = [id |-> op.id, kind |-> op.kind] /\ op # Nothing
  <2>1. op \in Ops /\ op # Nothing
    BY DEF ConsoleInv, HostTypes, HostState
  <2>2. QED
    BY <2>1 DEF Ops
<1>5. HostTypes' /\ HostState' /\ GuestTypes'
  <2>1. answer' \in 0..MaxOps
    BY <1>3, ConsoleAssumption
  <2>2. QED
    BY <2>1, <1>1, <1>2, <1>4 DEF ConsoleInv, HostTypes, HostState, GuestTypes
<1>6. Ordered'
  <2>1. ASSUME NEW i \in DOMAIN serial', NEW j \in DOMAIN serial', i < j
        PROVE  NotAfter(serial'[i].line, serial'[j].line)
    <3>1. n \in Int /\ i \in Int /\ j \in Int
      BY <1>1, <1>2 DEF Placed
    <3>2. PICK k \in DOMAIN serial : k = i + n /\ serial'[i] = serial[k]
      BY <1>2
    <3>3. PICK m \in DOMAIN serial : m = j + n /\ serial'[j] = serial[m]
      BY <1>2
    <3>4. k < m
      BY <2>1, <3>1, <3>2, <3>3
    <3>5. QED
      BY <3>2, <3>3, <3>4 DEF ConsoleInv, Ordered
  <2>2. ASSUME NEW i \in DOMAIN serial'
        PROVE  /\ running # Nothing => NotAfter(serial'[i].line, running)
               /\ \A j \in DOMAIN typed : typed[j] # Interrupt =>
                    NotAfter(serial'[i].line, typed[j])
    <3>1. PICK k \in DOMAIN serial : serial'[i] = serial[k]
      BY <1>2
    <3>2. QED
      BY <3>1 DEF ConsoleInv, Ordered
  <2>3. QED
    BY <2>1, <2>2 DEF ConsoleInv, Ordered
<1>7. NothingNewer'
  <2>1. ASSUME NEW i \in DOMAIN serial' PROVE Typable(serial[i].line)'
    <3>1. PICK k \in DOMAIN serial : serial'[i] = serial[k]
      BY <1>2
    <3>2. QED
      BY <3>1 DEF ConsoleInv, NothingNewer, Typable
  <2>2. QED
    BY <2>1 DEF ConsoleInv, NothingNewer, Typable
<1>8. ASSUME ~behind' PROVE serial[n] = Printout(Asked) /\ line.op = op
  <2>1. /\ ~serial[n].echo /\ line.back = (hostPc = "recovering") /\ line.op.kind = op.kind
        /\ op.kind \notin Shared => line.op.id = op.id
    BY <1>3 DEF Marks, Asked, Line
  <2>2. line.op = op
    <3>1. CASE op.kind \notin Shared
      BY <3>1, <2>1, <1>3, <1>4
    <3>2. CASE ~behind
      BY <3>2, <2>1, <1>1, <1>3 DEF ConsoleInv, OnlyOwn, Placed
    <3>3. QED
      BY <3>1, <3>2, <1>8
  <2>3. line = Asked
    BY <2>1, <2>2, <1>3 DEF Asked, Line
  <2>4. QED
    BY <2>1, <2>2, <2>3, <1>1, <1>3 DEF Placed, Printout
<1>9. ASSUME ~behind' PROVE n = Len(serial) /\ typed = <<>> /\ running = Nothing
  <2>1. n \in DOMAIN serial /\ serial[n] = Printout(Asked)
    BY <1>1, <1>8, <1>9 DEF Placed
  <2>2. /\ typed = <<>> /\ running = Nothing
        /\ \A i \in 1..(Len(serial) - 1) : serial[i] # Printout(Asked)
    BY <2>1 DEF ConsoleInv, AskedOnce
  <2>3. n \notin 1..(Len(serial) - 1) /\ n \in Int /\ Len(serial) \in Nat
    BY <2>1, <2>2, <1>1 DEF Placed
  <2>4. QED
    BY <2>2, <2>3
<1>10. ShellIsFree'
  <2>1. ~behind' => DOMAIN serial' = {}
    BY <1>1, <1>2, <1>9 DEF Placed
  <2>2. QED
    BY <2>1, <1>9 DEF ShellIsFree
<1>11. OwnUnlessBehind'
  BY <1>3, <1>8 DEF OwnUnlessBehind
<1>12. QED
  BY <1>5, <1>6, <1>7, <1>10, <1>11 DEF ConsoleInv, AskedOnce, OnlyOwn

(* The host reads an answer, or that the shell is back.                     *)
LEMMA ConsoleAnswered ==
  ASSUME ConsoleInv, Answered \/ Recovered
  PROVE  ConsoleInv'
<1>1. serial \in Seq(Printed)
  BY DEF ConsoleInv, GuestTypes
<1>2. /\ hostPc # "idle" /\ Seen(Asked) # {}
      /\ serial' = After(First(Asked))
      /\ answer' = answer \/ answer' = serial[First(Asked)].line.op.id
      /\ hostPc' = "idle" /\ behind' = (behind /\ op.kind \in Shared)
      /\ op' = op /\ typed' = typed /\ running' = running
  <2>1. CASE Answered
    <3>1. Asked = Line(op, FALSE)
      BY <2>1 DEF Asked, Answered, Line
    <3>2. QED
      BY <2>1, <3>1 DEF Answered
  <2>2. CASE Recovered
    <3>1. Asked = Line(op, TRUE)
      BY <2>2 DEF Asked, Recovered, Line
    <3>2. QED
      BY <2>2, <3>1 DEF Recovered
  <2>3. QED
    BY <2>1, <2>2
<1>3. PICK n \in 1..Len(serial) :
        n = First(Asked) /\ Marks(serial[n], Asked)
  BY <1>1, <1>2, FirstFits
<1>4. serial' = SubSeq(serial, n + 1, Len(serial))
  BY <1>2, <1>3 DEF After
<1>5. answer' = 0 \/ answer' = serial[n].line.op.id
  BY <1>2, <1>3 DEF ConsoleInv, HostState
<1>6. QED
  BY <1>2, <1>3, <1>4, <1>5, ConsoleRead

(* Whoever goes on without an answer is behind.                             *)
LEMMA ConsoleLeft ==
  ASSUME ConsoleInv, hostPc # "idle", hostPc' = "idle", behind' = TRUE, op' = op, answer' = answer,
         typed' = typed, running' = running, serial' = serial
  PROVE  ConsoleInv'
<1>1. HostTypes' /\ GuestTypes' /\ Ordered' /\ HostState'
  BY DEF ConsoleInv, HostTypes, GuestTypes, Ordered, HostState
<1>2. NothingNewer'
  BY DEF ConsoleInv, NothingNewer, Typable
<1>3. QED
  BY <1>1, <1>2 DEF ConsoleInv, AskedOnce, OnlyOwn, OwnUnlessBehind,
     ShellIsFree

(* Two elements behind a sequence.                                          *)
LEMMA PairBehind ==
  ASSUME NEW S, NEW s \in Seq(S), NEW a \in S, NEW b \in S
  PROVE  /\ s \o <<a, b>> \in Seq(S) /\ Len(s \o <<a, b>>) = Len(s) + 2
         /\ \A j \in 1..Len(s) : (s \o <<a, b>>)[j] = s[j]
         /\ (s \o <<a, b>>)[Len(s) + 1] = a /\ (s \o <<a, b>>)[Len(s) + 2] = b
<1> DEFINE t == <<a, b>>
<1>1. t \in Seq(S) /\ Len(t) = 2 /\ t[1] = a /\ t[2] = b /\ Len(s) \in Nat
  OBVIOUS
<1> HIDE DEF t
<1>2. /\ s \o t \in Seq(S) /\ Len(s \o t) = Len(s) + Len(t)
      /\ \A j \in 1..(Len(s) + Len(t)) :
           (s \o t)[j] = IF j <= Len(s) THEN s[j] ELSE t[j - Len(s)]
  BY <1>1, ConcatProperties
<1>3. \A j \in 1..Len(s) : (s \o t)[j] = s[j]
  BY <1>1, <1>2
<1>4. \A k \in 1..2 : (s \o t)[Len(s) + k] = t[k]
  <2> TAKE k \in 1..2
  <2>1. Len(s) + k \in 1..(Len(s) + Len(t)) /\ ~(Len(s) + k <= Len(s))
        /\ Len(s) + k - Len(s) = k
    BY <1>1
  <2>2. QED
    BY <1>2, <2>1
<1>5. QED
  BY <1>1, <1>2, <1>3, <1>4 DEF t

(* A command that is interrupted: the host asks whether the shell is back   *)
(* behind it, for the first time.                                           *)
LEMMA ConsoleRecovery ==
  ASSUME ConsoleInv, NEW line,
         line = [op |-> op, back |-> TRUE], hostPc = "waiting", hostPc' = "recovering",
         typed' = typed \o <<Interrupt, line>>,
         op' = op, answer' = answer, running' = running, serial' = serial, behind' = behind
  PROVE  ConsoleInv'
<1>1. GuestTypes /\ Placed
  BY Places DEF ConsoleInv
<1>2. op # Nothing /\ op \in Ops
  BY DEF ConsoleInv, HostTypes, HostState
<1>3. line \in Lines /\ line.op = op /\ line.back = TRUE
  BY <1>2 DEF Lines
<1>4. line # Interrupt /\ line # Nothing /\ op.id \in Int
  <2>1. line # Interrupt /\ line # Nothing
    BY <1>3, LinesOnly
  <2>2. op.id \in Int
    BY <1>2 DEF Ops
  <2>3. QED
    BY <2>1, <2>2
<1>5. /\ typed' \in Seq(Lines \union {Interrupt}) /\ typed' # <<>>
      /\ DOMAIN typed' = 1..(Len(typed) + 2) /\ Len(typed') = Len(typed) + 2
      /\ \A j \in 1..Len(typed) : typed'[j] = typed[j]
      /\ typed'[Len(typed) + 1] = Interrupt /\ typed'[Len(typed) + 2] = line
  <2>1. /\ Interrupt \in Lines \union {Interrupt}
        /\ line \in Lines \union {Interrupt}
        /\ typed \in Seq(Lines \union {Interrupt}) /\ Len(typed) \in Nat
    BY <1>1, <1>3 DEF GuestTypes, Placed
  <2>2. /\ typed' \in Seq(Lines \union {Interrupt}) /\ Len(typed') = Len(typed) + 2
        /\ \A j \in 1..Len(typed) : typed'[j] = typed[j]
        /\ typed'[Len(typed) + 1] = Interrupt /\ typed'[Len(typed) + 2] = line
    BY <2>1, PairBehind
  <2>3. DOMAIN typed' = 1..Len(typed')
    BY <2>2, LenProperties
  <2>4. typed' # <<>>
    BY <2>1, <2>2, EmptySeq
  <2>5. QED
    BY <2>2, <2>3, <2>4
<1>6. ASSUME NEW l \in Lines, Typable(l)
      PROVE  Typable(l)' /\ NotAfter(l, line) /\ l # line
  <2>1. l.op.id <= op.id /\ (l.back => l.op.id < op.id)
    BY <1>6 DEF Typable
  <2>2. l.op.id \in Int
    <3>1. l.op.id \in 1..MaxOps
      BY LinesOnly
    <3>2. QED
      BY <3>1
  <2>3. l # line
    BY <2>1, <2>2, <1>3, <1>4
  <2>4. QED
    BY <2>1, <2>3, <1>3, <1>6 DEF Typable, NotAfter
<1>7. /\ \A i \in 1..Len(serial) : Typable(serial[i].line)
      /\ running # Nothing => Typable(running)
      /\ \A j \in 1..Len(typed) : typed[j] # Interrupt => Typable(typed[j])
  BY <1>1 DEF ConsoleInv, NothingNewer, Placed
<1>8. HostTypes' /\ HostState' /\ GuestTypes'
  BY <1>1, <1>2, <1>5 DEF ConsoleInv, HostTypes, HostState, GuestTypes
<1>9. Ordered'
  <2>1. ASSUME NEW j \in 1..(Len(typed) + 2), typed'[j] # Interrupt
        PROVE  /\ \A i \in DOMAIN serial : NotAfter(serial[i].line, typed'[j])
               /\ running # Nothing => NotAfter(running, typed'[j])
               /\ \A i \in 1..(j-1) : typed'[i] # Interrupt =>
                    NotAfter(typed'[i], typed'[j])
    <3>1. CASE j \in 1..Len(typed)
      <4>1. j \in DOMAIN typed /\ typed'[j] = typed[j]
        BY <3>1, <1>1, <1>5 DEF Placed
      <4>2. \A i \in 1..(j-1) : typed'[i] = typed[i]
        BY <3>1, <1>1, <1>5 DEF Placed
      <4>3. QED
        BY <4>1, <4>2, <2>1 DEF ConsoleInv, Ordered
    <3>2. CASE j = Len(typed) + 2
      <4>1. typed'[j] = line
        BY <3>2, <1>5
      <4>2. ASSUME NEW i \in 1..(j-1), typed'[i] # Interrupt
            PROVE  NotAfter(typed'[i], line)
        <5>1. i \in 1..Len(typed) /\ typed'[i] = typed[i]
          BY <4>2, <3>2, <1>1, <1>5 DEF Placed
        <5>2. QED
          BY <5>1, <4>2, <1>1, <1>6, <1>7 DEF Placed
      <4>3. QED
        BY <4>1, <4>2, <1>1, <1>6, <1>7 DEF Placed
    <3>3. j \in 1..Len(typed) \/ j = Len(typed) + 1 \/ j = Len(typed) + 2
      <4>1. Len(typed) \in Nat
        BY <1>1 DEF Placed
      <4>2. QED
        BY <4>1
    <3>4. j # Len(typed) + 1
      BY <2>1, <1>5
    <3>5. QED
      BY <3>1, <3>2, <3>3, <3>4
  <2>2. QED
    BY <2>1, <1>5 DEF ConsoleInv, Ordered
<1>10. NothingNewer'
  <2>1. ASSUME NEW j \in DOMAIN typed', typed'[j] # Interrupt PROVE Typable(typed[j])'
    <3>1. CASE j \in 1..Len(typed)
      <4>1. typed'[j] = typed[j] /\ Typable(typed[j])
        BY <3>1, <2>1, <1>5, <1>7
      <4>2. QED
        BY <4>1 DEF Typable
    <3>2. CASE j = Len(typed) + 2
      <4>1. typed'[j] = line
        BY <3>2, <1>5
      <4>2. QED
        BY <4>1, <1>2, <1>3, <1>4 DEF Typable
    <3>3. QED
      BY <3>1, <3>2, <2>1, <1>1, <1>5 DEF Placed
  <2>2. QED
    BY <2>1 DEF ConsoleInv, NothingNewer, Typable
<1>11. AskedOnce'
  <2>1. Asked' = line
    BY DEF Asked, Line
  <2>2. \A i \in 1..Len(serial) : serial[i] # Printout(line)
    BY <1>1, <1>6, <1>7 DEF Placed, Printout
  <2>3. running # line
    BY <1>1, <1>4, <1>6, <1>7 DEF Placed
  <2>4. \A j \in 1..(Len(typed) + 1) : typed'[j] # line
    <3>1. \A j \in 1..Len(typed) : typed[j] # line
      BY <1>1, <1>4, <1>6, <1>7 DEF Placed
    <3>2. QED
      BY <3>1, <1>1, <1>4, <1>5 DEF Placed
  <2>5. Len(typed') - 1 = Len(typed) + 1 /\ typed'[Len(typed')] = line
    BY <1>1, <1>5 DEF Placed
  <2>6. QED
    BY <2>1, <2>2, <2>3, <2>4, <2>5, <1>1, <1>5 DEF AskedOnce, Printout, Placed
<1>12. OnlyOwn'
  <2> SUFFICES ASSUME ~behind PROVE OnlyOwn'
    BY DEF OnlyOwn
  <2>1. \A j \in 1..Len(typed) : typed[j] # Interrupt => typed[j].op = op
    BY <1>1 DEF ConsoleInv, OnlyOwn, Placed
  <2>2. \A j \in DOMAIN typed' : typed'[j] # Interrupt => typed'[j].op = op
    BY <2>1, <1>1, <1>3, <1>5 DEF Placed
  <2>3. QED
    BY <2>2 DEF ConsoleInv, OnlyOwn
<1>13. QED
  BY <1>8, <1>9, <1>10, <1>11, <1>12 DEF ConsoleInv, OwnUnlessBehind,
     ShellIsFree

(* The invariant of the console is inductive.                               *)
LEMMA ConsoleStep ==
  ASSUME ConsoleInv, [ConsoleNext]_consoleVars
  PROVE  ConsoleInv'
<1>1. CASE UNCHANGED consoleVars
  <2>1. /\ hostPc' = hostPc /\ op' = op /\ answer' = answer /\ behind' = behind
        /\ typed' = typed /\ running' = running /\ serial' = serial
    BY <1>1 DEF consoleVars, hostVars, guestVars
  <2>2. QED
    BY <2>1 DEF ConsoleInv, HostTypes, GuestTypes, Ordered, NothingNewer, Typable, AskedOnce,
       Asked, OnlyOwn, HostState, OwnUnlessBehind, ShellIsFree
<1>2. CASE \E kind \in Kinds : Begin(kind)
  BY <1>2, ConsoleBegin
<1>3. CASE Answered \/ Recovered
  BY <1>3, ConsoleAnswered
<1>4. CASE GiveUp
  <2>1. CASE op.kind \in Recovering
    <3>1. Line(op, TRUE) = [op |-> op, back |-> TRUE]
      BY DEF Line
    <3>2. /\ hostPc = "waiting" /\ hostPc' = "recovering"
          /\ typed' = typed \o <<Interrupt, Line(op, TRUE)>>
          /\ op' = op /\ answer' = answer /\ running' = running /\ serial' = serial
          /\ behind' = behind
      BY <1>4, <2>1 DEF GiveUp
    <3>3. QED
      BY <3>1, <3>2, ConsoleRecovery
  <2>2. CASE op.kind \notin Recovering
    BY <1>4, <2>2, ConsoleLeft DEF GiveUp
  <2>3. QED
    BY <2>1, <2>2
<1>5. CASE GiveUpRecovery
  BY <1>5, ConsoleLeft DEF GiveUpRecovery, guestVars
<1>6. CASE TakeLine
  BY <1>6, ConsoleTake
<1>7. CASE Finish
  BY <1>7, ConsoleFinish
<1>8. CASE Interrupted
  BY <1>8, ConsoleInterrupted
<1>9. QED
  BY <1>1, <1>2, <1>3, <1>4, <1>5, <1>6, <1>7, <1>8 DEF ConsoleNext

(* The invariant holds at every time.                                       *)
THEOREM ConsoleInvariance ==
  ConsoleSpec => []ConsoleInv
<1>1. ConsoleInit => ConsoleInv
  BY ConsoleBegins
<1>2. ConsoleInv /\ [ConsoleNext]_consoleVars => ConsoleInv'
  BY ConsoleStep
<1>3. QED
  BY <1>1, <1>2, PTL DEF ConsoleSpec

(* The types, and the order of the lines on the console, for any kinds and  *)
(* any number of calls.                                                     *)
THEOREM ConsoleTypeCorrect ==
  ConsoleSpec => []ConsoleTypeOK
<1>1. ConsoleInv => ConsoleTypeOK
  BY Typing DEF ConsoleInv
<1>2. QED
  BY <1>1, ConsoleInvariance, PTL

(* A call's answer is its own, unless an earlier one's marker was missed.   *)
THEOREM AnswerIsOwnUnlessBehind ==
  ConsoleSpec => []OwnUnlessBehind
<1>1. ConsoleInv => OwnUnlessBehind
  BY DEF ConsoleInv
<1>2. QED
  BY <1>1, ConsoleInvariance, PTL

(* Between calls that missed nothing the shell is free and nothing is left  *)
(* to read.                                                                 *)
THEOREM FreeShell ==
  ConsoleSpec => []ShellIsFree
<1>1. ConsoleInv => ShellIsFree
  BY DEF ConsoleInv
<1>2. QED
  BY <1>1, ConsoleInvariance, PTL

=============================================================================
