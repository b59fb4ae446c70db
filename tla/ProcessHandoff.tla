--------------------------- MODULE ProcessHandoff ---------------------------
(***************************************************************************)
(* How the host finds the process of an application that crossed a         *)
(* privilege boundary (data/process_handoff.py): exactly one process with  *)
(* the executable, the user and the token of the launch, read field by     *)
(* field from a /proc that changes, and found the same in two scans.       *)
(***************************************************************************)
EXTENDS Naturals, Sequences

CONSTANTS
  Pids,
  Stages,     \* what a process is one after the other: which of its user, its
              \* executable and its environment are the wanted ones
  MaxBirths,  \* bound on the processes that appear
  None

Fields == {"uid", "exe", "token"}

(* A process does not return to a user, an executable or a token it left.   *)
ASSUME HandoffAssumption ==
  /\ Stages \in Seq(SUBSET Fields) /\ MaxBirths \in Nat
  /\ \A i, j, k \in DOMAIN Stages :
       i <= j /\ j <= k => Stages[i] \intersect Stages[k] \subseteq Stages[j]
  /\ None \notin Pids /\ None \notin Pids \X Nat
  /\ None \notin [start : Nat, stage : Nat, zombie : BOOLEAN]

VARIABLES
  proc,      \* /proc: the process of each PID
  births,    \* how many processes appeared: the start time of the last one
  pc, late,  \* where the script is; whether its deadline has passed
  left,      \* the listed PIDs still to read
  pid, start,  \* the process being read and its first reading of the start time
  matches,   \* identities found by this scan
  previous,  \* the only identity of the scan before, or None
  result,    \* the identity it answered with
  began,     \* history: identities exact when this scan began
  steady,    \* history: those of them that have been exact ever since
  settled    \* history: identities exact since the scan before this one began

procVars == <<proc, births>>
scriptVars == <<pc, late, left, pid, start, matches, previous, result>>
history == <<began, steady, settled>>
vars == <<procVars, scriptVars, history>>

Identity(p) == <<p, proc[p].start>>
IsExact(process) == ~process.zombie /\ Stages[process.stage] = Fields
Exact == {Identity(p) : p \in {q \in Pids : proc[q] # None /\ IsExact(proc[q])}}

Reading == {"stat", "status", "exe", "environ", "again"}
Ended == {"passed", "ambiguous", "not-found"}
Identities == Pids \X (1..births)

TypeOK ==
  /\ births \in 0..MaxBirths
  /\ proc \in [Pids -> [start : 1..births, stage : DOMAIN Stages, zombie : BOOLEAN]
                       \union {None}]
  /\ pc \in {"list", "next"} \union Reading \union Ended /\ late \in BOOLEAN
  /\ left \subseteq Pids /\ pid \in Pids \union {None} /\ start \in 0..births
  /\ matches \subseteq Identities /\ previous \in Identities \union {None}
  /\ result \in Identities \union {None}
  /\ began \union steady \union settled \subseteq Identities
  /\ pc \in Reading <=> pid # None
  /\ pc = "passed" <=> result # None

(* What runs before the script: processes of one moment, or none.           *)
Init ==
  /\ births \in {0, 1} /\ births <= MaxBirths
  /\ proc \in [Pids -> [start : 1..births, stage : DOMAIN Stages, zombie : {FALSE}]
                       \union {None}]
  /\ pc = "list" /\ late = FALSE /\ left = {} /\ pid = None /\ start = 0
  /\ matches = {} /\ previous = None /\ result = None
  /\ began = {} /\ steady = {} /\ settled = {}

-----------------------------------------------------------------------------
(* The processes of the guest.                                              *)

(* A child appears with what its parent is, or a PID is used again.         *)
Appear(p) ==
  /\ proc[p] = None /\ births < MaxBirths
  /\ births' = births + 1
  /\ \E stage \in DOMAIN Stages :
       proc' = [proc EXCEPT ![p] = [start |-> births', stage |-> stage, zombie |-> FALSE]]

(* It changes its user, or executes something else.                         *)
Advance(p) ==
  /\ proc[p] # None /\ ~proc[p].zombie
  /\ \E stage \in DOMAIN Stages :
       stage > proc[p].stage /\ proc' = [proc EXCEPT ![p].stage = stage]
  /\ UNCHANGED births

Exit(p) ==
  /\ proc[p] # None
  /\ \/ ~proc[p].zombie /\ proc' = [proc EXCEPT ![p].zombie = TRUE]
     \/ proc' = [proc EXCEPT ![p] = None]
  /\ UNCHANGED births

Guest ==
  /\ pc \notin Ended
  /\ \E p \in Pids : Appear(p) \/ Advance(p) \/ Exit(p)
  /\ steady' = steady \intersect Exact' /\ settled' = settled \intersect Exact'
  /\ UNCHANGED <<scriptVars, began>>

-----------------------------------------------------------------------------
(* The script.                                                              *)

List ==
  /\ pc = "list"
  /\ pc' = "next" /\ left' = {p \in Pids : proc[p] # None} /\ matches' = {}
  /\ began' = Exact /\ steady' = Exact /\ settled' = steady
  /\ UNCHANGED <<procVars, late, pid, start, previous, result>>

Scanning == UNCHANGED <<procVars, late, previous, result, history>>

Pick ==
  /\ pc = "next"
  /\ \E p \in left : pid' = p /\ left' = left \ {p}
  /\ pc' = "stat" /\ start' = 0
  /\ UNCHANGED matches /\ Scanning

(* A file is read; a process that went away, or is not the one, is left.    *)
Read(here, next, holds) ==
  /\ pc = here
  /\ IF holds THEN pc' = next /\ UNCHANGED pid ELSE pc' = "next" /\ pid' = None
  /\ UNCHANGED <<left, matches>> /\ Scanning

ReadStart ==
  /\ Read("stat", "status", proc[pid] # None)
  /\ start' = IF proc[pid] # None THEN proc[pid].start ELSE 0

(* Of a zombie, neither executable nor environment can be read.             *)
Live(field) == proc[pid] # None /\ ~proc[pid].zombie /\ field \in Stages[proc[pid].stage]

ReadStatus == Read("status", "exe", Live("uid")) /\ UNCHANGED start
ReadExe == Read("exe", "environ", Live("exe")) /\ UNCHANGED start
ReadEnvironment == Read("environ", "again", Live("token")) /\ UNCHANGED start

(* Mutant: that the PID is still the same process is taken for granted.     *)
ReadStartOnce ==
  /\ pc = "again" /\ pc' = "next" /\ pid' = None
  /\ matches' = IF proc[pid] # None THEN matches \union {Identity(pid)} ELSE matches
  /\ UNCHANGED <<left, start>> /\ Scanning

(* The start time once more: another process with the PID does not match.   *)
ReadStartAgain ==
  /\ pc = "again" /\ pc' = "next" /\ pid' = None
  /\ matches' = IF proc[pid] # None /\ proc[pid].start = start
                THEN matches \union {<<pid, start>>} ELSE matches
  /\ UNCHANGED <<left, start>> /\ Scanning

Several == \E one, other \in matches : one # other
Current == IF matches = {} THEN None ELSE CHOOSE only \in matches : TRUE

(* Mutant: the deadline goes first.                                         *)
VerdictInTime ==
  IF Several THEN "ambiguous"
  ELSE IF late THEN "not-found"
  ELSE IF Current # None /\ Current = previous THEN "passed" ELSE "list"

Verdict ==
  IF Several THEN "ambiguous"
  ELSE IF Current # None /\ Current = previous THEN "passed"
  ELSE IF late THEN "not-found" ELSE "list"

Conclude ==
  /\ pc = "next" /\ left = {}
  /\ pc' = Verdict
  /\ result' = IF Verdict = "passed" THEN Current ELSE None
  /\ previous' = IF Verdict \in {"passed", "ambiguous"} THEN previous ELSE Current
  /\ UNCHANGED <<procVars, late, left, pid, start, matches, history>>

DeadlinePasses ==
  /\ pc \notin Ended /\ ~late /\ late' = TRUE
  /\ UNCHANGED <<procVars, pc, left, pid, start, matches, previous, result, history>>

Script ==
  \/ List \/ Pick \/ ReadStart \/ ReadStatus \/ ReadExe \/ ReadEnvironment
  \/ ReadStartAgain \/ Conclude

Next == Guest \/ Script \/ DeadlinePasses

Spec == Init /\ [][Next]_vars

-----------------------------------------------------------------------------
(* Properties.                                                              *)

(* User, executable and token are read one after the other from a process   *)
(* that may change, exit or make room for another in between: yet the       *)
(* process that passes had all three when the second of the two scans       *)
(* began, and no other process has had them through all of that scan.       *)
PassedIsTheOne ==
  pc = "passed" => result \in began /\ steady \subseteq {result}

(* A process that had all three through the last two scans, however late    *)
(* they ended, is never reported as missing.                                *)
AbsenceIsReal == pc = "not-found" => settled = {}

=============================================================================
