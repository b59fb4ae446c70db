------------------------- MODULE ProcessScopeProofs -------------------------
(***************************************************************************)
(* What an "exited" verdict of the process scope is worth, for any number  *)
(* of processes and any interleaving with the two passes over /proc.       *)
(***************************************************************************)
EXTENDS ProcessScope, TLAPS

(* A running process of the group the supervised root leads.                *)
InGroup(p) == p \in launch /\ Running(p) /\ group[p] = Root

(* The part of TypeOK the argument needs.                                   *)
ProcessTypes ==
  /\ state \in [Pids -> {"free", "running", "zombie", "ended"}]
  /\ group \in [Pids -> Pids] /\ launch \subseteq Pids
  /\ state[Root] # "free"

(* Only the group of a leading root is named Root: nothing joins it later   *)
(* but by a fork.                                                          *)
RootLeads == \A p \in Pids : group[p] = Root => group[Root] = Root

(* From the second listing on, a process of the group is still to be read,  *)
(* still to be checked, or forked since.                                    *)
NoneForgotten ==
  /\ pc = "group" /\ group[Root] = Root => Root \in groups
  /\ pc = "group" => \A p \in Pids : InGroup(p) => p \in toRead \union scope \union bornLate
  /\ pc = "check" => \A p \in Pids : InGroup(p) => p \in unchecked \union bornLate
  /\ pc = "exited" => \A p \in Pids : InGroup(p) => p \in bornLate

Inv == ProcessTypes /\ RootLeads /\ NoneForgotten

LEMMA InitInv == Init => Inv
  BY PidsAssumption
  DEF Init, Inv, ProcessTypes, RootLeads, NoneForgotten

(* Forks are born late, and nothing else adds a process to the group.       *)
LEMMA ProcessesInv == Inv /\ Processes => Inv'
<1> SUFFICES ASSUME Inv, Processes PROVE Inv'
  OBVIOUS
<1> USE PidsAssumption DEF scanVars
<1>1. ASSUME NEW p \in Pids, NEW q \in Pids, Fork(p, q) PROVE Inv'
  <2>1. ProcessTypes' /\ RootLeads'
    BY <1>1 DEF Fork, Inv, ProcessTypes, RootLeads
  <2>2. pc \in {"group", "check", "exited"} =>
          \A r \in Pids : InGroup(r)' => r \in bornLate' \/ InGroup(r)
    BY <1>1 DEF Fork, Inv, ProcessTypes, InGroup, Running
  <2>3. bornLate \subseteq bornLate' /\ group'[Root] = group[Root]
    BY <1>1 DEF Fork, Inv, ProcessTypes, Running, RootLeads
  <2>4. NoneForgotten'
    BY <1>1, <2>2, <2>3 DEF Fork, Inv, NoneForgotten
  <2>5. QED
    BY <2>1, <2>4 DEF Inv
<1>2. ASSUME NEW p \in Pids, NewGroup(p) \/ Exit(p) \/ Reap(p) PROVE Inv'
  <2>1. ProcessTypes' /\ RootLeads' /\ group'[Root] = group[Root]
    BY <1>2 DEF NewGroup, Exit, Reap, Inv, ProcessTypes, RootLeads
  <2>2. \A r \in Pids : InGroup(r)' => InGroup(r)
    BY <1>2 DEF NewGroup, Exit, Reap, Inv, ProcessTypes, InGroup, Running
  <2>3. NoneForgotten'
    BY <1>2, <2>1, <2>2 DEF NewGroup, Exit, Reap, Inv, NoneForgotten
  <2>4. QED
    BY <2>1, <2>3 DEF Inv
<1>3. QED
  BY <1>1, <1>2 DEF Processes

(* The poll reads each listed process, and forgets only those that ended.   *)
LEMMA PollInv == Inv /\ Poll => Inv'
<1> SUFFICES ASSUME Inv, Poll PROVE Inv'
  OBVIOUS
<1> USE DEF processVars
<1>1. UNCHANGED processVars
  BY DEF Poll, Start, TreeRead, ReadRoot, GroupRead, ScopeExited, ReadParent, ReadGroup,
         CheckEnded, CheckAlive
<1>2. ProcessTypes' /\ RootLeads' /\ \A p \in Pids : InGroup(p)' <=> InGroup(p)
  BY <1>1 DEF Inv, ProcessTypes, RootLeads, InGroup, Running
<1>3. NoneForgotten'
  <2>1. CASE Start \/ TreeRead \/ \E p \in Pids : ReadParent(p) \/ CheckAlive(p)
    BY <2>1 DEF Start, TreeRead, ReadParent, CheckAlive, NoneForgotten
  <2>2. CASE ReadRoot
    <3>1. \A p \in Pids : InGroup(p) => p \in Listing
      BY DEF InGroup, Running, Listing, Visible
    <3>2. QED
      BY <2>2, <3>1, <1>1, <1>2 DEF ReadRoot, Groups, NoneForgotten
  <2>3. ASSUME NEW p \in Pids, ReadGroup(p) PROVE NoneForgotten'
    <3>1. InGroup(p) => p \in scope'
      BY <2>3 DEF ReadGroup, InGroup, Running, Visible, Inv, RootLeads, NoneForgotten
    <3>2. scope \subseteq scope' /\ toRead' = toRead \ {p} /\ pc' = "group"
      BY <2>3 DEF ReadGroup
    <3>3. QED
      BY <2>3, <3>1, <3>2, <1>1, <1>2 DEF ReadGroup, Inv, NoneForgotten
  <2>4. CASE GroupRead \/ ScopeExited
    BY <2>4, <1>2 DEF GroupRead, ScopeExited, Inv, NoneForgotten
  <2>5. ASSUME NEW p \in Pids, CheckEnded(p) PROVE NoneForgotten'
    BY <2>5, <1>2 DEF CheckEnded, Ended, InGroup, Inv, NoneForgotten
  <2>6. QED
    BY <2>1, <2>2, <2>3, <2>4, <2>5 DEF Poll
<1>4. QED
  BY <1>2, <1>3 DEF Inv

(* An "exited" verdict is wrong only about processes forked after the       *)
(* second pass listed /proc.                                                *)
THEOREM EndedUnlessLate == Spec => []EndedUnlessBornLate
<1>1. Inv /\ [Next]_vars => Inv'
  <2> SUFFICES ASSUME Inv, [Next]_vars PROVE Inv'
    OBVIOUS
  <2>1. CASE UNCHANGED vars
    BY <2>1 DEF vars, processVars, Inv, ProcessTypes, RootLeads, NoneForgotten, InGroup,
                Running
  <2>2. QED
    BY <2>1, ProcessesInv, PollInv DEF Next
<1>2. Inv => EndedUnlessBornLate
  BY DEF Inv, ProcessTypes, NoneForgotten, InGroup, EndedUnlessBornLate
<1>3. QED
  BY <1>1, <1>2, InitInv, PTL DEF Spec

-----------------------------------------------------------------------------
(* What a tree holds besides its roots has its parent in it: a set that is  *)
(* closed that way and holds the roots holds the tree.                      *)
LEMMA TreeWithin ==
  ASSUME NEW roots, NEW links, NEW s, roots \subseteq s,
         \A p \in DOMAIN links : links[p] \in s => p \in s
  PROVE  TreeOf(roots, links) \subseteq s
<1> DEFINE part == s \intersect (roots \union DOMAIN links)
<1>1. /\ part \in SUBSET (roots \union DOMAIN links)
      /\ roots \subseteq part
      /\ \A p \in DOMAIN links : links[p] \in part => p \in part
  OBVIOUS
<1>2. TreeOf(roots, links) \subseteq part
  BY <1>1 DEF TreeOf
<1>3. QED
  BY <1>2

(* Only the launch has a parent other than init and the group of its root,  *)
(* also among the PPid fields the poll has read; and what is left to check  *)
(* belongs to the verdict at hand.                                          *)
Lineage ==
  /\ Root \in launch
  /\ \A p \in Pids : parent[p] # InitPid => p \in launch
  /\ \A p \in DOMAIN ppid : ppid[p] # InitPid => p \in launch
  /\ \A p \in Pids : group[p] = Root => p \in launch
  /\ groups \subseteq {Root} /\ known \subseteq launch
  /\ pc \in {"idle", "tree", "root", "group"} => unchecked = {}

LineageInv == TypeOK /\ Lineage /\ NothingImported

LEMMA InitLineage == Init => LineageInv
<1> SUFFICES ASSUME Init PROVE LineageInv
  OBVIOUS
<1>1. DOMAIN ppid = {}
  BY DEF Init
<1>2. PICK leader \in {Root, Shell} :
        group = [p \in Pids |-> IF p = Root THEN leader ELSE Shell]
  BY DEF Init
<1>3. QED
  BY <1>1, <1>2, PidsAssumption DEF Init, LineageInv, TypeOK, Lineage, NothingImported

(* A fork makes its child one of the launch.                                *)
LEMMA ProcessesLineage == LineageInv /\ Processes => LineageInv'
<1> SUFFICES ASSUME LineageInv, Processes PROVE LineageInv'
  OBVIOUS
<1> USE PidsAssumption DEF scanVars, LineageInv
<1>1. ASSUME NEW p \in Pids, NEW q \in Pids, Fork(p, q) PROVE LineageInv'
  <2>1. TypeOK'
    BY <1>1 DEF Fork, TypeOK
  <2>2. Lineage' /\ NothingImported'
    BY <1>1 DEF Fork, TypeOK, Lineage, NothingImported
  <2>3. QED
    BY <2>1, <2>2
<1>2. ASSUME NEW p \in Pids, NewGroup(p) \/ Exit(p) \/ Reap(p) PROVE LineageInv'
  <2>1. TypeOK'
    BY <1>2 DEF NewGroup, Exit, Reap, TypeOK
  <2>2. Lineage' /\ NothingImported'
    BY <1>2 DEF NewGroup, Exit, Reap, TypeOK, Lineage, NothingImported
  <2>3. QED
    BY <2>1, <2>2
<1>3. QED
  BY <1>1, <1>2 DEF Processes

(* The tree and the group are read off the launch only.                     *)
LEMMA PollLineage == LineageInv /\ Poll => LineageInv'
<1> SUFFICES ASSUME LineageInv, Poll PROVE LineageInv'
  OBVIOUS
<1> USE PidsAssumption DEF processVars, LineageInv
<1>1. CASE Start
  <2>1. DOMAIN ppid' = {} /\ toRead' \subseteq Pids /\ known' \subseteq launch
    BY <1>1 DEF Start, Listing
  <2>2. QED
    BY <1>1, <2>1 DEF Start, TypeOK, Lineage, NothingImported
<1>2. ASSUME NEW p \in Pids, ReadParent(p) PROVE LineageInv'
  <2>1. \A q \in DOMAIN ppid' : q \in Pids /\ (ppid'[q] # InitPid => q \in launch)
    BY <1>2 DEF ReadParent, TypeOK, Lineage
  <2>2. QED
    BY <1>2, <2>1 DEF ReadParent, TypeOK, Lineage, NothingImported
<1>3. CASE TreeRead
  <2>1. Tree \subseteq launch
    <3>1. \A q \in DOMAIN ppid : ppid[q] \in launch => q \in launch
      BY DEF TypeOK, Lineage
    <3>2. QED
      BY <3>1, TreeWithin DEF Tree, Lineage
  <2>2. DOMAIN ppid' = {} /\ scope' \subseteq launch
    BY <1>3, <2>1 DEF TreeRead, Lineage
  <2>3. unchecked = {}
    BY <1>3 DEF TreeRead, Lineage
  <2>4. QED
    BY <1>3, <2>2, <2>3 DEF TreeRead, TypeOK, Lineage, NothingImported
<1>4. CASE ReadRoot
  BY <1>4 DEF ReadRoot, Groups, Listing, TypeOK, Lineage, NothingImported
<1>5. ASSUME NEW p \in Pids, ReadGroup(p) PROVE LineageInv'
  BY <1>5 DEF ReadGroup, TypeOK, Lineage, NothingImported
<1>6. CASE GroupRead \/ ScopeExited
  BY <1>6 DEF GroupRead, ScopeExited, TypeOK, Lineage, NothingImported
<1>7. ASSUME NEW p \in Pids, CheckEnded(p) \/ CheckAlive(p) PROVE LineageInv'
  BY <1>7 DEF CheckEnded, CheckAlive, TypeOK, Lineage, NothingImported
<1>8. QED
  BY <1>1, <1>2, <1>3, <1>4, <1>5, <1>6, <1>7 DEF Poll

(* Whatever forks, exits or is re-parented between two reads of /proc, the  *)
(* poll keeps to the launch.                                                *)
THEOREM Ancestry == Spec => []LineageInv
<1>1. LineageInv /\ [Next]_vars => LineageInv'
  <2> SUFFICES ASSUME LineageInv, [Next]_vars PROVE LineageInv'
    OBVIOUS
  <2>1. CASE UNCHANGED vars
    BY <2>1 DEF vars, processVars, LineageInv, TypeOK, Lineage, NothingImported
  <2>2. QED
    BY <2>1, ProcessesLineage, PollLineage DEF Next
<1>2. QED
  BY <1>1, InitLineage, PTL DEF Spec

(* The state of the processes and of the poll over them is well typed.      *)
THEOREM TypeCorrect == Spec => []TypeOK
  BY Ancestry, PTL DEF LineageInv

(* The scope never admits a process the launch did not fork, however many   *)
(* processes there are and however stale the PPid fields were.              *)
THEOREM NoneImported == Spec => []NothingImported
  BY Ancestry, PTL DEF LineageInv

=============================================================================
