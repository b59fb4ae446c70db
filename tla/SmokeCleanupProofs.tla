------------------------- MODULE SmokeCleanupProofs -------------------------
(***************************************************************************)
(* What a cleanup verdict is worth, and whom cleanup may touch, for any    *)
(* number of processes, any desktop and any windows opened meanwhile.      *)
(***************************************************************************)
EXTENDS SmokeCleanup, FiniteSetTheorems, SequenceTheorems, TLAPS

(* Removing one element of a sequence moves the later ones down by one.     *)
LEMMA RemoveAtProperties ==
  ASSUME NEW S, NEW s \in Seq(S), NEW i \in 1..Len(s)
  PROVE  /\ RemoveAt(s, i) \in Seq(S)
         /\ Len(RemoveAt(s, i)) = Len(s) - 1
         /\ \A k \in 1..(Len(s) - 1) : RemoveAt(s, i)[k] = IF k < i THEN s[k] ELSE s[k + 1]
<1>1. /\ SubSeq(s, 1, i - 1) \in Seq(S)
      /\ Len(SubSeq(s, 1, i - 1)) = i - 1
      /\ \A k \in 1..(i - 1) : SubSeq(s, 1, i - 1)[k] = s[k]
  <2>1. \A k \in 1..(i - 1) : s[k] \in S
    OBVIOUS
  <2>2. QED
    BY <2>1, SubSeqProperties
<1>2. /\ SubSeq(s, i + 1, Len(s)) \in Seq(S)
      /\ Len(SubSeq(s, i + 1, Len(s))) = Len(s) - i
      /\ \A k \in 1..(Len(s) - i) : SubSeq(s, i + 1, Len(s))[k] = s[i + k]
  <2>1. \A k \in (i + 1)..Len(s) : s[k] \in S
    OBVIOUS
  <2>2. QED
    BY <2>1, SubSeqProperties
<1> DEFINE a == SubSeq(s, 1, i - 1)
           b == SubSeq(s, i + 1, Len(s))
<1> HIDE DEF a, b
<1>3. /\ a \o b \in Seq(S)
      /\ Len(a \o b) = Len(s) - 1
      /\ \A k \in 1..(Len(s) - 1) : (a \o b)[k] = IF k < i THEN a[k] ELSE b[k - (i - 1)]
  <2>1. a \in Seq(S) /\ b \in Seq(S) /\ Len(a) = i - 1 /\ Len(b) = Len(s) - i
    BY <1>1, <1>2 DEF a, b
  <2>2. /\ a \o b \in Seq(S) /\ Len(a \o b) = Len(a) + Len(b)
        /\ \A k \in 1..(Len(a) + Len(b)) :
             (a \o b)[k] = IF k <= Len(a) THEN a[k] ELSE b[k - Len(a)]
    BY <2>1, ConcatProperties
  <2>3. QED
    BY <2>1, <2>2
<1>4. ASSUME NEW k \in 1..(Len(s) - 1)
      PROVE  (a \o b)[k] = IF k < i THEN s[k] ELSE s[k + 1]
  <2>1. CASE k < i
    BY <2>1, <1>1, <1>3 DEF a
  <2>2. CASE k >= i
    <3>1. k - (i - 1) \in 1..(Len(s) - i) /\ i + (k - (i - 1)) = k + 1
      BY <2>2
    <3>2. b[k - (i - 1)] = s[k + 1]
      BY <3>1, <1>2 DEF b
    <3>3. (a \o b)[k] = IF k < i THEN a[k] ELSE b[k - (i - 1)]
      BY <1>3
    <3>4. ~(k < i)
      BY <2>2
    <3>5. QED
      BY <3>2, <3>3, <3>4, Zenon
  <2>3. k < i \/ k >= i
    OBVIOUS
  <2>4. QED
    BY <2>1, <2>2, <2>3
<1>5. QED
  BY <1>3, <1>4 DEF RemoveAt, a, b

(* A permutation of some of the elements of a finite set.                   *)
LEMMA Permutation ==
  ASSUME NEW S, IsFiniteSet(S), NEW p \in SetToAllKPermutations(S)
  PROVE  p \in Seq(S)
<1>1. PICK T \in SUBSET S : p \in SetToSeqs(T)
  BY DEF SetToAllKPermutations
<1>2. Cardinality(T) \in Nat
  BY FS_Subset, FS_CardinalityType
<1>3. p \in [1..Cardinality(T) -> T]
  BY <1>1 DEF SetToSeqs
<1>4. p \in Seq(T)
  BY <1>2, <1>3
<1>5. QED
  BY <1>4

(* A set that holds the roots and every process whose parent it holds       *)
(* bounds the tree.                                                         *)
LEMMA TreeWithin ==
  ASSUME NEW roots, NEW links, NEW s, roots \subseteq s,
         \A p \in DOMAIN links : links[p] \in s => p \in s
  PROVE  TreeOf(roots, links) \subseteq s
<1> DEFINE part == s \intersect (roots \union DOMAIN links)
<1>1. /\ part \in SUBSET (roots \union DOMAIN links)
      /\ roots \subseteq part
      /\ \A p \in DOMAIN links : links[p] \in part => p \in part
  OBVIOUS
<1>2. TreeOf(roots, links) \subseteq part
  BY <1>1 DEF TreeOf
<1>3. QED
  BY <1>2

(* The tree holds its roots and the children of what it holds.              *)
LEMMA TreeHolds ==
  ASSUME NEW roots, NEW links
  PROVE  /\ roots \subseteq TreeOf(roots, links)
         /\ \A p \in DOMAIN links : links[p] \in TreeOf(roots, links) => p \in TreeOf(roots, links)
  BY DEF TreeOf

-----------------------------------------------------------------------------
(* The processes of the desktop have their parents there, and the host owns *)
(* none of them.                                                            *)
DesktopApart ==
  /\ \A p \in Desktop : parent[p] \in Desktop \union {InitPid}
  /\ owned \intersect Desktop = {} /\ group \intersect Desktop = {}

(* Nothing protected remains, but an X11 window of unknown PID.             *)
Unprotected ==
  /\ listed \intersect protected = {}
  /\ probe = "judge" => clients \intersect protected \subseteq unread

(* What the host read of its PIDs stays true: the dead do not come back.    *)
VerdictKnown ==
  /\ ownedGone => owned \intersect alive = {}
  /\ status = "passed" => host = "done" /\ ownedGone
  /\ status = "passed" /\ ~degraded => probe = "ended" /\ outcome = "passed"
  /\ probe = "ended" => outcome # "none" /\ host \in {"probe", "done"}
  /\ outcome # "none" => probe = "ended"
  /\ host = "done" => probe = "ended"
  /\ host \in {"term", "kill", "verify"} => probe = "idle"

(* The application is at an index the walk still reads.                     *)
Ahead(p) == \E j \in index..count : j \in DOMAIN registry /\ registry[j] = p

(* The new windows that the last walk, and the last read of X11, had to see. *)
Due    == (open \intersect Accessible) \ protected
DueX11 == (open \intersect OnX11) \ protected

(* While the walk is on, a window it had to see is seen, or ahead of it,    *)
(* unless it opened or slipped past it; and so it is when the walk is over. *)
ReadIsFresh ==
  /\ probe = "walk" =>
       \A p \in Due : p \in listed \union reopened \union slipped \/ Ahead(p)
  /\ probe \in {"clients", "judge"} => Due \subseteq listed \union reopened \union slipped
  /\ probe = "judge" /\ ~blind => DueX11 \subseteq clients \union reopened
  /\ outcome = "passed" => /\ Due \subseteq reopened \union slipped
                           /\ ~blind => DueX11 \subseteq reopened

Inv == TypeOK /\ DesktopApart /\ Unprotected /\ VerdictKnown /\ ReadIsFresh

LEMMA InitInv == Init => Inv
<1> SUFFICES ASSUME Init PROVE Inv
  OBVIOUS
<1> DEFINE helpers == Procs \ ({Launched} \union Desktop)
           orphaned(p) == IF p \in helpers /\ Launched \in alive THEN Launched ELSE InitPid
<1> USE ProcsAssumption
<1>1. /\ parent = [p \in Procs |-> IF p \in Desktop THEN DesktopParent[p] ELSE orphaned(p)]
      /\ group \in {{Launched} \union members : members \in SUBSET helpers}
      /\ stubborn \in SUBSET helpers
      /\ owned \in {{Launched}} \union {{Launched, p} : p \in helpers}
  BY DEF Init
<1>2. alive \subseteq Procs /\ open \subseteq alive /\ protected \subseteq Desktop
  BY DEF Init
<1>3. group \subseteq Procs \ Desktop /\ owned \subseteq Procs \ Desktop
  BY <1>1
<1>4. \A p \in Desktop : parent[p] \in Desktop \union {InitPid}
  BY <1>1
<1>5. parent \in [Procs -> Procs \union {InitPid}]
  <2>1. \A p \in Procs : orphaned(p) \in Procs \union {InitPid}
    OBVIOUS
  <2> HIDE DEF orphaned
  <2>2. QED
    BY <1>1, <2>1
<1>6. registry \in Seq(Procs) /\ open \intersect Accessible \subseteq ToSet(registry)
  <2> DEFINE T == Accessible \intersect alive
  <2>1. registry \in SetToAllKPermutations(T) /\ T \subseteq Procs /\ IsFiniteSet(T)
    BY <1>2, FS_Subset DEF Init
  <2> HIDE DEF T
  <2>2. registry \in Seq(T)
    BY <2>1, Permutation
  <2>3. registry \in Seq(Procs)
    BY <2>1, <2>2
  <2>4. open \intersect Accessible \subseteq ToSet(registry)
    BY DEF Init
  <2>5. QED
    BY <2>3, <2>4
<1>7. TypeOK
  <2>1. /\ display \in Displays /\ stubborn \subseteq Procs
        /\ listed = {} /\ clients = {} /\ unread = {} /\ reopened = {} /\ slipped = {}
        /\ ownedGone \in BOOLEAN /\ late \in BOOLEAN /\ degraded \in BOOLEAN /\ blind \in BOOLEAN
        /\ host = "term" /\ probe = "idle" /\ round = 0 /\ index = 1 /\ count = 0
        /\ outcome = "none" /\ status = "none"
    BY <1>1 DEF Init
  <2>2. QED
    BY <1>2, <1>3, <1>5, <1>6, <2>1 DEF TypeOK, Outcomes
<1>8. QED
  BY <1>3, <1>4, <1>7 DEF Init, Inv, DesktopApart, Unprotected, VerdictKnown, ReadIsFresh

-----------------------------------------------------------------------------
(* Who may be killed.                                                      *)

(* The trees and the group of what the host owns hold nothing of the        *)
(* desktop.                                                                 *)
LEMMA OwnedApart ==
  ASSUME TypeOK, DesktopApart
  PROVE  OwnedTree \union OwnedGroup \subseteq Procs \ Desktop
<1> DEFINE links == [p \in alive |-> parent[p]]
<1>1. \A p \in DOMAIN links : links[p] \in Procs \ Desktop => p \in Procs \ Desktop
  BY ProcsAssumption DEF TypeOK, DesktopApart
<1>2. owned \subseteq Procs \ Desktop
  BY DEF TypeOK, DesktopApart
<1> HIDE DEF links
<1>3. TreeOf(owned, links) \subseteq Procs \ Desktop
  BY <1>1, <1>2, TreeWithin
<1>4. QED
  BY <1>3 DEF OwnedTree, OwnedGroup, links, TypeOK, DesktopApart

(* The trees of what remains hold of the desktop what descends from a stray *)
(* process.                                                                 *)
LEMMA ResidueIsStray ==
  ASSUME TypeOK, DesktopApart, Unprotected, probe = "judge"
  PROVE  ResidualTree \intersect Desktop \subseteq TreeOf(Strays, Links)
<1> DEFINE within == (Procs \ Desktop) \union TreeOf(Strays, Links)
           roots  == listed \union (clients \ unread)
<1>1. roots \subseteq within
  <2>1. roots \subseteq Procs /\ roots \intersect protected = {}
    BY ProcsAssumption DEF TypeOK, Unprotected, OnX11
  <2>2. roots \intersect Desktop \subseteq Strays
    BY <2>1 DEF Strays, remaining
  <2>3. Strays \subseteq TreeOf(Strays, Links)
    BY TreeHolds
  <2> HIDE DEF roots
  <2>4. QED
    BY <2>1, <2>2, <2>3
<1>2. ASSUME NEW p \in DOMAIN Links, Links[p] \in within PROVE p \in within
  <2>1. p \in alive /\ p \in Procs /\ Links[p] = parent[p]
    BY DEF Links, TypeOK
  <2>2. CASE Links[p] \in TreeOf(Strays, Links)
    <3>1. p \in TreeOf(Strays, Links)
      BY <2>2, TreeHolds
    <3>2. QED
      BY <3>1
  <2>3. CASE Links[p] \in Procs \ Desktop
    BY <2>1, <2>3, ProcsAssumption DEF DesktopApart
  <2>4. QED
    BY <1>2, <2>2, <2>3
<1> HIDE DEF within, roots
<1>3. TreeOf(roots, Links) \subseteq within
  BY <1>1, <1>2, TreeWithin
<1>4. QED
  BY <1>3 DEF ResidualTree, within, roots

(* Whoever dies takes windows along and leaves orphans to init.             *)
LEMMA DyingTypes ==
  ASSUME TypeOK, DesktopApart, NEW dead, Die(dead)
  PROVE  /\ alive' \subseteq alive /\ open' \subseteq open /\ open' \subseteq alive'
         /\ parent' \in [Procs -> Procs \union {InitPid}]
         /\ \A p \in Desktop : parent'[p] \in Desktop \union {InitPid}
         /\ UNCHANGED <<display, protected, group, stubborn, registry>>
  BY ProcsAssumption DEF TypeOK, DesktopApart, Die

(* Closing windows leaves the processes as they are.                        *)
LEMMA ClosingTypes ==
  ASSUME TypeOK, NEW closed, Close(closed)
  PROVE  /\ open' \subseteq open /\ open' \subseteq alive'
         /\ UNCHANGED <<display, protected, alive, parent, group, stubborn, registry>>
  BY DEF TypeOK, Close

(* When windows only go and no read goes on, the read stays as fresh as it  *)
(* was.                                                                     *)
LEMMA FewerWindows ==
  ASSUME ReadIsFresh, open' \subseteq open, UNCHANGED <<display, protected, registry>>,
         UNCHANGED <<probe, walkVars, x11Vars, outcome, reopened>>
  PROVE  ReadIsFresh'
<1>1. Due' \subseteq Due /\ DueX11' \subseteq DueX11 /\ \A p : Ahead(p)' <=> Ahead(p)
  BY DEF Due, DueX11, Accessible, OnX11, Ahead, walkVars
<1>2. QED
  BY <1>1 DEF ReadIsFresh, walkVars, x11Vars

-----------------------------------------------------------------------------
(* One lemma for the host, two for the probe, one for the environment.      *)

LEMMA HostInv == Inv /\ Host => Inv'
<1> SUFFICES ASSUME Inv, Host PROVE Inv'
  OBVIOUS
<1> USE DEF Inv
<1>1. CASE TermOwned \/ KillOwned
  <2>1. PICK dead : Die(dead)
    BY <1>1 DEF TermOwned, KillOwned
  <2>2. /\ alive' \subseteq alive /\ open' \subseteq open /\ open' \subseteq alive'
        /\ parent' \in [Procs -> Procs \union {InitPid}]
        /\ \A p \in Desktop : parent'[p] \in Desktop \union {InitPid}
        /\ UNCHANGED <<display, protected, group, stubborn, registry>>
    BY <2>1, DyingTypes
  <2>3. /\ UNCHANGED <<owned, ownedGone, status, degraded>>
        /\ UNCHANGED <<probe, late, round, walkVars, x11Vars, outcome, reopened>>
        /\ host \in {"term", "kill"} /\ host' \in {"kill", "verify"}
    BY <1>1 DEF TermOwned, KillOwned, probeVars
  <2>4. TypeOK' /\ DesktopApart' /\ Unprotected'
    BY <2>2, <2>3 DEF TypeOK, DesktopApart, Unprotected, walkVars, x11Vars, Accessible, OnX11,
                      Outcomes
  <2>5. VerdictKnown'
    BY <2>2, <2>3 DEF VerdictKnown
  <2>6. ReadIsFresh'
    BY <2>2, <2>3, FewerWindows
  <2>7. QED
    BY <2>4, <2>5, <2>6
<1>2. CASE KillInterrupted \/ Verify \/ Decide
  <2>1. UNCHANGED <<processVars, owned, late, round, walkVars, x11Vars, outcome, reopened>>
    BY <1>2 DEF KillInterrupted, Verify, Decide, probeVars
  <2>2. TypeOK' /\ DesktopApart' /\ Unprotected'
    <3>1. /\ ownedGone' \in BOOLEAN /\ degraded' \in BOOLEAN /\ status' \in Outcomes
          /\ host' \in {"verify", "probe", "done"}
          /\ probe' \in {probe, "read"}
      BY <1>2 DEF KillInterrupted, Verify, Decide, TypeOK, Outcomes, probeVars
    <3>2. QED
      BY <2>1, <3>1 DEF TypeOK, DesktopApart, Unprotected, processVars, walkVars, x11Vars,
                        Accessible, OnX11
  <2>3. VerdictKnown'
    <3>1. CASE KillInterrupted
      BY <3>1 DEF KillInterrupted, VerdictKnown, processVars, probeVars
    <3>2. CASE Verify
      BY <3>2 DEF Verify, VerdictKnown, processVars
    <3>3. CASE Decide
      BY <3>3 DEF Decide, VerdictKnown, processVars, probeVars, TypeOK, Outcomes
    <3>4. QED
      BY <1>2, <3>1, <3>2, <3>3
  <2>4. ReadIsFresh'
    <3>1. CASE KillInterrupted \/ Decide
      BY <2>1, <3>1, FewerWindows DEF KillInterrupted, Decide, processVars, probeVars
    <3>2. CASE Verify
      <4>1. probe' = "read" /\ outcome' = "none"
        BY <2>1, <3>2 DEF Verify, VerdictKnown
      <4>2. QED
        BY <4>1 DEF ReadIsFresh
    <3>3. QED
      BY <1>2, <3>1, <3>2
  <2>5. QED
    BY <2>2, <2>3, <2>4
<1>3. QED
  BY <1>1, <1>2 DEF Host

(* The walk over the registry and what ends it.                             *)
LEMMA WalkInv ==
  Inv /\ (StartWalk \/ ReadApp \/ EndWalk \/ Truncated \/ Refused) => Inv'
<1> SUFFICES ASSUME Inv, StartWalk \/ ReadApp \/ EndWalk \/ Truncated \/ Refused PROVE Inv'
  OBVIOUS
<1> USE DEF Inv
<1>1. CASE StartWalk
  <2>1. /\ UNCHANGED <<processVars, hostVars, late, round, outcome, clients>>
        /\ probe = "read" /\ probe' = "walk" /\ index' = 1 /\ count' = Len(registry)
        /\ listed' = {} /\ unread' = {} /\ blind' = FALSE /\ reopened' = {} /\ slipped' = {}
    BY <1>1 DEF StartWalk
  <2>2. TypeOK' /\ DesktopApart' /\ Unprotected' /\ VerdictKnown'
    <3>1. Len(registry) \in Nat /\ 1 \in Nat
      BY DEF TypeOK
    <3>2. TypeOK'
      BY <2>1, <3>1 DEF TypeOK, processVars, hostVars, Accessible, OnX11
    <3>3. QED
      BY <2>1, <3>2 DEF DesktopApart, Unprotected, VerdictKnown, processVars, hostVars
  <2>3. ASSUME NEW p \in Due' PROVE Ahead(p)'
    <3>1. p \in ToSet(registry)
      BY <2>1 DEF Due, TypeOK, Accessible, processVars
    <3>2. PICK j \in DOMAIN registry : registry[j] = p
      BY <3>1 DEF ToSet
    <3>3. j \in 1..Len(registry)
      BY <3>2 DEF TypeOK
    <3>4. QED
      BY <2>1, <3>2, <3>3 DEF Ahead, processVars
  <2>4. outcome' # "passed"
    BY <2>1 DEF VerdictKnown
  <2>5. ReadIsFresh'
    BY <2>1, <2>3, <2>4 DEF ReadIsFresh
  <2>6. QED
    BY <2>2, <2>5
<1>2. CASE ReadApp
  <2> DEFINE read == {registry[i] : i \in {index} \intersect DOMAIN registry}
  <2>1. /\ UNCHANGED <<processVars, hostVars, late, round, outcome, x11Vars, reopened>>
        /\ UNCHANGED <<count, slipped>>
        /\ probe = "walk" /\ probe' = "walk" /\ index' = index + 1
        /\ listed' = listed \union (NewWindows(open, {}) \intersect read)
    BY <1>2 DEF ReadApp
  <2>2. NewWindows(open, {}) = open \ protected
    BY DEF NewWindows
  <2> HIDE DEF read
  <2>3. TypeOK' /\ DesktopApart' /\ Unprotected' /\ VerdictKnown'
    BY <2>1, <2>2 DEF TypeOK, DesktopApart, Unprotected, VerdictKnown, processVars, hostVars,
                      x11Vars, Accessible, OnX11
  <2>4. ASSUME NEW p \in Due', p \notin (listed \union reopened \union slipped)'
        PROVE  Ahead(p)'
    <3>1. p \in Due /\ p \notin listed \union reopened \union slipped
      BY <2>1, <2>4 DEF Due, Accessible, processVars
    <3>2. PICK j \in index..count : j \in DOMAIN registry /\ registry[j] = p
      BY <2>1, <3>1 DEF ReadIsFresh, Ahead
    <3>3. j # index
      BY <2>1, <2>2, <2>4, <3>1, <3>2 DEF Due, read
    <3>4. j \in index'..count'
      BY <2>1, <3>2, <3>3 DEF TypeOK
    <3>5. QED
      BY <2>1, <3>2, <3>4 DEF Ahead, processVars
  <2>5. ReadIsFresh'
    BY <2>1, <2>4 DEF ReadIsFresh, VerdictKnown
  <2>6. QED
    BY <2>3, <2>5
<1>3. CASE EndWalk
  <2>1. /\ UNCHANGED <<processVars, hostVars, late, round, outcome, x11Vars, reopened>>
        /\ UNCHANGED <<listed, slipped>> /\ index' = 1 /\ count' = 0
        /\ probe = "walk" /\ index > count /\ probe' \in {"close", "clients"}
    BY <1>3 DEF EndWalk
  <2>2. TypeOK' /\ DesktopApart' /\ Unprotected' /\ VerdictKnown'
    BY <2>1 DEF TypeOK, DesktopApart, Unprotected, VerdictKnown, processVars, hostVars, x11Vars,
                Accessible, OnX11
  <2>3. \A p : ~Ahead(p)
    BY <2>1 DEF Ahead, TypeOK
  <2>4. Due \subseteq listed \union reopened \union slipped
    BY <2>1, <2>3 DEF ReadIsFresh
  <2>5. Due' = Due
    BY <2>1 DEF Due, Accessible, processVars
  <2>6. ReadIsFresh'
    BY <2>1, <2>4, <2>5 DEF ReadIsFresh, VerdictKnown
  <2>7. QED
    BY <2>2, <2>6
<1>4. CASE Truncated \/ Refused
  <2>1. /\ UNCHANGED <<processVars, hostVars, late, round, walkVars, x11Vars, reopened>>
        /\ probe \notin {"idle", "ended"} /\ probe' = "ended" /\ outcome' = "inconclusive"
    BY <1>4 DEF Truncated, Refused, ProbeEnds
  <2>2. TypeOK' /\ DesktopApart' /\ Unprotected' /\ VerdictKnown'
    BY <2>1 DEF TypeOK, DesktopApart, Unprotected, VerdictKnown, processVars, hostVars, walkVars,
                x11Vars, Accessible, OnX11, Outcomes
  <2>3. ReadIsFresh'
    BY <2>1 DEF ReadIsFresh
  <2>4. QED
    BY <2>2, <2>3
<1>5. QED
  BY <1>1, <1>2, <1>3, <1>4

(* Every read of X11 lists what is new on it, unless it fails.              *)
LEMMA X11Reads ==
  ASSUME TypeOK, ReadX11
  PROVE  /\ blind' \in BOOLEAN /\ unread' \subseteq OnX11
         /\ X11Windows(unread', blind') \subseteq open \intersect OnX11
         /\ X11Windows(unread', blind') \intersect protected \subseteq unread'
         /\ ~blind' => DueX11 \subseteq X11Windows(unread', blind')
<1>1. blind' \in BOOLEAN /\ unread' \subseteq OnX11
  BY DEF ReadX11
<1>2. QED
  BY <1>1 DEF X11Windows, NewWindows, DueX11

(* The other steps of the probe.                                            *)
LEMMA RequestInv ==
  Inv /\ (CloseWindows \/ CloseX11Windows \/ ForceX11 \/ TermResidue \/ KillResidue) => Inv'
<1> SUFFICES ASSUME Inv,
                    CloseWindows \/ CloseX11Windows \/ ForceX11 \/ TermResidue \/ KillResidue
             PROVE  Inv'
  OBVIOUS
<1> USE DEF Inv
<1>1. /\ alive' \subseteq alive /\ open' \subseteq open /\ open' \subseteq alive'
      /\ parent' \in [Procs -> Procs \union {InitPid}]
      /\ \A p \in Desktop : parent'[p] \in Desktop \union {InitPid}
      /\ UNCHANGED <<display, protected, group, stubborn, registry>>
  <2>1. CASE CloseWindows \/ CloseX11Windows
    <3>1. PICK closed : Close(closed)
      BY <2>1 DEF CloseWindows, CloseX11Windows
    <3>2. QED
      BY <3>1, ClosingTypes DEF TypeOK, DesktopApart
  <2>2. CASE ForceX11 \/ TermResidue \/ KillResidue
    <3>1. PICK dead : Die(dead)
      BY <2>2 DEF ForceX11, TermResidue, KillResidue
    <3>2. QED
      BY <3>1, DyingTypes
  <2>3. QED
    BY <2>1, <2>2
<1>2. /\ UNCHANGED <<late, outcome, hostVars>> /\ probe \in {"close", "x11", "judge"}
      /\ round' \in 0..4
  BY DEF CloseWindows, CloseX11Windows, ForceX11, TermResidue, KillResidue, TypeOK
<1>3. blind' \in BOOLEAN /\ unread' \subseteq OnX11
  BY X11Reads DEF CloseWindows, CloseX11Windows, ForceX11, TermResidue, KillResidue, TypeOK,
                  x11Vars
<1>4. \/ TermResidue /\ UNCHANGED <<probe, walkVars, x11Vars, reopened>>
      \/ Forget /\ probe' \in {"x11", "read"}
      \/ UNCHANGED <<walkVars, clients, reopened>> /\ probe' = "read"
  BY DEF CloseWindows, CloseX11Windows, ForceX11, TermResidue, KillResidue
<1>5. DesktopApart' /\ VerdictKnown'
  BY <1>1, <1>2, <1>4 DEF DesktopApart, VerdictKnown, hostVars
<1>6. /\ index' \in Nat /\ count' \in Nat /\ listed' \subseteq listed /\ clients' \subseteq clients
      /\ reopened' \subseteq Procs /\ slipped' \subseteq Procs
      /\ probe' \in {"x11", "read", "judge"}
  BY <1>2, <1>4 DEF Forget, TypeOK, walkVars, x11Vars, TermResidue
<1>7. TypeOK'
  BY <1>1, <1>2, <1>3, <1>6 DEF TypeOK, hostVars, Accessible, OnX11
<1>8. Unprotected'
  <2>1. probe' = "judge" => UNCHANGED <<probe, clients, unread>>
    BY <1>4 DEF x11Vars
  <2>2. QED
    BY <1>1, <1>6, <2>1 DEF Unprotected
<1>9. ReadIsFresh'
  <2>1. CASE UNCHANGED <<probe, walkVars, x11Vars, reopened>>
    BY <1>1, <1>2, <2>1, FewerWindows
  <2>2. CASE probe' \in {"x11", "read"}
    BY <1>2, <2>2 DEF ReadIsFresh, VerdictKnown
  <2>3. QED
    BY <1>4, <2>1, <2>2
<1>10. QED
  BY <1>5, <1>7, <1>8, <1>9

(* The read of X11 and what the probe makes of both lists.                  *)
LEMMA JudgeInv ==
  Inv /\ (ReadClients \/ NothingRemains \/ LookAgain \/ WindowsRemain) => Inv'
<1> SUFFICES ASSUME Inv, ReadClients \/ NothingRemains \/ LookAgain \/ WindowsRemain PROVE Inv'
  OBVIOUS
<1> USE DEF Inv
<1>1. CASE ReadClients
  <2>1. /\ UNCHANGED <<processVars, hostVars, late, round, walkVars, outcome, reopened>>
        /\ clients' = X11Windows(unread', blind') /\ probe = "clients" /\ probe' = "judge"
        /\ ReadX11
    BY <1>1 DEF ReadClients
  <2>2. /\ blind' \in BOOLEAN /\ unread' \subseteq OnX11
        /\ clients' \subseteq open \intersect OnX11
        /\ clients' \intersect protected \subseteq unread'
        /\ ~blind' => DueX11 \subseteq clients'
    BY <2>1, X11Reads
  <2>3. TypeOK' /\ DesktopApart' /\ Unprotected' /\ VerdictKnown'
    BY <2>1, <2>2 DEF TypeOK, DesktopApart, Unprotected, VerdictKnown, processVars, hostVars,
                      walkVars, Accessible, OnX11
  <2>4. Due' = Due /\ DueX11' = DueX11
    BY <2>1 DEF Due, DueX11, Accessible, OnX11, processVars
  <2>5. ReadIsFresh'
    BY <2>1, <2>2, <2>4 DEF ReadIsFresh, VerdictKnown, walkVars
  <2>6. QED
    BY <2>3, <2>5
<1>2. CASE NothingRemains
  <2>1. /\ UNCHANGED <<processVars, hostVars, late, round, walkVars, x11Vars, reopened>>
        /\ probe = "judge" /\ listed = {} /\ clients = {}
        /\ probe' = "ended" /\ outcome' = "passed"
    BY <1>2 DEF NothingRemains, ProbeEnds, remaining
  <2>2. TypeOK' /\ DesktopApart' /\ Unprotected' /\ VerdictKnown'
    BY <2>1 DEF TypeOK, DesktopApart, Unprotected, VerdictKnown, processVars, hostVars, walkVars,
                x11Vars, Accessible, OnX11, Outcomes
  <2>3. Due' = Due /\ DueX11' = DueX11
    BY <2>1 DEF Due, DueX11, Accessible, OnX11, processVars
  <2>4. ReadIsFresh'
    BY <2>1, <2>3 DEF ReadIsFresh, walkVars, x11Vars
  <2>5. QED
    BY <2>2, <2>4
<1>3. CASE LookAgain
  <2>1. /\ UNCHANGED <<processVars, hostVars, late, round, unread, blind, outcome>>
        /\ Forget /\ probe = "judge" /\ probe' = "read"
    BY <1>3 DEF LookAgain
  <2>2. TypeOK' /\ DesktopApart' /\ Unprotected' /\ VerdictKnown'
    BY <2>1 DEF TypeOK, DesktopApart, Unprotected, VerdictKnown, processVars, hostVars, Forget,
                Accessible, OnX11
  <2>3. ReadIsFresh'
    BY <2>1 DEF ReadIsFresh, VerdictKnown
  <2>4. QED
    BY <2>2, <2>3
<1>4. CASE WindowsRemain
  <2>1. /\ UNCHANGED <<processVars, hostVars, late, round, walkVars, x11Vars, reopened>>
        /\ probe = "judge" /\ probe' = "ended" /\ outcome' = "failed"
    BY <1>4 DEF WindowsRemain, ProbeEnds
  <2>2. TypeOK' /\ DesktopApart' /\ Unprotected' /\ VerdictKnown'
    BY <2>1 DEF TypeOK, DesktopApart, Unprotected, VerdictKnown, processVars, hostVars, walkVars,
                x11Vars, Accessible, OnX11, Outcomes
  <2>3. ReadIsFresh'
    BY <2>1 DEF ReadIsFresh
  <2>4. QED
    BY <2>2, <2>3
<1>5. QED
  BY <1>1, <1>2, <1>3, <1>4

LEMMA ProbeInv == Inv /\ Probe => Inv'
  BY WalkInv, RequestInv, JudgeInv DEF Probe

(* The registry's later applications move down: what a walk has yet to read *)
(* stays ahead of it, or slips past it.                                     *)
LEMMA DeregisterInv ==
  ASSUME Inv, NEW i \in DOMAIN registry, Deregister(i)
  PROVE  Inv'
<1> USE DEF Inv
<1>1. /\ UNCHANGED <<display, protected, alive, parent, group, stubborn, open>>
      /\ UNCHANGED <<probe, late, round, index, count, listed, x11Vars, outcome, hostVars>>
      /\ UNCHANGED reopened
      /\ registry[i] \notin open /\ registry' = RemoveAt(registry, i)
      /\ slipped' = IF probe = "walk" /\ i < index /\ index \in DOMAIN registry \intersect 1..count
                    THEN slipped \union {registry[index]} ELSE slipped
  BY DEF Deregister
<1>2. registry \in Seq(Procs) /\ i \in 1..Len(registry)
  BY DEF TypeOK
<1>3. /\ registry' \in Seq(Procs) /\ Len(registry') = Len(registry) - 1
      /\ \A k \in 1..(Len(registry) - 1) :
           registry'[k] = IF k < i THEN registry[k] ELSE registry[k + 1]
  BY <1>1, <1>2, RemoveAtProperties
<1>4. ASSUME NEW k \in 1..Len(registry), registry[k] \in open
      PROVE  IF k < i THEN k \in DOMAIN registry' /\ registry'[k] = registry[k]
                      ELSE k - 1 \in DOMAIN registry' /\ registry'[k - 1] = registry[k]
  <2>1. k # i
    BY <1>1, <1>4
  <2>2. DOMAIN registry' = 1..(Len(registry) - 1)
    BY <1>3
  <2>3. CASE k < i
    BY <1>2, <1>3, <2>2, <2>3
  <2>4. CASE k > i
    <3>1. k - 1 \in 1..(Len(registry) - 1) /\ ~(k - 1 < i) /\ (k - 1) + 1 = k /\ ~(k < i)
      BY <1>2, <2>4
    <3>2. registry'[k - 1] = registry[(k - 1) + 1]
      BY <1>3, <3>1
    <3>3. QED
      BY <2>2, <3>1, <3>2
  <2>5. QED
    BY <1>2, <2>1, <2>3, <2>4
<1>5. open \intersect Accessible \subseteq ToSet(registry')
  <2> SUFFICES ASSUME NEW p \in open \intersect Accessible PROVE p \in ToSet(registry')
    OBVIOUS
  <2>1. PICK k \in 1..Len(registry) : registry[k] = p
    BY <1>2 DEF TypeOK, ToSet
  <2>2. \E m \in DOMAIN registry' : registry'[m] = p
    BY <1>4, <2>1
  <2>3. QED
    BY <2>2 DEF ToSet
<1>6. slipped' \subseteq Procs /\ slipped \subseteq slipped'
  BY <1>1, <1>2 DEF TypeOK
<1>7. TypeOK' /\ DesktopApart' /\ Unprotected' /\ VerdictKnown'
  BY <1>1, <1>3, <1>5, <1>6 DEF TypeOK, DesktopApart, Unprotected, VerdictKnown, hostVars,
                                x11Vars, Accessible, OnX11
<1>8. Due' = Due /\ DueX11' = DueX11
  BY <1>1 DEF Due, DueX11, Accessible, OnX11
<1>9. ASSUME NEW p \in Due, probe = "walk", Ahead(p)
      PROVE  p \in slipped' \/ Ahead(p)'
  <2>1. PICK j \in index..count : j \in DOMAIN registry /\ registry[j] = p
    BY <1>9 DEF Ahead
  <2>2. j \in 1..Len(registry) /\ registry[j] \in open /\ index \in Nat /\ count \in Nat
    BY <1>2, <1>9, <2>1 DEF Due, TypeOK
  <2>3. j # i
    BY <1>1, <2>2
  <2>4. CASE j < i
    <3>1. j \in DOMAIN registry' /\ registry'[j] = p
      BY <1>4, <2>1, <2>2, <2>4
    <3>2. QED
      BY <1>1, <2>1, <3>1 DEF Ahead
  <2>5. CASE j > i /\ j > index
    <3>1. j - 1 \in DOMAIN registry' /\ registry'[j - 1] = p
      BY <1>2, <1>4, <2>1, <2>2, <2>5
    <3>2. j - 1 \in index..count
      BY <2>1, <2>2, <2>5
    <3>3. QED
      BY <1>1, <3>1, <3>2 DEF Ahead
  <2>6. CASE j > i /\ j = index
    <3>1. i < index /\ index \in DOMAIN registry /\ index \in 1..count
      BY <1>2, <2>1, <2>2, <2>6
    <3>2. QED
      BY <1>1, <1>9, <2>1, <2>6, <3>1
  <2>7. QED
    BY <1>2, <2>1, <2>2, <2>3, <2>4, <2>5, <2>6
<1>10. ReadIsFresh'
  BY <1>1, <1>6, <1>8, <1>9 DEF ReadIsFresh, x11Vars
<1>11. QED
  BY <1>7, <1>10

LEMMA OpenWindowInv ==
  ASSUME Inv, NEW p \in Procs, OpenWindow(p)
  PROVE  Inv'
<1> USE DEF Inv
<1>1. /\ UNCHANGED <<display, protected, alive, parent, group, stubborn, probeVars, hostVars>>
      /\ open' = open \union {p} /\ p \in alive
      /\ reopened' = IF probe \in Reading THEN reopened \union {p} ELSE reopened
      /\ registry' = IF p \in Accessible \ ToSet(registry) THEN Append(registry, p) ELSE registry
  BY DEF OpenWindow
<1>2. /\ registry' \in Seq(Procs) /\ Len(registry) \in Nat
      /\ \A k \in DOMAIN registry : k \in DOMAIN registry' /\ registry'[k] = registry[k]
      /\ p \in Accessible => p \in ToSet(registry')
  <2>1. CASE p \in Accessible \ ToSet(registry)
    <3>1. registry' = Append(registry, p)
      BY <1>1, <2>1
    <3>2. p = registry'[Len(registry) + 1] /\ Len(registry) + 1 \in DOMAIN registry'
      BY <3>1 DEF TypeOK
    <3>3. p \in ToSet(registry')
      BY <3>2 DEF ToSet
    <3>4. QED
      BY <3>1, <3>3 DEF TypeOK
  <2>2. CASE p \notin Accessible \ ToSet(registry)
    BY <1>1, <2>2 DEF TypeOK
  <2>3. QED
    BY <2>1, <2>2
<1>3. open' \intersect Accessible \subseteq ToSet(registry')
  BY <1>1, <1>2 DEF TypeOK, ToSet
<1>4. TypeOK' /\ DesktopApart' /\ Unprotected' /\ VerdictKnown'
  BY <1>1, <1>2, <1>3 DEF TypeOK, DesktopApart, Unprotected, VerdictKnown, probeVars, hostVars,
                          walkVars, x11Vars, Accessible, OnX11
<1>5. \A q : Ahead(q) => Ahead(q)'
  BY <1>1, <1>2 DEF Ahead, probeVars, walkVars
<1>6. Due' \subseteq Due \union {p} /\ DueX11' \subseteq DueX11 \union {p}
  BY <1>1 DEF Due, DueX11, Accessible, OnX11
<1>7. probe \in {"walk", "clients", "judge"} \/ outcome = "passed" =>
        reopened' = reopened \union {p}
  BY <1>1 DEF Reading, VerdictKnown
<1>8. ReadIsFresh'
  BY <1>1, <1>5, <1>6, <1>7 DEF ReadIsFresh, probeVars, walkVars, x11Vars
<1>9. QED
  BY <1>4, <1>8

LEMMA EnvironmentInv ==
  Inv /\ (DeadlinePasses \/ Processes \/ UNCHANGED vars) => Inv'
<1> SUFFICES ASSUME Inv, DeadlinePasses \/ Processes \/ UNCHANGED vars PROVE Inv'
  OBVIOUS
<1>1. CASE Processes
  BY <1>1, DeregisterInv, OpenWindowInv DEF Processes
<1>2. CASE DeadlinePasses \/ UNCHANGED vars
  <2>1. /\ UNCHANGED <<processVars, hostVars, round, walkVars, x11Vars, reopened, probe, outcome>>
        /\ late' \in BOOLEAN
    BY <1>2 DEF DeadlinePasses, vars, probeVars, Inv, TypeOK
  <2>2. TypeOK' /\ DesktopApart' /\ Unprotected' /\ VerdictKnown'
    BY <2>1 DEF Inv, TypeOK, DesktopApart, Unprotected, VerdictKnown, processVars, hostVars,
                walkVars, x11Vars, Accessible, OnX11
  <2>3. ReadIsFresh'
    BY <2>1, FewerWindows DEF Inv, processVars
  <2>4. QED
    BY <2>2, <2>3 DEF Inv
<1>3. QED
  BY <1>1, <1>2

(* The argument holds on every run of the cleanup.                          *)
THEOREM Inductive == Spec => []Inv
<1>1. Inv /\ [Next]_vars => Inv'
  BY HostInv, ProbeInv, EnvironmentInv DEF Next
<1>2. QED
  BY <1>1, InitInv, PTL DEF Spec

-----------------------------------------------------------------------------
(* Both ends of the cleanup and the processes stay well typed.              *)
THEOREM TypeCorrect == Spec => []TypeOK
  BY Inductive, PTL DEF Inv

(* Cleanup never passes while a PID the host owns is alive.                 *)
THEOREM NoOwnedSurvivor == Spec => []OwnedPidsGone
<1>1. Inv => OwnedPidsGone
  BY DEF Inv, VerdictKnown, OwnedPidsGone
<1>2. QED
  BY <1>1, Inductive, PTL

(* A pass without the degraded mark leaves no new window open but one that  *)
(* opened after the last read began, one whose application moved to an      *)
(* index already read, or, when xprop failed, one on X11.                   *)
THEOREM FullPassMeansClean == Spec => []FullPassIsClean
<1>1. Inv => FullPassIsClean
  BY DEF Inv, VerdictKnown, ReadIsFresh, FullPassIsClean, Due, DueX11
<1>2. QED
  BY <1>1, Inductive, PTL

(* No step of the host, of the probe or of the processes ends a process of  *)
(* the desktop or closes its new window, but that of a stray one, of what   *)
(* descends from it, and of a window whose PID could not be read.           *)
THEOREM DesktopSurvives == Spec => DesktopUntouched
<1> DEFINE Kept(p)   == p \in alive' /\ (p \in open => p \in open')
           Spared(p) == Kept(p) \/ p \in TreeOf(Strays, Links) \/ p \in open \intersect unread'
<1>1. ASSUME Inv, [Next]_vars, NEW p \in alive \intersect Desktop
      PROVE  Spared(p)
  <2> USE DEF Inv
  <2>1. ASSUME NEW dead, Die(dead), p \notin dead PROVE Kept(p)
    BY <2>1 DEF Die
  <2>2. ASSUME NEW closed, Close(closed), p \notin closed PROVE Kept(p)
    BY <2>2 DEF Close
  <2>3. p \in listed => p \in TreeOf(Strays, Links)
    BY <1>1, TreeHolds DEF Unprotected, Strays, remaining
  <2>4. ReadX11 /\ p \in X11Windows(unread', blind') =>
          p \in TreeOf(Strays, Links) \/ p \in open \intersect unread'
    <3> SUFFICES ASSUME ReadX11, p \in X11Windows(unread', blind'), p \notin unread'
                 PROVE  p \in TreeOf(Strays, Links)
      BY <1>1, X11Reads
    <3>1. p \in open /\ p \notin protected
      BY <1>1, X11Reads
    <3>2. p \in Strays
      BY <3>1 DEF Strays
    <3>3. QED
      BY <3>2, TreeHolds
  <2>5. CASE TermOwned \/ KillOwned
    <3>1. OwnedTree \union OwnedGroup \subseteq Procs \ Desktop
      BY <1>1, OwnedApart
    <3>2. PICK dead \in SUBSET (Procs \ Desktop) : Die(dead)
      BY <2>5, <3>1 DEF TermOwned, KillOwned
    <3>3. QED
      BY <2>1, <3>2
  <2>6. CASE CloseWindows
    BY <2>2, <2>3, <2>6 DEF CloseWindows
  <2>7. CASE CloseX11Windows
    BY <2>2, <2>4, <2>7 DEF CloseX11Windows
  <2>8. CASE ForceX11
    BY <2>1, <2>4, <2>8 DEF ForceX11
  <2>9. CASE TermResidue \/ KillResidue
    <3>1. p \in ResidualTree => p \in TreeOf(Strays, Links)
      BY <1>1, <2>9, ResidueIsStray DEF TermResidue, KillResidue
    <3>2. CASE TermResidue
      BY <2>1, <3>1, <3>2 DEF TermResidue
    <3>3. CASE KillResidue
      BY <2>1, <2>4, <3>1, <3>3 DEF KillResidue
    <3>4. QED
      BY <2>9, <3>2, <3>3
  <2>10. CASE \/ KillInterrupted \/ Verify \/ Decide \/ DeadlinePasses
              \/ StartWalk \/ ReadApp \/ EndWalk \/ Truncated \/ Refused \/ ReadClients
              \/ NothingRemains \/ LookAgain \/ WindowsRemain \/ UNCHANGED vars
    <3>1. UNCHANGED processVars
      BY <2>10 DEF KillInterrupted, Verify, Decide, DeadlinePasses, StartWalk, ReadApp, EndWalk,
                   Truncated, Refused, ReadClients, NothingRemains, LookAgain, WindowsRemain,
                   ProbeEnds, vars
    <3>2. QED
      BY <3>1 DEF processVars
  <2>11. CASE Processes
    BY <2>11 DEF Processes, OpenWindow, Deregister
  <2>12. QED
    BY <1>1, <2>5, <2>6, <2>7, <2>8, <2>9, <2>10, <2>11 DEF Next, Host, Probe
<1>2. Inv /\ [Next]_vars =>
        [\A p \in alive \intersect Desktop :
           \/ p \in alive' /\ (p \in open => p \in open')
           \/ p \in TreeOf(Strays, Links)
           \/ p \in open \intersect unread']_vars
  BY <1>1
<1>3. QED
  BY <1>2, Inductive, PTL DEF Spec, DesktopUntouched

=============================================================================
