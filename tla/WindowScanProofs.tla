-------------------------- MODULE WindowScanProofs --------------------------
(***************************************************************************)
(* What one scan of the accessibility registry can miss, for any number of *)
(* applications and windows that come and go in any order, and what a      *)
(* search of the controls in these windows can.                            *)
(***************************************************************************)
EXTENDS WindowScan, WidgetSearch, FiniteSetTheorems, SequenceTheorems, TLAPS

(* Removing one element of a sequence moves the later ones down by one.     *)
LEMMA RemoveAtProperties ==
  ASSUME NEW S, NEW s \in Seq(S), NEW i \in 1..Len(s)
  PROVE  /\ RemoveAt(s, i) \in Seq(S)
         /\ Len(RemoveAt(s, i)) = Len(s) - 1
         /\ \A k \in 1..(Len(s) - 1) : RemoveAt(s, i)[k] = IF k < i THEN s[k] ELSE s[k + 1]
<1>1. /\ SubSeq(s, 1, i - 1) \in Seq(S)
      /\ Len(SubSeq(s, 1, i - 1)) = i - 1
      /\ \A k \in 1..(i - 1) : SubSeq(s, 1, i - 1)[k] = s[k]
  <2>1. \A k \in 1..(i - 1) : s[k] \in S
    OBVIOUS
  <2>2. QED
    BY <2>1, SubSeqProperties
<1>2. /\ SubSeq(s, i + 1, Len(s)) \in Seq(S)
      /\ Len(SubSeq(s, i + 1, Len(s))) = Len(s) - i
      /\ \A k \in 1..(Len(s) - i) : SubSeq(s, i + 1, Len(s))[k] = s[i + k]
  <2>1. \A k \in (i + 1)..Len(s) : s[k] \in S
    OBVIOUS
  <2>2. QED
    BY <2>1, SubSeqProperties
<1> DEFINE a == SubSeq(s, 1, i - 1)
           b == SubSeq(s, i + 1, Len(s))
<1> HIDE DEF a, b
<1>3. /\ a \o b \in Seq(S)
      /\ Len(a \o b) = Len(s) - 1
      /\ \A k \in 1..(Len(s) - 1) : (a \o b)[k] = IF k < i THEN a[k] ELSE b[k - (i - 1)]
  <2>1. a \in Seq(S) /\ b \in Seq(S) /\ Len(a) = i - 1 /\ Len(b) = Len(s) - i
    BY <1>1, <1>2 DEF a, b
  <2>2. /\ a \o b \in Seq(S) /\ Len(a \o b) = Len(a) + Len(b)
        /\ \A k \in 1..(Len(a) + Len(b)) :
             (a \o b)[k] = IF k <= Len(a) THEN a[k] ELSE b[k - Len(a)]
    BY <2>1, ConcatProperties
  <2>3. QED
    BY <2>1, <2>2
<1>4. ASSUME NEW k \in 1..(Len(s) - 1)
      PROVE  (a \o b)[k] = IF k < i THEN s[k] ELSE s[k + 1]
  <2>1. CASE k < i
    BY <2>1, <1>1, <1>3 DEF a
  <2>2. CASE k >= i
    <3>1. k - (i - 1) \in 1..(Len(s) - i) /\ i + (k - (i - 1)) = k + 1
      BY <2>2
    <3>2. b[k - (i - 1)] = s[k + 1]
      BY <3>1, <1>2 DEF b
    <3>3. (a \o b)[k] = IF k < i THEN a[k] ELSE b[k - (i - 1)]
      BY <1>3
    <3>4. ~(k < i)
      BY <2>2
    <3>5. QED
      BY <3>2, <3>3, <3>4, Zenon
  <2>3. k < i \/ k >= i
    OBVIOUS
  <2>4. QED
    BY <2>1, <2>2, <2>3
<1>5. QED
  BY <1>3, <1>4 DEF RemoveAt, a, b

(* A sequence without repetition is no longer than its set is large.        *)
LEMMA InjectiveLen ==
  ASSUME NEW S, IsFiniteSet(S), NEW s \in Seq(S), IsInjective(s)
  PROVE  Len(s) <= Cardinality(S) /\ Cardinality(S) \in Nat
<1>1. s \in Injection(1..Len(s), S)
  BY DEF Injection, IsInjective
<1>2. Len(s) \in Nat /\ Cardinality(1..Len(s)) = Len(s)
  <2>1. Len(s) \in Nat /\ 1 \in Int
    OBVIOUS
  <2>2. Cardinality(1..Len(s)) = IF 1 > Len(s) THEN 0 ELSE Len(s) - 1 + 1
    BY <2>1, FS_Interval
  <2>3. QED
    BY <2>1, <2>2
<1>3. QED
  BY <1>1, <1>2, FS_Injection, FS_CardinalityType

(* What one removal, and one addition at the end, leave of a sequence       *)
(* without repetition.                                                      *)
LEMMA Removed ==
  ASSUME NEW S, NEW s \in Seq(S), IsInjective(s), NEW i \in 1..Len(s)
  PROVE  /\ IsInjective(RemoveAt(s, i))
         /\ ToSet(RemoveAt(s, i)) = ToSet(s) \ {s[i]}
<1> DEFINE r == RemoveAt(s, i)
<1>1. /\ DOMAIN r = 1..(Len(s) - 1)
      /\ \A k \in 1..(Len(s) - 1) : r[k] = IF k < i THEN s[k] ELSE s[k + 1]
      /\ DOMAIN s = 1..Len(s)
  BY RemoveAtProperties, LenProperties
<1>2. IsInjective(r)
  BY <1>1 DEF IsInjective
<1>3. ToSet(r) \subseteq ToSet(s) \ {s[i]}
  BY <1>1 DEF IsInjective, ToSet
<1>4. ASSUME NEW k \in 1..Len(s), s[k] # s[i] PROVE s[k] \in ToSet(r)
  <2>1. CASE k < i
    BY <2>1, <1>1 DEF ToSet
  <2>2. CASE k > i
    <3>1. k - 1 \in 1..(Len(s) - 1) /\ r[k - 1] = s[k]
      BY <2>2, <1>1
    <3>2. QED
      BY <3>1, <1>1 DEF ToSet
  <2>3. QED
    BY <2>1, <2>2, <1>4
<1>5. QED
  BY <1>1, <1>2, <1>3, <1>4 DEF ToSet

LEMMA Appended ==
  ASSUME NEW S, NEW s \in Seq(S), NEW e \in S
  PROVE  /\ ToSet(Append(s, e)) = ToSet(s) \union {e}
         /\ IsInjective(s) /\ e \notin ToSet(s) => IsInjective(Append(s, e))
<1>1. /\ DOMAIN Append(s, e) = 1..(Len(s) + 1)
      /\ \A k \in 1..Len(s) : Append(s, e)[k] = s[k]
      /\ Append(s, e)[Len(s) + 1] = e
      /\ DOMAIN s = 1..Len(s)
  BY AppendProperties, LenProperties
<1>2. QED
  BY <1>1 DEF ToSet, IsInjective

(* Whoever is fresh was never registered, published or withdrawn.           *)
Once ==
  /\ fresh \intersect ToSet(registry) = {}
  /\ \A w \in Windows : w \in fresh => w \notin ToSet(children[OwnerOf[w]])
  /\ lingering \intersect fresh = {}

(* An owned application that stays is covered, or still ahead of the scan.  *)
InReach ==
  /\ stayed \subseteq ToSet(registry) /\ (pc \in Reading => stayed \subseteq owned)
  /\ pc = "apps" =>
       \A i \in 1..Len(registry) :
         registry[i] \in stayed => registry[i] \in covered \/ i <= appIndex
  /\ pc \in {"windows", "states"} =>
       /\ app \in owned /\ appIndex > 0
       /\ \A i \in 1..Len(registry) :
            registry[i] \in stayed =>
              registry[i] \in covered \union {app} \/ i < appIndex

(* A scope lists the target's application, unless that left the launch.     *)
InScope ==
  /\ OwnerOf[Target] \notin fresh
  /\ pc \in {"poll", "closed"} \union Reading =>
       OwnerOf[Target] \in owned \/ OwnerOf[Target] \notin belongs

(* Until the target is missed it shows, and its application stays if the    *)
(* scope lists it.                                                          *)
InSight ==
  pc \in Reading /\ ~absent =>
    TargetShown /\ (OwnerOf[Target] \in owned => OwnerOf[Target] \in stayed)

(* A window that left and keeps no object: asked for its states, it fails   *)
(* the scan, and it never comes back.                                       *)
Dead(w) == w \notin fresh /\ w \notin lingering /\ w \notin ToSet(children[OwnerOf[w]])
Blocked == \E w \in ToSet(found) : Dead(w)

(* The target is still to be read, at an index that the count includes;     *)
(* what was read of its older siblings is in found.                         *)
Ahead ==
  \E i \in 1..Len(children[app]) :
    /\ children[app][i] = Target /\ i <= winCount
    /\ \A k \in 1..i : k < winIndex => children[app][k] \in ToSet(found)

(* While nothing shifted the target, a scan that covers its application     *)
(* sees it, unless it is bound to fail.                                     *)
Followed ==
  pc \in Reading /\ ~absent /\ ~shifted =>
    /\ OwnerOf[Target] \in covered => Target \in seen
    /\ pc = "windows" /\ app = OwnerOf[Target] => Blocked \/ Ahead
    /\ pc = "states" /\ app = OwnerOf[Target] =>
         Blocked \/ Target \in ToSet(found) \union seen

Departs == \E a \in Apps : Depart(a)

Inv == TypeOK /\ Once /\ InReach /\ InScope /\ InSight /\ Followed /\ AbsenceHasCause

-----------------------------------------------------------------------------
LEMMA Permutation ==
  ASSUME NEW S, IsFiniteSet(S), NEW p \in SetToAllKPermutations(S)
  PROVE  p \in Seq(S) /\ IsInjective(p)
<1>1. PICK T \in SUBSET S : p \in SetToSeqs(T)
  BY DEF SetToAllKPermutations
<1>2. Cardinality(T) \in Nat
  BY FS_Subset, FS_CardinalityType
<1>3. /\ p \in [1..Cardinality(T) -> T]
      /\ \A i, j \in 1..Cardinality(T) : i # j => p[i] # p[j]
  BY <1>1 DEF SetToSeqs
<1>4. p \in Seq(T)
  BY <1>2, <1>3
<1>5. QED
  BY <1>3, <1>4 DEF IsInjective

LEMMA InitInv == Init => Inv
<1> SUFFICES ASSUME Init PROVE Inv
  OBVIOUS
<1> USE OwnersAssumption
<1>1. registry \in Seq(Apps) /\ IsInjective(registry)
  BY Permutation DEF Init
<1>2. /\ children \in [Apps -> Seq(Windows)]
      /\ \A a \in Apps : /\ ToSet(children[a]) \subseteq {w \in Windows : OwnerOf[w] = a}
                         /\ IsInjective(children[a])
  <2>1. children \in [Apps -> SetToAllKPermutations(Windows)]
    BY DEF Init
  <2>2. \A a \in Apps : children[a] \in Seq(Windows) /\ IsInjective(children[a])
    BY <2>1, Permutation
  <2>3. QED
    BY <2>1, <2>2 DEF Init
<1>3. Cardinality(Apps) \in Nat /\ Cardinality(Windows) \in Nat
  BY FS_CardinalityType
<1>4. TypeOK
  <2>1. fresh \subseteq Apps \union Windows /\ showing \subseteq Windows
    BY DEF Init
  <2>2. appIndex \in 0..Cardinality(Apps) /\ winCount \in 0..Cardinality(Windows)
    BY <1>3 DEF Init
  <2>3. winIndex \in 1..(winCount + 1) /\ found \in Seq(Windows)
    BY DEF Init
  <2>4. /\ belongs \subseteq Owned /\ owned \subseteq Owned
        /\ pc \in {"scope", "poll"} \union Reading \union Ended /\ late \in BOOLEAN
        /\ app \in Apps \union {NoApp} /\ lingering \subseteq Windows
        /\ seen \subseteq Windows /\ stayed \subseteq Owned /\ covered \subseteq Apps
        /\ absent \in BOOLEAN /\ shifted \in BOOLEAN
    BY DEF Init, Reading, Ended
  <2>5. QED
    BY <1>1, <1>2, <2>1, <2>2, <2>3, <2>4 DEF TypeOK
<1>5. Once
  <2>1. fresh = (Apps \ ToSet(registry)) \union {w \in Windows : ~Present(w)}
    BY DEF Init
  <2>2. ToSet(registry) \subseteq Apps
    BY <1>1 DEF ToSet
  <2>3. fresh \intersect ToSet(registry) = {} /\ lingering \intersect fresh = {}
    BY <2>1, <2>2 DEF Init
  <2>4. ASSUME NEW w \in Windows, w \in fresh PROVE w \notin ToSet(children[OwnerOf[w]])
    <3>1. ~Present(w)
      BY <2>1, <2>4
    <3>2. OwnerOf[w] \in Apps
      OBVIOUS
    <3>3. ToSet(children[OwnerOf[w]]) \subseteq
            {x \in Windows : OwnerOf[x] = OwnerOf[w] /\ OwnerOf[w] \in ToSet(registry)}
      BY <3>2 DEF Init
    <3>4. QED
      BY <3>1, <3>3 DEF Present
  <2>5. QED
    BY <2>3, <2>4 DEF Once
<1>6. InReach /\ InSight /\ Followed /\ AbsenceHasCause
  BY DEF Init, InReach, InSight, Followed, AbsenceHasCause, Reading
<1>7. InScope
  <2>1. OwnerOf[Target] \in ToSet(registry)
    BY DEF Init, Present
  <2>2. QED
    BY <1>5, <2>1 DEF Once, InScope, Init, Reading
<1>8. QED
  BY <1>4, <1>5, <1>6, <1>7 DEF Inv

(* What each provider does to the sequences.                                *)
LEMMA RegisterEffect ==
  ASSUME TypeOK, Once, NEW a \in Apps, Register(a)
  PROVE  /\ registry' \in Seq(Apps) /\ IsInjective(registry')
         /\ ToSet(registry') = ToSet(registry) \union {a} /\ a \notin ToSet(registry)
         /\ Len(registry') = Len(registry) + 1 /\ registry'[Len(registry) + 1] = a
         /\ \A i \in 1..Len(registry) : registry'[i] = registry[i]
BY Appended, AppendProperties DEF TypeOK, Once, Register

LEMMA UnregisterEffect ==
  ASSUME TypeOK, NEW a \in Apps, Unregister(a)
  PROVE  /\ registry' \in Seq(Apps) /\ IsInjective(registry')
         /\ ToSet(registry') = ToSet(registry) \ {a}
         /\ \A k \in 1..Len(registry') :
              \E i \in 1..Len(registry) : i >= k /\ registry'[k] = registry[i]
<1>1. registry \in Seq(Apps) /\ IsInjective(registry)
  BY DEF TypeOK
<1>2. PICK i \in 1..Len(registry) : registry[i] = a /\ registry' = RemoveAt(registry, i)
  BY <1>1 DEF Unregister
<1>3. /\ registry' \in Seq(Apps) /\ Len(registry') = Len(registry) - 1
      /\ \A k \in 1..(Len(registry) - 1) :
           registry'[k] = IF k < i THEN registry[k] ELSE registry[k + 1]
  BY <1>1, <1>2, RemoveAtProperties
<1>4. ASSUME NEW k \in 1..Len(registry')
      PROVE  \E m \in 1..Len(registry) : m >= k /\ registry'[k] = registry[m]
  <2>1. k \in 1..Len(registry) /\ k + 1 \in 1..Len(registry)
    BY <1>1, <1>3
  <2>2. registry'[k] = registry[k] \/ registry'[k] = registry[k + 1]
    BY <1>1, <1>3
  <2>3. QED
    BY <2>1, <2>2
<1>5. IsInjective(registry') /\ ToSet(registry') = ToSet(registry) \ {a}
  BY <1>1, <1>2, Removed
<1>6. QED
  BY <1>3, <1>4, <1>5

LEMMA PublishEffect ==
  ASSUME TypeOK, Once, NEW w \in Windows, Publish(w)
  PROVE  /\ children' \in [Apps -> Seq(Windows)]
         /\ \A a \in Apps \ {OwnerOf[w]} : children'[a] = children[a]
         /\ children'[OwnerOf[w]] = Append(children[OwnerOf[w]], w)
         /\ IsInjective(children'[OwnerOf[w]])
         /\ ToSet(children'[OwnerOf[w]]) = ToSet(children[OwnerOf[w]]) \union {w}
<1>1. /\ OwnerOf[w] \in Apps /\ children[OwnerOf[w]] \in Seq(Windows)
      /\ IsInjective(children[OwnerOf[w]]) /\ w \notin ToSet(children[OwnerOf[w]])
  BY OwnersAssumption DEF TypeOK, Once, Publish
<1>2. /\ Append(children[OwnerOf[w]], w) \in Seq(Windows)
      /\ IsInjective(Append(children[OwnerOf[w]], w))
      /\ ToSet(Append(children[OwnerOf[w]], w)) = ToSet(children[OwnerOf[w]]) \union {w}
  BY <1>1, Appended, AppendProperties
<1>3. /\ children \in [Apps -> Seq(Windows)]
      /\ children' = [children EXCEPT ![OwnerOf[w]] = Append(children[OwnerOf[w]], w)]
  BY DEF TypeOK, Publish
<1>4. QED
  BY <1>1, <1>2, <1>3

LEMMA WithdrawEffect ==
  ASSUME TypeOK, NEW w \in Windows, Withdraw(w)
  PROVE  \E i \in 1..Len(children[OwnerOf[w]]) :
           /\ children[OwnerOf[w]][i] = w
           /\ children' \in [Apps -> Seq(Windows)]
           /\ \A a \in Apps \ {OwnerOf[w]} : children'[a] = children[a]
           /\ IsInjective(children'[OwnerOf[w]])
           /\ ToSet(children'[OwnerOf[w]]) = ToSet(children[OwnerOf[w]]) \ {w}
           /\ Len(children'[OwnerOf[w]]) = Len(children[OwnerOf[w]]) - 1
           /\ \A k \in 1..(Len(children[OwnerOf[w]]) - 1) :
                children'[OwnerOf[w]][k] = IF k < i THEN children[OwnerOf[w]][k]
                                           ELSE children[OwnerOf[w]][k + 1]
<1> DEFINE own == OwnerOf[w]
<1>1. own \in Apps /\ children[own] \in Seq(Windows) /\ IsInjective(children[own])
  BY OwnersAssumption DEF TypeOK
<1>2. PICK i \in 1..Len(children[own]) :
        /\ children[own][i] = w
        /\ children' = [children EXCEPT ![own] = RemoveAt(children[own], i)]
  <2>1. DOMAIN children[own] = 1..Len(children[own])
    BY <1>1, LenProperties
  <2>2. QED
    BY <2>1 DEF Withdraw
<1>3. children \in [Apps -> Seq(Windows)]
  BY DEF TypeOK
<1>4. /\ RemoveAt(children[own], i) \in Seq(Windows)
      /\ Len(RemoveAt(children[own], i)) = Len(children[own]) - 1
      /\ \A k \in 1..(Len(children[own]) - 1) :
           RemoveAt(children[own], i)[k] = IF k < i THEN children[own][k]
                                           ELSE children[own][k + 1]
  BY <1>1, RemoveAtProperties
<1>5. /\ IsInjective(RemoveAt(children[own], i))
      /\ ToSet(RemoveAt(children[own], i)) = ToSet(children[own]) \ {w}
  BY <1>1, <1>2, Removed
<1>6. /\ children' \in [Apps -> Seq(Windows)]
      /\ \A a \in Apps \ {own} : children'[a] = children[a]
      /\ children'[own] = RemoveAt(children[own], i)
  BY <1>1, <1>2, <1>3, <1>4
<1>7. QED
  BY <1>2, <1>4, <1>5, <1>6

-----------------------------------------------------------------------------
(* The parts of TypeOK that the providers change, and those that the        *)
(* observer changes.                                                        *)
ProviderType ==
  /\ registry \in Seq(Apps) /\ IsInjective(registry)
  /\ children \in [Apps -> Seq(Windows)]
  /\ \A a \in Apps : /\ ToSet(children[a]) \subseteq {w \in Windows : OwnerOf[w] = a}
                    /\ IsInjective(children[a])
  /\ showing \subseteq Windows /\ lingering \subseteq Windows
  /\ fresh \subseteq Apps \union Windows /\ belongs \subseteq Owned
ObserverType ==
  /\ owned \subseteq Owned
  /\ pc \in {"scope", "poll"} \union Reading \union Ended /\ late \in BOOLEAN
  /\ appIndex \in 0..Cardinality(Apps) /\ app \in Apps \union {NoApp}
  /\ winCount \in 0..Cardinality(Windows) /\ winIndex \in 1..(winCount + 1)
  /\ found \in Seq(Windows) /\ seen \subseteq Windows /\ covered \subseteq Apps
HistoryType == stayed \subseteq Owned /\ absent \in BOOLEAN /\ shifted \in BOOLEAN

LEMMA TypeParts == TypeOK <=> ProviderType /\ ObserverType /\ HistoryType
BY DEF TypeOK, ProviderType, ObserverType, HistoryType

LEMMA ProviderTyped == Inv /\ Provider => TypeOK'
<1> SUFFICES ASSUME Inv, Provider PROVE TypeOK'
  OBVIOUS
<1> USE OwnersAssumption
<1>1. TypeOK /\ Once
  BY DEF Inv
<1>2. Remember /\ ObserverType'
  BY <1>1 DEF Provider, Register, Unregister, Publish, Withdraw, Toggle, Remember,
              TypeOK, ObserverType, cursorVars
<1>3. HistoryType'
  <2>1. stayed' \subseteq Owned
    BY <1>1, <1>2 DEF Remember, TypeOK
  <2>2. absent' \in BOOLEAN
    BY <1>2 DEF Remember
  <2>3. shifted' \in BOOLEAN
    <3>1. shifted \in BOOLEAN
      BY <1>1 DEF TypeOK
    <3>2. CASE shifted' = shifted
      BY <3>1, <3>2
    <3>3. CASE \E w \in Windows : Withdraw(w)
      BY <3>3 DEF Withdraw
    <3>4. QED
      BY <3>2, <3>3 DEF Provider, Register, Unregister, Publish, Toggle
  <2>4. QED
    BY <2>1, <2>2, <2>3 DEF HistoryType
<1>4. ProviderType'
  <2> belongs' = belongs
    BY <1>2 DEF Remember
  <2>1. ASSUME NEW a \in Apps, Register(a) PROVE ProviderType'
    <3>1. registry' \in Seq(Apps) /\ IsInjective(registry')
      BY <1>1, <2>1, RegisterEffect
    <3>2. QED
      BY <1>1, <2>1, <3>1 DEF TypeOK, ProviderType, Register
  <2>2. ASSUME NEW a \in Apps, Unregister(a) PROVE ProviderType'
    <3>1. registry' \in Seq(Apps) /\ IsInjective(registry')
      BY <1>1, <2>2, UnregisterEffect
    <3>2. children' = [children EXCEPT ![a] = <<>>]
      BY <2>2 DEF Unregister
    <3>3. <<>> \in Seq(Windows) /\ ToSet(<<>>) = {} /\ IsInjective(<<>>)
      BY DEF ToSet, IsInjective
    <3>4. /\ children' \in [Apps -> Seq(Windows)]
          /\ \A b \in Apps : /\ ToSet(children'[b]) \subseteq {w \in Windows : OwnerOf[w] = b}
                             /\ IsInjective(children'[b])
      BY <1>1, <3>2, <3>3 DEF TypeOK
    <3>5. QED
      BY <1>1, <2>2, <3>1, <3>4 DEF TypeOK, ProviderType, Unregister
  <2>3. ASSUME NEW w \in Windows, Publish(w) PROVE ProviderType'
    <3>1. /\ children' \in [Apps -> Seq(Windows)]
          /\ \A a \in Apps \ {OwnerOf[w]} : children'[a] = children[a]
          /\ IsInjective(children'[OwnerOf[w]])
          /\ ToSet(children'[OwnerOf[w]]) = ToSet(children[OwnerOf[w]]) \union {w}
      BY <1>1, <2>3, PublishEffect
    <3>2. ASSUME NEW a \in Apps
          PROVE  /\ ToSet(children'[a]) \subseteq {x \in Windows : OwnerOf[x] = a}
                 /\ IsInjective(children'[a])
      <4>1. /\ ToSet(children[a]) \subseteq {x \in Windows : OwnerOf[x] = a}
            /\ IsInjective(children[a])
        BY <1>1 DEF TypeOK
      <4>2. CASE a = OwnerOf[w]
        BY <3>1, <4>1, <4>2
      <4>3. CASE a # OwnerOf[w]
        <5>1. children'[a] = children[a]
          BY <3>1, <4>3
        <5>2. QED
          BY <4>1, <5>1
      <4>4. QED
        BY <4>2, <4>3
    <3>3. QED
      BY <1>1, <2>3, <3>1, <3>2 DEF TypeOK, ProviderType, Publish
  <2>4. ASSUME NEW w \in Windows, Withdraw(w) PROVE ProviderType'
    <3>1. /\ children' \in [Apps -> Seq(Windows)]
          /\ \A a \in Apps \ {OwnerOf[w]} : children'[a] = children[a]
          /\ IsInjective(children'[OwnerOf[w]])
          /\ ToSet(children'[OwnerOf[w]]) = ToSet(children[OwnerOf[w]]) \ {w}
      BY <1>1, <2>4, WithdrawEffect
    <3>2. ASSUME NEW a \in Apps
          PROVE  /\ ToSet(children'[a]) \subseteq {x \in Windows : OwnerOf[x] = a}
                 /\ IsInjective(children'[a])
      <4>1. /\ ToSet(children[a]) \subseteq {x \in Windows : OwnerOf[x] = a}
            /\ IsInjective(children[a])
        BY <1>1 DEF TypeOK
      <4>2. CASE a = OwnerOf[w]
        BY <3>1, <4>1, <4>2
      <4>3. CASE a # OwnerOf[w]
        <5>1. children'[a] = children[a]
          BY <3>1, <4>3
        <5>2. QED
          BY <4>1, <5>1
      <4>4. QED
        BY <4>2, <4>3
    <3>3. QED
      BY <1>1, <2>4, <3>1, <3>2 DEF TypeOK, ProviderType, Withdraw
  <2>5. ASSUME NEW w \in Windows, Toggle(w) PROVE ProviderType'
    BY <1>1, <2>5 DEF TypeOK, ProviderType, Toggle
  <2>6. QED
    BY <2>1, <2>2, <2>3, <2>4, <2>5 DEF Provider
<1>5. QED
  BY <1>2, <1>3, <1>4, TypeParts DEF TypeOK, ProviderType, ObserverType, HistoryType

LEMMA ObserverTyped == Inv /\ (Observer \/ DeadlinePasses \/ Departs) => TypeOK'
<1> SUFFICES ASSUME Inv, Observer \/ DeadlinePasses \/ Departs PROVE TypeOK'
  OBVIOUS
<1> USE OwnersAssumption
<1>1. TypeOK /\ InReach
  BY DEF Inv
<1>2. Cardinality(Apps) \in Nat /\ Cardinality(Windows) \in Nat
  BY FS_CardinalityType
<1>3. ProviderType'
  BY <1>1 DEF TypeOK, ProviderType, Observer, ReadScope, Expired, Start, SkipApp, EnterApp,
       ReadWindow,
              AskStates, ReadState, LeaveApp, Refused, Truncated, Judge, DeadlinePasses,
              Departs, Depart,
              providerVars
<1> SUFFICES ObserverType' /\ HistoryType'
  BY <1>3 DEF TypeOK, ProviderType, ObserverType, HistoryType
<1>4. ASSUME Forget, late' = late, owned' \subseteq Owned,
             pc' \in {"scope", "poll"} \union Ended
      PROVE  ObserverType' /\ HistoryType'
  <2>1. late' \in BOOLEAN /\ absent' \in BOOLEAN /\ shifted' \in BOOLEAN
    BY <1>1, <1>4 DEF Forget, TypeOK
  <2>2. /\ appIndex' \in 0..Cardinality(Apps) /\ app' \in Apps \union {NoApp}
        /\ winCount' \in 0..Cardinality(Windows) /\ winIndex' \in 1..(winCount' + 1)
    BY <1>2, <1>4 DEF Forget
  <2>3. /\ found' \in Seq(Windows) /\ seen' \subseteq Windows
        /\ covered' \subseteq Apps /\ stayed' \subseteq Owned
    BY <1>4 DEF Forget
  <2>4. QED
    BY <1>4, <2>1, <2>2, <2>3 DEF ObserverType, HistoryType
<1>5. CASE Start
  <2>1. Len(registry) \in 0..Cardinality(Apps)
    BY <1>1, InjectiveLen DEF TypeOK
  <2>2. absent' \in BOOLEAN
    BY <1>5 DEF Start, TargetShown, Present
  <2>3. QED
    <3>1. /\ late' \in BOOLEAN /\ shifted' \in BOOLEAN /\ pc' \in Reading
          /\ owned' \subseteq Owned
      BY <1>1, <1>5 DEF Start, TypeOK, Reading
    <3>2. /\ appIndex' \in 0..Cardinality(Apps) /\ app' \in Apps \union {NoApp}
          /\ winCount' \in 0..Cardinality(Windows) /\ winIndex' \in 1..(winCount' + 1)
      BY <1>2, <1>5, <2>1 DEF Start
    <3>3. /\ found' \in Seq(Windows) /\ seen' \subseteq Windows
          /\ covered' \subseteq Apps /\ stayed' \subseteq Owned
      BY <1>1, <1>5 DEF Start, TypeOK
    <3>4. QED
      BY <2>2, <3>1, <3>2, <3>3 DEF ObserverType, HistoryType
<1>6. CASE Expired \/ ReadScope
  BY <1>1, <1>6 DEF Expired, ReadScope, TypeOK, ObserverType, HistoryType, Ended, cursorVars,
       historyVars
<1>7. CASE SkipApp
  BY <1>1, <1>2, <1>7 DEF SkipApp, TypeOK, ObserverType, HistoryType, historyVars
<1>8. CASE EnterApp
  <2>1. app' \in Apps /\ winIndex' = 1 /\ winCount' = Len(children[app'])
    BY <1>1, <1>8 DEF EnterApp, TypeOK
  <2>2. Len(children[app']) \in 0..Cardinality(Windows)
    BY <1>1, <2>1, InjectiveLen DEF TypeOK
  <2>3. QED
    BY <1>1, <1>8, <2>1, <2>2 DEF EnterApp, TypeOK, ObserverType, HistoryType, Reading,
                                  historyVars
<1>9. CASE ReadWindow
  <2>1. app \in Apps /\ children[app] \in Seq(Windows)
    BY <1>1, <1>9 DEF ReadWindow, TypeOK, InReach
  <2>2. found' \in Seq(Windows)
    BY <1>1, <1>9, <2>1, AppendProperties DEF ReadWindow, TypeOK
  <2>3. winIndex' \in 1..(winCount' + 1)
    BY <1>1, <1>2, <1>9 DEF ReadWindow, TypeOK
  <2>4. QED
    BY <1>1, <1>9, <2>2, <2>3 DEF ReadWindow, TypeOK, ObserverType, HistoryType, historyVars
<1>10. CASE AskStates
  BY <1>1, <1>2, <1>10 DEF AskStates, TypeOK, ObserverType, HistoryType, Reading, historyVars
<1>11. CASE ReadState
  <2>1. found' \in Seq(Windows) /\ Head(found) \in Windows
    BY <1>1, <1>11, HeadTailProperties DEF ReadState, TypeOK
  <2>2. QED
    BY <1>1, <1>11, <2>1 DEF ReadState, TypeOK, ObserverType, HistoryType, historyVars
<1>12. CASE LeaveApp
  <2>1. app \in Apps /\ appIndex > 0
    BY <1>1, <1>12 DEF LeaveApp, InReach, TypeOK
  <2>2. QED
    BY <1>1, <1>2, <1>12, <2>1 DEF LeaveApp, TypeOK, ObserverType, HistoryType, Reading
<1>13. CASE Refused
  BY <1>1, <1>4, <1>13 DEF Refused, Ended, TypeOK
<1>14. CASE Truncated
  BY <1>1, <1>4, <1>14 DEF Truncated, Ended, TypeOK
<1>15. CASE Judge
  <2>1. CASE pc' = "closed"
    BY <1>1, <1>15, <2>1 DEF Judge, TypeOK, ObserverType, HistoryType, Ended, cursorVars,
                             historyVars
  <2>2. CASE pc' # "closed"
    BY <1>4, <1>15, <2>2 DEF Judge, Ended
  <2>3. QED
    BY <2>1, <2>2
<1>16. CASE DeadlinePasses \/ Departs
  BY <1>1, <1>16 DEF DeadlinePasses, Departs, Depart, TypeOK, ObserverType, HistoryType,
       cursorVars, historyVars
<1>17. QED
  BY <1>5, <1>6, <1>7, <1>8, <1>9, <1>10, <1>11, <1>12, <1>13, <1>14, <1>15, <1>16
     DEF Observer

-----------------------------------------------------------------------------
LEMMA OnceStays == Inv /\ [Next]_vars => Once'
<1> SUFFICES ASSUME Inv, [Next]_vars PROVE Once'
  OBVIOUS
<1> USE OwnersAssumption
<1>1. TypeOK /\ Once
  BY DEF Inv
<1>2. ASSUME NEW a \in Apps, Register(a) PROVE Once'
  <2>1. ToSet(registry') = ToSet(registry) \union {a}
    BY <1>1, <1>2, RegisterEffect
  <2>2. QED
    BY <1>1, <1>2, <2>1 DEF Once, Register
<1>3. ASSUME NEW a \in Apps, Unregister(a) PROVE Once'
  <2>1. ToSet(registry') = ToSet(registry) \ {a}
    BY <1>1, <1>3, UnregisterEffect
  <2>2. /\ children \in [Apps -> Seq(Windows)] /\ ToSet(<<>>) = {}
        /\ children' = [children EXCEPT ![a] = <<>>]
    BY <1>1, <1>3 DEF TypeOK, Unregister, ToSet
  <2>3. \A w \in Windows : ToSet(children'[OwnerOf[w]]) \subseteq ToSet(children[OwnerOf[w]])
    BY <2>2
  <2>4. QED
    BY <1>1, <1>3, <2>1, <2>3 DEF Once, Unregister
<1>4. ASSUME NEW x \in Windows, Publish(x) PROVE Once'
  <2>1. /\ \A a \in Apps \ {OwnerOf[x]} : children'[a] = children[a]
        /\ ToSet(children'[OwnerOf[x]]) = ToSet(children[OwnerOf[x]]) \union {x}
    BY <1>1, <1>4, PublishEffect
  <2>2. \A w \in Windows :
          ToSet(children'[OwnerOf[w]]) \subseteq ToSet(children[OwnerOf[w]]) \union {x}
    BY <2>1
  <2>3. QED
    BY <1>1, <1>4, <2>2 DEF Once, Publish
<1>5. ASSUME NEW x \in Windows, Withdraw(x) PROVE Once'
  <2>1. /\ \A a \in Apps \ {OwnerOf[x]} : children'[a] = children[a]
        /\ ToSet(children'[OwnerOf[x]]) = ToSet(children[OwnerOf[x]]) \ {x}
    BY <1>1, <1>5, WithdrawEffect
  <2>2. \A w \in Windows : ToSet(children'[OwnerOf[w]]) \subseteq ToSet(children[OwnerOf[w]])
    BY <2>1
  <2>3. x \notin fresh /\ fresh' = fresh /\ registry' = registry
        /\ lingering' \subseteq lingering \union {x}
    BY <1>1, <1>5 DEF Once, Withdraw, Present
  <2>4. QED
    BY <1>1, <2>2, <2>3 DEF Once
<1>6. ASSUME NEW x \in Windows, Toggle(x) PROVE Once'
  BY <1>1, <1>6 DEF Once, Toggle
<1>7. CASE UNCHANGED <<registry, children, fresh, lingering>>
  BY <1>1, <1>7 DEF Once
<1>8. UNCHANGED <<registry, children, fresh, lingering>> \/ Provider
  BY DEF Next, vars, Observer, ReadScope, Expired, Start, SkipApp, EnterApp, ReadWindow,
       AskStates,
         ReadState, LeaveApp, Refused, Truncated, Judge, DeadlinePasses, Departs, Depart,
         providerVars
<1>9. QED
  BY <1>2, <1>3, <1>4, <1>5, <1>6, <1>7, <1>8 DEF Provider

(* A provider moves no application that stays to a later index.             *)
LEMMA NotLater ==
  ASSUME TypeOK, Once, InReach, Provider
  PROVE  /\ stayed' \subseteq stayed /\ stayed' \subseteq ToSet(registry')
         /\ \A k \in 1..Len(registry') :
              registry'[k] \in stayed' =>
                \E i \in 1..Len(registry) : i >= k /\ registry'[k] = registry[i]
<1>1. stayed' = stayed \intersect ToSet(registry')
  BY DEF Provider, Register, Unregister, Publish, Withdraw, Toggle, Remember
<1>2. registry \in Seq(Apps) /\ stayed \subseteq ToSet(registry)
  BY DEF TypeOK, InReach
<1>3. CASE registry' = registry
  <2>1. \A k \in 1..Len(registry) : k >= k
    BY <1>2
  <2>2. QED
    BY <1>1, <1>3, <2>1
<1>4. ASSUME NEW a \in Apps, Register(a),
             NEW k \in 1..Len(registry'), registry'[k] \in stayed'
      PROVE  \E i \in 1..Len(registry) : i >= k /\ registry'[k] = registry[i]
  <2>1. /\ Len(registry') = Len(registry) + 1 /\ registry'[Len(registry) + 1] = a
        /\ \A i \in 1..Len(registry) : registry'[i] = registry[i]
        /\ a \notin ToSet(registry)
    BY <1>4, RegisterEffect
  <2>2. k # Len(registry) + 1
    BY <1>1, <1>2, <1>4, <2>1
  <2>3. k \in 1..Len(registry) /\ k >= k
    BY <1>2, <2>1, <2>2
  <2>4. QED
    BY <2>1, <2>3
<1>5. ASSUME NEW a \in Apps, Unregister(a)
      PROVE  \A k \in 1..Len(registry') :
               \E i \in 1..Len(registry) : i >= k /\ registry'[k] = registry[i]
  BY <1>5, UnregisterEffect
<1>6. QED
  BY <1>1, <1>3, <1>4, <1>5 DEF Provider, Publish, Withdraw, Toggle

LEMMA InReachStays == Inv /\ [Next]_vars => InReach'
<1> SUFFICES ASSUME Inv, [Next]_vars PROVE InReach'
  OBVIOUS
<1> USE OwnersAssumption
<1>1. TypeOK /\ Once /\ InReach
  BY DEF Inv
<1>2. registry \in Seq(Apps) /\ Len(registry) \in Nat /\ appIndex \in Nat
  BY <1>1, FS_CardinalityType DEF TypeOK
<1>3. CASE Provider
  <2>1. UNCHANGED <<pc, app, appIndex, covered, owned>>
    BY <1>3 DEF Provider, Register, Unregister, Publish, Withdraw, Toggle, Remember, cursorVars
  <2>2. /\ stayed' \subseteq stayed /\ stayed' \subseteq ToSet(registry')
        /\ \A k \in 1..Len(registry') :
             registry'[k] \in stayed' =>
               \E i \in 1..Len(registry) : i >= k /\ registry'[k] = registry[i]
    BY <1>1, <1>3, NotLater
  <2>3. ASSUME pc = "apps", NEW k \in 1..Len(registry'), registry'[k] \in stayed'
        PROVE  registry'[k] \in covered \/ k <= appIndex
    <3>1. PICK i \in 1..Len(registry) : i >= k /\ registry'[k] = registry[i]
      BY <2>2, <2>3
    <3>2. registry[i] \in covered \/ i <= appIndex
      BY <1>1, <2>2, <2>3, <3>1 DEF InReach
    <3>3. QED
      BY <1>2, <3>1, <3>2
  <2>4. ASSUME pc \in {"windows", "states"},
               NEW k \in 1..Len(registry'), registry'[k] \in stayed'
        PROVE  registry'[k] \in covered \union {app} \/ k < appIndex
    <3>1. PICK i \in 1..Len(registry) : i >= k /\ registry'[k] = registry[i]
      BY <2>2, <2>4
    <3>2. registry[i] \in covered \union {app} \/ i < appIndex
      BY <1>1, <2>2, <2>4, <3>1 DEF InReach
    <3>3. QED
      BY <1>2, <3>1, <3>2
  <2>5. (pc' \in Reading => stayed' \subseteq owned')
    BY <1>1, <2>1, <2>2 DEF InReach
  <2>6. QED
    BY <1>1, <2>1, <2>2, <2>3, <2>4, <2>5 DEF InReach
<1>4. CASE Start
  <2>1. /\ pc' = "apps" /\ registry' = registry /\ appIndex' = Len(registry)
        /\ stayed' \subseteq ToSet(registry) /\ stayed' \subseteq owned'
    BY <1>4 DEF Start, providerVars
  <2>2. QED
    BY <1>2, <2>1 DEF InReach
<1>5. CASE SkipApp
  <2>1. /\ pc = "apps" /\ pc' = "apps" /\ appIndex' = appIndex - 1 /\ appIndex > 0
        /\ AppAt(appIndex) \notin owned
        /\ UNCHANGED <<registry, owned, stayed, covered>>
    BY <1>5 DEF SkipApp, historyVars, providerVars
  <2>2. ASSUME NEW i \in 1..Len(registry), registry[i] \in stayed
        PROVE  registry[i] \in covered \/ i <= appIndex - 1
    <3>1. registry[i] \in covered \/ i <= appIndex
      BY <1>1, <2>1, <2>2 DEF InReach
    <3>2. i # appIndex
      BY <1>1, <2>1, <2>2 DEF AppAt, InReach, Reading
    <3>3. QED
      BY <1>2, <3>1, <3>2
  <2>3. QED
    BY <1>1, <2>1, <2>2 DEF InReach, Reading
<1>6. CASE EnterApp
  <2>1. /\ pc = "apps" /\ pc' = "windows" /\ app' = AppAt(appIndex) /\ app' \in owned
        /\ UNCHANGED <<registry, owned, stayed, covered, appIndex>>
    BY <1>6 DEF EnterApp, historyVars, providerVars
  <2>2. appIndex \in 1..Len(registry) /\ app' = registry[appIndex]
    BY <1>1, <2>1, OwnersAssumption DEF AppAt, TypeOK
  <2>3. ASSUME NEW i \in 1..Len(registry), registry[i] \in stayed
        PROVE  registry[i] \in covered \union {app'} \/ i < appIndex
    <3>1. registry[i] \in covered \/ i < appIndex \/ i = appIndex
      BY <1>1, <1>2, <2>1, <2>3 DEF InReach
    <3>2. QED
      BY <2>2, <3>1
  <2>4. QED
    BY <1>1, <1>2, <2>1, <2>2, <2>3 DEF InReach, Reading
<1>7. CASE LeaveApp
  <2>1. /\ pc = "states" /\ pc' = "apps" /\ appIndex' = appIndex - 1
        /\ covered' = covered \union {app}
        /\ UNCHANGED <<registry, owned, stayed>>
    BY <1>7 DEF LeaveApp, providerVars
  <2>2. \A i \in 1..Len(registry) :
          registry[i] \in stayed => registry[i] \in covered' \/ i < appIndex
    BY <1>1, <2>1 DEF InReach
  <2>3. \A i \in 1..Len(registry) : i < appIndex => i <= appIndex - 1
    BY <1>2
  <2>4. QED
    BY <1>1, <2>1, <2>2, <2>3 DEF InReach, Reading
<1>8. CASE ReadWindow \/ AskStates \/ ReadState
  <2>1. /\ pc \in {"windows", "states"} /\ pc' \in {"windows", "states"}
        /\ UNCHANGED <<registry, owned, app, appIndex, stayed, covered>>
    BY <1>8 DEF ReadWindow, AskStates, ReadState, historyVars, providerVars
  <2>2. QED
    BY <1>1, <2>1 DEF InReach, Reading
<1>9. CASE Expired \/ ReadScope \/ Refused \/ Truncated \/ Judge
  <2>1. pc' \notin Reading /\ registry' = registry
    BY <1>9 DEF Expired, ReadScope, Refused, Truncated, Judge, Reading, providerVars
  <2>2. stayed' = stayed \/ stayed' = {}
    BY <1>9 DEF Expired, ReadScope, Refused, Truncated, Judge, Forget, historyVars
  <2>3. QED
    BY <1>1, <2>1, <2>2 DEF InReach, Reading
<1>10. CASE DeadlinePasses \/ Departs \/ UNCHANGED vars
  BY <1>1, <1>10
  DEF InReach, Reading, DeadlinePasses, Departs, Depart, vars, cursorVars, historyVars,
  providerVars
<1>11. QED
  BY <1>3, <1>4, <1>5, <1>6, <1>7, <1>8, <1>9, <1>10 DEF Next, Observer, Departs

LEMMA InScopeStays == Inv /\ [Next]_vars => InScope'
<1> SUFFICES ASSUME Inv, [Next]_vars PROVE InScope'
  OBVIOUS
<1> USE OwnersAssumption
<1>1. InScope
  BY DEF Inv
<1>2. fresh' \subseteq fresh /\ belongs' \subseteq belongs
  BY DEF Next, Provider, Register, Unregister, Publish, Withdraw, Toggle, Remember,
         Observer, ReadScope, Expired, Start, SkipApp, EnterApp, ReadWindow, AskStates,
         ReadState, LeaveApp, Refused, Truncated, Judge, DeadlinePasses, Depart, providerVars,
         vars
<1>3. CASE ReadScope
  <2>1. PICK missed \in SUBSET fresh : owned' = belongs \ missed
    BY <1>3 DEF ReadScope
  <2>2. QED
    BY <1>1, <1>2, <2>1 DEF InScope
<1>4. CASE UNCHANGED <<pc, owned>> \/ (Provider \/ Departs)
  <2>1. UNCHANGED <<pc, owned>>
    BY <1>4 DEF Provider, Register, Unregister, Publish, Withdraw, Toggle, Remember, Departs,
                Depart
  <2>2. QED
    BY <1>1, <1>2, <2>1 DEF InScope
<1>5. CASE \/ Start \/ SkipApp \/ EnterApp \/ ReadWindow \/ AskStates \/ ReadState \/ LeaveApp
           \/ Refused \/ Truncated
  <2>1. pc \in {"poll"} \union Reading /\ owned' = owned
    BY <1>5 DEF Start, SkipApp, EnterApp, ReadWindow, AskStates, ReadState, LeaveApp, Refused,
                Truncated, Reading
  <2>2. QED
    BY <1>1, <1>2, <2>1 DEF InScope
<1>6. CASE Judge
  <2>1. pc \in Reading /\ (pc' = "closed" => owned' = owned) /\ pc' \in {"closed", "scope"}
    BY <1>6 DEF Judge, Reading
  <2>2. QED
    BY <1>1, <1>2, <2>1 DEF InScope, Reading
<1>7. CASE Expired
  BY <1>1, <1>2, <1>7 DEF Expired, InScope, Reading
<1>8. CASE DeadlinePasses \/ UNCHANGED vars
  BY <1>4, <1>8 DEF DeadlinePasses, vars
<1>9. QED
  BY <1>3, <1>4, <1>5, <1>6, <1>7, <1>8 DEF Next, Observer, Departs

LEMMA InSightStays == Inv /\ [Next]_vars => InSight'
<1> SUFFICES ASSUME Inv, [Next]_vars, pc' \in Reading, ~absent'
             PROVE  /\ TargetShown'
                    /\ OwnerOf[Target] \in owned' => OwnerOf[Target] \in stayed'
  BY DEF InSight
<1> USE OwnersAssumption
<1>1. InSight
  BY DEF Inv
<1>2. CASE Provider
  <2>1. /\ pc' = pc /\ absent' = (pc \in Reading /\ (absent \/ ~TargetShown'))
        /\ stayed' = stayed \intersect ToSet(registry') /\ owned' = owned
    BY <1>2 DEF Provider, Register, Unregister, Publish, Withdraw, Toggle, Remember
  <2>2. ~absent /\ TargetShown' /\ pc \in Reading
    BY <2>1
  <2>3. /\ OwnerOf[Target] \in owned => OwnerOf[Target] \in stayed
        /\ OwnerOf[Target] \in ToSet(registry')
    BY <1>1, <2>2 DEF InSight, TargetShown, Present
  <2>4. QED
    BY <2>1, <2>2, <2>3
<1>3. CASE ~Provider
  <2>1. TargetShown' = TargetShown
    BY <1>3 DEF Next, vars, Observer, ReadScope, Expired, Start, SkipApp, EnterApp, ReadWindow,
         AskStates,
                ReadState, LeaveApp, Refused, Truncated, Judge, DeadlinePasses, Departs,
                Depart, providerVars,
                TargetShown, Present
  <2>2. CASE Start
    BY <2>1, <2>2 DEF Start, TargetShown, Present
  <2>3. CASE Expired \/ ReadScope \/ Refused \/ Truncated \/ Judge
    BY <2>3 DEF Expired, ReadScope, Refused, Truncated, Judge, Reading
  <2>4. CASE SkipApp \/ EnterApp \/ ReadWindow \/ AskStates \/ ReadState \/ LeaveApp
    <3>1. pc \in Reading /\ UNCHANGED <<stayed, absent, owned>>
      BY <2>4 DEF SkipApp, EnterApp, ReadWindow, AskStates, ReadState, LeaveApp, historyVars,
                  Reading
    <3>2. QED
      BY <1>1, <2>1, <3>1 DEF InSight
  <2>5. CASE DeadlinePasses \/ Departs \/ UNCHANGED vars
    BY <1>1, <2>1, <2>5 DEF DeadlinePasses, Departs, Depart, vars, historyVars, InSight
  <2>6. QED
    BY <1>3, <2>2, <2>3, <2>4, <2>5 DEF Next, Observer, Departs
<1>4. QED
  BY <1>2, <1>3

-----------------------------------------------------------------------------
(* No provider brings a dead window back.                                   *)
LEMMA DeadStays ==
  ASSUME TypeOK, Once, Provider, NEW w \in Windows, Dead(w)
  PROVE  Dead(w)'
<1> USE OwnersAssumption
<1>1. ASSUME NEW a \in Apps, Unregister(a) PROVE Dead(w)'
  <2>1. /\ children \in [Apps -> Seq(Windows)] /\ ToSet(<<>>) = {}
        /\ children' = [children EXCEPT ![a] = <<>>]
    BY <1>1 DEF TypeOK, Unregister, ToSet
  <2>2. ToSet(children'[OwnerOf[w]]) \subseteq ToSet(children[OwnerOf[w]])
    BY <2>1
  <2>3. QED
    BY <1>1, <2>2 DEF Dead, Unregister
<1>2. ASSUME NEW x \in Windows, Publish(x) PROVE Dead(w)'
  <2>1. /\ \A a \in Apps \ {OwnerOf[x]} : children'[a] = children[a]
        /\ ToSet(children'[OwnerOf[x]]) = ToSet(children[OwnerOf[x]]) \union {x}
    BY <1>2, PublishEffect
  <2>2. x # w
    BY <1>2 DEF Dead, Publish
  <2>3. w \notin ToSet(children'[OwnerOf[w]])
    BY <2>1, <2>2 DEF Dead
  <2>4. QED
    BY <1>2, <2>3 DEF Dead, Publish
<1>3. ASSUME NEW x \in Windows, Withdraw(x) PROVE Dead(w)'
  <2>1. /\ \A a \in Apps \ {OwnerOf[x]} : children'[a] = children[a]
        /\ ToSet(children'[OwnerOf[x]]) = ToSet(children[OwnerOf[x]]) \ {x}
    BY <1>3, WithdrawEffect
  <2>2. x # w
    BY <1>3 DEF Dead, Withdraw, Present
  <2>3. w \notin ToSet(children'[OwnerOf[w]])
    BY <2>1 DEF Dead
  <2>4. w \notin lingering' /\ w \notin fresh'
    BY <1>3, <2>2 DEF Dead, Withdraw
  <2>5. QED
    BY <2>3, <2>4 DEF Dead
<1>4. CASE \E a \in Apps : Register(a)
  BY <1>4 DEF Dead, Register
<1>5. CASE \E x \in Windows : Toggle(x)
  BY <1>5 DEF Dead, Toggle
<1>6. QED
  BY <1>1, <1>2, <1>3, <1>4, <1>5 DEF Provider

(* A target that stays and is not shifted stays ahead of the scan, unless   *)
(* what was read can no longer answer.                                      *)
LEMMA AheadStays ==
  ASSUME TypeOK, Once, Provider, pc = "windows", app = OwnerOf[Target],
         Ahead, ~shifted', TargetShown'
  PROVE  Ahead' \/ Blocked'
<1> USE OwnersAssumption
<1> DEFINE own == OwnerOf[Target]
<1>1. /\ own \in Apps /\ children[own] \in Seq(Windows)
      /\ IsInjective(children[own]) /\ Len(children[own]) \in Nat
      /\ DOMAIN children[own] = 1..Len(children[own])
  BY LenProperties DEF TypeOK
<1>2. UNCHANGED <<pc, app, winIndex, winCount, found>> /\ winIndex \in Nat /\ winCount \in Nat
  BY FS_CardinalityType
     DEF Provider, Register, Unregister, Publish, Withdraw, Toggle, Remember, cursorVars, TypeOK
<1>3. PICK i \in 1..Len(children[own]) :
        /\ children[own][i] = Target /\ i <= winCount
        /\ \A k \in 1..i : k < winIndex => children[own][k] \in ToSet(found)
  BY DEF Ahead
<1>4. CASE children'[own] = children[own]
  BY <1>2, <1>4 DEF Ahead
<1>5. ASSUME NEW a \in Apps, Unregister(a) PROVE children'[own] = children[own]
  <2>1. /\ children \in [Apps -> Seq(Windows)]
        /\ children' = [children EXCEPT ![a] = <<>>]
    BY <1>5 DEF TypeOK, Unregister
  <2>2. a # own
    BY <1>1, <2>1 DEF TargetShown, Present, ToSet
  <2>3. QED
    BY <1>1, <2>1, <2>2
<1>6. ASSUME NEW x \in Windows, Publish(x), OwnerOf[x] = own PROVE Ahead'
  <2>1. children'[own] = Append(children[own], x)
    BY <1>6, PublishEffect
  <2>2. /\ Len(children'[own]) = Len(children[own]) + 1
        /\ \A k \in 1..Len(children[own]) : children'[own][k] = children[own][k]
    BY <1>1, <2>1, AppendProperties
  <2>3. i \in 1..Len(children'[own]) /\ \A k \in 1..i : k \in 1..Len(children[own])
    BY <1>1, <2>2
  <2>4. /\ children'[own][i] = Target
        /\ \A k \in 1..i : k < winIndex => children'[own][k] \in ToSet(found)
    BY <1>3, <2>2, <2>3
  <2>5. QED
    BY <1>2, <1>3, <2>3, <2>4 DEF Ahead
<1>7. ASSUME NEW x \in Windows, Withdraw(x), OwnerOf[x] = own PROVE Ahead' \/ Blocked'
  <2> DEFINE Takes(j, a) ==
               /\ children[a][j] = x
               /\ ToSet(children'[a]) = ToSet(children[a]) \ {x}
               /\ Len(children'[a]) = Len(children[a]) - 1
               /\ \A k \in 1..(Len(children[a]) - 1) :
                    children'[a][k] = IF k < j THEN children[a][k] ELSE children[a][k + 1]
  <2>1. \E j \in 1..Len(children[OwnerOf[x]]) : Takes(j, OwnerOf[x])
    BY <1>7, WithdrawEffect
  <2>2. PICK j \in 1..Len(children[own]) : Takes(j, own)
    <3> HIDE DEF Takes
    <3>1. QED
      BY <1>7, <2>1
  <2>3. /\ children[own][j] = x
        /\ ToSet(children'[own]) = ToSet(children[own]) \ {x}
        /\ Len(children'[own]) = Len(children[own]) - 1
        /\ \A k \in 1..(Len(children[own]) - 1) :
             children'[own][k] = IF k < j THEN children[own][k] ELSE children[own][k + 1]
    BY <2>2
  <2>4. x # Target /\ i # j
    BY <1>3, <2>3 DEF TargetShown, Present
  <2>5. CASE i < j
    <3>1. i \in 1..Len(children'[own])
      BY <1>1, <2>3, <2>5
    <3>2. \A k \in 1..i : children'[own][k] = children[own][k]
      BY <1>1, <2>3, <2>5
    <3>3. children'[own][i] = Target
      BY <1>3, <3>2
    <3>4. QED
      BY <1>2, <1>3, <3>1, <3>2, <3>3 DEF Ahead
  <2>6. CASE j < i /\ j < winIndex
    <3>1. x \in ToSet(found)
      BY <1>3, <2>3, <2>6
    <3>2. Older(x, Target)
      BY <1>3, <2>3, <2>6 DEF Older
    <3>3. x \notin lingering'
      BY <1>7, <3>2 DEF Withdraw, Reading
    <3>4. x \notin fresh'
      BY <1>7 DEF Once, Withdraw, Present
    <3>5. QED
      BY <1>2, <1>7, <2>3, <3>1, <3>3, <3>4 DEF Blocked, Dead
  <2>7. CASE j < i /\ j >= winIndex
    <3>1. i - 1 \in 1..Len(children'[own]) /\ i - 1 <= winCount
      BY <1>1, <1>2, <1>3, <2>3, <2>7
    <3>2. children'[own][i - 1] = Target
      BY <1>1, <1>3, <2>3, <2>7
    <3>3. \A k \in 1..(i - 1) : k < winIndex => children'[own][k] \in ToSet(found)
      BY <1>1, <1>2, <1>3, <2>3, <2>7
    <3>4. QED
      BY <1>2, <3>1, <3>2, <3>3 DEF Ahead
  <2>8. QED
    BY <1>2, <2>4, <2>5, <2>6, <2>7
<1>8. ASSUME NEW x \in Windows, Publish(x) \/ Withdraw(x), OwnerOf[x] # own
      PROVE  children'[own] = children[own]
  BY <1>1, <1>8, PublishEffect, WithdrawEffect
<1>9. QED
  BY <1>4, <1>5, <1>6, <1>7, <1>8 DEF Provider, Register, Toggle

LEMMA FollowedByProvider == Inv /\ Provider => Followed'
<1> SUFFICES ASSUME Inv, Provider, pc' \in Reading, ~absent', ~shifted'
             PROVE  /\ OwnerOf[Target] \in covered' => Target \in seen'
                    /\ pc' = "windows" /\ app' = OwnerOf[Target] => Blocked' \/ Ahead'
                    /\ pc' = "states" /\ app' = OwnerOf[Target] =>
                         Blocked' \/ Target \in ToSet(found') \union seen'
  BY DEF Followed
<1>1. TypeOK /\ Once /\ Followed
  BY DEF Inv
<1>2. /\ UNCHANGED <<pc, app, found, seen, covered>>
      /\ absent' = (pc \in Reading /\ (absent \/ ~TargetShown'))
  BY DEF Provider, Register, Unregister, Publish, Withdraw, Toggle, Remember, cursorVars
<1>3. pc \in Reading /\ ~absent /\ TargetShown'
  BY <1>2
<1>4. ~shifted
  BY <1>3 DEF Provider, Register, Unregister, Publish, Withdraw, Toggle
<1>5. Blocked => Blocked'
  <2>1. ToSet(found) \subseteq Windows
    BY <1>1 DEF TypeOK, ToSet
  <2>2. QED
    BY <1>1, <1>2, <2>1, DeadStays DEF Blocked
<1>6. pc = "windows" /\ app = OwnerOf[Target] /\ Ahead => Ahead' \/ Blocked'
  BY <1>1, <1>3, AheadStays
<1>7. QED
  BY <1>1, <1>2, <1>3, <1>4, <1>5, <1>6 DEF Followed

LEMMA FollowedByObserver ==
  Inv /\ (Observer \/ DeadlinePasses \/ Departs \/ UNCHANGED vars) => Followed'
<1> SUFFICES ASSUME Inv, Observer \/ DeadlinePasses \/ Departs \/ UNCHANGED vars,
                    pc' \in Reading, ~absent', ~shifted'
             PROVE  /\ OwnerOf[Target] \in covered' => Target \in seen'
                    /\ pc' = "windows" /\ app' = OwnerOf[Target] => Blocked' \/ Ahead'
                    /\ pc' = "states" /\ app' = OwnerOf[Target] =>
                         Blocked' \/ Target \in ToSet(found') \union seen'
  BY DEF Followed
<1> USE OwnersAssumption
<1>1. TypeOK /\ InReach /\ InSight /\ Followed
  BY DEF Inv
<1>2. CASE Start
  BY <1>2 DEF Start
<1>3. CASE SkipApp
  BY <1>1, <1>3 DEF SkipApp, Followed, historyVars, Reading
<1>4. CASE EnterApp
  <2>1. /\ pc = "apps" /\ pc' = "windows" /\ winIndex' = 1
        /\ winCount' = Len(children[app'])
        /\ UNCHANGED <<children, found, seen, covered, absent, shifted>>
    BY <1>4 DEF EnterApp, historyVars, providerVars
  <2>2. Target \in ToSet(children[OwnerOf[Target]])
    BY <1>1, <2>1 DEF InSight, TargetShown, Present, Reading
  <2>3. children[OwnerOf[Target]] \in Seq(Windows)
    BY <1>1 DEF TypeOK
  <2>4. PICK i \in 1..Len(children[OwnerOf[Target]]) : children[OwnerOf[Target]][i] = Target
    BY <2>2, <2>3, LenProperties DEF ToSet
  <2>5. ASSUME app' = OwnerOf[Target] PROVE Ahead'
    <3>1. i <= winCount' /\ \A k \in 1..i : ~(k < winIndex')
      BY <2>1, <2>3, <2>5
    <3>2. QED
      BY <2>1, <2>4, <2>5, <3>1 DEF Ahead
  <2>6. QED
    BY <1>1, <2>1, <2>5 DEF Followed, Reading
<1>5. CASE ReadWindow
  <2>1. /\ pc = "windows" /\ pc' = "windows" /\ winIndex' = winIndex + 1
        /\ UNCHANGED <<registry, children, fresh, lingering, app, winCount, seen, covered,
                       absent, shifted>>
    BY <1>5 DEF ReadWindow, historyVars, providerVars
  <2>2. app \in Apps /\ children[app] \in Seq(Windows) /\ winIndex \in 1..(winCount + 1)
    BY <1>1, <2>1 DEF TypeOK, InReach
  <2>3. winIndex \in Nat \ {0} /\ winCount \in Nat
    BY <1>1, FS_CardinalityType DEF TypeOK
  <2>4. /\ ToSet(found) \subseteq ToSet(found')
        /\ winIndex <= Len(children[app]) => children[app][winIndex] \in ToSet(found')
    <3>1. CASE winIndex <= Len(children[app])
      <4>1. children[app][winIndex] \in Windows
        BY <2>2, <2>3, <3>1
      <4>2. found' = Append(found, children[app][winIndex])
        BY <1>5, <3>1 DEF ReadWindow
      <4>3. found \in Seq(Windows)
        BY <1>1 DEF TypeOK
      <4>4. ToSet(found') = ToSet(found) \union {children[app][winIndex]}
        BY <4>1, <4>2, <4>3, Appended
      <4>5. QED
        BY <4>4
    <3>2. CASE ~(winIndex <= Len(children[app]))
      BY <1>5, <3>2 DEF ReadWindow
    <3>3. QED
      BY <3>1, <3>2
  <2>5. Blocked => Blocked'
    BY <2>1, <2>4 DEF Blocked, Dead
  <2>6. ASSUME Ahead PROVE Ahead'
    <3>1. PICK i \in 1..Len(children[app]) :
            /\ children[app][i] = Target /\ i <= winCount
            /\ \A k \in 1..i : k < winIndex => children[app][k] \in ToSet(found)
      BY <2>6 DEF Ahead
    <3>2. ASSUME NEW k \in 1..i, k < winIndex + 1 PROVE children[app][k] \in ToSet(found')
      <4>1. CASE k < winIndex
        BY <2>4, <3>1, <4>1
      <4>2. CASE k = winIndex
        BY <2>2, <2>4, <4>2
      <4>3. QED
        BY <2>3, <3>2, <4>1, <4>2
    <3>3. QED
      BY <2>1, <3>1, <3>2 DEF Ahead
  <2>7. QED
    BY <1>1, <2>1, <2>5, <2>6 DEF Followed, Reading
<1>6. CASE AskStates
  <2>1. /\ pc = "windows" /\ winIndex > winCount /\ pc' = "states"
        /\ UNCHANGED <<children, fresh, lingering, app, found, seen, covered, absent, shifted>>
    BY <1>6 DEF AskStates, historyVars, providerVars
  <2>2. winIndex \in Nat /\ winCount \in Nat /\ app \in Apps /\ children[app] \in Seq(Windows)
    BY <1>1, <2>1, FS_CardinalityType DEF TypeOK, InReach
  <2>3. Ahead => Target \in ToSet(found)
    BY <2>1, <2>2 DEF Ahead
  <2>4. Blocked' = Blocked
    BY <2>1 DEF Blocked, Dead
  <2>5. QED
    BY <1>1, <2>1, <2>3, <2>4 DEF Followed, Reading
<1>7. CASE ReadState
  <2>1. /\ pc = "states" /\ pc' = "states" /\ found # <<>> /\ Answers(Head(found))
        /\ seen' = seen \union ({Head(found)} \intersect showing) /\ found' = Tail(found)
        /\ UNCHANGED <<children, fresh, lingering, app, covered, absent, shifted>>
    BY <1>7 DEF ReadState, historyVars, providerVars
  <2>2. ToSet(found) = ToSet(Tail(found)) \union {Head(found)}
    <3>1. found \in Seq(Windows) /\ Len(found) > 0 /\ Head(found) = found[1]
      BY <1>1, <2>1 DEF TypeOK
    <3>2. /\ Tail(found) \in Seq(Windows) /\ Len(Tail(found)) = Len(found) - 1
          /\ \A i \in 1..Len(Tail(found)) : Tail(found)[i] = found[i + 1]
      BY <2>1, <3>1, HeadTailProperties
    <3>3. ASSUME NEW i \in 1..Len(found), i # 1 PROVE found[i] \in ToSet(Tail(found))
      <4>1. i - 1 \in 1..Len(Tail(found)) /\ Tail(found)[i - 1] = found[i]
        BY <3>1, <3>2, <3>3
      <4>2. QED
        BY <3>2, <4>1, LenProperties DEF ToSet
    <3>4. ToSet(Tail(found)) \subseteq ToSet(found)
      BY <3>1, <3>2, LenProperties DEF ToSet
    <3>5. QED
      BY <3>1, <3>3, <3>4, LenProperties DEF ToSet
  <2>3. Blocked => Blocked'
    BY <2>1, <2>2 DEF Blocked, Dead, Answers
  <2>4. Target \in ToSet(found) => Target \in ToSet(found') \union seen'
    BY <1>1, <2>1, <2>2 DEF InSight, TargetShown, Reading
  <2>5. QED
    BY <1>1, <2>1, <2>3, <2>4 DEF Followed, Reading
<1>8. CASE LeaveApp
  <2>1. /\ pc = "states" /\ found = <<>> /\ pc' = "apps" /\ covered' = covered \union {app}
        /\ UNCHANGED <<seen, absent, shifted>>
    BY <1>8 DEF LeaveApp
  <2>2. ToSet(found) = {}
    BY <2>1 DEF ToSet
  <2>3. QED
    BY <1>1, <2>1, <2>2 DEF Followed, Blocked, Reading
<1>9. CASE Expired \/ ReadScope \/ Refused \/ Truncated \/ Judge
  BY <1>9 DEF Expired, ReadScope, Refused, Truncated, Judge, Reading
<1>10. CASE DeadlinePasses \/ Departs \/ UNCHANGED vars
  BY <1>1, <1>10 DEF Followed, Blocked, Dead, Ahead, DeadlinePasses, Departs, Depart, vars,
                     cursorVars,
                     historyVars, providerVars
<1>11. QED
  BY <1>2, <1>3, <1>4, <1>5, <1>6, <1>7, <1>8, <1>9, <1>10 DEF Observer

LEMMA CauseStays == Inv /\ [Next]_vars => AbsenceHasCause'
<1> SUFFICES ASSUME Inv, [Next]_vars, pc' = "closed",
                    ~absent', ~shifted', OwnerOf[Target] \in owned' \union belongs'
             PROVE  FALSE
  BY DEF AbsenceHasCause
<1> USE OwnersAssumption
<1>1. TypeOK /\ InReach /\ InScope /\ InSight /\ Followed /\ AbsenceHasCause
  BY DEF Inv
<1>2. CASE Judge
  <2>1. /\ pc = "apps" /\ appIndex = 0 /\ ~absent /\ ~shifted
        /\ OwnerOf[Target] \in owned \union belongs
        /\ Target \notin seen \/ owned \intersect ToSet(registry) = {}
    BY <1>2 DEF Judge, historyVars, providerVars
  <2>2. OwnerOf[Target] \in owned
    BY <1>1, <2>1 DEF InScope, Reading
  <2>3. TargetShown /\ OwnerOf[Target] \in stayed
    BY <1>1, <2>1, <2>2 DEF InSight, Reading
  <2>4. OwnerOf[Target] \in owned \intersect ToSet(registry)
    BY <2>2, <2>3 DEF TargetShown, Present
  <2>5. registry \in Seq(Apps) /\ DOMAIN registry = 1..Len(registry)
    BY <1>1, LenProperties DEF TypeOK
  <2>6. PICK i \in 1..Len(registry) : registry[i] = OwnerOf[Target]
    BY <2>4, <2>5 DEF ToSet
  <2>7. OwnerOf[Target] \in covered
    BY <1>1, <2>1, <2>3, <2>5, <2>6 DEF InReach
  <2>8. Target \in seen
    BY <1>1, <2>1, <2>7 DEF Followed, Reading
  <2>9. QED
    BY <2>1, <2>4, <2>8
<1>3. CASE DeadlinePasses \/ Departs \/ UNCHANGED vars
  <2>1. CASE DeadlinePasses \/ Departs
    BY <2>1 DEF DeadlinePasses, Departs, Depart, Running, Ended
  <2>2. CASE UNCHANGED vars
    BY <1>1, <2>2 DEF AbsenceHasCause, vars, historyVars, providerVars
  <2>3. QED
    BY <1>3, <2>1, <2>2
<1>4. CASE Provider
  <2>1. pc' = pc /\ Running
    BY <1>4 DEF Provider, Register, Unregister, Publish, Withdraw, Toggle, Remember
  <2>2. QED
    BY <2>1 DEF Running, Ended
<1>5. ~(\/ ReadScope \/ Expired \/ Start \/ SkipApp \/ EnterApp \/ ReadWindow \/ AskStates
        \/ ReadState \/ LeaveApp \/ Refused \/ Truncated)
  BY DEF ReadScope, Expired, Start, SkipApp, EnterApp, ReadWindow, AskStates, ReadState,
         LeaveApp, Refused, Truncated
<1>6. QED
  BY <1>2, <1>3, <1>4, <1>5 DEF Next, Observer, Departs

(* The inductive invariant holds of every reachable state: what the         *)
(* providers and wait_for_window_change do keeps it, step by step.          *)
THEOREM Inductive == Spec => []Inv
<1>1. Inv /\ [Next]_vars => Inv'
  <2> SUFFICES ASSUME Inv, [Next]_vars PROVE Inv'
    OBVIOUS
  <2>1. Next \/ UNCHANGED vars
    OBVIOUS
  <2>2. TypeOK'
    <3>1. CASE UNCHANGED vars
      BY <3>1 DEF Inv, TypeOK, vars, cursorVars, historyVars, providerVars
    <3>2. QED
      BY <2>1, <3>1, ProviderTyped, ObserverTyped DEF Next, Departs
  <2>3. Followed'
    BY <2>1, FollowedByProvider, FollowedByObserver DEF Next, Departs
  <2>4. QED
    BY <2>2, <2>3, OnceStays, InReachStays, InScopeStays, InSightStays, CauseStays DEF Inv
<1>2. QED
  BY InitInv, <1>1, PTL DEF Spec

(* Indices and counts stay within the applications and windows there are,   *)
(* and no list holds a child twice.                                         *)
THEOREM TypeCorrect == Spec => []TypeOK
<1>1. Inv => TypeOK
  BY DEF Inv
<1>2. QED
  BY Inductive, <1>1, PTL

(* Reading newest first over the count taken at the start, a scan reads     *)
(* every application of its scope that stays registered, in whatever order  *)
(* others register and leave while it runs.                                 *)
THEOREM NoAppIsMissed == Spec => []NoAppMissed
<1>1. Inv => NoAppMissed
  <2> SUFFICES ASSUME Inv, pc = "apps", appIndex = 0, NEW a \in stayed PROVE a \in covered
    BY DEF NoAppMissed
  <2>1. registry \in Seq(Apps) /\ a \in ToSet(registry)
    BY DEF Inv, TypeOK, InReach
  <2>2. PICK i \in 1..Len(registry) : registry[i] = a
    BY <2>1, LenProperties DEF ToSet
  <2>3. QED
    BY <2>1, <2>2 DEF Inv, InReach
<1>2. QED
  BY Inductive, <1>1, PTL

(* The close observer reports the target closed only when it was missing at *)
(* some moment of the scan, when an older sibling left the list while its   *)
(* object still answers, or when its application had left the launch before *)
(* the scope was listed: no other interleaving of the reads with the        *)
(* providers turns a window that stayed into an absence.                    *)
THEOREM AbsenceIsCaused == Spec => []AbsenceHasCause
<1>1. Inv => AbsenceHasCause
  BY DEF Inv
<1>2. QED
  BY Inductive, <1>1, PTL

-----------------------------------------------------------------------------

(***************************************************************************)
(* The search for a control reads the same registry (WidgetSearch opens up *)
(* the windows, WindowScan how they are listed), with a state of its own:  *)
(* what is proved is proved for any tree and any changes of it.            *)
(***************************************************************************)

(* The tree: who has whom below it, and every application once.  What       *)
(* exited has nothing.                                                      *)
TreeTypes ==
  /\ kids \in [Nodes -> Seq(Nodes \ {Desktop})]
  /\ \A i, j \in DOMAIN kids[Desktop] : kids[Desktop][i] = kids[Desktop][j] => i = j
  /\ \A n \in Nodes : \A i \in DOMAIN kids[n] : n \in Parents[kids[n][i]]
  /\ visible \subseteq Nodes /\ changes \in 0..MaxChanges
  /\ exited \subseteq Apps /\ \A a \in exited : DOMAIN kids[a] = {}

(* Where the search is, and what it holds there.                            *)
WorkTypes ==
  IF mode = "witness" THEN work \in Seq(Inner)
  ELSE work \in Seq([of : Inner, next : Nat, count : Nat])
CursorTypes ==
  /\ mode \in Modes /\ hint \in Nat /\ over \in BOOLEAN /\ broken \in BOOLEAN
  /\ scoped \in BOOLEAN /\ allowed \subseteq Apps /\ slipped \subseteq Apps
  /\ stage \in {"poll"} \union Searching \union SearchEnded
  /\ order \in Seq(Nat) /\ reading \in Apps \union {NoNode} /\ wins \in Seq(Windows)
  /\ visited \subseteq Inner /\ matches \subseteq Windows \X Matching
  /\ answer \in Matching \union {NoNode} /\ (stage = "passed" <=> answer # NoNode)
  /\ stage = "apps" => reading = NoNode /\ wins = <<>>
  /\ stage \in {"windows", "window"} => reading \in allowed
  /\ stage = "window" => wins # <<>> /\ WorkTypes
  /\ broken => mode = "witness"

(* What matched was shown, and the history knows all that is.               *)
Remembered ==
  /\ shown \subseteq Matching /\ \A f \in matches : f[2] \in shown
  /\ stage \in Searching => Shown \subseteq shown

(* A steady link is there.                                                  *)
Linked ==
  \A l \in steady :
    /\ l = <<l[1], l[2]>> /\ l[1] \in Nodes /\ l[2] \in visible
    /\ \E i \in DOMAIN kids[l[1]] : kids[l[1]][i] = l[2]

(* In a scope, the indexes still to read go down to the first; only the     *)
(* hint is out of its place, and without one no application slips past.     *)
Backwards ==
  scoped =>
    /\ \A k \in DOMAIN order : order[k] > 1 =>
         order[k] - 1 = hint \/ \E m \in DOMAIN order : order[m] = order[k] - 1
    /\ \A k, m \in DOMAIN order : k < m => order[k] > order[m] \/ order[k] = hint
    /\ hint = 0 => slipped = {}

(* A set holds what was searched: its matches were found, no steady link    *)
(* leads out of it, and the windows of the steady applications that did not *)
(* slip past the scan are in it, or will be searched.                       *)
Unread(a) ==
  \E k \in DOMAIN order : order[k] \in DOMAIN kids[Desktop] /\ kids[Desktop][order[k]] = a
Due(a, w) ==
  \/ a = reading /\ \E j \in DOMAIN wins : wins[j] = w
  \/ a # reading /\ Unread(a)
Reckoned(a) == a \in allowed /\ (a \notin slipped \/ a = reading)
Searched(D) ==
  /\ D \subseteq Inner /\ \A c \in D : c \in Matching => \E f \in matches : f[2] = c
  /\ \A l \in steady : l[1] \in D => l[2] \in D
  /\ \A l \in steady :
       Reckoned(l[1]) /\ <<Desktop, l[1]>> \in steady => l[2] \in D \/ Due(l[1], l[2])
Coverage == stage \in Searching /\ ~broken => \E D \in SUBSET Inner : Searched(D)

(* In a window: what was visited and has its place, its children are        *)
(* visited or queued, and if it matches it was found.                       *)
Placed(v) == \E l \in steady : l[2] = v
Queued(v, c) ==
  IF mode = "witness" THEN \E k \in DOMAIN work : work[k] = c
  ELSE \E k \in DOMAIN work : \E i \in DOMAIN kids[v] :
         /\ work[k].of = v /\ work[k].next <= i /\ i <= work[k].count /\ kids[v][i] = c
InWindow ==
  stage = "window" /\ ~broken =>
    /\ wins[1] \in visited
    /\ \A l \in steady :
         l[1] \in visited /\ Placed(l[1]) => l[2] \in visited \/ Queued(l[1], l[2])
    /\ \A v \in visited : v \in Matching /\ Placed(v) => \E f \in matches : f[2] = v

SearchInv ==
  /\ TreeTypes /\ CursorTypes /\ Remembered /\ Linked /\ Backwards /\ Coverage /\ InWindow
  /\ PassedIsUnique /\ AbsenceIsComplete /\ AmbiguityIsReal

(* A sequence with one element less, and with one more.                     *)
Without(r, s, i) ==
  /\ DOMAIN r = 1..(Len(s) - 1)
  /\ \A k \in 1..(Len(s) - 1) : r[k] = IF k < i THEN s[k] ELSE s[k + 1]
With(r, s, i, e) ==
  /\ DOMAIN r = 1..(Len(s) + 1)
  /\ \A k \in 1..(Len(s) + 1) :
       /\ k < i => r[k] = s[k]
       /\ k = i => r[k] = e
       /\ k > i => r[k] = s[k - 1]

LEMMA Removing ==
  ASSUME NEW S, NEW s \in Seq(S), NEW i \in 1..Len(s)
  PROVE  RemoveAt(s, i) \in Seq(S) /\ Without(RemoveAt(s, i), s, i)
<1>1. /\ RemoveAt(s, i) \in Seq(S) /\ Len(RemoveAt(s, i)) = Len(s) - 1
      /\ \A k \in 1..(Len(s) - 1) : RemoveAt(s, i)[k] = IF k < i THEN s[k] ELSE s[k + 1]
  BY RemoveAtProperties
<1>2. DOMAIN RemoveAt(s, i) = 1..(Len(s) - 1)
  BY <1>1, LenProperties
<1>3. QED
  BY <1>1, <1>2 DEF Without

(* Adding one element to a sequence moves the later ones up by one.         *)
LEMMA Inserting ==
  ASSUME NEW S, NEW s \in Seq(S), NEW e \in S, NEW i \in 1..(Len(s) + 1)
  PROVE  InsertAt(s, i, e) \in Seq(S) /\ With(InsertAt(s, i, e), s, i, e)
<1> DEFINE a == SubSeq(s, 1, i - 1)
           m == <<e>>
           b == SubSeq(s, i, Len(s))
<1>1. a \in Seq(S) /\ Len(a) = i - 1 /\ \A k \in 1..(i - 1) : a[k] = s[k]
  <2>1. \A k \in 1..(i - 1) : s[k] \in S
    OBVIOUS
  <2>2. QED
    BY <2>1, SubSeqProperties
<1>2. b \in Seq(S) /\ Len(b) = Len(s) - i + 1 /\ \A k \in 1..(Len(s) - i + 1) : b[k] = s[i + k - 1]
  <2>1. \A k \in i..Len(s) : s[k] \in S
    OBVIOUS
  <2>2. i \in Int /\ Len(s) \in Nat /\ (i <= Len(s) \/ i = Len(s) + 1)
    OBVIOUS
  <2>3. QED
    BY <2>1, <2>2, SubSeqProperties
<1>3. m \in Seq(S) /\ Len(m) = 1 /\ m[1] = e
  OBVIOUS
<1>4. InsertAt(s, i, e) = (a \o m) \o b
  BY DEF InsertAt
<1> HIDE DEF a, m, b
<1>5. /\ a \o m \in Seq(S) /\ Len(a \o m) = i
      /\ \A k \in 1..i : (a \o m)[k] = IF k < i THEN s[k] ELSE e
  <2>1. /\ a \o m \in Seq(S) /\ Len(a \o m) = Len(a) + Len(m)
        /\ \A k \in 1..(Len(a) + Len(m)) :
             (a \o m)[k] = IF k <= Len(a) THEN a[k] ELSE m[k - Len(a)]
    BY <1>1, <1>3, ConcatProperties
  <2>2. QED
    BY <2>1, <1>1, <1>3
<1>6. /\ (a \o m) \o b \in Seq(S) /\ Len((a \o m) \o b) = Len(s) + 1
      /\ \A k \in 1..(Len(s) + 1) :
           ((a \o m) \o b)[k] = IF k <= i THEN (a \o m)[k] ELSE b[k - i]
  <2> DEFINE t == a \o m
  <2>1. t \in Seq(S) /\ Len(t) = i
    BY <1>5
  <2> HIDE DEF t
  <2>2. /\ t \o b \in Seq(S) /\ Len(t \o b) = Len(t) + Len(b)
        /\ \A k \in 1..(Len(t) + Len(b)) :
             (t \o b)[k] = IF k <= Len(t) THEN t[k] ELSE b[k - Len(t)]
    BY <2>1, <1>2, ConcatProperties
  <2>3. Len(t) + Len(b) = Len(s) + 1
    BY <2>1, <1>2
  <2>4. QED
    BY <2>1, <2>2, <2>3 DEF t
<1>7. ASSUME NEW k \in 1..(Len(s) + 1), k > i PROVE b[k - i] = s[k - 1]
  <2>1. k - i \in 1..(Len(s) - i + 1) /\ i + (k - i) - 1 = k - 1
    BY <1>7
  <2>2. QED
    BY <2>1, <1>2
<1>8. DOMAIN ((a \o m) \o b) = 1..(Len(s) + 1)
  BY <1>6, LenProperties
<1>9. PICK r : r = (a \o m) \o b
  OBVIOUS
<1>10. \A k \in 1..(Len(s) + 1) :
         /\ k < i => r[k] = s[k]
         /\ k = i => r[k] = e
         /\ k > i => r[k] = s[k - 1]
  BY <1>5, <1>6, <1>7, <1>9
<1>11. QED
  BY <1>4, <1>6, <1>8, <1>9, <1>10 DEF With

(* An application has windows below it, and these have windows and controls.*)
LEMMA Below ==
  ASSUME TreeTypes, NEW n \in Nodes
  PROVE  /\ kids[n] \in Seq(Nodes \ {Desktop}) /\ DOMAIN kids[n] = 1..Len(kids[n])
         /\ Len(kids[n]) \in Nat
         /\ \A i \in DOMAIN kids[n] :
              /\ kids[n][i] \in Nodes \ {Desktop}
              /\ n \in Apps => kids[n][i] \in Windows
              /\ n \in Inner => kids[n][i] \in Inner
              /\ n = Desktop => kids[n][i] \in Apps
<1>1. /\ kids[n] \in Seq(Nodes \ {Desktop}) /\ DOMAIN kids[n] = 1..Len(kids[n])
      /\ Len(kids[n]) \in Nat
  BY LenProperties DEF TreeTypes
<1>2. ASSUME NEW i \in DOMAIN kids[n]
      PROVE  kids[n][i] \in Nodes \ {Desktop} /\ n \in Parents[kids[n][i]]
  BY <1>1, <1>2, ElementOfSeq DEF TreeTypes
<1>3. /\ \A c \in Apps : Parents[c] \subseteq {Desktop}
      /\ \A c \in Windows : Desktop \notin Parents[c]
      /\ \A c \in Controls : Parents[c] \subseteq Windows \union Controls
      /\ Desktop \notin Apps \union Windows \union Controls
      /\ Apps \intersect (Windows \union Controls) = {}
  BY SearchAssumption
<1>4. QED
  BY <1>1, <1>2, <1>3 DEF Nodes, Inner

(* What the links are.                                                      *)
LEMMA LinkFacts ==
  ASSUME TreeTypes
  PROVE  /\ \A l \in Links :
              /\ l = <<l[1], l[2]>> /\ l[1] \in Nodes /\ l[2] \in visible
              /\ \E i \in DOMAIN kids[l[1]] : kids[l[1]][i] = l[2]
  BY DEF Links, ToSet, TreeTypes

(* A match that can be seen is known.                                       *)
LEMMA ShownFacts ==
  /\ \A c \in Shown : c \in Matching
  /\ \A p \in Nodes, c \in Matching :
       c \in visible /\ (\E i \in DOMAIN kids[p] : kids[p][i] = c) => c \in Shown
  BY DEF Shown, ToSet

LEMMA SearchBegins == SearchInit => SearchInv
<1> SUFFICES ASSUME SearchInit PROVE SearchInv
  OBVIOUS
<1>1. /\ stage = "poll" /\ over = FALSE /\ answer = NoNode /\ steady = {} /\ shown = {}
      /\ order = <<>> /\ reading = NoNode /\ wins = <<>> /\ visited = {}
      /\ matches = {} /\ broken = FALSE /\ mode \in Modes /\ hint \in Nat
      /\ scoped \in BOOLEAN /\ allowed = {} /\ slipped = {} /\ exited = {}
  BY SearchAssumption DEF SearchInit, Idle
<1>2. TreeTypes
  BY <1>1, SearchAssumption DEF SearchInit, IsInjective, TreeTypes
<1>3. CursorTypes
  <2>1. NoNode \notin Matching
    BY SearchAssumption DEF Nodes
  <2>2. order \in Seq(Nat) /\ wins \in Seq(Windows)
    BY <1>1, EmptySeq
  <2>3. QED
    BY <1>1, <2>1, <2>2 DEF CursorTypes
<1>4. Remembered /\ Linked /\ Backwards /\ Coverage /\ InWindow
  BY <1>1 DEF Remembered, Linked, Backwards, Coverage, InWindow, Searching
<1>5. QED
  BY <1>1, <1>2, <1>3, <1>4 DEF SearchInv, PassedIsUnique, AbsenceIsComplete,
     AmbiguityIsReal

(* What a change of the tree keeps: a link that stays steady stays at its   *)
(* index, and an application that is still to be read remains so or slips.  *)
InPlace ==
  /\ \A l \in steady' : l \in steady
  /\ \A l \in steady' : l[1] # Desktop =>
       \A i \in DOMAIN kids[l[1]] : kids[l[1]][i] = l[2] =>
         i \in DOMAIN kids'[l[1]] /\ kids'[l[1]][i] = l[2]
  /\ \A l \in steady' :
       l[1] = Desktop /\ Unread(l[2]) => Unread(l[2])' \/ l[2] \in slipped'
  /\ slipped \subseteq slipped' /\ slipped' \subseteq Apps
  /\ scoped /\ hint = 0 => slipped' = slipped

LEMMA LeaveMoves ==
  ASSUME TreeTypes, CursorTypes, Linked, Backwards,
         NEW p \in Nodes, NEW i \in DOMAIN kids[p], Leave(p, i),
         changes < MaxChanges
  PROVE  TreeTypes' /\ InPlace
<1> DEFINE s == kids[p]
           r == RemoveAt(s, i)
<1>1. /\ kids' = [kids EXCEPT ![p] = r] /\ visible' = visible /\ changes' = changes + 1
      /\ exited' = exited /\ steady' \subseteq steady \intersect Links'
      /\ p # Desktop => \A l \in steady' : l \notin Moved(p, i)
      /\ slipped' = slipped \union (IF p = Desktop THEN Passed(i) ELSE {})
      /\ order' = order
  BY DEF Leave, Changed, placeVars
<1>2. s \in Seq(Nodes \ {Desktop}) /\ DOMAIN s = 1..Len(s) /\ Len(s) \in Nat
  BY Below
<1>3. /\ r \in Seq(Nodes \ {Desktop}) /\ DOMAIN r = 1..(Len(s) - 1)
      /\ \A k \in 1..(Len(s) - 1) : r[k] = IF k < i THEN s[k] ELSE s[k + 1]
  <2>1. r \in Seq(Nodes \ {Desktop}) /\ Without(r, s, i)
    BY <1>2, Removing
  <2>2. QED
    BY <2>1 DEF Without
<1> HIDE DEF r
<1>4. kids'[p] = r /\ \A n \in Nodes : n # p => kids'[n] = kids[n]
  BY <1>1 DEF TreeTypes
<1>5. \A k \in DOMAIN r : \E j \in DOMAIN s : r[k] = s[j] /\ j = IF k < i THEN k ELSE k + 1
  BY <1>2, <1>3
<1>6. TreeTypes'
  <2>1. kids' \in [Nodes -> Seq(Nodes \ {Desktop})]
    BY <1>1, <1>3 DEF TreeTypes
  <2>2. \A a, b \in DOMAIN kids'[Desktop] : kids'[Desktop][a] = kids'[Desktop][b] => a = b
    <3>1. CASE p = Desktop
      <4>1. ASSUME NEW a \in DOMAIN r, NEW b \in DOMAIN r, r[a] = r[b] PROVE a = b
        <5>1. PICK x \in DOMAIN s : r[a] = s[x] /\ x = IF a < i THEN a ELSE a + 1
          BY <1>5
        <5>2. PICK y \in DOMAIN s : r[b] = s[y] /\ y = IF b < i THEN b ELSE b + 1
          BY <1>5
        <5>3. x = y
          BY <3>1, <4>1, <5>1, <5>2 DEF TreeTypes
        <5>4. a \in Int /\ b \in Int /\ i \in Int
          BY <1>2, <1>3
        <5>5. QED
          BY <5>1, <5>2, <5>3, <5>4
      <4>2. kids'[Desktop] = r
        BY <3>1, <1>4
      <4>3. QED
        BY <4>1, <4>2
    <3>2. CASE p # Desktop
      BY <3>2, <1>4 DEF TreeTypes, Nodes
    <3>3. QED
      BY <3>1, <3>2
  <2>3. ASSUME NEW n \in Nodes, NEW k \in DOMAIN kids'[n] PROVE n \in Parents[kids'[n][k]]
    <3>1. \A j \in DOMAIN kids[n] : n \in Parents[kids[n][j]]
      BY DEF TreeTypes
    <3>2. CASE n = p
      <4>1. kids'[n] = r
        BY <3>2, <1>4
      <4>2. PICK j \in DOMAIN s : r[k] = s[j]
        BY <4>1, <1>5
      <4>3. QED
        BY <3>1, <3>2, <4>1, <4>2
    <3>3. CASE n # p
      <4>1. kids'[n] = kids[n]
        BY <3>3, <1>4
      <4>2. QED
        BY <3>1, <4>1
    <3>4. QED
      BY <3>2, <3>3
  <2>4. changes' \in 0..MaxChanges
    BY <1>1, SearchAssumption DEF TreeTypes
  <2>5. \A a \in exited : DOMAIN kids'[a] = {}
    <3> TAKE a \in exited
    <3>1. a # p
      BY DEF TreeTypes
    <3>2. QED
      BY <3>1, <1>4 DEF TreeTypes, Nodes
  <2>6. QED
    BY <2>1, <2>2, <2>3, <2>4, <2>5, <1>1 DEF TreeTypes
<1>7. ASSUME NEW l \in steady', l[1] # Desktop, NEW k \in DOMAIN kids[l[1]],
             kids[l[1]][k] = l[2]
      PROVE  k \in DOMAIN kids'[l[1]] /\ kids'[l[1]][k] = l[2]
  <2>1. l = <<l[1], l[2]>> /\ l[1] \in Nodes /\ (p # Desktop => l \notin Moved(p, i))
    BY <1>1, <1>7 DEF Linked
  <2>2. CASE l[1] = p
    <3>1. ~(k >= i)
      BY <1>7, <2>1, <2>2 DEF Moved
    <3>2. k \in 1..(Len(s) - 1) /\ k < i
      BY <1>2, <1>7, <2>2, <3>1
    <3>3. QED
      BY <1>3, <1>4, <1>7, <2>2, <3>2
  <2>3. QED
    BY <1>4, <1>7, <2>1, <2>2
<1>8. ASSUME NEW l \in steady', l[1] = Desktop, Unread(l[2])
      PROVE  Unread(l[2])' \/ l[2] \in slipped'
  <2>1. l = <<Desktop, l[2]>> /\ l \in Links'
    BY <1>1, <1>8 DEF Linked
  <2>2. PICK k \in DOMAIN order :
          order[k] \in DOMAIN kids[Desktop] /\ kids[Desktop][order[k]] = l[2]
    BY <1>8 DEF Unread
  <2>3. CASE p # Desktop
    BY <2>2, <2>3, <1>1, <1>4 DEF Unread, Nodes
  <2>4. CASE p = Desktop
    <3>1. order[k] \in 1..Len(s) /\ s[order[k]] = l[2] /\ i \in 1..Len(s)
      BY <2>2, <2>4, <1>2
    <3>2. order[k] # i
      <4>1. PICK j \in DOMAIN kids'[Desktop] : kids'[Desktop][j] = l[2]
        BY <2>1, <1>6 DEF Links, ToSet, TreeTypes, Nodes
      <4>2. PICK x \in DOMAIN s : r[j] = s[x] /\ x # i
        <5>1. j \in DOMAIN r
          BY <4>1, <2>4, <1>4
        <5>2. QED
          BY <5>1, <1>2, <1>3, <1>5
      <4>3. s[x] = s[order[k]]
        BY <4>1, <4>2, <3>1, <2>4, <1>4
      <4>4. QED
        BY <4>2, <4>3, <3>1, <2>4, <1>2 DEF TreeTypes
    <3>3. CASE order[k] < i
      <4>1. order[k] \in DOMAIN r /\ r[order[k]] = l[2]
        BY <3>1, <3>3, <1>2, <1>3
      <4>2. QED
        BY <4>1, <2>4, <1>1, <1>4 DEF Unread
    <3>4. CASE order[k] > i
      <4>1. order[k] - 1 \in DOMAIN r /\ r[order[k] - 1] = l[2] /\ order[k] > 1
        BY <3>1, <3>4, <1>2, <1>3
      <4>2. CASE \E m \in DOMAIN order : order[m] = order[k] - 1
        BY <4>1, <4>2, <2>4, <1>1, <1>4 DEF Unread
      <4>3. CASE ~\E m \in DOMAIN order : order[m] = order[k] - 1
        <5>1. order[k] \in ToSet(order) /\ order[k] - 1 \notin ToSet(order)
          BY <2>2, <4>3 DEF ToSet
        <5>2. l[2] \in Passed(i)
          BY <5>1, <2>2, <3>4 DEF Passed
        <5>3. QED
          BY <5>2, <2>4, <1>1
      <4>4. QED
        BY <4>2, <4>3
    <3>5. QED
      BY <3>1, <3>2, <3>3, <3>4, <1>2
  <2>5. QED
    BY <2>3, <2>4
<1>9. /\ slipped' \subseteq Apps
      /\ scoped /\ hint = 0 => slipped' = slipped
  <2>1. Passed(i) \subseteq Apps
    <3>1. \A j \in DOMAIN kids[Desktop] : kids[Desktop][j] \in Apps
      BY Below DEF Nodes
    <3>2. QED
      BY <3>1 DEF Passed
  <2>2. ASSUME scoped, hint = 0, p = Desktop PROVE Passed(i) = {}
    <3> SUFFICES ASSUME NEW k \in DOMAIN order, order[k] \in DOMAIN kids[Desktop], order[k] > i
                 PROVE  \E m \in DOMAIN order : order[m] = order[k] - 1
      BY DEF Passed, ToSet
    <3>1. order[k] > 1 /\ order[k] - 1 # hint
      BY <2>2, <1>2
    <3>2. QED
      BY <2>2, <3>1 DEF Backwards
  <2>3. QED
    BY <2>1, <2>2, <1>1 DEF CursorTypes
<1>10. QED
  BY <1>1, <1>6, <1>7, <1>8, <1>9 DEF InPlace

LEMMA JoinMoves ==
  ASSUME TreeTypes, CursorTypes, Linked, Backwards,
         NEW n \in DOMAIN Parents, NEW p \in Parents[n], NEW i \in 1..(Len(kids[p]) + 1),
         Join(p, i, n), changes < MaxChanges
  PROVE  TreeTypes' /\ InPlace
<1> DEFINE s == kids[p]
           r == InsertAt(s, i, n)
<1>0. p \in Nodes /\ n \in Nodes \ {Desktop}
  BY SearchAssumption
<1>1. /\ kids' = [kids EXCEPT ![p] = r] /\ visible' = visible /\ changes' = changes + 1
      /\ steady' = {l \in steady \intersect Links' :
                      l \notin (IF p = Desktop THEN {} ELSE Moved(p, i))}
      /\ order' = order /\ slipped' = slipped /\ (p = Desktop => i = Len(s) + 1)
      /\ exited' = exited /\ p \notin exited
      /\ \A j \in DOMAIN s : s[j] # n
  BY DEF Join, Changed, placeVars, ToSet
<1>2. s \in Seq(Nodes \ {Desktop}) /\ DOMAIN s = 1..Len(s) /\ Len(s) \in Nat
  BY <1>0, Below
<1>3. /\ r \in Seq(Nodes \ {Desktop}) /\ DOMAIN r = 1..(Len(s) + 1)
      /\ \A k \in 1..(Len(s) + 1) :
           (k < i => r[k] = s[k]) /\ (k = i => r[k] = n) /\ (k > i => r[k] = s[k - 1])
  <2> DEFINE S == Nodes \ {Desktop}
  <2>1. s \in Seq(S) /\ n \in S /\ i \in 1..(Len(s) + 1)
    BY <1>0, <1>2
  <2> HIDE DEF S, s
  <2>2. r \in Seq(S) /\ With(r, s, i, n)
    BY <2>1, Inserting
  <2>3. QED
    BY <2>2 DEF S, With
<1> HIDE DEF r
<1>4. kids'[p] = r /\ \A q \in Nodes : q # p => kids'[q] = kids[q]
  BY <1>0, <1>1 DEF TreeTypes
<1>5. \A k \in DOMAIN r : r[k] = n \/ \E j \in DOMAIN s : r[k] = s[j]
  <2> TAKE k \in DOMAIN r
  <2>1. CASE k < i
    <3>1. k \in DOMAIN s /\ r[k] = s[k]
      BY <2>1, <1>2, <1>3
    <3>2. QED
      BY <3>1
  <2>2. CASE k > i
    <3>1. k - 1 \in DOMAIN s /\ r[k] = s[k - 1]
      BY <2>2, <1>2, <1>3
    <3>2. QED
      BY <3>1
  <2>3. QED
    BY <2>1, <2>2, <1>3
<1>6. TreeTypes'
  <2>1. kids' \in [Nodes -> Seq(Nodes \ {Desktop})]
    BY <1>1, <1>3 DEF TreeTypes
  <2>2. \A a, b \in DOMAIN kids'[Desktop] : kids'[Desktop][a] = kids'[Desktop][b] => a = b
    <3>1. CASE p = Desktop
      <4>1. i = Len(s) + 1 /\ \A k \in 1..Len(s) : r[k] = s[k]
        BY <3>1, <1>1, <1>2, <1>3
      <4>2. r[i] = n /\ DOMAIN r = (DOMAIN s) \union {i} /\ i \notin DOMAIN s
        BY <4>1, <1>2, <1>3
      <4>3. \A a, b \in DOMAIN s : s[a] = s[b] => a = b
        BY <3>1 DEF TreeTypes
      <4>4. \A a, b \in DOMAIN r : r[a] = r[b] => a = b
        BY <4>1, <4>2, <4>3, <1>1, <1>2
      <4>5. QED
        BY <4>4, <3>1, <1>4
    <3>2. CASE p # Desktop
      BY <3>2, <1>4 DEF TreeTypes, Nodes
    <3>3. QED
      BY <3>1, <3>2
  <2>3. ASSUME NEW q \in Nodes, NEW k \in DOMAIN kids'[q]
        PROVE  q \in Parents[kids'[q][k]]
    <3>1. CASE q = p
      BY <3>1, <1>0, <1>4, <1>5 DEF TreeTypes
    <3>2. CASE q # p
      BY <3>2, <1>4 DEF TreeTypes
    <3>3. QED
      BY <3>1, <3>2
  <2>4. changes' \in 0..MaxChanges
    BY <1>1, SearchAssumption DEF TreeTypes
  <2>5. \A a \in exited : DOMAIN kids'[a] = {}
    BY <1>1, <1>4 DEF TreeTypes, Nodes
  <2>6. QED
    BY <2>1, <2>2, <2>3, <2>4, <2>5, <1>1 DEF TreeTypes
<1>7. ASSUME NEW l \in steady', l[1] # Desktop, NEW k \in DOMAIN kids[l[1]],
             kids[l[1]][k] = l[2]
      PROVE  k \in DOMAIN kids'[l[1]] /\ kids'[l[1]][k] = l[2]
  <2>1. l = <<l[1], l[2]>> /\ l[1] \in Nodes
    BY <1>1, <1>7 DEF Linked
  <2>2. CASE l[1] = p
    <3>0. l \notin Moved(p, i)
      BY <1>1, <1>7, <2>2
    <3>1. ~(k >= i)
      BY <1>7, <2>1, <2>2, <3>0 DEF Moved
    <3>2. k \in 1..(Len(s) + 1) /\ k < i
      BY <1>2, <1>7, <2>2, <3>1
    <3>3. QED
      BY <1>3, <1>4, <1>7, <2>2, <3>2
  <2>3. QED
    BY <1>4, <1>7, <2>1, <2>2
<1>8. ASSUME NEW l \in steady', l[1] = Desktop, Unread(l[2])
      PROVE  Unread(l[2])'
  <2>1. PICK k \in DOMAIN order :
          order[k] \in DOMAIN kids[Desktop] /\ kids[Desktop][order[k]] = l[2]
    BY <1>8 DEF Unread
  <2>2. order[k] \in DOMAIN kids'[Desktop] /\ kids'[Desktop][order[k]] = l[2]
    <3>1. CASE p = Desktop
      <4>1. i = Len(s) + 1 /\ \A j \in 1..Len(s) : r[j] = s[j]
        BY <3>1, <1>1, <1>2, <1>3
      <4>2. QED
        BY <4>1, <3>1, <2>1, <1>2, <1>3, <1>4
    <3>2. CASE p # Desktop
      BY <3>2, <2>1, <1>4 DEF Nodes
    <3>3. QED
      BY <3>1, <3>2
  <2>3. QED
    BY <2>2, <1>1 DEF Unread
<1>9. slipped' \subseteq Apps
  BY <1>1 DEF CursorTypes
<1>10. QED
  BY <1>1, <1>6, <1>7, <1>8, <1>9 DEF InPlace

LEMMA ExitMoves ==
  ASSUME TreeTypes, CursorTypes, Linked, NEW a \in Apps, Exit(a), changes < MaxChanges
  PROVE  TreeTypes' /\ InPlace
<1>1. /\ kids' = [kids EXCEPT ![a] = <<>>] /\ visible' = visible /\ changes' = changes + 1
      /\ exited' = exited \union {a} /\ steady' \subseteq steady \intersect Links'
      /\ order' = order /\ slipped' = slipped
  BY DEF Exit, Changed, placeVars
<1>2. DOMAIN kids'[a] = {} /\ \A n \in Nodes : n # a => kids'[n] = kids[n]
  <2>1. a \in Nodes
    BY DEF Nodes
  <2>2. kids'[a] = <<>>
    BY <1>1, <2>1 DEF TreeTypes
  <2>3. QED
    BY <1>1, <2>2 DEF TreeTypes
<1>3. Desktop # a
  BY SearchAssumption
<1>4. TreeTypes'
  <2>1. kids' \in [Nodes -> Seq(Nodes \ {Desktop})]
    <3>1. <<>> \in Seq(Nodes \ {Desktop})
      BY EmptySeq
    <3>2. QED
      BY <1>1, <3>1 DEF TreeTypes
  <2>2. changes' \in 0..MaxChanges
    BY <1>1, SearchAssumption DEF TreeTypes
  <2>3. \A i, j \in DOMAIN kids'[Desktop] : kids'[Desktop][i] = kids'[Desktop][j] => i = j
    BY <1>2, <1>3 DEF TreeTypes, Nodes
  <2>4. \A n \in Nodes : \A i \in DOMAIN kids'[n] : n \in Parents[kids'[n][i]]
    BY <1>2 DEF TreeTypes
  <2>5. \A b \in exited' : DOMAIN kids'[b] = {}
    BY <1>1, <1>2 DEF TreeTypes, Nodes
  <2>6. QED
    BY <1>1, <2>1, <2>2, <2>3, <2>4, <2>5 DEF TreeTypes
<1>5. ASSUME NEW l \in steady' PROVE l[1] # a /\ l[1] \in Nodes
  <2>1. l \in Links' /\ l[1] \in Nodes
    BY <1>1 DEF Linked
  <2>2. \E i \in DOMAIN kids'[l[1]] : kids'[l[1]][i] = l[2]
    BY <2>1 DEF Links, ToSet
  <2>3. QED
    BY <1>2, <2>1, <2>2
<1>6. \A l \in steady' : kids'[l[1]] = kids[l[1]]
  BY <1>2, <1>5
<1>7. \A b : Unread(b)' = Unread(b)
  BY <1>1, <1>2, <1>3 DEF Unread, Nodes
<1>8. QED
  BY <1>1, <1>4, <1>6, <1>7 DEF InPlace, CursorTypes

LEMMA ToggleMoves ==
  ASSUME TreeTypes, CursorTypes,
         NEW n \in Windows \union Controls, HideOrShow(n), changes < MaxChanges
  PROVE  TreeTypes' /\ InPlace
<1>1. /\ kids' = kids /\ visible' \subseteq visible \union {n} /\ changes' = changes + 1
      /\ steady' \subseteq steady /\ order' = order /\ exited' = exited /\ slipped' = slipped
  BY DEF HideOrShow, Changed, placeVars
<1>2. changes' \in 0..MaxChanges
  BY <1>1, SearchAssumption DEF TreeTypes
<1>3. TreeTypes'
  BY <1>1, <1>2 DEF TreeTypes, Nodes
<1>4. InPlace
  BY <1>1 DEF InPlace, Unread, CursorTypes
<1>5. QED
  BY <1>3, <1>4

(* Whatever changes in the tree, the search knows no less of what is        *)
(* steady.                                                                  *)
LEMMA ApplicationKeeps ==
  ASSUME SearchInv, Application
  PROVE  SearchInv'
<1>1. /\ stage \notin SearchEnded /\ stage' = stage /\ mode' = mode /\ hint' = hint
      /\ scoped' = scoped /\ allowed' = allowed /\ over' = over /\ answer' = answer
      /\ order' = order /\ reading' = reading
      /\ wins' = wins /\ work' = work /\ visited' = visited /\ matches' = matches
      /\ broken' = broken
      /\ shown' = shown \union Shown' /\ steady' \subseteq Links'
  BY DEF Application, Leave, Join, Exit, HideOrShow, Changed, placeVars, queryVars
<1>2. TreeTypes' /\ InPlace
  BY LeaveMoves, JoinMoves, ExitMoves, ToggleMoves DEF SearchInv, Application
<1>3. CursorTypes'
  BY <1>1, <1>2 DEF SearchInv, CursorTypes, WorkTypes, InPlace
<1>4. Remembered'
  <2>1. \A c \in Shown' : c \in Matching
    BY DEF Shown
  <2>2. QED
    BY <1>1, <2>1 DEF SearchInv, Remembered
<1>5. Linked'
  BY <1>1, <1>2 DEF Linked, Links, ToSet, TreeTypes
<1>6. Backwards'
  BY <1>1, <1>2 DEF SearchInv, Backwards, InPlace
<1>7. Coverage'
  <2> SUFFICES ASSUME stage \in Searching, ~broken
               PROVE  \E D \in SUBSET Inner : Searched(D)'
    BY <1>1 DEF Coverage
  <2>1. PICK D \in SUBSET Inner : Searched(D)
    BY DEF SearchInv, Coverage
  <2>2. \A l \in steady' : l[1] \in D => l[2] \in D
    BY <1>2, <2>1 DEF Searched, InPlace
  <2>3. ASSUME NEW l \in steady', Reckoned(l[1])', <<Desktop, l[1]>> \in steady', l[2] \notin D
        PROVE  Due(l[1], l[2])'
    <3>1. l \in steady /\ <<Desktop, l[1]>> \in steady /\ Reckoned(l[1])
      BY <1>1, <1>2, <2>3 DEF InPlace, Reckoned
    <3>2. Due(l[1], l[2])
      BY <2>1, <2>3, <3>1 DEF Searched
    <3>3. Unread(l[1]) => Unread(l[1])' \/ l[1] \in slipped'
      <4> DEFINE k == <<Desktop, l[1]>>
      <4>1. k \in steady' /\ k[1] = Desktop /\ k[2] = l[1]
        BY <2>3
      <4> HIDE DEF k
      <4>2. Unread(k[2]) => Unread(k[2])' \/ k[2] \in slipped'
        BY <1>2, <4>1 DEF InPlace
      <4>3. QED
        BY <4>1, <4>2 DEF Unread
    <3>4. l[1] # reading => l[1] \notin slipped'
      BY <1>1, <2>3 DEF Reckoned
    <3>5. QED
      BY <1>1, <3>2, <3>3, <3>4 DEF Due
  <2>4. QED
    BY <1>1, <2>1, <2>2, <2>3 DEF Searched
<1>8. InWindow'
  <2> SUFFICES ASSUME stage = "window", ~broken
               PROVE  /\ wins[1] \in visited
                      /\ \A l \in steady' : l[1] \in visited /\ Placed(l[1])' =>
                           l[2] \in visited \/ Queued(l[1], l[2])'
                      /\ \A v \in visited :
                           v \in Matching /\ Placed(v)' => \E f \in matches : f[2] = v
    BY <1>1 DEF InWindow, Placed, Queued
  <2>1. ASSUME NEW v, Placed(v)' PROVE Placed(v)
    BY <1>2, <2>1 DEF Placed, InPlace
  <2>2. ASSUME NEW l \in steady', l[1] \in visited, Placed(l[1])', l[2] \notin visited
        PROVE  Queued(l[1], l[2])'
    <3>1. l \in steady /\ Placed(l[1])
      BY <1>2, <2>2 DEF Placed, InPlace
    <3>2. Queued(l[1], l[2])
      BY <2>2, <3>1 DEF SearchInv, InWindow
    <3>3. l[1] # Desktop
      BY <2>2, SearchAssumption DEF SearchInv, CursorTypes, Inner
    <3>4. \A i \in DOMAIN kids[l[1]] : kids[l[1]][i] = l[2] =>
            i \in DOMAIN kids'[l[1]] /\ kids'[l[1]][i] = l[2]
      BY <1>2, <3>3 DEF InPlace
    <3>5. QED
      BY <1>1, <3>2, <3>4 DEF Queued
  <2>3. QED
    BY <2>1, <2>2 DEF SearchInv, InWindow
<1>9. PassedIsUnique' /\ AbsenceIsComplete' /\ AmbiguityIsReal'
  BY <1>1 DEF PassedIsUnique, AbsenceIsComplete, AmbiguityIsReal,
     SearchEnded
<1>10. QED
  BY <1>2, <1>3, <1>4, <1>5, <1>6, <1>7, <1>8, <1>9 DEF SearchInv

(* A step of the search leaves the tree as it is.                           *)
LEMMA TreeStays ==
  ASSUME TreeTypes, Linked, kids' = kids, visible' = visible, changes' = changes,
         exited' = exited, steady' = steady
  PROVE  TreeTypes' /\ Linked'
BY DEF TreeTypes, Linked

LEMMA NoVerdict ==
  ASSUME stage' \notin SearchEnded
  PROVE  PassedIsUnique' /\ AbsenceIsComplete' /\ AmbiguityIsReal'
BY DEF PassedIsUnique, AbsenceIsComplete, AmbiguityIsReal, SearchEnded

(* The indexes a scan will read: all, with the hint first, and in a scope   *)
(* the others from the last.                                                *)
LEMMA IndexFacts ==
  ASSUME TreeTypes, hint \in Nat, scoped \in BOOLEAN
  PROVE  /\ Indexes \in Seq(Nat)
         /\ \A i \in DOMAIN kids[Desktop] : \E k \in DOMAIN Indexes : Indexes[k] = i
         /\ \A k \in DOMAIN Indexes : Indexes[k] \in DOMAIN kids[Desktop]
         /\ scoped => \A k, m \in DOMAIN Indexes : k < m =>
              Indexes[k] > Indexes[m] \/ Indexes[k] = hint
<1> DEFINE n == Len(kids[Desktop])
           turn(i) == IF scoped THEN n + 1 - i ELSE i
           inTurn == [k \in 1..n |-> turn(k)]
           rest == RemoveAt(inTurn, turn(hint))
<1>1. n \in Nat /\ DOMAIN kids[Desktop] = 1..n
  BY Below DEF Nodes
<1>2. Indexes = IF hint \in 1..n THEN <<hint>> \o rest ELSE inTurn
  BY DEF Indexes
<1> HIDE DEF n
<1>3. /\ inTurn \in Seq(Nat) /\ Len(inTurn) = n /\ DOMAIN inTurn = 1..n
      /\ \A k \in 1..n : inTurn[k] = turn(k)
  <2>1. \A k \in 1..n : turn(k) \in Nat
    BY <1>1
  <2>2. QED
    BY <1>1, <2>1, IsASeq
<1>4. \A k \in 1..n : turn(k) \in 1..n /\ turn(turn(k)) = k
  BY <1>1
<1> HIDE DEF inTurn
<1>5. CASE hint \notin 1..n
  <2>1. ASSUME NEW i \in 1..n PROVE \E k \in 1..n : inTurn[k] = i
    <3>1. PICK k \in 1..n : k = turn(i)
      BY <1>4
    <3>2. inTurn[k] = i
      BY <3>1, <1>3, <1>4
    <3>3. QED
      BY <3>2
  <2>2. \A k \in 1..n : inTurn[k] \in 1..n
    BY <1>3, <1>4
  <2>3. scoped => \A k, m \in 1..n : k < m => inTurn[k] > inTurn[m]
    BY <1>1, <1>3
  <2>4. QED
    BY <1>1, <1>2, <1>3, <1>5, <2>1, <2>2, <2>3
<1>6. CASE hint \in 1..n
  <2>0. PICK h \in 1..n : h = turn(hint) /\ turn(h) = hint
    BY <1>4, <1>6
  <2>1. /\ rest \in Seq(Nat) /\ DOMAIN rest = 1..(n - 1)
        /\ \A k \in 1..(n - 1) : rest[k] = IF k < h THEN inTurn[k] ELSE inTurn[k + 1]
    <3>1. PICK m \in 1..Len(inTurn) : m = h
      BY <1>3
    <3> DEFINE N == Nat
    <3>2. inTurn \in Seq(N)
      BY <1>3
    <3> HIDE DEF N
    <3>3. RemoveAt(inTurn, m) \in Seq(N) /\ Without(RemoveAt(inTurn, m), inTurn, m)
      BY <3>2, Removing
    <3>4. rest = RemoveAt(inTurn, m)
      BY <2>0, <3>1
    <3> HIDE DEF rest, turn
    <3>5. QED
      BY <1>3, <3>1, <3>3, <3>4 DEF N, Without
  <2> HIDE DEF rest
  <2>2. \A k \in 1..(n - 1) : rest[k] = IF k < h THEN turn(k) ELSE turn(k + 1)
    <3> TAKE k \in 1..(n - 1)
    <3>1. k \in 1..n /\ k + 1 \in 1..n
      BY <1>1
    <3>2. QED
      BY <1>3, <2>1, <3>1
  <2>3. Len(rest) = n - 1
    BY <1>1, <1>6, <2>1, LenProperties
  <2> HIDE DEF turn
  <2> DEFINE first == <<hint>>
             all == first \o rest
  <2>4. first \in Seq(Nat) /\ Len(first) = 1 /\ first[1] = hint
    BY <1>6
  <2> HIDE DEF first
  <2>5. /\ all \in Seq(Nat) /\ Len(all) = n
        /\ \A k \in 1..n : all[k] = IF k <= 1 THEN first[k] ELSE rest[k - 1]
    <3>1. /\ all \in Seq(Nat) /\ Len(all) = Len(first) + Len(rest)
          /\ \A k \in 1..(Len(first) + Len(rest)) :
               all[k] = IF k <= Len(first) THEN first[k] ELSE rest[k - Len(first)]
      <4> DEFINE N == Nat
      <4>1. first \in Seq(N) /\ rest \in Seq(N)
        BY <2>1, <2>4
      <4> HIDE DEF N
      <4>2. /\ all \in Seq(N) /\ Len(all) = Len(first) + Len(rest)
            /\ \A k \in 1..(Len(first) + Len(rest)) :
                 all[k] = IF k <= Len(first) THEN first[k] ELSE rest[k - Len(first)]
        BY <4>1, ConcatProperties
      <4>3. QED
        BY <4>2 DEF N
    <3>2. QED
      BY <3>1, <2>3, <2>4, <1>1
  <2>6. DOMAIN all = 1..n
    BY <2>5, LenProperties
  <2>7. Indexes = all
    BY <1>2, <1>6 DEF first
  <2> HIDE DEF all
  <2>8. /\ all[1] = hint
        /\ \A k \in 2..n : all[k] = IF k - 1 < h THEN turn(k - 1) ELSE turn(k)
    <3>1. all[1] = hint
      BY <2>4, <2>5, <1>1, <1>6
    <3>2. ASSUME NEW k \in 2..n
          PROVE  all[k] = IF k - 1 < h THEN turn(k - 1) ELSE turn(k)
      <4>1. PICK m \in 1..(n - 1) : m = k - 1 /\ k = m + 1
        BY <1>1
      <4>2. all[k] = rest[m]
        BY <4>1, <2>5, <1>1
      <4>3. QED
        BY <4>1, <4>2, <2>2
    <3>3. QED
      BY <3>1, <3>2
  <2>9. \A k \in 1..n : all[k] \in 1..n
    <3> TAKE k \in 1..n
    <3>1. CASE k = 1
      BY <3>1, <2>8, <1>6
    <3>2. CASE k # 1
      <4>1. k \in 2..n /\ k - 1 \in 1..n
        BY <3>2, <1>1
      <4>2. QED
        BY <4>1, <2>8, <1>4
    <3>3. QED
      BY <3>1, <3>2
  <2>10. ASSUME NEW i \in 1..n PROVE \E k \in 1..n : all[k] = i
    <3>1. PICK j \in 1..n : j = turn(i) /\ turn(j) = i
      BY <1>4
    <3>2. CASE j = h
      BY <3>1, <3>2, <2>0, <2>8, <1>1
    <3>3. CASE j < h
      <4>1. PICK k \in 2..n : k = j + 1 /\ k - 1 = j
        BY <3>3, <1>1
      <4>2. all[k] = i /\ k \in 1..n
        BY <4>1, <3>1, <3>3, <2>8, <1>1
      <4>3. QED
        BY <4>2
    <3>4. CASE j > h
      <4>1. j \in 2..n /\ ~(j - 1 < h)
        BY <3>4, <1>1
      <4>2. all[j] = i
        BY <4>1, <3>1, <2>8
      <4>3. QED
        BY <4>2
    <3>5. QED
      BY <3>2, <3>3, <3>4, <1>1
  <2>11. ASSUME scoped, NEW k \in 1..n, NEW m \in 1..n, k < m
         PROVE  all[k] > all[m] \/ all[k] = hint
    <3>1. CASE k = 1
      BY <3>1, <2>8
    <3>2. CASE k # 1
      <4>1. k \in 2..n /\ m \in 2..n
        BY <3>2, <2>11, <1>1
      <4>2. \A i \in 0..n : turn(i) = n + 1 - i
        BY <2>11 DEF turn
      <4>3. /\ turn(k - 1) = n + 2 - k /\ turn(k) = n + 1 - k
            /\ turn(m - 1) = n + 2 - m /\ turn(m) = n + 1 - m
        BY <4>1, <4>2, <1>1
      <4>4. QED
        BY <4>1, <4>3, <2>8, <2>11, <1>1
    <3>3. QED
      BY <3>1, <3>2
  <2>12. QED
    BY <1>1, <2>5, <2>6, <2>7, <2>9, <2>10, <2>11
<1>7. QED
  BY <1>5, <1>6

(* A scan begins with every link steady, and every index to read.           *)
LEMMA StartKeeps ==
  ASSUME SearchInv, StartSearch
  PROVE  SearchInv'
<1>1. /\ stage = "poll" /\ stage' = "apps" /\ order' = Indexes /\ reading' = NoNode
      /\ wins' = <<>> /\ work' = <<>> /\ visited' = {} /\ matches' = {} /\ broken' = FALSE
      /\ steady' = Links /\ shown' = Shown /\ kids' = kids
      /\ visible' = visible /\ changes' = changes /\ exited' = exited /\ mode' = mode
      /\ hint' = hint /\ scoped' = scoped /\ slipped' = {} /\ over' = over /\ answer' = answer
  BY DEF StartSearch, treeVars
<1>2. TreeTypes /\ CursorTypes
  BY DEF SearchInv
<1>3. /\ order' \in Seq(Nat)
      /\ \A i \in DOMAIN kids[Desktop] : \E k \in DOMAIN order' : order'[k] = i
      /\ \A k \in DOMAIN order' : order'[k] \in DOMAIN kids[Desktop]
      /\ scoped =>
           \A k, m \in DOMAIN order' : k < m => order'[k] > order'[m] \/ order'[k] = hint
      /\ allowed' \subseteq Apps
  <2>1. allowed' \subseteq Apps
    BY SearchAssumption DEF StartSearch
  <2>2. QED
    BY <1>1, <1>2, <2>1, IndexFacts DEF CursorTypes
<1>4. TreeTypes' /\ Linked'
  BY <1>1, <1>2, LinkFacts DEF TreeTypes, Linked
<1>5. CursorTypes'
  <2>1. wins' \in Seq(Windows)
    BY <1>1, EmptySeq
  <2>2. QED
    BY <1>1, <1>2, <1>3, <2>1 DEF CursorTypes, Searching, SearchEnded
<1>6. Remembered'
  BY <1>1, ShownFacts DEF Remembered, Shown
<1>7. Backwards'
  <2>1. \A k \in DOMAIN order' : order'[k] > 1 => \E m \in DOMAIN order' : order'[m] = order'[k] - 1
    <3> TAKE k \in DOMAIN order'
    <3>1. DOMAIN kids[Desktop] = 1..Len(kids[Desktop]) /\ Len(kids[Desktop]) \in Nat
      BY <1>2, Below DEF Nodes
    <3>2. order'[k] > 1 => order'[k] - 1 \in DOMAIN kids[Desktop]
      BY <1>3, <3>1
    <3>3. QED
      BY <1>3, <3>2
  <2>2. QED
    BY <1>1, <1>3, <2>1 DEF Backwards
<1>8. Coverage'
  <2>1. ASSUME NEW l \in steady', l[1] \in Apps, <<Desktop, l[1]>> \in steady'
        PROVE  Due(l[1], l[2])'
    <3> DEFINE d == <<Desktop, l[1]>>
    <3>1. d \in Links /\ d[1] = Desktop /\ d[2] = l[1]
      BY <1>1, <2>1
    <3> HIDE DEF d
    <3>2. PICK i \in DOMAIN kids[Desktop] : kids[Desktop][i] = l[1]
      BY <3>1, <1>2, LinkFacts
    <3>3. Unread(l[1])'
      BY <1>1, <1>3, <3>2 DEF Unread
    <3>4. l[1] # NoNode
      BY <2>1, SearchAssumption DEF Nodes
    <3>5. QED
      BY <1>1, <3>3, <3>4 DEF Due
  <2>2. Searched({})'
    BY <1>3, <2>1 DEF Searched, Reckoned
  <2>3. QED
    BY <2>2 DEF Coverage
<1>9. InWindow'
  BY <1>1 DEF InWindow
<1>10. QED
  BY <1>1, <1>4, <1>5, <1>6, <1>7, <1>8, <1>9, NoVerdict DEF SearchInv, SearchEnded

(* One index fewer to read: what is behind it is still below.               *)
LEMMA TailBackwards ==
  ASSUME CursorTypes, Backwards, order # <<>>, order' = Tail(order), hint' = hint,
         scoped' = scoped, slipped' = slipped
  PROVE  /\ Backwards' /\ order' \in Seq(Nat)
         /\ \A k \in DOMAIN order : k # 1 => \E m \in DOMAIN order' : order'[m] = order[k]
         /\ 1 \in DOMAIN order
<1>1. /\ order \in Seq(Nat) /\ Len(order) \in Nat /\ Len(order) >= 1
      /\ DOMAIN order = 1..Len(order)
  BY EmptySeq, LenProperties DEF CursorTypes
<1>2. /\ order' \in Seq(Nat) /\ DOMAIN order' = 1..(Len(order) - 1)
      /\ \A k \in 1..(Len(order) - 1) : order'[k] = order[k + 1]
  BY <1>1, HeadTailProperties, LenProperties
<1>3. \A k \in DOMAIN order : order[k] \in Nat
  BY <1>1, ElementOfSeq
<1>4. \A k \in DOMAIN order : k # 1 => \E m \in DOMAIN order' : order'[m] = order[k]
  <2> SUFFICES ASSUME NEW k \in DOMAIN order, k # 1
               PROVE  \E m \in DOMAIN order' : order'[m] = order[k]
    OBVIOUS
  <2>1. PICK m \in DOMAIN order' : m = k - 1 /\ k = m + 1
    BY <1>1, <1>2
  <2>2. QED
    BY <1>2, <2>1
<1>5. ASSUME scoped, NEW k \in DOMAIN order', order'[k] > 1, order'[k] - 1 # hint'
      PROVE  \E m \in DOMAIN order' : order'[m] = order'[k] - 1
  <2>1. PICK j \in DOMAIN order : j = k + 1 /\ order'[k] = order[j] /\ 1 < j
    BY <1>1, <1>2
  <2>2. PICK m \in DOMAIN order : order[m] = order[j] - 1
    BY <1>5, <2>1 DEF Backwards
  <2>3. m # 1
    <3>1. order[1] > order[j] \/ order[1] = hint
      <4>1. PICK i \in DOMAIN order : i = 1
        BY <1>1
      <4>2. i < j
        BY <2>1, <4>1
      <4>3. order[i] > order[j] \/ order[i] = hint
        BY <4>2, <1>5 DEF Backwards
      <4>4. QED
        BY <4>1, <4>3
    <3>2. order[1] \in Nat /\ order[j] \in Nat
      BY <1>1, <1>3
    <3>3. QED
      BY <3>1, <3>2, <2>1, <2>2, <1>5
  <2>4. QED
    BY <1>4, <2>1, <2>2, <2>3
<1>6. ASSUME scoped, NEW k \in DOMAIN order', NEW m \in DOMAIN order', k < m
      PROVE  order'[k] > order'[m] \/ order'[k] = hint'
  <2>1. PICK i \in DOMAIN order : i = k + 1 /\ order'[k] = order[i]
    BY <1>1, <1>2
  <2>2. PICK j \in DOMAIN order : j = m + 1 /\ order'[m] = order[j]
    BY <1>1, <1>2
  <2>3. i < j
    BY <1>1, <1>2, <1>6, <2>1, <2>2
  <2>4. QED
    BY <1>6, <2>1, <2>2, <2>3 DEF Backwards
<1>7. QED
  BY <1>1, <1>2, <1>4, <1>5, <1>6 DEF Backwards

LEMMA SkipKeeps ==
  ASSUME SearchInv, SkipIndex
  PROVE  SearchInv'
<1>1. /\ stage = "apps" /\ stage' = "apps" /\ order # <<>> /\ order' = Tail(order)
      /\ At(Desktop, Head(order)) \notin allowed \/ At(Desktop, Head(order)) \in exited
      /\ reading' = reading
      /\ wins' = wins /\ work' = work /\ visited' = visited /\ matches' = matches
      /\ broken' = broken /\ steady' = steady /\ shown' = shown /\ slipped' = slipped
      /\ kids' = kids
      /\ visible' = visible /\ changes' = changes /\ exited' = exited /\ mode' = mode
      /\ hint' = hint /\ scoped' = scoped /\ allowed' = allowed
      /\ over' = over /\ answer' = answer
  BY DEF SkipIndex, treeVars, queryVars, memoryVars
<1>2. TreeTypes' /\ Linked'
  BY <1>1, TreeStays DEF SearchInv
<1>3. /\ Backwards' /\ order' \in Seq(Nat) /\ 1 \in DOMAIN order
      /\ \A k \in DOMAIN order : k # 1 => \E m \in DOMAIN order' : order'[m] = order[k]
  BY <1>1, TailBackwards DEF SearchInv
<1>4. CursorTypes'
  BY <1>1, <1>3 DEF SearchInv, CursorTypes
<1>5. Remembered'
  BY <1>1 DEF SearchInv, Remembered, Shown
<1>6. Coverage'
  <2>1. ASSUME NEW a \in allowed, a \notin exited, Unread(a) PROVE Unread(a)'
    <3>1. PICK k \in DOMAIN order : order[k] \in DOMAIN kids[Desktop] /\ kids[Desktop][order[k]] = a
      BY <2>1 DEF Unread
    <3>2. k # 1
      BY <1>1, <2>1, <3>1 DEF At
    <3>3. QED
      BY <1>1, <1>3, <3>1, <3>2 DEF Unread
  <2>2. ASSUME NEW D \in SUBSET Inner, Searched(D) PROVE Searched(D)'
    <3>1. \A l \in steady : l[1] \notin exited
      BY DEF SearchInv, Linked, TreeTypes
    <3>2. ASSUME NEW l \in steady, Reckoned(l[1]), <<Desktop, l[1]>> \in steady, l[2] \notin D
          PROVE  Due(l[1], l[2])'
      <4>1. Due(l[1], l[2]) /\ l[1] \in allowed
        BY <2>2, <3>2 DEF Searched, Reckoned
      <4>2. QED
        BY <1>1, <2>1, <3>1, <4>1 DEF Due
    <3>3. QED
      BY <1>1, <2>2, <3>2 DEF Searched, Reckoned
  <2>3. QED
    BY <1>1, <2>2 DEF SearchInv, Coverage
<1>7. InWindow'
  BY <1>1 DEF InWindow
<1>8. QED
  BY <1>1, <1>2, <1>3, <1>4, <1>5, <1>6, <1>7, NoVerdict DEF SearchInv, SearchEnded

LEMMA EnterAppKeeps ==
  ASSUME SearchInv, SearchApp
  PROVE  SearchInv'
<1>1. /\ stage = "apps" /\ stage' = "windows" /\ order # <<>> /\ order' = Tail(order)
      /\ reading' = At(Desktop, Head(order)) /\ reading' \in allowed
      /\ wins' = kids[reading'] /\ work' = work /\ visited' = visited /\ matches' = matches
      /\ broken' = broken /\ steady' = steady /\ shown' = shown /\ slipped' = slipped
      /\ kids' = kids
      /\ visible' = visible /\ changes' = changes /\ exited' = exited /\ mode' = mode
      /\ hint' = hint /\ scoped' = scoped /\ allowed' = allowed
      /\ over' = over /\ answer' = answer
  BY DEF SearchApp, treeVars, queryVars, memoryVars
<1>2. TreeTypes' /\ Linked'
  BY <1>1, TreeStays DEF SearchInv
<1>3. /\ Backwards' /\ order' \in Seq(Nat) /\ 1 \in DOMAIN order
      /\ \A k \in DOMAIN order : k # 1 => \E m \in DOMAIN order' : order'[m] = order[k]
  BY <1>1, TailBackwards DEF SearchInv
<1>4. reading' \in Apps /\ reading' \in Nodes
  BY <1>1 DEF Nodes, SearchInv, CursorTypes
<1>5. wins' \in Seq(Windows)
  <2> DEFINE a == reading'
  <2>1. /\ kids[a] \in Seq(Nodes \ {Desktop}) /\ DOMAIN kids[a] = 1..Len(kids[a])
        /\ Len(kids[a]) \in Nat /\ \A i \in DOMAIN kids[a] : kids[a][i] \in Windows
    BY <1>4, Below DEF SearchInv
  <2> DEFINE s == kids[a]
  <2>2. s = [i \in 1..Len(s) |-> s[i]]
    BY <2>1
  <2> HIDE DEF a, s
  <2>3. s \in [1..Len(s) -> Windows] /\ Len(s) \in Nat
    BY <2>1, <2>2 DEF s
  <2>4. s \in Seq(Windows)
    BY <2>3, SeqDef
  <2>5. QED
    BY <2>4, <1>1 DEF s, a
<1>6. CursorTypes'
  BY <1>1, <1>3, <1>4, <1>5 DEF SearchInv, CursorTypes, Searching
<1>7. Remembered'
  BY <1>1 DEF SearchInv, Remembered, Shown, Searching
<1>8. Coverage'
  <2>1. At(Desktop, order[1]) = reading'
    BY <1>1
  <2>2. ASSUME NEW a \in allowed, Unread(a), a # reading' PROVE Unread(a)'
    <3>1. PICK k \in DOMAIN order : order[k] \in DOMAIN kids[Desktop] /\ kids[Desktop][order[k]] = a
      BY <2>2 DEF Unread
    <3>2. k # 1
      BY <2>1, <2>2, <3>1 DEF At
    <3>3. QED
      BY <1>1, <1>3, <3>1, <3>2 DEF Unread
  <2>3. reading \notin allowed
    BY <1>1, SearchAssumption DEF SearchInv, CursorTypes, Nodes
  <2>4. ASSUME NEW D \in SUBSET Inner, Searched(D) PROVE Searched(D)'
    <3>1. ASSUME NEW l \in steady, Reckoned(l[1])', <<Desktop, l[1]>> \in steady, l[2] \notin D
          PROVE  Due(l[1], l[2])'
      <4>1. CASE l[1] = reading'
        <5>1. \E j \in DOMAIN wins' : wins'[j] = l[2]
          BY <1>1, <3>1, <4>1 DEF SearchInv, Linked
        <5>2. QED
          BY <4>1, <5>1 DEF Due
      <4>2. CASE l[1] # reading'
        <5>1. l[1] \in allowed /\ Reckoned(l[1])
          BY <1>1, <3>1, <4>2 DEF Reckoned
        <5>2. Due(l[1], l[2])
          BY <2>4, <3>1, <5>1 DEF Searched
        <5>3. Unread(l[1])
          BY <2>3, <5>1, <5>2 DEF Due
        <5>4. QED
          BY <2>2, <4>2, <5>1, <5>3 DEF Due
      <4>3. QED
        BY <4>1, <4>2
    <3>2. QED
      BY <1>1, <2>4, <3>1 DEF Searched
  <2>5. QED
    BY <1>1, <2>4 DEF SearchInv, Coverage, Searching
<1>9. InWindow'
  BY <1>1 DEF InWindow
<1>10. QED
  BY <1>1, <1>2, <1>3, <1>6, <1>7, <1>8, <1>9, NoVerdict DEF SearchInv, SearchEnded

(* An element stands somewhere in a sequence.                               *)
Holds(s, x) == \E m \in DOMAIN s : s[m] = x

(* What the queue holds after one is taken from it or put behind it.        *)
LEMMA TailHolds ==
  ASSUME NEW S, NEW s \in Seq(S), s # <<>>
  PROVE  /\ Tail(s) \in Seq(S) /\ 1 \in DOMAIN s /\ s[1] \in S /\ Head(s) = s[1]
         /\ \A k \in DOMAIN s : k # 1 => Holds(Tail(s), s[k])
<1>1. Len(s) \in Nat /\ Len(s) >= 1 /\ DOMAIN s = 1..Len(s)
  BY EmptySeq, LenProperties
<1>2. /\ Tail(s) \in Seq(S) /\ DOMAIN Tail(s) = 1..(Len(s) - 1)
      /\ \A k \in 1..(Len(s) - 1) : Tail(s)[k] = s[k + 1]
  BY <1>1, HeadTailProperties, LenProperties
<1>3. 1 \in DOMAIN s /\ s[1] \in S /\ Head(s) = s[1]
  BY <1>1, ElementOfSeq
<1>4. ASSUME NEW k \in DOMAIN s, k # 1 PROVE Holds(Tail(s), s[k])
  <2>1. PICK m \in DOMAIN Tail(s) : m = k - 1 /\ k = m + 1
    BY <1>1, <1>2, <1>4
  <2>2. QED
    BY <1>2, <2>1 DEF Holds
<1>5. QED
  BY <1>2, <1>3, <1>4

LEMMA ConcatHolds ==
  ASSUME NEW S, NEW s \in Seq(S), NEW t \in Seq(S)
  PROVE  /\ s \o t \in Seq(S)
         /\ \A k \in DOMAIN s : Holds(s \o t, s[k])
         /\ \A k \in DOMAIN t : Holds(s \o t, t[k])
<1>1. /\ s \o t \in Seq(S) /\ Len(s \o t) = Len(s) + Len(t)
      /\ \A k \in 1..(Len(s) + Len(t)) :
           (s \o t)[k] = IF k <= Len(s) THEN s[k] ELSE t[k - Len(s)]
      /\ Len(s) \in Nat /\ Len(t) \in Nat /\ DOMAIN s = 1..Len(s) /\ DOMAIN t = 1..Len(t)
  BY ConcatProperties, LenProperties
<1>2. DOMAIN (s \o t) = 1..(Len(s) + Len(t))
  BY <1>1, LenProperties
<1>3. ASSUME NEW k \in DOMAIN s PROVE Holds(s \o t, s[k])
  <2>1. k \in DOMAIN (s \o t) /\ (s \o t)[k] = s[k]
    BY <1>1, <1>2
  <2>2. QED
    BY <2>1 DEF Holds
<1>4. ASSUME NEW k \in DOMAIN t PROVE Holds(s \o t, t[k])
  <2>1. PICK m \in DOMAIN (s \o t) : m = Len(s) + k /\ m - Len(s) = k /\ ~(m <= Len(s))
    BY <1>1, <1>2
  <2>2. (s \o t)[m] = t[k]
    BY <1>1, <1>2, <2>1
  <2>3. QED
    BY <2>1, <2>2 DEF Holds
<1>5. QED
  BY <1>1, <1>3, <1>4

LEMMA AppendHolds ==
  ASSUME NEW S, NEW s \in Seq(S), NEW e \in S
  PROVE  /\ Append(s, e) \in Seq(S)
         /\ \A k \in DOMAIN s : Holds(Append(s, e), s[k])
         /\ Holds(Append(s, e), e)
<1>1. /\ Append(s, e) \in Seq(S) /\ DOMAIN Append(s, e) = 1..(Len(s) + 1)
      /\ \A k \in 1..Len(s) : Append(s, e)[k] = s[k]
      /\ Append(s, e)[Len(s) + 1] = e
      /\ DOMAIN s = 1..Len(s) /\ Len(s) \in Nat
  BY AppendProperties, LenProperties
<1>2. Len(s) + 1 \in DOMAIN Append(s, e) /\ \A k \in DOMAIN s : k \in DOMAIN Append(s, e)
  BY <1>1
<1>3. (\A k \in DOMAIN s : Holds(Append(s, e), s[k])) /\ Holds(Append(s, e), e)
  BY <1>1, <1>2 DEF Holds
<1>4. QED
  BY <1>1, <1>3

(* The children of what is in a window are in it.                           *)
LEMMA InnerChildren ==
  ASSUME TreeTypes, NEW n \in Inner
  PROVE  /\ kids[n] \in Seq(Inner) /\ n \in Nodes /\ n # Desktop
         /\ DOMAIN kids[n] = 1..Len(kids[n]) /\ Len(kids[n]) \in Nat
<1>1. n \in Nodes /\ n # Desktop
  BY SearchAssumption DEF Inner, Nodes
<1> DEFINE s == kids[n]
<1>2. /\ DOMAIN s = 1..Len(s) /\ Len(s) \in Nat /\ \A i \in DOMAIN s : s[i] \in Inner
      /\ s \in Seq(Nodes \ {Desktop})
  BY <1>1, Below
<1>3. s = [i \in 1..Len(s) |-> s[i]]
  BY <1>2
<1> HIDE DEF s
<1>4. s \in [1..Len(s) -> Inner] /\ Len(s) \in Nat
  BY <1>2, <1>3
<1>5. s \in Seq(Inner)
  BY <1>4, SeqDef
<1>6. QED
  BY <1>1, <1>2, <1>5 DEF s

(* What was searched stays so while the search is in a window.              *)
LEMMA CoverageStays ==
  ASSUME Coverage, stage \in Searching, ~broken' => ~broken, kids' = kids,
         order' = order, reading' = reading, wins' = wins, steady' = steady,
         allowed' = allowed, slipped' = slipped, \A f \in matches : f \in matches'
  PROVE  Coverage'
BY DEF Coverage, Searched, Reckoned, Due, Unread

LEMMA EnterWindowKeeps ==
  ASSUME SearchInv, EnterWindow
  PROVE  SearchInv'
<1>0. PICK w \in Windows : w = Head(wins) /\ w = wins[1]
  BY TailHolds DEF SearchInv, CursorTypes, EnterWindow
<1>1. /\ stage = "windows" /\ stage' = "window" /\ wins # <<>> /\ visited' = {w}
      /\ work' = IF mode = "witness" THEN kids[w]
                 ELSE IF w \in visible THEN <<Iterator(w)>> ELSE <<>>
      /\ order' = order /\ reading' = reading
      /\ wins' = wins /\ matches' = matches
      /\ broken' = broken /\ steady' = steady /\ shown' = shown /\ slipped' = slipped
      /\ kids' = kids
      /\ visible' = visible /\ changes' = changes /\ exited' = exited /\ mode' = mode
      /\ hint' = hint /\ scoped' = scoped /\ allowed' = allowed
      /\ over' = over /\ answer' = answer
  BY <1>0 DEF EnterWindow, treeVars, queryVars, memoryVars
<1>2. TreeTypes' /\ Linked'
  BY <1>1, TreeStays DEF SearchInv
<1>4. /\ kids[w] \in Seq(Inner) /\ w \in Inner
      /\ DOMAIN kids[w] = 1..Len(kids[w]) /\ Len(kids[w]) \in Nat
  BY InnerChildren DEF SearchInv, Inner
<1>5. WorkTypes'
  <2>1. CASE mode = "witness"
    BY <1>1, <1>4, <2>1 DEF WorkTypes
  <2>2. CASE mode # "witness"
    <3> DEFINE I == [of : Inner, next : Nat, count : Nat]
    <3>1. Iterator(w) \in I
      BY <1>4 DEF Iterator
    <3> HIDE DEF I
    <3>2. <<Iterator(w)>> \in Seq(I) /\ <<>> \in Seq(I)
      BY <3>1, EmptySeq
    <3>3. QED
      BY <1>1, <2>2, <3>2 DEF WorkTypes, I
  <2>3. QED
    BY <2>1, <2>2
<1>6. CursorTypes'
  BY <1>1, <1>4, <1>5 DEF SearchInv, CursorTypes, Searching
<1>7. Remembered' /\ Backwards' /\ Coverage'
  <2>1. Coverage'
    BY <1>1, CoverageStays DEF SearchInv, Searching
  <2>2. QED
    BY <1>1, <2>1 DEF SearchInv, Remembered, Shown, Searching, Backwards
<1>8. InWindow'
  <2>1. ASSUME NEW l \in steady, l[1] = w, Placed(w) PROVE Queued(w, l[2])'
    <3>1. PICK i \in DOMAIN kids[w] : kids[w][i] = l[2]
      BY <2>1 DEF SearchInv, Linked
    <3>2. CASE mode = "witness"
      BY <1>1, <3>1, <3>2 DEF Queued
    <3>3. CASE mode # "witness"
      <4>1. w \in visible
        BY <2>1 DEF Placed, SearchInv, Linked
      <4>2. work' = <<[of |-> w, next |-> 1, count |-> Len(kids[w])]>>
        BY <1>1, <3>3, <4>1 DEF Iterator
      <4>3. /\ DOMAIN work' = 1..1 /\ work'[1].of = w /\ work'[1].next = 1
            /\ work'[1].count = Len(kids[w])
        BY <4>2
      <4>4. 1 <= i /\ i <= Len(kids[w])
        BY <3>1, <1>4
      <4>5. 1 \in DOMAIN work'
        BY <4>3
      <4>6. /\ work'[1].of = w /\ work'[1].next <= i /\ i <= work'[1].count
            /\ kids[w][i] = l[2]
        BY <3>1, <4>3, <4>4
      <4>7. QED
        BY <1>1, <3>3, <4>5, <4>6 DEF Queued
    <3>4. QED
      BY <3>2, <3>3
  <2>2. w \notin Matching
    BY SearchAssumption
  <2>3. QED
    BY <1>0, <1>1, <2>1, <2>2 DEF InWindow, Placed
<1>9. QED
  BY <1>1, <1>2, <1>6, <1>7, <1>8, NoVerdict DEF SearchInv, SearchEnded

(* A step within a window: the rest of the search is as it was.             *)
Within ==
  /\ stage = "window" /\ work # <<>> /\ stage' = "window"
  /\ kids' = kids /\ visible' = visible /\ changes' = changes /\ exited' = exited /\ mode' = mode
  /\ hint' = hint /\ scoped' = scoped /\ allowed' = allowed /\ over' = over
  /\ order' = order /\ reading' = reading /\ wins' = wins
  /\ answer' = answer /\ steady' = steady /\ shown' = shown /\ slipped' = slipped

LEMMA WithinKeeps ==
  ASSUME SearchInv, Within, broken \in BOOLEAN /\ broken' \in BOOLEAN, broken => broken',
         broken' => mode = "witness", WorkTypes', visited' \subseteq Inner,
         matches' \subseteq Windows \X Matching, \A f \in matches : f \in matches',
         \A f \in matches' : f[2] \in shown, InWindow'
  PROVE  SearchInv'
<1>1. TreeTypes' /\ Linked'
  BY TreeStays DEF SearchInv, Within
<1>2. CursorTypes'
  BY DEF SearchInv, CursorTypes, Within
<1>3. Coverage'
  BY CoverageStays DEF SearchInv, Within, Searching
<1>4. Remembered' /\ Backwards'
  BY DEF SearchInv, Remembered, Shown, Backwards, Within
<1>5. QED
  BY <1>1, <1>2, <1>3, <1>4, NoVerdict DEF SearchInv, Within, SearchEnded

LEMMA ExhaustedKeeps ==
  ASSUME SearchInv, Exhausted
  PROVE  SearchInv'
<1>1. /\ Within /\ mode # "witness" /\ Head(work).next > Head(work).count
      /\ work' = Tail(work) /\ visited' = visited /\ matches' = matches /\ broken' = broken
  BY DEF Exhausted, Steps, treeVars, queryVars, memoryVars, Within
<1> DEFINE I == [of : Inner, next : Nat, count : Nat]
<1>2. work \in Seq(I)
  BY <1>1 DEF SearchInv, CursorTypes, WorkTypes, Within
<1> HIDE DEF I
<1>3. /\ work' \in Seq(I) /\ work[1] \in I /\ Head(work) = work[1]
      /\ \A k \in DOMAIN work : k # 1 => Holds(work', work[k])
  BY <1>1, <1>2, TailHolds DEF Within
<1>4. WorkTypes'
  BY <1>1, <1>3 DEF WorkTypes, I, Within
<1>5. InWindow'
  <2>1. ASSUME NEW l \in steady, Queued(l[1], l[2]) PROVE Queued(l[1], l[2])'
    <3>1. PICK k \in DOMAIN work : \E i \in DOMAIN kids[l[1]] :
            work[k].of = l[1] /\ work[k].next <= i /\ i <= work[k].count /\ kids[l[1]][i] = l[2]
      BY <1>1, <2>1 DEF Queued
    <3>2. PICK i \in DOMAIN kids[l[1]] :
            work[k].of = l[1] /\ work[k].next <= i /\ i <= work[k].count /\ kids[l[1]][i] = l[2]
      BY <3>1
    <3>3. k # 1
      <4>1. work[1].next \in Nat /\ work[1].count \in Nat /\ work[1].next > work[1].count
        BY <1>1, <1>3 DEF I
      <4>2. i \in Nat
        <5>1. l[1] \in Nodes
          BY DEF SearchInv, Linked
        <5>2. DOMAIN kids[l[1]] = 1..Len(kids[l[1]]) /\ Len(kids[l[1]]) \in Nat
          BY <5>1, Below DEF SearchInv
        <5>3. QED
          BY <3>2, <5>2
      <4>3. QED
        BY <3>2, <4>1, <4>2
    <3>4. PICK m \in DOMAIN work' : work'[m] = work[k]
      BY <1>3, <3>3 DEF Holds
    <3>5. QED
      BY <1>1, <3>2, <3>4 DEF Queued, Within
  <2>2. QED
    BY <1>1, <2>1 DEF SearchInv, InWindow, Within, Placed
<1>6. QED
  BY <1>1, <1>4, <1>5, WithinKeeps DEF SearchInv, CursorTypes, Remembered

(* The iterator goes on behind the others; what shows gets one of its own.  *)
LEMMA ExamineKeeps ==
  ASSUME SearchInv, Examine
  PROVE  SearchInv'
<1> DEFINE I == [of : Inner, next : Nat, count : Nat]
<1>1. /\ Within /\ mode # "witness" /\ work # <<>> /\ broken' = broken
      /\ Head(work).next <= Head(work).count
  BY DEF Examine, Steps, treeVars, queryVars, memoryVars, Within
<1>2. work \in Seq(I)
  BY <1>1 DEF SearchInv, CursorTypes, WorkTypes, Within
<1> HIDE DEF I
<1>3. /\ Tail(work) \in Seq(I) /\ work[1] \in I /\ Head(work) = work[1]
      /\ \A k \in DOMAIN work : k # 1 => Holds(Tail(work), work[k])
  BY <1>1, <1>2, TailHolds
<1>4. PICK p \in Inner, n \in Nat, count \in Nat :
        work[1] = [of |-> p, next |-> n, count |-> count]
  BY <1>3 DEF I
<1>5. PICK node : node = At(p, n) /\ node # NoNode
  BY <1>3, <1>4 DEF Examine
<1>6. /\ n \in DOMAIN kids[p] /\ kids[p][n] = node
      /\ p \in Nodes /\ node \in Inner
      /\ DOMAIN kids[node] = 1..Len(kids[node]) /\ Len(kids[node]) \in Nat
      /\ DOMAIN kids[p] = 1..Len(kids[p]) /\ Len(kids[p]) \in Nat
  <2>1. n \in DOMAIN kids[p] /\ kids[p][n] = node
    BY <1>5 DEF At
  <2>2. node \in Inner
    BY <2>1, Below DEF SearchInv, Inner, Nodes
  <2>3. QED
    BY <2>1, <2>2, InnerChildren DEF SearchInv
<1>7. PICK rest :
        /\ rest = Append(Tail(work), [of |-> p, next |-> n + 1, count |-> count])
        /\ visited' = visited \union {node}
        /\ matches' = IF (node \notin visited /\ node \in visible) /\ node \in Matching
                      THEN matches \union {<<Head(wins), node>>} ELSE matches
        /\ work' = IF node \notin visited /\ node \in visible
                   THEN Append(rest, Iterator(node)) ELSE rest
  <2>1. [Head(work) EXCEPT !.next = @ + 1] = [of |-> p, next |-> n + 1, count |-> count]
    BY <1>3, <1>4
  <2>2. At(Head(work).of, Head(work).next) = node
    BY <1>3, <1>4, <1>5
  <2>3. QED
    BY <2>1, <2>2 DEF Examine
<1>8. /\ rest \in Seq(I)
      /\ \A k \in DOMAIN work : k # 1 => Holds(rest, work[k])
      /\ Holds(rest, [of |-> p, next |-> n + 1, count |-> count])
  <2>1. PICK e \in I : e = [of |-> p, next |-> n + 1, count |-> count]
    <3>1. n + 1 \in Nat
      OBVIOUS
    <3>2. [of |-> p, next |-> n + 1, count |-> count] \in I
      BY <3>1 DEF I
    <3>3. QED
      BY <3>2
  <2>2. rest = Append(Tail(work), e)
    BY <1>7, <2>1
  <2>3. /\ rest \in Seq(I)
        /\ \A k \in DOMAIN Tail(work) : Holds(rest, Tail(work)[k])
        /\ Holds(rest, e)
    <3>1. PICK t \in Seq(I) : t = Tail(work)
      BY <1>3
    <3>2. Append(t, e) \in Seq(I)
      BY AppendHolds
    <3>3. \A k \in DOMAIN t : Holds(Append(t, e), t[k])
      BY AppendHolds
    <3>4. Holds(Append(t, e), e)
      BY AppendHolds
    <3>5. QED
      BY <2>2, <3>1, <3>2, <3>3, <3>4
  <2>4. ASSUME NEW k \in DOMAIN work, k # 1 PROVE Holds(rest, work[k])
    <3>1. PICK j \in DOMAIN Tail(work) : Tail(work)[j] = work[k]
      BY <1>3, <2>4 DEF Holds
    <3>2. Holds(rest, Tail(work)[j])
      BY <2>3
    <3>3. QED
      BY <3>1, <3>2
  <2>5. QED
    BY <2>1, <2>3, <2>4
<1>9. /\ work' \in Seq(I)
      /\ \A k \in DOMAIN rest : Holds(work', rest[k])
      /\ node \notin visited /\ node \in visible =>
           Holds(work', Iterator(node))
  <2>1. Iterator(node) \in I
    BY <1>6 DEF Iterator, I
  <2>2. CASE node \notin visited /\ node \in visible
    <3>1. work' = Append(rest, Iterator(node))
      BY <1>7, <2>2
    <3>2. PICK e \in I : e = Iterator(node)
      BY <2>1
    <3>3. Append(rest, e) \in Seq(I)
      BY <1>8, AppendHolds
    <3>4. \A k \in DOMAIN rest : Holds(Append(rest, e), rest[k])
      BY <1>8, AppendHolds
    <3>5. Holds(Append(rest, e), e)
      BY <1>8, AppendHolds
    <3>6. QED
      BY <3>1, <3>2, <3>3, <3>4, <3>5
  <2>3. CASE ~(node \notin visited /\ node \in visible)
    <3>1. work' = rest
      BY <1>7, <2>3
    <3>2. \A k \in DOMAIN rest : Holds(rest, rest[k])
      BY DEF Holds
    <3>3. QED
      BY <3>1, <3>2, <1>8, <2>3
  <2>4. QED
    BY <2>2, <2>3
<1>10. /\ WorkTypes' /\ visited' \subseteq Inner
       /\ Head(wins) \in Windows /\ Head(wins) = wins[1]
  <2>1. WorkTypes'
    BY <1>1, <1>9 DEF WorkTypes, I, Within
  <2>2. Head(wins) \in Windows /\ Head(wins) = wins[1]
    BY <1>1, TailHolds DEF SearchInv, CursorTypes, Within
  <2>3. QED
    BY <1>6, <1>7, <2>1, <2>2 DEF SearchInv, CursorTypes
<1>11. matches' \subseteq Windows \X Matching /\ \A f \in matches' : f[2] \in shown
  <2>1. matches \subseteq Windows \X Matching /\ \A f \in matches : f[2] \in shown
    BY DEF SearchInv, CursorTypes, Remembered
  <2>2. node \in visible /\ node \in Matching => node \in shown
    <3>1. node \in visible /\ node \in Matching => node \in Shown
      BY <1>6, ShownFacts
    <3>2. QED
      BY <1>1, <3>1 DEF SearchInv, Remembered, Within, Searching
  <2>3. CASE (node \notin visited /\ node \in visible) /\ node \in Matching
    <3> DEFINE f == <<Head(wins), node>>
    <3>1. f \in Windows \X Matching /\ f[2] = node
      BY <1>10, <2>3
    <3>2. matches' = matches \union {f}
      BY <1>7, <2>3
    <3> HIDE DEF f
    <3>3. QED
      BY <2>1, <2>2, <2>3, <3>1, <3>2
  <2>4. CASE ~((node \notin visited /\ node \in visible) /\ node \in Matching)
    <3>1. matches' = matches
      BY <1>7, <2>4
    <3>2. QED
      BY <2>1, <3>1
  <2>5. QED
    BY <2>3, <2>4
<1>12. InWindow'
  <2> SUFFICES ASSUME ~broken
               PROVE  /\ wins[1] \in visited'
                      /\ \A l \in steady : l[1] \in visited' /\ Placed(l[1]) =>
                           l[2] \in visited' \/ Queued(l[1], l[2])'
                      /\ \A v \in visited' :
                           v \in Matching /\ Placed(v) => \E f \in matches' : f[2] = v
    BY <1>1 DEF InWindow, Within, Placed
  <2>1. /\ wins[1] \in visited
        /\ \A l \in steady :
             l[1] \in visited /\ Placed(l[1]) => l[2] \in visited \/ Queued(l[1], l[2])
        /\ \A v \in visited : v \in Matching /\ Placed(v) => \E f \in matches : f[2] = v
    BY <1>1 DEF SearchInv, InWindow, Within
  <2>2. Placed(node) => node \in visible
    BY DEF Placed, SearchInv, Linked
  <2>3. ASSUME NEW l \in steady, Queued(l[1], l[2]), l[2] \notin visited'
        PROVE  Queued(l[1], l[2])'
    <3>1. PICK k \in DOMAIN work : \E i \in DOMAIN kids[l[1]] :
            work[k].of = l[1] /\ work[k].next <= i /\ i <= work[k].count /\ kids[l[1]][i] = l[2]
      BY <1>1, <2>3 DEF Queued
    <3>2. PICK i \in DOMAIN kids[l[1]] :
            work[k].of = l[1] /\ work[k].next <= i /\ i <= work[k].count /\ kids[l[1]][i] = l[2]
      BY <3>1
    <3>3. CASE k # 1
      <4>1. PICK j \in DOMAIN rest : rest[j] = work[k]
        BY <1>8, <3>3 DEF Holds
      <4>2. PICK m \in DOMAIN work' : work'[m] = rest[j]
        BY <1>9 DEF Holds
      <4>3. QED
        BY <1>1, <3>2, <4>1, <4>2 DEF Queued, Within
    <3>4. CASE k = 1
      <4>1. l[1] = p /\ n <= i /\ i <= count
        BY <1>4, <3>2, <3>4
      <4>2. i # n
        BY <1>6, <1>7, <2>3, <3>2, <4>1
      <4>3. n + 1 <= i
        BY <1>6, <3>2, <4>1, <4>2
      <4>4. PICK j \in DOMAIN rest : rest[j] = [of |-> p, next |-> n + 1, count |-> count]
        BY <1>8 DEF Holds
      <4>5. PICK m \in DOMAIN work' : work'[m] = rest[j]
        BY <1>9 DEF Holds
      <4>6. work'[m].of = p /\ work'[m].next <= i /\ i <= work'[m].count
        BY <4>1, <4>3, <4>4, <4>5
      <4>7. QED
        BY <1>1, <3>2, <4>1, <4>6 DEF Queued, Within
    <3>5. QED
      BY <3>3, <3>4
  <2>4. ASSUME NEW l \in steady, l[1] = node, node \notin visited, node \in visible
        PROVE  Queued(l[1], l[2])'
    <3>1. PICK i \in DOMAIN kids[node] : kids[node][i] = l[2]
      BY <2>4 DEF SearchInv, Linked
    <3>2. PICK m \in DOMAIN work' : work'[m] = Iterator(node)
      BY <1>9, <2>4 DEF Holds
    <3>3. work'[m].of = node /\ work'[m].next <= i /\ i <= work'[m].count
      <4>1. 1 <= i /\ i <= Len(kids[node])
        BY <1>6, <3>1
      <4>2. QED
        BY <3>2, <4>1 DEF Iterator
    <3>4. QED
      BY <1>1, <2>4, <3>1, <3>3 DEF Queued, Within
  <2>5. \A f \in matches : f \in matches'
    BY <1>7
  <2>6. ASSUME node \notin visited, node \in visible, node \in Matching
        PROVE  \E f \in matches' : f[2] = node
    <3>1. <<Head(wins), node>> \in matches'
      BY <1>7, <2>6
    <3>2. QED
      BY <3>1
  <2>7. wins[1] \in visited'
    BY <1>7, <2>1
  <2>8. \A l \in steady : l[1] \in visited' /\ Placed(l[1]) =>
          l[2] \in visited' \/ Queued(l[1], l[2])'
    BY <1>7, <2>1, <2>2, <2>3, <2>4
  <2>9. \A v \in visited' : v \in Matching /\ Placed(v) => \E f \in matches' : f[2] = v
    BY <1>7, <2>1, <2>2, <2>5, <2>6
  <2>10. QED
    BY <2>7, <2>8, <2>9
<1>13. \A f \in matches : f \in matches'
  BY <1>7
<1>14. QED
  BY <1>1, <1>10, <1>11, <1>12, <1>13, WithinKeeps DEF SearchInv, CursorTypes

(* A search for a witness queues all that it may have to visit.             *)
LEMMA PassByKeeps ==
  ASSUME SearchInv, PassBy
  PROVE  SearchInv'
<1>1. /\ Within /\ mode = "witness" /\ Head(work) \notin (Matching \intersect visible) \ visited
      /\ visited' = visited \union {Head(work)} /\ matches' = matches /\ broken' = broken
      /\ work' = Tail(work) \o (IF Head(work) \in visited THEN <<>> ELSE kids[Head(work)])
  BY DEF PassBy, Steps, treeVars, queryVars, memoryVars, Within
<1>2. work \in Seq(Inner)
  BY <1>1 DEF SearchInv, CursorTypes, WorkTypes, Within
<1>3. PICK node \in Inner :
        /\ node = Head(work) /\ work[1] = node /\ Tail(work) \in Seq(Inner)
        /\ \A k \in DOMAIN work : k # 1 => Holds(Tail(work), work[k])
  BY <1>1, <1>2, TailHolds DEF Within
<1>4. kids[node] \in Seq(Inner)
  BY InnerChildren DEF SearchInv
<1>5. PICK below \in Seq(Inner) :
        below = (IF node \in visited THEN <<>> ELSE kids[node])
  <2>1. <<>> \in Seq(Inner)
    BY EmptySeq
  <2>2. QED
    BY <1>4, <2>1
<1>6. work' = Tail(work) \o below
  BY <1>1, <1>3, <1>5
<1>7. /\ work' \in Seq(Inner)
      /\ \A k \in DOMAIN Tail(work) : Holds(work', Tail(work)[k])
      /\ \A k \in DOMAIN below : Holds(work', below[k])
  BY <1>3, <1>6, ConcatHolds
<1>8. WorkTypes' /\ visited' \subseteq Inner
  BY <1>1, <1>3, <1>7 DEF WorkTypes, Within, SearchInv, CursorTypes
<1>9. InWindow'
  <2> SUFFICES ASSUME ~broken
               PROVE  /\ wins[1] \in visited'
                      /\ \A l \in steady : l[1] \in visited' /\ Placed(l[1]) =>
                           l[2] \in visited' \/ Queued(l[1], l[2])'
                      /\ \A v \in visited' :
                           v \in Matching /\ Placed(v) => \E f \in matches : f[2] = v
    BY <1>1 DEF InWindow, Within, Placed
  <2>1. /\ wins[1] \in visited
        /\ \A l \in steady :
             l[1] \in visited /\ Placed(l[1]) => l[2] \in visited \/ Queued(l[1], l[2])
        /\ \A v \in visited : v \in Matching /\ Placed(v) => \E f \in matches : f[2] = v
    BY <1>1 DEF SearchInv, InWindow, Within
  <2>2. Placed(node) => node \in visible
    BY DEF Placed, SearchInv, Linked
  <2>3. ASSUME NEW l \in steady, Queued(l[1], l[2]), l[2] \notin visited'
        PROVE  Queued(l[1], l[2])'
    <3>1. PICK k \in DOMAIN work : work[k] = l[2]
      BY <1>1, <2>3 DEF Queued
    <3>2. k # 1
      BY <1>1, <1>3, <2>3, <3>1
    <3>3. PICK j \in DOMAIN Tail(work) : Tail(work)[j] = work[k]
      BY <1>3, <3>2 DEF Holds
    <3>4. PICK m \in DOMAIN work' : work'[m] = Tail(work)[j]
      BY <1>7 DEF Holds
    <3>5. QED
      BY <1>1, <3>1, <3>3, <3>4 DEF Queued, Within
  <2>4. ASSUME NEW l \in steady, l[1] = node, node \notin visited
        PROVE  Queued(l[1], l[2])'
    <3>1. PICK i \in DOMAIN below : below[i] = l[2]
      BY <1>5, <2>4 DEF SearchInv, Linked
    <3>2. PICK m \in DOMAIN work' : work'[m] = below[i]
      BY <1>7 DEF Holds
    <3>3. QED
      BY <1>1, <3>1, <3>2 DEF Queued, Within
  <2>5. wins[1] \in visited'
    BY <1>1, <2>1
  <2>6. \A l \in steady : l[1] \in visited' /\ Placed(l[1]) =>
          l[2] \in visited' \/ Queued(l[1], l[2])'
    BY <1>1, <1>3, <2>1, <2>3, <2>4
  <2>7. \A v \in visited' : v \in Matching /\ Placed(v) => \E f \in matches : f[2] = v
    BY <1>1, <1>3, <2>1, <2>2
  <2>8. QED
    BY <2>5, <2>6, <2>7
<1>10. QED
  BY <1>1, <1>8, <1>9, WithinKeeps DEF SearchInv, CursorTypes, Remembered

LEMMA PassOverKeeps ==
  ASSUME SearchInv, PassOver
  PROVE  SearchInv'
<1>1. /\ Within /\ mode = "witness"
      /\ visited' = visited \union {Head(work)} /\ matches' = matches /\ broken' = TRUE
  BY DEF PassOver, Steps, treeVars, queryVars, memoryVars, Within
<1>2. PICK read \in Readable(Len(kids[Head(work)])) :
        work' = Tail(work) \o [k \in DOMAIN read |-> kids[Head(work)][read[k]]]
  BY DEF PassOver
<1>3. work \in Seq(Inner)
  BY <1>1 DEF SearchInv, CursorTypes, WorkTypes, Within
<1>4. Head(work) \in Inner /\ Tail(work) \in Seq(Inner)
  BY <1>1, <1>3, TailHolds DEF Within
<1> DEFINE below == [k \in DOMAIN read |-> kids[Head(work)][read[k]]]
<1>5. below \in Seq(Inner)
  <2> DEFINE s == kids[Head(work)]
  <2>1. DOMAIN s = 1..Len(s) /\ \A i \in DOMAIN s : s[i] \in Inner
    BY <1>4, InnerChildren, ElementOfSeq DEF SearchInv
  <2>2. PICK m \in 0..Len(s) : read \in [1..m -> 1..Len(s)]
    <3>1. PICK count : count = Len(s)
      OBVIOUS
    <3>2. read \in Readable(count)
      BY <1>2, <3>1
    <3>3. \E m \in 0..count : read \in [1..m -> 1..count]
      BY <3>2 DEF Readable
    <3>4. QED
      BY <3>1, <3>3
  <2> HIDE DEF s
  <2>3. m \in Nat /\ \A k \in 1..m : s[read[k]] \in Inner
    BY <2>1, <2>2
  <2>4. [k \in DOMAIN read |-> s[read[k]]] = [k \in 1..m |-> s[read[k]]]
    BY <2>2
  <2>5. [k \in 1..m |-> s[read[k]]] \in Seq(Inner)
    BY <2>3, IsASeq
  <2>6. QED
    BY <2>4, <2>5 DEF s
<1>6. work' \in Seq(Inner)
  BY <1>2, <1>4, <1>5, ConcatProperties
<1>7. WorkTypes' /\ visited' \subseteq Inner
  BY <1>1, <1>4, <1>6 DEF WorkTypes, Within, SearchInv, CursorTypes
<1>8. InWindow'
  BY <1>1 DEF InWindow
<1>9. QED
  BY <1>1, <1>7, <1>8, WithinKeeps DEF SearchInv, CursorTypes, Remembered

(* A step that ends the search or starts it over.                           *)
LEMMA StopKeeps ==
  ASSUME SearchInv, stage' \in {"poll"} \union SearchEnded,
         kids' = kids, visible' = visible, changes' = changes, exited' = exited,
         mode' = mode, hint' = hint, scoped' = scoped, allowed' = allowed,
         over' = over, order' = order, reading' = reading, wins' = wins, work' = work,
         visited' = visited, matches' = matches, broken' = broken, steady' = steady,
         shown' = shown, slipped' = slipped, answer' \in Matching \union {NoNode},
         stage' = "passed" <=> answer' # NoNode,
         PassedIsUnique', AbsenceIsComplete', AmbiguityIsReal'
  PROVE  SearchInv'
<1>1. TreeTypes' /\ Linked'
  BY TreeStays DEF SearchInv
<1>2. stage' \notin Searching
  BY DEF Searching, SearchEnded
<1>3. CursorTypes'
  BY <1>2 DEF SearchInv, CursorTypes, Searching
<1>4. Remembered' /\ Backwards' /\ Coverage' /\ InWindow'
  BY <1>2 DEF SearchInv, Remembered, Backwards, Coverage, InWindow, Searching
<1>5. QED
  BY <1>1, <1>3, <1>4 DEF SearchInv

LEMMA WitnessKeeps ==
  ASSUME SearchInv, Witness
  PROVE  SearchInv'
<1>1. /\ mode = "witness" /\ stage' = "passed" /\ answer' = Head(work) /\ answer' \in Matching
      /\ kids' = kids /\ visible' = visible /\ changes' = changes /\ exited' = exited
      /\ mode' = mode
      /\ hint' = hint /\ scoped' = scoped /\ allowed' = allowed /\ over' = over
      /\ order' = order /\ reading' = reading /\ wins' = wins
      /\ work' = work /\ visited' = visited /\ matches' = matches /\ broken' = broken
      /\ steady' = steady /\ shown' = shown /\ slipped' = slipped
  BY DEF Witness, treeVars, queryVars, memoryVars, placeVars
<1>2. answer' # NoNode
  BY <1>1, SearchAssumption DEF Nodes
<1>3. PassedIsUnique' /\ AbsenceIsComplete' /\ AmbiguityIsReal'
  BY <1>1 DEF PassedIsUnique, AbsenceIsComplete, AmbiguityIsReal
<1>4. QED
  BY <1>1, <1>2, <1>3, StopKeeps DEF SearchEnded

(* A read fails, a limit is reached, or an iterator is broken.              *)
LEMMA StoppedKeeps ==
  ASSUME SearchInv, SearchRefused \/ SearchTruncated \/ IteratorFails
  PROVE  SearchInv'
<1>1. /\ stage \in Searching /\ stage' \in {"poll", "inconclusive", "crashed"}
      /\ kids' = kids /\ visible' = visible /\ changes' = changes /\ exited' = exited
      /\ mode' = mode
      /\ hint' = hint /\ scoped' = scoped /\ allowed' = allowed /\ over' = over
      /\ order' = order /\ reading' = reading /\ wins' = wins
      /\ work' = work /\ visited' = visited /\ matches' = matches /\ broken' = broken
      /\ steady' = steady /\ shown' = shown /\ slipped' = slipped /\ answer' = answer
  BY DEF SearchRefused, SearchTruncated, IteratorFails, treeVars, queryVars, memoryVars,
     placeVars, Searching
<1>2. answer' \in Matching \union {NoNode} /\ (stage' = "passed" <=> answer' # NoNode)
  BY <1>1 DEF SearchInv, CursorTypes, Searching
<1>3. PassedIsUnique' /\ AbsenceIsComplete' /\ AmbiguityIsReal'
  BY <1>1 DEF PassedIsUnique, AbsenceIsComplete, AmbiguityIsReal
<1>4. QED
  BY <1>1, <1>2, <1>3, StopKeeps DEF SearchEnded

(* The queue is empty: all that has its place in the window was visited.    *)
LEMMA LeaveWindowKeeps ==
  ASSUME SearchInv, LeaveWindow
  PROVE  SearchInv'
<1>1. /\ stage = "window" /\ stage' = "windows" /\ work = <<>> /\ wins' = Tail(wins)
      /\ visited' = {}
      /\ kids' = kids /\ visible' = visible /\ changes' = changes /\ exited' = exited
      /\ mode' = mode
      /\ hint' = hint /\ scoped' = scoped /\ allowed' = allowed /\ over' = over
      /\ order' = order /\ reading' = reading
      /\ work' = work /\ matches' = matches /\ broken' = broken
      /\ steady' = steady /\ shown' = shown /\ slipped' = slipped /\ answer' = answer
  BY DEF LeaveWindow, treeVars, queryVars, memoryVars
<1>2. TreeTypes' /\ Linked'
  BY <1>1, TreeStays DEF SearchInv
<1>3. /\ wins' \in Seq(Windows)
      /\ \A k \in DOMAIN wins : k # 1 => \E m \in DOMAIN wins' : wins'[m] = wins[k]
  <2>1. wins \in Seq(Windows) /\ wins # <<>>
    BY <1>1 DEF SearchInv, CursorTypes
  <2>2. QED
    BY <1>1, <2>1, TailHolds DEF Holds
<1>4. CursorTypes'
  BY <1>1, <1>3 DEF SearchInv, CursorTypes, Searching
<1>5. Remembered' /\ Backwards'
  BY <1>1 DEF SearchInv, Remembered, Shown, Searching, Backwards
<1>6. Coverage'
  <2> SUFFICES ASSUME ~broken PROVE \E D \in SUBSET Inner : Searched(D)'
    BY <1>1 DEF Coverage
  <2>1. PICK D \in SUBSET Inner : Searched(D)
    BY <1>1 DEF SearchInv, Coverage, Searching
  <2>2. /\ wins[1] \in visited
        /\ \A l \in steady :
             l[1] \in visited /\ Placed(l[1]) => l[2] \in visited \/ Queued(l[1], l[2])
        /\ \A v \in visited : v \in Matching /\ Placed(v) => \E f \in matches : f[2] = v
    BY <1>1 DEF SearchInv, InWindow
  <2>3. \A v, c : ~Queued(v, c)
    <3>1. DOMAIN work = {}
      BY <1>1
    <3>2. QED
      BY <3>1 DEF Queued
  <2>4. PICK E \in SUBSET Inner : E = D \union {v \in visited : Placed(v)}
    BY DEF SearchInv, CursorTypes
  <2>5. \A c \in E : c \in Matching => \E f \in matches : f[2] = c
    BY <2>1, <2>2, <2>4 DEF Searched
  <2>6. ASSUME NEW l \in steady, l[1] \in E PROVE l[2] \in E
    <3>1. CASE l[1] \in D
      BY <3>1, <2>1, <2>4 DEF Searched
    <3>2. CASE l[1] \in visited /\ Placed(l[1])
      <4>1. l[2] \in visited
        BY <3>2, <2>2, <2>3
      <4>2. Placed(l[2])
        BY DEF Placed
      <4>3. QED
        BY <4>1, <4>2, <2>4
    <3>3. QED
      BY <3>1, <3>2, <2>4, <2>6
  <2>7. ASSUME NEW l \in steady, Reckoned(l[1]), <<Desktop, l[1]>> \in steady, l[2] \notin E
        PROVE  Due(l[1], l[2])'
    <3>1. Due(l[1], l[2])
      BY <2>1, <2>4, <2>7 DEF Searched
    <3>2. CASE l[1] # reading
      BY <1>1, <3>1, <3>2 DEF Due, Unread
    <3>3. CASE l[1] = reading
      <4>1. PICK j \in DOMAIN wins : wins[j] = l[2]
        BY <3>1, <3>3 DEF Due
      <4>2. j # 1
        <5>1. Placed(l[2])
          BY DEF Placed
        <5>2. QED
          BY <2>2, <2>4, <2>7, <4>1, <5>1
      <4>3. QED
        BY <1>1, <1>3, <3>3, <4>1, <4>2 DEF Due
    <3>4. QED
      BY <3>2, <3>3
  <2>8. Searched(E)'
    BY <1>1, <2>4, <2>5, <2>6, <2>7 DEF Searched, Reckoned
  <2>9. QED
    BY <2>8
<1>7. InWindow'
  BY <1>1 DEF InWindow
<1>8. QED
  BY <1>1, <1>2, <1>4, <1>5, <1>6, <1>7, NoVerdict DEF SearchInv, SearchEnded

(* What exited has no windows in their places.                              *)
LEMMA PassExitedKeeps ==
  ASSUME SearchInv, PassExited
  PROVE  SearchInv'
<1>1. /\ stage = "windows" /\ stage' = "windows" /\ wins # <<>> /\ wins' = Tail(wins)
      /\ reading \in exited
      /\ kids' = kids /\ visible' = visible /\ changes' = changes /\ exited' = exited
      /\ mode' = mode /\ hint' = hint /\ scoped' = scoped /\ allowed' = allowed
      /\ over' = over /\ order' = order /\ reading' = reading /\ visited' = visited
      /\ work' = work /\ matches' = matches /\ broken' = broken
      /\ steady' = steady /\ shown' = shown /\ slipped' = slipped /\ answer' = answer
  BY DEF PassExited, treeVars, queryVars, memoryVars
<1>2. TreeTypes' /\ Linked'
  BY <1>1, TreeStays DEF SearchInv
<1>3. wins' \in Seq(Windows)
  BY <1>1, TailHolds DEF SearchInv, CursorTypes
<1>4. CursorTypes'
  BY <1>1, <1>3 DEF SearchInv, CursorTypes
<1>5. Remembered' /\ Backwards'
  BY <1>1 DEF SearchInv, Remembered, Shown, Searching, Backwards
<1>6. Coverage'
  <2>1. \A l \in steady : l[1] # reading
    BY <1>1 DEF SearchInv, Linked, TreeTypes
  <2>2. ASSUME NEW D \in SUBSET Inner, Searched(D) PROVE Searched(D)'
    <3>1. \A l \in steady : Due(l[1], l[2]) => Due(l[1], l[2])'
      BY <1>1, <2>1 DEF Due, Unread
    <3>2. QED
      BY <1>1, <2>2, <3>1 DEF Searched, Reckoned
  <2>3. QED
    BY <1>1, <2>2 DEF SearchInv, Coverage
<1>7. InWindow'
  BY <1>1 DEF InWindow
<1>8. QED
  BY <1>1, <1>2, <1>4, <1>5, <1>6, <1>7, NoVerdict DEF SearchInv, SearchEnded

(* What a set holds that no steady link leads out of: all that the windows  *)
(* in it lead to.                                                           *)
LEMMA ReachedIsSearched ==
  ASSUME NEW D \in SUBSET Inner, Searched(D), NEW apps,
         \A l \in steady : l[1] \in apps /\ <<Desktop, l[1]>> \in steady => l[2] \in D
  PROVE  SteadyMatches(apps) \subseteq Distinct
<1>1. ASSUME NEW c \in SteadyMatches(apps) PROVE c \in D
  <2>1. \A s \in SUBSET Inner :
          (\A l \in steady :
             l[1] \in s \/ (l[1] \in apps /\ <<Desktop, l[1]>> \in steady) => l[2] \in s)
          => c \in s
    BY <1>1 DEF SteadyMatches, Reached
  <2>2. \A l \in steady :
          l[1] \in D \/ (l[1] \in apps /\ <<Desktop, l[1]>> \in steady) => l[2] \in D
    BY DEF Searched
  <2>3. QED
    BY <2>1, <2>2
<1>2. ASSUME NEW c \in SteadyMatches(apps) PROVE c \in Distinct
  <2>1. c \in Matching
    BY <1>2 DEF SteadyMatches
  <2>2. PICK f \in matches : f[2] = c
    BY <1>1, <1>2, <2>1 DEF Searched
  <2>3. QED
    BY <2>2 DEF Distinct
<1>3. QED
  BY <1>2

(* The matches are counted, and what is counted was shown.                  *)
LEMMA DistinctFacts ==
  ASSUME SearchInv
  PROVE  /\ Cardinality(Distinct) = 1 => \A c, d \in Distinct : c = d
         /\ Cardinality(Distinct) > 1 => Cardinality(shown) > 1
         /\ Distinct \subseteq Matching
<1>1. Distinct \subseteq shown /\ shown \subseteq Matching
  BY DEF SearchInv, Remembered, Distinct
<1>2. IsFiniteSet(shown)
  <2>1. IsFiniteSet(Controls) /\ shown \subseteq Controls
    BY <1>1, SearchAssumption
  <2>2. QED
    BY <2>1, FS_Subset
<1>3. /\ IsFiniteSet(Distinct) /\ Cardinality(Distinct) <= Cardinality(shown)
      /\ Cardinality(shown) \in Nat /\ Cardinality(Distinct) \in Nat
  BY <1>1, <1>2, FS_Subset, FS_CardinalityType
<1>4. Cardinality(Distinct) = 1 => \A c, d \in Distinct : c = d
  BY <1>3, FS_Singleton
<1>5. QED
  BY <1>1, <1>3, <1>4

(* A verdict on a scan that found all the steady matches.                   *)
LEMMA ConcludeKeeps ==
  ASSUME SearchInv, Conclude, stage \in Searching,
         mode # "witness" =>
           SteadyMatches(IF mode = "hinted" THEN {reading} ELSE allowed \ slipped)
             \subseteq Distinct,
         Distinct = {} => SteadyMatches(allowed \ slipped) = {}
  PROVE  SearchInv'
<1>1. /\ kids' = kids /\ visible' = visible /\ changes' = changes /\ exited' = exited
      /\ mode' = mode
      /\ hint' = hint /\ scoped' = scoped /\ allowed' = allowed /\ over' = over
      /\ order' = order /\ reading' = reading /\ wins' = wins
      /\ work' = work /\ visited' = visited /\ matches' = matches /\ broken' = broken
      /\ steady' = steady /\ shown' = shown /\ slipped' = slipped
  BY DEF Conclude, treeVars, queryVars, memoryVars, placeVars
<1>2. answer = NoNode
  BY DEF SearchInv, CursorTypes, Searching
<1>3. \/ Cardinality(Distinct) > 1 /\ stage' = "ambiguous" /\ answer' = answer
      \/ /\ Cardinality(Distinct) = 1 /\ stage' = "passed"
         /\ answer' \in Distinct
      \/ /\ Distinct = {} /\ answer' = answer /\ stage' \in {"not-found", "poll"}
  BY DEF Conclude, Distinct
<1>4. NoNode \notin Matching
  BY SearchAssumption DEF Nodes
<1>5. answer' \in Matching \union {NoNode} /\ (stage' = "passed" <=> answer' # NoNode)
  BY <1>2, <1>3, <1>4, DistinctFacts
<1>6. \A apps : SteadyMatches(apps)' = SteadyMatches(apps)
  BY <1>1 DEF SteadyMatches, Reached
<1>7. PassedIsUnique'
  <2> SUFFICES ASSUME stage' = "passed", mode # "witness"
               PROVE  SteadyMatches(IF mode = "hinted" THEN {reading} ELSE allowed \ slipped)'
                        \subseteq {answer'}
    BY <1>1 DEF PassedIsUnique
  <2>1. Distinct = {answer'}
    BY <1>3, DistinctFacts
  <2>2. SteadyMatches(IF mode = "hinted" THEN {reading} ELSE allowed \ slipped)
          \subseteq {answer'}
    BY <2>1
  <2>3. QED
    BY <1>1, <2>2 DEF SteadyMatches, Reached
<1>8. AbsenceIsComplete'
  <2>1. scoped /\ hint = 0 => slipped = {}
    BY DEF SearchInv, Backwards
  <2>2. QED
    BY <1>1, <1>3, <2>1 DEF AbsenceIsComplete, SteadyMatches, Reached
<1>9. AmbiguityIsReal'
  BY <1>1, <1>3, DistinctFacts DEF AmbiguityIsReal
<1>10. QED
  BY <1>1, <1>3, <1>5, <1>7, <1>8, <1>9, StopKeeps DEF SearchEnded

(* All windows of an application were searched: with a hint this may be     *)
(* enough.                                                                  *)
LEMMA LeaveAppKeeps ==
  ASSUME SearchInv, FinishApp
  PROVE  SearchInv'
<1>1. stage = "windows" /\ wins = <<>> /\ DOMAIN wins = {} /\ reading \in allowed
  BY DEF FinishApp, SearchInv, CursorTypes
<1>2. ASSUME NEW D \in SUBSET Inner, Searched(D), NEW l \in steady, l[1] = reading,
             <<Desktop, l[1]>> \in steady
      PROVE  l[2] \in D
  <2>1. Reckoned(l[1])
    BY <1>1, <1>2 DEF Reckoned
  <2>2. l[2] \in D \/ Due(l[1], l[2])
    BY <1>2, <2>1 DEF Searched
  <2>3. QED
    BY <1>1, <1>2, <2>2 DEF Due
<1>3. CASE mode = "hinted" /\ matches # {}
  <2>1. Conclude /\ ~broken
    BY <1>3 DEF FinishApp, SearchInv, CursorTypes
  <2>2. PICK D \in SUBSET Inner : Searched(D)
    BY <1>1, <2>1 DEF SearchInv, Coverage, Searching
  <2>3. SteadyMatches({reading}) \subseteq Distinct
    BY <1>2, <2>2, ReachedIsSearched
  <2>4. Distinct # {}
    BY <1>3 DEF Distinct
  <2>5. QED
    BY <1>1, <1>3, <2>1, <2>3, <2>4, ConcludeKeeps DEF Searching
<1>4. CASE ~(mode = "hinted" /\ matches # {})
  <2>1. /\ stage' = "apps" /\ reading' = NoNode
        /\ kids' = kids /\ visible' = visible /\ changes' = changes /\ exited' = exited
        /\ mode' = mode
        /\ hint' = hint /\ scoped' = scoped /\ allowed' = allowed /\ over' = over
        /\ order' = order /\ wins' = wins
        /\ work' = work /\ visited' = visited /\ matches' = matches /\ broken' = broken
        /\ steady' = steady /\ shown' = shown /\ slipped' = slipped /\ answer' = answer
    BY <1>4 DEF FinishApp, treeVars, queryVars, memoryVars
  <2>2. TreeTypes' /\ Linked'
    BY <2>1, TreeStays DEF SearchInv
  <2>3. CursorTypes' /\ Remembered' /\ Backwards' /\ InWindow'
    BY <1>1, <2>1 DEF SearchInv, CursorTypes, Remembered, Shown, Searching,
       SearchEnded, Backwards, InWindow
  <2>4. Coverage'
    <3>1. NoNode \notin allowed
      BY SearchAssumption DEF Nodes, SearchInv, CursorTypes
    <3>2. ASSUME NEW D \in SUBSET Inner, Searched(D) PROVE Searched(D)'
      <4>1. ASSUME NEW l \in steady, Reckoned(l[1])', <<Desktop, l[1]>> \in steady,
                   l[2] \notin D
            PROVE  Due(l[1], l[2])'
        <5>1. l[1] \in allowed /\ Reckoned(l[1])
          BY <2>1, <3>1, <4>1 DEF Reckoned
        <5>2. l[1] # reading /\ Due(l[1], l[2])
          BY <1>2, <3>2, <4>1, <5>1 DEF Searched
        <5>3. QED
          BY <2>1, <3>1, <5>1, <5>2 DEF Due, Unread
      <4>2. QED
        BY <2>1, <3>2, <4>1 DEF Searched
    <3>3. QED
      BY <1>1, <2>1, <3>2 DEF SearchInv, Coverage, Searching
  <2>5. QED
    BY <2>1, <2>2, <2>3, <2>4, NoVerdict DEF SearchInv, SearchEnded
<1>5. QED
  BY <1>3, <1>4

(* All applications were read.                                              *)
LEMMA JudgeKeeps ==
  ASSUME SearchInv, JudgeMatches
  PROVE  SearchInv'
<1>1. /\ stage = "apps" /\ order = <<>> /\ DOMAIN order = {} /\ ~broken /\ Conclude
      /\ reading = NoNode /\ NoNode \notin allowed /\ NoNode \notin Nodes
  BY SearchAssumption DEF JudgeMatches, SearchInv, CursorTypes, Nodes
<1>2. PICK D \in SUBSET Inner : Searched(D)
  BY <1>1 DEF SearchInv, Coverage, Searching
<1>3. SteadyMatches(allowed \ slipped) \subseteq Distinct
  <2>1. \A l \in steady :
          l[1] \in allowed \ slipped /\ <<Desktop, l[1]>> \in steady => l[2] \in D
    BY <1>1, <1>2 DEF Searched, Reckoned, Due, Unread
  <2>2. QED
    BY <1>2, <2>1, ReachedIsSearched
<1>4. SteadyMatches({reading}) \subseteq Distinct
  <2>1. \A l \in steady : l[1] # reading
    BY <1>1 DEF SearchInv, Linked
  <2>2. QED
    BY <1>2, <2>1, ReachedIsSearched
<1>5. QED
  BY <1>1, <1>3, <1>4, ConcludeKeeps DEF Searching

LEMMA DeadlineKeeps ==
  ASSUME SearchInv,
         (SearchExpires \/ UNCHANGED searchVars)
  PROVE  SearchInv'
<1>1. /\ kids' = kids /\ visible' = visible /\ changes' = changes /\ exited' = exited
      /\ mode' = mode
      /\ hint' = hint /\ scoped' = scoped /\ allowed' = allowed /\ over' \in BOOLEAN
      /\ order' = order /\ reading' = reading
      /\ wins' = wins /\ work' = work /\ visited' = visited /\ matches' = matches
      /\ broken' = broken /\ steady' = steady /\ shown' = shown /\ slipped' = slipped
      /\ answer' = answer
      /\ stage' = stage
  BY DEF SearchExpires, treeVars, queryVars, memoryVars, placeVars, searchVars, SearchInv,
     CursorTypes
<1>2. TreeTypes' /\ Linked'
  BY <1>1, TreeStays DEF SearchInv
<1>3. CursorTypes' /\ Remembered' /\ Backwards'
  BY <1>1 DEF SearchInv, CursorTypes, WorkTypes, Remembered, Shown, Backwards
<1>4. Coverage' /\ InWindow'
  <2>1. CASE stage \in Searching
    <3>1. Coverage'
      BY <1>1, <2>1, CoverageStays DEF SearchInv
    <3>2. InWindow'
      BY <1>1 DEF SearchInv, InWindow, Placed, Queued
    <3>3. QED
      BY <3>1, <3>2
  <2>2. CASE stage \notin Searching
    BY <1>1, <2>2 DEF Coverage, InWindow, Searching
  <2>3. QED
    BY <2>1, <2>2
<1>5. PassedIsUnique' /\ AbsenceIsComplete' /\ AmbiguityIsReal'
  BY <1>1 DEF SearchInv, PassedIsUnique, AbsenceIsComplete,
     AmbiguityIsReal, SteadyMatches, Reached
<1>6. QED
  BY <1>2, <1>3, <1>4, <1>5 DEF SearchInv

LEMMA SearchStep ==
  ASSUME SearchInv, [SearchNext]_searchVars
  PROVE  SearchInv'
<1>1. CASE Application
  BY <1>1, ApplicationKeeps
<1>2. CASE Probe
  BY <1>2, StartKeeps, SkipKeeps, EnterAppKeeps, PassExitedKeeps, EnterWindowKeeps,
     ExhaustedKeeps, ExamineKeeps, WitnessKeeps, PassByKeeps, PassOverKeeps, LeaveWindowKeeps,
     LeaveAppKeeps, JudgeKeeps, StoppedKeeps DEF Probe
<1>3. CASE SearchExpires \/ UNCHANGED searchVars
  BY <1>3, DeadlineKeeps
<1>4. QED
  BY <1>1, <1>2, <1>3 DEF SearchNext

(* The invariant holds at every time.                                       *)
THEOREM SearchInvariance ==
  SearchSpec => []SearchInv
<1>1. SearchInit => SearchInv
  BY SearchBegins
<1>2. SearchInv /\ [SearchNext]_searchVars => SearchInv'
  BY SearchStep
<1>3. QED
  BY <1>1, <1>2, PTL DEF SearchSpec

(* The types of the tree and of the search, for any tree and any changes of *)
(* it.                                                                      *)
THEOREM SearchTypeCorrect ==
  SearchSpec => []SearchTypeOK
<1>1. SearchInv => SearchTypeOK
  <2> SUFFICES ASSUME SearchInv PROVE SearchTypeOK
    OBVIOUS
  <2>1. \A i \in DOMAIN wins : wins[i] \in Windows
    BY ElementOfSeq, LenProperties DEF SearchInv, CursorTypes
  <2>2. visited \subseteq Nodes
    BY DEF SearchInv, CursorTypes, Inner, Nodes
  <2>3. QED
    BY <2>1, <2>2 DEF SearchInv, TreeTypes, CursorTypes, Remembered, SearchTypeOK, ToSet
<1>2. QED
  BY <1>1, SearchInvariance, PTL

(* Where a search for a unique control passes, no other that matches was in *)
(* its place through the scan, in an application that did not slip past it. *)
THEOREM PassedUnique ==
  SearchSpec => []PassedIsUnique
<1>1. SearchInv => PassedIsUnique
  BY DEF SearchInv
<1>2. QED
  BY <1>1, SearchInvariance, PTL

(* A control that was in its place through the scan is not missed, unless   *)
(* its application slipped past the scan; newest first, none does.          *)
THEOREM AbsenceComplete ==
  SearchSpec => []AbsenceIsComplete
<1>1. SearchInv => AbsenceIsComplete
  BY DEF SearchInv
<1>2. QED
  BY <1>1, SearchInvariance, PTL

(* Two controls that are told apart were both shown.                        *)
THEOREM AmbiguityReal ==
  SearchSpec => []AmbiguityIsReal
<1>1. SearchInv => AmbiguityIsReal
  BY DEF SearchInv
<1>2. QED
  BY <1>1, SearchInvariance, PTL

=============================================================================
