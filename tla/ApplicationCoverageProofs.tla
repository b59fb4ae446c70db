--------------------- MODULE ApplicationCoverageProofs ----------------------
(***************************************************************************)
(* For any ISO, policy, number of shards and set of entries: what an       *)
(* application coverage that passed has covered, and when it passes.       *)
(***************************************************************************)
EXTENDS ApplicationCoverage, FiniteSetTheorems, TLAPS

(* A shard tests only after it accepted its setting and its policy.         *)
Accepted ==
  /\ \A j \in covered : /\ Setting(j).index < Setting(j).count
                        /\ PolicyAccepted(Policy(j))
                        /\ AliasesLead(j)
  /\ \A j \in Jobs : job[j] \in {"testing", "passed"} \/ results[j] # {} => j \in covered

(* What a shard has recorded is what the test of that entry may give.       *)
Recorded == \A j \in Jobs : \A item \in results[j] : item \in Outcomes(j, item.id)

(* A shard that passed tested all of its entries, and uploaded.             *)
PassedShard ==
  \A j \in Jobs : job[j] = "passed" =>
    /\ upload[j] = "done" /\ Failed(j) = {} /\ Selected(j) = Tested(j)
    /\ \A id \in Installed(j) : Classification(j, id) # "invalid"

(* The aggregation has judged what is there, and nothing comes after it.    *)
EvidenceGood == MetricsValid /\ \A j \in Files : Failed(j) = {}

Judged ==
  verdict # "none" =>
    /\ \A j \in Jobs : ~Running(j)
    /\ verdict = "passed" <=> EvidenceGood

Inv ==
  /\ world \in Worlds
  /\ TypeOK /\ Accepted /\ Recorded /\ PassedShard /\ Judged

-----------------------------------------------------------------------------
(* What depends on the world alone does not change.                         *)
LEMMA WorldStays ==
  ASSUME world' = world
  PROVE  /\ \A j : Setting(j)' = Setting(j) /\ Policy(j)' = Policy(j) /\ Content(j)' = Content(j)
         /\ \A j : Installed(j)' = Installed(j) /\ Launchable(j)' = Launchable(j)
         /\ \A j, id : Classification(j, id)' = Classification(j, id)
         /\ \A j : Inventory(j)' = Inventory(j) /\ Selected(j)' = Selected(j)
         /\ \A j : AliasesLead(j)' <=> AliasesLead(j)
         /\ \A j, id : Outcomes(j, id)' = Outcomes(j, id)
<1>1. \A j : Setting(j)' = Setting(j)
  BY DEF Setting
<1>2. \A j : Policy(j)' = Policy(j) /\ Content(j)' = Content(j)
  BY <1>1 DEF Policy, Content
<1>3. \A j : Installed(j)' = Installed(j)
  BY <1>2 DEF Installed
<1>4. \A j, id : Classification(j, id)' = Classification(j, id)
  BY <1>2 DEF Classification
<1>5. \A j : Launchable(j)' = Launchable(j)
  BY <1>3, <1>4 DEF Launchable
<1>6. \A j, id : Item(j, id)' = Item(j, id)
  BY <1>1, <1>2, <1>4, <1>5 DEF Item
<1>7. \A j : Inventory(j)' = Inventory(j)
  BY <1>3, <1>6 DEF Inventory
<1>8. \A j : Selected(j)' = Selected(j)
  BY <1>1, <1>5 DEF Selected
<1>9. \A j : AliasesLead(j)' <=> AliasesLead(j)
  BY <1>2, <1>3, <1>4, <1>5 DEF AliasesLead
<1>10. \A j, id : Outcomes(j, id)' = Outcomes(j, id)
  BY <1>2 DEF Outcomes
<1>11. QED
  BY <1>1, <1>2, <1>3, <1>4, <1>5, <1>7, <1>8, <1>9, <1>10

(* Nor does what the aggregation checks, when no shard takes a step.        *)
LEMMA EvidenceStays ==
  ASSUME UNCHANGED <<world, covered, results, upload>>
  PROVE  EvidenceGood' <=> EvidenceGood
<1> USE WorldStays
<1>1. /\ Files' = Files
      /\ \A j : Tested(j)' = Tested(j) /\ Failed(j)' = Failed(j)
  BY DEF Files, Tested, Failed
<1>2. CountsAgree' <=> CountsAgree
  BY <1>1 DEF CountsAgree
<1>3. MetadataAgrees' <=> MetadataAgrees
  BY <1>1 DEF MetadataAgrees
<1>4. \A j : InventoryValid(j)' <=> InventoryValid(j)
  BY DEF InventoryValid
<1>5. InventoriesAgree' <=> InventoriesAgree
  BY <1>1 DEF InventoriesAgree
<1>6. \A j : PolicyHolds(world.policy[ExpectedCommit], Inventory(j))' <=>
               PolicyHolds(world.policy[ExpectedCommit], Inventory(j))
  BY DEF PolicyHolds
<1>7. \A j, item : ItemValid(j, item)' <=> ItemValid(j, item)
  BY DEF ItemValid
<1>8. CoverageExact' <=> CoverageExact
  BY <1>1 DEF CoverageExact
<1>9. MetricsValid' <=> MetricsValid
  BY <1>1, <1>2, <1>3, <1>4, <1>5, <1>6, <1>7, <1>8 DEF MetricsValid
<1>10. QED
  BY <1>1, <1>9 DEF EvidenceGood

-----------------------------------------------------------------------------
(* Contracts and classes.                                                  *)

(* A contract in full.                                                      *)
FullContracts ==
  [kind : Kinds, closeKey : CloseKeys \union {None}, exits : SUBSET Nat,
   requires : SUBSET Requirements]

(* The guest completes a sound contract to one the aggregation accepts and  *)
(* would complete in the same way.                                          *)
LEMMA CompletedContract ==
  ASSUME NEW raw \in RawContracts, ContractSound(raw)
  PROVE  /\ Completed(raw) \in FullContracts
         /\ Completed(raw).closeKey = raw.closeKey
         /\ ContractSound(Completed(raw))
         /\ NormalizedContract(Completed(raw)) = Completed(raw)
         /\ NormalizedContract(raw) = Completed(raw)
<1> DEFINE exits == IF raw.exits # None THEN raw.exits
                    ELSE IF raw.kind = "transient-dialog" THEN {0, 1} ELSE {0}
           full  == [kind |-> raw.kind, closeKey |-> raw.closeKey, exits |-> exits,
                     requires |-> raw.requires]
<1>1. Completed(raw) = full /\ NormalizedContract(raw) = full
  BY DEF Completed, NormalizedContract, RawContracts
<1>2. exits \in SUBSET Nat /\ exits # {} /\ exits # None
  BY WorldsAssumption DEF RawContracts, ContractSound
<1> HIDE DEF exits
<1>3. full \in FullContracts /\ ContractSound(full)
  BY <1>2 DEF FullContracts, ContractSound, RawContracts
<1>4. NormalizedContract(full) = full
  BY <1>2 DEF NormalizedContract
<1>5. QED
  BY <1>1, <1>3, <1>4

LEMMA ContractInFull ==
  ASSUME world \in Worlds, NEW j \in Jobs, PolicyAccepted(Policy(j)), NEW id
  PROVE  /\ Contract(Policy(j), id) \in FullContracts
         /\ ContractSound(Contract(Policy(j), id))
         /\ NormalizedContract(Contract(Policy(j), id)) = Contract(Policy(j), id)
         /\ id \in DOMAIN Policy(j).contracts =>
              /\ Contract(Policy(j), id) = NormalizedContract(Policy(j).contracts[id])
              /\ Contract(Policy(j), id).closeKey = Policy(j).contracts[id].closeKey
<1>1. CASE id \in DOMAIN Policy(j).contracts
  <2> DEFINE raw == Policy(j).contracts[id]
  <2>1. raw \in RawContracts /\ ContractSound(raw)
    BY <1>1, WorldsAssumption DEF PolicyAccepted, Policy, Setting
  <2>2. Contract(Policy(j), id) = Completed(raw)
    BY <1>1 DEF Contract
  <2> HIDE DEF raw
  <2>3. QED
    BY <2>1, <2>2, CompletedContract DEF raw
<1>2. CASE id \notin DOMAIN Policy(j).contracts
  <2>1. Contract(Policy(j), id) = Default
    BY <1>2 DEF Contract
  <2>2. Default \in FullContracts /\ ContractSound(Default)
    BY DEF Default, FullContracts, ContractSound, Kinds
  <2>3. NormalizedContract(Default) = Default
    BY WorldsAssumption DEF NormalizedContract, Default
  <2>4. QED
    BY <1>2, <2>1, <2>2, <2>3
<1>3. QED
  BY <1>1, <1>2

LEMMA OutcomesTyped ==
  ASSUME world \in Worlds, NEW j \in Jobs, PolicyAccepted(Policy(j)), NEW id \in Ids,
         NEW item \in Outcomes(j, id)
  PROVE  item \in Metrics /\ item.id = id
<1> DEFINE contract == Contract(Policy(j), id)
<1>1. contract \in FullContracts
  BY ContractInFull
<1> HIDE DEF contract
<1>2. CloseKey(contract, id) \in CloseKeys /\ Exits(contract) \subseteq Nat \union {None}
  BY <1>1 DEF CloseKey, Exits, CloseKeys, FullContracts
<1>3. item \in [id : {id}, status : {"failed"}, close : {None}, exit : {None}]
                 \union [id : {id}, status : {"skipped"}, close : {None}, exit : {None}]
                 \union [id : {id}, status : {"passed"},
                         close : {CloseKey(contract, id)}, exit : Exits(contract)]
  BY DEF Outcomes, contract
<1>4. QED
  BY <1>2, <1>3 DEF Metrics, Statuses

(* The classes exclude each other, in the order in which they are decided.  *)
LEMMA Classes ==
  ASSUME NEW j, NEW id
  PROVE  LET left  == \/ id \in Policy(j).excluded
                      \/ NotApplicable(ParseDesktopEntry(Content(j)[id]))
             alias == id \in DOMAIN Policy(j).aliases
         IN  /\ Classification(j, id) = "excluded" <=> left
             /\ Classification(j, id) = "duplicate-alias" <=> ~left /\ alias
             /\ Classification(j, id) \in {"excluded", "duplicate-alias", "invalid", "launchable"}
<1> DEFINE left  == \/ id \in Policy(j).excluded
                    \/ NotApplicable(ParseDesktopEntry(Content(j)[id]))
           alias == id \in DOMAIN Policy(j).aliases
           dead  == Unlaunchable(ParseDesktopEntry(Content(j)[id]))
<1>1. Classification(j, id) = CASE left -> "excluded"
                                [] ~left /\ alias -> "duplicate-alias"
                                [] ~left /\ ~alias /\ dead -> "invalid"
                                [] OTHER -> "launchable"
  BY DEF Classification
<1> HIDE DEF left, alias, dead
<1>2. /\ Classification(j, id) = "excluded" <=> left
      /\ Classification(j, id) = "duplicate-alias" <=> ~left /\ alias
      /\ Classification(j, id) \in {"excluded", "duplicate-alias", "invalid", "launchable"}
  BY <1>1
<1>3. QED
  BY <1>2 DEF left, alias

-----------------------------------------------------------------------------
(* The shards and the aggregation.                                         *)

LEMMA InitInv == Init => Inv
<1> SUFFICES ASSUME Init PROVE Inv
  OBVIOUS
<1>1. TypeOK
  BY DEF Init, TypeOK, Tested
<1>2. Accepted /\ Recorded /\ PassedShard /\ Judged
  BY DEF Init, Accepted, Recorded, PassedShard, Judged
<1>3. QED
  BY <1>1, <1>2 DEF Init, Inv

(* Testing one more entry adds one result that its test may give.           *)
LEMMA TestEntryInv == ASSUME NEW j \in Jobs, Inv, TestEntry(j) PROVE Inv'
<1>0. PICK id \in Selected(j) \ Tested(j) : \E item \in Outcomes(j, id) :
        results' = [results EXCEPT ![j] = @ \union {item}]
  BY DEF TestEntry
<1>1. PICK item \in Outcomes(j, id) : results' = [results EXCEPT ![j] = @ \union {item}]
  BY <1>0
<1>2. /\ UNCHANGED <<world, job, covered, upload, verdict>>
      /\ job[j] = "testing" /\ j \in covered /\ verdict = "none" /\ PolicyAccepted(Policy(j))
  BY DEF TestEntry, Inv, Accepted, Judged, Running
<1>3. item \in Metrics /\ item.id = id
  BY <1>0, <1>1, <1>2, OutcomesTyped DEF Inv, Selected, Launchable, Installed
<1>4. /\ results'[j] = results[j] \union {item}
      /\ \A k \in Jobs \ {j} : results'[k] = results[k]
      /\ results' \in [Jobs -> SUBSET Metrics]
  BY <1>1, <1>3 DEF Inv, TypeOK
<1>5. /\ Tested(j)' = Tested(j) \union {id}
      /\ \A k \in Jobs \ {j} : Tested(k)' = Tested(k) /\ Failed(k)' = Failed(k)
  BY <1>3, <1>4 DEF Tested, Failed
<1>6. TypeOK'
  <2>1. \A k \in Jobs : Tested(k)' \subseteq Selected(k)'
    BY <1>0, <1>2, <1>5, WorldStays DEF Inv, TypeOK
  <2>2. \A a, b \in results'[j] : a.id = b.id => a = b
    BY <1>0, <1>3, <1>4 DEF Inv, TypeOK, Tested
  <2>3. \A k \in Jobs : \A a, b \in results'[k] : a.id = b.id => a = b
    BY <1>4, <2>2 DEF Inv, TypeOK
  <2>4. QED
    BY <1>2, <1>4, <2>1, <2>3 DEF Inv, TypeOK
<1>7. Accepted'
  BY <1>2, <1>4, WorldStays DEF Inv, Accepted
<1>8. Recorded'
  BY <1>1, <1>2, <1>3, <1>4, WorldStays DEF Inv, Recorded
<1>9. PassedShard'
  BY <1>2, <1>5, WorldStays DEF Inv, PassedShard
<1>10. QED
  BY <1>2, <1>6, <1>7, <1>8, <1>9 DEF Inv, Judged

(* The other steps of a shard leave its results alone.                      *)
LEMMA JobInv ==
  ASSUME NEW j \in Jobs, Inv, TakeInventory(j) \/ EndRun(j) \/ Abort(j) \/ Lose(j)
  PROVE  Inv'
<1>1. UNCHANGED <<world, results, verdict>> /\ Running(j) /\ verdict = "none"
  BY DEF TakeInventory, EndRun, Abort, Lose, Running, Inv, Judged
<1>2. \A k \in Jobs : Tested(k)' = Tested(k) /\ Failed(k)' = Failed(k)
  BY <1>1 DEF Tested, Failed
<1>3. PICK step \in {"testing", "passed", "failed"} : job' = [job EXCEPT ![j] = step]
  BY DEF TakeInventory, EndRun, Abort, Lose, Die
<1>4. PICK heard \in {"no", "failed", "unheard", "done"} :
        upload' = [upload EXCEPT ![j] = heard]
  BY DEF TakeInventory, EndRun, Abort, Lose, Die, Upload, Inv, TypeOK
<1>5. covered' = covered \/ covered' = covered \union {j}
  BY DEF TakeInventory, EndRun, Abort, Lose
<1>6. TypeOK'
  BY <1>1, <1>2, <1>3, <1>4, <1>5, WorldStays DEF Inv, TypeOK
<1>7. Accepted'
  <2>1. covered' # covered => /\ Setting(j).index < Setting(j).count
                              /\ PolicyAccepted(Policy(j)) /\ AliasesLead(j)
    BY DEF TakeInventory, EndRun, Abort, Lose
  <2>2. step \in {"testing", "passed"} => j \in covered'
    BY <1>3 DEF TakeInventory, EndRun, Abort, Lose, Die, Inv, TypeOK, Accepted
  <2>3. QED
    BY <1>1, <1>3, <1>5, <2>1, <2>2, WorldStays DEF Inv, TypeOK, Accepted
<1>8. Recorded'
  BY <1>1, WorldStays DEF Inv, Recorded
<1>9. PassedShard'
  <2>1. job'[j] = "passed" =>
          /\ upload'[j] = "done" /\ Failed(j) = {} /\ Selected(j) = Tested(j)
          /\ \A id \in Installed(j) : Classification(j, id) # "invalid"
    BY DEF TakeInventory, EndRun, Abort, Lose, Die, Inv, TypeOK
  <2>2. \A k \in Jobs \ {j} : job'[k] = job[k] /\ upload'[k] = upload[k]
    BY <1>3, <1>4 DEF Inv, TypeOK
  <2>3. QED
    BY <1>1, <1>2, <2>1, <2>2, WorldStays DEF Inv, PassedShard
<1>10. QED
  BY <1>1, <1>6, <1>7, <1>8, <1>9 DEF Inv, Judged

LEMMA AggregateInv == Inv /\ (Aggregate \/ UNCHANGED vars) => Inv'
<1> SUFFICES ASSUME Inv, Aggregate \/ UNCHANGED vars PROVE Inv'
  OBVIOUS
<1>1. UNCHANGED <<world, job, covered, results, upload>>
  BY DEF Aggregate, vars
<1>2. EvidenceGood' <=> EvidenceGood
  BY <1>1, EvidenceStays
<1>3. \A j \in Jobs : /\ Tested(j)' = Tested(j) /\ Failed(j)' = Failed(j)
                      /\ Running(j)' <=> Running(j)
  BY <1>1 DEF Tested, Failed, Running
<1>4. TypeOK'
  BY <1>1, <1>3, WorldStays DEF Aggregate, vars, Inv, TypeOK
<1>5. Accepted' /\ Recorded' /\ PassedShard'
  BY <1>1, <1>3, WorldStays DEF Inv, Accepted, Recorded, PassedShard
<1>6. Judged'
  BY <1>2, <1>3 DEF Aggregate, vars, Inv, Judged, EvidenceGood
<1>7. QED
  BY <1>1, <1>4, <1>5, <1>6 DEF Inv

(* The argument holds on every run of the shards and the aggregation.       *)
THEOREM Inductive == Spec => []Inv
<1>1. Inv /\ [Next]_vars => Inv'
  BY TestEntryInv, JobInv, AggregateInv DEF Next
<1>2. QED
  BY <1>1, InitInv, PTL DEF Spec

-----------------------------------------------------------------------------
(* Every shard's progress and every result is well typed; a shard has one   *)
(* result for an entry, and only for what it is to test.                    *)
THEOREM TypeCorrect == Spec => []TypeOK
  BY Inductive, PTL DEF Inv

(* A shard that passed left its metrics to the aggregation, and they show   *)
(* every entry it had to test as passed, or as skipped for a capability     *)
(* that is absent.                                                          *)
THEOREM PassedShardsCount == Spec => []PassedShardIsCounted
<1>1. ASSUME Inv, NEW j \in Jobs, job[j] = "passed"
      PROVE  /\ j \in Files \intersect covered
             /\ \A id \in Selected(j) : TestedBy(j, id) /\ Good(j, id)
  <2>1. j \in Files /\ j \in covered /\ Failed(j) = {} /\ Selected(j) = Tested(j)
    BY <1>1 DEF Inv, PassedShard, Accepted, Files
  <2>2. ASSUME NEW item \in results[j]
        PROVE  \/ item.status = "passed"
               \/ /\ item.status = "skipped"
                  /\ Contract(Policy(j), item.id).requires \intersect Lacking # {}
    BY <1>1, <2>1 DEF Inv, Recorded, Outcomes, Failed
  <2>3. QED
    BY <2>1, <2>2 DEF Tested, TestedBy, Good
<1>2. Inv => PassedShardIsCounted
  BY <1>1 DEF PassedShardIsCounted
<1>3. QED
  BY <1>2, Inductive, PTL

(* As many files as shards is a file of every shard.                        *)
LEMMA AllFiles == CountsAgree => Files = Jobs
<1>1. Files \in SUBSET Jobs
  BY DEF Files
<1>2. QED
  BY <1>1, CoverageAssumption, FS_Subset DEF CountsAgree, ExpectedShards

(* Coverage that passed tested every entry there is to test, with a good    *)
(* result, in exactly one shard.                                            *)
THEOREM CoverageCovers == Spec => []PassedIsCovered
<1>1. ASSUME Inv, verdict = "passed", NEW j \in Jobs, NEW id \in ToTest(j)
      PROVE  \E k \in Jobs : /\ TestedBy(k, id) /\ Good(k, id)
                            /\ \A l \in Jobs : TestedBy(l, id) => l = k
  <2>1. MetricsValid /\ Files = Jobs /\ \A k \in Jobs : Failed(k) = {}
    BY <1>1, AllFiles DEF Inv, Judged, EvidenceGood, MetricsValid
  <2>2. id \in Launchable(j)
    <3>1. id \in Installed(j) /\ Inventory(j)[id].class = Classification(j, id)
      BY <1>1 DEF ToTest, Inventory, Item
    <3>2. Classification(j, id) # "invalid"
      BY <2>1, <3>1 DEF MetricsValid, InventoryValid, Inventory
    <3>3. Classification(j, id) = "launchable"
      BY <1>1, <3>2, Classes DEF ToTest
    <3>4. QED
      BY <3>1, <3>3 DEF Launchable
  <2>3. PICK k \in Jobs : id \in Tested(k)
    BY <2>1, <2>2 DEF MetricsValid, CoverageExact
  <2>4. ASSUME NEW item \in results[k], item.id = id
        PROVE  \/ item.status = "passed"
               \/ /\ item.status = "skipped"
                  /\ Contract(Policy(k), id).requires \intersect Lacking # {}
    BY <1>1, <2>1, <2>4 DEF Inv, Recorded, Outcomes, Failed
  <2>5. \A l \in Jobs : id \in Tested(l) => l = k
    BY <2>1, <2>3 DEF MetricsValid, CoverageExact
  <2>6. QED
    BY <2>3, <2>4, <2>5 DEF Tested, TestedBy, Good
<1>2. Inv => PassedIsCovered
  BY <1>1 DEF PassedIsCovered
<1>3. QED
  BY <1>2, Inductive, PTL

(* Coverage that passed is about one ISO and the commit under test.         *)
THEOREM CoverageIsOneBuild == Spec => []PassedIsOneBuild
<1>1. ASSUME Inv, verdict = "passed" PROVE MetadataAgrees /\ Files = Jobs
  BY <1>1, AllFiles DEF Inv, Judged, EvidenceGood, MetricsValid
<1>2. Inv => PassedIsOneBuild
  BY <1>1 DEF MetadataAgrees, PassedIsOneBuild
<1>3. QED
  BY <1>2, Inductive, PTL

-----------------------------------------------------------------------------
(* The guests and the aggregation agree.                                    *)

(* The indices of the shards of a matrix that is set up right are all of    *)
(* those the aggregation expects.                                           *)
LEMMA AllIndices ==
  ASSUME Inv, SetUpRight, \A j \in Jobs : job[j] = "passed"
  PROVE  /\ ExpectedShards \in Nat \ {0}
         /\ {Setting(j).index : j \in Jobs} = 0..(ExpectedShards - 1)
<1> DEFINE shards == 0..(ExpectedShards - 1)
           index  == [j \in Jobs |-> Setting(j).index]
<1>1. ExpectedShards \in Nat \ {0}
  BY CoverageAssumption, FS_CardinalityType, FS_EmptySet DEF ExpectedShards
<1>2. index \in Injection(Jobs, shards)
  <2>1. \A j \in Jobs : Setting(j).index \in Nat /\ Setting(j).index < ExpectedShards
    BY WorldsAssumption DEF Inv, Accepted, SetUpRight, Setting
  <2>2. \A j \in Jobs : Setting(j).index \in shards
    BY <1>1, <2>1
  <2>3. \A j, k \in Jobs : Setting(j).index = Setting(k).index => j = k
    BY DEF SetUpRight
  <2>4. QED
    BY <2>2, <2>3 DEF Injection, IsInjective
<1>3. IsFiniteSet(shards) /\ Cardinality(shards) = ExpectedShards
  BY <1>1, FS_Interval
<1>4. index \in Surjection(Jobs, shards)
  BY <1>2, <1>3, FS_Injection DEF ExpectedShards
<1>5. {Setting(j).index : j \in Jobs} = shards
  BY <1>4 DEF Surjection
<1>6. QED
  BY <1>1, <1>5

LEMMA MatrixAgrees ==
  ASSUME Inv, SetUpRight, PolicyFits, \A j \in Jobs : job[j] = "passed"
  PROVE  /\ Files = Jobs /\ CountsAgree /\ MetadataAgrees /\ InventoriesAgree
         /\ \A j \in Jobs : /\ Policy(j) = world.policy[ExpectedCommit]
                            /\ PolicyAccepted(Policy(j)) /\ AliasesLead(j)
<1>1. Files = Jobs /\ Jobs = covered
  BY DEF Inv, TypeOK, PassedShard, Accepted, Files
<1>2. CountsAgree /\ MetadataAgrees
  BY <1>1 DEF CountsAgree, MetadataAgrees, ExpectedShards, SetUpRight
<1>3. \A j \in Jobs : /\ Policy(j) = world.policy[ExpectedCommit]
                      /\ PolicyAccepted(Policy(j)) /\ AliasesLead(j)
  BY <1>1 DEF Inv, Accepted, Policy, SetUpRight
<1>4. ASSUME NEW j \in Jobs, NEW k \in Jobs PROVE Inventory(j) = Inventory(k)
  <2>1. Policy(j) = Policy(k) /\ Content(j) = Content(k) /\ Setting(j).count = Setting(k).count
    BY <1>3 DEF SetUpRight, Content
  <2>2. Installed(j) = Installed(k) /\ \A id : Classification(j, id) = Classification(k, id)
    BY <2>1 DEF Installed, Classification
  <2>3. Launchable(j) = Launchable(k)
    BY <2>2 DEF Launchable
  <2>4. \A id : Item(j, id) = Item(k, id)
    BY <2>1, <2>2, <2>3 DEF Item
  <2>5. QED
    BY <2>2, <2>4 DEF Inventory
<1>5. QED
  BY <1>1, <1>2, <1>3, <1>4 DEF InventoriesAgree

(* Every check of the aggregation holds, one after the other.               *)
LEMMA MatrixIsGood ==
  ASSUME Inv, SetUpRight, PolicyFits, \A j \in Jobs : job[j] = "passed"
  PROVE  EvidenceGood
<1> USE MatrixAgrees
<1>1. ASSUME NEW j \in Jobs
      PROVE  /\ DOMAIN Inventory(j) = Installed(j)
             /\ \A id \in Installed(j) :
                  /\ Inventory(j)[id].class = Classification(j, id)
                  /\ Inventory(j)[id].canonical = Canonical(Policy(j), id)
                  /\ Inventory(j)[id].shard = ShardFor(id, ExpectedShards)
                  /\ Classification(j, id) = "launchable" =>
                       Inventory(j)[id].contract = Contract(Policy(j), id)
                  /\ Classification(j, id) # "invalid"
             /\ Tested(j) = Selected(j) /\ Failed(j) = {}
  <2>1. Setting(j).count = ExpectedShards
    BY DEF SetUpRight
  <2>2. /\ DOMAIN Inventory(j) = Installed(j)
        /\ \A id \in Installed(j) : Inventory(j)[id] = Item(j, id)
    BY DEF Inventory
  <2>3. \A id \in Installed(j) :
          /\ Item(j, id).class = Classification(j, id)
          /\ Item(j, id).canonical = Canonical(Policy(j), id)
          /\ Item(j, id).shard = ShardFor(id, ExpectedShards)
          /\ Classification(j, id) = "launchable" => Item(j, id).contract = Contract(Policy(j), id)
    BY <2>1 DEF Item, Launchable
  <2>4. QED
    BY <2>2, <2>3 DEF Inv, PassedShard
<1>2. ASSUME NEW j \in Jobs PROVE InventoryValid(j)
  <2>1. Setting(j).count = ExpectedShards
    BY DEF SetUpRight
  <2>2. ASSUME NEW id \in Installed(j), Classification(j, id) = "duplicate-alias"
        PROVE  Canonical(Policy(j), id) # None
    BY <2>2, Classes, WorldsAssumption DEF AliasesLead, Canonical, Launchable, Installed
  <2>3. ASSUME NEW id \in Installed(j)
        PROVE  /\ ContractSound(Contract(Policy(j), id))
               /\ Contract(Policy(j), id) = NormalizedContract(Contract(Policy(j), id))
    BY ContractInFull DEF Inv
  <2>4. QED
    BY <1>1, <2>1, <2>2, <2>3 DEF InventoryValid
<1>3. ASSUME NEW j \in Jobs PROVE PolicyHolds(world.policy[ExpectedCommit], Inventory(j))
  <2> DEFINE policy == Policy(j)
  <2>1. ASSUME NEW id \in policy.excluded \intersect DOMAIN Inventory(j)
        PROVE  Inventory(j)[id].class = "excluded"
    BY <1>1, Classes
  <2>2. ASSUME NEW id \in DOMAIN policy.aliases \intersect DOMAIN Inventory(j)
        PROVE  /\ Inventory(j)[id].class = "duplicate-alias"
               /\ Inventory(j)[id].canonical = policy.aliases[id]
               /\ policy.aliases[id] \in DOMAIN Inventory(j)
               /\ Inventory(j)[policy.aliases[id]].class = "launchable"
    <3>1. id \in Installed(j) /\ Classification(j, id) # "excluded"
      BY <1>1, <2>2 DEF PolicyFits
    <3>2. Classification(j, id) = "duplicate-alias"
      BY <2>2, <3>1, Classes
    <3>3. policy.aliases[id] \in Launchable(j)
      BY <3>1, <3>2 DEF AliasesLead
    <3>4. QED
      BY <1>1, <2>2, <3>1, <3>2, <3>3 DEF Launchable, Canonical
  <2>3. ASSUME NEW id \in DOMAIN policy.contracts
        PROVE  /\ id \notin policy.excluded \union DOMAIN policy.aliases
               /\ ContractSound(policy.contracts[id])
               /\ id \in DOMAIN Inventory(j) =>
                    /\ Inventory(j)[id].class = "launchable"
                    /\ Inventory(j)[id].contract = NormalizedContract(policy.contracts[id])
    <3>1. id \notin policy.excluded \union DOMAIN policy.aliases
          /\ ContractSound(policy.contracts[id])
      BY <2>3 DEF PolicyAccepted
    <3>2. ASSUME id \in Installed(j) PROVE Classification(j, id) = "launchable"
      <4>1. Classification(j, id) # "excluded"
        BY <2>3, <3>2 DEF PolicyFits
      <4>2. QED
        BY <1>1, <3>1, <3>2, <4>1, Classes
    <3>3. Contract(policy, id) = NormalizedContract(policy.contracts[id])
      BY <2>3, ContractInFull DEF Inv
    <3>4. QED
      BY <1>1, <3>1, <3>2, <3>3
  <2>4. policy.critical \intersect (policy.excluded \union DOMAIN policy.aliases) = {}
    BY DEF PolicyAccepted
  <2> HIDE DEF policy
  <2>5. policy = world.policy[ExpectedCommit]
    BY DEF policy
  <2>6. PolicyHolds(policy, Inventory(j))
    BY <2>1, <2>2, <2>3, <2>4 DEF PolicyHolds
  <2>7. QED
    BY <2>5, <2>6
<1>4. ASSUME NEW j \in Jobs, NEW item \in results[j] PROVE ItemValid(j, item)
  <2> DEFINE contract == Contract(Policy(j), item.id)
  <2>1. item.id \in Selected(j)
    BY <1>4 DEF Inv, TypeOK, Tested
  <2>2. /\ item.id \in DOMAIN Inventory(j) /\ Inventory(j)[item.id].class = "launchable"
        /\ Inventory(j)[item.id].shard = Setting(j).index
        /\ Inventory(j)[item.id].contract = contract
    BY <1>1, <2>1 DEF Selected, Launchable, SetUpRight
  <2>3. /\ item.status = "skipped" => contract.requires # {}
        /\ item.status = "passed" => /\ item.close = CloseKey(contract, item.id)
                                     /\ item.exit \in Exits(contract)
    BY <1>4 DEF Inv, Recorded, Outcomes
  <2>4. contract.closeKey = None => item.id \notin CtrlQ
    <3>1. item.id \in DOMAIN Policy(j).contracts =>
            contract.closeKey = Policy(j).contracts[item.id].closeKey
      BY ContractInFull DEF Inv
    <3>2. item.id \in CtrlQ => /\ item.id \in DOMAIN Policy(j).contracts
                               /\ Policy(j).contracts[item.id].closeKey # None
      BY DEF PolicyFits
    <3>3. QED
      BY <3>1, <3>2
  <2> HIDE DEF contract
  <2>5. QED
    BY <2>2, <2>3, <2>4 DEF ItemValid, CloseKey, Exits
<1>5. CoverageExact
  <2>1. ASSUME NEW j \in Jobs, NEW k \in Jobs PROVE Launchable(j) = Launchable(k)
    <3>1. Inventory(j) = Inventory(k)
      BY DEF InventoriesAgree
    <3>2. Installed(j) = Installed(k)
          /\ \A id \in Installed(j) : Classification(j, id) = Classification(k, id)
      BY <1>1, <3>1
    <3>3. QED
      BY <3>2 DEF Launchable
  <2>2. \A j \in Jobs : Tested(j) = {id \in Launchable(j) :
                                       ShardFor(id, ExpectedShards) = Setting(j).index}
    <3>1. \A j \in Jobs : /\ Setting(j).count = ExpectedShards
                          /\ Launchable(j) \subseteq Setting(j).filter
      BY DEF SetUpRight, Launchable, Installed
    <3>2. \A j \in Jobs : Selected(j) = {id \in Launchable(j) :
                                           ShardFor(id, ExpectedShards) = Setting(j).index}
      BY <3>1 DEF Selected
    <3>3. QED
      BY <1>1, <3>2
  <2>3. \A id \in Ids : ShardFor(id, ExpectedShards) \in 0..(ExpectedShards - 1)
    BY AllIndices, CoverageAssumption DEF ShardFor
  <2>4. \A id \in Ids : \E k \in Jobs : ShardFor(id, ExpectedShards) = Setting(k).index
    BY <2>3, AllIndices
  <2>5. \A j, k \in Jobs : j # k => Setting(j).index # Setting(k).index
    BY DEF SetUpRight
  <2>6. \A j, k \in Jobs : j # k => Tested(j) \intersect Tested(k) = {}
    BY <2>2, <2>5
  <2>7. ASSUME NEW j \in Jobs PROVE Launchable(j) = UNION {Tested(k) : k \in Jobs}
    <3>1. \A id \in Launchable(j) : \E k \in Jobs : id \in Tested(k)
      BY <2>1, <2>2, <2>4 DEF Launchable, Installed
    <3>2. \A k \in Jobs : Tested(k) \subseteq Launchable(j)
      BY <2>1, <2>2
    <3>3. QED
      BY <3>1, <3>2
  <2>8. QED
    BY <2>5, <2>6, <2>7, AllIndices DEF CoverageExact
<1>6. QED
  BY <1>1, <1>2, <1>3, <1>4, <1>5 DEF EvidenceGood, MetricsValid

(* When every shard of a matrix that is set up right passed, under a policy *)
(* that fits the ISO, the aggregation does not fail the coverage.           *)
THEOREM GuestsAndAggregationAgree == Spec => []CleanMatrixPasses
<1>1. Inv => CleanMatrixPasses
  BY MatrixIsGood DEF CleanMatrixPasses, Inv, Judged
<1>2. QED
  BY <1>1, Inductive, PTL

=============================================================================
