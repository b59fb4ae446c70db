------------------------ MODULE ApplicationCoverage ------------------------
(***************************************************************************)
(* The application shards and the aggregation of their metrics.  Every     *)
(* shard job boots the ISO, takes the inventory of its desktop entries,    *)
(* classifies them by the policy, tests those of its shard and uploads its *)
(* metrics once.  The aggregation reads what was uploaded and decides      *)
(* whether the application coverage passed: it classifies nothing itself,  *)
(* it checks what the guests claim against the policy and each other.      *)
(***************************************************************************)
EXTENDS DesktopEntry, FiniteSets

CONSTANTS
  Ids,              \* desktop IDs: paths under /usr/share/applications
  Jobs,             \* the shard jobs of the plan matrix
  Digest,           \* the SHA-256 of a desktop ID, as a number
  CtrlQ,            \* IDs the smoke test closes with Ctrl+Q by default
  Lacking,          \* capabilities the guest does not have
  ExpectedCommit,   \* the commit the workflow runs for
  None,
  Worlds            \* the ISOs, policies and job settings considered

ASSUME CoverageAssumption ==
  /\ IsFiniteSet(Jobs) /\ Jobs # {}
  /\ Digest \in [Ids -> Nat] /\ CtrlQ \subseteq Ids

(* --expected-shards: the workflow counts the shard plans.                  *)
ExpectedShards == Cardinality(Jobs)

VARIABLES
  world,    \* content: iso -> id -> file or None; policy: commit -> policy;
            \* setting: job -> iso, commit, index, count and the IDs its filter admits
  job,      \* where each shard job is
  covered,  \* jobs that built their coverage metadata
  results,  \* job -> the metrics of the entries it tested
  upload,   \* "no", "failed", "done", or "unheard": it arrived, its answer did not
  verdict   \* of the aggregation

vars == <<world, job, covered, results, upload, verdict>>

Setting(j) == world.setting[j]
Policy(j)  == world.policy[Setting(j).commit]
Content(j) == world.content[Setting(j).iso]

Kinds        == {"standard", "shared-window", "transient-dialog"}
CloseKeys    == {"alt-f4", "ctrl-q", "esc"}
Requirements == {"native-x11", "uefi-variables", "video-device"}

-----------------------------------------------------------------------------
(* Contracts: in the policy, with keys left out (None), and in full.        *)

Default == [kind |-> "standard", closeKey |-> None, exits |-> {0}, requires |-> {}]

(* Mutant: the guest gives every contract the exit codes of the default.    *)
CompletedStrictly(raw) == [raw EXCEPT !.exits = IF @ # None THEN @ ELSE {0}]

Completed(raw) ==
  [raw EXCEPT !.exits = IF @ # None THEN @
                        ELSE IF raw.kind = "transient-dialog" THEN {0, 1} ELSE {0}]

(* The policy as it is parsed: a value need not be a known one.             *)
RawContracts ==
  [kind : STRING, closeKey : STRING \union {None}, exits : {None} \union SUBSET Nat,
   requires : SUBSET STRING]

ASSUME WorldsAssumption ==
  /\ None \notin Ids /\ None \notin {{0}, {0, 1}}
  /\ \A w \in Worlds : \A j \in Jobs :
       LET s == w.setting[j] IN
         /\ s.index \in Nat /\ s.count \in Nat
         /\ \A id \in DOMAIN w.policy[s.commit].contracts :
              w.policy[s.commit].contracts[id] \in RawContracts

ContractSound(raw) ==
  /\ raw.kind \in Kinds
  /\ raw.closeKey \in CloseKeys \union {None}
  /\ raw.exits # {}
  /\ raw.requires \subseteq Requirements

(* The guest's own reading of the policy, and its grounds to die of it.     *)
PolicyAccepted(policy) ==
  /\ \A id \in DOMAIN policy.contracts :
       /\ ContractSound(policy.contracts[id])
       /\ id \notin policy.excluded \union DOMAIN policy.aliases
  /\ policy.critical \intersect (policy.excluded \union DOMAIN policy.aliases) = {}

Contract(policy, id) ==
  IF id \in DOMAIN policy.contracts THEN Completed(policy.contracts[id]) ELSE Default

-----------------------------------------------------------------------------
(* The inventory a guest takes.                                             *)

(* Both sides compute it, each in its language.                             *)
ShardFor(id, count) == Digest[id] % count

(* What does not apply to the session comes before an alias, an alias       *)
(* before an entry that cannot be launched.                                 *)
Classification(j, id) ==
  LET entry == ParseDesktopEntry(Content(j)[id])
      left  == id \in Policy(j).excluded \/ NotApplicable(entry)
      alias == id \in DOMAIN Policy(j).aliases
  IN CASE left -> "excluded"
       [] ~left /\ alias -> "duplicate-alias"
       [] ~left /\ ~alias /\ Unlaunchable(entry) -> "invalid"
       [] OTHER -> "launchable"

Installed(j) == {id \in Ids : Content(j)[id] # None}

Launchable(j) == {id \in Installed(j) : Classification(j, id) = "launchable"}

Canonical(policy, id) == IF id \in DOMAIN policy.aliases THEN policy.aliases[id] ELSE None

Item(j, id) ==
  [class     |-> Classification(j, id),
   canonical |-> Canonical(Policy(j), id),
   shard     |-> ShardFor(id, Setting(j).count),
   contract  |-> IF id \in Launchable(j) THEN Contract(Policy(j), id) ELSE None]

Inventory(j) == [id \in Installed(j) |-> Item(j, id)]

(* An alias is not tested, so its canonical entry has to be.                *)
AliasesLead(j) ==
  \A id \in Installed(j) :
    Classification(j, id) = "duplicate-alias" => Policy(j).aliases[id] \in Launchable(j)

Selected(j) ==
  {id \in Launchable(j) : /\ ShardFor(id, Setting(j).count) = Setting(j).index
                          /\ id \in Setting(j).filter}

-----------------------------------------------------------------------------
Statuses == {"passed", "failed", "skipped"}

Metrics ==
  [id : Ids, status : Statuses, close : CloseKeys \union {None}, exit : Nat \union {None}]

Tested(j) == {item.id : item \in results[j]}
Failed(j) == {item \in results[j] : item.status = "failed"}

Running(j) == job[j] \in {"boot", "testing"}

TypeOK ==
  /\ job \in [Jobs -> {"boot", "testing", "passed", "failed"}]
  /\ covered \subseteq Jobs
  /\ results \in [Jobs -> SUBSET Metrics]
  /\ upload \in [Jobs -> {"no", "failed", "unheard", "done"}]
  /\ verdict \in {"none", "passed", "failed"}
  \* one result for an entry, and only for what the shard is to test
  /\ \A j \in Jobs : /\ Tested(j) \subseteq Selected(j)
                     /\ \A a, b \in results[j] : a.id = b.id => a = b

Init ==
  /\ world \in Worlds
  /\ job = [j \in Jobs |-> "boot"]
  /\ covered = {}
  /\ results = [j \in Jobs |-> {}]
  /\ upload = [j \in Jobs |-> "no"]
  /\ verdict = "none"

-----------------------------------------------------------------------------
(* A shard job.                                                             *)

(* The metrics are written and uploaded once: an upload that failed, or that *)
(* was not confirmed, is not tried again by the hooks that run after it.    *)
Upload(j) ==
  \E outcome \in {"failed", "unheard", "done"} : upload' = [upload EXCEPT ![j] = outcome]

(* The run dies: the hook for failures uploads what there is.               *)
Die(j) == /\ job' = [job EXCEPT ![j] = "failed"]
          /\ Upload(j)

(* A directory of the tree that cannot be read, a setting, the policy or an *)
(* alias whose canonical entry is not tested leaves no coverage metadata.   *)
TakeInventory(j) ==
  /\ job[j] = "boot"
  /\ \/ /\ Setting(j).index < Setting(j).count
        /\ PolicyAccepted(Policy(j))
        /\ AliasesLead(j)
        /\ job' = [job EXCEPT ![j] = "testing"]
        /\ covered' = covered \union {j}
        /\ UNCHANGED upload
     \/ Die(j) /\ UNCHANGED covered
  /\ UNCHANGED <<world, results, verdict>>

(* The key the smoke test sends, and the outcomes its record may have.      *)
CloseKey(contract, id) ==
  IF contract.closeKey # None THEN contract.closeKey
  ELSE IF id \in CtrlQ THEN "ctrl-q" ELSE "alt-f4"

Exits(contract) ==
  contract.exits \union (IF contract.kind = "shared-window" THEN {None} ELSE {})

(* A capability that is absent skips the entry; its probe may also fail.    *)
Outcomes(j, id) ==
  LET contract == Contract(Policy(j), id)
  IN [id : {id}, status : {"failed"}, close : {None}, exit : {None}]
       \union
     (IF contract.requires \intersect Lacking # {}
      THEN [id : {id}, status : {"skipped"}, close : {None}, exit : {None}]
      ELSE [id : {id}, status : {"passed"},
            close : {CloseKey(contract, id)}, exit : Exits(contract)])

(* Mutant: an entry may be tested again.                                    *)
TestEntryAgain(j) ==
  /\ job[j] = "testing"
  /\ \E id \in Selected(j) : \E item \in Outcomes(j, id) :
       results' = [results EXCEPT ![j] = @ \union {item}]
  /\ UNCHANGED <<world, job, covered, upload, verdict>>

(* The order of the entries is the guest's; nothing here depends on it.     *)
TestEntry(j) ==
  /\ job[j] = "testing"
  /\ \E id \in Selected(j) \ Tested(j) : \E item \in Outcomes(j, id) :
       results' = [results EXCEPT ![j] = @ \union {item}]
  /\ UNCHANGED <<world, job, covered, upload, verdict>>

(* Mutant: the last hook does not look at the outcome of the upload.        *)
EndRunUnlooked(j) ==
  /\ job[j] = "testing" /\ Selected(j) = Tested(j)
  /\ Upload(j)
  /\ job' = [job EXCEPT ![j] =
       IF \/ Failed(j) # {} \/ \E id \in Installed(j) : Classification(j, id) = "invalid"
       THEN "failed" ELSE "passed"]
  /\ UNCHANGED <<world, covered, results, verdict>>

(* An invalid entry or a failed application fails the run after the upload, *)
(* a failed upload after that.                                              *)
EndRun(j) ==
  /\ job[j] = "testing" /\ Selected(j) = Tested(j)
  /\ Upload(j)
  /\ job' = [job EXCEPT ![j] =
       IF \/ Failed(j) # {} \/ upload'[j] # "done"
          \/ \E id \in Installed(j) : Classification(j, id) = "invalid"
       THEN "failed" ELSE "passed"]
  /\ UNCHANGED <<world, covered, results, verdict>>

(* An exception between two tests.                                          *)
Abort(j) ==
  /\ job[j] = "testing"
  /\ Die(j)
  /\ UNCHANGED <<world, covered, results, verdict>>

(* The guest or the job is gone before the metrics are uploaded.            *)
Lose(j) ==
  /\ Running(j)
  /\ job' = [job EXCEPT ![j] = "failed"]
  /\ UNCHANGED <<world, covered, results, upload, verdict>>

-----------------------------------------------------------------------------
(* The aggregation: what it checks of the metrics it was given.             *)

Files == {j \in Jobs : upload[j] \in {"unheard", "done"}}

(* Exactly one file for every shard, all with coverage metadata.            *)
CountsAgree == Cardinality(Files) = ExpectedShards /\ Files \subseteq covered

(* Mutant: only the commit of the metrics is compared.                      *)
MetadataAgreesOnCommit == \A j \in Files : Setting(j).commit = ExpectedCommit

(* One ISO, and the commit this workflow runs for.                          *)
MetadataAgrees ==
  \A j, k \in Files : /\ Setting(j).iso = Setting(k).iso
                      /\ Setting(j).commit = ExpectedCommit

(* The aggregation completes a contract by its own rules.                   *)
NormalizedContract(raw) ==
  [raw EXCEPT !.exits = IF @ # None THEN @
                        ELSE IF raw.kind = "transient-dialog" THEN {0, 1} ELSE {0}]

(* One inventory, of the expected number of shards, without invalid entries. *)
InventoryValid(j) ==
  /\ Setting(j).count = ExpectedShards
  /\ \A id \in DOMAIN Inventory(j) :
       LET item == Inventory(j)[id] IN
         /\ item.class # "invalid"
         /\ item.shard = ShardFor(id, ExpectedShards)
         /\ item.class = "duplicate-alias" => item.canonical # None
         /\ item.class = "launchable" =>
              /\ ContractSound(item.contract)
              /\ item.contract = NormalizedContract(item.contract)

InventoriesAgree == \A j, k \in Files : Inventory(j) = Inventory(k)

(* What the policy names and the ISO ships has the class the policy gives   *)
(* it; what the ISO does not ship is not asked for.                         *)
PolicyHolds(policy, inventory) ==
  /\ \A id \in policy.excluded \intersect DOMAIN inventory : inventory[id].class = "excluded"
  /\ \A id \in DOMAIN policy.aliases \intersect DOMAIN inventory :
       LET canonical == policy.aliases[id] IN
         /\ inventory[id].class = "duplicate-alias"
         /\ inventory[id].canonical = canonical
         /\ canonical \in DOMAIN inventory /\ inventory[canonical].class = "launchable"
  /\ \A id \in DOMAIN policy.contracts :
       /\ id \notin policy.excluded \union DOMAIN policy.aliases
       /\ ContractSound(policy.contracts[id])
       /\ id \in DOMAIN inventory =>
            /\ inventory[id].class = "launchable"
            /\ inventory[id].contract = NormalizedContract(policy.contracts[id])
  /\ policy.critical \intersect (policy.excluded \union DOMAIN policy.aliases) = {}

(* The evidence of one result.  What a passed smoke test is made of is      *)
(* SmokeSession; here it is the key that was sent and the exit code.        *)
ItemValid(j, item) ==
  LET expected == Inventory(j)[item.id] IN
    /\ item.id \in DOMAIN Inventory(j)
    /\ expected.class = "launchable"
    /\ expected.shard = Setting(j).index
    /\ item.status = "skipped" => expected.contract.requires # {}
    /\ item.status = "passed" =>
         /\ item.close = (IF expected.contract.closeKey # None
                          THEN expected.contract.closeKey ELSE "alt-f4")
         /\ \/ item.exit \in expected.contract.exits
            \/ expected.contract.kind = "shared-window" /\ item.exit = None

(* Mutant: what a shard did not test is not missed.                         *)
CoverageDisjoint ==
  /\ \A j, k \in Files : j # k => Tested(j) \intersect Tested(k) = {}
  /\ \A j \in Files : Tested(j) \subseteq Launchable(j)

(* Every shard is there and every launchable entry was tested by one.       *)
CoverageExact ==
  /\ \A j, k \in Files : /\ Setting(j).index = Setting(k).index => j = k
                         /\ j # k => Tested(j) \intersect Tested(k) = {}
  /\ {Setting(j).index : j \in Files} = 0..(ExpectedShards - 1)
  /\ \A j \in Files : Launchable(j) = UNION {Tested(k) : k \in Files}

MetricsValid ==
  /\ CountsAgree
  /\ MetadataAgrees
  /\ \A j \in Files : InventoryValid(j)
  /\ InventoriesAgree
  /\ \A j \in Files : PolicyHolds(world.policy[ExpectedCommit], Inventory(j))
  /\ \A j \in Files : \A item \in results[j] : ItemValid(j, item)
  /\ CoverageExact

(* Any check that fails fails the coverage, as does a failed application.   *)
Aggregate ==
  /\ verdict = "none" /\ \A j \in Jobs : ~Running(j)
  /\ verdict' = IF MetricsValid /\ \A j \in Files : Failed(j) = {} THEN "passed" ELSE "failed"
  /\ UNCHANGED <<world, job, covered, results, upload>>

Next ==
  \/ \E j \in Jobs : \/ TakeInventory(j) \/ TestEntry(j) \/ EndRun(j)
                     \/ Abort(j) \/ Lose(j)
  \/ Aggregate

Spec == Init /\ [][Next]_vars

-----------------------------------------------------------------------------
(* Properties.                                                              *)

(* What there is to test on the ISO of a job, whoever claims it: what is    *)
(* installed and neither left out by the policy nor outside the session.    *)
ToTest(j) ==
  {id \in Installed(j) : /\ id \notin Policy(j).excluded \union DOMAIN Policy(j).aliases
                        /\ ~NotApplicable(ParseDesktopEntry(Content(j)[id]))}

TestedBy(j, id) == \E item \in results[j] : item.id = id

(* The entry passed, or the capability its contract asks for is absent.     *)
Good(j, id) ==
  \A item \in results[j] : item.id = id =>
    \/ item.status = "passed"
    \/ /\ item.status = "skipped"
       /\ Contract(Policy(j), id).requires \intersect Lacking # {}

(* Coverage that passed covers: every entry there is to test was tested in  *)
(* exactly one shard, with a good result, whichever shards were lost, cut   *)
(* short, filtered or configured twice.                                     *)
PassedIsCovered ==
  verdict = "passed" =>
    \A j \in Jobs : \A id \in ToTest(j) :
      \E k \in Jobs : /\ TestedBy(k, id) /\ Good(k, id)
                     /\ \A l \in Jobs : TestedBy(l, id) => l = k

(* It is about one ISO, of the commit the workflow runs for.                *)
PassedIsOneBuild ==
  verdict = "passed" =>
    \A j, k \in Jobs : /\ Setting(j).iso = Setting(k).iso
                       /\ Setting(j).commit = ExpectedCommit

(* A shard that passed left its metrics to the aggregation, and they show   *)
(* nothing but what it may leave out.                                       *)
PassedShardIsCounted ==
  \A j \in Jobs : job[j] = "passed" =>
    /\ j \in Files \intersect covered
    /\ \A id \in Selected(j) : TestedBy(j, id) /\ Good(j, id)

(* The jobs are set up as release-gate.yaml does it: the shards of one      *)
(* build, each once and without a filter.                                   *)
SetUpRight ==
  /\ \A j, k \in Jobs : /\ Setting(j).iso = Setting(k).iso
                        /\ Setting(j).index = Setting(k).index => j = k
  /\ \A j \in Jobs : /\ Setting(j).commit = ExpectedCommit
                     /\ Setting(j).count = ExpectedShards
                     /\ Setting(j).filter = Ids

(* The policy gives a contract or an alias only to what applies to the      *)
(* session, and every entry that closes with Ctrl+Q has its key in it.      *)
PolicyFits ==
  \A j \in Jobs :
    /\ \A id \in Installed(j) \intersect (DOMAIN Policy(j).contracts \union DOMAIN Policy(j).aliases) :
         Classification(j, id) # "excluded"
    /\ \A id \in CtrlQ : id \in DOMAIN Policy(j).contracts
                          /\ Policy(j).contracts[id].closeKey # None

(* The guests and the aggregation agree: when every shard of a matrix that  *)
(* is set up right passed, the coverage passes, though each side reads the  *)
(* policy and computes shards, classes and contracts for itself.            *)
CleanMatrixPasses ==
  /\ \A j \in Jobs : job[j] = "passed"
  /\ SetUpRight /\ PolicyFits
  => verdict # "failed"

(* The same without any condition on the policy: openqa/README.md says that *)
(* it adapts to the ISO and that the keys of an entry decide whether it     *)
(* applies to the session.  One that does not, with a contract or an alias  *)
(* all the same, makes the aggregation fail instead.                        *)
PolicyAdapts ==
  (\A j \in Jobs : job[j] = "passed") /\ SetUpRight => verdict # "failed"

=============================================================================
