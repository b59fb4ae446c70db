---------------------------- MODULE WidgetSearch ----------------------------
(***************************************************************************)
(* How the probe finds one control by its role and label (wait_for_widget, *)
(* data/atspi_probe.py) in a tree that changes while it is read.  The tree *)
(* is read through indexes: of an application in the registry, of a child  *)
(* in a control.  Three ways to search share it:                           *)
(*   "unique"   every control of every allowed window; exactly one matches *)
(*   "hinted"   the same one application at a time, a registry index first *)
(*   "witness"  up to the first match, whatever else is broken             *)
(* A search with a scope allows the applications of the launch, read newest *)
(* first; one without it, as at boot, allows all, in the registry's order. *)
(***************************************************************************)
EXTENDS Registry, Naturals, FiniteSets, SequencesExt

CONSTANTS
  Desktop,    \* the registry, parent of the applications
  Controls,
  Matching,   \* controls with the wanted role and label that are sensitive
  Parents,    \* where a node may be published; a control in several places
  Trees,      \* the trees a search may begin in
  Modes,      \* the ways to search considered
  Scopes,     \* what the scope of a launch may list
  Hints,      \* registry indexes of an earlier answer; 0 names none
  MaxChanges, \* bound on the changes of the tree during a search
  NoNode

Nodes == {Desktop} \union Apps \union Windows \union Controls

(* The registry publishes applications, an application its windows and a    *)
(* window or a control its controls; a window may also hang below those.    *)
ASSUME SearchAssumption ==
  /\ Owned \subseteq Apps /\ Scopes \subseteq SUBSET Owned
  /\ Matching \subseteq Controls /\ IsFiniteSet(Controls)
  /\ Desktop \notin Apps \union Windows \union Controls
  /\ Apps \intersect (Windows \union Controls) = {} /\ Windows \intersect Controls = {}
  /\ NoNode \notin Nodes /\ MaxChanges \in Nat /\ Hints \subseteq Nat
  /\ Parents \in [Nodes \ {Desktop} -> SUBSET Nodes]
  /\ \A n \in Apps : Parents[n] \subseteq {Desktop}
  /\ \A n \in Windows : Desktop \notin Parents[n]
  /\ \A n \in Controls : Parents[n] \subseteq Windows \union Controls
  /\ \A tree \in Trees :
       /\ tree \in [Nodes -> Seq(Nodes \ {Desktop})] /\ IsInjective(tree[Desktop])
       /\ \A n \in Nodes : \A i \in DOMAIN tree[n] : n \in Parents[tree[n][i]]

VARIABLES
  kids,      \* the children of each node, in order
  visible,   \* the nodes with the SHOWING state
  exited,    \* the applications whose process exited
  changes,   \* how often the tree changed
  mode, hint,  \* the search, and the registry index tried first (0: none)
  scoped,    \* it asks the applications of one launch only
  allowed,   \* the applications this scan asks
  stage, over, \* where it is; whether its deadline has passed
  order,     \* the registry indexes still to read
  reading,   \* the application being read
  wins,      \* its windows still to search
  work,      \* queue: iterators over children, or nodes for a witness
  visited,   \* the nodes of this window already examined
  matches,   \* the matches: <<window, control>>
  broken,    \* a part of the tree could not be read (witness)
  answer,    \* the control it answered with
  steady,    \* history: links <<parent, child>> there since the scan began,
             \* with the child showing and, below the desktop, in its place
  shown,     \* history: the matches that were shown at some time of the scan
  slipped    \* history: applications that moved, still to be read, to an
             \* index of the registry that is not read any more

treeVars   == <<kids, visible, exited, changes>>
queryVars  == <<mode, hint, scoped, allowed>>
memoryVars == <<steady, shown, slipped>>
placeVars == <<order, reading, wins, work, visited, matches, broken>>
searchVars == <<treeVars, queryVars, stage, over, placeVars, answer, memoryVars>>

Searching   == {"apps", "windows", "window"}
SearchEnded == {"passed", "ambiguous", "not-found", "inconclusive", "crashed"}

At(n, i) == IF i \in DOMAIN kids[n] THEN kids[n][i] ELSE NoNode

(* The links of the tree whose child can be seen.                           *)
Links == UNION {{<<p, c>> : c \in ToSet(kids[p]) \intersect visible} : p \in Nodes}

(* What a set of links leads to from the applications in it: the windows    *)
(* and controls in every set that holds their windows and is closed.        *)
Inner == Windows \union Controls
Reached(links, apps) ==
  LET enters(l, s) == l[1] \in s \/ (l[1] \in apps /\ <<Desktop, l[1]>> \in links)
      closed(s) == \A l \in links : enters(l, s) => l[2] \in s
  IN {n \in Inner : \A s \in SUBSET Inner : closed(s) => n \in s}

(* The matching controls that can be seen, wherever they are published.     *)
Shown == {c \in Matching \intersect visible : \E p \in Nodes : c \in ToSet(kids[p])}

(* The matching controls that were in their places through the whole scan.  *)
SteadyMatches(apps) == Matching \intersect Reached(steady, apps)

Iterator(n) == [of |-> n, next |-> 1, count |-> Len(kids[n])]

SearchTypeOK ==
  /\ \A n \in Nodes : \A i \in DOMAIN kids[n] : n \in Parents[kids[n][i]]
  /\ visible \subseteq Nodes /\ exited \subseteq Apps /\ changes \in 0..MaxChanges
  /\ mode \in Modes /\ hint \in Nat /\ scoped \in BOOLEAN
  /\ allowed \subseteq Apps /\ slipped \subseteq Apps
  /\ stage \in {"poll"} \union Searching \union SearchEnded /\ over \in BOOLEAN
  /\ reading \in Apps \union {NoNode} /\ ToSet(wins) \subseteq Windows
  /\ visited \subseteq Nodes /\ matches \subseteq Windows \X Matching
  /\ broken \in BOOLEAN /\ answer \in Matching \union {NoNode}
  \* a node is examined once in a window, and what matches was shown
  /\ {f[2] : f \in matches} \subseteq shown
  /\ stage = "passed" <=> answer # NoNode

Idle ==
  /\ order = <<>> /\ reading = NoNode /\ wins = <<>> /\ work = <<>>
  /\ visited = {} /\ matches = {} /\ broken = FALSE

SearchInit ==
  /\ kids \in Trees /\ visible = Nodes /\ exited = {} /\ changes = 0
  /\ mode \in Modes /\ hint \in (IF mode = "unique" THEN {0} ELSE Hints)
  /\ scoped \in BOOLEAN /\ allowed = {}
  /\ stage = "poll" /\ over = FALSE
  /\ Idle /\ answer = NoNode /\ steady = {} /\ shown = {} /\ slipped = {}

-----------------------------------------------------------------------------
(* The application and the registry.                                        *)

(* The tree changes: a link that goes, or whose child moves or hides, is no *)
(* longer steady.                                                           *)
Changed(moved, slip) ==
  /\ changes' = changes + 1
  /\ steady' = {l \in steady \intersect Links' : l \notin moved}
  /\ shown' = shown \union Shown' /\ slipped' = slipped \union slip
  /\ UNCHANGED <<queryVars, stage, over, placeVars, answer>>

(* The later children of a node move when one leaves or comes before them.  *)
Moved(p, i) == {<<p, kids[p][j]>> : j \in {k \in DOMAIN kids[p] : k >= i}}

(* The later applications move too: to an index that is read again, or that *)
(* is still to be read, or to one that is neither.                          *)
Passed(i) ==
  {kids[Desktop][j] : j \in {k \in DOMAIN kids[Desktop] \intersect ToSet(order) :
                              k > i /\ k - 1 \notin ToSet(order)}}

Leave(p, i) ==
  /\ kids' = [kids EXCEPT ![p] = RemoveAt(@, i)]
  /\ UNCHANGED <<visible, exited>>
  /\ IF p = Desktop THEN Changed({}, Passed(i)) ELSE Changed(Moved(p, i), {})

(* Applications register at the end of the list.                            *)
Join(p, i, n) ==
  /\ n \notin ToSet(kids[p]) /\ (p = Desktop => i = Len(kids[p]) + 1)
  /\ p \notin exited /\ n \notin exited
  /\ kids' = [kids EXCEPT ![p] = InsertAt(@, i, n)]
  /\ UNCHANGED <<visible, exited>>
  /\ Changed(IF p = Desktop THEN {} ELSE Moved(p, i), {})

(* A process exits: its windows are gone, and the registry may keep its     *)
(* application for a while.                                                 *)
Exit(a) ==
  /\ a \notin exited
  /\ exited' = exited \union {a} /\ kids' = [kids EXCEPT ![a] = <<>>]
  /\ UNCHANGED visible
  /\ Changed({}, {})

HideOrShow(n) ==
  /\ visible' = IF n \in visible THEN visible \ {n} ELSE visible \union {n}
  /\ UNCHANGED <<kids, exited>>
  /\ Changed({}, {})

Application ==
  /\ stage \notin SearchEnded /\ changes < MaxChanges
  /\ \/ \E p \in Nodes : \E i \in DOMAIN kids[p] : Leave(p, i)
     \/ \E n \in DOMAIN Parents : \E p \in Parents[n] :
          \E i \in 1..(Len(kids[p]) + 1) : Join(p, i, n)
     \/ \E a \in Apps : Exit(a)
     \/ \E n \in Windows \union Controls : HideOrShow(n)

-----------------------------------------------------------------------------
(* The search.                                                              *)

(* Mutant: every search reads the registry in its own order.               *)
IndexesOldestFirst ==
  LET count == Len(kids[Desktop])
      oldestFirst == [k \in 1..count |-> k]
  IN IF hint \in 1..count THEN <<hint>> \o RemoveAt(oldestFirst, hint) ELSE oldestFirst

(* The registry from its last application to its first in a scope, in its   *)
(* own order without one; the index of an earlier answer before the others. *)
Indexes ==
  LET count == Len(kids[Desktop])
      turn(i) == IF scoped THEN count + 1 - i ELSE i
      inTurn == [k \in 1..count |-> turn(k)]
  IN IF hint \in 1..count THEN <<hint>> \o RemoveAt(inTurn, turn(hint)) ELSE inTurn

(* Mutant: what an earlier scan found is kept.                              *)
StartKeepsFound ==
  /\ stage = "poll"
  /\ allowed' \in IF scoped THEN Scopes ELSE {Apps}
  /\ stage' = "apps" /\ order' = Indexes /\ reading' = NoNode /\ wins' = <<>> /\ work' = <<>>
  /\ visited' = {} /\ broken' = FALSE
  /\ steady' = Links /\ shown' = Shown /\ slipped' = {}
  /\ UNCHANGED <<treeVars, mode, hint, scoped, over, matches, answer>>

(* The processes of the launch are listed again for every scan (ProcessScope *)
(* opens that up).                                                           *)
StartSearch ==
  /\ stage = "poll"
  /\ allowed' \in IF scoped THEN Scopes ELSE {Apps}
  /\ stage' = "apps" /\ order' = Indexes /\ reading' = NoNode /\ wins' = <<>> /\ work' = <<>>
  /\ visited' = {} /\ matches' = {} /\ broken' = FALSE
  /\ steady' = Links /\ shown' = Shown /\ slipped' = {}
  /\ UNCHANGED <<treeVars, mode, hint, scoped, over, answer>>

(* An index past the end, or an application of another process; without a   *)
(* scope also one whose process exited.                                     *)
SkipIndex ==
  /\ stage = "apps" /\ order # <<>>
  /\ \/ At(Desktop, Head(order)) \notin allowed
     \/ ~scoped /\ At(Desktop, Head(order)) \in exited
  /\ order' = Tail(order)
  /\ UNCHANGED <<treeVars, queryVars, stage, over, reading, wins, work, visited, matches, broken,
                 answer, memoryVars>>

(* WindowScan opens up how the list of windows is read; here it is one step. *)
SearchApp ==
  /\ stage = "apps" /\ order # <<>> /\ At(Desktop, Head(order)) \in allowed \ exited
  /\ order' = Tail(order)
  /\ reading' = At(Desktop, Head(order)) /\ wins' = kids[reading']
  /\ stage' = "windows"
  /\ UNCHANGED <<treeVars, queryVars, over, work, visited, matches, broken, answer, memoryVars>>

(* Without a scope, a window that cannot be read because its process exited *)
(* is passed over.                                                          *)
PassExited ==
  /\ stage = "windows" /\ wins # <<>> /\ ~scoped /\ reading \in exited
  /\ wins' = Tail(wins)
  /\ UNCHANGED <<treeVars, queryVars, stage, over, order, reading, work, visited, matches, broken,
                 answer, memoryVars>>

(* The search of a window begins with the window itself.                    *)
EnterWindow ==
  /\ stage = "windows" /\ wins # <<>> /\ reading \notin exited
  /\ stage' = "window" /\ visited' = {Head(wins)}
  /\ work' = IF mode = "witness" THEN kids[Head(wins)]
             ELSE IF Head(wins) \in visible THEN <<Iterator(Head(wins))>> ELSE <<>>
  /\ UNCHANGED <<treeVars, queryVars, over, order, reading, wins, matches, broken, answer,
                 memoryVars>>

Steps ==
  UNCHANGED <<treeVars, queryVars, stage, over, order, reading, wins, answer, memoryVars>>

Exhausted ==
  /\ stage = "window" /\ mode # "witness" /\ work # <<>>
  /\ Head(work).next > Head(work).count
  /\ work' = Tail(work)
  /\ UNCHANGED <<visited, matches, broken>> /\ Steps

(* The next child of the first iterator, which goes behind the others: the  *)
(* siblings come before the children of any of them.  What is hidden is not *)
(* entered.                                                                 *)
Examine ==
  /\ stage = "window" /\ mode # "witness" /\ work # <<>>
  /\ Head(work).next <= Head(work).count /\ reading \notin exited
  /\ At(Head(work).of, Head(work).next) # NoNode
  /\ LET iterator == Head(work)
         node == At(iterator.of, iterator.next)
         rest == Append(Tail(work), [iterator EXCEPT !.next = @ + 1])
         shows == node \notin visited /\ node \in visible
     IN /\ visited' = visited \union {node}
        /\ matches' = IF shows /\ node \in Matching THEN matches \union {<<Head(wins), node>>}
                    ELSE matches
        /\ work' = IF shows THEN Append(rest, Iterator(node)) ELSE rest
  /\ UNCHANGED broken /\ Steps

(* A witness ends the search.  What cannot be read is passed over but not   *)
(* forgotten: the node itself, or some of its children.                     *)
Witness ==
  /\ stage = "window" /\ mode = "witness" /\ work # <<>> /\ reading \notin exited
  /\ Head(work) \in (Matching \intersect visible) \ visited
  /\ stage' = "passed" /\ answer' = Head(work)
  /\ UNCHANGED <<treeVars, queryVars, over, placeVars, memoryVars>>

PassBy ==
  /\ stage = "window" /\ mode = "witness" /\ work # <<>> /\ reading \notin exited
  /\ Head(work) \notin (Matching \intersect visible) \ visited
  /\ visited' = visited \union {Head(work)}
  /\ work' = Tail(work) \o (IF Head(work) \in visited THEN <<>> ELSE kids[Head(work)])
  /\ UNCHANGED <<matches, broken>> /\ Steps

(* The indexes that can be read, in order.                                  *)
Readable(count) ==
  UNION {{read \in [1..m -> 1..count] : \A i, j \in 1..m : i < j => read[i] < read[j]}
         : m \in 0..count}

PassOver ==
  /\ stage = "window" /\ mode = "witness" /\ work # <<>> /\ Head(work) \notin visited
  /\ visited' = visited \union {Head(work)}
  /\ \E read \in Readable(Len(kids[Head(work)])) :
       work' = Tail(work) \o [k \in DOMAIN read |-> kids[Head(work)][read[k]]]
  /\ broken' = TRUE
  /\ UNCHANGED matches /\ Steps

LeaveWindow ==
  /\ stage = "window" /\ work = <<>>
  /\ stage' = "windows" /\ wins' = Tail(wins) /\ visited' = {}
  /\ UNCHANGED <<treeVars, queryVars, over, order, reading, work, matches, broken, answer,
                 memoryVars>>

(* Mutants: a control is counted once for every window it was found in, and *)
(* one match is as good as another.                                         *)
DistinctByWindow == matches
FirstMatch == {f[2] : f \in {CHOOSE f \in g : TRUE : g \in {matches} \ {{}}}}

(* A control counts once, whichever windows lead to it.                     *)
Distinct == {f[2] : f \in matches}

(* What is found answers, or nothing does: the search starts over, or ends  *)
(* when its deadline has passed.                                            *)
Conclude ==
  /\ \/ Cardinality(Distinct) > 1 /\ stage' = "ambiguous" /\ UNCHANGED answer
     \/ Cardinality(Distinct) = 1 /\ stage' = "passed" /\ answer' \in {f[2] : f \in matches}
     \/ /\ Distinct = {} /\ UNCHANGED answer
        /\ stage' = IF over THEN "not-found" ELSE "poll"
  /\ UNCHANGED <<treeVars, queryVars, over, placeVars, memoryVars>>

(* With a hint the first application that has a match answers.              *)
FinishApp ==
  /\ stage = "windows" /\ wins = <<>>
  /\ IF mode = "hinted" /\ matches # {} THEN Conclude
     ELSE /\ stage' = "apps" /\ reading' = NoNode
          /\ UNCHANGED <<treeVars, queryVars, over, order, wins, work, visited, matches,
                         broken, answer, memoryVars>>

JudgeMatches == stage = "apps" /\ order = <<>> /\ ~broken /\ Conclude

(* A read fails: the whole search starts over while there is time, and      *)
(* answers nothing when there is none.  Nothing else is left when a child   *)
(* is missing, or a witness search passed over what it could not read.      *)
SearchRefused ==
  /\ stage \in Searching
  /\ stage' = IF over THEN "inconclusive" ELSE "poll"
  /\ UNCHANGED <<treeVars, queryVars, over, placeVars, answer, memoryVars>>

(* A deadline or a limit on the nodes cuts the search short.                *)
SearchTruncated ==
  /\ stage \in Searching
  /\ stage' = "inconclusive"
  /\ UNCHANGED <<treeVars, queryVars, over, placeVars, answer, memoryVars>>

(* The iterator asks for the next child outside of what turns an error of   *)
(* the provider into one that is tried again: the probe ends.               *)
IteratorFails ==
  /\ stage = "window" /\ mode # "witness" /\ work # <<>>
  /\ Head(work).next <= Head(work).count
  /\ stage' = "crashed"
  /\ UNCHANGED <<treeVars, queryVars, over, placeVars, answer, memoryVars>>

SearchExpires ==
  /\ stage \notin SearchEnded /\ ~over
  /\ over' = TRUE
  /\ UNCHANGED <<treeVars, queryVars, stage, placeVars, answer, memoryVars>>

Probe ==
  \/ StartSearch \/ SkipIndex \/ SearchApp \/ PassExited \/ EnterWindow \/ Exhausted \/ Examine
  \/ Witness \/ PassBy \/ PassOver \/ LeaveWindow \/ FinishApp \/ JudgeMatches \/ SearchRefused
  \/ SearchTruncated \/ IteratorFails

SearchNext == Application \/ Probe \/ SearchExpires

SearchSpec == SearchInit /\ [][SearchNext]_searchVars

-----------------------------------------------------------------------------
(* Properties.                                                              *)

(* "An ambiguous match fails": when a search for a unique control passes,   *)
(* no other control that matches stayed in its place through the scan,      *)
(* unless its application slipped past the scan; with a hint, none of the   *)
(* same application.  A witness need not be unique.                         *)
PassedIsUnique ==
  stage = "passed" /\ mode # "witness" =>
    SteadyMatches(IF mode = "hinted" THEN {reading} ELSE allowed \ slipped) \subseteq {answer}

(* "When a query has to prove that something is absent, it needs a complete *)
(* scan": whatever comes, goes, hides or fails around it, a control that    *)
(* stayed in its place through the last scan is reported as missing only    *)
(* when another application left and its own slipped past the scan.  Newest *)
(* first, and with no index tried before the others, none does.             *)
AbsenceIsComplete ==
  stage = "not-found" =>
    /\ SteadyMatches(allowed \ slipped) = {}
    /\ scoped /\ hint = 0 => slipped = {}

(* The content of a widget published under two windows is one control: an   *)
(* ambiguity is two controls that were both shown in the scan.              *)
AmbiguityIsReal == stage = "ambiguous" => Cardinality(shown) > 1

(* "Transient read errors are retried within the caller's original          *)
(* deadline" (docs/openqa-design.md).                                       *)
ErrorsAreRetried == stage # "crashed"

=============================================================================
