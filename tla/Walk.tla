-------------------------------- MODULE Walk --------------------------------
(***************************************************************************)
(* jumpToDN and the walk it starts (app.go: navigateTo, walkTo,            *)
(* pageTowards, jumpMissed), over the tree of ChildListing. A walk goes    *)
(* down the path to its target one RDN at a time; where it has to load, it *)
(* hands itself to the fetch as its continuation (then), and the landing   *)
(* resumes it. Between two landings the operator and other walks go on.    *)
(***************************************************************************)
EXTENDS ChildListing, FiniteSets

CONSTANTS Walker,       \* bound: walks under way at once
          Nobody,
          Nowhere,
          JumpMaxPages  \* jumpMaxPages: 20 in the code

(* A path is what PathFrom makes of a DN: the DN and those above it.       *)
ASSUME WalkAssumption ==
    /\ Nobody \notin Walker /\ Nowhere \notin Node
    /\ JumpMaxPages \in Nat
    /\ \A n \in Node : /\ n \in Seq(ToSet(n)) /\ n # <<>>
                       /\ \A k \in 1 .. Len(n) : SubSeq(n, 1, k) \in Node

Verdict == {"none", "arrived", "outside", "absent", "not in tree"}

(* walk in app.go: the path is the prefixes of the target.                 *)
NoWalk == [target |-> Nowhere, index |-> 0, pages |-> 0]

VARIABLES
    walk,     \* walk[w]: the walk of w, NoWalk when there is none
    then,     \* then[s]: who goes on when the fetch in slot s lands
    running,  \* whose walkTo the UI thread is in, or Nobody
    cursor,   \* the row under the tree's cursor, Nowhere when there is none
    verdict   \* how the last walk that ended by itself ended, and at which DN

walkVars == <<connected, ref, fetch, walk, then, running, cursor, verdict>>

InitWalk ==
    /\ InitTree
    /\ walk = [w \in Walker |-> NoWalk]
    /\ then = [s \in Slot |-> Nobody]
    /\ running = Nobody
    /\ cursor = Nowhere
    /\ verdict = [of |-> "none", dn |-> Nowhere]

-----------------------------------------------------------------------------
Idle(w)    == walk[w] = NoWalk
Step(w)    == SubSeq(walk[w].target, 1, walk[w].index)
Above(w)   == SubSeq(walk[w].target, 1, walk[w].index - 1)
AtEnd(w)   == walk[w].index = Len(walk[w].target)

(* The walk of w is over: a caller that returns without another fetch.     *)
Over(w, of, dn) ==
    /\ walk' = [walk EXCEPT ![w] = NoWalk]
    /\ running' = Nobody
    /\ verdict' = [of |-> of, dn |-> dn]
    /\ UNCHANGED <<connected, ref, fetch, then>>

(* The walk of w goes on as r when the fetch in slot s has landed.         *)
Await(w, s, r) ==
    /\ walk' = [walk EXCEPT ![w] = r]
    /\ then' = [then EXCEPT ![s] = w]
    /\ running' = Nobody
    /\ UNCHANGED <<connected, cursor, verdict>>

-----------------------------------------------------------------------------
(* The steps of walkTo. A row the tree has for the target ends the walk.   *)
Reach(w) ==
    /\ running = w /\ Listed(Step(w)) /\ AtEnd(w)
    /\ cursor' = Step(w)
    /\ Over(w, "arrived", Step(w))

(* A slip: the walk stays where it is.                                     *)
StepDownStaying(w) ==
    /\ running = w /\ Listed(Step(w)) /\ ~AtEnd(w)
    /\ ref[Step(w)].loaded
    /\ walk' = [walk EXCEPT ![w].pages = 0]
    /\ UNCHANGED <<connected, ref, fetch, then, running, cursor, verdict>>

StepDown(w) ==
    /\ running = w /\ Listed(Step(w)) /\ ~AtEnd(w)
    /\ ref[Step(w)].loaded
    /\ walk' = [walk EXCEPT ![w].index = @ + 1, ![w].pages = 0]
    /\ UNCHANGED <<connected, ref, fetch, then, running, cursor, verdict>>

(* A container on the way is opened even if it is loading, or a leaf.      *)
Open(w, s) ==
    /\ running = w /\ Listed(Step(w)) /\ ~AtEnd(w)
    /\ ~ref[Step(w)].loaded
    /\ FetchFirst(s, Step(w), ref[Step(w)])
    /\ Await(w, s, [walk[w] EXCEPT !.index = @ + 1, !.pages = 0])

(* pageTowards: whether another page may have the row.                     *)
MorePages(w) ==
    /\ walk[w].index > 1 /\ walk[w].pages < JumpMaxPages
    /\ Listed(Above(w)) /\ ~ref[Above(w)].loading
    /\ ref[Above(w)].cookie # NoPage

(* A slip: the walk is over while it waits for the page.                   *)
PageTowardsAndOn(w, s) ==
    /\ running = w /\ ~Listed(Step(w)) /\ MorePages(w)
    /\ FetchNext(s, Above(w))
    /\ Await(w, s, NoWalk)

PageTowards(w, s) ==
    /\ running = w /\ ~Listed(Step(w)) /\ MorePages(w)
    /\ FetchNext(s, Above(w))
    /\ Await(w, s, [walk[w] EXCEPT !.pages = @ + 1])

(* jumpMissed. A target the listing may only not have reached is shown     *)
(* outside the tree.                                                       *)
Beyond(w) ==
    /\ Listed(Above(w))
    /\ ref[Above(w)].cookie # NoPage \/ ref[Above(w)].truncated

Miss(w) ==
    /\ running = w /\ ~Listed(Step(w)) /\ ~MorePages(w)
    /\ \/ walk[w].index = 1 /\ Over(w, "not in tree", Step(w))
       \/ walk[w].index > 1 /\ Beyond(w) /\ Over(w, "outside", Step(w))
       \/ walk[w].index > 1 /\ ~Beyond(w) /\ Over(w, "absent", Step(w))
    /\ UNCHANGED cursor

WalkTo(w) ==
    \/ Reach(w) \/ StepDown(w) \/ Miss(w)
    \/ \E s \in Slot : Open(w, s) \/ PageTowards(w, s)

-----------------------------------------------------------------------------
(* navigateTo, for a DN under the context shown: a link, a search result,  *)
(* a bookmark, a DN typed in, or a step of the history.                    *)
Navigate(w, dn) ==
    /\ running = Nobody /\ connected
    /\ Idle(w)
    /\ \E s \in Slot : ~InFlight(s)
    /\ walk' = [walk EXCEPT ![w] = [target |-> dn, index |-> 1, pages |-> 0]]
    /\ running' = w
    /\ UNCHANGED <<connected, ref, fetch, then, cursor, verdict>>

MoveCursor(n) ==
    /\ running = Nobody /\ Listed(n)
    /\ cursor' = n
    /\ UNCHANGED <<connected, ref, fetch, walk, then, running, verdict>>

(* The keys of the tree, as ChildListing has them: none of them is told    *)
(* that a walk is under way.                                               *)
TreeKeys(s) ==
    /\ running = Nobody
    /\ \E n \in Node : Expand(s, n) \/ Reload(s, n) \/ LoadMore(s, n)
    /\ UNCHANGED <<walk, then, running, cursor, verdict>>

(* The cursor of a new tree is on its first row (reset).                   *)
NewTree(s) ==
    /\ running = Nobody
    /\ Adopt(s) \/ ToggleAllContexts(s)
    /\ cursor' = Home
    /\ UNCHANGED <<walk, then, running, verdict>>

HangUp ==
    /\ running = Nobody
    /\ Disconnect
    /\ cursor' = Nowhere
    /\ UNCHANGED <<walk, then, running, verdict>>

(* A page has landed: fetchChildren runs the continuation, for a row that  *)
(* has been replaced too.                                                  *)
Landed(s) ==
    /\ running = Nobody
    /\ LandPage(s)
    /\ running' = then[s]
    /\ then' = [then EXCEPT ![s] = Nobody]
    /\ UNCHANGED <<walk, cursor, verdict>>

(* A fetch has failed, or its connection is gone: the continuation is      *)
(* dropped, and with it the walk.                                          *)
Dropped(s) ==
    /\ running = Nobody
    /\ LandFailure(s) \/ LandStale(s)
    /\ walk' = [w \in Walker |-> IF w = then[s] THEN NoWalk ELSE walk[w]]
    /\ then' = [then EXCEPT ![s] = Nobody]
    /\ UNCHANGED <<running, cursor, verdict>>

-----------------------------------------------------------------------------
WalkStep == \E w \in Walker : WalkTo(w)

NextWalk ==
    \/ WalkStep
    \/ \E w \in Walker, n \in Node : Navigate(w, n)
    \/ \E n \in Node : MoveCursor(n)
    \/ \E s \in Slot : TreeKeys(s) \/ NewTree(s) \/ Landed(s) \/ Dropped(s)
    \/ HangUp

SpecWalk == InitWalk /\ [][NextWalk]_walkVars

(* As for the tree, however busy the UI thread is in between: the select   *)
(* of tview's event loop starves neither keys nor queued updates. And a    *)
(* function that runs on the UI thread returns.                            *)
FairWalk ==
    /\ SpecWalk
    /\ WF_walkVars(WalkStep)
    /\ \A s \in Slot : SF_walkVars(Landed(s) \/ Dropped(s))

-----------------------------------------------------------------------------
TypeOKWalk ==
    /\ TypeOKTree
    /\ walk \in [Walker -> [target : Node \cup {Nowhere}, index : Nat, pages : Nat]]
    /\ then \in [Slot -> Walker \cup {Nobody}]
    /\ running \in Walker \cup {Nobody}
    /\ cursor \in Node \cup {Nowhere}
    /\ verdict \in [of : Verdict, dn : Node \cup {Nowhere}]

(* A walk is a chain of callbacks: it is lost for good if the one that has *)
(* to resume it goes missing, and corrupted if two do. So each walk under  *)
(* way is on the UI thread or waits for exactly one fetch, and no fetch    *)
(* resumes a walk that is over.                                            *)
OneResumptionEach ==
    \A w \in Walker :
        Cardinality({s \in Slot : then[s] = w /\ InFlight(s)})
            = IF Idle(w) \/ running = w THEN 0 ELSE 1

(* A walk ends with the cursor on its target or not touching it, and it    *)
(* does end: it goes down a finite path, and pages JumpMaxPages times at   *)
(* each step, however often the containers on it are reloaded.             *)
J == INSTANCE Jump WITH Entry  <- Node,
                        Jumper <- Walker,
                        goal   <- [w \in Walker |-> walk[w].target]
ImplementsJump == J!SpecJump

(* "The parent is fully listed and the entry is genuinely not under it"    *)
(* (jumpMissed): an entry reported absent is not in the directory.         *)
AbsentMeansAbsent ==
    verdict.of = "absent" => OnPage[verdict.dn] = 0

(* No walk waits for a landing that will not resume it.                    *)
WalksAreAttended == TypeOKWalk /\ OneResumptionEach
=============================================================================
