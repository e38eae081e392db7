---------------------------- MODULE SearchResults ----------------------------
(***************************************************************************)
(* The filter bar, the list of search hits and the keyboard they share     *)
(* with the panes (app.go: openSearch to fetchResults, closeResults,       *)
(* globalKeys, focusNext; search.go: resultsPane). Searches run in the     *)
(* background (groupNone: none displaces another) and land in any order;   *)
(* what lands after the connection changed is dropped, as AsyncWork says.  *)
(***************************************************************************)
EXTENDS Naturals, Sequences, SequencesExt

CONSTANTS Query,        \* base, scope and filter
          LastPage,     \* pages the server has for any of them
          Slot,         \* bound: searches in flight at once
          MaxPages,     \* bound: pages on the list
          MaxDialogs,   \* bound: dialogs stacked
          NoQuery, Idle

ASSUME SearchAssumption ==
    /\ LastPage \in Nat \ {0} /\ MaxPages \in Nat /\ MaxDialogs \in Nat
    /\ NoQuery \notin Query
    /\ Idle \notin [q : Query, page : 1 .. LastPage, append : BOOLEAN]

Fetch == [q : Query, page : 1 .. LastPage, append : BOOLEAN]
Focus == {"tree", "results", "object", "bar", "dialog"}

VARIABLES
    fetch,      \* fetch[s]: the search in flight in slot s, or Idle
    pages,      \* the pages of hits listed, as <<query, page>>
    query,      \* resultsPane.query
    cookie,     \* resultsPane.cookie: the page it asks for, 0 when empty
    loading,    \* resultsPane.loading
    front,      \* the page of App.left on show: the tree or the results
    searching,  \* App.searching
    focus,      \* what has the keyboard
    modals,     \* App.modals: what each dialog hands the keyboard back to
    connected,  \* App.dir is not nil
    dialling,   \* a dial is in flight
    jumping,    \* a jump is on its way (see Walk)
    mine        \* the hits listed were found over the present connection

listVars == <<pages, query, cookie, loading, mine>>
keyVars  == <<focus, modals>>
connVars == <<connected, dialling>>
resultsVars == <<fetch, listVars, front, searching, keyVars, connVars, jumping>>

InitResults ==
    /\ fetch = [s \in Slot |-> Idle]
    /\ pages = <<>> /\ query = NoQuery /\ cookie = 0
    /\ loading = FALSE /\ mine = FALSE
    /\ front = "tree" /\ searching = FALSE
    /\ focus = "tree" /\ modals = <<>>
    /\ connected = FALSE /\ dialling = FALSE /\ jumping = FALSE

-----------------------------------------------------------------------------
(* globalKeys handles a key itself: it stands down under a dialog and      *)
(* while the filter bar is open.                                           *)
GlobalKey == modals = <<>> /\ ~searching

Start(q, page, append) ==
    IF connected
    THEN \E s \in Slot :
            /\ fetch[s] = Idle
            /\ fetch' = [fetch EXCEPT ![s] = [q |-> q, page |-> page, append |-> append]]
    ELSE UNCHANGED fetch

(* openSearch. The tree has a context to search under.                     *)
OpenSearch ==
    /\ GlobalKey /\ connected
    /\ searching' = TRUE
    /\ focus' = "bar"
    /\ UNCHANGED <<fetch, listVars, front, modals, connVars, jumping>>

(* closeSearchBar.                                                         *)
CloseSearchBar ==
    /\ searching' = FALSE
    /\ focus' = IF front = "results" THEN "results" ELSE "tree"

CancelSearch ==
    /\ focus = "bar"
    /\ CloseSearchBar
    /\ UNCHANGED <<fetch, listVars, front, modals, connVars, jumping>>

RunSearch(q) ==
    /\ focus = "bar"
    /\ CloseSearchBar
    /\ Start(q, 1, FALSE)
    /\ UNCHANGED <<listVars, front, modals, connVars, jumping>>

(* Enter on the last row. loading is set before fetchResults looks at the  *)
(* connection.                                                             *)
LoadMoreResults ==
    /\ focus = "results" /\ cookie # 0 /\ ~loading
    /\ loading' = TRUE
    /\ Start(query, cookie, TRUE)
    /\ UNCHANGED <<pages, query, cookie, mine, front, searching, keyVars,
                   connVars, jumping>>

(* A slip: the first query is kept.                                        *)
ShowKeepingQuery(f) ==
    /\ pages' = (IF f.append THEN pages ELSE <<>>) \o <<<<f.q, f.page>>>>
    /\ query' = IF f.append \/ query = NoQuery THEN f.q ELSE query
    /\ cookie' = IF f.page < LastPage THEN f.page + 1 ELSE 0
    /\ loading' = FALSE
    /\ mine' = (mine \/ ~f.append)

(* resultsPane.show.                                                       *)
Show(f) ==
    /\ pages' = (IF f.append THEN pages ELSE <<>>) \o <<<<f.q, f.page>>>>
    /\ query' = f.q
    /\ cookie' = IF f.page < LastPage THEN f.page + 1 ELSE 0
    /\ loading' = FALSE
    /\ mine' = (mine \/ ~f.append)

(* fetchResults' callbacks.                                                *)
Land(s) ==
    /\ fetch[s] # Idle
    /\ fetch[s].append => Len(pages) < MaxPages
    /\ fetch' = [fetch EXCEPT ![s] = Idle]
    /\ Show(fetch[s])
    /\ front' = "results"
    /\ focus' = "results"
    /\ UNCHANGED <<searching, modals, connVars, jumping>>

OpenDialog ==
    /\ Len(modals) < MaxDialogs
    /\ modals' = Append(modals, focus)
    /\ focus' = "dialog"

(* A slip: the list is not told.                                           *)
FailQuietly(s) ==
    /\ fetch[s] # Idle
    /\ fetch' = [fetch EXCEPT ![s] = Idle]
    /\ OpenDialog
    /\ UNCHANGED <<listVars, front, searching, connVars, jumping>>

(* A search that failed or was cancelled (cancelPending).                  *)
Fail(s) ==
    /\ fetch[s] # Idle
    /\ fetch' = [fetch EXCEPT ![s] = Idle]
    /\ loading' = FALSE
    /\ OpenDialog
    /\ UNCHANGED <<pages, query, cookie, mine, front, searching, connVars, jumping>>

(* closeResults: Esc, once there is nothing in flight for it to cancel,    *)
(* or Esc or q in the results themselves when globalKeys stands down.      *)
CloseResults ==
    /\ \/ /\ GlobalKey /\ front = "results"
          /\ ~dialling /\ ~jumping /\ \A s \in Slot : fetch[s] = Idle
       \/ ~GlobalKey /\ focus = "results"
    /\ front' = "tree"
    /\ focus' = "tree"
    /\ UNCHANGED <<fetch, listVars, searching, modals, connVars, jumping>>

(* jumpFromResults.                                                        *)
JumpFromResults ==
    /\ focus = "results" /\ pages # <<>>
    /\ front' = "tree"
    /\ focus' = "tree"
    /\ jumping' = connected
    /\ UNCHANGED <<fetch, listVars, searching, modals, connVars>>

(* Enter on a DN in the object pane.                                       *)
Follow ==
    /\ focus = "object" /\ connected
    /\ jumping' = TRUE
    /\ UNCHANGED <<fetch, listVars, front, searching, keyVars, connVars>>

(* walkTo, on arrival or not.                                              *)
JumpEnds ==
    /\ jumping
    /\ jumping' = FALSE
    /\ focus' \in {"object", focus}
    /\ UNCHANGED <<fetch, listVars, front, searching, modals, connVars>>

(* focusNext.                                                              *)
Tab ==
    /\ GlobalKey
    /\ focus' = IF focus = front THEN "object" ELSE front
    /\ UNCHANGED <<fetch, listVars, front, searching, modals, connVars, jumping>>

-----------------------------------------------------------------------------
(* Dialogs and the connection (see Session for what they decide).          *)
AskSomething ==
    /\ GlobalKey
    /\ OpenDialog
    /\ UNCHANGED <<fetch, listVars, front, searching, connVars, jumping>>

(* The top dialog closes; one that chose a server dials it, one that chose *)
(* a DN jumps to it.                                                       *)
CloseDialog ==
    /\ focus = "dialog"
    /\ focus' = Last(modals)
    /\ modals' = Front(modals)
    /\ \/ UNCHANGED <<dialling, jumping>>
       \/ dialling' = TRUE /\ UNCHANGED jumping
       \/ connected /\ jumping' = TRUE /\ UNCHANGED dialling
    /\ UNCHANGED <<fetch, listVars, front, searching, connected>>

(* An error, or a question about a certificate.                            *)
DialFails ==
    /\ dialling
    /\ dialling' = FALSE
    /\ OpenDialog
    /\ UNCHANGED <<fetch, listVars, front, searching, connected, jumping>>

(* A slip: the searches in flight are not retired.                         *)
LeaveOnlyTheConnection ==
    /\ front' = "tree"
    /\ mine' = FALSE
    /\ UNCHANGED <<fetch, jumping>>

(* disconnect retires the generation: what is in flight never lands.       *)
Leave ==
    /\ fetch' = [s \in Slot |-> Idle]
    /\ front' = "tree"
    /\ mine' = FALSE
    /\ jumping' = FALSE

(* c. The page that takes the place of the one with the keyboard gets it.  *)
Disconnect ==
    /\ GlobalKey /\ connected
    /\ connected' = FALSE
    /\ dialling' = FALSE
    /\ Leave
    /\ focus' = IF focus = "results" THEN "tree" ELSE focus
    /\ UNCHANGED <<pages, query, cookie, loading, searching, modals>>

Adopt ==
    /\ dialling
    /\ connected' = TRUE
    /\ dialling' = FALSE
    /\ Leave
    /\ focus' = "tree"
    /\ UNCHANGED <<pages, query, cookie, loading, searching, modals>>

NextResults ==
    \/ OpenSearch \/ CancelSearch \/ LoadMoreResults \/ CloseResults
    \/ JumpFromResults \/ Follow \/ JumpEnds \/ Tab
    \/ \E q \in Query : RunSearch(q)
    \/ \E s \in Slot : Land(s) \/ Fail(s)
    \/ AskSomething \/ CloseDialog \/ DialFails \/ Disconnect \/ Adopt

SpecResults == InitResults /\ [][NextResults]_resultsVars

-----------------------------------------------------------------------------
TypeOKResults ==
    /\ fetch \in [Slot -> Fetch \cup {Idle}]
    /\ pages \in Seq(Query \X (1 .. LastPage)) /\ Len(pages) <= MaxPages + 1
    /\ query \in Query \cup {NoQuery} /\ cookie \in 0 .. LastPage
    /\ front \in {"tree", "results"} /\ focus \in Focus
    /\ modals \in Seq(Focus)
    /\ \A b \in {loading, searching, connected, dialling, jumping, mine} : b \in BOOLEAN

(* "a search that is already on its way back cannot draw itself onto the   *)
(* next screen" (disconnect), nor can the rest of one be fetched onto it.  *)
ShownHitsAreOfThisConnection == front = "results" => connected /\ mine

(* The more row is dead only while the page it asked for is on its way:    *)
(* loading, set by one search, is cleared by whichever ends first.         *)
LoadingHasSearch ==
    loading /\ front = "results" => \E s \in Slot : fetch[s] # Idle /\ fetch[s].append

(* The more row continues the hits above it, of whichever search they are. *)
MoreContinuesTheList ==
    cookie # 0 => Last(pages) = <<query, cookie - 1>>

(* resultsPane.show and dropMoreRow: the row that fetches the rest neither *)
(* dies nor fetches anything else, whatever searches cross it.             *)
MoreRowIsSound == LoadingHasSearch /\ MoreContinuesTheList

(* search.go:215 on resultsPane.loading: "without this that fetches the    *)
(* same cookie twice and lists the same entries twice".                    *)
ListsNothingTwice == IsInjective(pages)

(* app.go:62 on App.searching: "true while the filter bar is open, so the  *)
(* global keys stand down and let it have the keyboard".                   *)
FilterBarHasKeyboard == searching /\ modals = <<>> => focus = "bar"
=============================================================================
