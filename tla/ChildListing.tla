---------------------------- MODULE ChildListing ----------------------------
(***************************************************************************)
(* The directory tree: internal/ui/tree.go with expandNode, fetchChildren, *)
(* loadMoreChildren and reloadCurrentNode of internal/ui/app.go.           *)
(*                                                                         *)
(* A node is its DN, a sequence of RDNs from the naming context down. The  *)
(* listing of a container comes in pages; the entries of a page are        *)
(* abstracted to the number of the page. Fetches land in any order, as     *)
(* AsyncWork promises work of kind "none"; each occupies a slot meanwhile. *)
(***************************************************************************)
EXTENDS Naturals, Sequences, SequencesExt

CONSTANTS Node,     \* DNs that are or may become rows of the tree
          Home,     \* the naming context that loadBases opens
          OnPage,   \* OnPage[n]: the page of its container that lists n, 0 if none
          Pages,    \* Pages[n]: how many pages the children of n come in
          Cut,      \* nodes whose only page leaves entries out: no paging
          Leaf,     \* nodes the server says have no children
          Slot      \* bound: fetches in flight at once

ASSUME ListingAssumption ==
    /\ Home \in Node
    /\ OnPage \in [Node -> Nat] /\ Pages \in [Node -> Nat \ {0}]
    /\ Cut \subseteq Node /\ Leaf \subseteq Node

PageNo == Nat \ {0}
NoPage == 0             \* an empty cookie; otherwise it names the next page
Marker == {"none",      \* the row under the children: none,
           "loading",   \* "loading…",
           "more",      \* "N so far, enter for more",
           "cut"}       \* "first N only"

(* What hangs off a row (node in tree.go), with the rows under it.         *)
Ref == [loaded : BOOLEAN, loading : BOOLEAN, cookie : Nat,
        truncated : BOOLEAN, rows : Seq(PageNo), marker : Marker]
NewRef == [loaded |-> FALSE, loading |-> FALSE, cookie |-> NoPage,
           truncated |-> FALSE, rows |-> <<>>, marker |-> "none"]

(* A call of Children in flight: for the row that is in the tree, for one  *)
(* that has been replaced since, or on a connection that is gone.          *)
Place   == {"none", "tree", "detached", "gone"}
Fetch   == [node : Node, page : Nat, append : BOOLEAN, place : Place]
NoFetch == [node |-> Home, page |-> NoPage, append |-> FALSE, place |-> "none"]

VARIABLES
    connected,  \* App.dir is not nil, and the tree shows its contexts
    ref,        \* ref[n]: the row of n, NewRef while it has none
    fetch       \* fetch[s]: the fetch in slot s, or NoFetch

treeVars == <<connected, ref, fetch>>

InitTree ==
    /\ connected = FALSE
    /\ ref = [n \in Node |-> NewRef]
    /\ fetch = [s \in Slot |-> NoFetch]

-----------------------------------------------------------------------------
IsBase(n) == Len(n) = 1
Parent(n) == Front(n)
Below(n)  == {m \in Node : IsStrictPrefix(n, m)}

(* n has a row. The rows below a row that is replaced go with it.          *)
Listed(n) ==
    /\ connected
    /\ ~IsBase(n) => OnPage[n] \in ToSet(ref[Parent(n)].rows)

InFlight(s) == fetch[s].place # "none"

(* The row of n becomes r and everything below it is cleared.              *)
Replaced(n, r) ==
    [m \in Node |-> IF m = n THEN r ELSE IF m \in Below(n) THEN NewRef ELSE ref[m]]

(* The fetches f when the rows in S are no longer in the tree.             *)
Detached(f, S) ==
    [s \in Slot |-> IF f[s].node \in S /\ f[s].place = "tree"
                    THEN [f[s] EXCEPT !.place = "detached"] ELSE f[s]]

(* fetchChildren for the first page: what is under n makes way for         *)
(* "loading…".                                                             *)
FetchFirst(s, n, r) ==
    /\ ~InFlight(s)
    /\ ref' = Replaced(n, [r EXCEPT !.loading = TRUE, !.rows = <<>>,
                                    !.marker = "loading"])
    /\ fetch' = [Detached(fetch, Below(n)) EXCEPT
                    ![s] = [node |-> n, page |-> 1, append |-> FALSE,
                            place |-> "tree"]]

(* fetchChildren for the page that the cookie of n names.                  *)
FetchNext(s, n) ==
    /\ ~InFlight(s)
    /\ ref' = [ref EXCEPT ![n].loading = TRUE]
    /\ fetch' = [fetch EXCEPT ![s] = [node |-> n, page |-> ref[n].cookie,
                                      append |-> TRUE, place |-> "tree"]]

-----------------------------------------------------------------------------
(* The user.                                                               *)

(* Enter, right or l on a row: toggle and expandCurrent. On a row that is  *)
(* loaded they only fold and unfold, which no fetch depends on.            *)
Expand(s, n) ==
    /\ Listed(n)
    /\ n \notin Leaf
    /\ ~ref[n].loaded /\ ~ref[n].loading
    /\ FetchFirst(s, n, ref[n])
    /\ UNCHANGED connected

(* r on a row: reloadCurrentNode, whatever is in flight.                   *)
Reload(s, n) ==
    /\ Listed(n)
    /\ FetchFirst(s, n, [ref[n] EXCEPT !.loaded = FALSE])
    /\ UNCHANGED connected

(* The "enter for more" row: loadMoreChildren.                             *)
LoadMore(s, n) ==
    /\ Listed(n)
    /\ ref[n].marker = "more"
    /\ ~ref[n].loading /\ ref[n].cookie # NoPage
    /\ FetchNext(s, n)
    /\ UNCHANGED connected

(* loadBases, for a new connection (adopt) or for another choice of        *)
(* contexts (a): new rows for the bases, the first one opened.             *)
NewRows(s, place) ==
    /\ ~InFlight(s)
    /\ connected' = TRUE
    /\ ref' = [n \in Node |->
                 IF n = Home THEN [NewRef EXCEPT !.loading = TRUE,
                                                 !.marker = "loading"]
                 ELSE NewRef]
    /\ fetch' = [t \in Slot |->
                   IF t = s THEN [node |-> Home, page |-> 1, append |-> FALSE,
                                  place |-> "tree"]
                   ELSE IF InFlight(t) /\ fetch[t].place # "gone"
                        THEN [fetch[t] EXCEPT !.place = place] ELSE fetch[t]]

Adopt(s)             == NewRows(s, "gone")
ToggleAllContexts(s) == connected /\ NewRows(s, "detached")

Disconnect ==
    /\ connected
    /\ connected' = FALSE
    /\ ref' = [n \in Node |-> NewRef]
    /\ fetch' = [s \in Slot |-> IF InFlight(s) THEN [fetch[s] EXCEPT !.place = "gone"]
                                ELSE NoFetch]

-----------------------------------------------------------------------------
(* Landing.                                                                *)

NextPage(f) == IF f.page < Pages[f.node] THEN f.page + 1 ELSE NoPage

(* A loaded row, with what comes under its children.                       *)
Loaded(f, cookie, rows) ==
    [loaded |-> TRUE, loading |-> FALSE, cookie |-> cookie, rows |-> rows,
     truncated |-> f.node \in Cut,
     marker |-> IF cookie # NoPage THEN "more"
                ELSE IF f.node \in Cut THEN "cut" ELSE "none"]

(* A slip: a further page keeps the old cookie.                            *)
SetChildrenKeepingCookie(r, f) ==
    IF f.append THEN Loaded(f, r.cookie, Append(r.rows, f.page))
    ELSE Loaded(f, NextPage(f), <<f.page>>)

(* What the page of f makes of a row r (setChildren).                      *)
SetChildren(r, f) ==
    Loaded(f, NextPage(f), IF f.append THEN Append(r.rows, f.page)
                           ELSE <<f.page>>)

(* setChildren, for the row the fetch was for: a row that has been replaced*)
(* is changed too, but nobody sees it. New rows stand for the children of a*)
(* first page; the rows of a further page come below those there are.      *)
LandPage(s) ==
    /\ InFlight(s) /\ fetch[s].place # "gone"
    /\ LET f == fetch[s]
           n == f.node
           rest == [fetch EXCEPT ![s] = NoFetch]
       IN  IF f.place = "detached" THEN ref' = ref /\ fetch' = rest
           ELSE IF f.append
           THEN /\ ref' = [ref EXCEPT ![n] = SetChildren(ref[n], f)]
                /\ fetch' = rest
           ELSE /\ ref' = Replaced(n, SetChildren(ref[n], f))
                /\ fetch' = Detached(rest, Below(n))
    /\ UNCHANGED connected

(* Slips of FailLoad: the placeholder stays; a page that failed is still   *)
(* waited for.                                                             *)
FailLoadKeepingPlaceholder(r, f) ==
    IF f.append THEN [r EXCEPT !.loading = FALSE]
    ELSE [r EXCEPT !.loading = FALSE, !.loaded = FALSE, !.rows = <<>>]

FailLoadOfPageIgnored(r, f) ==
    IF f.append THEN r
    ELSE [r EXCEPT !.loading = FALSE, !.loaded = FALSE, !.rows = <<>>,
                   !.marker = "none"]

(* The end of a fetch that failed or was cancelled, for a row r: after a   *)
(* first page failLoad, which does not touch the cookie.                   *)
FailLoad(r, f) ==
    IF f.append THEN [r EXCEPT !.loading = FALSE]
    ELSE [r EXCEPT !.loading = FALSE, !.loaded = FALSE, !.rows = <<>>,
                   !.marker = "none"]

LandFailure(s) ==
    /\ InFlight(s) /\ fetch[s].place # "gone"
    /\ LET f == fetch[s]
           n == f.node
           rest == [fetch EXCEPT ![s] = NoFetch]
       IN  IF f.place = "detached" THEN ref' = ref /\ fetch' = rest
           ELSE IF f.append
           THEN /\ ref' = [ref EXCEPT ![n] = FailLoad(ref[n], f)]
                /\ fetch' = rest
           ELSE /\ ref' = Replaced(n, FailLoad(ref[n], f))
                /\ fetch' = Detached(rest, Below(n))
    /\ UNCHANGED connected

(* An update of an older generation.                                       *)
LandStale(s) ==
    /\ InFlight(s) /\ fetch[s].place = "gone"
    /\ fetch' = [fetch EXCEPT ![s] = NoFetch]
    /\ UNCHANGED <<connected, ref>>

-----------------------------------------------------------------------------
TreeKey(s) ==
    \/ \E n \in Node : Expand(s, n) \/ Reload(s, n) \/ LoadMore(s, n)
    \/ Adopt(s) \/ ToggleAllContexts(s)

Land(s) == LandPage(s) \/ LandFailure(s) \/ LandStale(s)

NextTree == Disconnect \/ \E s \in Slot : TreeKey(s) \/ Land(s)

SpecTree == InitTree /\ [][NextTree]_treeVars

-----------------------------------------------------------------------------
TypeOKTree ==
    /\ connected \in BOOLEAN
    /\ ref \in [Node -> Ref]
    /\ fetch \in [Slot -> Fetch]

(* "loading guards against a second fetch while one is in flight": a guard *)
(* that stays up with nothing in flight would lock the row for good, since *)
(* expand and load more refuse a row that is loading (tree.go, toggle).    *)
LoadingHasFetch ==
    \A n \in Node : ref[n].loading =>
        \E s \in Slot : /\ InFlight(s)
                        /\ fetch[s].node = n /\ fetch[s].place = "tree"

(* "loading…" stands for an expand that is waiting on the network          *)
(* (markLoading): the fetch that will take it away is still to land, also  *)
(* when others for the same row have landed or failed in between.          *)
PlaceholderIsReplaced ==
    \A n \in Node : ref[n].marker = "loading" =>
        \E s \in Slot : /\ InFlight(s) /\ ~fetch[s].append
                        /\ fetch[s].node = n /\ fetch[s].place = "tree"

(* Whatever order pages, failures and reloads came in, a loaded container  *)
(* offers the page after the last one it lists: the cookie and the row     *)
(* that invites to use it agree with the children above it.                *)
CookieContinuesListing ==
    \A n \in Node : ref[n].loaded =>
        LET r == ref[n] IN
        /\ r.rows # <<>>
        /\ r.cookie = IF Last(r.rows) < Pages[n] THEN Last(r.rows) + 1 ELSE NoPage
        /\ r.marker = "more" <=> r.cookie # NoPage

(* A container that was told to load stops saying so, however often it is  *)
(* reloaded or folded away meanwhile: each fetch lands or fails (goroutine *)
(* of task), and whichever does first takes "loading…" away. New contexts  *)
(* bring a new row that is loading; the operator shows them finitely often.*)
LoadingSettles ==
    <>[][\A s \in Slot : ~Adopt(s) /\ ~ToggleAllContexts(s)]_treeVars
    => \A n \in Node : ref[n].marker = "loading" ~> ref[n].marker # "loading"

(* "append is true when continuing a paged listing, so the rows already on *)
(* screen stay put and the new page lands beneath them" (tree.go): what a  *)
(* loaded container lists is its first pages, each once.                   *)
PagesInOrder ==
    \A n \in Node : ref[n].loaded =>
        ref[n].rows = [i \in 1 .. Len(ref[n].rows) |-> i]

(* No row waits for a fetch that nobody has made.                          *)
RowsAreAttended == LoadingHasFetch /\ PlaceholderIsReplaced
=============================================================================
