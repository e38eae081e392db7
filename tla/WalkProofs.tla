----------------------------- MODULE WalkProofs -----------------------------
(***************************************************************************)
(* For any tree, any number of fetches in flight and any number of walks:  *)
(* no row of the tree waits for nothing, what it lists and its cookie      *)
(* agree, each walk is resumed exactly once (ChildListing, Walk), and a    *)
(* walk does what Jump says a jump does.                                   *)
(***************************************************************************)
EXTENDS Walk, FiniteSetTheorems, TLAPS

(* What is fetched is a page: cookies that name none are not fetched.      *)
FetchesArePages == \A s \in Slot : InFlight(s) => fetch[s].page # NoPage

TreeInv ==
    /\ TypeOKTree
    /\ FetchesArePages
    /\ LoadingHasFetch
    /\ PlaceholderIsReplaced
    /\ CookieContinuesListing

(* A walk goes down the path of the entry it is for ...                    *)
WalksKeepToTheirPath ==
    \A w \in Walker : ~Idle(w) => /\ walk[w].target \in Node
                                  /\ walk[w].index \in 1 .. Len(walk[w].target)

(* ... is not over while the UI thread is in it, ...                       *)
RunsWhatIsUnderWay == running # Nobody => ~Idle(running)

(* ... and waits in one slot, with a fetch in it, when it is not.          *)
Waits(w) == {s \in Slot : then[s] = w}
SlotsAreWaitedIn == \A s \in Slot : then[s] # Nobody => InFlight(s)
WaitsInOne ==
    \A w \in Walker : IF Idle(w) \/ running = w THEN Waits(w) = {}
                      ELSE \E s \in Slot : Waits(w) = {s}

IInvWalk ==
    /\ TypeOKWalk
    /\ TreeInv
    /\ WalksKeepToTheirPath
    /\ RunsWhatIsUnderWay
    /\ SlotsAreWaitedIn
    /\ WaitsInOne

(* Slot s, and no other, is taken, or given back.                          *)
Takes(s) ==
    /\ ~InFlight(s)
    /\ \A t \in Slot : InFlight(t)' <=> InFlight(t) \/ t = s
GivesBack(s) ==
    /\ InFlight(s)
    /\ \A t \in Slot : InFlight(t)' <=> InFlight(t) /\ t # s

-----------------------------------------------------------------------------
(* Sequences of pages.                                                     *)
LEMMA AppendedPage ==
    ASSUME NEW s \in Seq(PageNo), NEW p \in PageNo
    PROVE  /\ Append(s, p) \in Seq(PageNo) /\ Append(s, p) # <<>>
           /\ Last(Append(s, p)) = p
<1>1. Append(s, p) \in Seq(PageNo) /\ Len(Append(s, p)) = Len(s) + 1 /\ Len(s) \in Nat
    OBVIOUS
<1>2. Append(s, p)[Len(s) + 1] = p
    OBVIOUS
<1>3. Append(s, p) # <<>>
    BY <1>1
<1> QED
    BY <1>1, <1>2, <1>3 DEF Last

LEMMA OnePage ==
    ASSUME NEW p \in PageNo
    PROVE  <<p>> \in Seq(PageNo) /\ <<p>> # <<>> /\ Last(<<p>>) = p
<1>1. <<p>> \in Seq(PageNo) /\ Len(<<p>>) = 1 /\ <<p>>[1] = p
    OBVIOUS
<1> QED
    BY <1>1 DEF Last

(* What setChildren makes of a row.                                        *)
LEMMA LoadedRow ==
    ASSUME NEW r \in Ref, NEW f \in Fetch, f.page # NoPage
    PROVE  LET q == SetChildren(r, f) IN
           /\ q \in Ref /\ q.loaded /\ ~q.loading
           /\ q.marker # "loading"
           /\ q.rows # <<>>
           /\ q.cookie = IF Last(q.rows) < Pages[f.node] THEN Last(q.rows) + 1 ELSE NoPage
           /\ q.marker = "more" <=> q.cookie # NoPage
<1> DEFINE rows == IF f.append THEN Append(r.rows, f.page) ELSE <<f.page>>
           q == SetChildren(r, f)
<1>1. f.page \in PageNo /\ f.page \in Nat /\ r.rows \in Seq(PageNo) /\ f.node \in Node
      /\ f.append \in BOOLEAN
    BY DEF Fetch, PageNo, NoPage, Ref
<1>2. rows \in Seq(PageNo) /\ rows # <<>> /\ Last(rows) = f.page
    BY <1>1, AppendedPage, OnePage
<1>3. Pages[f.node] \in Nat
    BY <1>1, ListingAssumption
<1>4. NextPage(f) \in Nat
      /\ NextPage(f) = IF f.page < Pages[f.node] THEN f.page + 1 ELSE NoPage
    BY <1>1, <1>3 DEF NextPage, NoPage
<1> HIDE DEF rows
<1>5. q = Loaded(f, NextPage(f), rows)
    BY DEF SetChildren, rows
<1> HIDE DEF q
<1>6. /\ q.loaded = TRUE /\ q.loading = FALSE /\ q.rows = rows
      /\ q.cookie = NextPage(f)
      /\ q.marker \in Marker /\ q.marker # "loading"
      /\ q.marker = "more" <=> q.cookie # NoPage
      /\ q \in Ref
    BY <1>2, <1>4, <1>5 DEF Loaded, Ref, Marker
<1> QED
    BY <1>2, <1>4, <1>6 DEF q

(* A row without children, told to load or not.                            *)
LEMMA EmptyRow ==
    ASSUME NEW r \in Ref
    PROVE  [r EXCEPT !.loading = TRUE, !.rows = <<>>, !.marker = "loading"] \in Ref
<1>1. <<>> \in Seq(PageNo)
    OBVIOUS
<1>2. "loading" \in Marker
    BY DEF Marker
<1> QED
    BY <1>1, <1>2 DEF Ref

LEMMA NewRow ==
    /\ NewRef \in Ref /\ [NewRef EXCEPT !.loading = TRUE, !.marker = "loading"] \in Ref
    /\ ~NewRef.loaded /\ ~NewRef.loading /\ NewRef.marker # "loading"
<1>1. <<>> \in Seq(PageNo)
    OBVIOUS
<1> QED
    BY <1>1 DEF Ref, NewRef, Marker, NoPage

-----------------------------------------------------------------------------
(* The operations of the tree, each with what it does to the slots.        *)

(* Rows that go take no fetch along that another row waits for.            *)
LEMMA FetchFirstIsWell ==
    ASSUME TreeInv, connected' \in BOOLEAN, NEW s \in Slot, NEW n \in Node,
           NEW r \in Ref, ~r.loaded, FetchFirst(s, n, r)
    PROVE  TreeInv' /\ Takes(s)
<1> DEFINE f == [node |-> n, page |-> 1, append |-> FALSE, place |-> "tree"]
           q == [r EXCEPT !.loading = TRUE, !.rows = <<>>, !.marker = "loading"]
<1>1. f \in Fetch /\ f.page # NoPage
    BY DEF Fetch, NoPage, Place
<1>2. /\ q \in Ref /\ NewRef \in Ref
      /\ ~q.loaded /\ ~NewRef.loaded /\ ~NewRef.loading /\ NewRef.marker # "loading"
  <2>1. ~q.loaded
    BY DEF Ref
  <2> QED
    BY <2>1, EmptyRow, NewRow
<1>3. /\ ~InFlight(s)
      /\ ref' = [m \in Node |-> IF m = n THEN q
                                ELSE IF m \in Below(n) THEN NewRef ELSE ref[m]]
      /\ fetch' = [Detached(fetch, Below(n)) EXCEPT ![s] = f]
    BY DEF FetchFirst, Replaced
<1>4. /\ fetch' \in [Slot -> Fetch] /\ fetch'[s] = f
      /\ \A t \in Slot \ {s} :
            /\ fetch'[t].node = fetch[t].node /\ fetch'[t].page = fetch[t].page
            /\ fetch'[t].append = fetch[t].append
            /\ InFlight(t)' <=> InFlight(t)
            /\ fetch[t].node \notin Below(n) => fetch'[t] = fetch[t]
    BY <1>1, <1>3 DEF Detached, TreeInv, TypeOKTree, Fetch, Place, InFlight
<1>5. InFlight(s)'
    BY <1>4 DEF InFlight
<1>6. Takes(s) /\ TypeOKTree'
    BY <1>2, <1>3, <1>4, <1>5 DEF Takes, TreeInv, TypeOKTree
<1>7. FetchesArePages'
    BY <1>1, <1>4 DEF TreeInv, FetchesArePages
<1>8. ASSUME NEW m \in Node, m # n, m \notin Below(n), NEW t \in Slot,
             InFlight(t), fetch[t].node = m
      PROVE  t # s /\ fetch'[t] = fetch[t] /\ InFlight(t)'
    BY <1>3, <1>4, <1>8
<1>9. LoadingHasFetch' /\ PlaceholderIsReplaced'
    BY <1>2, <1>3, <1>4, <1>5, <1>8 DEF TreeInv, LoadingHasFetch, PlaceholderIsReplaced
<1>10. CookieContinuesListing'
    BY <1>2, <1>3 DEF TreeInv, CookieContinuesListing
<1> QED
    BY <1>6, <1>7, <1>9, <1>10 DEF TreeInv

LEMMA FetchNextIsWell ==
    ASSUME TreeInv, connected' \in BOOLEAN, NEW s \in Slot, NEW n \in Node,
           ref[n].cookie # NoPage, FetchNext(s, n)
    PROVE  TreeInv' /\ Takes(s)
<1> DEFINE f == [node |-> n, page |-> ref[n].cookie, append |-> TRUE, place |-> "tree"]
<1>1. f \in Fetch /\ f.page # NoPage
    BY DEF Fetch, NoPage, Place, TreeInv, TypeOKTree, Ref
<1>2. /\ ~InFlight(s)
      /\ ref' = [ref EXCEPT ![n].loading = TRUE]
      /\ fetch' = [fetch EXCEPT ![s] = f]
    BY DEF FetchNext
<1>3. /\ fetch' \in [Slot -> Fetch] /\ fetch'[s] = f /\ InFlight(s)'
      /\ \A t \in Slot \ {s} : fetch'[t] = fetch[t] /\ (InFlight(t)' <=> InFlight(t))
    BY <1>1, <1>2 DEF TreeInv, TypeOKTree, InFlight
<1>4. /\ ref' \in [Node -> Ref]
      /\ \A m \in Node : /\ ref'[m].loaded = ref[m].loaded /\ ref'[m].rows = ref[m].rows
                         /\ ref'[m].cookie = ref[m].cookie
                         /\ ref'[m].marker = ref[m].marker
                         /\ m # n => ref'[m].loading = ref[m].loading
    BY <1>2 DEF TreeInv, TypeOKTree, Ref
<1>5. Takes(s) /\ TypeOKTree' /\ FetchesArePages'
    BY <1>1, <1>2, <1>3, <1>4 DEF Takes, TreeInv, TypeOKTree, FetchesArePages
<1>6. LoadingHasFetch' /\ PlaceholderIsReplaced'
    BY <1>2, <1>3, <1>4 DEF TreeInv, LoadingHasFetch, PlaceholderIsReplaced
<1>7. CookieContinuesListing'
    BY <1>4 DEF TreeInv, CookieContinuesListing
<1> QED
    BY <1>5, <1>6, <1>7 DEF TreeInv

(* New rows wait for the one fetch that was made for them.                 *)
LEMMA NewRowsAreWell ==
    ASSUME TreeInv, NEW s \in Slot, NEW place \in {"gone", "detached"},
           NewRows(s, place)
    PROVE  TreeInv' /\ Takes(s)
<1> DEFINE f == [node |-> Home, page |-> 1, append |-> FALSE, place |-> "tree"]
           q == [NewRef EXCEPT !.loading = TRUE, !.marker = "loading"]
<1>1. f \in Fetch /\ f.page # NoPage
    BY ListingAssumption DEF Fetch, NoPage, Place
<1>2. /\ q \in Ref /\ NewRef \in Ref
      /\ ~q.loaded /\ ~NewRef.loaded /\ ~NewRef.loading /\ NewRef.marker # "loading"
    BY NewRow DEF NewRef
<1>3. /\ ~InFlight(s) /\ connected'
      /\ ref' = [n \in Node |-> IF n = Home THEN q ELSE NewRef]
      /\ fetch' = [t \in Slot |->
                     IF t = s THEN f
                     ELSE IF InFlight(t) /\ fetch[t].place # "gone"
                          THEN [fetch[t] EXCEPT !.place = place] ELSE fetch[t]]
    BY DEF NewRows
<1>4. /\ fetch' \in [Slot -> Fetch] /\ fetch'[s] = f /\ InFlight(s)'
      /\ \A t \in Slot \ {s} :
            fetch'[t].page = fetch[t].page /\ (InFlight(t)' <=> InFlight(t))
    BY <1>1, <1>3 DEF TreeInv, TypeOKTree, Fetch, Place, InFlight
<1>5. Takes(s) /\ TypeOKTree' /\ FetchesArePages'
    BY <1>1, <1>2, <1>3, <1>4 DEF Takes, NewRows, TreeInv, TypeOKTree, FetchesArePages
<1>6. LoadingHasFetch' /\ PlaceholderIsReplaced'
    BY <1>2, <1>3, <1>4, <1>5 DEF LoadingHasFetch, PlaceholderIsReplaced
<1>7. CookieContinuesListing'
    BY <1>2, <1>3 DEF CookieContinuesListing
<1> QED
    BY <1>5, <1>6, <1>7 DEF TreeInv

LEMMA DisconnectIsWell ==
    ASSUME TreeInv, Disconnect
    PROVE  TreeInv' /\ \A t \in Slot : InFlight(t)' <=> InFlight(t)
<1>1. /\ NewRef \in Ref /\ ~NewRef.loaded /\ ~NewRef.loading
      /\ NewRef.marker # "loading"
    BY NewRow
<1>2. NoFetch \in Fetch
    BY ListingAssumption DEF NoFetch, Fetch, NoPage, Place
<1>3. /\ fetch' \in [Slot -> Fetch]
      /\ \A t \in Slot : /\ InFlight(t)' <=> InFlight(t)
                         /\ InFlight(t) => fetch'[t].page = fetch[t].page
    BY <1>2 DEF Disconnect, TreeInv, TypeOKTree, Fetch, Place, InFlight, NoFetch
<1>4. connected' \in BOOLEAN /\ ref' = [n \in Node |-> NewRef]
    BY DEF Disconnect
<1> HIDE DEF NewRef
<1>5. TypeOKTree' /\ FetchesArePages'
    BY <1>1, <1>3, <1>4 DEF TreeInv, TypeOKTree, FetchesArePages
<1>6. LoadingHasFetch' /\ PlaceholderIsReplaced' /\ CookieContinuesListing'
    BY <1>1, <1>4 DEF LoadingHasFetch, PlaceholderIsReplaced, CookieContinuesListing
<1> QED
    BY <1>3, <1>5, <1>6 DEF TreeInv

(* A fetch that is over leaves its slot, and a row nobody waits for.       *)
LEMMA SlotGivenBack ==
    ASSUME TreeInv, NEW s \in Slot, InFlight(s), NEW S,
           fetch' = Detached([fetch EXCEPT ![s] = NoFetch], S)
    PROVE  /\ fetch' \in [Slot -> Fetch] /\ GivesBack(s) /\ FetchesArePages'
           /\ \A t \in Slot \ {s} : /\ InFlight(t)' <=> InFlight(t)
                                    /\ fetch[t].node \notin S => fetch'[t] = fetch[t]
<1>1. NoFetch \in Fetch /\ NoFetch.place = "none"
    BY ListingAssumption DEF NoFetch, Fetch, NoPage, Place
<1> DEFINE rest == [fetch EXCEPT ![s] = NoFetch]
<1>2. rest \in [Slot -> Fetch] /\ rest[s] = NoFetch
      /\ \A t \in Slot \ {s} : rest[t] = fetch[t]
    BY <1>1 DEF TreeInv, TypeOKTree
<1> HIDE DEF rest
<1>3. /\ fetch' \in [Slot -> Fetch]
      /\ \A t \in Slot : /\ fetch'[t].page = rest[t].page
                         /\ fetch'[t].place = "none" <=> rest[t].place = "none"
                         /\ rest[t].node \notin S => fetch'[t] = rest[t]
  <2>1. fetch' = [t \in Slot |-> IF rest[t].node \in S /\ rest[t].place = "tree"
                                 THEN [rest[t] EXCEPT !.place = "detached"] ELSE rest[t]]
    BY DEF Detached, rest
  <2>2. ASSUME NEW t \in Slot
        PROVE  /\ fetch'[t] \in Fetch /\ fetch'[t].page = rest[t].page
               /\ fetch'[t].place = "none" <=> rest[t].place = "none"
               /\ rest[t].node \notin S => fetch'[t] = rest[t]
    <3>1. rest[t] \in Fetch
        BY <1>2
    <3>2. CASE fetch'[t] = rest[t]
        BY <3>1, <3>2
    <3>3. CASE /\ rest[t].node \in S /\ rest[t].place = "tree"
               /\ fetch'[t] = [rest[t] EXCEPT !.place = "detached"]
        BY <3>1, <3>3 DEF Fetch, Place
    <3> QED
        BY <2>1, <3>2, <3>3
  <2> QED
    BY <2>1, <2>2
<1>4. \A t \in Slot : /\ InFlight(t)' <=> InFlight(t) /\ t # s
                      /\ InFlight(t)' => fetch'[t].page # NoPage
    BY <1>1, <1>2, <1>3 DEF InFlight, TreeInv, FetchesArePages
<1> QED
    BY <1>2, <1>3, <1>4 DEF GivesBack, FetchesArePages

LEMMA NothingDetached ==
    ASSUME TreeInv, NEW s \in Slot
    PROVE  [fetch EXCEPT ![s] = NoFetch] = Detached([fetch EXCEPT ![s] = NoFetch], {})
BY DEF Detached, TreeInv, TypeOKTree

(* The row of a fetch that is over becomes q, and the rows beneath it go   *)
(* with their fetches.                                                     *)
LEMMA RowReplaced ==
    ASSUME TreeInv, NEW s \in Slot, InFlight(s), NEW q \in Ref,
           ~q.loading, q.marker # "loading", connected' \in BOOLEAN,
           ref' = Replaced(fetch[s].node, q),
           fetch' = Detached([fetch EXCEPT ![s] = NoFetch], Below(fetch[s].node))
    PROVE  /\ TypeOKTree' /\ FetchesArePages' /\ GivesBack(s)
           /\ LoadingHasFetch' /\ PlaceholderIsReplaced'
<1> DEFINE n == fetch[s].node
<1>1. n \in Node
    BY DEF TreeInv, TypeOKTree, Fetch
<1>2. /\ fetch' \in [Slot -> Fetch] /\ GivesBack(s) /\ FetchesArePages'
      /\ \A t \in Slot \ {s} : /\ InFlight(t)' <=> InFlight(t)
                               /\ fetch[t].node \notin Below(n) => fetch'[t] = fetch[t]
    BY SlotGivenBack
<1>3. NewRef \in Ref /\ ~NewRef.loading /\ NewRef.marker # "loading"
    BY NewRow
<1>4. ref' = [m \in Node |-> IF m = n THEN q
                             ELSE IF m \in Below(n) THEN NewRef ELSE ref[m]]
    BY DEF Replaced
<1>5. TypeOKTree'
    BY <1>2, <1>3, <1>4 DEF TreeInv, TypeOKTree
<1>6. LoadingHasFetch'
  <2> SUFFICES ASSUME NEW m \in Node, ref'[m].loading
               PROVE  \E t \in Slot : (InFlight(t) /\ fetch[t].node = m
                                       /\ fetch[t].place = "tree")'
    BY DEF LoadingHasFetch
  <2>1. m # n /\ m \notin Below(n) /\ ref[m].loading
    BY <1>3, <1>4
  <2>2. PICK t \in Slot : InFlight(t) /\ fetch[t].node = m /\ fetch[t].place = "tree"
    BY <2>1 DEF TreeInv, LoadingHasFetch
  <2> QED
    BY <1>2, <2>1, <2>2
<1>7. PlaceholderIsReplaced'
  <2> SUFFICES ASSUME NEW m \in Node, ref'[m].marker = "loading"
               PROVE  \E t \in Slot : (InFlight(t) /\ ~fetch[t].append
                                       /\ fetch[t].node = m /\ fetch[t].place = "tree")'
    BY DEF PlaceholderIsReplaced
  <2>1. m # n /\ m \notin Below(n) /\ ref[m].marker = "loading"
    BY <1>3, <1>4
  <2>2. PICK t \in Slot : /\ InFlight(t) /\ ~fetch[t].append
                          /\ fetch[t].node = m /\ fetch[t].place = "tree"
    BY <2>1 DEF TreeInv, PlaceholderIsReplaced
  <2> QED
    BY <1>2, <2>1, <2>2
<1> QED
    BY <1>2, <1>5, <1>6, <1>7

(* A fetch for a row that is gone changes no row of the tree.              *)
LEMMA OverForNobody ==
    ASSUME TreeInv, NEW s \in Slot, InFlight(s), fetch[s].place # "tree",
           fetch' = [fetch EXCEPT ![s] = NoFetch], UNCHANGED <<connected, ref>>
    PROVE  TreeInv' /\ GivesBack(s)
<1>1. /\ fetch' \in [Slot -> Fetch] /\ GivesBack(s) /\ FetchesArePages'
      /\ \A t \in Slot \ {s} : (InFlight(t)' <=> InFlight(t)) /\ fetch'[t] = fetch[t]
    BY NothingDetached, SlotGivenBack
<1>2. TypeOKTree' /\ CookieContinuesListing'
    BY <1>1 DEF TreeInv, TypeOKTree, CookieContinuesListing
<1>3. LoadingHasFetch'
    BY <1>1 DEF TreeInv, LoadingHasFetch
<1>4. PlaceholderIsReplaced'
    BY <1>1 DEF TreeInv, PlaceholderIsReplaced
<1> QED
    BY <1>1, <1>2, <1>3, <1>4 DEF TreeInv

(* The end of a further page leaves a first page that is on its way alone. *)
LEMMA RowChanged ==
    ASSUME TreeInv, NEW s \in Slot, InFlight(s), fetch[s].append, NEW q \in Ref,
           ~q.loading,
           q.marker = "loading" => ref[fetch[s].node].marker = "loading",
           connected' \in BOOLEAN,
           ref' = [ref EXCEPT ![fetch[s].node] = q],
           fetch' = [fetch EXCEPT ![s] = NoFetch]
    PROVE  /\ TypeOKTree' /\ FetchesArePages' /\ GivesBack(s)
           /\ LoadingHasFetch' /\ PlaceholderIsReplaced'
<1>1. /\ fetch' \in [Slot -> Fetch] /\ GivesBack(s) /\ FetchesArePages'
      /\ \A t \in Slot \ {s} : (InFlight(t)' <=> InFlight(t)) /\ fetch'[t] = fetch[t]
    BY NothingDetached, SlotGivenBack
<1>2. TypeOKTree'
    BY <1>1 DEF TreeInv, TypeOKTree
<1>3. ref \in [Node -> Ref] /\ fetch[s].node \in Node
    BY DEF TreeInv, TypeOKTree, Fetch
<1>4. LoadingHasFetch'
    BY <1>1, <1>3 DEF TreeInv, LoadingHasFetch
<1>5. PlaceholderIsReplaced'
    BY <1>1, <1>3 DEF TreeInv, PlaceholderIsReplaced
<1> QED
    BY <1>1, <1>2, <1>4, <1>5

(* A page: the row is loaded, and whatever else is on its way to it is     *)
(* waited for no longer.                                                   *)
LEMMA LandPageIsWell ==
    ASSUME TreeInv, NEW s \in Slot, LandPage(s)
    PROVE  TreeInv' /\ GivesBack(s)
<1> DEFINE f == fetch[s]
           n == f.node
           q == SetChildren(ref[n], f)
<1>1. /\ InFlight(s) /\ f \in Fetch /\ f.page # NoPage /\ n \in Node /\ ref[n] \in Ref
      /\ f.append \in BOOLEAN /\ connected' = connected /\ connected \in BOOLEAN
    BY DEF LandPage, TreeInv, TypeOKTree, FetchesArePages, Fetch
<1>2. /\ q \in Ref /\ q.loaded /\ ~q.loading /\ q.marker # "loading" /\ q.rows # <<>>
      /\ q.cookie = IF Last(q.rows) < Pages[n] THEN Last(q.rows) + 1 ELSE NoPage
      /\ q.marker = "more" <=> q.cookie # NoPage
    BY <1>1, LoadedRow
<1> HIDE DEF q
<1>3. CASE f.place = "detached"
    BY <1>1, <1>3, OverForNobody DEF LandPage
<1>4. CASE f.place # "detached" /\ f.append
  <2>1. ref' = [ref EXCEPT ![n] = q] /\ fetch' = [fetch EXCEPT ![s] = NoFetch]
    BY <1>4 DEF LandPage, q
  <2>2. /\ TypeOKTree' /\ FetchesArePages' /\ GivesBack(s)
        /\ LoadingHasFetch' /\ PlaceholderIsReplaced'
    BY <1>1, <1>2, <1>4, <2>1, RowChanged
  <2>3. CookieContinuesListing'
    BY <1>1, <1>2, <2>1 DEF TreeInv, TypeOKTree, CookieContinuesListing
  <2> QED
    BY <2>2, <2>3 DEF TreeInv
<1>5. CASE f.place # "detached" /\ ~f.append
  <2>1. /\ ref' = Replaced(n, q)
        /\ fetch' = Detached([fetch EXCEPT ![s] = NoFetch], Below(n))
    BY <1>5 DEF LandPage, q
  <2>2. /\ TypeOKTree' /\ FetchesArePages' /\ GivesBack(s)
        /\ LoadingHasFetch' /\ PlaceholderIsReplaced'
    BY <1>1, <1>2, <2>1, RowReplaced
  <2>3. CookieContinuesListing'
    BY <1>1, <1>2, <2>1, NewRow DEF Replaced, TreeInv, TypeOKTree, CookieContinuesListing
  <2> QED
    BY <2>2, <2>3 DEF TreeInv
<1> QED
    BY <1>3, <1>4, <1>5

(* A failure: the row can be asked for again.                              *)
LEMMA LandFailureIsWell ==
    ASSUME TreeInv, NEW s \in Slot, LandFailure(s)
    PROVE  TreeInv' /\ GivesBack(s)
<1> DEFINE f == fetch[s]
           n == f.node
           q == FailLoad(ref[n], f)
<1>1. /\ InFlight(s) /\ f \in Fetch /\ f.page # NoPage /\ n \in Node /\ ref[n] \in Ref
      /\ f.append \in BOOLEAN /\ connected' = connected /\ connected \in BOOLEAN
    BY DEF LandFailure, TreeInv, TypeOKTree, FetchesArePages, Fetch
<1>2. CASE f.place = "detached"
    BY <1>1, <1>2, OverForNobody DEF LandFailure
<1>3. CASE f.place # "detached" /\ f.append
  <2>1. q = [ref[n] EXCEPT !.loading = FALSE]
    BY <1>3 DEF FailLoad
  <2>2. /\ q \in Ref /\ ~q.loading
        /\ q.loaded = ref[n].loaded /\ q.rows = ref[n].rows
        /\ q.cookie = ref[n].cookie /\ q.marker = ref[n].marker
    BY <1>1, <2>1 DEF Ref
  <2> HIDE DEF q
  <2>3. ref' = [ref EXCEPT ![n] = q] /\ fetch' = [fetch EXCEPT ![s] = NoFetch]
    BY <1>3 DEF LandFailure, q
  <2>4. /\ TypeOKTree' /\ FetchesArePages' /\ GivesBack(s)
        /\ LoadingHasFetch' /\ PlaceholderIsReplaced'
    BY <1>1, <1>3, <2>2, <2>3, RowChanged
  <2>5. CookieContinuesListing'
    BY <1>1, <2>2, <2>3 DEF TreeInv, TypeOKTree, CookieContinuesListing
  <2> QED
    BY <2>4, <2>5 DEF TreeInv
<1>4. CASE f.place # "detached" /\ ~f.append
  <2>1. q = [ref[n] EXCEPT !.loading = FALSE, !.loaded = FALSE, !.rows = <<>>,
                           !.marker = "none"]
    BY <1>4 DEF FailLoad
  <2>2. <<>> \in Seq(PageNo) /\ "none" \in Marker
    BY DEF Marker
  <2>3. q \in Ref /\ ~q.loading /\ ~q.loaded /\ q.marker # "loading"
    BY <1>1, <2>1, <2>2 DEF Ref
  <2> HIDE DEF q
  <2>4. /\ ref' = Replaced(n, q)
        /\ fetch' = Detached([fetch EXCEPT ![s] = NoFetch], Below(n))
    BY <1>4 DEF LandFailure, q
  <2>5. /\ TypeOKTree' /\ FetchesArePages' /\ GivesBack(s)
        /\ LoadingHasFetch' /\ PlaceholderIsReplaced'
    BY <1>1, <2>3, <2>4, RowReplaced
  <2>6. CookieContinuesListing'
    BY <1>1, <2>3, <2>4, NewRow DEF Replaced, TreeInv, TypeOKTree, CookieContinuesListing
  <2> QED
    BY <2>5, <2>6 DEF TreeInv
<1> QED
    BY <1>2, <1>3, <1>4

LEMMA LandStaleIsWell ==
    ASSUME TreeInv, NEW s \in Slot, LandStale(s)
    PROVE  TreeInv' /\ GivesBack(s)
BY OverForNobody DEF LandStale

(* The keys of the tree.                                                   *)
LEMMA TreeKeyIsWell ==
    ASSUME TreeInv, NEW s \in Slot, TreeKey(s)
    PROVE  TreeInv' /\ Takes(s)
<1>1. ref \in [Node -> Ref] /\ connected \in BOOLEAN
    BY DEF TreeInv, TypeOKTree
<1>2. ASSUME NEW n \in Node, Expand(s, n) PROVE TreeInv' /\ Takes(s)
    BY <1>1, <1>2, FetchFirstIsWell DEF Expand
<1>3. ASSUME NEW n \in Node, Reload(s, n) PROVE TreeInv' /\ Takes(s)
  <2>1. [ref[n] EXCEPT !.loaded = FALSE] \in Ref /\ ~[ref[n] EXCEPT !.loaded = FALSE].loaded
    BY <1>1 DEF Ref
  <2> QED
    BY <1>1, <1>3, <2>1, FetchFirstIsWell DEF Reload
<1>4. ASSUME NEW n \in Node, LoadMore(s, n) PROVE TreeInv' /\ Takes(s)
    BY <1>1, <1>4, FetchNextIsWell DEF LoadMore
<1>5. CASE Adopt(s) \/ ToggleAllContexts(s)
    BY <1>5, NewRowsAreWell DEF Adopt, ToggleAllContexts
<1> QED
    BY <1>2, <1>3, <1>4, <1>5 DEF TreeKey

LEMMA InitTreeWell == InitTree => TreeInv /\ \A s \in Slot : ~InFlight(s)
<1> SUFFICES ASSUME InitTree PROVE TreeInv /\ \A s \in Slot : ~InFlight(s)
    OBVIOUS
<1>1. NoFetch \in Fetch /\ NoFetch.place = "none"
    BY ListingAssumption DEF NoFetch, Fetch, NoPage, Place
<1>2. TypeOKTree /\ \A s \in Slot : ~InFlight(s)
    BY <1>1, NewRow DEF InitTree, TypeOKTree, InFlight
<1>3. FetchesArePages
    BY <1>2 DEF FetchesArePages
<1>4. LoadingHasFetch /\ PlaceholderIsReplaced /\ CookieContinuesListing
    BY NewRow DEF InitTree, LoadingHasFetch, PlaceholderIsReplaced, CookieContinuesListing
<1> QED
    BY <1>2, <1>3, <1>4 DEF TreeInv

LEMMA NoTreeStep == TreeInv /\ UNCHANGED treeVars => TreeInv'
BY DEF treeVars, TreeInv, TypeOKTree, FetchesArePages, LoadingHasFetch,
   PlaceholderIsReplaced, CookieContinuesListing, InFlight

(* The tree by itself, without walks.                                      *)
THEOREM TreeInvariant == SpecTree => []TreeInv
<1>1. InitTree => TreeInv
    BY InitTreeWell
<1>2. TreeInv /\ [NextTree]_treeVars => TreeInv'
    BY TreeKeyIsWell, LandPageIsWell, LandFailureIsWell, LandStaleIsWell,
       DisconnectIsWell, NoTreeStep DEF NextTree, Land
<1> QED
    BY <1>1, <1>2, PTL DEF SpecTree

-----------------------------------------------------------------------------
(* Where a walk is: every row on its way is one the tree may have.         *)
LEMMA PathIsInTheTree ==
    ASSUME IInvWalk, NEW w \in Walker, ~Idle(w)
    PROVE  /\ walk[w].target \in Node
           /\ walk[w].index \in 1 .. Len(walk[w].target)
           /\ walk[w].index \in Nat /\ Len(walk[w].target) \in Nat
           /\ Step(w) \in Node
           /\ walk[w].index > 1 => Above(w) \in Node
           /\ AtEnd(w) => Step(w) = walk[w].target
<1> DEFINE dn == walk[w].target
           i  == walk[w].index
<1>1. dn \in Node /\ i \in 1 .. Len(dn)
    BY DEF IInvWalk, WalksKeepToTheirPath
<1>2. dn \in Seq(ToSet(dn)) /\ Len(dn) \in Nat
    BY <1>1, WalkAssumption
<1>3. i \in Nat /\ \A k \in 1 .. Len(dn) : SubSeq(dn, 1, k) \in Node
    BY <1>1, <1>2, WalkAssumption
<1>4. Step(w) = SubSeq(dn, 1, i) /\ Above(w) = SubSeq(dn, 1, i - 1)
    BY DEF Step, Above
<1>5. i > 1 => i - 1 \in 1 .. Len(dn)
    BY <1>1, <1>2
<1>6. i = Len(dn) => SubSeq(dn, 1, i) = dn
  <2>1. SubSeq(dn, 1, Len(dn)) = dn
    BY <1>2
  <2> QED
    BY <2>1
<1> QED
    BY <1>1, <1>2, <1>3, <1>4, <1>5, <1>6 DEF AtEnd

LEMMA RunningIsUnderWay ==
    ASSUME IInvWalk, NEW w \in Walker, running = w
    PROVE  ~Idle(w) /\ Waits(w) = {} /\ running # Nobody
BY WalkAssumption DEF IInvWalk, RunsWhatIsUnderWay, WaitsInOne

LEMMA NoWalkIsTyped ==
    NoWalk \in [target : Node \cup {Nowhere}, index : Nat, pages : Nat]
BY DEF NoWalk

LEMMA GoingOnIsNotIdle ==
    ASSUME NEW r, r.target \in Node
    PROVE  r # NoWalk
BY WalkAssumption DEF NoWalk

-----------------------------------------------------------------------------
(* A walk that ends on the UI thread: nobody waits for it.                 *)
LEMMA OverIsWell ==
    ASSUME IInvWalk, NEW w \in Walker, running = w, NEW of \in Verdict, NEW dn \in Node,
           Over(w, of, dn), cursor' \in Node \cup {Nowhere}
    PROVE  IInvWalk'
<1>1. /\ walk' = [walk EXCEPT ![w] = NoWalk] /\ running' = Nobody /\ Waits(w) = {}
      /\ verdict' = [of |-> of, dn |-> dn]
      /\ connected' = connected /\ ref' = ref /\ fetch' = fetch /\ then' = then
    BY RunningIsUnderWay DEF Over
<1>2. TreeInv'
    BY <1>1, NoTreeStep DEF IInvWalk, treeVars
<1>3. TypeOKWalk'
    BY <1>1, <1>2, NoWalkIsTyped DEF IInvWalk, TypeOKWalk, TreeInv
<1>4. /\ Idle(w)'
      /\ \A v \in Walker \ {w} : walk'[v] = walk[v] /\ running # v
    BY <1>1 DEF IInvWalk, TypeOKWalk, Idle
<1>5. WalksKeepToTheirPath' /\ RunsWhatIsUnderWay' /\ SlotsAreWaitedIn'
    BY <1>1, <1>4 DEF IInvWalk, WalksKeepToTheirPath, RunsWhatIsUnderWay,
       SlotsAreWaitedIn, Idle, InFlight
<1>6. WaitsInOne'
    BY <1>1, <1>4, WalkAssumption DEF IInvWalk, WaitsInOne, Waits, Idle
<1> QED
    BY <1>2, <1>3, <1>5, <1>6 DEF IInvWalk

(* A walk that hands itself to the fetch it has started.                   *)
LEMMA AwaitIsWell ==
    ASSUME IInvWalk, TreeInv', NEW w \in Walker, running = w, NEW s \in Slot, Takes(s),
           NEW r \in [target : Node, index : Nat, pages : Nat],
           r.index \in 1 .. Len(r.target), Await(w, s, r)
    PROVE  IInvWalk'
<1>1. /\ walk' = [walk EXCEPT ![w] = r] /\ then' = [then EXCEPT ![s] = w]
      /\ running' = Nobody /\ cursor' = cursor /\ verdict' = verdict
    BY DEF Await
<1>2. /\ walk \in [Walker -> [target : Node \cup {Nowhere}, index : Nat, pages : Nat]]
      /\ then \in [Slot -> Walker \cup {Nobody}]
    BY DEF IInvWalk, TypeOKWalk
<1>3. Waits(w) = {} /\ then[s] = Nobody
    BY <1>2, RunningIsUnderWay DEF IInvWalk, SlotsAreWaitedIn, Takes
<1>4. walk'[w] = r /\ ~Idle(w)' /\ \A v \in Walker \ {w} : walk'[v] = walk[v]
    BY <1>1, <1>2, GoingOnIsNotIdle DEF Idle
<1>5. TypeOKWalk'
    BY <1>1, <1>2 DEF IInvWalk, TypeOKWalk, TreeInv
<1>6. WalksKeepToTheirPath' /\ RunsWhatIsUnderWay'
    BY <1>1, <1>4 DEF IInvWalk, WalksKeepToTheirPath, RunsWhatIsUnderWay, Idle
<1>7. SlotsAreWaitedIn'
    BY <1>1, <1>2 DEF IInvWalk, SlotsAreWaitedIn, Takes
<1>8. WaitsInOne'
  <2>1. /\ Waits(w)' = {s}
        /\ \A v \in Walker \ {w} : Waits(v)' = Waits(v)
    BY <1>1, <1>2, <1>3, WalkAssumption DEF Waits
  <2> QED
    BY <1>1, <1>4, <2>1, WalkAssumption DEF IInvWalk, WaitsInOne, Idle
<1> QED
    BY <1>5, <1>6, <1>7, <1>8 DEF IInvWalk

(* Keys that are not told of walks.                                        *)
LEMMA TreeAloneIsWell ==
    ASSUME IInvWalk, TreeInv', cursor' \in Node \cup {Nowhere},
           UNCHANGED <<walk, then, running, verdict>>,
           \A t \in Slot : InFlight(t) => InFlight(t)'
    PROVE  IInvWalk'
<1>1. TypeOKWalk' /\ WalksKeepToTheirPath' /\ RunsWhatIsUnderWay' /\ SlotsAreWaitedIn'
    BY DEF IInvWalk, TypeOKWalk, TreeInv, WalksKeepToTheirPath, RunsWhatIsUnderWay,
       SlotsAreWaitedIn, Idle
<1>2. WaitsInOne'
    BY DEF IInvWalk, WaitsInOne, Waits, Idle
<1> QED
    BY <1>1, <1>2 DEF IInvWalk

-----------------------------------------------------------------------------
(* One step per step of walkTo.                                            *)
LEMMA WalkStepIsWell ==
    ASSUME IInvWalk, NEW w \in Walker, WalkTo(w)
    PROVE  IInvWalk'
<1> DEFINE dn == walk[w].target
           i  == walk[w].index
<1>1. running = w /\ ~Idle(w) /\ running # Nobody
    BY RunningIsUnderWay
       DEF WalkTo, Reach, StepDown, Miss, Open, PageTowards
<1>2. /\ dn \in Node /\ i \in 1 .. Len(dn) /\ i \in Nat /\ Len(dn) \in Nat
      /\ Step(w) \in Node
      /\ i > 1 => Above(w) \in Node
    BY <1>1, PathIsInTheTree
<1>3. /\ walk \in [Walker -> [target : Node \cup {Nowhere}, index : Nat, pages : Nat]]
      /\ cursor \in Node \cup {Nowhere} /\ TreeInv
      /\ ref \in [Node -> Ref] /\ connected \in BOOLEAN
    BY DEF IInvWalk, TypeOKWalk, TypeOKTree
<1>4. ASSUME Reach(w) PROVE IInvWalk'
    BY <1>1, <1>2, <1>4, OverIsWell DEF Reach, Verdict
<1>5. ASSUME Miss(w) PROVE IInvWalk'
    BY <1>1, <1>2, <1>3, <1>5, OverIsWell DEF Miss, Verdict
<1>6. ASSUME StepDown(w) PROVE IInvWalk'
  <2>1. i # Len(dn) /\ i + 1 \in 1 .. Len(dn) /\ i + 1 \in Nat
    BY <1>2, <1>6 DEF StepDown, AtEnd
  <2>2. walk' = [walk EXCEPT ![w] = [walk[w] EXCEPT !.index = i + 1, !.pages = 0]]
    BY <1>6 DEF StepDown
  <2>3. /\ walk' \in [Walker -> [target : Node \cup {Nowhere}, index : Nat, pages : Nat]]
        /\ walk'[w].target = dn /\ walk'[w].index = i + 1
        /\ \A v \in Walker \ {w} : walk'[v] = walk[v]
    BY <1>3, <2>1, <2>2
  <2>4. \A v \in Walker : Idle(v)' <=> Idle(v)
    BY <1>1, <1>2, <2>3, GoingOnIsNotIdle DEF Idle
  <2>5. TreeInv' /\ UNCHANGED <<connected, ref, fetch, then, running, cursor, verdict>>
    BY <1>3, <1>6, NoTreeStep DEF StepDown, treeVars
  <2>6. TypeOKWalk'
    BY <2>3, <2>5 DEF IInvWalk, TypeOKWalk, TreeInv
  <2>7. WalksKeepToTheirPath'
    BY <1>2, <2>1, <2>3, <2>4 DEF IInvWalk, WalksKeepToTheirPath
  <2>8. RunsWhatIsUnderWay' /\ SlotsAreWaitedIn'
    BY <1>1, <2>4, <2>5 DEF IInvWalk, RunsWhatIsUnderWay, SlotsAreWaitedIn, InFlight
  <2>9. WaitsInOne'
    BY <2>4, <2>5 DEF IInvWalk, WaitsInOne, Waits
  <2> QED
    BY <2>5, <2>6, <2>7, <2>8, <2>9 DEF IInvWalk
<1>7. ASSUME NEW s \in Slot, Open(w, s) PROVE IInvWalk'
  <2> DEFINE r == [walk[w] EXCEPT !.index = i + 1, !.pages = 0]
  <2>1. i # Len(dn) /\ i + 1 \in 1 .. Len(dn) /\ i + 1 \in Nat
    BY <1>2, <1>7 DEF Open, AtEnd
  <2>2. r \in [target : Node, index : Nat, pages : Nat]
        /\ r.target = dn /\ r.index = i + 1
    BY <1>2, <1>3, <2>1
  <2>3. TreeInv' /\ Takes(s)
    BY <1>2, <1>3, <1>7, FetchFirstIsWell DEF Open, Await
  <2>4. Await(w, s, r)
    BY <1>7 DEF Open
  <2> HIDE DEF r
  <2> QED
    BY <1>1, <2>1, <2>2, <2>3, <2>4, AwaitIsWell
<1>8. ASSUME NEW s \in Slot, PageTowards(w, s) PROVE IInvWalk'
  <2> DEFINE r == [walk[w] EXCEPT !.pages = @ + 1]
  <2>1. i > 1 /\ ref[Above(w)].cookie # NoPage /\ FetchNext(s, Above(w))
        /\ Await(w, s, r)
    BY <1>8 DEF PageTowards, MorePages
  <2>2. r \in [target : Node, index : Nat, pages : Nat]
        /\ r.target = dn /\ r.index = i
    BY <1>2, <1>3
  <2> HIDE DEF r
  <2>3. TreeInv' /\ Takes(s)
    BY <1>2, <1>3, <2>1, FetchNextIsWell DEF Await
  <2> QED
    BY <1>1, <1>2, <2>1, <2>2, <2>3, AwaitIsWell
<1> QED
    BY <1>4, <1>5, <1>6, <1>7, <1>8 DEF WalkTo

(* The operator and the network.                                           *)
LEMMA NavigateIsWell ==
    ASSUME IInvWalk, NEW w \in Walker, NEW n \in Node, Navigate(w, n)
    PROVE  IInvWalk'
<1> DEFINE r == [target |-> n, index |-> 1, pages |-> 0]
<1>1. /\ walk' = [walk EXCEPT ![w] = r] /\ running' = w /\ running = Nobody /\ Idle(w)
      /\ UNCHANGED <<connected, ref, fetch, then, cursor, verdict>>
    BY DEF Navigate
<1>2. r \in [target : Node, index : Nat, pages : Nat] /\ 1 \in 1 .. Len(n)
  <2>1. n \in Seq(ToSet(n)) /\ n # <<>>
    BY WalkAssumption
  <2>2. Len(n) \in Nat /\ Len(n) # 0
    BY <2>1
  <2> QED
    BY <2>2
<1>3. /\ walk \in [Walker -> [target : Node \cup {Nowhere}, index : Nat, pages : Nat]]
      /\ TreeInv
    BY DEF IInvWalk, TypeOKWalk
<1>4. /\ walk'[w] = r /\ ~Idle(w)'
      /\ \A v \in Walker \ {w} : walk'[v] = walk[v] /\ (Idle(v)' <=> Idle(v))
    BY <1>1, <1>2, <1>3, GoingOnIsNotIdle DEF Idle
<1>5. TreeInv'
    BY <1>1, <1>3, NoTreeStep DEF treeVars
<1>6. TypeOKWalk'
    BY <1>1, <1>2, <1>3, <1>5 DEF IInvWalk, TypeOKWalk, TreeInv
<1>7. WalksKeepToTheirPath'
    BY <1>2, <1>4 DEF IInvWalk, WalksKeepToTheirPath
<1>8. RunsWhatIsUnderWay' /\ SlotsAreWaitedIn'
    BY <1>1, <1>4 DEF IInvWalk, RunsWhatIsUnderWay, SlotsAreWaitedIn, InFlight
<1>9. WaitsInOne'
    BY <1>1, <1>4, WalkAssumption DEF IInvWalk, WaitsInOne, Waits
<1> QED
    BY <1>5, <1>6, <1>7, <1>8, <1>9 DEF IInvWalk

(* A page takes its walk from the slot to the UI thread.                   *)
LEMMA LandedIsWell ==
    ASSUME IInvWalk, NEW s \in Slot, Landed(s)
    PROVE  IInvWalk'
<1>1. /\ TreeInv' /\ GivesBack(s) /\ running = Nobody /\ running' = then[s]
      /\ then' = [then EXCEPT ![s] = Nobody]
      /\ UNCHANGED <<walk, cursor, verdict>>
    BY LandPageIsWell DEF Landed, IInvWalk
<1>2. then \in [Slot -> Walker \cup {Nobody}]
    BY DEF IInvWalk, TypeOKWalk
<1>3. TypeOKWalk'
    BY <1>1, <1>2 DEF IInvWalk, TypeOKWalk, TreeInv
<1>4. \A w \in Walker : Idle(w)' <=> Idle(w)
    BY <1>1 DEF Idle
<1>5. WalksKeepToTheirPath' /\ SlotsAreWaitedIn'
    BY <1>1, <1>2, <1>4 DEF IInvWalk, WalksKeepToTheirPath, SlotsAreWaitedIn, GivesBack
<1>6. \A w \in Walker : then[s] = w => ~Idle(w) /\ Waits(w) = {s}
    BY DEF IInvWalk, WaitsInOne, Waits
<1>7. RunsWhatIsUnderWay'
    BY <1>1, <1>2, <1>4, <1>6 DEF RunsWhatIsUnderWay
<1>8. WaitsInOne'
  <2> SUFFICES ASSUME NEW w \in Walker
               PROVE  IF Idle(w)' \/ running' = w THEN Waits(w)' = {}
                      ELSE \E t \in Slot : Waits(w)' = {t}
    BY DEF WaitsInOne
  <2>1. CASE then[s] = w
    BY <1>1, <1>2, <1>6, <2>1, WalkAssumption DEF Waits
  <2>2. CASE then[s] # w
    <3>1. Waits(w)' = Waits(w)
        BY <1>1, <1>2, <2>2, WalkAssumption DEF Waits
    <3> QED
        BY <1>1, <1>4, <2>2, <3>1, WalkAssumption DEF IInvWalk, WaitsInOne
  <2> QED
    BY <2>1, <2>2
<1> QED
    BY <1>1, <1>3, <1>5, <1>7, <1>8 DEF IInvWalk

(* A failure takes its walk along.                                         *)
LEMMA DroppedIsWell ==
    ASSUME IInvWalk, NEW s \in Slot, Dropped(s)
    PROVE  IInvWalk'
<1>1. /\ TreeInv' /\ GivesBack(s) /\ running = Nobody /\ running' = Nobody
      /\ walk' = [w \in Walker |-> IF w = then[s] THEN NoWalk ELSE walk[w]]
      /\ then' = [then EXCEPT ![s] = Nobody]
      /\ UNCHANGED <<cursor, verdict>>
    BY LandFailureIsWell, LandStaleIsWell DEF Dropped, IInvWalk
<1>2. /\ then \in [Slot -> Walker \cup {Nobody}]
      /\ walk \in [Walker -> [target : Node \cup {Nowhere}, index : Nat, pages : Nat]]
    BY DEF IInvWalk, TypeOKWalk
<1>3. TypeOKWalk'
    BY <1>1, <1>2, NoWalkIsTyped DEF IInvWalk, TypeOKWalk, TreeInv
<1>4. \A w \in Walker : IF w = then[s] THEN Idle(w)'
                        ELSE walk'[w] = walk[w] /\ (Idle(w)' <=> Idle(w))
    BY <1>1 DEF Idle
<1>5. WalksKeepToTheirPath' /\ SlotsAreWaitedIn' /\ RunsWhatIsUnderWay'
    BY <1>1, <1>2, <1>4 DEF IInvWalk, WalksKeepToTheirPath, SlotsAreWaitedIn,
       RunsWhatIsUnderWay, GivesBack
<1>6. \A w \in Walker : then[s] = w => ~Idle(w) /\ Waits(w) = {s}
    BY DEF IInvWalk, WaitsInOne, Waits
<1>7. WaitsInOne'
  <2> SUFFICES ASSUME NEW w \in Walker
               PROVE  IF Idle(w)' \/ running' = w THEN Waits(w)' = {}
                      ELSE \E t \in Slot : Waits(w)' = {t}
    BY DEF WaitsInOne
  <2>1. CASE then[s] = w
    <3>1. Waits(w)' = {}
        BY <1>1, <1>2, <1>6, <2>1, WalkAssumption DEF Waits
    <3> QED
        BY <1>4, <2>1, <3>1
  <2>2. CASE then[s] # w
    <3>1. Waits(w)' = Waits(w)
        BY <1>1, <1>2, <2>2, WalkAssumption DEF Waits
    <3> QED
        BY <1>1, <1>4, <2>2, <3>1, WalkAssumption DEF IInvWalk, WaitsInOne
  <2> QED
    BY <2>1, <2>2
<1> QED
    BY <1>1, <1>3, <1>5, <1>7 DEF IInvWalk

LEMMA InitWalkWell == InitWalk => IInvWalk
<1> SUFFICES ASSUME InitWalk PROVE IInvWalk
    OBVIOUS
<1>1. TreeInv
    BY InitTreeWell DEF InitWalk
<1>2. TypeOKWalk
    BY <1>1, NoWalkIsTyped DEF InitWalk, TypeOKWalk, TreeInv, Verdict
<1>3. \A w \in Walker : Idle(w) /\ Waits(w) = {}
    BY WalkAssumption DEF InitWalk, Idle, Waits
<1>4. WalksKeepToTheirPath /\ RunsWhatIsUnderWay /\ SlotsAreWaitedIn /\ WaitsInOne
    BY <1>3 DEF InitWalk, WalksKeepToTheirPath, RunsWhatIsUnderWay, SlotsAreWaitedIn,
       WaitsInOne
<1> QED
    BY <1>1, <1>2, <1>4 DEF IInvWalk

LEMMA StepWalk == IInvWalk /\ [NextWalk]_walkVars => IInvWalk'
<1> SUFFICES ASSUME IInvWalk, [NextWalk]_walkVars PROVE IInvWalk'
    OBVIOUS
<1>1. TreeInv /\ cursor \in Node \cup {Nowhere} /\ Home \in Node
    BY ListingAssumption DEF IInvWalk, TypeOKWalk
<1>2. ASSUME UNCHANGED <<connected, ref, fetch>> PROVE TreeInv' /\ UNCHANGED fetch
    BY <1>1, <1>2, NoTreeStep DEF treeVars
<1>3. CASE WalkStep
    BY <1>3, WalkStepIsWell DEF WalkStep
<1>4. ASSUME NEW w \in Walker, NEW n \in Node, Navigate(w, n) PROVE IInvWalk'
    BY <1>4, NavigateIsWell
<1>5. ASSUME NEW n \in Node, MoveCursor(n) PROVE IInvWalk'
    BY <1>2, <1>5, TreeAloneIsWell DEF MoveCursor, InFlight
<1>6. ASSUME NEW s \in Slot, TreeKeys(s) PROVE IInvWalk'
  <2>1. TreeKey(s) /\ UNCHANGED <<walk, then, running, cursor, verdict>>
    BY <1>6 DEF TreeKeys, TreeKey
  <2> QED
    BY <1>1, <2>1, TreeKeyIsWell, TreeAloneIsWell DEF Takes
<1>7. ASSUME NEW s \in Slot, NewTree(s) PROVE IInvWalk'
  <2>1. TreeKey(s) /\ cursor' = Home /\ UNCHANGED <<walk, then, running, verdict>>
    BY <1>7 DEF NewTree, TreeKey
  <2> QED
    BY <1>1, <2>1, TreeKeyIsWell, TreeAloneIsWell DEF Takes
<1>8. ASSUME NEW s \in Slot, Landed(s) PROVE IInvWalk'
    BY <1>8, LandedIsWell
<1>9. ASSUME NEW s \in Slot, Dropped(s) PROVE IInvWalk'
    BY <1>9, DroppedIsWell
<1>10. CASE HangUp
    BY <1>1, <1>10, DisconnectIsWell, TreeAloneIsWell DEF HangUp
<1>11. CASE UNCHANGED walkVars
    BY <1>1, <1>2, <1>11, TreeAloneIsWell DEF walkVars, InFlight
<1> QED
    BY <1>3, <1>4, <1>5, <1>6, <1>7, <1>8, <1>9, <1>10, <1>11 DEF NextWalk

THEOREM WalkInvariant == SpecWalk => []IInvWalk
BY InitWalkWell, StepWalk, PTL DEF SpecWalk

-----------------------------------------------------------------------------
(* No row of the tree waits for a fetch that nobody has made, whatever     *)
(* walks, reloads and disconnects do around it (guard of toggle and        *)
(* loadMoreChildren).                                                      *)
THEOREM NoRowIsStuck == SpecWalk => []RowsAreAttended
<1>1. IInvWalk => RowsAreAttended
    BY DEF IInvWalk, TreeInv, RowsAreAttended
<1> QED
    BY <1>1, WalkInvariant, PTL

(* The cookie of a loaded container and its "more" row continue the        *)
(* children above them (setChildren).                                      *)
THEOREM ListingsContinue == SpecWalk => []CookieContinuesListing
<1>1. IInvWalk => CookieContinuesListing
    BY DEF IInvWalk, TreeInv
<1> QED
    BY <1>1, WalkInvariant, PTL

(* Every walk under way is on the UI thread or will be resumed by exactly  *)
(* one landing, and no landing resumes one that is over (fetchChildren's   *)
(* continuation).                                                          *)
THEOREM WalksResumeOnce == SpecWalk => []WalksAreAttended
<1>1. ASSUME IInvWalk PROVE OneResumptionEach
  <2> SUFFICES ASSUME NEW w \in Walker
               PROVE  Cardinality({s \in Slot : then[s] = w /\ InFlight(s)})
                        = IF Idle(w) \/ running = w THEN 0 ELSE 1
    BY DEF OneResumptionEach
  <2>1. {s \in Slot : then[s] = w /\ InFlight(s)} = Waits(w)
    BY <1>1, WalkAssumption DEF IInvWalk, SlotsAreWaitedIn, Waits
  <2>2. CASE Idle(w) \/ running = w
    BY <1>1, <2>1, <2>2, FS_EmptySet DEF IInvWalk, WaitsInOne
  <2>3. CASE ~(Idle(w) \/ running = w)
    BY <1>1, <2>1, <2>3, FS_Singleton DEF IInvWalk, WaitsInOne
  <2> QED
    BY <2>2, <2>3
<1>2. IInvWalk => WalksAreAttended
    BY <1>1 DEF WalksAreAttended, IInvWalk
<1> QED
    BY <1>2, WalkInvariant, PTL

-----------------------------------------------------------------------------
(* Walk implements Jump, as far as safety goes.                            *)
LEMMA InitIsAJump == InitWalk => J!InitJump
BY DEF InitWalk, NoWalk, J!InitJump

(* Where the jumps are going, when one of them changes.                    *)
LEMMA GoalChanges ==
    ASSUME IInvWalk, NEW w \in Walker,
           NEW r, walk' = [walk EXCEPT ![w] = r]
    PROVE  [v \in Walker |-> walk[v].target]'
             = [[v \in Walker |-> walk[v].target] EXCEPT ![w] = r.target]
BY DEF IInvWalk, TypeOKWalk

LEMMA WalkToIsAJump ==
    ASSUME IInvWalk, NEW w \in Walker, WalkTo(w)
    PROVE  [J!NextJump]_(J!jumpVars)
<1> DEFINE goal == [v \in Walker |-> walk[v].target]
<1>1. running = w /\ ~Idle(w)
    BY RunningIsUnderWay DEF WalkTo, Reach, StepDown, Miss, Open, PageTowards
<1>2. /\ walk[w].target \in Node /\ goal[w] = walk[w].target /\ goal[w] # Nowhere
      /\ AtEnd(w) => Step(w) = walk[w].target
    BY <1>1, PathIsInTheTree, WalkAssumption
<1>3. NoWalk.target = Nowhere
    BY DEF NoWalk
<1>4. walk \in [Walker -> [target : Node \cup {Nowhere}, index : Nat, pages : Nat]]
    BY DEF IInvWalk, TypeOKWalk
<1>5. ASSUME Reach(w) PROVE J!Arrive(w)
    BY <1>2, <1>3, <1>5, GoalChanges DEF Reach, Over, J!Arrive
<1>6. ASSUME Miss(w) PROVE J!GiveUp(w)
    BY <1>2, <1>3, <1>6, GoalChanges DEF Miss, Over, J!GiveUp
<1>7. ASSUME StepDown(w) PROVE UNCHANGED J!jumpVars
    BY <1>4, <1>7 DEF StepDown, J!jumpVars
<1>8. ASSUME NEW s \in Slot, Open(w, s) \/ PageTowards(w, s) PROVE UNCHANGED J!jumpVars
  <2>1. PICK r : walk' = [walk EXCEPT ![w] = r] /\ r.target = walk[w].target
                 /\ cursor' = cursor
    BY <1>4, <1>8 DEF Open, PageTowards, Await
  <2> QED
    BY <1>4, <2>1 DEF J!jumpVars
<1> QED
    BY <1>5, <1>6, <1>7, <1>8 DEF WalkTo, J!NextJump

LEMMA DroppedIsAJump ==
    ASSUME IInvWalk, NEW s \in Slot, Dropped(s)
    PROVE  [J!NextJump]_(J!jumpVars)
<1>1. /\ walk' = [w \in Walker |-> IF w = then[s] THEN NoWalk ELSE walk[w]]
      /\ cursor' = cursor
    BY DEF Dropped
<1>2. then[s] \in Walker \cup {Nobody} /\ NoWalk.target = Nowhere
    BY DEF IInvWalk, TypeOKWalk, NoWalk
<1>3. CASE then[s] = Nobody
    BY <1>1, <1>3, WalkAssumption DEF J!jumpVars
<1>4. CASE then[s] \in Walker
  <2>1. PICK w \in Walker : w = then[s]
    BY <1>4
  <2>2. ~Idle(w)
    BY <2>1 DEF IInvWalk, WaitsInOne, Waits
  <2>3. walk[w].target # Nowhere
    BY <2>2, WalkAssumption DEF IInvWalk, WalksKeepToTheirPath
  <2>4. walk' = [walk EXCEPT ![w] = NoWalk]
    BY <1>1, <2>1 DEF IInvWalk, TypeOKWalk
  <2>5. J!GiveUp(w)
    BY <1>1, <1>2, <2>3, <2>4, GoalChanges DEF J!GiveUp
  <2>6. J!NextJump
    BY <2>5 DEF J!NextJump
  <2> QED
    BY <2>6
<1> QED
    BY <1>2, <1>3, <1>4

LEMMA StepIsAJump == IInvWalk /\ [NextWalk]_walkVars => [J!NextJump]_(J!jumpVars)
<1> SUFFICES ASSUME IInvWalk, [NextWalk]_walkVars PROVE [J!NextJump]_(J!jumpVars)
    OBVIOUS
<1>1. ASSUME NEW dn \in Node \cup {Nowhere}, cursor' = dn, UNCHANGED walk
      PROVE  J!NextJump
    BY <1>1 DEF J!NextJump, J!Move
<1>2. CASE WalkStep
    BY <1>2, WalkToIsAJump DEF WalkStep
<1>3. ASSUME NEW w \in Walker, NEW n \in Node, Navigate(w, n) PROVE J!NextJump
  <2>1. walk[w].target = Nowhere /\ cursor' = cursor
    BY <1>3 DEF Navigate, Idle, NoWalk
  <2>2. walk' = [walk EXCEPT ![w] = [target |-> n, index |-> 1, pages |-> 0]]
    BY <1>3 DEF Navigate
  <2>3. [v \in Walker |-> walk[v].target]'
          = [[v \in Walker |-> walk[v].target] EXCEPT ![w] = n]
    BY <2>2 DEF IInvWalk, TypeOKWalk
  <2>4. J!Go(w, n)
    BY <2>1, <2>3 DEF J!Go
  <2> QED
    BY <1>3, <2>4 DEF J!NextJump
<1>4. ASSUME NEW n \in Node, MoveCursor(n) PROVE J!NextJump
    BY <1>1, <1>4 DEF MoveCursor
<1>5. ASSUME NEW s \in Slot, TreeKeys(s) \/ Landed(s) PROVE UNCHANGED J!jumpVars
    BY <1>5 DEF TreeKeys, Landed, J!jumpVars
<1>6. ASSUME NEW s \in Slot, NewTree(s) PROVE J!NextJump
    BY <1>1, <1>6, ListingAssumption DEF NewTree
<1>7. ASSUME NEW s \in Slot, Dropped(s) PROVE [J!NextJump]_(J!jumpVars)
    BY <1>7, DroppedIsAJump
<1>8. CASE HangUp
    BY <1>1, <1>8 DEF HangUp
<1>9. CASE UNCHANGED walkVars
    BY <1>9 DEF walkVars, J!jumpVars
<1> QED
    BY <1>2, <1>3, <1>4, <1>5, <1>6, <1>7, <1>8, <1>9 DEF NextWalk

(* A walk puts the cursor on the entry it was asked for or does not touch  *)
(* it (walkTo, pageTowards, jumpMissed). That it does end stays with TLC.  *)
THEOREM WalkIsAJump == SpecWalk => J!SafeJump
<1> QED
    BY InitIsAJump, StepIsAJump, WalkInvariant, PTL DEF SpecWalk, J!SafeJump
=============================================================================
