------------------------------- MODULE Browse -------------------------------
(***************************************************************************)
(* The tree that browsing builds, name by name: the contexts of the root   *)
(* DSE (app.go: loadBases, toggleShowAllContexts), the children of a row   *)
(* (Client.Children on the server's answer) and the row a jump looks for   *)
(* at each of its steps (navigateTo, walkTo, tree.find). Listings come     *)
(* whole and at once: paging and failures are ChildListing's and Walk's.   *)
(***************************************************************************)
EXTENDS Names

CONSTANTS Servers,   \* records: root (see Bases); overrides, the base DNs a
                     \* profile may set; entries, as listed and as spelled;
                     \* containers, the folded DNs of entries that are; and
                     \* wholeSubtree, a one-level search is answered with all
          Goals      \* DNs an operator may ask for

DNs == Seq(Int \X STRING)

(* What servers and profiles have: entries and contexts have names; the    *)
(* partitions an Active Directory sets apart are contexts it publishes,    *)
(* and so is whatever is published inside of them, which the default       *)
(* context is not.                                                         *)
ASSUME BrowseAssumption ==
    /\ Goals \subseteq DNs
    /\ \A s \in Servers :
          LET contexts == Range(s.root.contexts)
              within(dn) == \E p \in s.root.partitions : DepthUnder(dn, p) >= 0
              equal(dn)  == \E p \in s.root.partitions : EqualDN(p, dn)
          IN  /\ s.entries \in Seq(DNs) /\ s.overrides \subseteq DNs
              /\ s.wholeSubtree \in BOOLEAN
              /\ s.root.default \in DNs /\ s.root.contexts \in Seq(DNs \ {<<>>})
              /\ s.root.partitions \subseteq DNs
              /\ \A p \in s.root.partitions : \E c \in contexts : EqualDN(c, p)
              /\ \A c \in contexts : within(c) => equal(c)
              /\ ~within(s.root.default)

VARIABLES
    server,
    override,    \* the profile's base DN, <<>> for none
    showAll,     \* App.showAll
    opened,      \* rows whose children have been listed
    path, step,  \* the jump under way and the row it is looking for
    goal,        \* the DN last asked for
    outcome      \* what came of it: "none", "arrived", "refused", "missed"

jumpVars   == <<path, step, goal, outcome>>
browseVars == <<server, override, showAll, opened, jumpVars>>

InitBrowse ==
    /\ server \in Servers
    /\ override \in server.overrides
    /\ showAll = FALSE
    /\ opened = {}
    /\ path = <<>> /\ step = 0 /\ goal = <<>> /\ outcome = "none"

-----------------------------------------------------------------------------
Contexts == server.root.contexts
Shown    == Bases(server.root, override, showAll)

(* A one-level search, or what the server takes it for: other contexts are *)
(* not part of it.                                                         *)
Answer(dn) ==
    LET listed(e) ==
            /\ BestBase(e, Contexts) = BestBase(dn, Contexts)
            /\ DepthUnder(e, dn) = 1 \/ (server.wholeSubtree /\ DepthUnder(e, dn) >= 0)
    IN  Selected(server.entries,
                 {i \in DOMAIN server.entries : listed(server.entries[i])})

(* Client.Children.                                                        *)
Children(dn) == SortEntries(server.containers, directChildren(dn, Answer(dn)))

Rows == Range(Shown)
        \cup UNION {{r.dn : r \in Range(Children(dn))} : dn \in opened}

(* tree.find.                                                              *)
Found(dn) == {r \in Rows : EqualDN(r, dn)}

(* Opening a row (expandNode), once.                                       *)
WithOpened(r) == opened' = opened \cup {r}
Expand ==
    /\ \E r \in Rows \ opened : WithOpened(r)
    /\ UNCHANGED <<server, override, showAll, jumpVars>>

NoJump == path' = <<>> /\ step' = 0

(* a: the tree starts anew.                                                *)
ToggleShowAllContexts ==
    /\ showAll' = ~showAll
    /\ opened' = {}
    /\ NoJump /\ goal' = <<>> /\ outcome' = "none"
    /\ UNCHANGED <<server, override>>

NavigateTo(dn) ==
    /\ path = <<>>
    /\ goal' = dn
    /\ LET base == BestBase(dn, Shown)
       IN  IF base = <<>> THEN NoJump /\ outcome' = "refused"
           ELSE path' = PathFrom(base, dn) /\ step' = 1 /\ outcome' = "none"
    /\ UNCHANGED <<server, override, showAll, opened>>

WalkTo ==
    /\ path # <<>>
    /\ \/ /\ Found(path[step]) = {}
          /\ NoJump /\ outcome' = "missed"
          /\ UNCHANGED opened
       \/ /\ Found(path[step]) # {} /\ step = Len(path)
          /\ NoJump /\ outcome' = "arrived"
          /\ UNCHANGED opened
       \/ /\ step < Len(path)
          /\ \E r \in Found(path[step]) : WithOpened(r)
          /\ step' = step + 1
          /\ UNCHANGED <<path, outcome>>
    /\ UNCHANGED <<server, override, showAll, goal>>

NextBrowse ==
    \/ Expand \/ ToggleShowAllContexts \/ WalkTo
    \/ \E dn \in Goals : NavigateTo(dn)

SpecBrowse == InitBrowse /\ [][NextBrowse]_browseVars

-----------------------------------------------------------------------------
Hidden(dn) == \E p \in server.root.partitions : DepthUnder(dn, p) >= 0

TypeOKBrowse ==
    /\ server \in Servers /\ override \in server.overrides
    /\ showAll \in BOOLEAN
    /\ opened \subseteq Rows /\ <<>> \notin Rows
    /\ path = <<>> <=> step = 0
    /\ step \in 0 .. Len(path)
    /\ outcome \in {"none", "arrived", "refused", "missed"}

(* Whatever the server answers, the rows under a DN are one level down,    *)
(* each once, containers first and by name, and a stand-in only takes the  *)
(* place of a container the server does not list (directChildren).         *)
ListingsAreSound ==
    \A dn \in opened : LET rows == Children(dn) IN
        /\ \A i \in DOMAIN rows :
              /\ DepthUnder(rows[i].dn, dn) = 1
              /\ rows[i].synthesized =>
                    \A e \in Range(server.entries) : ~EqualDN(e, rows[i].dn)
              /\ \A j \in DOMAIN rows : EqualDN(rows[i].dn, rows[j].dn) => i = j
        /\ \A i \in 2 .. Len(rows) :
              ~Before(server.containers, rows[i], rows[i - 1])

(* "nothing is invented", and nothing is lost: every entry of the answer   *)
(* is under one of the rows, and every row is an entry or is above one.    *)
NothingIsLostOrInvented ==
    \A dn \in opened : LET rows == Range(Children(dn)) IN
        /\ \A e \in Range(Answer(dn)) :
              EqualDN(e, dn) \/ \E r \in rows : DepthUnder(e, r.dn) >= 0
        /\ \A r \in rows : \E e \in Range(Answer(dn)) : DepthUnder(e, r.dn) >= 0

(* The roots of the tree are contexts, each once, the profile's base alone *)
(* when it sets one, and no row is in a partition that is not to be shown. *)
PartitionsStayHidden ==
    /\ IsInjective([i \in DOMAIN Shown |-> Fold(Shown[i])])
    /\ override # <<>> => Shown = <<override>>
    /\ ~showAll /\ override = <<>> => \A r \in Rows : ~Hidden(r)

(* In a context of its own, which the one a jump to dn starts from is      *)
(* above: nothing that is listed leads there.                              *)
SetApart(dn) == \E c \in Range(Contexts) :
    DepthUnder(c, BestBase(dn, Shown)) > 0 /\ DepthUnder(dn, c) >= 0

(* A jump to an entry arrives, from the nearest context that is shown, if  *)
(* the server lists what is between them or answers with the whole subtree *)
(* (navigateTo, walkTo). It misses an entry set apart; but without a base  *)
(* DN on the profile those are in the partitions that are hidden.          *)
ListedEntriesAreReached ==
    /\ outcome = "missed"
    /\ \E e \in Range(server.entries) : EqualDN(e, goal)
    => \/ /\ SetApart(goal)
          /\ override # <<>> \/ (~showAll /\ Hidden(goal))
       \/ /\ ~server.wholeSubtree
          /\ \E k \in 2 .. Len(goal) :
                LET above == SubSeq(goal, k, Len(goal))
                IN  /\ DepthUnder(above, BestBase(goal, Shown)) > 0
                    /\ \A e \in Range(server.entries) : ~EqualDN(e, above)

(* app.go:1100: what is refused is "most often an AD entry in the          *)
(* Configuration partition, which is hidden by default — so say which key  *)
(* reveals it".                                                            *)
HiddenEntriesAreRefused ==
    ~showAll /\ override = <<>> /\ goal # <<>> /\ Hidden(goal) => outcome # "missed"

(* The tree shows what the server has, and nothing that is to be hidden.   *)
TreeIsTrue ==
    TypeOKBrowse /\ ListingsAreSound /\ NothingIsLostOrInvented /\ PartitionsStayHidden
=============================================================================
