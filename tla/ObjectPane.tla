----------------------------- MODULE ObjectPane -----------------------------
(***************************************************************************)
(* What the right-hand pane shows (object.go; app.go: loadEntry,           *)
(* treeSelectionChanged, toggleOperational, loadBases, setDisconnected),   *)
(* and what the keys that act on an entry then act on (copyEntryAsLDIF,    *)
(* toggleBookmark). One entry read is pending at a time, a newer one takes *)
(* its place, and an answer of a closed connection is dropped: that is     *)
(* AsyncWork, with the exception TaskPool shows.                           *)
(***************************************************************************)
CONSTANTS Entry,    \* DNs
          Nowhere   \* no DN, and no row

ASSUME PaneAssumption == Nowhere \notin Entry

(* A row of the tree: the entry's own, or the "enter for more" under it.   *)
Row   == [dn : Entry, more : BOOLEAN]
NoRow == [dn |-> Nowhere, more |-> FALSE]

Read   == [dn : Entry, operational : BOOLEAN]
NoRead == [dn |-> Nowhere, operational |-> FALSE]

Contexts == {"none", "some", "all"}

VARIABLES
    connected,    \* App.dir is not nil
    contexts,     \* the naming contexts in the tree, and objectPane.bases
    front,        \* the left page: "tree" or "results"
    cursor,       \* the row under the tree's cursor
    operational,  \* objectPane.operational
    head,         \* what the header says: "message", "loading" or "entry"
    named,        \* the DN it names
    entry,        \* objectPane.entry: the last entry read and not cleared
    links,        \* the contexts its rows were made with
    complete,     \* they include the operational attributes
    lost,         \* the second read, for those, failed; nobody is told
    read,         \* the entry read that is pending, or NoRead
    asked,        \* what the pane was last asked to show, Nowhere for a message
    copied,       \* the last entry copied as LDIF, and the DN under the cursor
    marked        \* the last DN bookmarked, and the one the header named

shownVars == <<head, named, entry, links, complete, lost>>
keyVars   == <<copied, marked>>
treeVars  == <<connected, contexts, front, cursor>>
paneVars  == <<treeVars, operational, shownVars, read, asked, keyVars>>

Nothing == <<Nowhere, Nowhere>>

InitPane ==
    /\ connected = FALSE /\ contexts = "none" /\ front = "tree" /\ cursor = NoRow
    /\ operational = FALSE
    /\ head = "message" /\ named = Nowhere /\ entry = Nowhere
    /\ links = "none" /\ complete = FALSE /\ lost = FALSE
    /\ read = NoRead /\ asked = Nowhere
    /\ copied = Nothing /\ marked = Nothing

-----------------------------------------------------------------------------
(* clear, which leaves a pending read alone.                               *)
Clear ==
    /\ head' = "message" /\ named' = Nowhere /\ entry' = Nowhere
    /\ links' = "none" /\ complete' = FALSE /\ lost' = FALSE

(* setBusy keeps the entry, only its rows go.                              *)
SetBusy(dn) ==
    /\ head' = "loading" /\ named' = dn
    /\ links' = "none" /\ complete' = FALSE /\ lost' = FALSE
    /\ UNCHANGED entry

LoadEntry(dn, op) ==
    IF dn = Nowhere
    THEN Clear /\ asked' = Nowhere /\ UNCHANGED read
    ELSE /\ SetBusy(dn)
         /\ asked' = dn
         /\ read' = [dn |-> dn, operational |-> op]

(* treeSelectionChanged, when the tree is drawn with its cursor on r.      *)
SelectionChanged(r) ==
    IF r.more THEN Clear /\ asked' = Nowhere /\ UNCHANGED read
    ELSE LoadEntry(r.dn, operational)

-----------------------------------------------------------------------------
(* An arrow key in the tree.                                               *)
MoveCursor(r) ==
    /\ connected /\ contexts # "none" /\ front = "tree" /\ r # cursor
    /\ cursor' = r
    /\ SelectionChanged(r)
    /\ UNCHANGED <<connected, contexts, front, operational, keyVars>>

(* walkTo arrives. The tree tells of the new row when it is next drawn; a  *)
(* cursor that was there already may not be news to it.                    *)
Arrive(dn) ==
    /\ connected /\ contexts # "none"
    /\ cursor' = [dn |-> dn, more |-> FALSE]
    /\ \/ front = "tree" /\ SelectionChanged(cursor')
       \/ /\ front = "results" \/ cursor' = cursor
          /\ UNCHANGED <<shownVars, read, asked>>
    /\ UNCHANGED <<connected, contexts, front, operational, keyVars>>

(* showEntryOutsideTree: a jump whose target has no row.                   *)
ShowOutside(dn) ==
    /\ connected /\ contexts # "none"
    /\ LoadEntry(dn, operational)
    /\ UNCHANGED <<treeVars, operational, keyVars>>

(* A first page of results lands with a hit, or the cursor moves to one.   *)
SelectHit(dn) ==
    /\ connected
    /\ front' = "results"
    /\ LoadEntry(dn, operational)
    /\ UNCHANGED <<connected, contexts, cursor, operational, keyVars>>

(* A search that matched nothing.                                          *)
ShowNoHits ==
    /\ connected /\ front = "tree"
    /\ front' = "results"
    /\ UNCHANGED <<connected, contexts, cursor, operational, shownVars, read,
                   asked, keyVars>>

CloseResults ==
    /\ front = "results"
    /\ front' = "tree"
    /\ LoadEntry(cursor.dn, operational)
    /\ UNCHANGED <<connected, contexts, cursor, operational, keyVars>>

(* o in the pane.                                                          *)
ToggleOperational ==
    /\ connected
    /\ operational' = ~operational
    /\ LoadEntry(cursor.dn, ~operational)
    /\ UNCHANGED <<treeVars, keyVars>>

-----------------------------------------------------------------------------
(* L: copyEntryAsLDIF.                                                     *)
Copy ==
    /\ entry # Nowhere
    /\ copied' = <<entry, cursor.dn>>
    /\ UNCHANGED <<treeVars, operational, shownVars, read, asked, marked>>

(* b: toggleBookmark, from the tree or from the pane.                      *)
Bookmark ==
    /\ connected /\ cursor.dn # Nowhere
    /\ marked' = <<cursor.dn, named>>
    /\ UNCHANGED <<treeVars, operational, shownVars, read, asked, copied>>

-----------------------------------------------------------------------------
(* loadBases: the cursor goes to the first of the contexts published, and  *)
(* that row is read when it is drawn.                                      *)
NewContexts(which, pending) ==
    /\ contexts' = which /\ front' = "tree"
    /\ \/ /\ which = "none"
          /\ cursor' = NoRow
          /\ Clear /\ asked' = Nowhere /\ read' = pending
       \/ /\ which # "none"
          /\ \E dn \in Entry :
                /\ cursor' = [dn |-> dn, more |-> FALSE]
                /\ head' = "loading" /\ named' = dn /\ asked' = dn
                /\ entry' = Nowhere /\ links' = "none"
                /\ complete' = FALSE /\ lost' = FALSE
                /\ read' = [dn |-> dn, operational |-> operational]
    /\ UNCHANGED operational

(* a: the choice is another one, the contexts may be none all the same.    *)
ToggleAllContexts ==
    /\ connected
    /\ NewContexts(CASE contexts = "some" -> "all" [] contexts = "all" -> "some"
                      [] OTHER -> "none", read)
    /\ UNCHANGED <<connected, keyVars>>

Adopt ==
    /\ connected' = TRUE
    /\ \E which \in {"none", "some"} : NewContexts(which, NoRead)
    /\ UNCHANGED keyVars

(* A slip: the rows stay.                                                  *)
DisconnectOverRows ==
    /\ connected
    /\ connected' = FALSE /\ contexts' = "none" /\ front' = "tree" /\ cursor' = NoRow
    /\ read' = NoRead /\ asked' = Nowhere
    /\ UNCHANGED <<operational, shownVars, keyVars>>

(* disconnect and setDisconnected.                                         *)
Disconnect ==
    /\ connected
    /\ connected' = FALSE /\ contexts' = "none" /\ front' = "tree" /\ cursor' = NoRow
    /\ Clear
    /\ read' = NoRead /\ asked' = Nowhere
    /\ UNCHANGED <<operational, keyVars>>

-----------------------------------------------------------------------------
(* The read lands: the pane's rows are made with the contexts of now. The  *)
(* operational attributes come with a second read (Client.Entry), and when *)
(* that one fails the entry is shown without them all the same.            *)
LandEntry ==
    /\ read # NoRead
    /\ head' = "entry" /\ named' = read.dn /\ entry' = read.dn
    /\ links' = contexts
    /\ lost' \in {FALSE, read.operational}
    /\ complete' = (read.operational /\ ~lost')
    /\ read' = NoRead
    /\ UNCHANGED <<treeVars, operational, asked, keyVars>>

(* A slip: the pane is not told.                                           *)
LandFailureQuietly ==
    /\ read # NoRead
    /\ read' = NoRead
    /\ UNCHANGED <<treeVars, operational, shownVars, asked, keyVars>>

(* It failed, or was cancelled.                                            *)
LandFailure ==
    /\ read # NoRead
    /\ Clear
    /\ read' = NoRead
    /\ UNCHANGED <<treeVars, operational, asked, keyVars>>

LandRead == LandEntry \/ LandFailure

NextPane ==
    \/ \E r \in Row : MoveCursor(r)
    \/ \E dn \in Entry : Arrive(dn) \/ ShowOutside(dn) \/ SelectHit(dn)
    \/ ShowNoHits \/ CloseResults \/ ToggleOperational \/ Copy \/ Bookmark
    \/ ToggleAllContexts \/ Adopt \/ Disconnect
    \/ LandRead

SpecPane == InitPane /\ [][NextPane]_paneVars

-----------------------------------------------------------------------------
TypeOKPane ==
    /\ connected \in BOOLEAN /\ contexts \in Contexts /\ front \in {"tree", "results"}
    /\ cursor \in Row \cup {NoRow} /\ operational \in BOOLEAN
    /\ head \in {"message", "loading", "entry"} /\ named \in Entry \cup {Nowhere}
    /\ entry \in Entry \cup {Nowhere} /\ links \in Contexts
    /\ complete \in BOOLEAN /\ lost \in BOOLEAN
    /\ read \in Read \cup {NoRead} /\ asked \in Entry \cup {Nowhere}
    /\ copied \in (Entry \cup {Nowhere}) \X (Entry \cup {Nowhere})
    /\ marked \in (Entry \cup {Nowhere}) \X (Entry \cup {Nowhere})
    /\ head = "entry" => entry = named /\ named # Nowhere
    /\ read # NoRead => connected

(* A pane that says "loading..." has the read of that entry pending, in    *)
(* whatever order reads fail, are replaced and their connections go.       *)
LoadingHasRead == head = "loading" => read.dn = named

(* object.go: a value is a link "when it points at one that is actually in *)
(* the tree": the rows on show were made with the contexts on show.        *)
LinksAreOfTheShownTree == head = "entry" => links = contexts

(* Where the tree has rows: when nothing is pending, what is shown was read*)
(* as the operator chose with o, however many reads that choice was        *)
(* overtaken by. Operational attributes are there only if they are wanted, *)
(* and if they are wanted and not there, the server would not give them.   *)
CompleteAsChosen ==
    head = "entry" /\ read = NoRead /\ contexts # "none"
       => /\ complete => operational
          /\ operational => complete \/ lost

(* app.go, treeSelectionChanged: "the previous read is abandoned rather    *)
(* than left to land after the user has moved on".                         *)
AbandonedReadsStayAway == head = "entry" => entry = asked

(* app.go, copyEntryAsLDIF: it "puts the entry under the cursor on the     *)
(* clipboard".                                                             *)
CopiesTheEntryUnderTheCursor ==
    [][front = "tree" /\ copied' # copied => copied'[1] = copied'[2]]_paneVars

(* app.go, objectKeys: "Bookmarking is about the entry, not about which    *)
(* pane is showing it".                                                    *)
BookmarksTheEntryShown == marked[2] # Nowhere => marked[1] = marked[2]
=============================================================================
