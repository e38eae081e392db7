------------------------------- MODULE History -------------------------------
(***************************************************************************)
(* Back and forward (app.go: recordJump, goBack, goForward, adopt), over   *)
(* the promises of Jump: a trail is moved when a key is pressed, and the   *)
(* jump that follows arrives later, or never. cursor stands for currentDN: *)
(* the row under the tree's cursor or, failing that, the entry on show.    *)
(***************************************************************************)
EXTENDS Jump, Naturals, Sequences, SequencesExt

CONSTANT HistoryLimit   \* historyLimit: 100 in the code

ASSUME HistoryAssumption == HistoryLimit \in Nat \ {0}

VARIABLES
    connected,  \* App.dir is not nil
    back,       \* App.back, the newest entry last
    forward,    \* App.forward
    foreign,    \* a trail is from a connection that is gone
    before,     \* App.back before a goBack, until anything but its own jump
                \* moves the user; <<>> when there is nothing to undo
    undone      \* the last > gave the trail back that the < before it took

trailVars   == <<back, forward, foreign, before, undone>>
historyVars == <<jumpVars, connected, trailVars>>

InitHistory ==
    /\ InitJump
    /\ connected = FALSE
    /\ back = <<>> /\ forward = <<>>
    /\ foreign = FALSE /\ before = <<>> /\ undone = TRUE

-----------------------------------------------------------------------------
Here        == cursor
Pushed(s)   == IF Here = Nowhere THEN s ELSE Append(s, Here)
Newest(s)   == SubSeq(s, IF Len(s) > HistoryLimit THEN Len(s) - HistoryLimit + 1 ELSE 1,
                      Len(s))

(* A slip: the limit is not looked at.                                     *)
RecordUntrimmed(dn) ==
    IF Here \in {Nowhere, dn} THEN UNCHANGED <<back, forward>>
    ELSE back' = Append(back, Here) /\ forward' = <<>>

(* recordJump.                                                             *)
Record(dn) ==
    IF Here \in {Nowhere, dn} THEN UNCHANGED <<back, forward>>
    ELSE back' = Newest(Append(back, Here)) /\ forward' = <<>>

(* jumpToDN: a link, a search result, a bookmark, a DN typed in. One that  *)
(* is not under a context shown is refused and leaves no trace.            *)
Follow(j, dn) ==
    /\ connected
    /\ Go(j, dn)
    /\ Record(dn)
    /\ before' = <<>>
    /\ UNCHANGED <<connected, foreign, undone>>

(* navigateTo of a step of the history, which may be refused too.          *)
Revisit(j, dn) == Go(j, dn) \/ UNCHANGED jumpVars

GoBack(j) ==
    /\ connected /\ back # <<>>
    /\ back' = Front(back)
    /\ forward' = Pushed(forward)
    /\ before' = back
    /\ Revisit(j, Last(back))
    /\ UNCHANGED <<connected, foreign, undone>>

GoForward(j) ==
    /\ connected /\ forward # <<>>
    /\ forward' = Front(forward)
    /\ back' = Pushed(back)
    /\ before' = <<>>
    /\ undone' = (before # <<>> => back' = before)
    /\ Revisit(j, Last(forward))
    /\ UNCHANGED <<connected, foreign>>

(* A jump ends, after whatever the operator has done meanwhile.            *)
JumpEnds(j) ==
    /\ Arrive(j) \/ GiveUp(j)
    /\ UNCHANGED <<connected, trailVars>>

Scroll(dn) ==
    /\ connected
    /\ Move(dn)
    /\ before' = <<>>
    /\ UNCHANGED <<connected, back, forward, foreign, undone>>

(* disconnect, which leaves the trail, and adopt, which empties it. Both    *)
(* retire the generation, and with it the jumps that are under way.        *)
Leave(dn) ==
    /\ cursor' = dn
    /\ goal' = [j \in Jumper |-> Nowhere]
    /\ before' = <<>>
    /\ UNCHANGED undone

Disconnect ==
    /\ connected
    /\ connected' = FALSE
    /\ Leave(Nowhere)
    /\ foreign' = (back # <<>> \/ forward # <<>>)
    /\ UNCHANGED <<back, forward>>

(* A slip: the trail is kept for the next connection.                      *)
AdoptKeepingTrail(dn) ==
    /\ connected' = TRUE
    /\ Leave(dn)
    /\ foreign' = (back # <<>> \/ forward # <<>>)
    /\ UNCHANGED <<back, forward>>

(* The cursor is on the first context, or nowhere when there is none yet.  *)
Adopt(dn) ==
    /\ connected' = TRUE
    /\ Leave(dn)
    /\ back' = <<>> /\ forward' = <<>>
    /\ foreign' = FALSE

NextHistory ==
    \/ \E j \in Jumper : \/ \E dn \in Entry : Follow(j, dn)
                         \/ GoBack(j) \/ GoForward(j) \/ JumpEnds(j)
    \/ \E dn \in Entry : Scroll(dn)
    \/ \E dn \in Entry \cup {Nowhere} : Adopt(dn)
    \/ Disconnect

SpecHistory == InitHistory /\ [][NextHistory]_historyVars

-----------------------------------------------------------------------------
TypeOKHistory ==
    /\ cursor \in Entry \cup {Nowhere}
    /\ goal \in [Jumper -> Entry \cup {Nowhere}]
    /\ connected \in BOOLEAN /\ foreign \in BOOLEAN /\ undone \in BOOLEAN
    /\ back \in Seq(Entry) /\ forward \in Seq(Entry) /\ before \in Seq(Entry)

(* "shallow enough not to grow without bound" (historyLimit): only a jump  *)
(* is held to the limit, going forward pushes without looking. The two     *)
(* trails together stay within it all the same.                            *)
HistoryIsBounded == Len(back) + Len(forward) <= HistoryLimit

(* < and > never lead to an entry of another connection.                   *)
TrailIsOfThisConnection == connected => ~foreign

(* adopt and goForward: however jumps, connections and the keys < and >    *)
(* follow each other, the trail is short and of this connection.           *)
TrailIsSound == HistoryIsBounded /\ TrailIsOfThisConnection

(* "goForward undoes a goBack": pressed after it, with nothing in between  *)
(* that takes the user elsewhere, it leaves the trail as it was.           *)
ForwardUndoesBack == undone
=============================================================================
