----------------------------- MODULE MCRequests -----------------------------
(* Model checking what goes on between PADL and a server, and what becomes  *)
(* of the answers: a call of Connect (Connecting), a search or a read       *)
(* (DirectorySearch), the pane that shows what was read (ObjectPane) and an *)
(* export (Export). The four share no state; subject says which of them a   *)
(* behaviour is about, and the other three stay in an initial state.        *)
EXTENDS Connecting, DirectorySearch, ObjectPane, Export, TLC

CONSTANTS issued, self1, self2, e1, e2, top, a, b, c, x, y

VARIABLE subject

(* One certificate that needs no pin and two that do, so that a pin can be  *)
(* the wrong one.                                                           *)
MCCert  == {issued, self1, self2}
MCValid == {issued}

(* Two entries tell the one asked for from any other.                       *)
MCEntry == {e1, e2}

(* A root with three children, more than a page of two, one of them         *)
(* unreadable, and grandchildren under two of them.                         *)
MCNode == {top, a, b, c, x, y}
MCKids == top :> <<b, a, c>> @@ a :> <<x>> @@ b :> <<y>>
          @@ [n \in {c, x, y} |-> <<>>]
MCUnreadable == {b}

(* Where the others wait.                                                   *)
Aside ==
    /\ subject # "connect" =>
          security = "plain" /\ ~simple /\ ~baseDN /\ pin = None
    /\ subject # "search" => paging
    /\ subject # "export" => file = "absent"

InitRequests ==
    /\ subject \in {"connect", "search", "pane", "export"}
    /\ InitConnect /\ InitSearch /\ InitPane /\ InitExport
    /\ Aside

NextRequests ==
    /\ UNCHANGED subject
    /\ \/ /\ subject = "connect" /\ NextConnect
          /\ UNCHANGED <<searchVars, paneVars, exportVars>>
       \/ /\ subject = "search" /\ NextSearch
          /\ UNCHANGED <<connectVars, paneVars, exportVars>>
       \/ /\ subject = "pane" /\ NextPane
          /\ UNCHANGED <<connectVars, searchVars, exportVars>>
       \/ /\ subject = "export" /\ NextExport
          /\ UNCHANGED <<connectVars, searchVars, paneVars>>

requestVars == <<subject, connectVars, searchVars, paneVars, exportVars>>

SpecRequests == InitRequests /\ [][NextRequests]_requestVars

(* The fairness of FairConnect, as long as it is Connecting that runs.      *)
Connects(step) == subject = "connect" /\ step /\ UNCHANGED subject

FairRequests ==
    /\ SpecRequests
    /\ WF_connectVars(Connects(Client))
    /\ WF_connectVars(Connects(DialFails))
==============================================================================
