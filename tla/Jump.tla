-------------------------------- MODULE Jump --------------------------------
(***************************************************************************)
(* What a jump to a DN promises, whatever the tree has to load on the way: *)
(* in the end it has put the cursor on the entry asked for, or it has left *)
(* the cursor alone (Walk implements this; History is built on it). Jumps  *)
(* do not displace one another: app.go keeps no record of them.            *)
(***************************************************************************)
CONSTANTS Entry,    \* DNs
          Nowhere,  \* no DN
          Jumper    \* bound: jumps under way at once

ASSUME JumpAssumption == Nowhere \notin Entry

VARIABLES cursor,   \* the row under the tree's cursor
          goal      \* goal[j]: where jump j is going

jumpVars == <<cursor, goal>>

InitJump ==
    /\ cursor = Nowhere
    /\ goal = [j \in Jumper |-> Nowhere]

(* navigateTo, once it has found a path.                                   *)
Go(j, dn) ==
    /\ goal[j] = Nowhere
    /\ goal' = [goal EXCEPT ![j] = dn]
    /\ UNCHANGED cursor

Arrive(j) ==
    /\ goal[j] # Nowhere
    /\ cursor' = goal[j]
    /\ goal' = [goal EXCEPT ![j] = Nowhere]

(* A listing failed or was cancelled, the entry cannot be shown, or the    *)
(* connection is gone.                                                     *)
GiveUp(j) ==
    /\ goal[j] # Nowhere
    /\ goal' = [goal EXCEPT ![j] = Nowhere]
    /\ UNCHANGED cursor

(* Cursor keys, and trees that are emptied or filled anew.                 *)
Move(dn) ==
    /\ cursor' = dn
    /\ UNCHANGED goal

NextJump ==
    \/ \E j \in Jumper : (\E dn \in Entry : Go(j, dn)) \/ Arrive(j) \/ GiveUp(j)
    \/ \E dn \in Entry \cup {Nowhere} : Move(dn)

SafeJump == InitJump /\ [][NextJump]_jumpVars

(* The code keeps no jump waiting for ever.                                *)
SpecJump ==
    /\ SafeJump
    /\ \A j \in Jumper : WF_jumpVars(Arrive(j) \/ GiveUp(j))
=============================================================================
