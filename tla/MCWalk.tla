------------------------------- MODULE MCWalk -------------------------------
(* Model checking Walk: a base of three pages with a container on the      *)
(* second, an entry on its first page and one that does not exist, and a   *)
(* container on the third that is listed cut short. With JumpMaxPages = 1  *)
(* a walk finds the second page and gives up before the third; it takes    *)
(* two slots for a walk to meet a reload or another walk.                  *)
EXTENDS Walk, TLC

CONSTANTS s1, s2, w1, w2

base  == <<"base">>
ou    == <<"base", "ou">>
far   == <<"base", "far">>
team  == <<"base", "ou", "team">>
ghost == <<"base", "ou", "ghost">>

MCHome   == base
MCNode   == {base, ou, far, team, ghost}
MCOnPage == base :> 0 @@ ou :> 2 @@ far :> 3 @@ team :> 1 @@ ghost :> 0
MCPages  == base :> 3 @@ ou :> 1 @@ far :> 1 @@ team :> 1 @@ ghost :> 1
MCCut    == {far}
MCLeaf   == {team}

(* Liveness: a container on the second of two pages, with an entry that    *)
(* does not exist.                                                         *)
MCNodeSmall   == {base, ou, ghost}
MCOnPageSmall == base :> 0 @@ ou :> 2 @@ ghost :> 0
MCPagesSmall  == base :> 2 @@ ou :> 1 @@ ghost :> 1
MCNone        == {}

MCSlots   == {s1, s2}
MCWalkers == {w1, w2}
MCSymmetry == Permutations(MCSlots) \cup Permutations(MCWalkers)
=============================================================================
