---------------------------- MODULE MCRemembered ----------------------------
(* Model checking what outlives a connection, a dialog or the program:      *)
(* profiles with their pins and passwords (ProfileLifecycle), the trails of *)
(* back and forward (History) and the files (ConfigStore). The three share  *)
(* no state; subject says which of them a behaviour is about, and the other *)
(* two stay in their initial states.                                        *)
EXTENDS ProfileLifecycle, History, ConfigStore, TLC

CONSTANTS a, b, h1, h2, d1, e1, e2, e3, j1, j2, k1, k2, v1, v2, c1

VARIABLE subject

(* One other profile to disturb; two versions of a profile's data to        *)
(* mistake for one another.                                                 *)
MCProfileId == {a, b}
MCServer    == {h1}
MCServers   == {h1, h2}
MCDn        == {d1}
MCFallible  == {"save", "pin", "forget"}
MCInfallible == {}

(* A limit of two fills and overflows soon; two jumps at once are a <       *)
(* pressed before the last one has arrived.                                 *)
MCEntry     == {e1, e2, e3}
MCJumper    == {j1, j2}

(* Two keys and two values are enough for one change to be lost to another, *)
(* or half of a file to differ from a whole.                                *)
MCId        == {k1, k2}
MCValue     == {v1, v2}
MCCaller    == {c1}

(* Worth its while for the largest of the three only.                       *)
MCSymmetry  == Permutations(MCProfileId)

InitRemembered ==
    /\ InitLife /\ InitHistory /\ InitStore
    /\ subject \in {"profiles", "history", "file"}

NextRemembered ==
    /\ UNCHANGED subject
    /\ \/ subject = "profiles" /\ NextLife /\ UNCHANGED <<historyVars, storeVars>>
       \/ subject = "history" /\ NextHistory /\ UNCHANGED <<lifeVars, storeVars>>
       \/ subject = "file" /\ NextStore /\ UNCHANGED <<lifeVars, historyVars>>

SpecRemembered ==
    InitRemembered /\ [][NextRemembered]_<<lifeVars, historyVars, storeVars, subject>>
==============================================================================
