----------------------------- MODULE MCSession -----------------------------
(* Model checking Session. Three pieces of work: a dial and the two retries*)
(* the trust prompt allows, or two dials in flight and a read on what the  *)
(* first one opened. Two profiles, so that one profile's pin or prompt can *)
(* meet the other's dial.                                                  *)
EXTENDS Session, TLC

CONSTANTS p1, p2, ca, self1, self2

MCOneProfile  == {p1}
MCTwoProfiles == {p1, p2}

(* The system roots verify one certificate, and need a pin for the others: *)
(* two of them, so that a server can change its own.                       *)
MCCert        == {ca, self1, self2}
MCRoots       == {ca}

MCMaxTasks    == 3

MCSymmetry    == Permutations({self1, self2})
MCSymmetryTwo == MCSymmetry \cup Permutations(MCTwoProfiles)
=============================================================================
