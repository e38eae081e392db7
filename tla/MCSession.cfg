CONSTANTS
    p1 = p1
    p2 = p2
    ca = ca
    self1 = self1
    self2 = self2
    Profile  <- MCTwoProfiles
    Cert     <- MCCert
    Roots    <- MCRoots
    MaxTasks <- MCMaxTasks
    NoProfile = NoProfile
    NoPin     = NoPin

SYMMETRY MCSymmetryTwo

SPECIFICATION SpecSession

INVARIANTS
    CurrentWorkIsAtHome
    DirIsOpen
    ConnectedPeerIsTrusted

CHECK_DEADLOCK FALSE
