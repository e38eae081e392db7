CONSTANTS
    s1 = s1
    s2 = s2
    w1 = w1
    w2 = w2
    Nobody = Nobody
    Nowhere = Nowhere
    Node   <- MCNode
    Home   <- MCHome
    OnPage <- MCOnPage
    Pages  <- MCPages
    Cut    <- MCCut
    Leaf   <- MCLeaf
    Slot   <- MCSlots
    Walker <- MCWalkers
    JumpMaxPages = 1

SYMMETRY MCSymmetry

SPECIFICATION SpecWalk

INVARIANTS
    WalksAreAttended
    RowsAreAttended
    CookieContinuesListing
