CONSTANTS
    s1 = s1
    s2 = s2
    w1 = w1
    w2 = w2
    Nobody = Nobody
    Nowhere = Nowhere
    Node   <- MCNodeSmall
    Home   <- MCHome
    OnPage <- MCOnPageSmall
    Pages  <- MCPagesSmall
    Cut    <- MCNone
    Leaf   <- MCNone
    Slot   <- MCSlots
    Walker <- MCWalkers
    JumpMaxPages = 1

SPECIFICATION FairWalk

PROPERTIES
    ImplementsJump
    LoadingSettles
