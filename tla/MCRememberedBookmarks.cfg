CONSTANTS
    a = a
    b = b
    h1 = h1
    h2 = h2
    d1 = d1
    e1 = e1
    e2 = e2
    e3 = e3
    j1 = j1
    j2 = j2
    k1 = k1
    k2 = k2
    v1 = v1
    v2 = v2
    c1 = c1
    ProfileId <- MCProfileId
    Server    <- MCServers
    Dn        <- MCDn
    Fallible  <- MCInfallible
    Nowhere = Nowhere
    Entry  <- MCEntry
    Jumper <- MCJumper
    HistoryLimit = 2
    Absent = Absent
    Torn = Torn
    None = None
    Id     <- MCId
    Value  <- MCValue
    Caller <- MCCaller

SPECIFICATION SpecRemembered

PROPERTY BookmarksChangeOnlyThemselves
