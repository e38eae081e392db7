CONSTANTS
    issued = issued
    self1 = self1
    self2 = self2
    e1 = e1
    e2 = e2
    top = top
    a = a
    b = b
    c = c
    x = x
    y = y
    None = None
    Cert  <- MCCert
    Valid <- MCValid
    Total = 4
    PageSize = 2
    Wanted = 2
    Nowhere = Nowhere
    Entry <- MCEntry
    Root = top
    Node <- MCNode
    Kids <- MCKids
    Unreadable <- MCUnreadable
    Limit = 2
    Paging = TRUE

SPECIFICATION FairRequests

INVARIANTS
    PasswordOnlyToTheTrusted
    NothingElseHappens
    LoadingHasRead
    LinksAreOfTheShownTree
    ExportIsUsable

PROPERTIES
    RequestsEnd
    ImplementsListing

\* An export ends.
CHECK_DEADLOCK FALSE
