CONSTANTS
    mar = mar
    m = m
    mstar = mstar
    generic = generic
    lldap = lldap
    cn = cn
    sn = sn
    uid = uid
    q1 = q1
    q2 = q2
    s1 = s1
    s2 = s2
    Raw = Raw
    Term    <- MCTerm
    Short   <- MCShort
    Starred <- MCStarred
    Vendor  <- MCVendor
    Attributes <- MCAttributes
    Exact   <- MCExact
    Words   <- MCWords
    NoQuery = NoQuery
    Idle = Idle
    Query <- MCQuery
    Slot  <- MCSlot
    LastPage = 3
    MaxPages = 4
    MaxDialogs = 2
    Letters <- MCLetters
    Comma = ","
    Backslash <- MCBackslash
    Space = " "
    MaxLen = 5
    Servers <- MCServers
    Goals   <- MCGoals
    LineWidth = 4
    MaxAttrs = 2
    Value <- MCValue
    Name  <- MCName
    Exported <- MCExported
    Width = 4
    WordMax = 127
    Tick = 2
    Tables <- MCTables
    Units  <- MCUnits
    States = {0, 1, 2}
    Key    <- MCKey

SPECIFICATION SpecContent

INVARIANT NoEscapeSequences

\* A DN is split and done; the bounds on pages and on values stop the others.
CHECK_DEADLOCK FALSE
