SPECIFICATION FairSpec
CONSTANTS
    a1 = a1
    a2 = a2
    b1 = b1
    h1 = h1
    h2 = h2
    p1 = p1
    p2 = p2
    Routes <- TheRoutes
    NamespaceOf <- TheNamespaceOf
    Hosts = {h1, h2}
    Paths = {p1, p2}
    Nothing = Nothing
    Stored <- Some
    MaxLag = 1
    MaxChanges = 3
    MaxSelections = 1
    MaxFaults = 1
INVARIANTS
    TypeOK
    HostsAreOwned
PROPERTIES
    ServedFollows
CHECK_DEADLOCK FALSE
