SPECIFICATION FairSpec
CONSTANTS
    n1 = n1
    n2 = n2
    default = default
    project = project
    Namespaces <- TheNamespaces
    Residents <- TheResidents
    FirstID <- TheFirstID
    NetIDRange = {1, 2}
    Nothing = Nothing
    MaxChanges = 3
    MaxOfAKind = 2
    MaxFaults = 1
INVARIANTS
    TypeOK
    NeverShared
    MapIsSound
PROPERTIES
    NetworksFollow
CHECK_DEADLOCK FALSE
