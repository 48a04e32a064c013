\* One node, one other host, two subnets.
SPECIFICATION FairSpec
CONSTANTS
    n1 = n1
    h1 = h1
    ip1 = ip1
    ip2 = ip2
    Nodes = {n1}
    Hosts = {h1}
    IPs = {ip1, ip2}
    FirstIP = ip1
    HostBits = 7
    SubnetBits = 1
    Nothing = Nothing
    MaxChanges = 2
    MaxFaults = 1
INVARIANTS
    TypeOK
    NeverShared
    AllocatorIsSound
    EventsArrive
PROPERTIES
    NodeIsServed
CHECK_DEADLOCK FALSE
