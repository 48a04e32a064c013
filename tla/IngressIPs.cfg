\* Two services, two addresses.
SPECIFICATION FairSpec
CONSTANTS
    s1 = s1
    s2 = s2
    a1 = a1
    a2 = a2
    Services = {s1, s2}
    IpRange = {a1, a2}
    Outside = Outside
    None = None
    Wants <- OneWants
    MaxLag = 1
    MaxInterference = 2
INVARIANTS
    TypeOK
    AllocatorAgrees
    StoredIsSound
    OneRequeuedChange
PROPERTIES
    AddressIsKept
    NewAddressIsFree
    ServicesAreServed
CHECK_DEADLOCK FALSE
