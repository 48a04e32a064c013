\* Two masters compete; calls are delayed and lost, masters stopped and restarted.
SPECIFICATION FairSpec
CONSTANTS
    m1 = m1
    m2 = m2
    Masters = {m1, m2}
    TTL = 9
    MaxDelay = 1
    MaxTries = 2
    MaxFaults = 2
    Nobody = Nobody
    Gone = Gone
INVARIANTS
    TypeOK
    OverlapIsBounded
    OnlyFaultsEndALease
PROPERTIES
    LeaseIsTakenAgain
    LoserStops
