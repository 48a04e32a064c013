\* One deployment and its hook pod, with no API errors: it ends and is cleaned up.
SPECIFICATION FairSpec
CHECK_DEADLOCK FALSE
CONSTANTS
    d1 = d1
    d2 = d2
    Deployments = {d1}
    IgnorePod = {}
    Foreign = {}
    TestDeployments = {}
    MaxRequeues = 2
    Limits <- LiveLimits
PROPERTIES
    EveryDeploymentFinishes
    PodsAreCleanedUp
