\* One test deployment against everything its environment can do once.
SPECIFICATION Spec
CHECK_DEADLOCK FALSE
CONSTANTS
    d1 = d1
    d2 = d2
    Deployments = {d1}
    IgnorePod = {}
    Foreign = {}
    TestDeployments = {d1}
    MaxRequeues = 2
    Limits <- SafetyLimits
INVARIANTS
    TypeOK
    CompleteMeansSucceeded
    ViewsAreSound
PROPERTIES
    PhasesAdvance
    CancelLostOnlyToSuccess
    TestScaledDown
    ImplementsOutcome
