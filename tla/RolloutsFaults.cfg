\* Any two of: an API error, a restart, a rollout, a retry, a removal, a lost pod.
SPECIFICATION Spec
CONSTANTS
    t1 = t1
    t2 = t2
    Templates = {t1}
    MaxVersion = 2
    Limits <- FaultLimits
    IsTest = FALSE
    HistoryLimit = 0
    Unlimited = Unlimited
    MaxRetries = 1
    MaxTriggerRetries = 0
PROPERTY VersionsSupersede
CHECK_DEADLOCK FALSE
