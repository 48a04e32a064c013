\* No API error and no retry of a key: the wakeups alone.
SPECIFICATION FairSpec
CONSTANTS
    t1 = t1
    t2 = t2
    Templates = {t1, t2}
    MaxVersion = 2
    Limits <- LiveLimits
    IsTest = FALSE
    HistoryLimit = 0
    Unlimited = Unlimited
    MaxRetries = 0
    MaxTriggerRetries = 0
PROPERTY VersionIsMade
PROPERTY TemplateIsRolledOut
PROPERTY ReplicasFollowConfig
CHECK_DEADLOCK FALSE
