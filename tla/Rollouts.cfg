\* Three versions; any two of: two edits, a retry of a deployment.
SPECIFICATION Spec
CONSTANTS
    t1 = t1
    t2 = t2
    Templates = {t1, t2}
    MaxVersion = 3
    Limits <- SafetyLimits
    IsTest = FALSE
    HistoryLimit = 0
    Unlimited = Unlimited
    MaxRetries = 0
    MaxTriggerRetries = 1
INVARIANT TypeOK
PROPERTY OnlySupersededIsEnded
PROPERTY OnlyCompleteIsScaledUp
CHECK_DEADLOCK FALSE
