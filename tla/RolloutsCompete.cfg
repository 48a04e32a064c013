\* An edit while the first deployment is in flight.
SPECIFICATION Spec
CONSTANTS
    t1 = t1
    t2 = t2
    Templates = {t1, t2}
    MaxVersion = 2
    Limits <- EditLimits
    IsTest = FALSE
    HistoryLimit = 0
    Unlimited = Unlimited
    MaxRetries = 0
    MaxTriggerRetries = 0
PROPERTY NewDeploymentDoesNotCompete
CHECK_DEADLOCK FALSE
