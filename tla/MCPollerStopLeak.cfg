CONSTANTS
    Interval = 2
    Timeout = 1
    PushTimeout = 0
    MinBackoff = 1
    MaxBackoff = 4
    SessionCooldown = 3
    SessionRenew = 2
    MaxLoginsPerHour = 2
    lossWindow = 5
    NumSources = 1
    MaxTime = 5
SPECIFICATION Spec
INVARIANTS StopFreesTheSession
CHECK_DEADLOCK FALSE
