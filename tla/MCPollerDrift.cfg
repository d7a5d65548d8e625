\* What only validate refuses: a cycle and its push outlast the interval, and the
\* cooldown outlasts the ceiling of the backoff.  The signal may find the loop anywhere.  Renewal is off.
CONSTANTS
    Interval = 1
    Timeout = 2
    PushTimeout = 1
    MinBackoff = 1
    MaxBackoff = 2
    SessionCooldown = 3
    SessionRenew = 0
    MaxLoginsPerHour = 4
    lossWindow = 6
    NumSources = 1
    MaxTime = 5
SPECIFICATION FairSpec
PROPERTIES StopsWhenCancelled CyclesHoldTheirPeriod
CHECK_DEADLOCK FALSE
