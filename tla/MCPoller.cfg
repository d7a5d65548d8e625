\* A validated configuration: Timeout + PushTimeout < Interval.  The window
\* holds two logins and three cycles, the cooldown outlasts a cycle and doubles
\* into its ceiling.
CONSTANTS
    Interval = 2
    Timeout = 1
    PushTimeout = 0
    MinBackoff = 1
    MaxBackoff = 4
    SessionCooldown = 3
    SessionRenew = 2
    MaxLoginsPerHour = 2
    lossWindow = 5
    NumSources = 2
    MaxTime = 9
SPECIFICATION Spec
INVARIANTS TypeOK LoginCap QuietAfterRepeatedLoss NoSessionInsideAWait WaitsBounded
           QuietIsPublished PushAgreesWithScrape CountersAgree
PROPERTIES ImplementsLifecycle EscalationOutlivesGoodCycles TimesAdvance
CHECK_DEADLOCK FALSE
