\* The defaults, in units of ten seconds, and what differs from them in one or
\* two settings; two whole cycles at the default interval and the stop after.
CONSTANTS
    Unparsable = Unparsable
    CommandLines <- Lines
    shutdownTimeout = 1
    MaxSignals = 2
    MaxTime = 13
SPECIFICATION FairSpec
INVARIANTS TypeOK ExitOrder StopWithinGrace RunsAsConfigured
PROPERTIES CyclesDoNotDrift StopCompletes
CHECK_DEADLOCK FALSE
