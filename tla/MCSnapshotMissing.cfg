SPECIFICATION Spec
CONSTANTS
    maxAge = 1
    MaxCycles = 1
    MaxFaults = 2
    MaxTime = 2
CHECK_DEADLOCK FALSE
INVARIANT EndpointsFailedCountsTheMissing
