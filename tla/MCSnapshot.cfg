SPECIFICATION Spec
CONSTANTS
    maxAge = 1
    MaxCycles = 2
    MaxFaults = 2
    MaxTime = 2
CHECK_DEADLOCK FALSE
INVARIANT TypeOK ReadingsWereTaken NoZeroesOfAnAccessPoint EveryFailureIsCharged
