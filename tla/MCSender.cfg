\* Four cycles through a ring of two, as main wires it, and three with Push and
\* Shutdown at the same time, as Sender documents itself.
CONSTANTS
    Capacity = 2
    MaxCycles = 4
    MaxCyclesAlone = 3
    Wirings = {TRUE, FALSE}
SPECIFICATION FairSpec
INVARIANTS TypeOK EveryBatchIsSomewhere MetricsAreExact
           SilenceMeansNothingWaits StopReportsWhatIsLost
PROPERTIES ImplementsDelivery RefusedByTheReceiver StopEnds
CHECK_DEADLOCK FALSE
