\* Every reply of up to three rows in all, of ten kinds.
CONSTANTS
    ClientRows <- Clients
    TimeRows <- Times
    LeaseRows <- Leases
    PortRows <- Ports
    MeshRows <- Nodes
    ReservationRows <- Reservations
    TunnelRows <- Tunnels
    UserRows <- Users
    ARPRows <- ARPs
    Objects <- Endpoints
    MaxRows = 3
SPECIFICATION Spec
INVARIANTS OneClientPerDevice JoinedByAddress NoReadingIsInvented RepeatCostsOnlyItself
CHECK_DEADLOCK FALSE
