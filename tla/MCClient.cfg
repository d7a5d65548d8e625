SPECIFICATION Spec
CONSTANTS
    Devices <- MCDevices
    MaxLogins = 2
    MaxRequests = 3
INVARIANT TypeOK SignedForItsSession
PROPERTY OneSessionPerLogin CallClassifies KeepsTheContract
