SPECIFICATION Spec
CONSTANTS
    Devices <- MCDevices
    MaxLogins = 1
    MaxRequests = 1
PROPERTY LogoutNilMeansFreed
