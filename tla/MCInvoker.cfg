\* Two failures of any kind, one login that expires, one command beside the pairing.
CONSTANTS
    Actions = {"pair", "status", "auth_start", "auth_complete", "register",
               "tunnel_on", "tunnel_off", "reset"}
    MaxAttempts = 5
    MaxTunnels = 4
    MaxFaults = 2
    MaxAges = 1
    MaxOther = 1
SPECIFICATION InvokerSpec
\* A tunnel that runs needs no further step.
CHECK_DEADLOCK FALSE
INVARIANTS
    TunnelIsKnown
    ShownIsKept
PROPERTIES
    PairingEnds
