\* Three accepted connections, one close command or peer disconnect,
\* a Dispose that may come at any point.
CONSTANTS
    c1 = c1
    c2 = c2
    c3 = c3
    Clients <- MCClients
    NoClient = NoClient
    MaxCmds = 1
    LinkErrorRetryInterval = 0
    LinkBrokenReopenInterval = 0
    ClosedReopenInterval = 0
SPECIFICATION Spec
INVARIANT TypeOK
INVARIANT RegistrySorted
INVARIANT RegisteredAreOpen
PROPERTY SwappedAreDisposed
\* Once every connection has been accepted and handled the listener is idle.
CHECK_DEADLOCK FALSE
