\* Two accepted connections, one close command or peer disconnect, a
\* Dispose at any point: checks RegistryEmptyAfterDispose alone.
CONSTANTS
    c1 = c1
    c2 = c2
    c3 = c3
    Clients <- MCClientsTwo
    NoClient = NoClient
    MaxCmds = 1
    LinkErrorRetryInterval = 0
    LinkBrokenReopenInterval = 0
    ClosedReopenInterval = 0
SPECIFICATION Spec
INVARIANT RegistryEmptyAfterDispose
CHECK_DEADLOCK FALSE
