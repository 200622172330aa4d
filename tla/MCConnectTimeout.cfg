\* The connect timer expires while the DN query is answered: is the
\* "Connect timeout." step always preceded by an expired timer?
CONSTANTS
    LinkErrorRetryInterval = 1
    LinkBrokenReopenInterval = 1
    ClosedReopenInterval = 0
    CfgAddrRemote = FALSE
    CfgDomainNames = TRUE
    MaxDnAddrs = 2
    MaxCmds = 1
SPECIFICATION Spec
PROPERTY ConnectTimeoutIsReal
CHECK_DEADLOCK FALSE
