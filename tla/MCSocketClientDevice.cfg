\* Socket client: one configured address plus up to one resolved by DNS,
\* retry after LinkError/LinkBroken, no reopen after a user close,
\* three application commands.
CONSTANTS
    LinkErrorRetryInterval = 1
    LinkBrokenReopenInterval = 1
    ClosedReopenInterval = 0
    CfgAddrRemote = TRUE
    CfgDomainNames = TRUE
    MaxDnAddrs = 1
    MaxCmds = 3
SPECIFICATION Spec
INVARIANT TypeOK
INVARIANT RetryNeverLost
PROPERTY UserCloseIsFinal
PROPERTY LinkingResolves
PROPERTY CallerWoken
PROPERTY ImplementsLifecycle
\* A closed or misconfigured device waits for a command that, once the
\* application's commands are used up, never comes.
CHECK_DEADLOCK FALSE
