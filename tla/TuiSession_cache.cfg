CONSTANTS
    h1 = h1  h2 = h2
    s1 = s1  s2 = s2  s3 = s3  s4 = s4
    Host <- TwoHosts
    Session <- MCSession
    HostOf <- OfTwoHosts
    NoHost = NoHost
    NoSession = NoSession
    MaxOps = 0
    MaxSetups = 1
    MaxInbox = 1
    Sampling = FALSE
SPECIFICATION SetupSpec
INVARIANT CacheIsOfThisConnection
CHECK_DEADLOCK FALSE
