CONSTANTS
    h1 = h1  h2 = h2
    s1 = s1  s2 = s2  s3 = s3  s4 = s4
    Host <- OneHost
    Session <- ThreeSessions
    HostOf <- OfOneHost
    NoHost = NoHost
    NoSession = NoSession
    MaxOps = 1
    MaxSetups = 1
    MaxInbox = 1
    Sampling = FALSE
SPECIFICATION SetupSpec
CONSTRAINT SetupBound
SYMMETRY Symmetry
INVARIANTS
    ReconfigureExcludesMutation
CHECK_DEADLOCK FALSE
