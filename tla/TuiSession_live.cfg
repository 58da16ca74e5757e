CONSTANTS
    h1 = h1  h2 = h2
    s1 = s1  s2 = s2  s3 = s3  s4 = s4
    Host <- OneHost
    Session <- OneSession
    HostOf <- OfOneSession
    NoHost = NoHost
    NoSession = NoSession
    MaxOps = 1
    MaxSetups = 0
    MaxInbox = 1
    Sampling = TRUE
SPECIFICATION FairApplySpec
PROPERTIES
    ApplyIsAnswered
    RefreshingSettles
CHECK_DEADLOCK FALSE
