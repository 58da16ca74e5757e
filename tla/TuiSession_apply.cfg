CONSTANTS
    h1 = h1  h2 = h2
    s1 = s1  s2 = s2  s3 = s3  s4 = s4
    Host <- OneHost
    Session <- ThreeSessions
    HostOf <- OfOneHost
    NoHost = NoHost
    NoSession = NoSession
    MaxOps = 1
    MaxSetups = 0
    MaxInbox = 2
    Sampling = FALSE
SPECIFICATION ConfiguredSpec
CONSTRAINT ApplyBound
SYMMETRY Symmetry
INVARIANTS
    TypeOK
    ApplyingIffOutstanding
    OutcomeIsTruthful
    LivePreviewIsFresh
    AppliedIsReread
    ApplyInv
PROPERTIES
    StalenessIsSticky
    ImplementsApplyOnce
CHECK_DEADLOCK FALSE
