CONSTANTS
    t1 = t1  t2 = t2  x = x  y = y  k1 = k1  k2 = k2
    Torrents <- MCTorrents
    Hex <- MCHex
    Unknown = Unknown
    Unset = Unset
    Similar <- MCSimilar
    HashMin = 2
    Blank = Blank
    Pseudo = Pseudo
    NoHost = NoHost
    TestedVersions = {5}
    TestedApi <- MCTestedApi
    ApiFloor = 2
    Odd = Odd
    Calls = {1, 2}
    None = None
    MaxLosses = 2
    NoCmd = NoCmd
    Libraries <- MCLibraries
    Filters <- MCFilters
    HashPrefixes <- MCPrefixes
    Queries <- MCQueries
    Hosts = {x, y}
    Configs = {"none", "plain", "malformed", "credentials"}
    Versions <- MCVersions
    MaxChanges = 1
SPECIFICATION MCSpec
CONSTRAINT Relevant
INVARIANTS
    TypeOK
    SelectionIsSound
    CleanExitMeansRead
    VerdictsAgree
    RetryIsEnough
PROPERTY
    WatchRecovers
CHECK_DEADLOCK FALSE
