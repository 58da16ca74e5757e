CONSTANTS
    t1 = t1  t2 = t2  k1 = k1  k2 = k2  g1 = g1  g2 = g2
    Torrents <- MCTorrents
    Categories <- MCCategories
    NoCategory = NoCategory
    Tags <- MCTags
    Limits = {0, 1}
    Untouched = Untouched
    Keys = {1, 2}
    Invalid = Invalid
    BatchSize = 1
    NoCmd = NoCmd
    Selections <- MCSelections
    Targets <- MCTargets
    Exports <- MCExports
    Sources <- MCSources
    MaxForeign = 1
SPECIFICATION MCSpec
CONSTRAINT Relevant
INVARIANTS
    ReplacementKeepsTracker
CHECK_DEADLOCK FALSE
