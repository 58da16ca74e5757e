CONSTANTS
    h1 = h1  h2 = h2  n1 = n1  n2 = n2
    Processes = {p1, p2}
    Hosts = {h1, h2}
    Names = {n1, n2}
    Damaged = Damaged
    Nothing = Nothing
    Live <- MCLive
    MaxTasks = 3
    MaxDamage = 1
SPECIFICATION FairSpec
INVARIANTS
    TypeOK
    NothingLostAlone
    NamesAreReal
PROPERTIES
    CompletionReturns
CHECK_DEADLOCK FALSE
