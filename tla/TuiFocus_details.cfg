CONSTANTS
    a = a  b = b
    Hash <- MCHash
    NoHash = NoHash
    Filter <- MCFilter
    Text <- MCText
    NoText = NoText
    MaxRequests = 4
    MaxFetches = 2
    MaxEvents = 2
    MaxVersion = 1
SPECIFICATION Spec
CONSTRAINT Scene
INVARIANTS
    TypeOK
    DetailsAreOfFocus
    ExplainNamesItsTorrent
    RequestInv
    FocusFollowsCursor
    NoKeystrokeIsLost
PROPERTIES
    LatestReadingWins
    HiddenRowsAreDropped
CHECK_DEADLOCK FALSE
