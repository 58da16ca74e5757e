CONSTANTS
    a = a  b = b
    Hash <- MCHash
    NoHash = NoHash
    Filter <- MCFilter
    Text <- MCText
    NoText = NoText
    MaxRequests = 4
    MaxFetches = 2
    MaxEvents = 2
    MaxVersion = 1
SPECIFICATION Spec
CONSTRAINT Scene
PROPERTY ExplainAwaitsAFetch
CHECK_DEADLOCK FALSE
