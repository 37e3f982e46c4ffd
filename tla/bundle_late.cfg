SPECIFICATION FairSpec
CONSTANTS
    Clients = {c1}
    Contents = {empty, rules}
    Empty = empty
    Unreadable = {}
    MaxRevision = 2
    MaxQueue = 2
PROPERTIES
    LateJoinersConverge
