SPECIFICATION MCSpec
CONSTANTS
    Clients = {c1}
    rules = rules
    newer = newer
    Empty = empty
    Contents = {empty, rules, newer}
    Unreadable = {newer}
    MaxRevision = 3
    MaxQueue = 2
INVARIANTS
    TypeOK
    RevisionNamesContent
PROPERTIES
    FleetTellsTheTruth
    RunningClientsFollow
