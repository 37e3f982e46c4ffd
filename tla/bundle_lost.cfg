SPECIFICATION Spec
CONSTANTS
    Clients = {c1}
    Contents = {empty, rules, newer}
    Empty = empty
    Unreadable = {newer}
    MaxRevision = 1
    MaxQueue = 1
INVARIANTS
    UpToDateMeansEvaluated
