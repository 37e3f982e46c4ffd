SPECIFICATION Spec
CONSTANTS
    Hosts = {h1}
    MaxRevision = 1
    MaxSession = 1
    MaxPosted = 1
    FailingSaves = TRUE
INVARIANTS
    TypeOK
    RowsMatchLists
    HostListIsCurrent
PROPERTIES
    ListedHostsAreRemembered
