SPECIFICATION FairSpec
CONSTANTS
    Hosts = {h1}
    MaxRevision = 0
    MaxSession = 1
    MaxPosted = 1
    FailingSaves = FALSE
PROPERTIES
    PresenceIsSeen
