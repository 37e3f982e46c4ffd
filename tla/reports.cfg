SPECIFICATION Spec
INVARIANTS
    PathsAreFollowed
    AutostartIsAsAsked
PROPERTIES
    HostsAreShown
