SPECIFICATION Spec
CONSTANTS
    Entries = {e1, e2, e3}
    Room = 0
    NetworkChanges = 2
    Writers = {w1, w2}
    Offers <- OffersOfTwo
    Types = {t1, t2}
    Values = {v, odd}
    Unprojectable = {odd}
    Wait = 1
    BusChanges = 3
    Hosts <- ThreeHosts
    RuleSets <- RulesByHost
    Supplied <- SomeProbes
    Declared <- AllDeclared
    Possible <- MachinesByHost
    MachineChanges <- ChangesByHost
    Folded <- FoldedNames
    IndexBits = 16
    Topics <- AllTopics
    Messages <- SampleMessages
    Base = 5
    Jobs = {TRUE, FALSE}
    PipeSize = 1
    StreamCap = 3
    Attempts = 2
    MaxWrites = 3
    t1 = t1
    t2 = t2
INVARIANTS
    AdaptersAreTrue
    VerdictsAreTrue
    ScriptsAreReported
PROPERTIES
    LooksAreTrue
    MessagesArriveWhole
