SPECIFICATION Spec
CONSTANTS
    Hosts = {h1, h2}
    Runs = {r1}
    NoRun = NoRun
    Redelivery = TRUE
INVARIANTS
    TypeOK
    AtMostOnce
    OnlyTargetsRun
PROPERTIES
    AnswersAreFinal
    AuditTrailKept
