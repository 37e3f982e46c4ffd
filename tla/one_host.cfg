SPECIFICATION Spec
CONSTANTS
    Hosts = {h1}
    Runs = {r1, r2}
    NoRun = NoRun
    Redelivery = FALSE
SYMMETRY RunSymmetry
INVARIANTS
    OutcomeIsOfItsMachine
    RefusedNeverStarted
    OneScriptAtATime
    WaitingRunHasDeadline
    HistoryMatchesDisk
    DeletedStaysDeleted
