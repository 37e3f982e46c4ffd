SPECIFICATION Spec
CONSTANTS
    StoredRuns = {1, 2}
    Versions = {a, b, c}
    NotUtf8 = {b}
    Times = {0, 3}
    Second = 2
    Day = 2
    MaxRun = 3
    Items = {a}
    Hosts = {1, 2}
    Scripts = {"reboot", "deep"}
    Depth <- DepthOf
    kMaxDepth = 8
    Bodies = {text1, text2}
    MaxChanges = 2
    FirstShares <- AllAlike
    ViewedRuns = {r1, r2, r3}
    HostsOf <- Targets
    NamedHosts = {h1, h2}
    Names = {"web", "WEB", "Baseline"}
    Word <- FoldedNames
    BaselineWord = "Baseline"
    RuleTargets = {"chrome"}
    Sayings = {1, 2}
    HandIds <- TypedIds
    Bundles <- ByHand
    BundleRules = 3
    MaxTemplates = 2
    MaxTokens = 2
    MaxPublished = 1
    Texts = {"", "a", " a"}
    Trimmed <- WithoutBlanks
    Counts <- SomeCounts
    Domains = {0, 232, 300, 1023}
    Half = 512
    Mistyped = Mistyped
    Constraints = {"v"}
    Documents <- HandWritten
    DraftRules = 2
    FieldChanges = 3
    r1 = r1
    r2 = r2
    r3 = r3
    pc1 = pc1
    pc2 = pc2
    h1 = h1
    h2 = h2
    Unset = Unset
INVARIANTS
    ConfigurationIsKept
PROPERTIES
    RecordsSurvive
    DeletionsAndAnswersHold
    RunsAsConfirmed
    RunsAreShown
    TemplatesAreKept
    RulesAreAsShown
