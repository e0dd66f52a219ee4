SPECIFICATION Spec
CONSTANTS
    Pushers = {p1, p2}
    Refs = {"main", "dev"}
    Branches = {"main", "dev"}
    Main = "main"
    Oids = {"o1", "o2"}
    NoOid = "none"
    Ancestors <- MCAncestors
    CompactionThreshold = 1
    MaxManifestPacks = 2
    MaxPushes = 2
    Owners = {o1, o2}
    NoOwner = NoOwner
    RepoNames = {n1, n2, n3}
    Handlers = {h1, h2}
    MaxRepos = 1
    MaxAnnouncements = 3
    Requests = {r1, r2}
    Digests = {1, 2, 3}
    PackBytes <- MCPackBytes
    MaxBytes = 2
    MaxPopulations = 1
    MaxRequests = 4
    NoFlight = NoFlight
    Sources = {"e1", "e2"}
    Turns = {"t1"}
    Recovery = "recovery"
    MaxSubmissions = 2
    MaxReplies = 2
    MaxCrashes = 1
    MaxWriteFailures = 1
    MaxCorruptions = 1
INVARIANTS
    Clonable
    OkIsPublished
    ConfirmedIsClonable
    QuotaOverrunBounded
    BytesAccounted
    OnePopulation
    WithinBoundAtRest
    OneReplyPerSource
    BudgetSurvivesCrashes
PROPERTIES
    Linearizable
    PushSurvivesAnnounce
CHECK_DEADLOCK FALSE
