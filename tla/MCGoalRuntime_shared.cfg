CONSTANTS
    c1 = c1
    c2 = c2
    r1 = r1
    r2 = r2
    p1 = p1
    None = None
    Malformed = Malformed
    Callers = {c1, c2}
    Runs = {r1, r2}
    RunOf <- OwnRuns
    EventIds <- MCEventIds
    Bundles = {}
    GoalReview = FALSE
    GoalAudit = FALSE
    GoalCriteria <- NoCriteria
    References = {}
    Catalogs = {}
    Assessments = {}
    Others = {}
    Casts = {}
    Origins = {}
    MaxCycles = 1
    Asks = {p1, None}
    Inputs <- ShortInputs
    Published = {}
    Planned = r2
    Enforced = FALSE
    Fallible = {c1, c2}
    MaxLines = 8
    MaxStamps = 6
SPECIFICATION Spec
CHECK_DEADLOCK FALSE
INVARIANTS
    StreamsReplay
    RetriesAreRecordedOnce
PROPERTIES
    NothingIsLostSilently
    StrandedStaysUnnamed
