CONSTANTS
    c1 = c1
    c2 = c2
    r1 = r1
    r2 = r2
    p1 = p1
    None = None
    Malformed = Malformed
    Callers = {c1}
    Runs = {r1}
    RunOf <- OneRun
    EventIds <- MCEventIds
    Bundles = {1, 2}
    GoalReview = TRUE
    GoalAudit = FALSE
    GoalCriteria <- TwoCriteria
    References <- TheReferences
    Catalogs <- TheCatalogs
    Assessments <- TheAssessments
    Others <- OtherDecisions
    Casts <- TheCasts
    Origins <- TheOrigins
    MaxCycles = 1
    Asks = {}
    Inputs <- GatedInputs
    Published = {1}
    Planned = r1
    Enforced = TRUE
    Fallible = {}
    MaxLines = 13
    MaxStamps = 13
SPECIFICATION Spec
CHECK_DEADLOCK FALSE
INVARIANTS
    CompletionIsEarned
    GatesAreGrounded
