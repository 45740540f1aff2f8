CONSTANTS
    a = a
    b = b
    c1 = c1
    c2 = c2
    w1 = w1
    w2 = w2
    k = k
    l1 = l1
    l2 = l2
    None = None
    Tasks = {a, b}
    Workers = {w1, w2}
    LeaseIds = {l1}
    IdempotencyKeys = {"i1"}
    WriteKeys = {k}
    Dependencies <- MCDependencies
    WriteKeysOf <- MCWriteKeysOf
    AssignedRole <- MCAssignedRole
    RoleOf <- MCRoleOf
    InitialStatus <- MCInitialStatus
    MaxAttempts = 1
    MaxTime = 2
    Time <- MCTime
    Callers = {c1, c2}
    WorkerOf <- TwoWorkers
    CasRetryLimit = 1
    StampLag = 1
    MaxProjection = 0
    MaxLag = 2
    TaskLists <- MCTaskLists
    TheGoal = "goal"
SPECIFICATION Spec
CHECK_DEADLOCK FALSE
INVARIANTS
    SchedulesAreSound
PROPERTIES
    NoClaimPassesAnExpiredWriter
    KernelSpec
