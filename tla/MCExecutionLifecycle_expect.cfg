CONSTANTS
    a = a
    b = b
    c = c
    w1 = w1
    w2 = w2
    w3 = w3
    k = k
    l1 = l1
    l2 = l2
    None = None
    Tasks = {a, b, c}
    Workers = {w1, w2, w3}
    LeaseIds = {l1, l2}
    IdempotencyKeys = {"i1", "i2"}
    WriteKeys = {k}
    Dependencies <- MCDependencies
    WriteKeysOf <- MCWriteKeysOf
    AssignedRole <- MCAssignedRole
    RoleOf <- MCRoleOf
    InitialStatus <- MCInitialStatus
    MaxAttempts = 2
    MaxTime = 3
    Time <- MCTime
    MaxLag = 1
SPECIFICATION Spec
SYMMETRY Symmetry
CHECK_DEADLOCK FALSE
INVARIANT LeaseOwnsWriteKey
