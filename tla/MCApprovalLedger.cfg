CONSTANTS
    c1 = c1
    c2 = c2
    c3 = c3
    p1 = p1
    g1 = g1
    g2 = g2
    x = x
    None = None
    GuardIds = {g1, g2}
    Labels <- MCLabels
    Keys = {x}
    Callers = {c1, c2, c3}
    ApprovalIds = {p1}
    Requests <- MCRequests
    Instants <- MCInstants
    CasRetryLimit = 1
SPECIFICATION Spec
SYMMETRY Symmetry
CHECK_DEADLOCK FALSE
INVARIANTS
    EffectIsAccountedFor
    ApprovedExactly
PROPERTY ContractSpec
