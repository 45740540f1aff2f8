CONSTANTS
    b1 = b1
    b2 = b2
    v1 = v1
    None = None
    NoLease = NoLease
    Nobody = Nobody
    Brokers = {b1}
    Visitors = {}
    Errands = {}
    Plan <- OneWrite
    MaxAttempts = 2
    MaxOpens = 2
    MaxEpoch = 1
    MaxBusy = 1
    Faults = {}
SPECIFICATION Spec
CHECK_DEADLOCK FALSE
INVARIANTS
    ReviewingIsReadyForReview
