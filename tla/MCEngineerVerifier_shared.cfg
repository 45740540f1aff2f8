CONSTANTS
    b1 = b1
    b2 = b2
    v1 = v1
    None = None
    NoLease = NoLease
    Nobody = Nobody
    Brokers = {b1, b2}
    Visitors = {v1}
    Errands = {"request", "beat"}
    Plan <- OneWrite
    MaxAttempts = 2
    MaxOpens = 2
    MaxEpoch = 3
    MaxBusy = 2
    Faults = {}
SPECIFICATION Spec
SYMMETRY MCSymmetry
CHECK_DEADLOCK FALSE
INVARIANTS
    InvokedOncePerAttempt
    EveryPhaseIsLogged
PROPERTIES
    StaleBrokerIsFenced
    AdmissionIsEarned
