CONSTANTS
    b1 = b1
    b2 = b2
    v1 = v1
    None = None
    NoLease = NoLease
    Nobody = Nobody
    Brokers = {b1}
    Visitors = {}
    Errands = {}
    Plan <- ReadThenWrite
    MaxAttempts = 2
    MaxOpens = 2
    MaxEpoch = 3
    MaxBusy = 1
    Faults = {"crash", "torn", "drop", "backend", "sweep", "registry", "expiry", "bank", "lifecycle"}
SPECIFICATION FairSpec
CHECK_DEADLOCK FALSE
INVARIANTS
    WriteAppliedOnce
    DiskIsExplained
PROPERTIES
    CallReturns
