\* One bound for the whole bank; see README, "Bounds".
CONSTANTS
    None = None
    Absent = None
    k1 = k1
    k2 = k2
    d1 = d1
    d2 = d2
    Errands = {"upkeep", "verify", "review", "classify"}
    CapabilityIds = {"check", "lint"}
    Definitions <- MCDefinitions
    Keys = {k1, k2}
    Bundles <- MCBundles
    Offered <- MCOffered
    Rivals <- MCRivals
    Candidates <- MCCandidates
    Aspects = {"source"}
    Prints <- MCPrints
    ArchiveIds = {"a1"}
    Drafts <- MCDrafts
    Legacy <- MCLegacy
    Holders = {d1, d2}
    MaxGeneration = 2
    Executables = {"cargo"}
    Refused = {}
    Streams = {"out"}
    OutputCap = 1
    MaxBytes = 2
    ExitCodes = {0, 1}
    Platforms = {TRUE, FALSE}
    Requests <- MCRequests
    MaxJobs = 1
    Drivers = {d1, d2}
    Chain <- MCChain
    Auditors = {"auditor"}
    MaxLog = 2
    Meetings = {"publishing"}
    Noisy = {k2}
    Markable = {k1}
    Failures = {"f1", "f2"}
    Workers = {"a1", "a2", "a3"}
    FailedCriteria = {"builds"}
    Reported = {"ProductBug", "TestFragility", "Timeout"}
    Bindings <- MCBindings
    MaxClock = 1
    Nobody = Nobody

SPECIFICATION SystemSpec
SYMMETRY MCSymmetry

\* A verification, a review and the generations all end.
CHECK_DEADLOCK FALSE

INVARIANTS
    CurrentIsNewest
    TranscriptIsWhole
    PassWasRun
    VerdictsHappenOnce
    RepairsFollowDirectives
    LoopIsNeverRefused
    SensitiveFailuresAreConfirmed

PROPERTIES
    PassIsCurrent
