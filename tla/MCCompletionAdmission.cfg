CONSTANTS
    None = None
    k1 = k1
    k2 = k2
    h1 = h1
    h2 = h2
    CapabilityIds = {"build", "lint", "tool", "style"}
    Definitions <- MCDefinitions
    Keys = {k1, k2}
    Bundles <- MCOffered
    Offered <- MCOffered
    Aspects = {"source"}
    Prints <- MCPrints
    ArchiveIds = {}
    Drafts = {}
    Legacy <- MCLegacy
    Holders = {h1}
    MaxGeneration = 2
    Manifests <- MCManifests
    Tasks = {k1, k2}
    Goal = {"builds", "tidy"}
    MinimumEvidence = 2
    Behavior <- MCBehavior
    Requested <- MCRequested
    Completer = h1
    Registered <- MCRegistered
    Reviewed = k1
    MaxAppends = 2

SPECIFICATION AdmissionSpec

\* Generations and attempts end.
CHECK_DEADLOCK FALSE

INVARIANTS
    SelectionIsExact
    CompletionIsCovered
    TasksShareOnlyHelpers
