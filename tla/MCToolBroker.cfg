\* One lease, two grants, three receipts: two writes in a row and one more, with
\* others writing to the root at any time; the bounds are in the README.
SPECIFICATION BrokerSpec
CONSTANTS
    None = None
    c = c
    d = d
    odd = odd
    MaxUnits = 3
    MaxToolBytes = 2
    Paths <- MCPaths
    Flaw <- MCFlaw
    Fold <- MCFold
    Contents <- MCContents
    Length <- MCLength
    LeaseIds <- MCLeaseIds
    Executions <- MCExecutions
    Seeds <- MCSeeds
    Windows <- MCWindows
    Forms <- MCForms
    Keys = {"k1", "k2"}
    Operated <- MCOperated
    Times = {2}
    Meddling <- MCMeddling
    Odd = odd
    MaxGrants = 2
    MaxReceipts = 3
    MaxDenied = 1
    Invocation <- ByEngineer
    Requests <- MCRequests
    Answered <- MCAnswered
    MaxScripts = 2
    Frozen <- MCFrozen
    Supplies <- MCSupplies
    Registries <- MCRegistries
INVARIANTS
    ReceiptsTellTheContents
    GrantsWriteOnce
    KeysAnswerOnce
    JournalsTellOneStory
    AnswersFitTheJournal
    AuthoritiesAreOwned
    ReplayExact
CHECK_DEADLOCK FALSE
