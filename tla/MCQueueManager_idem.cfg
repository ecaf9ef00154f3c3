CONSTANTS
    j1 = j1  j2 = j2  c1 = c1  c2 = c2  k1 = k1
    Jobs <- MCJobs
    Clients <- MCClients
    Keys <- MCKeys
    NoKey = NoKey
    NoJob = NoJob
    Priorities = {0}
    Delays = {0, 1}
    MaxRetriesChoices = {1}
    Visibility = 1
    BatchSizes = {1}
    BaseDelay = 1
    MaxDelay = 2
    MaxTime = 0
    MaxLeases = 2
    MaxCrashes = 0
    MaxWalFailures = 0
    StoreFailures = FALSE
SPECIFICATION Spec
SYMMETRY Symmetry
INVARIANT OneJobPerKey
