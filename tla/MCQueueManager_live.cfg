CONSTANTS
    j1 = j1  j2 = j2  c1 = c1  c2 = c2  k1 = k1
    Jobs <- MCJobs
    Clients <- MCClients
    Keys = {}
    NoKey = NoKey
    NoJob = NoJob
    Priorities = {0}
    Delays = {0}
    MaxRetriesChoices = {2}
    Visibility = 1
    BatchSizes = {1}
    BaseDelay = 1
    MaxDelay = 2
    MaxTime = 2
    MaxLeases = 2
    MaxCrashes = 0
    MaxWalFailures = 0
    StoreFailures = FALSE
SPECIFICATION FairSpec
PROPERTY InflightEventuallyResolved
