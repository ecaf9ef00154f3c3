\* Ring lookups and minimal disruption under concurrent join, leave,
\* announce, health checks and rebalance reads.
CONSTANTS
    n1 = n1  n2 = n2  n3 = n3  q1 = q1  q2 = q2
    Nodes = {n1, n2, n3}
    Queues = {q1, q2}
    VirtualNodes = 2
    HashChoices <- MCLiveHashes
    Replication = 2
    NoNode = NoNode
    LocalID = n1
    a1 = a1  a2 = a2
    Admins = {a1, a2}
    MaxRequests = 4
SPECIFICATION FairSpec
INVARIANTS TypeOK QueueOwnerIsSuccessor ReplicasAreClockwise
PROPERTIES MinimalDisruption SuspectResolved
\* Once every request is used and the loop stopped, behaviours end.
CHECK_DEADLOCK FALSE
