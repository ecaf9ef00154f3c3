\* A leave removes a member while its health probe is in flight.
CONSTANTS
    n1 = n1  n2 = n2  n3 = n3  q1 = q1  q2 = q2
    Nodes = {n1, n2, n3}
    Queues = {q1, q2}
    VirtualNodes = 2
    HashChoices <- MCHashes
    Replication = 2
    NoNode = NoNode
    LocalID = n1
    a1 = a1  a2 = a2
    Admins = {a1, a2}
    MaxRequests = 4
SPECIFICATION Spec
INVARIANT HealthCheckNeverPanics
SYMMETRY AdminSymmetry
\* The request and tick bounds end every behaviour.
CHECK_DEADLOCK FALSE
