------------------------------ MODULE HashRing ------------------------------
(***************************************************************************)
(* ConsistentHash and Sharding of internal/cluster/sharding.go.  Each     *)
(* node puts VirtualNodes points on a ring of 32-bit hashes; a queue      *)
(* belongs to the node of the first point at or after the queue's hash,   *)
(* wrapping round.  The hash (sha256, first four bytes) is a function     *)
(* fixed for the life of the process, chosen in Init from HashChoices so  *)
(* that the model can place points next to, on, and past queue hashes.    *)
(* AddNode and RemoveNode hold ch.mu for their whole body, so each is one *)
(* step; GetNode and GetNodes only read, so they are operators.           *)
(***************************************************************************)
EXTENDS Naturals, Sequences, FiniteSets, SequencesExt, TLC

CONSTANTS
    Nodes,          \* node IDs
    Queues,         \* queue names
    VirtualNodes,   \* VirtualNodes (150 in the code)
    HashChoices,    \* the hash functions hashKey may be: [Keys -> Nat]
    Replication,    \* Sharding.replication
    NoNode          \* the "" returned with the "no nodes available" error

ASSUME VirtualNodes \in Nat \ {0} /\ Replication \in Nat \ {0}
ASSUME NoNode \notin Nodes

\* The strings hashKey is applied to: fmt.Sprintf("%s:%d", nodeID, i) and
\* queue names.
VNode(n, i) == <<n, i>>
Keys == {VNode(n, i) : n \in Nodes, i \in 0..VirtualNodes-1} \cup Queues

VARIABLES
    hash,           \* hashKey
    ring,           \* ch.ring: point hashes, kept sorted
    ringMembers,    \* ch.members: point hash -> node ID
    ringNodes       \* ch.nodes: the node IDs present

ringVars == <<hash, ring, ringMembers, ringNodes>>

\* The points of node n in the order AddNode appends them.
VHashSeq(n) == [i \in 1..VirtualNodes |-> hash[VNode(n, i-1)]]
VHashes(n) == ToSet(VHashSeq(n))

RingInit ==
    /\ hash \in HashChoices
    /\ ring = <<>>
    /\ ringMembers = <<>>
    /\ ringNodes = {}

\* Mutant: the ring is not sorted after the new points are appended.
AppendUnsorted(r, n) == r \o VHashSeq(n)

\* AddNode: append the node's points, record their owner (a point that
\* another node already has is taken over), and sort the ring.
AppendSorted(r, n) == SortSeq(r \o VHashSeq(n), <)

AddNode(n) ==
    IF n \in ringNodes THEN UNCHANGED <<ring, ringMembers, ringNodes>>
    ELSE /\ ringNodes' = ringNodes \cup {n}
         /\ ring' = AppendSorted(ring, n)
         /\ ringMembers' = [h \in VHashes(n) |-> n] @@ ringMembers

\* Mutant: the ringMembers entries of the removed points are kept.
RemoveNodeKeepMembers(n) ==
    IF n \notin ringNodes THEN UNCHANGED <<ring, ringMembers, ringNodes>>
    ELSE /\ ringNodes' = ringNodes \ {n}
         /\ ring' = SelectSeq(ring, LAMBDA h : ringMembers[h] # n)
         /\ UNCHANGED ringMembers

\* RemoveNode: drop every ring entry whose point is recorded as n's, and
\* its ringMembers entry.
RemoveNode(n) ==
    IF n \notin ringNodes THEN UNCHANGED <<ring, ringMembers, ringNodes>>
    ELSE /\ ringNodes' = ringNodes \ {n}
         /\ ring' = SelectSeq(ring, LAMBDA h : ringMembers[h] # n)
         /\ ringMembers' = [h \in {p \in DOMAIN ringMembers : ringMembers[p] # n}
                              |-> ringMembers[h]]

-----------------------------------------------------------------------------
(* Lookups.                                                                 *)

\* sort.Search(len(ring), ring[i] >= h): Go's binary search over [i, j).
RECURSIVE SearchFrom(_, _, _, _)
SearchFrom(r, h, i, j) ==
    IF i >= j THEN i
    ELSE LET m == (i + j) \div 2
         IN  IF r[m+1] >= h THEN SearchFrom(r, h, i, m)
                            ELSE SearchFrom(r, h, m+1, j)

\* Mutant: an index past the end wraps to the last point, not the first.
StartIndexWrapLast(r, h) ==
    LET idx == SearchFrom(r, h, 0, Len(r))
    IN  IF idx = Len(r) THEN Len(r) - 1 ELSE idx

\* The 0-based index of the first point at or after h, wrapping round.
StartIndex(r, h) ==
    LET idx == SearchFrom(r, h, 0, Len(r))
    IN  IF idx = Len(r) THEN 0 ELSE idx

\* GetNode: NoNode (with an error) on an empty ring.
GetNode(key) ==
    IF ring = <<>> THEN NoNode
    ELSE ringMembers[ring[StartIndex(ring, hash[key]) + 1]]

\* GetNodes: cap n at the node count, then walk the ring from the start
\* index collecting unseen nodes until there are n.  Once the walk has
\* passed every entry without finishing it cycles for ever (under RLock);
\* the result records that it never ends.
RECURSIVE Walk(_, _, _, _)
Walk(n, idx, acc, steps) ==
    IF Len(acc) >= n THEN [nodes |-> acc, ends |-> TRUE]
    ELSE IF steps > Len(ring) THEN [nodes |-> acc, ends |-> FALSE]
    ELSE LET node == ringMembers[ring[idx + 1]]
         IN  Walk(n, (idx + 1) % Len(ring),
                  IF node \in ToSet(acc) THEN acc ELSE Append(acc, node),
                  steps + 1)

\* Mutant: n is not capped at the node count.
GetNodesUncapped(key, count) ==
    IF ring = <<>> THEN [nodes |-> <<>>, ends |-> TRUE]
    ELSE Walk(count, StartIndex(ring, hash[key]), <<>>, 0)

GetNodes(key, count) ==
    IF ring = <<>> THEN [nodes |-> <<>>, ends |-> TRUE]
    ELSE LET n == IF count > Cardinality(ringNodes)
                  THEN Cardinality(ringNodes) ELSE count
         IN  Walk(n, StartIndex(ring, hash[key]), <<>>, 0)

\* Sharding.GetQueueNode / GetQueueNodes / IsLocalQueue.
GetQueueNode(q) == GetNode(q)
GetQueueNodes(q) == GetNodes(q, Replication)
IsLocalQueue(local, q) == GetQueueNode(q) = local

-----------------------------------------------------------------------------
(* What consistent hashing promises, stated over the present nodes' points *)
(* rather than over ring and ringMembers.                                  *)

Points == UNION {VHashes(n) : n \in ringNodes}
SetMin(S) == CHOOSE x \in S : \A y \in S : x <= y

\* The point a key maps to: the least point at or after h, else the least.
SuccessorPoint(h) ==
    IF \E p \in Points : p >= h THEN SetMin({p \in Points : p >= h})
    ELSE SetMin(Points)

\* The nodes that have a point at p (more than one only on a collision).
OwnersOf(p) == {n \in ringNodes : p \in VHashes(n)}

\* The distinct owners met walking clockwise from the key's point.
RECURSIVE Dedup(_)
Dedup(s) == IF s = <<>> THEN <<>>
            ELSE <<Head(s)>> \o Dedup(SelectSeq(Tail(s), LAMBDA x : x # Head(s)))

ClockwiseOwners(h) ==
    LET ps == SetToSortSeq(Points, <)
        k  == CHOOSE i \in 1..Len(ps) : ps[i] = SuccessorPoint(h)
        rot == SubSeq(ps, k, Len(ps)) \o SubSeq(ps, 1, k-1)
    IN  Dedup([i \in 1..Len(rot) |-> CHOOSE n \in OwnersOf(rot[i]) : TRUE])

RingNext == \E n \in Nodes : AddNode(n) \/ RemoveNode(n)

RingSpec == RingInit /\ [][RingNext /\ UNCHANGED hash]_ringVars
==============================================================================
