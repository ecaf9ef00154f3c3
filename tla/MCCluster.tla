------------------------------ MODULE MCCluster ------------------------------
(* Cluster for TLC: three nodes with two points each, two queues, two     *)
(* concurrent admin requests.  Each hash places the queues on a point, in *)
(* a gap, below the least point or past the greatest, so GetNode's search *)
(* meets every case, including the wrap-around.                           *)
EXTENDS Cluster

CONSTANTS n1, n2, n3, q1, q2, a1, a2

\* The admin requests are interchangeable.
AdminSymmetry == Permutations({a1, a2})

\* Points interleaved across the nodes; q1 on n2's point 3, q2 past them all.
HashInterleaved ==
    (<<n1, 0>> :> 1) @@ (<<n1, 1>> :> 5) @@ (<<n2, 0>> :> 3) @@ (<<n2, 1>> :> 6)
    @@ (<<n3, 0>> :> 2) @@ (<<n3, 1>> :> 7) @@ (q1 :> 3) @@ (q2 :> 8)

\* Each node's points adjacent, appended out of order; q1 below them all.
HashClustered ==
    (<<n1, 0>> :> 2) @@ (<<n1, 1>> :> 1) @@ (<<n2, 0>> :> 5) @@ (<<n2, 1>> :> 3)
    @@ (<<n3, 0>> :> 6) @@ (<<n3, 1>> :> 4) @@ (q1 :> 0) @@ (q2 :> 4)

MCHashes == {HashInterleaved, HashClustered}

\* The liveness run has no symmetry, so it takes one layout: its queues
\* hash onto a point and past the greatest point (the wrap-around); a gap
\* arises whenever the point's node is absent.
MCLiveHashes == {HashInterleaved}

\* n1:1 and n2:0 hash to the same 32-bit value.
HashCollision ==
    (<<n1, 0>> :> 1) @@ (<<n1, 1>> :> 4) @@ (<<n2, 0>> :> 4) @@ (<<n2, 1>> :> 6)
    @@ (<<n3, 0>> :> 2) @@ (<<n3, 1>> :> 7) @@ (q1 :> 3) @@ (q2 :> 5)

MCCollidingHashes == {HashCollision}
==============================================================================
