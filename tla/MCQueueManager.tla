--------------------------- MODULE MCQueueManager ---------------------------
(* Instantiates QueueManager for TLC: two jobs, two request handlers, one  *)
(* idempotency key.                                                        *)
EXTENDS QueueManager, TLC

CONSTANTS j1, j2, c1, c2, k1

MCJobs == {j1, j2}
MCClients == {c1, c2}
MCKeys == {k1}
MCOneClient == {c1}

Symmetry == Permutations(MCJobs) \cup Permutations(MCClients)
==============================================================================
