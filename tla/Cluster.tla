------------------------------- MODULE Cluster -------------------------------
(***************************************************************************)
(* The cluster control plane on the leader: the join/leave/announce        *)
(* handlers of ClusterServer (internal/metrics/metrics.go) drive           *)
(* Membership (internal/cluster/membership.go) and the Sharding ring       *)
(* (HashRing) under their own locks, one after the other, while the        *)
(* membership health-check goroutine probes members and moves them alive   *)
(* -> suspect -> dead, and GetRebalanceInfo reads the ring queue by queue. *)
(* Every lock-protected call is one step; a handler or loop that makes     *)
(* several calls is a process with a program counter between them.         *)
(***************************************************************************)
EXTENDS HashRing

CONSTANTS
    LocalID,        \* Membership.localID, the node this process runs on
    Admins,         \* concurrent HTTP requests to /cluster/join and /leave
    MaxRequests     \* bound on join, leave, announce and rebalance calls

ASSUME LocalID \in Nodes

Status == {"alive", "suspect", "dead"}

VARIABLES
    members,        \* Membership.members: node ID -> Member.Status
    adm,            \* each request handler: the call it is between
    requests,       \* requests served so far
    hc,             \* the healthCheckLoop goroutine
    stopped,        \* stopCh closed by Membership.Stop
    rb              \* a GetRebalanceInfo call in progress

vars == <<hash, ring, ringMembers, ringNodes, members, adm, requests, hc,
          stopped, rb>>

IdleAdm == [op |-> "none", node |-> NoNode]
IdleHc  == [at |-> "idle", todo |-> {}, m |-> NoNode, to |-> "alive"]
IdleRb  == [at |-> "idle", todo |-> {}, mapping |-> <<>>, local |-> 0]

Init ==
    /\ RingInit
    /\ members = <<>>
    /\ adm = [a \in Admins |-> IdleAdm]
    /\ requests = 0
    /\ hc = IdleHc
    /\ stopped = FALSE
    /\ rb = IdleRb

\* A nil dereference in the health-check goroutine ends the process.
Running == hc.at # "panicked"

-----------------------------------------------------------------------------
(* Membership, each under m.mu.                                            *)

\* AddMember: an error if the ID is present, else the member joins alive.
AddMember(n) ==
    members' = IF n \in DOMAIN members THEN members
               ELSE members @@ (n :> "alive")

RemoveMember(n) ==
    members' = [x \in DOMAIN members \ {n} |-> members[x]]

\* UpdateMemberStatus: only a present member changes.
UpdateMemberStatus(n, s) ==
    members' = IF n \in DOMAIN members THEN [members EXCEPT ![n] = s]
               ELSE members

-----------------------------------------------------------------------------
(* ClusterServer handlers on the leader.  The not-leader, bad-body and     *)
(* Raft Join/Remove error paths return before any state changes, so they   *)
(* are not steps.  An AddMember or RemoveMember error is only logged and   *)
(* the handler goes on to the ring.                                        *)

NewRequest(a) ==
    /\ Running /\ adm[a] = IdleAdm /\ requests < MaxRequests
    /\ requests' = requests + 1

\* joinNode: node.Join, then membership.AddMember ...
JoinMember(a, n) ==
    /\ NewRequest(a)
    /\ AddMember(n)
    /\ adm' = [adm EXCEPT ![a] = [op |-> "join", node |-> n]]
    /\ UNCHANGED <<ringVars, hc, stopped, rb>>

\* ... then sharding.AddNode.
JoinRing(a) ==
    /\ Running /\ adm[a].op = "join"
    /\ AddNode(adm[a].node)
    /\ adm' = [adm EXCEPT ![a] = IdleAdm]
    /\ UNCHANGED <<hash, members, requests, hc, stopped, rb>>

\* leaveNode: node.Remove, then membership.RemoveMember ...
LeaveMember(a, n) ==
    /\ NewRequest(a)
    /\ RemoveMember(n)
    /\ adm' = [adm EXCEPT ![a] = [op |-> "leave", node |-> n]]
    /\ UNCHANGED <<ringVars, hc, stopped, rb>>

\* ... then sharding.RemoveNode.
LeaveRing(a) ==
    /\ Running /\ adm[a].op = "leave"
    /\ RemoveNode(adm[a].node)
    /\ adm' = [adm EXCEPT ![a] = IdleAdm]
    /\ UNCHANGED <<hash, members, requests, hc, stopped, rb>>

\* announceNode (any node may call it): AddMember, and on its error
\* UpdateMemberStatus(alive); either way the member ends up alive.  The
\* ring is not touched.
Announce(n) ==
    /\ Running /\ requests < MaxRequests
    /\ requests' = requests + 1
    /\ members' = (n :> "alive") @@ members
    /\ UNCHANGED <<ringVars, adm, hc, stopped, rb>>

-----------------------------------------------------------------------------
(* healthCheckLoop and checkMemberHealth.  ListMembers copies the members  *)
(* under RLock; each copy is then probed (isHealthy: an HTTP GET with no   *)
(* lock held), and an unhealthy member's current status is read again      *)
(* under RLock and moved one place towards dead by UpdateMemberStatus.     *)

\* ListMembers: copies of every member, taken under RLock.
ListMembers == DOMAIN members

\* isHealthy: an empty Addr, a transport error or timeout, or a status
\* other than 200 give FALSE; what the network does is not modelled.
IsHealthy(m) == BOOLEAN

Continue(todo) == IF todo = {} THEN "idle" ELSE "probe"

\* A ticker.C tick: checkMemberHealth's ListMembers, skipping self.
HealthTick ==
    /\ Running /\ hc.at = "idle"
    /\ LET todo == ListMembers \ {LocalID}
       IN  hc' = [IdleHc EXCEPT !.at = Continue(todo), !.todo = todo]
    /\ UNCHANGED <<ringVars, members, adm, requests, stopped, rb>>

\* isHealthy(member): healthy members are marked alive at once.
HealthProbe(m) ==
    /\ Running /\ hc.at = "probe" /\ m \in hc.todo
    /\ \E healthy \in IsHealthy(m) :
          LET rest == hc.todo \ {m}
          IN  IF healthy
              THEN /\ UpdateMemberStatus(m, "alive")
                   /\ hc' = [hc EXCEPT !.todo = rest, !.at = Continue(rest)]
              ELSE /\ hc' = [hc EXCEPT !.todo = rest, !.at = "read", !.m = m]
                   /\ UNCHANGED members
    /\ UNCHANGED <<ringVars, adm, requests, stopped, rb>>

\* Mutant: a suspect member is left as it is, like a dead one.
HealthReadNoEscalate ==
    /\ Running /\ hc.at = "read"
    /\ hc' = IF hc.m \notin DOMAIN members THEN [hc EXCEPT !.at = "panicked"]
             ELSE IF members[hc.m] = "alive" THEN [hc EXCEPT !.at = "update", !.to = "suspect"]
             ELSE [hc EXCEPT !.at = Continue(hc.todo)]
    /\ UNCHANGED <<ringVars, members, adm, requests, stopped, rb>>

\* currentStatus := m.members[member.ID].Status under RLock: a member
\* removed since ListMembers is a nil pointer here.
HealthRead ==
    /\ Running /\ hc.at = "read"
    /\ hc' = IF hc.m \notin DOMAIN members THEN [hc EXCEPT !.at = "panicked"]
             ELSE CASE members[hc.m] = "alive"   -> [hc EXCEPT !.at = "update", !.to = "suspect"]
                    [] members[hc.m] = "suspect" -> [hc EXCEPT !.at = "update", !.to = "dead"]
                    [] OTHER                     -> [hc EXCEPT !.at = Continue(hc.todo)]
    /\ UNCHANGED <<ringVars, members, adm, requests, stopped, rb>>

\* UpdateMemberStatus(member.ID, suspect or dead), under a fresh Lock.
HealthUpdate ==
    /\ Running /\ hc.at = "update"
    /\ UpdateMemberStatus(hc.m, hc.to)
    /\ hc' = [hc EXCEPT !.at = Continue(hc.todo)]
    /\ UNCHANGED <<ringVars, adm, requests, stopped, rb>>

\* Membership.Stop closes stopCh ...
Stop ==
    /\ Running /\ ~stopped
    /\ stopped' = TRUE
    /\ UNCHANGED <<ringVars, members, adm, requests, hc, rb>>

\* ... and the loop's select returns once it is back waiting.
HealthExit ==
    /\ Running /\ hc.at = "idle" /\ stopped
    /\ hc' = [hc EXCEPT !.at = "exited"]
    /\ UNCHANGED <<ringVars, members, adm, requests, stopped, rb>>

-----------------------------------------------------------------------------
(* Sharding.GetRebalanceInfo(allQueues): one GetQueueNode call per queue,   *)
(* in the slice's order, then GetLocalQueues, which calls IsLocalQueue per *)
(* queue again; each call takes the ring's RLock on its own.               *)

NextQueue(todo) == CHOOSE q \in todo : TRUE

\* A call may start once the previous one has returned ("done").
RebalanceBegin ==
    /\ Running /\ rb.at \in {"idle", "done"} /\ requests < MaxRequests
    /\ requests' = requests + 1
    /\ rb' = [IdleRb EXCEPT !.at = "map", !.todo = Queues]
    /\ UNCHANGED <<ringVars, members, adm, hc, stopped>>

\* queueMappings[queue] = node, skipping a queue whose lookup errs.
RebalanceMap ==
    /\ Running /\ rb.at = "map"
    /\ LET q == NextQueue(rb.todo)
           node == GetQueueNode(q)
           rest == rb.todo \ {q}
       IN  rb' = [rb EXCEPT !.mapping = IF node = NoNode THEN @ ELSE @ @@ (q :> node),
                            !.todo = IF rest = {} THEN Queues ELSE rest,
                            !.at = IF rest = {} THEN "local" ELSE "map"]
    /\ UNCHANGED <<ringVars, members, adm, requests, hc, stopped>>

\* GetLocalQueues: count the queues IsLocalQueue(localNodeID) reports.
RebalanceLocal ==
    /\ Running /\ rb.at = "local"
    /\ LET q == NextQueue(rb.todo)
           rest == rb.todo \ {q}
       IN  rb' = [rb EXCEPT !.local = IF IsLocalQueue(LocalID, q) THEN @ + 1 ELSE @,
                            !.todo = rest,
                            !.at = IF rest = {} THEN "done" ELSE "local"]
    /\ UNCHANGED <<ringVars, members, adm, requests, hc, stopped>>

-----------------------------------------------------------------------------
Next ==
    \/ \E a \in Admins, n \in Nodes : JoinMember(a, n) \/ LeaveMember(a, n)
    \/ \E a \in Admins : JoinRing(a) \/ LeaveRing(a)
    \/ \E n \in Nodes : Announce(n)
    \/ HealthTick \/ HealthRead \/ HealthUpdate \/ Stop \/ HealthExit
    \/ \E m \in Nodes : HealthProbe(m)
    \/ RebalanceBegin \/ RebalanceMap \/ RebalanceLocal

Spec == Init /\ [][Next]_vars

\* The ticker fires every healthCheckInterval while the loop waits, and the
\* goroutine runs each check to its end (isHealthy has a timeout); the
\* select sees a closed stopCh.  Nothing is assumed of the admin clients.
FairSpec ==
    /\ Spec
    /\ WF_vars(HealthTick)
    /\ WF_vars(\E m \in Nodes : HealthProbe(m))
    /\ WF_vars(HealthRead)
    /\ WF_vars(HealthUpdate)
    /\ WF_vars(HealthExit)

-----------------------------------------------------------------------------
TypeOK ==
    /\ hash \in HashChoices
    /\ ring \in Seq(UNION {VHashes(n) : n \in Nodes})
    /\ DOMAIN ringMembers \subseteq ToSet(ring)
    /\ ringNodes \subseteq Nodes
    /\ DOMAIN members \subseteq Nodes
    /\ \A n \in DOMAIN members : members[n] \in Status
    /\ adm \in [Admins -> {IdleAdm} \cup [op : {"join", "leave"}, node : Nodes]]
    /\ hc.at \in {"idle", "probe", "read", "update", "panicked", "exited"}
    /\ rb.at \in {"idle", "map", "local", "done"}

\* GetQueueNode (a binary search over ring, then ringMembers) names, for
\* every queue, the node owning the first of the present nodes' points at
\* or after the queue's hash, wrapping round: the ring is sorted and
\* ringMembers agrees with the node set after any sequence of AddNode and
\* RemoveNode, whichever handler made them.
QueueOwnerIsSuccessor ==
    \A q \in Queues :
        IF ringNodes = {} THEN GetQueueNode(q) = NoNode
        ELSE GetQueueNode(q) \in OwnersOf(SuccessorPoint(hash[q]))

\* GetQueueNodes returns the first min(replication, node count) distinct
\* nodes met clockwise from the queue's point: its walk ends, holds no
\* duplicate, and starts at the primary.
ReplicasAreClockwise ==
    \A q \in Queues :
        ringNodes # {} =>
            LET want == ClockwiseOwners(hash[q])
            IN  /\ GetQueueNodes(q).ends
                /\ GetQueueNodes(q).nodes = SubSeq(want, 1, IF Replication < Len(want)
                                                        THEN Replication ELSE Len(want))

\* Consistent hashing's promise: when a node joins or leaves the ring,
\* the only queues whose primary changes are those moving to the node
\* that joined or away from the node that left.
MinimalDisruption ==
    [][\A q \in Queues :
          GetQueueNode(q)' # GetQueueNode(q) =>
              \/ GetQueueNode(q)' \in ringNodes' \ ringNodes
              \/ GetQueueNode(q) \in ringNodes \ ringNodes']_vars

\* The comment in checkMemberHealth: "Mark as suspect first, then dead if
\* still unhealthy".  A suspect member does not stay suspect: a later
\* check marks it alive or dead, unless it leaves, the loop is stopped, or
\* the process has died.
SuspectResolved ==
    \A n \in Nodes :
        (n \in DOMAIN members /\ members[n] = "suspect")
            ~> \/ n \notin DOMAIN members \/ members[n] # "suspect"
               \/ stopped \/ ~Running

\* checkMemberHealth never dereferences a member that is gone: a member
\* removed by leaveNode while its health probe is in flight would be a nil
\* *Member at membership.go:206 and panic the process.
HealthCheckNeverPanics == hc.at # "panicked"

\* When no join or leave is half done, every node on the ring is a member,
\* so Proxy.ForwardRequest can resolve the owner of each queue.
RingWithinMembership ==
    (\A a \in Admins : adm[a] = IdleAdm) => ringNodes \subseteq DOMAIN members

\* The health check marks a member dead only after a failed probe found it
\* suspect: it never jumps from alive to dead in one update.
DeadOnlyAfterSuspect ==
    [][\A n \in DOMAIN members \cap DOMAIN members' :
          members'[n] = "dead" /\ members[n] # "dead" => members[n] = "suspect"]_vars

\* A returned RebalanceInfo counts as local exactly the queues its
\* QueueMappings assign to the local node.
RebalanceConsistent ==
    rb.at = "done" =>
        rb.local = Cardinality({q \in DOMAIN rb.mapping : rb.mapping[q] = LocalID})
==============================================================================
