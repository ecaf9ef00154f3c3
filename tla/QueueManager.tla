---------------------------- MODULE QueueManager ----------------------------
(***************************************************************************)
(* The queue manager of internal/queue/queue.go over one named queue: the *)
(* ready heap, the in-flight and dead-letter maps, the job objects they    *)
(* share, the WAL records the manager appends, the idempotency keys of the *)
(* store, the lease-timeout worker, and a crash followed by replayWAL.     *)
(*                                                                         *)
(* Request handlers run concurrently.  Enqueue, Ack and Nack are split at  *)
(* the points where the code releases the queue lock or calls the WAL, so *)
(* that the interleavings the code allows are all in the model:            *)
(*   Enqueue: (check key, create job, WAL append) ; (store key, push)      *)
(*   Ack:     (find in-flight, compare lease) ; WAL append ; delete        *)
(*   Nack:    (find in-flight, compare lease) ; (mutate job, WAL append) ; *)
(*            (delete, push or dead-letter)                                *)
(* Lease and the lease-timeout scan each run under the queue lock and are *)
(* single steps.                                                           *)
(***************************************************************************)
EXTENDS Naturals, Sequences, FiniteSets, SequencesExt, JobHeap

CONSTANTS
    Jobs,               \* job ids a run may allocate (uuid.New())
    Clients,            \* request handler goroutines
    Keys,               \* idempotency keys clients may present
    NoKey,              \* the empty idempotency key ""
    NoJob,              \* "no job" (an empty job id)
    Priorities,         \* priorities clients enqueue with
    Delays,             \* delay_ms values, in ticks
    MaxRetriesChoices,  \* RetryPolicy.MaxRetries values
    Visibility,         \* visibility timeout of a lease, in ticks
    BatchSizes,         \* max_jobs values of Lease
    BaseDelay,          \* backoff BaseDelay, in ticks
    MaxDelay,           \* backoff MaxDelay, in ticks
    MaxTime,            \* bound on the clock
    MaxLeases,          \* bound on the number of lease tokens issued
    MaxCrashes,         \* bound on process crashes
    MaxWalFailures,     \* bound on failed WAL appends
    StoreFailures       \* whether a Pebble write (SetIdempotencyKey) may fail

ASSUME NoKey \notin Keys /\ NoJob \notin Jobs
ASSUME Visibility \in Nat \ {0} /\ BatchSizes \subseteq Nat \ {0}
\* With MaxDelay below ten ticks the +/-10% jitter of the backoff is below
\* one tick, so Backoff(attempt) is a single value.
ASSUME BaseDelay \in Nat \ {0} /\ MaxDelay \in BaseDelay..9

VARIABLES
    mem,        \* in-memory state of the queue (lost on a crash)
    wal,        \* the durable WAL: sequence of records appended
    idem,       \* store: idempotency key -> job id
    req,        \* per-client request in progress
    now,        \* clock, in ticks
    seq,        \* time.Now() order of job creation (Job.EnqueuedAt)
    alloc,      \* job ids already handed out by uuid.New()
    held,       \* <<job, lease token, deadline>> returned to consumers
    tokens,     \* lease tokens issued so far (uuid for LeaseID)
    used,       \* tokens an Ack or Nack is acting on or has acted on
    voidBelow,  \* tokens up to this one were issued before the last crash
    keyed,      \* <<key, job>> for every Enqueue that created a job for a key
    crashes,    \* crashes so far
    walFails    \* failed WAL appends so far

vars == <<mem, wal, idem, req, now, seq, alloc, held, tokens, used, voidBelow,
          keyed, crashes, walFails>>

Statuses == {"ready", "inflight", "dlq"}
RecordTypes == {"ENQUEUE", "ACK", "NACK", "REQUEUE"}
NoLease == 0          \* Job.LeaseID == ""
NoDeadline == 0       \* Job.LeaseDeadline.IsZero()
Times == 0..(MaxTime + Visibility + MaxDelay + MaxDelay \div 10)

JobRec == [prio : Priorities, maxr : MaxRetriesChoices, tries : Nat,
           eta : Nat, lease : 0..MaxLeases, deadline : Nat,
           status : Statuses, enq : Nat]
NullJob == [prio |-> CHOOSE p \in Priorities : TRUE,
            maxr |-> CHOOSE r \in MaxRetriesChoices : TRUE, tries |-> 0,
            eta |-> 0, lease |-> NoLease, deadline |-> NoDeadline,
            status |-> "ready", enq |-> 0]

\* wal.Record, with the fields replay reads (queue, payload, headers,
\* lease id and reason do not influence any decision of the manager).
Rec(type, j, p, t, r, e) ==
    [type |-> type, job |-> j, prio |-> p, tries |-> t, maxr |-> r, eta |-> e]

IdleReq == [pc |-> "idle", job |-> NoJob, tok |-> NoLease, key |-> NoKey,
            retry |-> FALSE]

EmptyMem == [exists |-> FALSE, heap |-> <<>>, inflight |-> {}, dlq |-> {},
             job |-> [j \in Jobs |-> NullJob]]

-----------------------------------------------------------------------------
(* Job helpers (job.go).                                                   *)

\* Job.IsReady
IsReady(jr, t) == jr.status = "ready" /\ jr.eta <= t

\* Job.ShouldRetry
ShouldRetry(jr) == jr.tries < jr.maxr

\* jobHeap.Less over the current job objects J.
Less(J, a, b) ==
    IF J[a].prio # J[b].prio THEN J[a].prio > J[b].prio
    ELSE IF J[a].eta # J[b].eta THEN J[a].eta < J[b].eta
    ELSE J[a].enq < J[b].enq

\* The Less relation over the current job objects J.
LessRel(J) == {<<a, b>> \in Jobs \X Jobs : Less(J, a, b)}

\* priorityQueue.Push: a job already in the heap is not pushed again.
PQPush(m, j) ==
    IF j \in ToSet(m.heap) THEN m.heap ELSE HeapPush(m.heap, j, LessRel(m.job))

\* priorityQueue.Pop
PQPop(m) == HeapPop(m.heap, LessRel(m.job))

\* backoff.CalculateDefault(attempt) in ticks: base * 2^(attempt-1) capped at
\* MaxDelay, then +/- 10% jitter (truncated), never negative.
Backoff(attempt) ==
    IF attempt = 0 THEN {0}
    ELSE LET raw == IF BaseDelay * 2^(attempt - 1) > MaxDelay
                    THEN MaxDelay ELSE BaseDelay * 2^(attempt - 1)
         IN  (raw - raw \div 10)..(raw + raw \div 10)

-----------------------------------------------------------------------------
(* replayWAL: fold the records over an empty state.  A job created on     *)
(* replay gets EnqueuedAt = time.Now(), i.e. the next creation order.  As  *)
(* only the order of EnqueuedAt among live jobs matters to Less, the      *)
(* order is counted afresh from 0 after a restart.                        *)

ApplyRecord(s, r) ==
    LET m == s.mem IN
    CASE r.type = "ENQUEUE" ->
            LET m1 == [m EXCEPT !.exists = TRUE,
                          !.job[r.job] = [prio |-> r.prio, maxr |-> r.maxr,
                              tries |-> r.tries, eta |-> r.eta,
                              lease |-> NoLease, deadline |-> NoDeadline,
                              status |-> "ready", enq |-> s.seq]]
            IN  [mem |-> IF r.job \in ToSet(m.heap) THEN m
                         ELSE [m1 EXCEPT !.heap = PQPush(m1, r.job)],
                 seq |-> s.seq + 1]
      [] r.type = "ACK" ->
            [s EXCEPT !.mem.inflight = @ \ {r.job}]
      [] r.type \in {"NACK", "REQUEUE"} /\ r.job \in m.inflight ->
            LET jr == [m.job[r.job] EXCEPT !.tries = r.tries, !.eta = r.eta,
                          !.status = "ready", !.lease = NoLease,
                          !.deadline = NoDeadline]
                m1 == [m EXCEPT !.inflight = @ \ {r.job}, !.job[r.job] = jr]
            IN  [s EXCEPT !.mem =
                    IF ShouldRetry(jr) THEN [m1 EXCEPT !.heap = PQPush(m1, r.job)]
                    ELSE [m1 EXCEPT !.job[r.job].status = "dlq",
                                    !.dlq = @ \cup {r.job}]]
      [] OTHER -> s

Replay(w, s0) == FoldLeft(ApplyRecord, [mem |-> EmptyMem, seq |-> s0], w)

-----------------------------------------------------------------------------
Init ==
    /\ mem = EmptyMem
    /\ wal = <<>>
    /\ idem = [k \in Keys |-> NoJob]
    /\ req = [c \in Clients |-> IdleReq]
    /\ now = 0
    /\ seq = 0
    /\ alloc = {}
    /\ held = {}
    /\ tokens = 0
    /\ used = {}
    /\ voidBelow = 0
    /\ keyed = {}
    /\ crashes = 0
    /\ walFails = 0

\* A WAL append either succeeds (the record is durable) or fails; failures
\* are bounded by MaxWalFailures.
WalAppend(r) ==
    \/ /\ wal' = Append(wal, r)
       /\ UNCHANGED walFails
    \/ /\ walFails < MaxWalFailures
       /\ walFails' = walFails + 1
       /\ UNCHANGED wal

WalOk == wal' # wal

-----------------------------------------------------------------------------
EnqueueWrite(c) ==
    /\ req[c].pc = "idle"
    /\ \E key \in Keys \cup {NoKey}, p \in Priorities, d \in Delays,
          r \in MaxRetriesChoices, j \in Jobs \ alloc :
        /\ key # NoKey => idem[key] = NoJob
        /\ alloc' = alloc \cup {j}
        /\ seq' = seq + 1
        /\ mem' = [mem EXCEPT !.exists = TRUE,
                     !.job[j] = [prio |-> p, maxr |-> r, tries |-> 0,
                                 eta |-> now + d, lease |-> NoLease,
                                 deadline |-> NoDeadline, status |-> "ready",
                                 enq |-> seq]]
        /\ WalAppend(Rec("ENQUEUE", j, p, 0, r, now + d))
        /\ req' = [req EXCEPT ![c] = IF WalOk
                      THEN [IdleReq EXCEPT !.pc = "enq_commit", !.job = j,
                                           !.key = key]
                      ELSE IdleReq]
    /\ UNCHANGED <<idem, now, held, tokens, used, voidBelow, keyed, crashes>>

\* Manager.Enqueue after the WAL append: store the idempotency key (an error
\* is only logged, and the key stays unset), then
\* push the job into the ready heap under the queue lock.
EnqueueCommit(c) ==
    /\ req[c].pc = "enq_commit"
    /\ idem' \in IF req[c].key = NoKey THEN {idem}
                ELSE {[idem EXCEPT ![req[c].key] = req[c].job]}
                     \cup (IF StoreFailures THEN {idem} ELSE {})
    /\ keyed' = IF req[c].key = NoKey THEN keyed
                ELSE keyed \cup {<<req[c].key, req[c].job>>}
    /\ mem' = [mem EXCEPT !.heap = PQPush(mem, req[c].job)]
    /\ req' = [req EXCEPT ![c] = IdleReq]
    /\ UNCHANGED <<wal, now, seq, alloc, held, tokens, used, voidBelow, crashes, walFails>>

-----------------------------------------------------------------------------
(* Manager.Lease: under the queue lock, PopReady up to maxJobs times.     *)
(* PopReady looks at the heap top only and stops when it is not ready.    *)
RECURSIVE LeaseLoop(_, _, _, _)
LeaseLoop(m, k, t, dl) ==
    IF k = 0 \/ m.heap = <<>> \/ ~IsReady(m.job[m.heap[1]], now)
    THEN [mem |-> m, tok |-> t, got |-> {}]
    ELSE LET j  == m.heap[1]
             m1 == [m EXCEPT !.heap = PQPop(m),
                      !.job[j].lease = t + 1, !.job[j].deadline = dl,
                      !.job[j].status = "inflight",
                      !.inflight = @ \cup {j}]
             r  == LeaseLoop(m1, k - 1, t + 1, dl)
         IN  [r EXCEPT !.got = @ \cup {<<j, t + 1, dl>>}]

Lease(c) ==
    /\ req[c].pc = "idle"
    /\ mem.exists
    /\ \E n \in BatchSizes :
        LET r == LeaseLoop(mem, n, tokens, now + Visibility)
        IN  /\ r.got # {}
            /\ r.tok <= MaxLeases
            /\ mem' = r.mem
            /\ tokens' = r.tok
            /\ held' = held \cup r.got
    /\ UNCHANGED <<wal, idem, req, now, seq, alloc, used, voidBelow, keyed, crashes, walFails>>

-----------------------------------------------------------------------------
(* Manager.Ack / Manager.Nack, first part: find the job in the in-flight  *)
(* map (under the locks) and compare the presented lease id with the      *)
(* job's current one.  Any lease a consumer was given may be presented.   *)
FindAndCheck(c, next) ==
    /\ req[c].pc = "idle"
    /\ \E <<j, t, dl>> \in held :
        /\ j \in mem.inflight
        /\ mem.job[j].lease = t
        /\ req' = [req EXCEPT ![c] = [IdleReq EXCEPT !.pc = next, !.job = j,
                                                     !.tok = t]]
        /\ used' = used \cup {t}
    /\ UNCHANGED <<mem, wal, idem, now, seq, alloc, held, tokens, voidBelow, keyed,
                   crashes, walFails>>

AckCheck(c) == FindAndCheck(c, "ack_write")

\* Manager.Ack: append the ACK record; a failed append returns the error.
AckWrite(c) ==
    /\ req[c].pc = "ack_write"
    /\ WalAppend(Rec("ACK", req[c].job, 0, 0, 0, 0))
    /\ req' = [req EXCEPT ![c] = IF WalOk THEN [@ EXCEPT !.pc = "ack_apply"]
                                          ELSE IdleReq]
    /\ used' = IF WalOk THEN used ELSE used \ {req[c].tok}
    /\ UNCHANGED <<mem, idem, now, seq, alloc, held, tokens, voidBelow, keyed, crashes>>

\* Manager.Ack: delete the job from the in-flight map under the queue lock.
AckApply(c) ==
    /\ req[c].pc = "ack_apply"
    /\ mem' = [mem EXCEPT !.inflight = @ \ {req[c].job}]
    /\ req' = [req EXCEPT ![c] = IdleReq]
    /\ UNCHANGED <<wal, idem, now, seq, alloc, held, tokens, used, voidBelow, keyed, crashes, walFails>>

NackCheck(c) == FindAndCheck(c, "nack_write")

\* Manager.Nack, without any lock: Tries++, new ETA, lease cleared, status
\* set, then the NACK record is appended.  A failed append returns the
\* error but leaves the job object mutated.
NackWrite(c) ==
    /\ req[c].pc = "nack_write"
    /\ LET j  == req[c].job
           tr == mem.job[j].tries + 1
       IN  \E d \in Backoff(tr) :
           LET jr == [mem.job[j] EXCEPT !.tries = tr, !.eta = now + d,
                         !.lease = NoLease, !.deadline = NoDeadline]
               retry == ShouldRetry(jr)
           IN  /\ mem' = [mem EXCEPT !.job[j] =
                            [jr EXCEPT !.status = IF retry THEN "ready"
                                                  ELSE "dlq"]]
               /\ WalAppend(IF retry
                            THEN Rec("NACK", j, jr.prio, tr, jr.maxr, jr.eta)
                            ELSE Rec("NACK", j, 0, tr, 0, 0))
               /\ req' = [req EXCEPT ![c] =
                            IF WalOk THEN [@ EXCEPT !.pc = "nack_apply",
                                                    !.retry = retry]
                            ELSE IdleReq]
               /\ used' = IF WalOk THEN used ELSE used \ {req[c].tok}
    /\ UNCHANGED <<idem, now, seq, alloc, held, tokens, voidBelow, keyed, crashes>>

\* Manager.Nack under the queue lock: delete from in-flight, then push to
\* the ready heap or put into the dead-letter map.
NackApply(c) ==
    /\ req[c].pc = "nack_apply"
    /\ LET j  == req[c].job
           m1 == [mem EXCEPT !.inflight = @ \ {j}]
       IN  mem' = IF req[c].retry THEN [m1 EXCEPT !.heap = PQPush(m1, j)]
                  ELSE [m1 EXCEPT !.dlq = @ \cup {j}]
    /\ req' = [req EXCEPT ![c] = IdleReq]
    /\ UNCHANGED <<wal, idem, now, seq, alloc, held, tokens, used, voidBelow, keyed, crashes, walFails>>

-----------------------------------------------------------------------------
(* checkLeaseTimeouts: under the queue lock, every in-flight job whose    *)
(* deadline is set and before now gets Tries++, a new ETA and its lease   *)
(* cleared; it is pushed back and a REQUEUE record appended (the append's *)
(* error is ignored), or it is dead-lettered with no record at all.  Go   *)
(* map iteration order is random, hence any order of the expired jobs,    *)
(* and any of their appends may fail.  The ticker fires every second     *)
(* whether or not a lease has expired; a scan that finds none changes     *)
(* nothing.                                                               *)
Expired(m) ==
    {j \in m.inflight : m.job[j].deadline # NoDeadline /\ m.job[j].deadline < now}

\* Variant of the scan whose retry branch forgets delete(queue.inflight, id).
RECURSIVE ReclaimLoopKeepingInflight(_, _, _)
ReclaimLoopKeepingInflight(s, order, failed) ==
    IF order = <<>> THEN s
    ELSE LET j  == Head(order)
             tr == s.mem.job[j].tries + 1
             jr == [s.mem.job[j] EXCEPT !.tries = tr,
                       !.eta = now + CHOOSE d \in Backoff(tr) : TRUE,
                       !.lease = NoLease, !.deadline = NoDeadline]
             m1 == [s.mem EXCEPT !.inflight = @ \ {j}, !.job[j] = jr]
             s1 == IF ShouldRetry(jr)
                   THEN [mem |-> [s.mem EXCEPT !.job[j] = jr, !.job[j].status = "ready",
                                            !.heap = PQPush(m1, j)],
                         wal |-> IF j \in failed THEN s.wal
                                 ELSE Append(s.wal, Rec("REQUEUE", j, jr.prio,
                                                        tr, jr.maxr, jr.eta))]
                   ELSE [s EXCEPT !.mem = [m1 EXCEPT !.job[j].status = "dlq",
                                                     !.dlq = @ \cup {j}]]
         IN  ReclaimLoopKeepingInflight(s1, Tail(order), failed)

\* Variant of the scan that writes the wrong record type.
RECURSIVE ReclaimLoopTombstone(_, _, _)
ReclaimLoopTombstone(s, order, failed) ==
    IF order = <<>> THEN s
    ELSE LET j  == Head(order)
             tr == s.mem.job[j].tries + 1
             jr == [s.mem.job[j] EXCEPT !.tries = tr,
                       !.eta = now + CHOOSE d \in Backoff(tr) : TRUE,
                       !.lease = NoLease, !.deadline = NoDeadline]
             m1 == [s.mem EXCEPT !.inflight = @ \ {j}, !.job[j] = jr]
             s1 == IF ShouldRetry(jr)
                   THEN [mem |-> [m1 EXCEPT !.job[j].status = "ready",
                                            !.heap = PQPush(m1, j)],
                         wal |-> IF j \in failed THEN s.wal
                                 ELSE Append(s.wal, Rec("TOMBSTONE", j, jr.prio,
                                                        tr, jr.maxr, jr.eta))]
                   ELSE [s EXCEPT !.mem = [m1 EXCEPT !.job[j].status = "dlq",
                                                     !.dlq = @ \cup {j}]]
         IN  ReclaimLoopTombstone(s1, Tail(order), failed)

RECURSIVE ReclaimLoop(_, _, _)
ReclaimLoop(s, order, failed) ==
    IF order = <<>> THEN s
    ELSE LET j  == Head(order)
             tr == s.mem.job[j].tries + 1
             jr == [s.mem.job[j] EXCEPT !.tries = tr,
                       !.eta = now + CHOOSE d \in Backoff(tr) : TRUE,
                       !.lease = NoLease, !.deadline = NoDeadline]
             m1 == [s.mem EXCEPT !.inflight = @ \ {j}, !.job[j] = jr]
             s1 == IF ShouldRetry(jr)
                   THEN [mem |-> [m1 EXCEPT !.job[j].status = "ready",
                                            !.heap = PQPush(m1, j)],
                         wal |-> IF j \in failed THEN s.wal
                                 ELSE Append(s.wal, Rec("REQUEUE", j, jr.prio,
                                                        tr, jr.maxr, jr.eta))]
                   ELSE [s EXCEPT !.mem = [m1 EXCEPT !.job[j].status = "dlq",
                                                     !.dlq = @ \cup {j}]]
         IN  ReclaimLoop(s1, Tail(order), failed)

CheckLeaseTimeouts ==
    /\ \E order \in SetToSeqs(Expired(mem)),
          failed \in SUBSET Expired(mem) :
        /\ walFails + Cardinality(failed) <= MaxWalFailures
        /\ LET s == ReclaimLoop([mem |-> mem, wal |-> wal], order, failed)
           IN  /\ mem' = s.mem
               /\ wal' = s.wal
               /\ walFails' = walFails + Cardinality(failed)
    /\ UNCHANGED <<idem, req, now, seq, alloc, held, tokens, used, voidBelow, keyed, crashes>>

\* Time passes.
Tick ==
    /\ now < MaxTime
    /\ now' = now + 1
    /\ UNCHANGED <<mem, wal, idem, req, seq, alloc, held, tokens, used, voidBelow, keyed, crashes,
                   walFails>>

\* The process dies: memory and requests in progress are lost; on restart
\* Manager.Start runs replayWAL over the WAL.  Consumers keep the leases
\* they were given.
CrashRestart ==
    /\ crashes < MaxCrashes
    /\ LET s == Replay(wal, 0) IN
          /\ mem' = s.mem
          /\ seq' = s.seq
    /\ req' = [c \in Clients |-> IdleReq]
    /\ crashes' = crashes + 1
    /\ voidBelow' = tokens
    /\ UNCHANGED <<wal, idem, now, alloc, held, tokens, used, keyed, walFails>>

-----------------------------------------------------------------------------
Next ==
    \/ \E c \in Clients :
        \/ EnqueueWrite(c) \/ EnqueueCommit(c)
        \/ Lease(c)
        \/ AckCheck(c) \/ AckWrite(c) \/ AckApply(c)
        \/ NackCheck(c) \/ NackWrite(c) \/ NackApply(c)
    \/ CheckLeaseTimeouts
    \/ Tick
    \/ CrashRestart

Spec == Init /\ [][Next]_vars

\* The lease-timeout ticker fires every second, the clock advances, and a
\* handler goroutine that has started runs to completion.
FairSpec ==
    /\ Spec
    /\ WF_vars(CheckLeaseTimeouts)
    /\ WF_vars(Tick)
    /\ \A c \in Clients :
           WF_vars(EnqueueCommit(c) \/ AckWrite(c) \/ AckApply(c)
                   \/ NackWrite(c) \/ NackApply(c))

-----------------------------------------------------------------------------
(* Properties.                                                              *)

TypeOK ==
    /\ mem.exists \in BOOLEAN
    /\ mem.heap \in Seq(Jobs)
    /\ mem.inflight \subseteq Jobs /\ mem.dlq \subseteq Jobs
    /\ mem.job \in [Jobs -> JobRec]
    /\ \A i \in 1..Len(wal) : wal[i].type \in RecordTypes /\ wal[i].job \in Jobs
    /\ idem \in [Keys -> Jobs \cup {NoJob}]
    /\ \A c \in Clients : req[c].pc \in {"idle", "enq_commit", "ack_write",
                              "ack_apply", "nack_write", "nack_apply"}
    /\ now \in 0..MaxTime
    /\ alloc \subseteq Jobs
    /\ held \subseteq Jobs \X (1..MaxLeases) \X Times
    /\ tokens \in 0..MaxLeases
    /\ used \subseteq 1..MaxLeases
    /\ voidBelow \in 0..tokens
    /\ keyed \subseteq Keys \X Jobs

-----------------------------------------------------------------------------
(* Views of the state used by the properties.                             *)

InHeap == ToSet(mem.heap)
Present(j) == j \in InHeap \cup mem.inflight \cup mem.dlq
Logged(type, j) == \E i \in 1..Len(wal) : wal[i].type = type /\ wal[i].job = j
Committing(j) == \E c \in Clients : req[c].pc = "enq_commit" /\ req[c].job = j

\* A lease a consumer holds and may still use: issued since the last
\* restart, its deadline not yet passed, and not yet consumed by an Ack or
\* Nack that got past the lease check.
LiveLease(l) == l[2] > voidBelow /\ l[2] \notin used /\ now <= l[3]

LeaseSeesDeliverable ==
    (\E j \in InHeap : IsReady(mem.job[j], now))
        => IsReady(mem.job[mem.heap[1]], now)

\* Spec I4 and the retry test (MaxRetries = 2 survives two Nacks): Nack and
\* checkLeaseTimeouts dead-letter a job only once its attempts exceed its
\* maximum.
DeadOnlyAfterMaxAttempts ==
    \A j \in mem.dlq : mem.job[j].tries > mem.job[j].maxr

\* Spec I3 and 4.10: an acked job is gone for good, also after a restart
\* has rebuilt the queue with replayWAL: it is never back in the ready heap.
AckedStaysAcked ==
    \A j \in Jobs : Logged("ACK", j) => j \notin InHeap

\* Spec I5 and 4.10: a lease is honoured until it expires or is used: while
\* a consumer holds a live lease on a job, the job stays in flight under
\* that lease, so the holder's Ack or Nack will be accepted.  Ack and Nack
\* check the lease under the lock and act after releasing it.
LeaseHonoured ==
    \A l \in held :
        LiveLease(l) => l[1] \in mem.inflight /\ mem.job[l[1]].lease = l[2]

\* Spec 5 ("persists every state transition"): a job is dead-lettered in
\* memory only after a record carrying its final attempt count is in the
\* WAL; checkLeaseTimeouts dead-letters expired jobs.
DeadLetterLogged ==
    \A j \in mem.dlq :
        \E i \in 1..Len(wal) : /\ wal[i].type \in {"NACK", "REQUEUE"}
                               /\ wal[i].job = j
                               /\ wal[i].tries = mem.job[j].tries

\* Spec 4.10 and test 5: Enqueue with an idempotency key creates at most
\* one job per key; a second Enqueue returns the first job's id.  The key
\* is looked up before the WAL append and stored after it.
OneJobPerKey ==
    \A a, b \in keyed : a[1] = b[1] => a[2] = b[2]

\* In flight, yet no consumer holds a live lease on it any more.
Orphaned(j) ==
    j \in mem.inflight /\ ~\E l \in held : l[1] = j /\ LiveLease(l)

\* An in-flight job that nobody can Ack or Nack any more eventually leaves
\* the in-flight map: checkLeaseTimeouts, run every second, reclaims it once
\* its deadline has passed, or the Ack or Nack acting on it completes.
InflightEventuallyResolved ==
    \A j \in Jobs : Orphaned(j) ~> j \notin mem.inflight

==============================================================================
