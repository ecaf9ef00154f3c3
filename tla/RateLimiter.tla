----------------------------- MODULE RateLimiter -----------------------------
(***************************************************************************)
(* The per-queue rate limiter of internal/ratelimit: a Limiter maps queue *)
(* names to TokenBuckets.  Manager.Enqueue consults it (Limiter.Allow)    *)
(* from any number of request goroutines while SetRateLimit changes it    *)
(* (Limiter.SetRate).  Time is in ticks and rates are whole tokens per    *)
(* tick, so elapsed * refillRate is a whole number of tokens.             *)
(***************************************************************************)
EXTENDS Naturals, Sequences, FiniteSets

CONSTANTS
    Queues,       \* queue names
    Clients,      \* goroutines calling Limiter.Allow
    Caps,         \* capacities SetRate may be given (0 disables)
    Rates,        \* refill rates SetRate may be given (0 disables)
    MaxTime,      \* bound on the clock
    MaxCalls,     \* bound on Limiter.Allow and Limiter.Tokens calls
    MaxSetRates   \* bound on Limiter.SetRate calls

VARIABLES
    buckets,      \* Limiter.buckets: queue -> TokenBucket, for the queues with a limit
    now,          \* time.Now(), in ticks
    pc,           \* each client's place inside Limiter.Allow
    calls,        \* Allow and Tokens calls so far
    setRates,     \* SetRate calls so far
    grants,       \* per queue: the times of the Allows that took a token since the last SetRate
    refusedOff    \* some Allow returned false from a bucket whose limiting was off

vars == <<buckets, now, pc, calls, setRates, grants, refusedOff>>

Bucket == [capacity : Caps, tokens : Nat, refillRate : Rates,
           lastRefill : 0..MaxTime, enabled : BOOLEAN]

\* enabled: capacity > 0 && refillRate > 0
Enabled(capacity, refillRate) == capacity > 0 /\ refillRate > 0

\* NewTokenBucket: full, refilled now.
NewTokenBucket(capacity, refillRate) ==
    [capacity |-> capacity, tokens |-> capacity, refillRate |-> refillRate,
     lastRefill |-> now, enabled |-> Enabled(capacity, refillRate)]

\* Mutant: refill without the cap at capacity.
RefillUncapped(b) ==
    [b EXCEPT !.tokens = @ + (now - b.lastRefill) * b.refillRate,
              !.lastRefill = now]

\* TokenBucket.refill: add the tokens earned since lastRefill, up to capacity.
Refill(b) ==
    LET t == b.tokens + (now - b.lastRefill) * b.refillRate
    IN  [b EXCEPT !.tokens = IF t > b.capacity THEN b.capacity ELSE t,
                  !.lastRefill = now]

\* TokenBucket.SetRate: refill at the old rate, then take the new
\* parameters, and cut the tokens to the new capacity.
SetBucketRate(b, capacity, refillRate) ==
    LET r == Refill(b)
    IN  [r EXCEPT !.capacity = capacity, !.refillRate = refillRate,
                  !.enabled = Enabled(capacity, refillRate),
                  !.tokens = IF @ > capacity THEN capacity ELSE @]

Idle == [at |-> "idle", q |-> CHOOSE q \in Queues : TRUE]

Init ==
    /\ buckets = [q \in {} |-> NewTokenBucket(0, 0)]
    /\ now = 0
    /\ pc = [c \in Clients |-> Idle]
    /\ calls = 0 /\ setRates = 0
    /\ grants = [q \in Queues |-> <<>>]
    /\ refusedOff = FALSE

-----------------------------------------------------------------------------
(* Limiter.Allow(q) and TokenBucket.AllowN(1), split where one goroutine  *)
(* can be overtaken by another.                                           *)

\* Look the bucket up under l.mu.RLock and release it; with no bucket the
\* queue has no limit and the call returns true.
AllowLookup(c, q) ==
    /\ pc[c].at = "idle" /\ calls < MaxCalls
    /\ calls' = calls + 1
    /\ IF q \in DOMAIN buckets
       THEN pc' = [pc EXCEPT ![c] = [at |-> "check", q |-> q]]
       ELSE UNCHANGED pc
    /\ UNCHANGED <<buckets, now, setRates, grants, refusedOff>>

\* AllowN reads tb.enabled without holding tb.mu and returns true when
\* limiting is off.  (The bucket object is never replaced, so the pointer
\* taken in AllowLookup is buckets[q].)
AllowCheck(c) ==
    /\ pc[c].at = "check"
    /\ pc' = [pc EXCEPT ![c] = IF buckets[pc[c].q].enabled
                                THEN [@ EXCEPT !.at = "locked"] ELSE Idle]
    /\ UNCHANGED <<buckets, now, calls, setRates, grants, refusedOff>>

\* Mutant: the comparison is off by one.
HasTokenOffByOne(b) == b.tokens >= 0

\* AllowN(1): tokens >= n.
HasToken(b) == b.tokens >= 1

\* Under tb.mu: refill, then take a token if there is one.
AllowTake(c) ==
    /\ pc[c].at = "locked"
    /\ LET q == pc[c].q
           b == Refill(buckets[q])
       IN  IF HasToken(b)
           THEN /\ buckets' = [buckets EXCEPT ![q] = [b EXCEPT !.tokens = @ - 1]]
                /\ grants' = [grants EXCEPT ![q] = Append(@, now)]
                /\ UNCHANGED refusedOff
           ELSE /\ buckets' = [buckets EXCEPT ![q] = b]
                /\ refusedOff' = (refusedOff \/ ~b.enabled)
                /\ UNCHANGED grants
    /\ pc' = [pc EXCEPT ![c] = Idle]
    /\ UNCHANGED <<now, calls, setRates>>

\* Limiter.SetRate under l.mu: create the bucket, or TokenBucket.SetRate
\* under tb.mu.  A new configuration starts a new window of grants.
SetRate(q, capacity, refillRate) ==
    /\ setRates < MaxSetRates
    /\ setRates' = setRates + 1
    /\ buckets' = IF q \in DOMAIN buckets
                  THEN [buckets EXCEPT ![q] = SetBucketRate(@, capacity, refillRate)]
                  ELSE [r \in DOMAIN buckets \cup {q} |->
                          IF r = q THEN NewTokenBucket(capacity, refillRate)
                          ELSE buckets[r]]
    /\ grants' = [grants EXCEPT ![q] = <<>>]
    /\ UNCHANGED <<now, pc, calls, refusedOff>>

\* Limiter.Tokens / TokenBucket.Tokens (the stats path): refill under
\* tb.mu and report the tokens.
Tokens(q) ==
    /\ q \in DOMAIN buckets /\ calls < MaxCalls
    /\ calls' = calls + 1
    /\ buckets' = [buckets EXCEPT ![q] = Refill(@)]
    /\ UNCHANGED <<now, pc, setRates, grants, refusedOff>>

Tick ==
    /\ now < MaxTime
    /\ now' = now + 1
    /\ UNCHANGED <<buckets, pc, calls, setRates, grants, refusedOff>>

Next ==
    \/ \E c \in Clients, q \in Queues : AllowLookup(c, q)
    \/ \E c \in Clients : AllowCheck(c) \/ AllowTake(c)
    \/ \E q \in Queues, cap \in Caps, rate \in Rates : SetRate(q, cap, rate)
    \/ \E q \in Queues : Tokens(q)
    \/ Tick

Spec == Init /\ [][Next]_vars

-----------------------------------------------------------------------------
TypeOK ==
    /\ DOMAIN buckets \subseteq Queues
    /\ \A q \in DOMAIN buckets : buckets[q] \in Bucket
    /\ now \in 0..MaxTime
    /\ grants \in [Queues -> Seq(0..MaxTime)]

\* The token bucket's promise (spec 4.7): under one configuration, any
\* run of consecutive admissions by tokens, from the i-th to the j-th,
\* fits in capacity plus what the rate earns between them.  Refill,
\* the take under tb.mu, SetRate's cut to the new capacity and concurrent
\* Allows all bear on it.
RateBound ==
    \A q \in DOMAIN buckets :
        LET g == grants[q]
        IN  \A i, j \in 1..Len(g) :
                i <= j =>
                    j - i + 1 <= buckets[q].capacity
                                 + buckets[q].refillRate * (g[j] - g[i])

\* Spec 4.7: allow() decides atomically, and zero capacity or rate
\* disables limiting; so no Allow is refused by a bucket whose limiting is
\* off.  AllowN reads enabled before it takes tb.mu.
NoDenyWhenUnlimited == ~refusedOff
==============================================================================
