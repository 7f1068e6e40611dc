---------------------------- MODULE RateLimiter -----------------------------
(***************************************************************************)
(* middleware/ratelimit.go: one token bucket per client key, looked up and *)
(* charged under one mutex, and a cleanup goroutine that deletes buckets   *)
(* no request has refilled for a long time.                                *)
(*                                                                         *)
(* Time is relative: a bucket carries now - lastRefill (its idle time), in *)
(* ticks.  Time may pass between any two steps, also while the mutex is    *)
(* held; only a due sweep is bounded, by MaxLag ticks of scheduling and    *)
(* lock delay.  The arithmetic of consume is exact: tokensToAdd is the     *)
(* integer part of minutes elapsed times the rate.                         *)
(***************************************************************************)
EXTENDS Window

CONSTANTS Requests,     \* concurrent handler goroutines
          ClientOf,     \* ClientOf[r]: the key of the requests r serves
          EvictAge,     \* the 30 minutes of cleanupBuckets, in ticks
          SweepPeriod,  \* the 10 minutes of its ticker, in ticks
          MaxLag,       \* ticks by which a due sweep may be delayed
          Free,         \* mutex value: nobody holds rl.mutex
          SinceCap      \* bound of the ghost sinceAdmit

ASSUME LimiterAssumption ==
  /\ ClientOf \in [Requests -> Clients]
  /\ Free \notin Requests
  /\ EvictAge \in Nat
  /\ SweepPeriod \in Nat
  /\ MaxLag \in Nat
  /\ MaxLag < SweepPeriod
  /\ SinceCap \in Nat

VARIABLES buckets,     \* rl.buckets: a partial function on Clients
          mutex,       \* the request holding rl.mutex, or Free
          request,     \* request[r]: where handler goroutine r stands
          ticker,      \* the cleanup goroutine's time.Ticker
          audit,       \* ghost: observation window over Audited
          sinceAdmit   \* ghost: ticks since Audited was last admitted

vars == <<buckets, mutex, request, ticker, audit, sinceAdmit>>

Bucket == [tokens : 0 .. BurstSize, idle : Nat]

TypeOK ==
  /\ DOMAIN buckets \subseteq Clients
  /\ \A c \in DOMAIN buckets : buckets[c] \in Bucket
  /\ mutex \in Requests \cup {Free}
  /\ request \in [Requests -> {"idle", "held", "admitted", "refused"}]
  /\ ticker \in [elapsed : 0 .. SweepPeriod - 1, pending : BOOLEAN]
  /\ audit \in WindowType
  /\ sinceAdmit \in 0 .. SinceCap

Init ==
  /\ buckets = [c \in {} |-> [tokens |-> 0, idle |-> 0]]
  /\ mutex = Free
  /\ request = [r \in Requests |-> "idle"]
  /\ ticker = [elapsed |-> 0, pending |-> FALSE]
  /\ audit = Closed
  /\ sinceAdmit = SinceCap

-----------------------------------------------------------------------------

\* Wrong variants of the definitions below, named Bad*, stand before them:
\* each is a slip the properties are there to notice.
BadNewBucketEmpty == [tokens |-> 0, idle |-> 0]

\* The bucket allowRequest creates for a key it has not seen.
NewBucket == [tokens |-> BurstSize, idle |-> 0]

\* tokensToAdd, truncated by the conversion to int.
TokensToAdd(b) == (b.idle * RequestsPerMinute) \div Minute

BadRefilledUncapped(b) ==
  IF TokensToAdd(b) = 0 THEN b
  ELSE [tokens |-> b.tokens + TokensToAdd(b), idle |-> 0]

BadRefilledSameTime(b) ==
  [b EXCEPT !.tokens = IF b.tokens + TokensToAdd(b) > BurstSize THEN BurstSize
                       ELSE b.tokens + TokensToAdd(b)]

BadRefilledAlwaysNow(b) ==
  [tokens |-> IF b.tokens + TokensToAdd(b) > BurstSize THEN BurstSize
              ELSE b.tokens + TokensToAdd(b),
   idle |-> 0]

\* consume's refill: whole tokens only, capped; the fraction is dropped
\* because lastRefill becomes now, but only when a token was added.
Refilled(b) ==
  LET n == TokensToAdd(b)
  IN  IF n = 0 THEN b
      ELSE [tokens |-> IF b.tokens + n > BurstSize THEN BurstSize
                       ELSE b.tokens + n,
            idle |-> 0]

Spent(b) == [b EXCEPT !.tokens = b.tokens - 1]

Older(b) == [b EXCEPT !.idle = b.idle + 1]

BadEvictableFull(b) == b.idle > EvictAge /\ b.tokens = BurstSize

BadEvictableEarly(b) == b.idle >= SweepPeriod

\* cleanupBuckets' condition.
Evictable(b) == b.idle > EvictAge

\* allowRequest up to the call of consume: rl.mutex is taken and kept.
Lookup(r) ==
  LET c == ClientOf[r]
  IN  /\ request[r] = "idle"
      /\ mutex = Free
      /\ mutex' = r
      /\ request' = [request EXCEPT ![r] = "held"]
      /\ buckets' = [x \in DOMAIN buckets \cup {c} |->
                       IF x \in DOMAIN buckets THEN buckets[x] ELSE NewBucket]
      /\ UNCHANGED <<ticker, audit, sinceAdmit>>

\* consume finds a token and allowRequest returns true, unlocking.
Admit(r) ==
  LET c == ClientOf[r]
  IN  /\ request[r] = "held"
      /\ Refilled(buckets[c]).tokens > 0
      /\ buckets' = [buckets EXCEPT ![c] = Spent(Refilled(buckets[c]))]
      /\ mutex' = Free
      /\ request' = [request EXCEPT ![r] = "admitted"]
      /\ audit' = IF c = Audited THEN Counted(audit) ELSE audit
      /\ sinceAdmit' = IF c = Audited THEN 0 ELSE sinceAdmit
      /\ UNCHANGED ticker

\* consume finds no token and allowRequest returns false, unlocking.
Refuse(r) ==
  LET c == ClientOf[r]
  IN  /\ request[r] = "held"
      /\ Refilled(buckets[c]).tokens = 0
      /\ buckets' = [buckets EXCEPT ![c] = Refilled(buckets[c])]
      /\ mutex' = Free
      /\ request' = [request EXCEPT ![r] = "refused"]
      /\ UNCHANGED <<ticker, audit, sinceAdmit>>

\* RateLimitMiddleware: the next handler has run, or 429 was written.
Respond(r) ==
  /\ request[r] \in {"admitted", "refused"}
  /\ request' = [request EXCEPT ![r] = "idle"]
  /\ UNCHANGED <<buckets, mutex, ticker, audit, sinceAdmit>>

BadSweepUnlocked ==
  /\ ticker.pending
  /\ buckets' = [c \in {x \in DOMAIN buckets : ~Evictable(buckets[x])} |->
                   buckets[c]]
  /\ ticker' = [ticker EXCEPT !.pending = FALSE]
  /\ UNCHANGED <<mutex, request, audit, sinceAdmit>>

\* One pass of cleanupBuckets: now is read once, with rl.mutex held, and
\* nobody else can reach a bucket until the pass is over.
Sweep ==
  /\ ticker.pending
  /\ mutex = Free
  /\ buckets' = [c \in {x \in DOMAIN buckets : ~Evictable(buckets[x])} |->
                   buckets[c]]
  /\ ticker' = [ticker EXCEPT !.pending = FALSE]
  /\ UNCHANGED <<mutex, request, audit, sinceAdmit>>

\* Time passes; the ticker fires once per period.
Tick ==
  /\ ticker.pending => ticker.elapsed < MaxLag
  /\ ticker' = IF ticker.elapsed + 1 = SweepPeriod
               THEN [elapsed |-> 0, pending |-> TRUE]
               ELSE [ticker EXCEPT !.elapsed = ticker.elapsed + 1]
  /\ buckets' = [c \in DOMAIN buckets |-> Older(buckets[c])]
  /\ audit' = Lengthened(audit)
  /\ sinceAdmit' = IF sinceAdmit = SinceCap THEN SinceCap ELSE sinceAdmit + 1
  /\ UNCHANGED <<mutex, request>>

\* Ghost: start observing now.
OpenWindow ==
  /\ MaxWindow > 0
  /\ ~audit.open
  /\ audit' = Opened
  /\ UNCHANGED <<buckets, mutex, request, ticker, sinceAdmit>>

Next ==
  \/ \E r \in Requests : Lookup(r) \/ Admit(r) \/ Refuse(r) \/ Respond(r)
  \/ Sweep
  \/ Tick
  \/ OpenWindow

Spec == Init /\ [][Next]_vars

\* The scheduler runs a goroutine that can run, time advances, and a
\* goroutine waiting for rl.mutex gets it (sync.RWMutex queues writers).
\* No client is obliged to send anything: Lookup has no fairness.
Fairness ==
  /\ WF_vars(Tick)
  /\ SF_vars(Sweep)
  /\ \A r \in Requests : WF_vars(Admit(r) \/ Refuse(r)) /\ WF_vars(Respond(r))

FairSpec == Spec /\ Fairness

-----------------------------------------------------------------------------

(***************************************************************************)
(* A request that looked its bucket up still finds it in the map when it   *)
(* charges it, and only the holder of rl.mutex is between the two: the     *)
(* sweep never deletes a bucket under a request (ratelimit.go 62-76, 112). *)
(***************************************************************************)
HeldBucketIsLive ==
  \A r \in Requests :
    request[r] = "held" => mutex = r /\ ClientOf[r] \in DOMAIN buckets

(***************************************************************************)
(* No bucket stays in the map longer than the eviction age, one sweep      *)
(* period and the sweep's delay after its last refill, however requests,   *)
(* ticks and sweeps interleave: what keeps rl.buckets from growing with    *)
(* every key ever seen (ratelimit.go 108-122).                             *)
(***************************************************************************)
NoStaleBucket ==
  \A c \in DOMAIN buckets :
    buckets[c].idle <= EvictAge + SweepPeriod + MaxLag

(***************************************************************************)
(* A client is refused only if it was admitted less than one token's worth *)
(* of time ago: retrying, even faster than tokens come, never pushes the   *)
(* next admission away, and a new or evicted key is never refused          *)
(* (ratelimit.go 66-72, 89-103).  Needs BurstSize > 0.                     *)
(***************************************************************************)
RefusalJustified ==
  [][\A r \in Requests :
       Refuse(r) /\ ClientOf[r] = Audited
         => sinceAdmit * RequestsPerMinute < Minute]_vars

(***************************************************************************)
(* Nor is a client refused once its last admission is older than a bucket  *)
(* can get: where the rate earns it nothing, also at a rate of zero, the   *)
(* sweep frees it, since a refused retry leaves lastRefill as it is        *)
(* (ratelimit.go 66-72, 89-103, 108-122).  Needs BurstSize > 0.            *)
(***************************************************************************)
NoLastingRefusal ==
  [][\A r \in Requests :
       Refuse(r) /\ ClientOf[r] = Audited
         => sinceAdmit <= EvictAge + SweepPeriod + MaxLag]_vars

(***************************************************************************)
(* In any stretch of time the observed client is admitted fewer than       *)
(* BurstSize + 1 times plus what the rate earns: dropping fractions,       *)
(* capping, and handing a fresh burst to an evicted key never add up to    *)
(* more (ratelimit.go 66-73, 87-101, 116).  Needs RefillBeforeEviction.    *)
(***************************************************************************)
WindowBound ==
  audit.open =>
    Minute * audit.admitted
      < Minute * (BurstSize + 1) + RequestsPerMinute * audit.length

(***************************************************************************)
(* Whatever the eviction age, also one so short that deleting a bucket     *)
(* hands out tokens it had not earned: any stretch of time admits the      *)
(* observed client as WindowBound says and one burst more for the bucket   *)
(* evicted when it began and for each time EvictAge has passed since.  A   *)
(* spent token does not make a bucket younger, so a client that never      *)
(* pauses is evicted like an idle one (ratelimit.go 66-73, 87-101, 116).   *)
(***************************************************************************)
EvictionWindowBound ==
  audit.open =>
    (EvictAge + 1) * (Minute * audit.admitted)
      < (EvictAge + 1) * (Minute * (BurstSize + 1)
                            + RequestsPerMinute * audit.length)
          + (audit.length + EvictAge + 1) * (Minute * BurstSize)

(***************************************************************************)
(* A client that is refused again and again is admitted again and again:   *)
(* its bucket either earns a token or is evicted and created anew, also    *)
(* when the rate is zero (ratelimit.go 66-73, 87-103, 116-118).            *)
(***************************************************************************)
RefusedAudited ==
  \E r \in Requests : ClientOf[r] = Audited /\ Refuse(r)

AdmittedAudited ==
  \E r \in Requests : ClientOf[r] = Audited /\ Admit(r)

ServedAgain ==
  []<><<RefusedAudited>>_vars => []<><<AdmittedAudited>>_vars

-----------------------------------------------------------------------------

\* An idle bucket is full again before it can be evicted; the shipped
\* configuration (100 per minute, burst 20, 30 minutes) satisfies it widely.
RefillBeforeEviction == BurstSize * Minute <= RequestsPerMinute * EvictAge

\* A bucket's tokens and what its idle time has earned, in 1/Minute tokens.
Earned(b) == b.tokens * Minute + b.idle * RequestsPerMinute

\* One unit less than BurstSize + 1 tokens: a full bucket and the fraction
\* that may be left over when the next whole token does not fit.
CreditLimit == (BurstSize + 1) * Minute - 1

Worth(b) == IF Earned(b) > CreditLimit THEN CreditLimit ELSE Earned(b)

\* What each client could spend; a key without a bucket is owed a full one.
Credit ==
  [c \in Clients |->
     IF c \in DOMAIN buckets THEN Worth(buckets[c]) ELSE BurstSize * Minute]

Budget == INSTANCE TokenBudget WITH credit <- Credit

(***************************************************************************)
(* The limiter implements the token budget: every step earns, spends or    *)
(* forfeits credit as TokenBudget allows.  Needs RefillBeforeEviction.     *)
(***************************************************************************)
ImplementsBudget == Budget!Spec
=============================================================================
