------------------------- MODULE RateLimiterProofs --------------------------
(***************************************************************************)
(* The rate limiter keeps its bucket map consistent and small, refuses     *)
(* only with cause, and implements the token budget, for every set of      *)
(* clients and requests and every configuration.                           *)
(***************************************************************************)
EXTENDS RateLimiter, TLAPS

\* Integer division brackets the quotient.
LEMMA DivBracket ==
  ASSUME NEW a \in Nat, NEW m \in Nat \ {0}
  PROVE  /\ a \div m \in Nat
         /\ m * (a \div m) <= a
         /\ a < m * (a \div m) + m
BY Z3

LEMMA ProductIsNat ==
  ASSUME NEW a \in Nat, NEW b \in Nat
  PROVE  a * b \in Nat
OBVIOUS

\* Multiplication by a natural number is monotone.
LEMMA ProductMonotone ==
  ASSUME NEW a \in Nat, NEW b \in Nat, NEW k \in Nat, a <= b
  PROVE  a * k <= b * k
OBVIOUS

\* What a refill adds, in units of 1/Minute of a token, is what the idle
\* time has earned, short of less than one token.
LEMMA TokensToAddFacts ==
  ASSUME NEW b \in Bucket
  PROVE  /\ TokensToAdd(b) \in Nat
         /\ Minute * TokensToAdd(b) <= b.idle * RequestsPerMinute
         /\ b.idle * RequestsPerMinute < Minute * TokensToAdd(b) + Minute
BY DivBracket, ProductIsNat, LimiterAssumption, BudgetAssumption DEF TokensToAdd, Bucket

\* A refill keeps a bucket well formed and never makes it older; if it
\* leaves the bucket empty, it added nothing.
LEMMA RefilledFacts ==
  ASSUME NEW b \in Bucket
  PROVE  /\ Refilled(b) \in Bucket
         /\ Refilled(b).idle <= b.idle
         /\ Refilled(b).tokens = 0 /\ BurstSize > 0
              => Refilled(b) = b /\ b.idle * RequestsPerMinute < Minute
<1>1. CASE TokensToAdd(b) = 0
  <2>1. Refilled(b) = b
    BY <1>1 DEF Refilled
  <2>2. Minute * TokensToAdd(b) = 0
    BY <1>1, LimiterAssumption, BudgetAssumption
  <2>3. b.idle * RequestsPerMinute < 0 + Minute
    BY <2>2, TokensToAddFacts
  <2>4. b.idle * RequestsPerMinute < Minute
    BY <2>3, LimiterAssumption, BudgetAssumption
  <2> QED
    BY <2>1, <2>4, LimiterAssumption, BudgetAssumption DEF Bucket
<1>2. CASE TokensToAdd(b) # 0
  <2> DEFINE n == TokensToAdd(b)
             t == IF b.tokens + n > BurstSize THEN BurstSize ELSE b.tokens + n
  <2>1. Refilled(b) = [tokens |-> t, idle |-> 0]
    BY <1>2 DEF Refilled
  <2>2. n \in Nat /\ n > 0
    BY <1>2, TokensToAddFacts
  <2>3. t \in 0 .. BurstSize /\ (BurstSize > 0 => t > 0)
    BY <2>2, LimiterAssumption, BudgetAssumption DEF Bucket
  <2> QED
    BY <2>1, <2>3, LimiterAssumption, BudgetAssumption DEF Bucket
<1> QED
  BY <1>1, <1>2

LEMMA WindowOps ==
  ASSUME NEW w \in WindowType
  PROVE  /\ Closed \in WindowType /\ Opened \in WindowType
         /\ Lengthened(w) \in WindowType
         /\ Counted(w) \in WindowType
BY MaxWindowAssumption DEF WindowType, Closed, Opened, Lengthened, Counted

-----------------------------------------------------------------------------

\* Type correctness is inductive together with the fact that a request
\* between Lookup and its charge holds the mutex and has its bucket.
LimiterInv == TypeOK /\ HeldBucketIsLive

LEMMA LimiterInitial == Init => LimiterInv
BY LimiterAssumption, BudgetAssumption
   DEF Init, LimiterInv, TypeOK, HeldBucketIsLive, Bucket, Closed, WindowType

LEMMA LimiterStep == LimiterInv /\ [Next]_vars => LimiterInv'
<1> SUFFICES ASSUME LimiterInv, [Next]_vars PROVE LimiterInv'
  OBVIOUS
<1> USE DEF LimiterInv, TypeOK, HeldBucketIsLive
<1>1. ASSUME NEW r \in Requests, Lookup(r) PROVE LimiterInv'
  <2>1. NewBucket \in Bucket
    BY LimiterAssumption, BudgetAssumption DEF NewBucket, Bucket
  <2>2. ClientOf[r] \in Clients
    BY LimiterAssumption, BudgetAssumption
  <2>3. /\ DOMAIN buckets' = DOMAIN buckets \cup {ClientOf[r]}
        /\ \A c \in DOMAIN buckets' : buckets'[c] \in Bucket
    BY <1>1, <2>1 DEF Lookup
  <2>4. \A q \in Requests \ {r} : request'[q] # "held"
    BY <1>1, LimiterAssumption, BudgetAssumption DEF Lookup
  <2>5. TypeOK'
    BY <1>1, <2>2, <2>3 DEF Lookup
  <2> QED
    BY <1>1, <2>3, <2>4, <2>5 DEF Lookup
<1>2. ASSUME NEW r \in Requests, Admit(r) PROVE LimiterInv'
  <2> DEFINE c == ClientOf[r]
             b == Refilled(buckets[c])
  <2>1. c \in DOMAIN buckets /\ b \in Bucket /\ b.tokens > 0
    BY <1>2, RefilledFacts DEF Admit
  <2>2. Spent(b) \in Bucket
    BY <2>1, LimiterAssumption, BudgetAssumption DEF Spent, Bucket
  <2>3. /\ DOMAIN buckets' = DOMAIN buckets
        /\ \A x \in DOMAIN buckets' : buckets'[x] \in Bucket
    BY <1>2, <2>1, <2>2 DEF Admit
  <2>4. \A q \in Requests : request'[q] # "held"
    BY <1>2, LimiterAssumption, BudgetAssumption DEF Admit
  <2>5. audit' \in WindowType /\ sinceAdmit' \in 0 .. SinceCap
    BY <1>2, WindowOps, LimiterAssumption, BudgetAssumption DEF Admit
  <2>6. TypeOK'
    BY <1>2, <2>3, <2>5 DEF Admit
  <2> QED
    BY <2>4, <2>6
<1>3. ASSUME NEW r \in Requests, Refuse(r) PROVE LimiterInv'
  <2> DEFINE c == ClientOf[r]
             b == Refilled(buckets[c])
  <2>1. c \in DOMAIN buckets /\ b \in Bucket
    BY <1>3, RefilledFacts DEF Refuse
  <2>2. /\ DOMAIN buckets' = DOMAIN buckets
        /\ \A x \in DOMAIN buckets' : buckets'[x] \in Bucket
    BY <1>3, <2>1 DEF Refuse
  <2>3. \A q \in Requests : request'[q] # "held"
    BY <1>3, LimiterAssumption, BudgetAssumption DEF Refuse
  <2>4. TypeOK'
    BY <1>3, <2>2 DEF Refuse
  <2> QED
    BY <2>3, <2>4
<1>4. ASSUME NEW r \in Requests, Respond(r) PROVE LimiterInv'
  BY <1>4 DEF Respond
<1>5. CASE Sweep
  <2>1. \A q \in Requests : request'[q] # "held"
    BY <1>5, LimiterAssumption, BudgetAssumption DEF Sweep
  <2>2. /\ DOMAIN buckets' \subseteq DOMAIN buckets
        /\ \A x \in DOMAIN buckets' : buckets'[x] = buckets[x]
    BY <1>5 DEF Sweep
  <2>3. ticker' \in [elapsed : 0 .. SweepPeriod - 1, pending : BOOLEAN]
    BY <1>5 DEF Sweep
  <2>4. TypeOK'
    BY <1>5, <2>2, <2>3 DEF Sweep
  <2> QED
    BY <2>1, <2>4
<1>6. CASE Tick
  <2>1. \A b \in Bucket : Older(b) \in Bucket
    BY DEF Older, Bucket
  <2>2. /\ DOMAIN buckets' = DOMAIN buckets
        /\ \A x \in DOMAIN buckets' : buckets'[x] \in Bucket
    BY <1>6, <2>1 DEF Tick
  <2>3. ticker' \in [elapsed : 0 .. SweepPeriod - 1, pending : BOOLEAN]
    BY <1>6, LimiterAssumption, BudgetAssumption DEF Tick
  <2>4. audit' \in WindowType /\ sinceAdmit' \in 0 .. SinceCap
    BY <1>6, WindowOps, LimiterAssumption, BudgetAssumption DEF Tick
  <2>5. TypeOK'
    BY <1>6, <2>2, <2>3, <2>4 DEF Tick
  <2> QED
    BY <1>6, <2>2, <2>5 DEF Tick
<1>7. CASE OpenWindow
  BY <1>7, WindowOps DEF OpenWindow
<1>8. CASE UNCHANGED vars
  BY <1>8 DEF vars
<1> QED
  BY <1>1, <1>2, <1>3, <1>4, <1>5, <1>6, <1>7, <1>8 DEF Next

(***************************************************************************)
(* Type correctness, for every value of the constants.                     *)
(***************************************************************************)
THEOREM LimiterTypeOK == Spec => []TypeOK
<1>1. LimiterInv => TypeOK
  BY DEF LimiterInv
<1> QED
  BY <1>1, LimiterInitial, LimiterStep, PTL DEF Spec

(***************************************************************************)
(* No sweep ever deletes a bucket between its lookup and its charge, for   *)
(* any number of requests and clients (ratelimit.go 62-76, 112-121).       *)
(***************************************************************************)
THEOREM LimiterHeldBucketIsLive == Spec => []HeldBucketIsLive
<1>1. LimiterInv => HeldBucketIsLive
  BY DEF LimiterInv
<1> QED
  BY <1>1, LimiterInitial, LimiterStep, PTL DEF Spec
-----------------------------------------------------------------------------

\* How old a bucket can be at this point of the sweep period: after a sweep
\* nothing is past the eviction age, and a bucket ages with the ticker.
AgeInv ==
  \A c \in DOMAIN buckets :
    buckets[c].idle <= EvictAge + ticker.elapsed
                         + (IF ticker.pending THEN SweepPeriod ELSE 0)

\* A due sweep is not put off for longer than MaxLag.
LagInv == ticker.pending => ticker.elapsed <= MaxLag

LEMMA AgeStep ==
  LimiterInv /\ AgeInv /\ LagInv /\ [Next]_vars => (AgeInv /\ LagInv)'
<1> SUFFICES ASSUME LimiterInv, AgeInv, LagInv, [Next]_vars
             PROVE  (AgeInv /\ LagInv)'
  OBVIOUS
<1> USE DEF AgeInv, LagInv
<1>0. /\ ticker \in [elapsed : 0 .. SweepPeriod - 1, pending : BOOLEAN]
      /\ \A c \in DOMAIN buckets : buckets[c] \in Bucket
  BY DEF LimiterInv, TypeOK
<1> DEFINE age == EvictAge + ticker.elapsed
                    + (IF ticker.pending THEN SweepPeriod ELSE 0)
<1>a. age \in Nat
  BY <1>0, LimiterAssumption, BudgetAssumption
<1>1. ASSUME NEW r \in Requests, Lookup(r) PROVE (AgeInv /\ LagInv)'
  <2>1. \A c \in DOMAIN buckets' :
          \/ c \in DOMAIN buckets /\ buckets'[c] = buckets[c]
          \/ buckets'[c] = NewBucket
    BY <1>1 DEF Lookup
  <2>2. NewBucket.idle <= age
    BY <1>a DEF NewBucket
  <2>3. ticker' = ticker
    BY <1>1 DEF Lookup
  <2> QED
    BY <2>1, <2>2, <2>3
<1>2. ASSUME NEW r \in Requests, Admit(r) \/ Refuse(r)
      PROVE  (AgeInv /\ LagInv)'
  <2> DEFINE c == ClientOf[r]
             b == Refilled(buckets[c])
  <2>1. c \in DOMAIN buckets /\ b \in Bucket /\ b.idle <= buckets[c].idle
    BY <1>2, RefilledFacts, <1>0
       DEF Admit, Refuse, LimiterInv, HeldBucketIsLive
  <2>2. b.idle <= age /\ Spent(b).idle <= age
    BY <2>1, <1>0, <1>a DEF Bucket, Spent
  <2>3. /\ DOMAIN buckets' = DOMAIN buckets
        /\ (buckets'[c] = b \/ buckets'[c] = Spent(b))
        /\ \A x \in DOMAIN buckets : x # c => buckets'[x] = buckets[x]
    BY <1>2, <2>1 DEF Admit, Refuse
  <2>4. ticker' = ticker
    BY <1>2 DEF Admit, Refuse
  <2> QED
    BY <2>2, <2>3, <2>4
<1>3. ASSUME NEW r \in Requests, Respond(r) PROVE (AgeInv /\ LagInv)'
  BY <1>3 DEF Respond
<1>4. CASE Sweep
  <2>1. ticker'.elapsed = ticker.elapsed /\ ticker'.pending = FALSE
    BY <1>0, <1>4 DEF Sweep
  <2>2. \A c \in DOMAIN buckets' :
          buckets'[c] \in Bucket /\ ~(buckets'[c].idle > EvictAge)
    BY <1>0, <1>4 DEF Sweep, Evictable
  <2> QED
    BY <2>1, <2>2, <1>0, LimiterAssumption, BudgetAssumption DEF Bucket
<1>5. CASE Tick
  <2>1. \A c \in DOMAIN buckets' :
          c \in DOMAIN buckets /\ buckets'[c].idle = buckets[c].idle + 1
    BY <1>0, <1>5 DEF Tick, Older, Bucket
  <2>2. CASE ticker.elapsed + 1 = SweepPeriod
    <3>1. ticker'.elapsed = 0 /\ ticker'.pending = TRUE /\ ~ticker.pending
      BY <1>0, <1>5, <2>2, LimiterAssumption, BudgetAssumption DEF Tick
    <3> QED
      BY <2>1, <2>2, <3>1, <1>0, LimiterAssumption, BudgetAssumption DEF Bucket
  <2>3. CASE ticker.elapsed + 1 # SweepPeriod
    <3>1. /\ ticker'.elapsed = ticker.elapsed + 1
          /\ ticker'.pending = ticker.pending
      BY <1>0, <1>5, <2>3 DEF Tick
    <3>2. ticker.pending => ticker.elapsed < MaxLag
      BY <1>5 DEF Tick
    <3> QED
      BY <2>1, <3>1, <3>2, <1>0, LimiterAssumption, BudgetAssumption DEF Bucket
  <2> QED
    BY <2>2, <2>3
<1>6. CASE OpenWindow
  BY <1>6 DEF OpenWindow
<1>7. CASE UNCHANGED vars
  BY <1>7 DEF vars
<1> QED
  BY <1>1, <1>2, <1>3, <1>4, <1>5, <1>6, <1>7 DEF Next

LEMMA AgeBounds == LimiterInv /\ AgeInv /\ LagInv => NoStaleBucket
<1> SUFFICES ASSUME LimiterInv, AgeInv, LagInv, NEW c \in DOMAIN buckets
             PROVE  buckets[c].idle <= EvictAge + SweepPeriod + MaxLag
  BY DEF NoStaleBucket
<1>1. /\ ticker \in [elapsed : 0 .. SweepPeriod - 1, pending : BOOLEAN]
      /\ buckets[c] \in Bucket
  BY DEF LimiterInv, TypeOK
<1> QED
  BY <1>1, LimiterAssumption, BudgetAssumption DEF AgeInv, LagInv, Bucket

(***************************************************************************)
(* The bucket map stays small in time: no bucket outlives the eviction     *)
(* age, one sweep period and the sweep's delay (ratelimit.go 108-122).     *)
(***************************************************************************)
THEOREM LimiterNoStaleBucket == Spec => []NoStaleBucket
<1>1. Init => AgeInv /\ LagInv
  BY DEF Init, AgeInv, LagInv
<1> QED
  BY <1>1, AgeBounds, LimiterInitial, LimiterStep, AgeStep, PTL DEF Spec

-----------------------------------------------------------------------------

\* An empty bucket of the observed client is at least as old as its last
\* admission: lastRefill moves only when a token comes in, and the request
\* that brings it in is admitted.
SinceInv ==
  Audited \in DOMAIN buckets =>
    buckets[Audited].tokens > 0 \/ sinceAdmit <= buckets[Audited].idle

LEMMA SinceStep ==
  ASSUME BurstSize > 0
  PROVE  LimiterInv /\ SinceInv /\ [Next]_vars => SinceInv'
<1> SUFFICES ASSUME LimiterInv, SinceInv, [Next]_vars, Audited \in DOMAIN buckets'
             PROVE  \/ buckets'[Audited].tokens > 0
                    \/ sinceAdmit' <= buckets'[Audited].idle
  BY DEF SinceInv
<1>0. /\ \A c \in DOMAIN buckets : buckets[c] \in Bucket
      /\ sinceAdmit \in 0 .. SinceCap
  BY DEF LimiterInv, TypeOK
<1>1. ASSUME NEW r \in Requests, Lookup(r) PROVE SinceInv'
  <2>1. sinceAdmit' = sinceAdmit
    BY <1>1 DEF Lookup
  <2>2. CASE Audited \in DOMAIN buckets
    BY <1>1, <2>1, <2>2 DEF Lookup, SinceInv
  <2>3. CASE Audited \notin DOMAIN buckets
    BY <1>1, <2>3, LimiterAssumption, BudgetAssumption DEF Lookup, SinceInv, NewBucket
  <2> QED
    BY <2>2, <2>3
<1>2. ASSUME NEW r \in Requests, Admit(r) PROVE SinceInv'
  <2> DEFINE c == ClientOf[r]
             b == Refilled(buckets[c])
  <2>1. c \in DOMAIN buckets /\ b \in Bucket
    BY <1>2, RefilledFacts, <1>0 DEF Admit, LimiterInv, HeldBucketIsLive
  <2>2. CASE c = Audited
    <3>1. sinceAdmit' = 0 /\ buckets'[Audited] = Spent(b)
      BY <1>2, <2>1, <2>2 DEF Admit
    <3>2. Spent(b).idle >= 0
      BY <2>1 DEF Spent, Bucket
    <3> QED
      BY <3>1, <3>2 DEF SinceInv
  <2>3. CASE c # Audited
    BY <1>2, <2>1, <2>3 DEF Admit, SinceInv
  <2> QED
    BY <2>2, <2>3
<1>3. ASSUME NEW r \in Requests, Refuse(r) PROVE SinceInv'
  <2> DEFINE c == ClientOf[r]
             b == Refilled(buckets[c])
  <2>1. c \in DOMAIN buckets /\ b = buckets[c]
    BY <1>3, RefilledFacts, <1>0 DEF Refuse, LimiterInv, HeldBucketIsLive
  <2>2. /\ DOMAIN buckets' = DOMAIN buckets
        /\ \A x \in DOMAIN buckets : buckets'[x] = buckets[x]
        /\ sinceAdmit' = sinceAdmit
    BY <1>3, <2>1 DEF Refuse
  <2> QED
    BY <2>2 DEF SinceInv
<1>4. ASSUME NEW r \in Requests, Respond(r) PROVE SinceInv'
  BY <1>4 DEF Respond, SinceInv
<1>5. CASE Sweep
  BY <1>5 DEF Sweep, SinceInv
<1>6. CASE Tick
  <2>1. /\ Audited \in DOMAIN buckets
        /\ buckets'[Audited] = Older(buckets[Audited])
    BY <1>6 DEF Tick
  <2>2. /\ Older(buckets[Audited]).tokens = buckets[Audited].tokens
        /\ Older(buckets[Audited]).idle = buckets[Audited].idle + 1
    BY <1>0, <2>1 DEF Older, Bucket
  <2>3. sinceAdmit' <= sinceAdmit + 1
    BY <1>0, <1>6, LimiterAssumption, BudgetAssumption DEF Tick
  <2>4. buckets[Audited].idle \in Nat /\ sinceAdmit' \in Nat
    BY <1>0, <1>6, <2>1, LimiterAssumption, BudgetAssumption DEF Bucket, Tick
  <2> QED
    BY <2>1, <2>2, <2>3, <2>4, <1>0, LimiterAssumption, BudgetAssumption DEF SinceInv
<1>7. CASE OpenWindow
  BY <1>7 DEF OpenWindow, SinceInv
<1>8. CASE UNCHANGED vars
  BY <1>8 DEF vars, SinceInv
<1> QED
  BY <1>1, <1>2, <1>3, <1>4, <1>5, <1>6, <1>7, <1>8 DEF Next, SinceInv

\* A refusal happens only within one token's worth of time of an admission.
LEMMA RefusalStep ==
  ASSUME BurstSize > 0, LimiterInv, SinceInv,
         NEW r \in Requests, Refuse(r), ClientOf[r] = Audited
  PROVE  sinceAdmit * RequestsPerMinute < Minute
<1> DEFINE b == buckets[Audited]
<1>1. Audited \in DOMAIN buckets /\ b \in Bucket /\ sinceAdmit \in Nat
  BY LimiterAssumption, BudgetAssumption DEF LimiterInv, TypeOK, HeldBucketIsLive, Refuse
<1>2. b.tokens = 0 /\ b.idle * RequestsPerMinute < Minute
  BY <1>1, RefilledFacts DEF Refuse
<1>3. sinceAdmit <= b.idle
  BY <1>1, <1>2 DEF SinceInv
<1>4. sinceAdmit * RequestsPerMinute <= b.idle * RequestsPerMinute
  BY <1>1, <1>3, ProductMonotone, LimiterAssumption, BudgetAssumption DEF Bucket
<1>5. /\ sinceAdmit * RequestsPerMinute \in Nat
      /\ b.idle * RequestsPerMinute \in Nat
  BY <1>1, ProductIsNat, LimiterAssumption, BudgetAssumption DEF Bucket
<1> QED
  BY <1>2, <1>4, <1>5, LimiterAssumption, BudgetAssumption

(***************************************************************************)
(* With a positive burst size, nobody is refused who was not admitted less *)
(* than one token's worth of time ago: retries never starve a client, for  *)
(* any rate, clock resolution and number of competing requests             *)
(* (ratelimit.go 66-72, 89-103).                                           *)
(***************************************************************************)
THEOREM LimiterRefusalJustified ==
  ASSUME BurstSize > 0
  PROVE  Spec => RefusalJustified
<1>1. Init => SinceInv
  BY DEF Init, SinceInv
<1>2. LimiterInv /\ SinceInv /\ [Next]_vars => SinceInv'
  BY SinceStep
<1>3. LimiterInv /\ SinceInv /\ [Next]_vars =>
        [\A r \in Requests :
           Refuse(r) /\ ClientOf[r] = Audited
             => sinceAdmit * RequestsPerMinute < Minute]_vars
  BY RefusalStep
<1> QED
  BY <1>1, <1>2, <1>3, LimiterInitial, LimiterStep, PTL
     DEF Spec, RefusalJustified

(***************************************************************************)
(* With a positive burst size, no client is refused for longer than its    *)
(* bucket can live, also where the rate is zero and only an eviction can   *)
(* end the refusals, for every eviction age, sweep period and delay        *)
(* (ratelimit.go 66-72, 89-103, 108-122).                                  *)
(***************************************************************************)
THEOREM LimiterNoLastingRefusal ==
  ASSUME BurstSize > 0
  PROVE  Spec => NoLastingRefusal
<1>1. Init => SinceInv /\ AgeInv /\ LagInv
  BY DEF Init, SinceInv, AgeInv, LagInv
<1>2. LimiterInv /\ SinceInv /\ AgeInv /\ LagInv /\ [Next]_vars
        => (SinceInv /\ AgeInv /\ LagInv)'
  BY SinceStep, AgeStep
<1>3. ASSUME LimiterInv, SinceInv, AgeInv, LagInv,
             NEW r \in Requests, Refuse(r), ClientOf[r] = Audited
      PROVE  sinceAdmit <= EvictAge + SweepPeriod + MaxLag
  <2> DEFINE b == buckets[Audited]
  <2>1. Audited \in DOMAIN buckets /\ b \in Bucket /\ sinceAdmit \in Nat
    BY <1>3, LimiterAssumption, BudgetAssumption
       DEF LimiterInv, TypeOK, HeldBucketIsLive, Refuse
  <2>2. b.tokens = 0
    BY <1>3, <2>1, RefilledFacts DEF Refuse
  <2>3. sinceAdmit <= b.idle
    BY <1>3, <2>1, <2>2 DEF SinceInv
  <2>4. b.idle <= EvictAge + SweepPeriod + MaxLag
    BY <1>3, <2>1, AgeBounds DEF NoStaleBucket
  <2>5. b.idle \in Nat
    BY <2>1 DEF Bucket
  <2> QED
    BY <2>1, <2>3, <2>4, <2>5, LimiterAssumption
<1>4. LimiterInv /\ SinceInv /\ AgeInv /\ LagInv /\ [Next]_vars =>
        [\A r \in Requests :
           Refuse(r) /\ ClientOf[r] = Audited
             => sinceAdmit <= EvictAge + SweepPeriod + MaxLag]_vars
  BY <1>3
<1> QED
  BY <1>1, <1>2, <1>4, LimiterInitial, LimiterStep, PTL
     DEF Spec, NoLastingRefusal

-----------------------------------------------------------------------------

LEMMA CreditLimitFacts ==
  /\ CreditLimit = BurstSize * Minute + Minute - 1
  /\ BurstSize * Minute \in Nat
  /\ CreditLimit \in Nat
  /\ CreditLimit = Budget!Limit
BY LimiterAssumption, BudgetAssumption DEF CreditLimit, Budget!Limit

LEMMA EarnedIsNat ==
  ASSUME NEW b \in Bucket
  PROVE  /\ Earned(b) \in Nat
         /\ b.tokens * Minute \in Nat
         /\ b.idle * RequestsPerMinute \in Nat
BY ProductIsNat, LimiterAssumption, BudgetAssumption DEF Earned, Bucket

LEMMA WorthType ==
  ASSUME NEW b \in Bucket
  PROVE  Worth(b) \in 0 .. CreditLimit
BY EarnedIsNat, CreditLimitFacts DEF Worth

\* A bucket just created is worth a full burst.
LEMMA WorthOfNew == NewBucket \in Bucket /\ Worth(NewBucket) = BurstSize * Minute
<1>1. Earned(NewBucket) = BurstSize * Minute
  BY LimiterAssumption, BudgetAssumption DEF Earned, NewBucket
<1> QED
  BY <1>1, CreditLimitFacts, LimiterAssumption, BudgetAssumption DEF Worth, NewBucket, Bucket

\* A refill never creates credit: it turns idle time into whole tokens and
\* drops the rest.
LEMMA RefillEarnsNothing ==
  ASSUME NEW b \in Bucket
  PROVE  /\ Earned(Refilled(b)) <= Earned(b)
         /\ Earned(Refilled(b)) <= CreditLimit
<1>1. CASE TokensToAdd(b) = 0
  <2>1. Refilled(b) = b
    BY <1>1 DEF Refilled
  <2>2. Minute * TokensToAdd(b) = 0
    BY <1>1, LimiterAssumption, BudgetAssumption
  <2>3. b.idle * RequestsPerMinute < 0 + Minute
    BY <2>2, TokensToAddFacts
  <2>4. b.tokens * Minute <= BurstSize * Minute
    BY ProductMonotone, LimiterAssumption, BudgetAssumption DEF Bucket
  <2> QED
    BY <2>1, <2>3, <2>4, EarnedIsNat, CreditLimitFacts, LimiterAssumption, BudgetAssumption
       DEF Earned
<1>2. CASE TokensToAdd(b) # 0
  <2> DEFINE n == TokensToAdd(b)
             t == IF b.tokens + n > BurstSize THEN BurstSize ELSE b.tokens + n
  <2>1. Refilled(b) = [tokens |-> t, idle |-> 0]
    BY <1>2 DEF Refilled
  <2>2. n \in Nat /\ b.tokens \in Nat
    BY TokensToAddFacts, LimiterAssumption, BudgetAssumption DEF Bucket
  <2>3. t \in Nat /\ t <= BurstSize /\ t <= b.tokens + n
    BY <2>2, LimiterAssumption, BudgetAssumption
  <2>4. Earned(Refilled(b)) = t * Minute
    BY <2>1, <2>3, LimiterAssumption, BudgetAssumption DEF Earned
  <2>5. t * Minute <= BurstSize * Minute /\ t * Minute <= (b.tokens + n) * Minute
    BY <2>2, <2>3, ProductMonotone, LimiterAssumption, BudgetAssumption
  <2>6. (b.tokens + n) * Minute = b.tokens * Minute + Minute * n
    BY <2>2, LimiterAssumption, BudgetAssumption
  <2>7. Minute * n <= b.idle * RequestsPerMinute
    BY TokensToAddFacts
  <2>8. t * Minute \in Nat /\ Minute * n \in Nat
    BY <2>2, <2>3, ProductIsNat, LimiterAssumption, BudgetAssumption
  <2> HIDE DEF n, t
  <2> QED
    BY <2>4, <2>5, <2>6, <2>7, <2>8, EarnedIsNat, CreditLimitFacts,
       LimiterAssumption, BudgetAssumption DEF Earned
<1> QED
  BY <1>1, <1>2

LEMMA RefillForfeits ==
  ASSUME NEW b \in Bucket
  PROVE  Worth(Refilled(b)) <= Worth(b)
BY RefillEarnsNothing, EarnedIsNat, RefilledFacts, CreditLimitFacts DEF Worth

\* An admission costs a whole token's credit.
LEMMA SpendingCosts ==
  ASSUME NEW b \in Bucket, Refilled(b).tokens > 0
  PROVE  /\ Spent(Refilled(b)) \in Bucket
         /\ Worth(Spent(Refilled(b))) + Minute <= Worth(b)
<1> DEFINE d == Refilled(b)
<1>1. d \in Bucket
  BY RefilledFacts
<1>2. /\ Spent(d) \in Bucket
      /\ Spent(d).tokens = d.tokens - 1
      /\ Spent(d).idle = d.idle
  BY <1>1, LimiterAssumption, BudgetAssumption DEF Spent, Bucket
<1>3. (d.tokens - 1) * Minute = d.tokens * Minute - Minute
  BY <1>1, LimiterAssumption, BudgetAssumption DEF Bucket
<1>4. Earned(Spent(d)) = Earned(d) - Minute
  BY <1>1, <1>2, <1>3, EarnedIsNat, LimiterAssumption, BudgetAssumption DEF Earned
<1>5. Earned(d) <= CreditLimit /\ Earned(d) <= Earned(b)
  BY RefillEarnsNothing
<1>6. Worth(Spent(d)) = Earned(d) - Minute
  BY <1>1, <1>4, <1>5, EarnedIsNat, CreditLimitFacts, LimiterAssumption, BudgetAssumption
     DEF Worth
<1> HIDE DEF d
<1>7. Earned(d) <= Worth(b)
  BY <1>1, <1>5, EarnedIsNat, CreditLimitFacts DEF Worth
<1> QED
  BY <1>1, <1>2, <1>6, <1>7, EarnedIsNat, WorthType, CreditLimitFacts,
     LimiterAssumption, BudgetAssumption DEF d

\* One tick earns at most the rate.
LEMMA TickEarns ==
  ASSUME NEW b \in Bucket
  PROVE  Older(b) \in Bucket /\ Worth(Older(b)) <= Worth(b) + RequestsPerMinute
<1>1. /\ Older(b) \in Bucket
      /\ Older(b).tokens = b.tokens
      /\ Older(b).idle = b.idle + 1
  BY DEF Older, Bucket
<1>2. (b.idle + 1) * RequestsPerMinute
        = b.idle * RequestsPerMinute + RequestsPerMinute
  BY LimiterAssumption, BudgetAssumption DEF Bucket
<1>3. Earned(Older(b)) = Earned(b) + RequestsPerMinute
  BY <1>1, <1>2, EarnedIsNat, LimiterAssumption, BudgetAssumption DEF Earned
<1> QED
  BY <1>1, <1>3, EarnedIsNat, CreditLimitFacts, LimiterAssumption, BudgetAssumption DEF Worth

\* Deleting an evictable bucket forfeits credit, when an idle bucket fills up
\* before it can be evicted: the key is owed no more than it already had.
LEMMA EvictionForfeits ==
  ASSUME RefillBeforeEviction, NEW b \in Bucket, Evictable(b)
  PROVE  BurstSize * Minute <= Worth(b)
<1>1. EvictAge * RequestsPerMinute <= b.idle * RequestsPerMinute
  BY ProductMonotone, LimiterAssumption, BudgetAssumption DEF Evictable, Bucket
<1>2. RequestsPerMinute * EvictAge = EvictAge * RequestsPerMinute
  BY LimiterAssumption, BudgetAssumption
<1>3. EvictAge * RequestsPerMinute \in Nat
  BY ProductIsNat, LimiterAssumption, BudgetAssumption
<1> QED
  BY <1>1, <1>2, <1>3, EarnedIsNat, CreditLimitFacts, LimiterAssumption, BudgetAssumption
     DEF RefillBeforeEviction, Worth, Earned

-----------------------------------------------------------------------------

LEMMA CreditType ==
  ASSUME LimiterInv
  PROVE  Credit \in [Clients -> 0 .. CreditLimit]
<1>1. BurstSize * Minute \in 0 .. CreditLimit
  BY CreditLimitFacts, LimiterAssumption, BudgetAssumption
<1> QED
  BY <1>1, WorthType DEF Credit, LimiterInv, TypeOK

LEMMA BudgetInit == Init => Budget!Init
BY DEF Init, Budget!Init, Credit, Closed, Budget!Closed

LEMMA BudgetNext ==
  ASSUME RefillBeforeEviction
  PROVE  LimiterInv /\ LimiterInv' /\ [Next]_vars => [Budget!Next]_(Budget!vars)
<1> SUFFICES ASSUME LimiterInv, LimiterInv', [Next]_vars
             PROVE  Budget!Next \/ UNCHANGED <<Credit, audit>>
  BY DEF Budget!vars
<1>0. /\ DOMAIN buckets \subseteq Clients
      /\ \A c \in DOMAIN buckets : buckets[c] \in Bucket
      /\ \A c \in Clients : Credit[c] =
           IF c \in DOMAIN buckets THEN Worth(buckets[c]) ELSE BurstSize * Minute
      /\ \A c \in Clients : Credit'[c] =
           IF c \in DOMAIN buckets' THEN Worth(buckets'[c]) ELSE BurstSize * Minute
  BY DEF LimiterInv, TypeOK, Credit
<1>a. /\ Credit \in [Clients -> 0 .. Budget!Limit]
      /\ Credit' \in [Clients -> 0 .. Budget!Limit]
  <2>1. Credit \in [Clients -> 0 .. CreditLimit]
    BY CreditType
  <2>2. Credit' \in [Clients -> 0 .. CreditLimit]
    <3>1. BurstSize * Minute \in 0 .. CreditLimit
      BY CreditLimitFacts, LimiterAssumption, BudgetAssumption
    <3> QED
      BY <3>1, WorthType DEF Credit, LimiterInv, TypeOK
  <2> QED
    BY <2>1, <2>2, CreditLimitFacts
<1>1. ASSUME NEW r \in Requests, Lookup(r)
      PROVE  UNCHANGED <<Credit, audit>>
  <2>1. \A c \in Clients : Credit'[c] = Credit[c]
    BY <1>0, <1>1, WorthOfNew DEF Lookup
  <2> QED
    BY <1>1, <1>a, <2>1 DEF Lookup
<1>2. ASSUME NEW r \in Requests, Admit(r)
      PROVE  Budget!Admit(ClientOf[r])
  <2> DEFINE c == ClientOf[r]
             b == buckets[c]
  <2>1. c \in DOMAIN buckets /\ b \in Bucket /\ c \in Clients
    BY <1>0, <1>2, LimiterAssumption, BudgetAssumption DEF Admit, LimiterInv, HeldBucketIsLive
  <2>2. Credit[c] = Worth(b) /\ Credit'[c] = Worth(Spent(Refilled(b)))
    BY <1>0, <1>2, <2>1 DEF Admit
  <2>3. Credit'[c] + Minute <= Credit[c]
    BY <1>2, <2>1, <2>2, SpendingCosts DEF Admit
  <2>4. \A x \in Clients : x # c => Credit'[x] = Credit[x]
    BY <1>0, <1>2, <2>1 DEF Admit
  <2>5. Credit[c] \in Int /\ Credit'[c] \in Int /\ Credit'[c] >= 0
    BY <1>a, <2>1, CreditLimitFacts
  <2>6. Credit[c] >= Minute /\ Credit'[c] \in 0 .. Credit[c] - Minute
    BY <2>3, <2>5, LimiterAssumption, BudgetAssumption
  <2>7. Credit' = [Credit EXCEPT ![c] = Credit'[c]]
    BY <1>a, <2>1, <2>4
  <2>8. audit' = IF c = Audited THEN Counted(audit) ELSE audit
    BY <1>2 DEF Admit
  <2> QED
    BY <2>6, <2>7, <2>8 DEF Budget!Admit, Budget!Counted, Counted
<1>3. ASSUME NEW r \in Requests, Refuse(r)
      PROVE  Budget!Forfeit
  <2> DEFINE c == ClientOf[r]
             b == buckets[c]
  <2>1. c \in DOMAIN buckets /\ b \in Bucket /\ c \in Clients
    BY <1>0, <1>3, LimiterAssumption, BudgetAssumption DEF Refuse, LimiterInv, HeldBucketIsLive
  <2>2. Credit[c] = Worth(b) /\ Credit'[c] = Worth(Refilled(b))
    BY <1>0, <1>3, <2>1 DEF Refuse
  <2>3. \A x \in Clients : x # c => Credit'[x] = Credit[x]
    BY <1>0, <1>3, <2>1 DEF Refuse
  <2>4. \A x \in Clients : Credit'[x] <= Credit[x]
    BY <1>a, <2>1, <2>2, <2>3, RefillForfeits, CreditLimitFacts
  <2> QED
    BY <1>a, <1>3, <2>4 DEF Budget!Forfeit, Refuse
<1>4. ASSUME NEW r \in Requests, Respond(r)
      PROVE  UNCHANGED <<Credit, audit>>
  BY <1>4 DEF Respond, Credit
<1>5. CASE Sweep
  <2>1. \A c \in Clients : Credit'[c] <= Credit[c]
    <3> SUFFICES ASSUME NEW c \in Clients PROVE Credit'[c] <= Credit[c]
      OBVIOUS
    <3>1. CASE c \in DOMAIN buckets /\ Evictable(buckets[c])
      <4>1. Credit'[c] = BurstSize * Minute /\ Credit[c] = Worth(buckets[c])
        BY <1>0, <1>5, <3>1 DEF Sweep
      <4> QED
        BY <1>0, <3>1, <4>1, EvictionForfeits
    <3>2. CASE ~(c \in DOMAIN buckets /\ Evictable(buckets[c]))
      <4>1. Credit'[c] = Credit[c]
        BY <1>0, <1>5, <3>2 DEF Sweep
      <4> QED
        BY <1>a, <4>1, CreditLimitFacts
    <3> QED
      BY <3>1, <3>2
  <2> QED
    BY <1>a, <1>5, <2>1 DEF Budget!Next, Budget!Forfeit, Sweep
<1>6. CASE Tick
  <2>1. \A c \in Clients : Credit'[c] <= Credit[c] + RequestsPerMinute
    <3> SUFFICES ASSUME NEW c \in Clients
                 PROVE  Credit'[c] <= Credit[c] + RequestsPerMinute
      OBVIOUS
    <3>1. CASE c \in DOMAIN buckets
      BY <1>0, <1>6, <3>1, TickEarns DEF Tick
    <3>2. CASE c \notin DOMAIN buckets
      <4>1. Credit'[c] = Credit[c]
        BY <1>0, <1>6, <3>2 DEF Tick
      <4> QED
        BY <1>a, <4>1, CreditLimitFacts, LimiterAssumption, BudgetAssumption
    <3> QED
      BY <3>1, <3>2
  <2>2. audit' = Lengthened(audit)
    BY <1>6 DEF Tick
  <2> QED
    BY <1>a, <2>1, <2>2
       DEF Budget!Next, Budget!Tick, Budget!Lengthened, Lengthened,
           Budget!Closed, Closed
<1>7. CASE OpenWindow
  BY <1>7 DEF Budget!Next, OpenWindow, Budget!OpenWindow, Budget!Opened,
              Opened, Credit
<1>8. CASE UNCHANGED vars
  BY <1>8 DEF vars, Credit
<1>9. \A r \in Requests : ClientOf[r] \in Clients
  BY LimiterAssumption, BudgetAssumption
<1> QED
  BY <1>1, <1>2, <1>3, <1>4, <1>5, <1>6, <1>7, <1>8, <1>9
     DEF Next, Budget!Next

(***************************************************************************)
(* The limiter implements the token budget whenever an idle bucket fills   *)
(* up before it can be evicted: every lookup, charge, sweep and tick earns,*)
(* spends or forfeits credit as TokenBudget allows.                        *)
(***************************************************************************)
THEOREM LimiterImplementsBudget ==
  ASSUME RefillBeforeEviction
  PROVE  Spec => ImplementsBudget
<1>1. LimiterInv /\ LimiterInv' /\ [Next]_vars => [Budget!Next]_(Budget!vars)
  BY BudgetNext
<1> QED
  BY <1>1, BudgetInit, LimiterInitial, LimiterStep, PTL
     DEF Spec, ImplementsBudget, Budget!Spec
BudgetProofs == INSTANCE TokenBudgetProofs WITH credit <- Credit

(***************************************************************************)
(* The window bound of the budget carries over to the limiter: no          *)
(* interleaving of requests, sweeps and ticks admits the observed client   *)
(* more often than a burst plus what the rate earns, for every             *)
(* configuration with RefillBeforeEviction (ratelimit.go 61-123).          *)
(***************************************************************************)
THEOREM LimiterWindowBound ==
  ASSUME RefillBeforeEviction
  PROVE  Spec => []WindowBound
<1>1. Init => BudgetProofs!BudgetInv
  <2>1. Budget!Init => BudgetProofs!Init
    BY DEF Budget!Init, BudgetProofs!Init, Budget!Closed, BudgetProofs!Closed
  <2>2. BudgetProofs!Init => BudgetProofs!BudgetInv
    BY BudgetProofs!BudgetInitial, LimiterAssumption, BudgetAssumption, MaxWindowAssumption
  <2> QED
    BY <2>1, <2>2, BudgetInit
<1>2. LimiterInv /\ LimiterInv' /\ [Next]_vars /\ BudgetProofs!BudgetInv
        => BudgetProofs!BudgetInv'
  <2>1. BudgetProofs!BudgetInv /\ [BudgetProofs!Next]_(BudgetProofs!vars)
          => BudgetProofs!BudgetInv'
    BY BudgetProofs!BudgetStep, LimiterAssumption, BudgetAssumption, MaxWindowAssumption
  <2>2. [Budget!Next]_(Budget!vars) => [BudgetProofs!Next]_(BudgetProofs!vars)
    BY DEF Budget!Next, BudgetProofs!Next, Budget!vars, BudgetProofs!vars,
           Budget!Admit, BudgetProofs!Admit, Budget!Tick, BudgetProofs!Tick,
           Budget!Forfeit, BudgetProofs!Forfeit, Budget!OpenWindow,
           BudgetProofs!OpenWindow, Budget!Limit, BudgetProofs!Limit,
           Budget!Counted, BudgetProofs!Counted, Budget!Lengthened,
           BudgetProofs!Lengthened, Budget!Opened, BudgetProofs!Opened,
           Budget!Closed, BudgetProofs!Closed
  <2> QED
    BY <2>1, <2>2, BudgetNext
<1>3. BudgetProofs!BudgetInv => WindowBound
  <2>1. BudgetProofs!BudgetInv => BudgetProofs!WindowBound
    BY BudgetProofs!BudgetImplies, LimiterAssumption, BudgetAssumption, MaxWindowAssumption
  <2> QED
    BY <2>1 DEF BudgetProofs!WindowBound, WindowBound
<1> QED
  BY <1>1, <1>2, <1>3, LimiterInitial, LimiterStep, PTL DEF Spec

-----------------------------------------------------------------------------

\* The arithmetic of an account that turns idle time into bursts: k times what
\* is due, d, is covered by what was earned, x, and by w for each of the u
\* ticks but the i that a bucket has been idle for.
LEMMA PaidStays ==
  ASSUME NEW k \in Nat, NEW x \in Nat, NEW w \in Nat,
         NEW d \in Nat, NEW e \in Nat, e <= d,
         NEW u \in Nat, NEW i \in 0 .. u, NEW j \in 0 .. i,
         k * d <= x + (u - i) * w
  PROVE  k * e <= x + (u - j) * w
<1>1. e * k <= d * k /\ (u - i) * w <= (u - j) * w
  BY ProductMonotone
<1>2. e * k = k * e /\ d * k = k * d
  OBVIOUS
<1>3. k * e \in Nat /\ k * d \in Nat /\ (u - i) * w \in Nat /\ (u - j) * w \in Nat
  BY ProductIsNat
<1> QED
  BY <1>1, <1>2, <1>3

\* Giving up at least k ticks of idle time pays for w more.
LEMMA PaidByIdling ==
  ASSUME NEW k \in Nat, NEW x \in Nat, NEW w \in Nat,
         NEW d \in Nat, NEW e \in Nat, e <= d + w,
         NEW u \in Nat, NEW i \in 0 .. u, k <= i,
         k * d <= x + (u - i) * w
  PROVE  k * e <= x + u * w
<1>1. e * k <= (d + w) * k /\ k * w <= i * w
  BY ProductMonotone
<1>2. e * k = k * e /\ (d + w) * k = k * d + k * w /\ (u - i) * w + i * w = u * w
  OBVIOUS
<1>3. /\ k * e \in Nat /\ k * d \in Nat /\ k * w \in Nat
      /\ i * w \in Nat /\ u * w \in Nat /\ (u - i) * w \in Nat
  BY ProductIsNat
<1> QED
  BY <1>1, <1>2, <1>3

\* A tick pays for what it earns in time t.
LEMMA PaidByTime ==
  ASSUME NEW k \in Nat, NEW s \in Nat, NEW r \in Nat, NEW w \in Nat, NEW t \in Nat,
         NEW d \in Nat, NEW e \in Nat, e <= d + r,
         NEW u \in Nat, NEW i \in 0 .. u, NEW j \in 0 .. i + 1,
         k * d <= k * (s + r * t) + (u - i) * w
  PROVE  k * e <= k * (s + r * (t + 1)) + ((u + 1) - j) * w
<1>1. e * k <= (d + r) * k /\ (u - i) * w <= ((u + 1) - j) * w
  BY ProductMonotone
<1>2. /\ e * k = k * e
      /\ (d + r) * k = k * d + k * r
      /\ k * (s + r * (t + 1)) = k * (s + r * t) + k * r
  <2>1. r * (t + 1) = r * t + r
    OBVIOUS
  <2>2. r * t \in Nat
    BY ProductIsNat
  <2> DEFINE p == r * t
  <2> HIDE DEF p
  <2>3. k * (s + (p + r)) = k * (s + p) + k * r
    BY <2>2 DEF p
  <2> QED
    BY <2>1, <2>3 DEF p
<1>3. /\ k * e \in Nat /\ k * d \in Nat /\ k * r \in Nat /\ r * t \in Nat
      /\ (u - i) * w \in Nat /\ ((u + 1) - j) * w \in Nat
  BY ProductIsNat
<1>4. k * (s + r * t) \in Nat
  BY <1>3, ProductIsNat
<1> QED
  BY <1>1, <1>2, <1>3, <1>4

-----------------------------------------------------------------------------

\* How long the bucket of the observed client has been idle, as far as it
\* matters to the sweep.
Idling ==
  IF Audited \notin DOMAIN buckets THEN 0
  ELSE IF buckets[Audited].idle > EvictAge THEN EvictAge + 1
  ELSE buckets[Audited].idle

\* What the window has seen admitted and what could still be, in 1/Minute
\* tokens.
Claimed == Minute * audit.admitted + Credit[Audited]

\* The window covers its length and the EvictAge + 1 ticks that a bucket may
\* have been idle when it opened; idle time that has not ended in a refill or
\* an eviction is not spent yet.
EvictionInv ==
  audit.open =>
    (EvictAge + 1) * Claimed
      <= (EvictAge + 1) * (CreditLimit + RequestsPerMinute * audit.length)
           + ((audit.length + EvictAge + 1) - Idling) * (Minute * BurstSize)

LEMMA ClaimedTypes ==
  ASSUME LimiterInv
  PROVE  /\ EvictAge + 1 \in Nat
         /\ Minute * BurstSize \in Nat
         /\ Minute * BurstSize = BurstSize * Minute
         /\ audit \in WindowType
         /\ audit.length + EvictAge + 1 \in Nat
         /\ Idling \in 0 .. EvictAge + 1
         /\ Idling \in 0 .. audit.length + EvictAge + 1
         /\ Credit[Audited] \in 0 .. CreditLimit
         /\ Minute * audit.admitted \in Nat
         /\ Claimed \in Nat
         /\ (EvictAge + 1) * (CreditLimit + RequestsPerMinute * audit.length) \in Nat
<1>1. /\ EvictAge + 1 \in Nat /\ Minute \in Nat /\ BurstSize \in Nat
      /\ RequestsPerMinute \in Nat /\ Audited \in Clients
  BY LimiterAssumption, BudgetAssumption
<1>2. audit \in WindowType /\ audit.length \in Nat /\ audit.admitted \in Nat
  BY DEF LimiterInv, TypeOK, WindowType
<1>3. Credit[Audited] \in 0 .. CreditLimit
  BY <1>1, CreditType
<1>4. Minute * BurstSize \in Nat /\ Minute * BurstSize = BurstSize * Minute
  BY <1>1, ProductIsNat
<1>5. Minute * audit.admitted \in Nat /\ RequestsPerMinute * audit.length \in Nat
  BY <1>1, <1>2, ProductIsNat
<1>6. Idling \in 0 .. EvictAge + 1
  BY LimiterAssumption DEF Idling, LimiterInv, TypeOK, Bucket
<1>7. (EvictAge + 1) * (CreditLimit + RequestsPerMinute * audit.length) \in Nat
  BY <1>1, <1>5, CreditLimitFacts, ProductIsNat
<1>8. Idling \in 0 .. audit.length + EvictAge + 1
  BY <1>1, <1>2, <1>6, LimiterAssumption
<1> QED
  BY <1>1, <1>2, <1>3, <1>4, <1>5, <1>6, <1>7, <1>8, CreditLimitFacts,
     LimiterAssumption DEF Claimed

\* A step that claims no more and idles no longer, in an unchanged length.
LEMMA EvictionInvStays ==
  ASSUME LimiterInv, LimiterInv', EvictionInv, audit'.open = audit.open,
         audit'.length = audit.length, Claimed' <= Claimed, Idling' <= Idling
  PROVE  EvictionInv'
<1> DEFINE k == EvictAge + 1
           x == (EvictAge + 1) * (CreditLimit + RequestsPerMinute * audit.length)
           u == audit.length + EvictAge + 1
           w == Minute * BurstSize
<1> SUFFICES ASSUME audit'.open
             PROVE  k * Claimed' <= x + (u - Idling') * w
  BY Zenon DEF EvictionInv
<1>1. k * Claimed <= x + (u - Idling) * w
  BY Zenon DEF EvictionInv
<1>2. Claimed' \in Nat /\ Idling' \in Nat
  <2>1. /\ audit' \in WindowType
        /\ \A c \in DOMAIN buckets' : buckets'[c] \in Bucket
        /\ DOMAIN buckets' \subseteq Clients
    BY DEF LimiterInv, TypeOK
  <2>2. Credit'[Audited] \in Nat
    BY <2>1, WorthType, CreditLimitFacts, LimiterAssumption, BudgetAssumption DEF Credit
  <2>3. Minute * audit'.admitted \in Nat
    BY <2>1, ProductIsNat, BudgetAssumption DEF WindowType
  <2>4. Idling' \in Nat
    BY <2>1, LimiterAssumption DEF Idling, Bucket
  <2> QED
    BY <2>2, <2>3, <2>4 DEF Claimed
<1>3. /\ k \in Nat /\ x \in Nat /\ u \in Nat /\ w \in Nat
      /\ Claimed \in Nat /\ Idling \in 0 .. u /\ Idling' \in 0 .. Idling
  BY <1>2, ClaimedTypes
<1> HIDE DEF k, x, u, w
<1> QED
  BY <1>1, <1>2, <1>3, PaidStays

LEMMA EvictionStep ==
  LimiterInv /\ LimiterInv' /\ EvictionInv /\ [Next]_vars => EvictionInv'
<1> SUFFICES ASSUME LimiterInv, LimiterInv', EvictionInv, [Next]_vars
             PROVE  EvictionInv'
  OBVIOUS
<1> DEFINE a == Audited
<1>0. /\ DOMAIN buckets \subseteq Clients
      /\ \A c \in DOMAIN buckets : buckets[c] \in Bucket
      /\ audit \in WindowType
      /\ a \in Clients /\ EvictAge \in Nat /\ Minute \in Nat /\ RequestsPerMinute \in Nat
      /\ \A r \in Requests : ClientOf[r] \in Clients
  BY LimiterAssumption, BudgetAssumption DEF LimiterInv, TypeOK
<1>c. /\ Credit[a] = IF a \in DOMAIN buckets THEN Worth(buckets[a])
                     ELSE BurstSize * Minute
      /\ Credit'[a] = IF a \in DOMAIN buckets' THEN Worth(buckets'[a])
                      ELSE BurstSize * Minute
      /\ Credit[a] \in Nat /\ Minute * audit.admitted \in Nat
  BY <1>0, ClaimedTypes, CreditLimitFacts DEF Credit
<1>1. ASSUME NEW r \in Requests, Lookup(r) PROVE EvictionInv'
  <2>1. Credit'[a] = Credit[a] /\ Idling' <= Idling /\ audit' = audit
    BY <1>0, <1>1, <1>c, WorthOfNew, ClaimedTypes DEF Lookup, Idling, NewBucket
  <2>2. Claimed' <= Claimed
    BY <1>c, <2>1 DEF Claimed
  <2> QED
    BY <2>1, <2>2, EvictionInvStays
<1>2. ASSUME NEW r \in Requests, Admit(r) PROVE EvictionInv'
  <2> DEFINE c == ClientOf[r]
             s == Spent(Refilled(buckets[c]))
  <2>1. c \in DOMAIN buckets /\ buckets[c] \in Bucket
    BY <1>0, <1>2 DEF Admit, LimiterInv, HeldBucketIsLive
  <2>2. s \in Bucket /\ Worth(s) + Minute <= Worth(buckets[c])
    BY <1>2, <2>1, SpendingCosts DEF Admit
  <2>3. s.idle <= buckets[c].idle
    BY <2>1, RefilledFacts DEF Spent, Bucket
  <2>4. CASE c # a
    <3>1. Credit'[a] = Credit[a] /\ Idling' = Idling /\ audit' = audit
      BY <1>0, <1>2, <1>c, <2>1, <2>4 DEF Admit, Idling
    <3>2. Claimed' = Claimed
      BY <3>1 DEF Claimed
    <3> QED
      BY <1>c, <3>1, <3>2, ClaimedTypes, EvictionInvStays
  <2>5. CASE c = a
    <3>1. buckets'[a] = s /\ DOMAIN buckets' = DOMAIN buckets /\ audit' = Counted(audit)
      BY <1>2, <2>1, <2>5 DEF Admit
    <3>2. Credit'[a] + Minute <= Credit[a] /\ Credit'[a] \in Nat
      BY <1>c, <2>1, <2>2, <2>5, <3>1, WorthType, CreditLimitFacts
    <3>3. Idling' <= Idling
      <4>1. s.idle \in Nat /\ buckets[a].idle \in Nat /\ s.idle <= buckets[a].idle
        BY <2>1, <2>2, <2>3, <2>5 DEF Bucket
      <4>2. /\ Idling = IF buckets[a].idle > EvictAge THEN EvictAge + 1
                        ELSE buckets[a].idle
            /\ Idling' = IF s.idle > EvictAge THEN EvictAge + 1 ELSE s.idle
        BY <2>1, <2>5, <3>1 DEF Idling
      <4> HIDE DEF s
      <4> QED
        BY <1>0, <4>1, <4>2
    <3>4. /\ audit'.open = audit.open /\ audit'.length = audit.length
          /\ audit.open => audit'.admitted = audit.admitted + 1
      BY <1>0, <3>1 DEF Counted, WindowType
    <3>5. CASE audit.open
      <4>1. Minute * (audit.admitted + 1) = Minute * audit.admitted + Minute
        BY <1>0 DEF WindowType
      <4>2. Claimed' <= Claimed
        BY <1>0, <1>c, <3>2, <3>4, <3>5, <4>1 DEF Claimed
      <4> QED
        BY <3>3, <3>4, <4>2, EvictionInvStays
    <3>6. CASE ~audit.open
      BY <3>4, <3>6 DEF EvictionInv
    <3> QED
      BY <3>5, <3>6
  <2> QED
    BY <2>4, <2>5
<1>3. ASSUME NEW r \in Requests, Refuse(r) PROVE EvictionInv'
  <2> DEFINE c == ClientOf[r]
             s == Refilled(buckets[c])
  <2>1. c \in DOMAIN buckets /\ buckets[c] \in Bucket
    BY <1>0, <1>3 DEF Refuse, LimiterInv, HeldBucketIsLive
  <2>2. /\ s \in Bucket /\ s.idle <= buckets[c].idle
        /\ Worth(s) <= Worth(buckets[c])
    BY <2>1, RefilledFacts, RefillForfeits
  <2>3. /\ buckets' = [buckets EXCEPT ![c] = s]
        /\ audit' = audit
    BY <1>3 DEF Refuse
  <2> HIDE DEF s
  <2>4. Credit'[a] <= Credit[a] /\ Credit'[a] \in Nat
    BY <1>0, <1>c, <2>1, <2>2, <2>3, WorthType, CreditLimitFacts
  <2>5. Idling' <= Idling
    BY <1>0, <2>1, <2>2, <2>3, ClaimedTypes DEF Idling, Bucket
  <2>6. Claimed' <= Claimed
    BY <1>c, <2>3, <2>4 DEF Claimed
  <2> QED
    BY <2>3, <2>5, <2>6, EvictionInvStays
<1>4. ASSUME NEW r \in Requests, Respond(r) PROVE EvictionInv'
  BY <1>4 DEF Respond, EvictionInv, Claimed, Credit, Idling
<1>5. CASE Sweep
  <2>0. /\ DOMAIN buckets' = {x \in DOMAIN buckets : ~Evictable(buckets[x])}
        /\ \A x \in DOMAIN buckets' : buckets'[x] = buckets[x]
        /\ audit' = audit
    BY <1>5 DEF Sweep
  <2>1. CASE a \in DOMAIN buckets /\ Evictable(buckets[a])
    <3>1. Idling = EvictAge + 1 /\ Idling' = 0
      BY <2>0, <2>1 DEF Idling, Evictable
    <3>2. Claimed' <= Claimed + Minute * BurstSize /\ Claimed' \in Nat
      BY <1>c, <2>0, <2>1, ClaimedTypes DEF Claimed
    <3>3. CASE audit.open
      <4>1. (EvictAge + 1) * Claimed'
              <= (EvictAge + 1) * (CreditLimit + RequestsPerMinute * audit.length)
                   + (audit.length + EvictAge + 1) * (Minute * BurstSize)
        <5> DEFINE k == EvictAge + 1
                   x == (EvictAge + 1) * (CreditLimit + RequestsPerMinute * audit.length)
                   u == audit.length + EvictAge + 1
                   w == Minute * BurstSize
        <5>1. k * Claimed <= x + (u - Idling) * w
          BY <3>3, Zenon DEF EvictionInv
        <5>2. /\ k \in Nat /\ x \in Nat /\ u \in Nat /\ w \in Nat
              /\ Claimed \in Nat /\ Idling \in 0 .. u /\ k <= Idling
              /\ Claimed' \in Nat /\ Claimed' <= Claimed + w
          BY <3>1, <3>2, ClaimedTypes
        <5> HIDE DEF k, x, u, w
        <5>3. k * Claimed' <= x + u * w
          BY <5>1, <5>2, PaidByIdling
        <5> QED
          BY <5>3 DEF k, x, u, w
      <4>2. (audit'.length + EvictAge + 1) - Idling' = audit.length + EvictAge + 1
        BY <2>0, <3>1, ClaimedTypes
      <4> QED
        BY <2>0, <4>1, <4>2 DEF EvictionInv
    <3>4. CASE ~audit.open
      BY <2>0, <3>4 DEF EvictionInv
    <3> QED
      BY <3>3, <3>4
  <2>2. CASE ~(a \in DOMAIN buckets /\ Evictable(buckets[a]))
    <3>1. Idling' = Idling /\ Credit'[a] = Credit[a]
      BY <1>c, <2>0, <2>2 DEF Idling
    <3>2. Claimed' = Claimed
      BY <2>0, <3>1 DEF Claimed
    <3> QED
      BY <2>0, <3>1, <3>2, ClaimedTypes, EvictionInvStays
  <2> QED
    BY <2>1, <2>2
<1>6. CASE Tick
  <2>0. /\ DOMAIN buckets' = DOMAIN buckets
        /\ \A x \in DOMAIN buckets : buckets'[x] = Older(buckets[x])
        /\ audit' = Lengthened(audit)
    BY <1>6 DEF Tick
  <2>1. CASE ~audit'.open
    BY <2>1 DEF EvictionInv
  <2>2. CASE audit'.open
    <3>1. /\ audit.open /\ audit'.length = audit.length + 1
          /\ audit'.admitted = audit.admitted
      BY <1>0, <2>0, <2>2 DEF Lengthened, Closed, WindowType
    <3>2. Credit'[a] <= Credit[a] + RequestsPerMinute /\ Credit'[a] \in Nat
      <4>1. CASE a \in DOMAIN buckets
        BY <1>0, <1>c, <2>0, <4>1, TickEarns, WorthType, CreditLimitFacts
      <4>2. CASE a \notin DOMAIN buckets
        BY <1>0, <1>c, <2>0, <4>2
      <4> QED
        BY <4>1, <4>2
    <3>3. Claimed' <= Claimed + RequestsPerMinute /\ Claimed' \in Nat
      BY <1>0, <1>c, <3>1, <3>2 DEF Claimed
    <3>4. Idling' \in 0 .. Idling + 1
      BY <1>0, <2>0 DEF Idling, Older, Bucket
    <3>5. audit.length \in Nat
      BY <1>0 DEF WindowType
    <3> DEFINE k == EvictAge + 1
               u == audit.length + EvictAge + 1
               w == Minute * BurstSize
    <3>6. k * Claimed <= k * (CreditLimit + RequestsPerMinute * audit.length)
                           + (u - Idling) * w
      BY <3>1, Zenon DEF EvictionInv
    <3>7. k * Claimed' <= k * (CreditLimit + RequestsPerMinute * (audit.length + 1))
                            + ((u + 1) - Idling') * w
      <4>1. /\ k \in Nat /\ u \in Nat /\ w \in Nat /\ Idling \in 0 .. u
            /\ Claimed \in Nat /\ CreditLimit \in Nat
        BY ClaimedTypes, CreditLimitFacts
      <4> HIDE DEF k, u, w
      <4> QED
        BY <1>0, <3>3, <3>4, <3>5, <3>6, <4>1, PaidByTime
    <3>8. (audit'.length + EvictAge + 1) - Idling'
            = (u + 1) - Idling'
      BY <1>0, <3>1, <3>4, <3>5, ClaimedTypes
    <3> QED
      BY <3>1, <3>7, <3>8 DEF EvictionInv
  <2> QED
    BY <2>1, <2>2
<1>7. CASE OpenWindow
  <2>1. /\ audit'.length = 0 /\ audit'.admitted = 0
        /\ Credit'[a] = Credit[a] /\ Idling' = Idling
    BY <1>7 DEF OpenWindow, Opened, Credit, Idling
  <2>2. Claimed' = Credit[a]
    BY <1>0, <1>c, <2>1 DEF Claimed
  <2>3. Credit[a] * (EvictAge + 1) <= CreditLimit * (EvictAge + 1)
    BY <1>c, ClaimedTypes, CreditLimitFacts, ProductMonotone
  <2>4. (EvictAge + 1) * Credit[a] <= (EvictAge + 1) * CreditLimit
    BY <1>c, <2>3, ClaimedTypes, CreditLimitFacts
  <2>5. (0 + EvictAge + 1) - Idling \in Nat
    BY <1>0, ClaimedTypes
  <2>6. ((0 + EvictAge + 1) - Idling) * (Minute * BurstSize) \in Nat
    BY <2>5, ClaimedTypes, ProductIsNat
  <2>7. CreditLimit + RequestsPerMinute * 0 = CreditLimit
    BY <1>0, CreditLimitFacts
  <2>8. (EvictAge + 1) * Credit[a] \in Nat /\ (EvictAge + 1) * CreditLimit \in Nat
    BY <1>c, ClaimedTypes, CreditLimitFacts, ProductIsNat
  <2> QED
    BY <2>1, <2>2, <2>4, <2>6, <2>7, <2>8 DEF EvictionInv
<1>8. CASE UNCHANGED vars
  BY <1>8 DEF vars, EvictionInv, Claimed, Credit, Idling
<1> QED
  BY <1>1, <1>2, <1>3, <1>4, <1>5, <1>6, <1>7, <1>8 DEF Next

LEMMA EvictionInvSuffices == LimiterInv /\ EvictionInv => EvictionWindowBound
<1> SUFFICES ASSUME LimiterInv, EvictionInv, audit.open
             PROVE  (EvictAge + 1) * (Minute * audit.admitted)
                      < (EvictAge + 1) * (Minute * (BurstSize + 1)
                                            + RequestsPerMinute * audit.length)
                          + (audit.length + EvictAge + 1) * (Minute * BurstSize)
  BY DEF EvictionWindowBound
<1> DEFINE k == EvictAge + 1
           m == Minute * audit.admitted
           l == CreditLimit + RequestsPerMinute * audit.length
           u == audit.length + EvictAge + 1
           w == Minute * BurstSize
<1>1. /\ k \in Nat /\ k >= 1 /\ m \in Nat /\ u \in Nat /\ w \in Nat
      /\ Claimed \in Nat /\ m <= Claimed
      /\ Idling \in 0 .. u
      /\ RequestsPerMinute * audit.length \in Nat /\ l \in Nat
  BY ClaimedTypes, CreditLimitFacts, ProductIsNat, LimiterAssumption, BudgetAssumption
     DEF Claimed, WindowType
<1>2. Minute * (BurstSize + 1) + RequestsPerMinute * audit.length = l + 1
  <2>1. Minute * (BurstSize + 1) = BurstSize * Minute + Minute
    BY BudgetAssumption
  <2> QED
    BY <1>1, <2>1, CreditLimitFacts, BudgetAssumption
<1>3. k * Claimed <= k * l + (u - Idling) * w
  BY Zenon DEF EvictionInv
<1> HIDE DEF k, m, l, u, w
<1>4. m * k <= Claimed * k /\ (u - Idling) * w <= u * w
  BY <1>1, ProductMonotone
<1>5. m * k = k * m /\ Claimed * k = k * Claimed /\ k * (l + 1) = k * l + k
  BY <1>1
<1>6. /\ k * m \in Nat /\ k * Claimed \in Nat /\ k * l \in Nat
      /\ (u - Idling) * w \in Nat /\ u * w \in Nat
  BY <1>1, ProductIsNat
<1>7. k * m < k * (l + 1) + u * w
  BY <1>1, <1>3, <1>4, <1>5, <1>6
<1> QED
  BY <1>2, <1>7 DEF k, m, u, w

(***************************************************************************)
(* Whatever the eviction age, a client gains at most a burst per eviction  *)
(* age by having its bucket deleted: idle time pays for a fresh burst only *)
(* once, and no interleaving of requests, sweeps and ticks spends it twice *)
(* (ratelimit.go 66-73, 87-101, 116).                                      *)
(***************************************************************************)
THEOREM LimiterEvictionWindowBound == Spec => []EvictionWindowBound
<1>1. Init => EvictionInv
  BY DEF Init, EvictionInv, Closed
<1> QED
  BY <1>1, EvictionStep, EvictionInvSuffices, LimiterInitial, LimiterStep, PTL DEF Spec
=============================================================================
