------------------------- MODULE RequestPathProofs --------------------------
(***************************************************************************)
(* What the statistics count has been paid for at the limiter, for every   *)
(* configuration, any clients, routes and users, and any finite number of  *)
(* handlers.                                                               *)
(***************************************************************************)
EXTENDS RequestPath, RateLimiterProofs, FiniteSetTheorems

\* The limiter's part of the state is as in RateLimiterProofs, and only an
\* admitted request stands behind the limiter.
PathInv ==
  /\ LimiterInv
  /\ handling \in [Requests -> Control!Request]
  /\ uptime \in 0 .. MaxUptime
  /\ counted \in [Clients -> Nat]
  /\ \A r \in Requests : request[r] # "admitted" => handling[r].pc = "idle"

\* The requests of c that the limiter has charged and nothing has counted.
Owing(c) ==
  {r \in Requests : /\ ClientOf[r] = c
                    /\ request[r] = "admitted"
                    /\ handling[r].pc \in {"idle", "entered"}}

Idle(c) == IF c \in DOMAIN buckets THEN buckets[c].idle ELSE 0

\* What c has spent and may still spend, in 1/Minute tokens.
Due(c) == Minute * (counted[c] + Cardinality(Owing(c))) + Credit[c]

\* Only idle time that has ended in a refill or an eviction may have been
\* worth a fresh burst.
Paid(c) ==
  (EvictAge + 1) * Due(c)
    <= (EvictAge + 1) * (Minute * BurstSize + RequestsPerMinute * uptime)
         + (uptime - Idle(c)) * (Minute * BurstSize)

PaidInv ==
  /\ uptime < MaxUptime => \A c \in Clients : Idle(c) <= uptime /\ Paid(c)
  /\ CountedWithinRate

-----------------------------------------------------------------------------

\* Every step of the path but a restart is a step of the limiter.
LEMMA LimiterSteps ==
  PathNext => [Next]_vars \/ \E c \in Configs : Restart(c)
BY DEF PathNext, Limit, Authenticate, CountRequest, CountMore, Answer, CleanUp,
       PathTick, Observe, Next, vars

LEMMA NewLimiterInv == NewLimiter => LimiterInv'
BY LimiterAssumption, BudgetAssumption
   DEF NewLimiter, LimiterInv, TypeOK, HeldBucketIsLive, Bucket, Closed, WindowType

LEMMA PathInitial == PathInit => PathInv
<1> SUFFICES ASSUME PathInit PROVE PathInv
  OBVIOUS
<1>1. LimiterInv
  BY LimiterInitial DEF PathInit
<1>2. handling \in [Requests -> Control!Request]
  BY DEF PathInit, Control!Init, Control!NoRequest, Control!Request
<1>3. \A r \in Requests : handling[r].pc = "idle"
  BY DEF PathInit, Control!Init, Control!NoRequest
<1> QED
  BY <1>1, <1>2, <1>3, PathAssumption DEF PathInit, PathInv

LEMMA PathStep == PathInv /\ [PathNext]_pathVars => PathInv'
<1> SUFFICES ASSUME PathInv, [PathNext]_pathVars PROVE PathInv'
  OBVIOUS
<1>0. /\ LimiterInv
      /\ handling \in [Requests -> Control!Request]
      /\ uptime \in 0 .. MaxUptime
      /\ counted \in [Clients -> Nat]
      /\ \A r \in Requests : request[r] # "admitted" => handling[r].pc = "idle"
      /\ request \in [Requests -> {"idle", "held", "admitted", "refused"}]
      /\ MaxUptime \in Nat
      /\ \A r \in Requests : ClientOf[r] \in Clients
  BY PathAssumption, LimiterAssumption DEF PathInv, LimiterInv, TypeOK
<1>1. LimiterInv'
  BY LimiterSteps, LimiterStep, NewLimiterInv DEF PathInv, Restart, pathVars, vars
<1>2. ASSUME NEW r \in Requests, Limit(r) PROVE PathInv'
  <2>1. /\ UNCHANGED <<handling, uptime, counted>>
        /\ \A q \in Requests \ {r} : request'[q] = request[q]
        /\ request[r] # "admitted"
    BY <1>0, <1>2 DEF Limit, controlVars, ghosts, Lookup, Admit, Refuse
  <2> QED
    BY <1>0, <1>1, <2>1 DEF PathInv
<1>3. ASSUME NEW r \in Requests, Authenticate(r) PROVE PathInv'
  <2>1. PICK rt \in Routes, p \in {"rejected", "ready", "entered"} :
          handling' = [handling EXCEPT ![r] = [pc |-> p, route |-> rt]]
    BY <1>3 DEF Authenticate, Control!Reject, Control!Enter, Control!Goto
  <2>2. handling' \in [Requests -> Control!Request]
    BY <1>0, <2>1 DEF Control!Request
  <2>3. UNCHANGED <<request, uptime, counted>> /\ request[r] = "admitted"
    BY <1>3 DEF Authenticate, vars, ghosts
  <2> QED
    BY <1>0, <1>1, <2>1, <2>2, <2>3 DEF PathInv
<1>4. ASSUME NEW r \in Requests, CountRequest(r) \/ CountMore(r) PROVE PathInv'
  <2>1. PICK p \in {"ready", "counted"} :
          handling' = [handling EXCEPT ![r] = [pc |-> p, route |-> handling[r].route]]
    BY <1>4 DEF CountRequest, CountMore, Control!CountRequest, Control!CountCheck,
                Control!CountQuery, Control!Goto
  <2>2. handling[r].pc \in {"entered", "counted"}
    BY <1>4 DEF CountRequest, CountMore, Control!CountRequest, Control!CountCheck,
                Control!CountQuery
  <2>3. handling' \in [Requests -> Control!Request]
    BY <1>0, <2>1 DEF Control!Request
  <2>4. UNCHANGED <<request, uptime>>
    BY <1>4 DEF CountRequest, CountMore, vars, ghosts
  <2>5. counted' \in [Clients -> Nat]
    BY <1>0, <1>4 DEF CountRequest, CountMore, ghosts
  <2> QED
    BY <1>0, <1>1, <2>1, <2>2, <2>3, <2>4, <2>5 DEF PathInv
<1>5. ASSUME NEW r \in Requests, Answer(r) PROVE PathInv'
  <2>1. /\ UNCHANGED <<uptime, counted>>
        /\ request' = [request EXCEPT ![r] = "idle"]
    BY <1>5 DEF Answer, ghosts, Respond
  <2>2. CASE handling[r].pc = "idle" /\ UNCHANGED controlVars
    BY <1>0, <1>1, <2>1, <2>2 DEF PathInv, controlVars
  <2>3. CASE Control!Respond(r) \/ \E u \in Users : Control!Login(r, u)
    <3>1. handling' = [handling EXCEPT ![r] = [pc |-> "idle", route |-> "none"]]
      BY <2>3 DEF Control!Respond, Control!Login, Control!NoRequest
    <3>2. handling' \in [Requests -> Control!Request]
      BY <1>0, <3>1 DEF Control!Request
    <3> QED
      BY <1>0, <1>1, <2>1, <3>1, <3>2 DEF PathInv
  <2> QED
    BY <1>5, <2>2, <2>3 DEF Answer
<1>6. CASE CleanUp
  BY <1>0, <1>1, <1>6 DEF CleanUp, Sweep, controlVars, ghosts, PathInv
<1>7. CASE PathTick
  BY <1>0, <1>1, <1>7 DEF PathTick, Tick, Control!Tick, PathInv
<1>8. ASSUME NEW c \in Configs, Restart(c) PROVE PathInv'
  <2>1. handling' = [r \in Requests |-> [pc |-> "idle", route |-> "none"]]
    BY <1>8 DEF Restart, Control!Restart, Control!NoRequest
  <2>2. handling' \in [Requests -> Control!Request]
    BY <2>1 DEF Control!Request
  <2>3. uptime' = 0 /\ counted' = [x \in Clients |-> 0]
    BY <1>8 DEF Restart, NewLimiter
  <2> QED
    BY <1>0, <1>1, <2>1, <2>2, <2>3 DEF PathInv
<1>9. CASE Observe
  BY <1>0, <1>1, <1>9 DEF Observe, OpenWindow, controlVars, ghosts, PathInv
<1>10. CASE UNCHANGED pathVars
  BY <1>0, <1>1, <1>10 DEF pathVars, vars, controlVars, ghosts, PathInv
<1> QED
  BY <1>2, <1>3, <1>4, <1>5, <1>6, <1>7, <1>8, <1>9, <1>10 DEF PathNext

-----------------------------------------------------------------------------

\* What is paid at time u is within the rate from then on.
LEMMA PaidSuffices ==
  ASSUME NEW k \in Nat, NEW s \in Nat, NEW r \in Nat, NEW w \in Nat,
         NEW d \in Nat, NEW e \in Nat, e <= d,
         NEW u \in Nat, NEW i \in 0 .. u, NEW v \in Nat, u <= v,
         k * d <= k * (s + r * u) + (u - i) * w
  PROVE  k * e <= k * (s + r * v) + v * w
<1>1. /\ e * k <= d * k
      /\ u * r <= v * r
      /\ (u - i) * w <= v * w
  BY ProductMonotone
<1>2. e * k = k * e /\ d * k = k * d /\ u * r = r * u /\ v * r = r * v
  OBVIOUS
<1>3. /\ r * u \in Nat /\ r * v \in Nat /\ k * e \in Nat /\ k * d \in Nat
      /\ (u - i) * w \in Nat /\ v * w \in Nat
  BY ProductIsNat
<1>4. s + r * u \in Nat /\ s + r * v \in Nat /\ s + r * u <= s + r * v
  BY <1>1, <1>2, <1>3
<1>5. (s + r * u) * k <= (s + r * v) * k
  BY <1>4, ProductMonotone
<1>6. (s + r * u) * k = k * (s + r * u) /\ (s + r * v) * k = k * (s + r * v)
  BY <1>4
<1>7. k * (s + r * u) \in Nat /\ k * (s + r * v) \in Nat
  BY <1>4, ProductIsNat
<1> QED
  BY <1>1, <1>2, <1>3, <1>5, <1>6, <1>7

-----------------------------------------------------------------------------

LEMMA ConstantFacts ==
  /\ EvictAge + 1 \in Nat
  /\ Minute * BurstSize \in Nat /\ Minute * BurstSize = BurstSize * Minute
  /\ RequestsPerMinute \in Nat /\ Minute \in Nat /\ MaxUptime \in Nat
  /\ \A u \in Nat : Minute * BurstSize + RequestsPerMinute * u \in Nat
BY ProductIsNat, LimiterAssumption, BudgetAssumption, PathAssumption

LEMMA CountType ==
  ASSUME IsFiniteSet(Requests), NEW S \in SUBSET Requests
  PROVE  IsFiniteSet(S) /\ Cardinality(S) \in Nat
BY FS_Subset, FS_CardinalityType

\* The terms of Paid before and after a step.
LEMMA TermTypes ==
  ASSUME IsFiniteSet(Requests), PathInv, PathInv', NEW c \in Clients
  PROVE  /\ Cardinality(Owing(c)) \in Nat /\ Cardinality(Owing(c)') \in Nat
         /\ Credit[c] \in 0 .. CreditLimit /\ Credit'[c] \in 0 .. CreditLimit
         /\ counted[c] \in Nat /\ counted'[c] \in Nat
         /\ Idle(c) \in Nat /\ Idle(c)' \in Nat
         /\ Due(c) \in Nat /\ Due(c)' \in Nat
<1>1. /\ DOMAIN buckets \subseteq Clients
      /\ \A x \in DOMAIN buckets : buckets[x] \in Bucket
      /\ DOMAIN buckets' \subseteq Clients
      /\ \A x \in DOMAIN buckets' : buckets'[x] \in Bucket
  BY DEF PathInv, LimiterInv, TypeOK
<1>2. BurstSize * Minute \in 0 .. CreditLimit
  BY CreditLimitFacts, LimiterAssumption, BudgetAssumption
<1>3. Credit[c] \in 0 .. CreditLimit /\ Credit'[c] \in 0 .. CreditLimit
  BY <1>1, <1>2, WorthType DEF Credit
<1>4. Idle(c) \in Nat /\ Idle(c)' \in Nat
  BY <1>1 DEF Idle, Bucket
<1>5. Cardinality(Owing(c)) \in Nat /\ Cardinality(Owing(c)') \in Nat
  BY CountType DEF Owing
<1>6. counted[c] \in Nat /\ counted'[c] \in Nat
  BY DEF PathInv
<1>7. /\ Minute * (counted[c] + Cardinality(Owing(c))) \in Nat
      /\ Minute * (counted'[c] + Cardinality(Owing(c)')) \in Nat
  BY <1>5, <1>6, ProductIsNat, ConstantFacts
<1> QED
  BY <1>3, <1>4, <1>5, <1>6, <1>7, CreditLimitFacts DEF Due

\* What c is due does not grow when counted, owed and credited shrink.
LEMMA DueFalls ==
  ASSUME IsFiniteSet(Requests), PathInv, PathInv', NEW c \in Clients,
         counted'[c] + Cardinality(Owing(c)') <= counted[c] + Cardinality(Owing(c)),
         Credit'[c] <= Credit[c]
  PROVE  Due(c)' <= Due(c)
<1> DEFINE n == counted[c] + Cardinality(Owing(c))
           m == counted'[c] + Cardinality(Owing(c)')
<1>1. n \in Nat /\ m \in Nat /\ m <= n
  BY TermTypes
<1>2. Due(c) = Minute * n + Credit[c] /\ Due(c)' = Minute * m + Credit'[c]
  BY DEF Due
<1> HIDE DEF n, m
<1>3. m * Minute <= n * Minute /\ m * Minute = Minute * m /\ n * Minute = Minute * n
  BY <1>1, ProductMonotone, ConstantFacts
<1>4. Minute * m \in Nat /\ Minute * n \in Nat
  BY <1>1, ProductIsNat, ConstantFacts
<1>5. Credit[c] \in Nat /\ Credit'[c] \in Nat
  BY TermTypes, CreditLimitFacts
<1> QED
  BY <1>2, <1>3, <1>4, <1>5

-----------------------------------------------------------------------------

\* A step that lengthens no idle time and makes nothing due.
Frugal ==
  \A c \in Clients : Due(c)' <= Due(c) /\ Idle(c)' <= Idle(c)

\* No decision of the limiter makes anything due: an admission is owed from
\* now on, but has cost its token.
LEMMA LimitFrugal ==
  ASSUME IsFiniteSet(Requests), PathInv, PathInv', NEW r \in Requests, Limit(r)
  PROVE  Frugal
<1> SUFFICES ASSUME NEW c \in Clients
             PROVE  Due(c)' <= Due(c) /\ Idle(c)' <= Idle(c)
  BY DEF Frugal
<1>0. /\ \A x \in DOMAIN buckets : buckets[x] \in Bucket
      /\ request \in [Requests -> {"idle", "held", "admitted", "refused"}]
      /\ UNCHANGED <<handling, counted>>
      /\ request[r] # "admitted"
      /\ Minute \in Nat
      /\ HeldBucketIsLive
      /\ ClientOf[r] \in Clients
  BY ConstantFacts, LimiterAssumption
     DEF PathInv, LimiterInv, TypeOK, Limit, controlVars, ghosts, Lookup, Admit, Refuse
<1>t. /\ Cardinality(Owing(c)) \in Nat /\ Cardinality(Owing(c)') \in Nat
      /\ Credit[c] \in Nat /\ Credit'[c] \in Nat
      /\ counted[c] \in Nat /\ counted'[c] = counted[c]
      /\ Idle(c) \in Nat /\ Idle(c)' \in Nat
  BY <1>0, TermTypes, CreditLimitFacts
<1>1. CASE Lookup(r)
  <2>1. Owing(c)' = Owing(c)
    BY <1>0, <1>1 DEF Lookup, Owing
  <2>2. Credit'[c] = Credit[c]
    BY <1>1, WorthOfNew DEF Lookup, Credit
  <2>3. Idle(c)' = Idle(c)
    BY <1>1 DEF Lookup, Idle, NewBucket
  <2> QED
    BY <1>t, <2>1, <2>2, <2>3, DueFalls
<1>2. CASE Refuse(r)
  <2> DEFINE b == buckets[ClientOf[r]]
  <2>0. ClientOf[r] \in DOMAIN buckets /\ b \in Bucket
    BY <1>0, <1>2 DEF Refuse, HeldBucketIsLive
  <2>1. Owing(c)' = Owing(c)
    BY <1>0, <1>2 DEF Refuse, Owing
  <2>2. Refilled(b) \in Bucket /\ Refilled(b).idle <= b.idle
    BY <2>0, RefilledFacts
  <2>3. Worth(Refilled(b)) <= Worth(b)
    BY <2>0, RefillForfeits
  <2>4. Credit'[c] <= Credit[c] /\ Idle(c)' <= Idle(c)
    BY <1>0, <1>2, <1>t, <2>0, <2>2, <2>3 DEF Refuse, Credit, Idle
  <2> QED
    BY <1>t, <2>1, <2>4, DueFalls
<1>3. CASE Admit(r)
  <2> DEFINE b == buckets[ClientOf[r]]
             s == Spent(Refilled(b))
  <2>0. ClientOf[r] \in DOMAIN buckets /\ b \in Bucket
    BY <1>0, <1>3 DEF Admit, HeldBucketIsLive
  <2>1. s.idle <= b.idle
    BY <2>0, RefilledFacts DEF Spent, Bucket
  <2>2. Worth(s) + Minute <= Worth(b)
    BY <1>3, <2>0, SpendingCosts DEF Admit
  <2>3. Idle(c)' <= Idle(c)
    BY <1>0, <1>3, <1>t, <2>0, <2>1 DEF Admit, Idle
  <2>4. CASE ClientOf[r] # c
    <3>1. Owing(c)' = Owing(c)
      BY <1>0, <1>3, <2>4 DEF Admit, Owing
    <3>2. Credit'[c] = Credit[c]
      BY <1>3, <2>0, <2>4 DEF Admit, Credit
    <3> QED
      BY <1>t, <2>3, <3>1, <3>2, DueFalls
  <2>5. CASE ClientOf[r] = c
    <3>1. handling[r].pc = "idle"
      BY <1>0 DEF PathInv
    <3>2. Owing(c)' = Owing(c) \cup {r} /\ r \notin Owing(c)
      BY <1>0, <1>3, <2>5, <3>1 DEF Admit, Owing
    <3>3. Cardinality(Owing(c)') = Cardinality(Owing(c)) + 1
      BY <3>2, CountType, FS_AddElement DEF Owing
    <3>4. Credit[c] = Worth(b) /\ Credit'[c] = Worth(s)
      BY <1>0, <1>3, <2>0, <2>5 DEF Admit, Credit
    <3>5. Credit'[c] + Minute <= Credit[c]
      BY <2>2, <3>4
    <3> DEFINE n == counted[c] + Cardinality(Owing(c))
    <3>6. Due(c) = Minute * n + Credit[c]
      BY DEF Due
    <3>7. Due(c)' = Minute * (n + 1) + Credit'[c]
      BY <1>t, <3>3 DEF Due
    <3>8. n \in Nat
      BY <1>t
    <3> HIDE DEF n
    <3>9. Minute * (n + 1) = Minute * n + Minute /\ Minute * n \in Nat
      BY <1>0, <3>8, ProductIsNat
    <3> QED
      BY <1>0, <1>t, <2>3, <3>5, <3>6, <3>7, <3>9
  <2> QED
    BY <2>4, <2>5
<1> QED
  BY <1>1, <1>2, <1>3 DEF Limit

\* Behind the limiter, whatever a request does takes it off what is owed,
\* and at most onto what is counted.
LEMMA HandlerFrugal ==
  ASSUME IsFiniteSet(Requests), PathInv, PathInv', NEW r \in Requests,
         \/ Authenticate(r)
         \/ uptime < MaxUptime /\ CountRequest(r)
         \/ CountMore(r)
         \/ Answer(r)
  PROVE  Frugal
<1> SUFFICES ASSUME NEW c \in Clients
             PROVE  Due(c)' <= Due(c) /\ Idle(c)' <= Idle(c)
  BY DEF Frugal
<1>0. /\ UNCHANGED buckets
      /\ request \in [Requests -> {"idle", "held", "admitted", "refused"}]
      /\ handling \in [Requests -> Control!Request]
      /\ counted \in [Clients -> Nat]
      /\ \A q \in Requests : request[q] # "admitted" => handling[q].pc = "idle"
  BY DEF PathInv, LimiterInv, TypeOK, Authenticate, CountRequest, CountMore, Answer,
         Respond, vars
<1>t. /\ Cardinality(Owing(c)) \in Nat /\ Cardinality(Owing(c)') \in Nat
      /\ Credit[c] \in Nat /\ Credit'[c] = Credit[c]
      /\ counted[c] \in Nat /\ counted'[c] \in Nat
      /\ Idle(c) \in Nat /\ Idle(c)' = Idle(c)
  BY <1>0, TermTypes, CreditLimitFacts DEF Credit, Idle
<1>1. ASSUME Owing(c)' \subseteq Owing(c), counted' = counted
      PROVE  Due(c)' <= Due(c)
  <2>1. Cardinality(Owing(c)') <= Cardinality(Owing(c))
    BY <1>1, CountType, FS_Subset DEF Owing
  <2> QED
    BY <1>1, <1>t, <2>1, DueFalls
<1>2. CASE Authenticate(r)
  <2>1. PICK rt \in Routes, p \in {"rejected", "ready", "entered"} :
          handling' = [handling EXCEPT ![r] = [pc |-> p, route |-> rt]]
    BY <1>2 DEF Authenticate, Control!Reject, Control!Enter, Control!Goto
  <2>2. handling[r].pc = "idle" /\ UNCHANGED <<request, counted>>
    BY <1>2 DEF Authenticate, Control!Reject, Control!Enter, vars, ghosts
  <2>3. Owing(c)' \subseteq Owing(c)
    BY <1>0, <2>1, <2>2 DEF Owing
  <2> QED
    BY <1>1, <1>t, <2>2, <2>3
<1>3. CASE uptime < MaxUptime /\ CountRequest(r)
  <2>1. PICK p \in {"ready", "counted"} :
          handling' = [handling EXCEPT ![r] = [pc |-> p, route |-> handling[r].route]]
    BY <1>3 DEF CountRequest, Control!CountRequest, Control!Goto
  <2>2. /\ handling[r].pc = "entered"
        /\ UNCHANGED request
        /\ counted' = [counted EXCEPT ![ClientOf[r]] = counted[ClientOf[r]] + 1]
    BY <1>3 DEF CountRequest, Control!CountRequest, vars
  <2>3. CASE ClientOf[r] # c
    <3>1. Owing(c)' = Owing(c) /\ counted'[c] = counted[c]
      BY <1>0, <2>1, <2>2, <2>3 DEF Owing
    <3> QED
      BY <1>t, <3>1, DueFalls
  <2>4. CASE ClientOf[r] = c
    <3>1. r \in Owing(c)
      BY <1>0, <2>2, <2>4 DEF Owing
    <3>2. Owing(c)' = Owing(c) \ {r}
      BY <1>0, <2>1, <2>2 DEF Owing
    <3>3. Cardinality(Owing(c)') = Cardinality(Owing(c)) - 1
      BY <3>1, <3>2, CountType, FS_RemoveElement DEF Owing
    <3>4. counted'[c] = counted[c] + 1
      BY <1>0, <2>2, <2>4
    <3> QED
      BY <1>t, <3>3, <3>4, DueFalls
  <2> QED
    BY <2>3, <2>4
<1>4. CASE CountMore(r)
  <2>1. handling' = [handling EXCEPT ![r] = [pc |-> "ready", route |-> handling[r].route]]
    BY <1>4 DEF CountMore, Control!CountCheck, Control!CountQuery, Control!Goto
  <2>2. UNCHANGED <<request, counted>>
    BY <1>4 DEF CountMore, vars, ghosts
  <2>3. Owing(c)' \subseteq Owing(c)
    BY <1>0, <2>1, <2>2 DEF Owing
  <2> QED
    BY <1>1, <1>t, <2>2, <2>3
<1>5. CASE Answer(r)
  <2>1. request' = [request EXCEPT ![r] = "idle"] /\ UNCHANGED counted
    BY <1>5 DEF Answer, Respond, ghosts
  <2>2. \A q \in Requests : q # r => handling'[q] = handling[q]
    BY <1>0, <1>5 DEF Answer, controlVars, Control!Respond, Control!Login
  <2>3. Owing(c)' \subseteq Owing(c)
    BY <1>0, <2>1, <2>2 DEF Owing
  <2> QED
    BY <1>1, <1>t, <2>1, <2>3
<1> QED
  BY <1>2, <1>3, <1>4, <1>5

LEMMA StaysPaid ==
  ASSUME IsFiniteSet(Requests), PathInv, PathInv', UNCHANGED uptime,
         NEW c \in Clients, Due(c)' <= Due(c), Idle(c)' <= Idle(c),
         Idle(c) <= uptime, Paid(c)
  PROVE  Idle(c)' <= uptime' /\ Paid(c)'
<1>1. /\ Due(c) \in Nat /\ Due(c)' \in Nat /\ Due(c)' <= Due(c)
      /\ Idle(c) \in 0 .. uptime /\ Idle(c)' \in 0 .. Idle(c)
      /\ uptime \in Nat
  BY TermTypes, ConstantFacts DEF PathInv
<1>2. Minute * BurstSize + RequestsPerMinute * uptime \in Nat
  BY <1>1, ConstantFacts
<1>3. (EvictAge + 1) * (Minute * BurstSize + RequestsPerMinute * uptime) \in Nat
  BY <1>2, ConstantFacts, ProductIsNat
<1>4. (EvictAge + 1) * Due(c)'
        <= (EvictAge + 1) * (Minute * BurstSize + RequestsPerMinute * uptime)
             + (uptime - Idle(c)') * (Minute * BurstSize)
  BY <1>1, <1>3, ConstantFacts, PaidStays DEF Paid
<1> QED
  BY <1>1, <1>4 DEF Paid

\* An eviction hands out at most a burst, and ends more than EvictAge ticks
\* of idle time.
LEMMA CleanUpStaysPaid ==
  ASSUME IsFiniteSet(Requests), PathInv, PathInv', CleanUp,
         NEW c \in Clients, Idle(c) <= uptime, Paid(c)
  PROVE  Idle(c)' <= uptime' /\ Paid(c)'
<1>0. /\ UNCHANGED <<request, handling, uptime, counted>>
      /\ \A x \in DOMAIN buckets : buckets[x] \in Bucket
      /\ DOMAIN buckets' = {x \in DOMAIN buckets : ~Evictable(buckets[x])}
      /\ \A x \in DOMAIN buckets' : buckets'[x] = buckets[x]
      /\ uptime \in Nat
  BY ConstantFacts
     DEF CleanUp, Sweep, controlVars, ghosts, PathInv, LimiterInv, TypeOK
<1>1. Owing(c)' = Owing(c)
  BY <1>0 DEF Owing
<1>2. CASE c \in DOMAIN buckets /\ Evictable(buckets[c])
  <2>1. Idle(c)' = 0 /\ Idle(c) = buckets[c].idle
    BY <1>0, <1>2 DEF Idle
  <2>2. EvictAge + 1 <= Idle(c) /\ Idle(c) \in 0 .. uptime
    BY <1>0, <1>2, <2>1, LimiterAssumption DEF Evictable, Bucket
  <2>3. Credit'[c] = Minute * BurstSize /\ Credit[c] \in Nat
    BY <1>0, <1>2, TermTypes, CreditLimitFacts, ConstantFacts DEF Credit
  <2>4. Due(c)' <= Due(c) + Minute * BurstSize
    <3> DEFINE n == Minute * (counted[c] + Cardinality(Owing(c)))
    <3>1. Due(c) = n + Credit[c] /\ Due(c)' = n + Credit'[c]
      BY <1>0, <1>1 DEF Due
    <3>2. n \in Nat
      BY TermTypes, ProductIsNat, ConstantFacts
    <3> HIDE DEF n
    <3> QED
      BY <2>3, <3>1, <3>2, ConstantFacts
  <2>5. Minute * BurstSize + RequestsPerMinute * uptime \in Nat
    BY <1>0, ConstantFacts
  <2>6. (EvictAge + 1) * (Minute * BurstSize + RequestsPerMinute * uptime) \in Nat
    BY <2>5, ConstantFacts, ProductIsNat
  <2>7. (EvictAge + 1) * Due(c)'
          <= (EvictAge + 1) * (Minute * BurstSize + RequestsPerMinute * uptime)
               + uptime * (Minute * BurstSize)
    BY <1>0, <2>2, <2>4, <2>6, TermTypes, ConstantFacts, PaidByIdling DEF Paid
  <2>8. uptime' - Idle(c)' = uptime
    BY <1>0, <2>1
  <2> QED
    BY <1>0, <2>1, <2>7, <2>8 DEF Paid
<1>3. CASE ~(c \in DOMAIN buckets /\ Evictable(buckets[c]))
  <2>1. Idle(c)' = Idle(c) /\ Credit'[c] = Credit[c]
    BY <1>0, <1>3 DEF Idle, Credit
  <2>2. Due(c)' = Due(c)
    BY <1>0, <1>1, <2>1 DEF Due
  <2> QED
    BY <1>0, <2>1, <2>2, TermTypes, StaysPaid
<1> QED
  BY <1>2, <1>3

LEMMA TickStaysPaid ==
  ASSUME IsFiniteSet(Requests), PathInv, PathInv', PathTick, uptime < MaxUptime,
         NEW c \in Clients, Idle(c) <= uptime, Paid(c)
  PROVE  Idle(c)' <= uptime' /\ Paid(c)'
<1>0. /\ UNCHANGED <<request, handling, counted>>
      /\ \A x \in DOMAIN buckets : buckets[x] \in Bucket
      /\ buckets' = [x \in DOMAIN buckets |-> Older(buckets[x])]
      /\ uptime \in Nat /\ uptime' = uptime + 1
  BY ConstantFacts DEF PathTick, Tick, Control!Tick, PathInv, LimiterInv, TypeOK
<1>1. Owing(c)' = Owing(c)
  BY <1>0 DEF Owing
<1>2. Idle(c)' \in 0 .. Idle(c) + 1 /\ Idle(c) \in 0 .. uptime
  BY <1>0, TermTypes DEF Idle, Older, Bucket
<1>3. Credit'[c] <= Credit[c] + RequestsPerMinute
  <2>1. CASE c \in DOMAIN buckets
    BY <1>0, <2>1, TickEarns DEF Credit
  <2>2. CASE c \notin DOMAIN buckets
    <3>1. Credit'[c] = Credit[c]
      BY <1>0, <2>2 DEF Credit
    <3> QED
      BY <3>1, TermTypes, CreditLimitFacts, ConstantFacts
  <2> QED
    BY <2>1, <2>2
<1>4. Due(c)' <= Due(c) + RequestsPerMinute
  <2> DEFINE n == Minute * (counted[c] + Cardinality(Owing(c)))
  <2>1. Due(c) = n + Credit[c] /\ Due(c)' = n + Credit'[c]
    BY <1>0, <1>1 DEF Due
  <2>2. n \in Nat /\ Credit[c] \in Nat /\ Credit'[c] \in Nat
    BY TermTypes, ProductIsNat, ConstantFacts, CreditLimitFacts
  <2> HIDE DEF n
  <2> QED
    BY <1>3, <2>1, <2>2, ConstantFacts
<1>5. (EvictAge + 1) * Due(c)'
        <= (EvictAge + 1) * (Minute * BurstSize + RequestsPerMinute * (uptime + 1))
             + (uptime + 1 - Idle(c)') * (Minute * BurstSize)
  BY <1>0, <1>2, <1>4, TermTypes, ConstantFacts, PaidByTime DEF Paid
<1> QED
  BY <1>0, <1>2, <1>5 DEF Paid

LEMMA RestartIsPaid ==
  ASSUME NEW x \in Configs, Restart(x), NEW c \in Clients
  PROVE  Idle(c)' <= uptime' /\ Paid(c)'
<1>1. Idle(c)' = 0 /\ uptime' = 0
  BY DEF Restart, NewLimiter, Idle
<1>2. Credit'[c] = BurstSize * Minute
  BY DEF Restart, NewLimiter, Credit
<1>3. Owing(c)' = {}
  BY DEF Restart, NewLimiter, Owing
<1>4. Cardinality(Owing(c)') = 0 /\ counted'[c] = 0
  BY <1>3, FS_EmptySet DEF Restart
<1>5. Due(c)' = Minute * BurstSize
  BY <1>2, <1>4, ConstantFacts DEF Due
<1>6. /\ Minute * BurstSize + RequestsPerMinute * 0 = Minute * BurstSize
      /\ (0 - 0) * (Minute * BurstSize) = 0
  BY ConstantFacts
<1>7. (EvictAge + 1) * (Minute * BurstSize) \in Nat
  BY ConstantFacts, ProductIsNat
<1> QED
  BY <1>1, <1>5, <1>6, <1>7 DEF Paid

-----------------------------------------------------------------------------

LEMMA PaidInitial ==
  ASSUME PathInit
  PROVE  PaidInv
<1> SUFFICES ASSUME NEW c \in Clients
             PROVE  /\ Idle(c) <= uptime /\ Paid(c)
                    /\ counted[c] = 0 /\ uptime = 0
  <2>1. \A c \in Clients : Idle(c) <= uptime /\ Paid(c)
    OBVIOUS
  <2>2. (EvictAge + 1) * (Minute * BurstSize + RequestsPerMinute * 0) \in Nat
    BY ConstantFacts, ProductIsNat
  <2>3. uptime = 0 /\ \A c \in Clients : counted[c] = 0
    BY DEF PathInit
  <2>4. (EvictAge + 1) * (Minute * 0) = 0 /\ 0 * (Minute * BurstSize) = 0
    BY ConstantFacts
  <2> QED
    BY <2>1, <2>2, <2>3, <2>4 DEF PaidInv, CountedWithinRate
<1>1. Idle(c) = 0 /\ uptime = 0 /\ counted[c] = 0
  BY DEF PathInit, Init, Idle
<1>2. Credit[c] = BurstSize * Minute
  BY DEF PathInit, Init, Credit
<1>3. Owing(c) = {}
  BY DEF PathInit, Init, Owing
<1>5. Due(c) = Minute * BurstSize
  BY <1>1, <1>2, <1>3, FS_EmptySet, ConstantFacts DEF Due
<1>6. /\ Minute * BurstSize + RequestsPerMinute * 0 = Minute * BurstSize
      /\ (0 - 0) * (Minute * BurstSize) = 0
  BY ConstantFacts
<1>7. (EvictAge + 1) * (Minute * BurstSize) \in Nat
  BY ConstantFacts, ProductIsNat
<1> QED
  BY <1>1, <1>5, <1>6, <1>7 DEF Paid

LEMMA PaidStep ==
  ASSUME IsFiniteSet(Requests)
  PROVE  PathInv /\ PathInv' /\ PaidInv /\ [PathNext]_pathVars => PaidInv'
<1> SUFFICES ASSUME PathInv, PathInv', PaidInv, [PathNext]_pathVars
             PROVE  PaidInv'
  OBVIOUS
<1>0. /\ uptime \in Nat /\ uptime' \in Nat /\ uptime <= MaxUptime
      /\ counted' \in [Clients -> Nat]
  BY ConstantFacts DEF PathInv
<1>1. ASSUME \A c \in Clients : Idle(c)' <= uptime' /\ Paid(c)'
      PROVE  PaidInv'
  <2>1. ASSUME NEW c \in Clients
        PROVE  (EvictAge + 1) * (Minute * counted'[c])
                 <= (EvictAge + 1) * (Minute * BurstSize + RequestsPerMinute * uptime')
                      + uptime' * (Minute * BurstSize)
    <3>1. Idle(c)' \in 0 .. uptime' /\ Due(c)' \in Nat
      BY <1>0, <1>1, TermTypes
    <3>2. Minute * counted'[c] \in Nat /\ Minute * counted'[c] <= Due(c)'
      <4>1. /\ counted'[c] \in Nat /\ Cardinality(Owing(c)') \in Nat
            /\ Credit'[c] \in Nat
        BY TermTypes, CreditLimitFacts
      <4>2. Minute * (counted'[c] + Cardinality(Owing(c)'))
              = Minute * counted'[c] + Minute * Cardinality(Owing(c)')
        BY <4>1, ConstantFacts
      <4>3. Minute * counted'[c] \in Nat /\ Minute * Cardinality(Owing(c)') \in Nat
        BY <4>1, ProductIsNat, ConstantFacts
      <4>4. Due(c)' = Minute * (counted'[c] + Cardinality(Owing(c)')) + Credit'[c]
        BY DEF Due
      <4> QED
        BY <4>1, <4>2, <4>3, <4>4
    <3>3. (EvictAge + 1) * Due(c)'
            <= (EvictAge + 1) * (Minute * BurstSize + RequestsPerMinute * uptime')
                 + (uptime' - Idle(c)') * (Minute * BurstSize)
      BY <1>1 DEF Paid
    <3> QED
      BY <1>0, <3>1, <3>2, <3>3, ConstantFacts, PaidSuffices
  <2> QED
    BY <1>1, <2>1 DEF PaidInv, CountedWithinRate
<1>2. ASSUME NEW x \in Configs, Restart(x) PROVE PaidInv'
  BY <1>1, <1>2, RestartIsPaid
<1>3. CASE uptime = MaxUptime /\ ~\E x \in Configs : Restart(x)
  <2>1. UNCHANGED <<uptime, counted>>
    <3>1. ASSUME NEW r \in Requests,
                 Limit(r) \/ Authenticate(r) \/ CountRequest(r) \/ CountMore(r) \/ Answer(r)
          PROVE  UNCHANGED <<uptime, counted>>
      BY <1>0, <1>3, <3>1, ConstantFacts
         DEF Limit, Authenticate, CountRequest, CountMore, Answer, ghosts
    <3>2. CASE CleanUp \/ PathTick \/ Observe \/ UNCHANGED pathVars
      BY <1>3, <3>2 DEF CleanUp, PathTick, Observe, pathVars, ghosts
    <3> QED
      BY <1>3, <3>1, <3>2 DEF PathNext
  <2> QED
    BY <1>0, <1>3, <2>1 DEF PaidInv, CountedWithinRate
<1>4. CASE uptime < MaxUptime
  <2>0. \A c \in Clients : Idle(c) <= uptime /\ Paid(c)
    BY <1>4 DEF PaidInv
  <2>1. ASSUME Frugal, UNCHANGED uptime PROVE PaidInv'
    BY <1>1, <2>0, <2>1, StaysPaid DEF Frugal
  <2>2. ASSUME NEW r \in Requests, Limit(r) PROVE PaidInv'
    BY <2>1, <2>2, LimitFrugal DEF Limit, ghosts
  <2>3. ASSUME NEW r \in Requests,
               Authenticate(r) \/ CountRequest(r) \/ CountMore(r) \/ Answer(r)
        PROVE  PaidInv'
    <3>1. UNCHANGED uptime
      BY <2>3 DEF Authenticate, CountRequest, CountMore, Answer, ghosts
    <3> QED
      BY <1>4, <2>1, <2>3, <3>1, HandlerFrugal
  <2>4. CASE CleanUp
    BY <1>1, <2>0, <2>4, CleanUpStaysPaid
  <2>5. CASE PathTick
    BY <1>1, <1>4, <2>0, <2>5, TickStaysPaid
  <2>6. CASE Observe \/ UNCHANGED pathVars
    <3>1. UNCHANGED <<buckets, request, handling, uptime, counted>>
      BY <2>6 DEF Observe, OpenWindow, pathVars, vars, controlVars, ghosts
    <3> QED
      BY <3>1 DEF PaidInv, Paid, Idle, Due, Owing, Credit, CountedWithinRate
  <2> QED
    BY <1>2, <2>2, <2>3, <2>4, <2>5, <2>6 DEF PathNext
<1> QED
  BY <1>0, <1>2, <1>3, <1>4, ConstantFacts

(***************************************************************************)
(* No client's requests are counted more often than a burst, the rate and  *)
(* one more burst per eviction age pay for, for any finite number of       *)
(* handlers and every configuration of the limiter: a request that is      *)
(* neither counted nor given up has cost its token, and only idle time     *)
(* longer than the eviction age is turned into a fresh burst               *)
(* (api.go 49-60, ratelimit.go 46-123, handlers.go 186).                   *)
(***************************************************************************)
THEOREM PathCountedWithinRate ==
  ASSUME IsFiniteSet(Requests)
  PROVE  PathSpec => []CountedWithinRate
<1>1. PathInit => PathInv /\ PaidInv
  BY PathInitial, PaidInitial
<1>2. PathInv /\ PaidInv /\ [PathNext]_pathVars => PathInv' /\ PaidInv'
  BY PathStep, PaidStep
<1>3. PaidInv => CountedWithinRate
  BY DEF PaidInv
<1> QED
  BY <1>1, <1>2, <1>3, PTL DEF PathSpec

(***************************************************************************)
(* Also with the handlers and restarts around the limiter, nobody is       *)
(* refused but within one token's worth of time of an admission: a new     *)
(* process starts with no bucket, which refuses nobody (ratelimit.go       *)
(* 66-72, 89-103).  Needs BurstSize > 0.                                   *)
(***************************************************************************)
THEOREM PathRefusalJustified ==
  ASSUME BurstSize > 0
  PROVE  PathSpec => RefusalJustified
<1>1. PathInit => SinceInv
  BY DEF PathInit, Init, SinceInv
<1>2. PathInv /\ SinceInv /\ [PathNext]_pathVars => SinceInv'
  <2>1. ASSUME NEW x \in Configs, Restart(x) PROVE SinceInv'
    BY <2>1 DEF Restart, NewLimiter, SinceInv
  <2> QED
    BY <2>1, LimiterSteps, SinceStep DEF PathInv, pathVars, vars
<1>3. PathInv /\ SinceInv /\ [PathNext]_pathVars =>
        [\A r \in Requests :
           Refuse(r) /\ ClientOf[r] = Audited
             => sinceAdmit * RequestsPerMinute < Minute]_vars
  BY RefusalStep DEF PathInv
<1> QED
  BY <1>1, <1>2, <1>3, PathInitial, PathStep, PTL DEF PathSpec, RefusalJustified

(***************************************************************************)
(* What the limiter promises on its own it keeps behind the handlers and   *)
(* across restarts: no bucket is deleted under a request or kept too long, *)
(* and no eviction age hands out more than a burst per age.  A restart     *)
(* loses buckets and observations together (api.go 49-60, ratelimit.go     *)
(* 61-123).                                                                *)
(***************************************************************************)
THEOREM PathLimiterProperties ==
  PathSpec => /\ []HeldBucketIsLive
              /\ []NoStaleBucket
              /\ []EvictionWindowBound
<1> DEFINE Inv == PathInv /\ AgeInv /\ LagInv /\ EvictionInv
<1>1. PathInit => Inv
  <2>1. Init => AgeInv /\ LagInv /\ EvictionInv
    BY DEF Init, AgeInv, LagInv, EvictionInv, Closed
  <2> QED
    BY <2>1, PathInitial DEF PathInit
<1>2. Inv /\ [PathNext]_pathVars => Inv'
  <2> SUFFICES ASSUME Inv, [PathNext]_pathVars PROVE Inv'
    OBVIOUS
  <2>1. PathInv' /\ LimiterInv /\ LimiterInv'
    BY PathStep DEF PathInv
  <2>2. CASE [Next]_vars
    BY <2>1, <2>2, AgeStep, EvictionStep
  <2>3. ASSUME NEW x \in Configs, Restart(x) PROVE Inv'
    <3>1. (AgeInv /\ LagInv /\ EvictionInv)'
      BY <2>3 DEF Restart, NewLimiter, AgeInv, LagInv, EvictionInv, Closed
    <3> QED
      BY <2>1, <3>1
  <2> QED
    BY <2>2, <2>3, LimiterSteps DEF pathVars, vars
<1>3. Inv => HeldBucketIsLive /\ NoStaleBucket /\ EvictionWindowBound
  BY AgeBounds, EvictionInvSuffices DEF PathInv, LimiterInv
<1> QED
  BY <1>1, <1>2, <1>3, PTL DEF PathSpec

-----------------------------------------------------------------------------

(***************************************************************************)
(* Behind the limiter everything is as ControlService has it: what the     *)
(* limiter does is a stutter there, so what is proved of ControlService    *)
(* holds of the whole path (api.go 49-60).                                 *)
(***************************************************************************)
THEOREM PathImplementsControl == PathSpec => Control!Spec
<1>1. PathInit => Control!Init
  BY DEF PathInit
<1>2. [PathNext]_pathVars => [Control!Next]_(Control!vars)
  <2> SUFFICES ASSUME [PathNext]_pathVars
               PROVE  Control!Next \/ UNCHANGED Control!vars
    OBVIOUS
  <2>1. ASSUME NEW r \in Requests, Limit(r) PROVE UNCHANGED Control!vars
    BY <2>1 DEF Limit, controlVars, Control!vars
  <2>2. ASSUME NEW r \in Requests, Authenticate(r) PROVE Control!Next
    BY <2>2 DEF Authenticate, Control!Next
  <2>3. ASSUME NEW r \in Requests, CountRequest(r) \/ CountMore(r) PROVE Control!Next
    BY <2>3 DEF CountRequest, CountMore, Control!Next
  <2>4. ASSUME NEW r \in Requests, Answer(r)
        PROVE  Control!Next \/ UNCHANGED Control!vars
    BY <2>4 DEF Answer, Control!Next, controlVars, Control!vars
  <2>5. CASE CleanUp
    BY <2>5 DEF CleanUp, controlVars, Control!vars
  <2>6. CASE PathTick
    BY <2>6 DEF PathTick, Control!Next
  <2>7. ASSUME NEW c \in Configs, Restart(c) PROVE Control!Next
    BY <2>7 DEF Restart, Control!Next
  <2>8. CASE Observe \/ UNCHANGED pathVars
    BY <2>8 DEF Observe, pathVars, controlVars, Control!vars
  <2> QED
    BY <2>1, <2>2, <2>3, <2>4, <2>5, <2>6, <2>7, <2>8 DEF PathNext
<1> QED
  BY <1>1, <1>2, PTL DEF PathSpec, Control!Spec

ControlProofs == INSTANCE ControlServiceProofs WITH request <- handling

\* The instance the theorems about ControlService are stated for is the one
\* the path is composed with.
LEMMA SameControl == Control!Spec => ControlProofs!Spec
<1>1. Control!Init = ControlProofs!Init
  BY DEF Control!Init, ControlProofs!Init, Control!NoRequest,
         ControlProofs!NoRequest, Control!NoStats, ControlProofs!NoStats
<1>2. Control!Next = ControlProofs!Next
  BY DEF Control!Next, ControlProofs!Next, Control!Goto, ControlProofs!Goto,
         Control!NoRequest, ControlProofs!NoRequest, Control!NoStats,
         ControlProofs!NoStats, Control!Passes, ControlProofs!Passes,
         Control!AdminRoutes, ControlProofs!AdminRoutes,
         Control!UncountedRoutes, ControlProofs!UncountedRoutes,
         Control!CheckingRoutes, ControlProofs!CheckingRoutes,
         Control!DatabaseRoutes, ControlProofs!DatabaseRoutes,
         Control!CountsMore, ControlProofs!CountsMore, Control!NewToken,
         ControlProofs!NewToken, Control!Shorter, ControlProofs!Shorter,
         Control!Longer, ControlProofs!Longer, Control!Reject,
         ControlProofs!Reject, Control!Enter, ControlProofs!Enter,
         Control!CountRequest, ControlProofs!CountRequest, Control!CountCheck,
         ControlProofs!CountCheck, Control!CountQuery, ControlProofs!CountQuery,
         Control!Login, ControlProofs!Login, Control!Respond,
         ControlProofs!Respond, Control!Restart, ControlProofs!Restart,
         Control!Tick, ControlProofs!Tick
<1>3. UNCHANGED Control!vars => UNCHANGED ControlProofs!vars
  BY DEF Control!vars, ControlProofs!vars
<1>4. Control!Init => ControlProofs!Init
  BY <1>1
<1>5. [Control!Next]_(Control!vars) => [ControlProofs!Next]_(ControlProofs!vars)
  BY <1>2, <1>3
<1> QED
  BY <1>4, <1>5, PTL DEF Control!Spec, ControlProofs!Spec

LEMMA ControlConstants ==
  ControlProofs!ControlAssumption /\ ControlProofs!NoTokenAssumption
BY PathAssumption
   DEF Control!ControlAssumption, ControlProofs!ControlAssumption,
       Control!NoTokenAssumption, ControlProofs!NoTokenAssumption,
       Control!Config, ControlProofs!Config, Control!Token, ControlProofs!Token,
       Control!UncountedRoutes, ControlProofs!UncountedRoutes,
       Control!CheckingRoutes, ControlProofs!CheckingRoutes,
       Control!DatabaseRoutes, ControlProofs!DatabaseRoutes,
       Control!OtherRoutes, ControlProofs!OtherRoutes

(***************************************************************************)
(* The state of the whole path is well formed: what each of its two parts  *)
(* keeps, over the handler goroutines they share (api.go 49-60).           *)
(***************************************************************************)
THEOREM PathTypes == PathSpec => []PathTypeOK
<1>1. PathSpec => []PathInv
  BY PathInitial, PathStep, PTL DEF PathSpec
<1>2. ControlProofs!Spec => []ControlProofs!TypeOK
  BY ControlConstants, ControlProofs!ControlTypeOK
<1>3. ControlProofs!TypeOK => Control!TypeOK
  BY DEF ControlProofs!TypeOK, Control!TypeOK, ControlProofs!Request,
         Control!Request, ControlProofs!Token, Control!Token
<1>4. PathInv /\ Control!TypeOK => PathTypeOK
  BY DEF PathInv, LimiterInv, PathTypeOK
<1> QED
  BY <1>1, <1>2, <1>3, <1>4, SameControl, PathImplementsControl, PTL

(***************************************************************************)
(* With the limiter in front, too, snapshots agree, removed administrators *)
(* lose their tokens within the expiry, and nobody else reaches an         *)
(* administrator's handler while authentication is on (see ControlService; *)
(* api.go 54-59).                                                          *)
(***************************************************************************)
THEOREM PathControlProperties ==
  ASSUME IsFiniteSet(Requests)
  PROVE  PathSpec =>
           /\ []Control!CountersAgree
           /\ []Control!RemovalTakesEffect
           /\ Control!AdminCallsAuthorized
<1>1. ControlProofs!Spec => []ControlProofs!CountersAgree
  <2>1. ControlProofs!IsFiniteSet(Requests)
    BY DEF IsFiniteSet, ControlProofs!IsFiniteSet
  <2> QED
    BY <2>1, ControlConstants, ControlProofs!ControlCountersAgree
<1>2. ControlProofs!Spec => []ControlProofs!RemovalTakesEffect
  BY ControlConstants, ControlProofs!ControlRemovalTakesEffect
<1>3. ControlProofs!Spec => ControlProofs!AdminCallsAuthorized
  BY ControlConstants, ControlProofs!ControlAdminCallsAuthorized
<1>4. /\ ControlProofs!CountersAgree => Control!CountersAgree
      /\ ControlProofs!RemovalTakesEffect => Control!RemovalTakesEffect
  BY DEF Control!CountersAgree, ControlProofs!CountersAgree,
         Control!RemovalTakesEffect, ControlProofs!RemovalTakesEffect
<1>5. ControlProofs!AdminCallsAuthorized => Control!AdminCallsAuthorized
  <2> DEFINE Authorized ==
        \A r \in Requests, rt \in Routes \cap Control!AdminRoutes,
           t \in tokens \cup {NoToken} :
          Control!Enter(r, rt, t) /\ config.auth
            => /\ t # NoToken
               /\ t.secret = config.secret
               /\ sinceAdmin[t.user] < Expiry
  <2> DEFINE AuthorizedThere ==
        \A r \in Requests, rt \in Routes \cap ControlProofs!AdminRoutes,
           t \in tokens \cup {NoToken} :
          ControlProofs!Enter(r, rt, t) /\ config.auth
            => /\ t # NoToken
               /\ t.secret = config.secret
               /\ sinceAdmin[t.user] < Expiry
  <2>1. AuthorizedThere => Authorized
    BY DEF Control!AdminRoutes, ControlProofs!AdminRoutes, Control!Enter,
           ControlProofs!Enter, Control!Passes, ControlProofs!Passes,
           Control!Goto, ControlProofs!Goto, Control!UncountedRoutes,
           ControlProofs!UncountedRoutes
  <2>2. Control!vars = ControlProofs!vars
    BY DEF Control!vars, ControlProofs!vars
  <2>3. UNCHANGED ControlProofs!vars => UNCHANGED Control!vars
    BY DEF Control!vars, ControlProofs!vars
  <2> HIDE DEF Authorized, AuthorizedThere
  <2>4. [AuthorizedThere]_(ControlProofs!vars) => [Authorized]_(Control!vars)
    BY <2>1, <2>3
  <2> QED
    BY <2>4, PTL DEF Control!AdminCallsAuthorized,
       ControlProofs!AdminCallsAuthorized, Authorized, AuthorizedThere
<1> QED
  BY <1>1, <1>2, <1>3, <1>4, <1>5, SameControl, PathImplementsControl, PTL
=============================================================================
