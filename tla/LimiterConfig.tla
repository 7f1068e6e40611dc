--------------------------- MODULE LimiterConfig ----------------------------
\* What RateLimiter and the budget it promises have in common: the clients,
\* config.RateLimitConfig, and the unit of time.
EXTENDS Integers

CONSTANTS Clients,            \* keys getClientIP can return
          BurstSize,          \* config.RateLimitConfig.BurstSize
          RequestsPerMinute,  \* config.RateLimitConfig.RequestsPerMinute
          Minute,             \* clock ticks in one minute
          Audited             \* the client whose admissions are observed

ASSUME BudgetAssumption ==
  /\ Audited \in Clients
  /\ BurstSize \in Nat
  /\ RequestsPerMinute \in Nat
  /\ Minute \in Nat \ {0}
=============================================================================
