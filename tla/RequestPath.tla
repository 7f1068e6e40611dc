---------------------------- MODULE RequestPath -----------------------------
(***************************************************************************)
(* A request's whole way, in the order NewRouter installs it: the rate     *)
(* limiter, the authentication middleware, the handler and what it counts. *)
(* RateLimiter and ControlService share the handler goroutines, the clock  *)
(* and the process, whose restart loses the buckets and the statistics     *)
(* together but not the tokens.                                            *)
(***************************************************************************)
EXTENDS RateLimiter

CONSTANTS Users, Secrets, Configs, Routes, NoToken, Expiry,
          MaxCount,  \* see ControlService for these seven
          MaxUptime  \* ticks after a start that the ghosts observe

VARIABLES config, stats, tokens, sinceAdmin,  \* of ControlService
          handling,  \* its request: where goroutine r stands behind the limiter
          uptime,    \* ghost: ticks since the start
          counted    \* ghost: counted[c], how many of stats.api came from c

Control == INSTANCE ControlService WITH request <- handling

ASSUME PathAssumption ==
  /\ MaxUptime \in Nat
  /\ Control!ControlAssumption
  /\ Control!NoTokenAssumption

controlVars == <<config, stats, tokens, sinceAdmin, handling>>

ghosts == <<uptime, counted>>

pathVars == <<vars, controlVars, ghosts>>

PathTypeOK ==
  /\ TypeOK
  /\ Control!TypeOK
  /\ uptime \in 0 .. MaxUptime
  /\ counted \in [Clients -> Nat]

PathInit ==
  /\ Init
  /\ Control!Init
  /\ uptime = 0
  /\ counted = [c \in Clients |-> 0]

-----------------------------------------------------------------------------

\* The limiter decides; a refused request gets no further.
Limit(r) ==
  /\ Lookup(r) \/ Admit(r) \/ Refuse(r)
  /\ UNCHANGED <<controlVars, ghosts>>

\* An admitted request comes to the authentication middleware, for a route
\* and with a token of the client's choice.
Authenticate(r) ==
  /\ request[r] = "admitted"
  /\ \E rt \in Routes, t \in tokens \cup {NoToken} :
       Control!Reject(r, rt, t) \/ Control!Enter(r, rt, t)
  /\ UNCHANGED <<vars, ghosts>>

CountRequest(r) ==
  /\ Control!CountRequest(r)
  /\ counted' = IF uptime < MaxUptime
                THEN [counted EXCEPT ![ClientOf[r]] = counted[ClientOf[r]] + 1]
                ELSE counted
  /\ UNCHANGED <<vars, uptime>>

CountMore(r) ==
  /\ Control!CountCheck(r) \/ Control!CountQuery(r)
  /\ UNCHANGED <<vars, ghosts>>

\* The innermost handler that was called returns, and with it all others.
Answer(r) ==
  /\ Respond(r)
  /\ \/ request[r] = "refused" /\ handling[r].pc = "idle" /\ UNCHANGED controlVars
     \/ Control!Respond(r)
     \/ \E u \in Users : Control!Login(r, u)
  /\ UNCHANGED ghosts

CleanUp == Sweep /\ UNCHANGED <<controlVars, ghosts>>

\* Ghost: the limiter's observation window opens.
Observe == OpenWindow /\ UNCHANGED <<controlVars, ghosts>>

PathTick ==
  /\ Tick
  /\ Control!Tick
  /\ uptime' = IF uptime = MaxUptime THEN MaxUptime ELSE uptime + 1
  /\ UNCHANGED counted

\* NewRateLimiter in a new process: no buckets, no requests, a new ticker.
NewLimiter ==
  /\ buckets' = [c \in {} |-> [tokens |-> 0, idle |-> 0]]
  /\ mutex' = Free
  /\ request' = [r \in Requests |-> "idle"]
  /\ ticker' = [elapsed |-> 0, pending |-> FALSE]
  /\ audit' = Closed
  /\ sinceAdmit' = SinceCap
  /\ uptime' = 0

\* The process ends in any way and starts again under configuration c, with
\* no buckets, no requests and fresh statistics.
Restart(c) ==
  /\ Control!Restart(c)
  /\ NewLimiter
  /\ counted' = [x \in Clients |-> 0]

PathNext ==
  \/ \E r \in Requests :
       Limit(r) \/ Authenticate(r) \/ CountRequest(r) \/ CountMore(r) \/ Answer(r)
  \/ CleanUp
  \/ PathTick
  \/ Observe
  \/ \E c \in Configs : Restart(c)

PathSpec == PathInit /\ [][PathNext]_pathVars

\* As in RateLimiter: the critical section, the sweep and time go on.  No
\* handler is obliged to return, and no client to send.
PathFairness ==
  /\ WF_pathVars(PathTick)
  /\ SF_pathVars(CleanUp)
  /\ \A r \in Requests : WF_pathVars(request[r] = "held" /\ Limit(r))

FairPathSpec == PathSpec /\ PathFairness

-----------------------------------------------------------------------------

(***************************************************************************)
(* What the statistics count for one client since the start is paid for:   *)
(* a burst, what the rate has earned, and a burst for each time that the   *)
(* eviction age has passed.  Neither a 429, nor the unlocked time between  *)
(* admission and count, nor an eviction or a restart in between lets a     *)
(* request be counted that the limiter has not charged (api.go 49-60,      *)
(* ratelimit.go 46-104 and 116, handlers.go 186).  Needs no                *)
(* RefillBeforeEviction.                                                   *)
(***************************************************************************)
CountedWithinRate ==
  \A c \in Clients :
    (EvictAge + 1) * (Minute * counted[c])
      <= (EvictAge + 1) * (Minute * BurstSize + RequestsPerMinute * uptime)
           + uptime * (Minute * BurstSize)
=============================================================================
