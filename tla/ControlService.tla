--------------------------- MODULE ControlService ---------------------------
(***************************************************************************)
(* The way of a request through the API: the authentication middleware,    *)
(* the handler and the statistics it keeps, across restarts of the process *)
(* under another configuration.  Tokens are signed and kept by the users,  *)
(* so they outlive the process that issued them.  A request that the rate  *)
(* limiter refuses gets no further and changes nothing here; what the      *)
(* handlers do with the ecosystem monitor is in EcosystemMonitor.          *)
(***************************************************************************)
EXTENDS Integers, FiniteSets

CONSTANTS Users,     \* user names
          Requests,  \* concurrent handler goroutines
          Secrets,   \* values of AuthConfig.JWTSecret
          Configs,   \* configurations the process may be started with
          Routes,    \* routes the instance explores
          NoToken,   \* what a request without a token presents
          Expiry,    \* AuthConfig.TokenExpiryHours, in ticks
          MaxCount,  \* bound: no request is sent to a handler once so many counted
          SinceCap   \* bound of the ghost sinceAdmin

\* The routes of NewRouter, by what their handlers count.
UncountedRoutes == {"health", "config", "stats"}

CheckingRoutes == {"ecosystem", "service"}

DatabaseRoutes == {"tenants"}

OtherRoutes == {"login", "statuses", "restart"}

\* isAdminEndpoint; /ecosystem/services itself lacks the trailing slash.
AdminRoutes == {"service", "restart", "tenants"}

Config == [auth : BOOLEAN, secret : Secrets, admins : SUBSET Users]

ASSUME ControlAssumption ==
  /\ Configs \subseteq Config
  /\ Routes \subseteq
       UncountedRoutes \cup CheckingRoutes \cup DatabaseRoutes \cup OtherRoutes
  /\ Expiry \in Nat \ {0}
  /\ MaxCount \in Nat
  /\ SinceCap \in Nat

VARIABLES config,      \* the configuration of the running process
          stats,       \* services.Stats
          request,     \* request[r]: where handler goroutine r stands
          tokens,      \* the tokens users hold that have not expired
          sinceAdmin   \* ghost: ticks since a user was last in AdminUsers

vars == <<config, stats, request, tokens, sinceAdmin>>

Token == [user : Users, secret : Secrets, admin : BOOLEAN, left : 1 .. Expiry]

ASSUME NoTokenAssumption == NoToken \notin Token

Request == [pc : {"idle", "rejected", "entered", "counted", "ready"},
            route : Routes \cup {"none"}]

TypeOK ==
  /\ config \in Configs
  /\ stats \in [api : Nat, health : Nat, db : Nat]
  /\ request \in [Requests -> Request]
  /\ tokens \subseteq Token
  /\ sinceAdmin \in [Users -> 0 .. SinceCap]

NoRequest == [pc |-> "idle", route |-> "none"]

NoStats == [api |-> 0, health |-> 0, db |-> 0]

\* A first start, with no token issued yet.
Init ==
  /\ config \in Configs
  /\ stats = NoStats
  /\ request = [r \in Requests |-> NoRequest]
  /\ tokens = {}
  /\ sinceAdmin = [u \in Users |-> IF u \in config.admins THEN 0 ELSE SinceCap]

-----------------------------------------------------------------------------
\* The middleware.

\* Wrong variant of Passes: the token is read without its signature.
BadPassesUnverified(rt, t) ==
  \/ ~config.auth
  \/ t # NoToken /\ (rt \in AdminRoutes => t.admin)

\* AuthMiddleware lets a request for rt with token t through; an expired
\* token counts as none.
Passes(rt, t) ==
  \/ ~config.auth
  \/ t # NoToken /\ t.secret = config.secret /\ (rt \in AdminRoutes => t.admin)

Goto(r, pc, rt) ==
  request' = [request EXCEPT ![r] = [pc |-> pc, route |-> rt]]

\* 401 or 403.
Reject(r, rt, t) ==
  /\ request[r].pc = "idle"
  /\ ~Passes(rt, t)
  /\ Goto(r, "rejected", rt)
  /\ UNCHANGED <<config, stats, tokens, sinceAdmin>>

\* The handler of rt begins.  MaxCount bounds what clients send, no handler.
Enter(r, rt, t) ==
  /\ request[r].pc = "idle"
  /\ stats.api < MaxCount
  /\ Passes(rt, t)
  /\ Goto(r, IF rt \in UncountedRoutes THEN "ready" ELSE "entered", rt)
  /\ UNCHANGED <<config, stats, tokens, sinceAdmin>>

-----------------------------------------------------------------------------
\* The handlers: each increment is a critical section of its own.

\* What a handler still counts after the request itself.
CountsMore(rt) == rt \in CheckingRoutes \cup DatabaseRoutes

\* Wrong variant of IncrementAPIRequests' callers: one of them forgot it.
BadCountRequestForgotten(r) ==
  /\ request[r].pc = "entered"
  /\ stats' = [api |-> IF request[r].route = "service" THEN stats.api
                       ELSE stats.api + 1,
               health |-> stats.health, db |-> stats.db]
  /\ Goto(r, IF CountsMore(request[r].route) THEN "counted" ELSE "ready",
          request[r].route)
  /\ UNCHANGED <<config, tokens, sinceAdmin>>

\* IncrementAPIRequests.
CountRequest(r) ==
  /\ request[r].pc = "entered"
  /\ stats' = [api |-> stats.api + 1, health |-> stats.health, db |-> stats.db]
  /\ Goto(r, IF CountsMore(request[r].route) THEN "counted" ELSE "ready",
          request[r].route)
  /\ UNCHANGED <<config, tokens, sinceAdmin>>

\* IncrementHealthChecks.
CountCheck(r) ==
  /\ request[r].pc = "counted"
  /\ request[r].route \in CheckingRoutes
  /\ stats' = [api |-> stats.api, health |-> stats.health + 1, db |-> stats.db]
  /\ Goto(r, "ready", request[r].route)
  /\ UNCHANGED <<config, tokens, sinceAdmin>>

\* IncrementDatabaseQueries.
CountQuery(r) ==
  /\ request[r].pc = "counted"
  /\ request[r].route \in DatabaseRoutes
  /\ stats' = [api |-> stats.api, health |-> stats.health, db |-> stats.db + 1]
  /\ Goto(r, "ready", request[r].route)
  /\ UNCHANGED <<config, tokens, sinceAdmin>>

\* GenerateToken for user u by the running process.
NewToken(u) ==
  [user |-> u, secret |-> config.secret, admin |-> TRUE, left |-> Expiry]

\* Wrong variant of Login: the list of administrators is not consulted.
BadLoginAnybody(r, u) ==
  /\ request[r] = [pc |-> "ready", route |-> "login"]
  /\ tokens' = tokens \cup {NewToken(u)}
  /\ request' = [request EXCEPT ![r] = NoRequest]
  /\ UNCHANGED <<config, stats, sinceAdmin>>

\* Login of user u: only those in AdminUsers get a token.
Login(r, u) ==
  /\ request[r] = [pc |-> "ready", route |-> "login"]
  /\ u \in config.admins
  /\ tokens' = tokens \cup {NewToken(u)}
  /\ request' = [request EXCEPT ![r] = NoRequest]
  /\ UNCHANGED <<config, stats, sinceAdmin>>

\* Any other request is answered, and the login of a name that is not listed.
Respond(r) ==
  /\ request[r].pc \in {"rejected", "ready"}
  /\ request' = [request EXCEPT ![r] = NoRequest]
  /\ UNCHANGED <<config, stats, tokens, sinceAdmin>>

-----------------------------------------------------------------------------
\* The environment.

\* The process ends in any way and is started again under c.
Restart(c) ==
  /\ config' = c
  /\ stats' = NoStats
  /\ request' = [r \in Requests |-> NoRequest]
  /\ sinceAdmin' = [u \in Users |-> IF u \in c.admins THEN 0 ELSE sinceAdmin[u]]
  /\ UNCHANGED tokens

Shorter(t) ==
  [user |-> t.user, secret |-> t.secret, admin |-> t.admin, left |-> t.left - 1]

Longer(n) == IF n = SinceCap THEN n ELSE n + 1

\* Wrong variant of Tick: tokens do not expire.
BadTickNoExpiry ==
  /\ sinceAdmin' = [u \in Users |-> IF u \in config.admins THEN 0
                                    ELSE Longer(sinceAdmin[u])]
  /\ tokens' = {IF t.left = 0 THEN t ELSE Shorter(t) : t \in tokens}
  /\ UNCHANGED <<config, stats, request>>

\* Time passes and tokens expire.
Tick ==
  /\ sinceAdmin' = [u \in Users |-> IF u \in config.admins THEN 0
                                    ELSE Longer(sinceAdmin[u])]
  /\ tokens' = {Shorter(t) : t \in {x \in tokens : x.left > 1}}
  /\ UNCHANGED <<config, stats, request>>

Next ==
  \/ \E r \in Requests, rt \in Routes, t \in tokens \cup {NoToken} :
       Reject(r, rt, t) \/ Enter(r, rt, t)
  \/ \E r \in Requests : CountRequest(r) \/ CountCheck(r) \/ CountQuery(r)
  \/ \E r \in Requests, u \in Users : Login(r, u)
  \/ \E r \in Requests : Respond(r)
  \/ \E c \in Configs : Restart(c)
  \/ Tick

Spec == Init /\ [][Next]_vars

-----------------------------------------------------------------------------

(***************************************************************************)
(* In every snapshot GetStats can take, each health check and database     *)
(* query belongs to a request already counted: the two increments of a     *)
(* handler are separate critical sections, and snapshots and restarts fall *)
(* between them (handlers.go 186-187, services.go 116-168).                *)
(***************************************************************************)
CountersAgree == stats.health + stats.db <= stats.api

(***************************************************************************)
(* Whoever holds a token that has not expired was an administrator less    *)
(* than the expiry ago, although tokens are not revoked and survive        *)
(* restarts under other configurations: the longest that removing an       *)
(* administrator can go unnoticed (auth.go 59-64, 77-90, handlers.go       *)
(* 445-461).                                                               *)
(***************************************************************************)
RemovalTakesEffect == \A t \in tokens : sinceAdmin[t.user] < Expiry

(***************************************************************************)
(* With authentication on, a handler of an administrator's route begins    *)
(* only for someone who was on the list less than the expiry ago, and      *)
(* logged in under the secret that the process runs with: no restart, no   *)
(* earlier start without authentication and no token of another secret     *)
(* lets anyone else in (auth.go 41-71, 77-90, 92-106, api.go 56-59).       *)
(***************************************************************************)
AdminCallsAuthorized ==
  [][\A r \in Requests, rt \in Routes \cap AdminRoutes,
        t \in tokens \cup {NoToken} :
       Enter(r, rt, t) /\ config.auth
         => /\ t # NoToken
            /\ t.secret = config.secret
            /\ sinceAdmin[t.user] < Expiry]_vars

-----------------------------------------------------------------------------
\* What comments of the repository say, and the code does not do.

(***************************************************************************)
(* api.go 65, "Health check endpoint (public)", and 68, "Authentication    *)
(* endpoint (public)": no request for them is turned away for want of a    *)
(* token.                                                                  *)
(***************************************************************************)
PublicRoutesAreOpen ==
  \A r \in Requests :
    request[r].pc = "rejected" => request[r].route \notin {"health", "login"}
=============================================================================
