------------------------ MODULE ControlServiceProofs ------------------------
(***************************************************************************)
(* Theorems of ControlService, for any users, routes, handlers, secrets    *)
(* and configurations.                                                     *)
(***************************************************************************)
EXTENDS ControlService, FiniteSetTheorems, TLAPS

USE DEF Goto, NoRequest, NoStats

\* What a request's handler counts next is read off its position.
LEMMA GotoType ==
  ASSUME TypeOK, NEW r \in Requests,
         NEW p \in {"idle", "rejected", "entered", "counted", "ready"},
         NEW rt \in Routes \cup {"none"}, Goto(r, p, rt)
  PROVE  request' \in [Requests -> Request]
BY DEF TypeOK, Request

\* The state stays well formed, for every configuration.
THEOREM ControlTypeOK == Spec => []TypeOK
<1>1. ASSUME Init PROVE TypeOK
  <2>1. stats \in [api : Nat, health : Nat, db : Nat]
    BY <1>1 DEF Init
  <2>2. request \in [Requests -> Request]
    BY <1>1 DEF Init, Request
  <2>3. sinceAdmin \in [Users -> 0 .. SinceCap]
    BY <1>1, ControlAssumption DEF Init
  <2>. QED BY <1>1, <2>1, <2>2, <2>3, ControlAssumption DEF Init, TypeOK, Config
<1>2. ASSUME TypeOK, [Next]_vars PROVE TypeOK'
  <2>. USE <1>2
  <2>1. ASSUME NEW r \in Requests, NEW rt \in Routes,
               NEW t \in tokens \cup {NoToken}, Reject(r, rt, t) \/ Enter(r, rt, t)
        PROVE  TypeOK'
    <3>1. request' \in [Requests -> Request]
      BY <2>1, GotoType DEF Reject, Enter
    <3>. QED BY <2>1, <3>1 DEF TypeOK, Reject, Enter
  <2>2. ASSUME NEW r \in Requests, CountRequest(r) \/ CountCheck(r) \/ CountQuery(r)
        PROVE  TypeOK'
    <3>1. request[r].route \in Routes \cup {"none"}
      BY DEF TypeOK, Request
    <3>2. request' \in [Requests -> Request]
      BY <2>2, <3>1, GotoType DEF CountRequest, CountCheck, CountQuery
    <3>3. stats' \in [api : Nat, health : Nat, db : Nat]
      BY <2>2 DEF TypeOK, CountRequest, CountCheck, CountQuery
    <3>. QED
      BY <2>2, <3>2, <3>3 DEF TypeOK, CountRequest, CountCheck, CountQuery
  <2>3. ASSUME NEW r \in Requests, NEW u \in Users, Login(r, u)
        PROVE  TypeOK'
    <3>1. NewToken(u) \in Token
      <4>1. config.secret \in Secrets
        BY ControlAssumption DEF TypeOK, Config
      <4>2. Expiry \in 1 .. Expiry
        BY ControlAssumption
      <4>. QED BY <4>1, <4>2 DEF NewToken, Token
    <3>2. request' \in [Requests -> Request]
      BY <2>3 DEF Login, TypeOK, Request
    <3>. QED BY <2>3, <3>1, <3>2 DEF Login, TypeOK
  <2>4. ASSUME NEW r \in Requests, Respond(r) PROVE TypeOK'
    <3>1. request' \in [Requests -> Request]
      BY <2>4 DEF Respond, TypeOK, Request
    <3>. QED BY <2>4, <3>1 DEF Respond, TypeOK
  <2>5. ASSUME NEW c \in Configs, Restart(c) PROVE TypeOK'
    <3>1. request' \in [Requests -> Request]
      BY <2>5 DEF Restart, Request
    <3>2. sinceAdmin' \in [Users -> 0 .. SinceCap]
      BY <2>5, ControlAssumption DEF Restart, TypeOK
    <3>3. stats' \in [api : Nat, health : Nat, db : Nat]
      BY <2>5 DEF Restart
    <3>. QED BY <2>5, <3>1, <3>2, <3>3 DEF Restart, TypeOK
  <2>6. CASE Tick
    <3>1. \A n \in 0 .. SinceCap : Longer(n) \in 0 .. SinceCap
      BY ControlAssumption DEF Longer
    <3>2. sinceAdmin' \in [Users -> 0 .. SinceCap]
      BY <2>6, <3>1, ControlAssumption DEF Tick, TypeOK
    <3>3. \A t \in Token : t.left > 1 => Shorter(t) \in Token
      BY ControlAssumption DEF Token, Shorter
    <3>4. tokens' \subseteq Token
      BY <2>6, <3>3 DEF Tick, TypeOK
    <3>. QED BY <2>6, <3>2, <3>4 DEF Tick, TypeOK
  <2>7. CASE UNCHANGED vars
    BY <2>7 DEF vars, TypeOK
  <2>. QED BY <2>1, <2>2, <2>3, <2>4, <2>5, <2>6, <2>7 DEF Next
<1>. QED BY <1>1, <1>2, PTL DEF Spec

-----------------------------------------------------------------------------

\* An administrator has not been absent, and nobody who holds a token has
\* been absent for longer than the token is old.
TokenAges ==
  /\ \A u \in config.admins : sinceAdmin[u] = 0
  /\ \A t \in tokens : sinceAdmin[t.user] + t.left <= Expiry

LEMMA TokenAgesStart ==
  ASSUME Init, TypeOK
  PROVE  TokenAges
BY ControlAssumption DEF Init, TokenAges, TypeOK, Config

\* A login makes both counts start together, time moves them against each
\* other, and a restart can only bring an absent user back.
LEMMA TokenAgesStep ==
  ASSUME TokenAges, TypeOK, TypeOK', [Next]_vars
  PROVE  TokenAges'
<1>0. ASSUME UNCHANGED <<config, tokens, sinceAdmin>> PROVE TokenAges'
  BY <1>0 DEF TokenAges
<1>1. ASSUME NEW r \in Requests, NEW u \in Users, Login(r, u) PROVE TokenAges'
  <2>1. sinceAdmin[u] = 0
    BY <1>1 DEF Login, TokenAges
  <2>2. sinceAdmin[NewToken(u).user] + NewToken(u).left <= Expiry
    BY <2>1, ControlAssumption DEF NewToken
  <2>. QED BY <1>1, <2>2 DEF Login, TokenAges
<1>2. ASSUME NEW c \in Configs, Restart(c) PROVE TokenAges'
  <2>1. c.admins \subseteq Users
    BY ControlAssumption DEF Config
  <2>2. \A u \in Users : sinceAdmin'[u] <= sinceAdmin[u]
    BY <1>2, ControlAssumption DEF Restart, TypeOK
  <2>3. ASSUME NEW t \in tokens PROVE sinceAdmin'[t.user] + t.left <= Expiry
    <3>1. t.user \in Users /\ t.left \in Nat
      BY DEF TypeOK, Token
    <3>2. sinceAdmin[t.user] \in Nat /\ sinceAdmin'[t.user] \in Nat
      BY <3>1, ControlAssumption DEF TypeOK
    <3>3. sinceAdmin'[t.user] <= sinceAdmin[t.user]
      BY <3>1, <2>2
    <3>4. sinceAdmin[t.user] + t.left <= Expiry
      BY DEF TokenAges
    <3>. QED BY <3>1, <3>2, <3>3, <3>4, ControlAssumption
  <2>4. \A u \in config'.admins : sinceAdmin'[u] = 0
    BY <1>2, <2>1 DEF Restart
  <2>. QED BY <1>2, <2>3, <2>4 DEF Restart, TokenAges
<1>3. CASE Tick
  <2>1. config.admins \subseteq Users
    BY ControlAssumption DEF Config, TypeOK
  <2>2. \A u \in Users : sinceAdmin'[u] <= sinceAdmin[u] + 1
    BY <1>3, ControlAssumption DEF Tick, TypeOK, Longer
  <2>3. ASSUME NEW t \in tokens, t.left > 1
        PROVE  sinceAdmin'[Shorter(t).user] + Shorter(t).left <= Expiry
    <3>1. t.user \in Users /\ t.left \in Nat
      BY DEF TypeOK, Token
    <3>2. sinceAdmin[t.user] \in Nat /\ sinceAdmin'[t.user] \in Nat
      BY <3>1, ControlAssumption DEF TypeOK
    <3>3. sinceAdmin'[t.user] <= sinceAdmin[t.user] + 1
      BY <3>1, <2>2
    <3>4. sinceAdmin[t.user] + t.left <= Expiry
      BY DEF TokenAges
    <3>5. Shorter(t).user = t.user /\ Shorter(t).left = t.left - 1
      BY DEF Shorter
    <3>. QED BY <3>1, <3>2, <3>3, <3>4, <3>5, ControlAssumption
  <2>4. \A u \in config'.admins : sinceAdmin'[u] = 0
    BY <1>3, <2>1 DEF Tick
  <2>. QED BY <1>3, <2>3, <2>4 DEF Tick, TokenAges
<1>4. CASE \E r \in Requests, rt \in Routes, t \in tokens \cup {NoToken} :
             Reject(r, rt, t) \/ Enter(r, rt, t)
  BY <1>0, <1>4 DEF Reject, Enter
<1>5. CASE \E r \in Requests :
             CountRequest(r) \/ CountCheck(r) \/ CountQuery(r) \/ Respond(r)
  BY <1>0, <1>5 DEF CountRequest, CountCheck, CountQuery, Respond
<1>6. CASE UNCHANGED vars
  BY <1>0, <1>6 DEF vars
<1>. QED BY <1>1, <1>2, <1>3, <1>4, <1>5, <1>6 DEF Next

LEMMA TokenAgesAlways == Spec => []TokenAges
BY TokenAgesStart, TokenAgesStep, ControlTypeOK, PTL DEF Spec

(***************************************************************************)
(* Whoever holds a live token was an administrator less than the expiry    *)
(* ago: a token has at least one tick left, and its holder's absence is    *)
(* no longer than its age.                                                 *)
(***************************************************************************)
THEOREM ControlRemovalTakesEffect == Spec => []RemovalTakesEffect
<1>1. ASSUME TokenAges, TypeOK PROVE RemovalTakesEffect
  <2>1. ASSUME NEW t \in tokens PROVE sinceAdmin[t.user] < Expiry
    <3>1. t.user \in Users /\ t.left \in 1 .. Expiry
      BY <1>1 DEF TypeOK, Token
    <3>2. sinceAdmin[t.user] \in Nat
      BY <1>1, <3>1, ControlAssumption DEF TypeOK
    <3>3. sinceAdmin[t.user] + t.left <= Expiry
      BY <1>1 DEF TokenAges
    <3>. QED BY <3>1, <3>2, <3>3, ControlAssumption
  <2>. QED BY <2>1 DEF RemovalTakesEffect
<1>. QED BY <1>1, TokenAgesAlways, ControlTypeOK, PTL

(***************************************************************************)
(* With authentication on, whoever reaches an administrator's handler was  *)
(* on the list less than the expiry ago and holds a token of the running   *)
(* secret, for any lists, secrets and restarts: the token that lets a      *)
(* request pass is one that Login issued and that has not expired.         *)
(***************************************************************************)
THEOREM ControlAdminCallsAuthorized == Spec => AdminCallsAuthorized
<1>1. RemovalTakesEffect =>
        \A r \in Requests, rt \in Routes \cap AdminRoutes,
           t \in tokens \cup {NoToken} :
          Enter(r, rt, t) /\ config.auth
            => /\ t # NoToken
               /\ t.secret = config.secret
               /\ sinceAdmin[t.user] < Expiry
  BY DEF RemovalTakesEffect, Enter, Passes
<1>. QED
  BY <1>1, ControlRemovalTakesEffect, PTL DEF AdminCallsAuthorized

-----------------------------------------------------------------------------

\* The handlers that have counted their request and owe one more increment.
Owing == {r \in Requests : request[r].pc = "counted"}

\* What has been counted and is still owed never exceeds the requests.
NothingLost == stats.health + stats.db + Cardinality(Owing) <= stats.api

LEMMA OwingFinite ==
  ASSUME IsFiniteSet(Requests)
  PROVE  IsFiniteSet(Owing) /\ Cardinality(Owing) \in Nat
<1>1. IsFiniteSet(Owing)
  BY FS_Subset DEF Owing
<1>. QED BY <1>1, FS_CardinalityType

(***************************************************************************)
(* A snapshot between two increments of a handler never shows more health  *)
(* checks and queries than requests, for any finite number of handlers:    *)
(* each increment of the two draws on a request counted before it.         *)
(***************************************************************************)
THEOREM ControlCountersAgree ==
  ASSUME IsFiniteSet(Requests)
  PROVE  Spec => []CountersAgree
<1>1. ASSUME Init PROVE NothingLost
  <2>1. Owing = {}
    BY <1>1 DEF Init, Owing
  <2>. QED BY <1>1, <2>1, FS_EmptySet DEF Init, NothingLost
<1>2. ASSUME NothingLost, TypeOK, TypeOK', [Next]_vars PROVE NothingLost'
  <2>. USE <1>2
  <2>1. IsFiniteSet(Owing) /\ Cardinality(Owing) \in Nat
    BY OwingFinite
  <2>2. /\ stats.api \in Nat /\ stats.health \in Nat /\ stats.db \in Nat
        /\ stats.health + stats.db + Cardinality(Owing) <= stats.api
    BY DEF TypeOK, NothingLost
  <2>3. ASSUME stats' = stats, Owing' = Owing PROVE NothingLost'
    BY <2>2, <2>3 DEF NothingLost
  <2>4. ASSUME NEW r \in Requests, CountRequest(r) PROVE NothingLost'
    <3>1. stats'.api = stats.api + 1 /\ stats'.health = stats.health
            /\ stats'.db = stats.db
      BY <2>4 DEF CountRequest
    <3>2. r \notin Owing /\ (Owing' = Owing \/ Owing' = Owing \cup {r})
      BY <2>4 DEF CountRequest, Owing, TypeOK
    <3>3. Cardinality(Owing \cup {r}) = Cardinality(Owing) + 1
      BY <2>1, <3>2, FS_AddElement
    <3>4. Cardinality(Owing') \in {Cardinality(Owing), Cardinality(Owing) + 1}
      BY <3>2, <3>3
    <3>. QED BY <2>1, <2>2, <3>1, <3>4 DEF NothingLost
  <2>5. ASSUME NEW r \in Requests, CountCheck(r) \/ CountQuery(r)
        PROVE  NothingLost'
    <3>1. /\ stats'.api = stats.api
          /\ \/ stats'.health = stats.health + 1 /\ stats'.db = stats.db
             \/ stats'.health = stats.health /\ stats'.db = stats.db + 1
      BY <2>5 DEF CountCheck, CountQuery
    <3>2. r \in Owing /\ Owing' = Owing \ {r}
      BY <2>5 DEF CountCheck, CountQuery, Owing, TypeOK
    <3>3. Cardinality(Owing') = Cardinality(Owing) - 1
      BY <2>1, <3>2, FS_RemoveElement
    <3>. QED BY <2>1, <2>2, <3>1, <3>3 DEF NothingLost
  <2>6. ASSUME NEW r \in Requests, NEW rt \in Routes,
               NEW t \in tokens \cup {NoToken}, Reject(r, rt, t) \/ Enter(r, rt, t)
        PROVE  NothingLost'
    <3>1. Owing' = Owing
      BY <2>6 DEF Reject, Enter, Owing, TypeOK
    <3>. QED BY <2>3, <2>6, <3>1 DEF Reject, Enter
  <2>7. ASSUME NEW r \in Requests, Respond(r) \/ \E u \in Users : Login(r, u)
        PROVE  NothingLost'
    <3>1. Owing' = Owing
      BY <2>7 DEF Respond, Login, Owing, TypeOK
    <3>. QED BY <2>3, <2>7, <3>1 DEF Respond, Login
  <2>8. ASSUME NEW c \in Configs, Restart(c) PROVE NothingLost'
    <3>1. Owing' = {}
      BY <2>8 DEF Restart, Owing
    <3>. QED BY <2>8, <3>1, FS_EmptySet DEF Restart, NothingLost
  <2>9. CASE Tick \/ UNCHANGED vars
    BY <2>3, <2>9 DEF Tick, vars, Owing
  <2>. QED BY <2>4, <2>5, <2>6, <2>7, <2>8, <2>9 DEF Next
<1>3. ASSUME NothingLost, TypeOK PROVE CountersAgree
  <2>1. Cardinality(Owing) \in Nat
    BY OwingFinite
  <2>. QED BY <1>3, <2>1 DEF NothingLost, TypeOK, CountersAgree
<1>. QED BY <1>1, <1>2, <1>3, ControlTypeOK, PTL DEF Spec
=============================================================================
