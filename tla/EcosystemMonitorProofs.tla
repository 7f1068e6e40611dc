----------------------- MODULE EcosystemMonitorProofs -----------------------
(***************************************************************************)
(* The monitor's answers are recent and its verdicts are backed by         *)
(* the services, for every set of services and concurrent callers, every   *)
(* timeout and every housekeeping interval.                                *)
(***************************************************************************)
EXTENDS EcosystemMonitor, FiniteSetTheorems, TLAPS

\* A status is good enough for a call of this age.
Recent(s, k) ==
  s \in DOMAIN statuses /\ statuses[s].age <= task[k].age + 2 * ClientTimeout

\* The age of a call bounds the time its checks have been in flight.
FlightInv ==
  \A k \in Tasks, s \in Services :
    /\ check[k][s].pc = "health" => task[k].age <= check[k][s].wait
    /\ check[k][s].pc = "config" =>
         task[k].age <= ClientTimeout + check[k][s].wait
    /\ check[k][s].pc = "publish" => task[k].age <= 2 * ClientTimeout

\* A check that ended inside CheckAllServices has left a status, and what
\* replaced it since is not much older.
StoredInv ==
  \A k \in Tasks :
    /\ task[k].op \in {"all", "collected"} =>
         \A s \in Services : check[k][s].pc = "done" => Recent(s, k)
    /\ task[k].op = "collected" => \A s \in Services : check[k][s].pc = "done"

\* The checks that have a verdict.
Judged == {"config", "publish", "done"}

\* A verdict not yet stored was true of the service at some moment since the
\* call began, and so was every stored one since its LastCheck.
SeenInv ==
  /\ \A k \in Tasks, s \in Services :
       check[k][s].pc \in Judged => Since(s, check[k][s].healthy) <= task[k].age
  /\ VerdictWasSeen

\* Checks exist only inside a call.
IdleInv ==
  \A k \in Tasks : task[k].op = "idle" => \A s \in Services : check[k][s] = NoCheck

MonitorInv == TypeOK /\ IdleInv /\ FlightInv /\ StoredInv /\ SeenInv

LEMMA NoCheckType == NoCheck \in Check /\ Started \in Check /\ NoCall \in Call
<1>1. NoCheck \in Check
  BY MonitorAssumption DEF NoCheck, Check
<1>2. Started = [pc |-> "health", wait |-> 0, healthy |-> FALSE, failed |-> FALSE]
  BY DEF NoCheck, Started, MovedTo
<1>3. Started \in Check
  BY <1>2, MonitorAssumption DEF Check
<1>4. NoCall \in Call
  BY DEF NoCall, Call
<1> QED
  BY <1>1, <1>3, <1>4

LEMMA MonitorInitial == Init => MonitorInv
<1> SUFFICES ASSUME Init PROVE MonitorInv
  OBVIOUS
<1>1. TypeOK
  BY NoCheckType, MonitorAssumption DEF Init, TypeOK, Status
<1>2. IdleInv /\ FlightInv /\ StoredInv
  BY DEF Init, IdleInv, FlightInv, StoredInv, NoCheck, NoCall
<1>3. SeenInv
  BY DEF Init, SeenInv, Judged, VerdictWasSeen, NoCheck
<1> QED
  BY <1>1, <1>2, <1>3 DEF MonitorInv

\* Beginning a call of any kind.
LEMMA BeginStep ==
  ASSUME MonitorInv, NEW k \in Tasks, NEW op \in {"all", "one"},
         NEW ss \in SUBSET Services, Begin(k, op, ss),
         ticker' \in [elapsed : 0 .. Interval - 1, pending : BOOLEAN],
         UNCHANGED <<mode, sinceOther, statuses>>
  PROVE  MonitorInv'
<1> USE DEF MonitorInv
<1>1. /\ task' \in [Tasks -> Call]
      /\ check' \in [Tasks -> [Services -> Check]]
  BY NoCheckType DEF Begin, TypeOK, Call
<1>2. /\ task'[k].op = op /\ task'[k].age = 0
      /\ \A q \in Tasks : q # k => task'[q] = task[q] /\ check'[q] = check[q]
      /\ \A s \in Services : check'[k][s] = Started \/ check'[k][s] = NoCheck
  BY DEF Begin, TypeOK
<1>3. /\ Started.pc = "health" /\ Started.healthy = FALSE /\ Started.wait = 0
      /\ NoCheck.pc = "off" /\ NoCheck.healthy = FALSE
  BY DEF Started, NoCheck, MovedTo
<1>4. TypeOK'
  BY <1>1 DEF TypeOK
<1>5. IdleInv'
  BY <1>2 DEF IdleInv
<1>6. FlightInv'
  BY <1>2, <1>3 DEF FlightInv
<1>7. StoredInv'
  BY <1>2, <1>3 DEF StoredInv, Recent
<1>8. SeenInv'
  <2>1. UNCHANGED <<mode, sinceOther, statuses>>
    OBVIOUS
  <2>2. \A q \in Tasks, x \in Services :
          check'[q][x].pc \in Judged =>
            check'[q][x] = check[q][x] /\ task'[q] = task[q]
    BY <1>2, <1>3 DEF Judged
  <2> QED
    BY <2>1, <2>2 DEF SeenInv, Since, Good, VerdictWasSeen
<1> QED
  BY <1>4, <1>5, <1>6, <1>7, <1>8

LEMMA HealthAnswerStep ==
  ASSUME MonitorInv, NEW k \in Tasks, NEW s \in Services, HealthAnswer(k, s)
  PROVE  MonitorInv'
<1> USE DEF MonitorInv
<1> DEFINE c == HealthResult(s)
<1>1. /\ c \in Check
      /\ c.healthy = Good(s) /\ c.wait = 0
      /\ c.pc \in {"config", "publish"}
  BY MonitorAssumption DEF HealthResult, Check, Good
<1>2. /\ check'[k][s] = c
      /\ \A q \in Tasks, x \in Services :
           q # k \/ x # s => check'[q][x] = check[q][x]
  BY DEF HealthAnswer, TypeOK
<1>3. TypeOK'
  BY <1>1 DEF HealthAnswer, TypeOK
<1>4. /\ task[k].age \in Nat /\ check[k][s].wait \in 0 .. ClientTimeout
      /\ check[k][s].pc = "health"
      /\ task' = task
  BY DEF HealthAnswer, TypeOK, Call, Check
<1>5. IdleInv'
  <2>1. task[k].op # "idle"
    BY <1>4 DEF IdleInv, NoCheck
  <2> QED
    BY <1>2, <1>4, <2>1 DEF IdleInv
<1>6. FlightInv'
  BY <1>1, <1>2, <1>4, MonitorAssumption DEF FlightInv
<1>7. StoredInv'
  BY <1>1, <1>2, <1>4 DEF HealthAnswer, StoredInv, Recent
<1>8. SeenInv'
  <2>1. UNCHANGED <<mode, sinceOther, statuses, task>>
    BY DEF HealthAnswer
  <2>2. Since(s, c.healthy) = 0
    BY <1>1 DEF Since
  <2> HIDE DEF c
  <2>3. \A q \in Tasks, x \in Services :
          check'[q][x].pc \in Judged =>
            Since(x, check'[q][x].healthy) <= task[q].age
    BY <1>2, <1>4, <2>2 DEF SeenInv
  <2> QED
    BY <2>1, <2>3 DEF SeenInv, Since, Good, VerdictWasSeen
<1> QED
  BY <1>3, <1>5, <1>6, <1>7, <1>8

LEMMA ConfigAnswerStep ==
  ASSUME MonitorInv, NEW k \in Tasks, NEW s \in Services, ConfigAnswer(k, s)
  PROVE  MonitorInv'
<1> USE DEF MonitorInv
<1>0. check[k][s] \in Check
  BY DEF TypeOK
<1> DEFINE c == MovedTo(check[k][s], "publish")
<1>a. /\ c \in Check
      /\ c.pc = "publish"
      /\ c.healthy = check[k][s].healthy
  BY <1>0, MonitorAssumption DEF Check, MovedTo
<1>b. check' = [check EXCEPT ![k][s] = c]
  BY DEF ConfigAnswer
<1> HIDE DEF c
<1>1. /\ check'[k][s] \in Check
      /\ check'[k][s].pc = "publish"
      /\ check'[k][s].healthy = check[k][s].healthy
      /\ \A q \in Tasks, x \in Services :
           q # k \/ x # s => check'[q][x] = check[q][x]
      /\ check' \in [Tasks -> [Services -> Check]]
  BY <1>a, <1>b DEF TypeOK
<1>2. TypeOK'
  BY <1>1 DEF ConfigAnswer, TypeOK
<1>3. /\ task[k].age \in Nat /\ check[k][s].wait \in 0 .. ClientTimeout
      /\ check[k][s].pc = "config"
      /\ task' = task
  BY DEF ConfigAnswer, TypeOK, Call, Check
<1>4. IdleInv'
  <2>1. task[k].op # "idle"
    BY <1>3 DEF IdleInv, NoCheck
  <2> QED
    BY <1>1, <1>3, <2>1 DEF IdleInv
<1>5. FlightInv'
  BY <1>1, <1>3, MonitorAssumption DEF FlightInv
<1>6. StoredInv'
  BY <1>1, <1>3 DEF ConfigAnswer, StoredInv, Recent
<1>7. SeenInv'
  <2>1. UNCHANGED <<mode, sinceOther, statuses, task>>
    BY DEF ConfigAnswer
  <2>2. \A q \in Tasks, x \in Services :
          check'[q][x].pc \in Judged =>
            Since(x, check'[q][x].healthy) <= task[q].age
    BY <1>1, <1>3 DEF SeenInv, Judged
  <2> QED
    BY <2>1, <2>2 DEF SeenInv, Since, Good, VerdictWasSeen
<1> QED
  BY <1>2, <1>4, <1>5, <1>6, <1>7

LEMMA PublishStep ==
  ASSUME MonitorInv, NEW k \in Tasks, NEW s \in Services, Publish(k, s)
  PROVE  MonitorInv'
<1> USE DEF MonitorInv
<1>0. check[k][s] \in Check
  BY DEF TypeOK
<1> DEFINE c == MovedTo(check[k][s], "done")
<1>a. /\ c \in Check
      /\ c.pc = "done"
      /\ c.healthy = check[k][s].healthy
  BY <1>0, MonitorAssumption DEF Check, MovedTo
<1>b. check' = [check EXCEPT ![k][s] = c]
  BY DEF Publish
<1> HIDE DEF c
<1>1. /\ check'[k][s] \in Check
      /\ check'[k][s].pc = "done"
      /\ check'[k][s].healthy = check[k][s].healthy
      /\ \A q \in Tasks, x \in Services :
           q # k \/ x # s => check'[q][x] = check[q][x]
      /\ check' \in [Tasks -> [Services -> Check]]
  BY <1>a, <1>b DEF TypeOK
<1>2. /\ task[k] \in Call /\ task[k].age \in Nat
      /\ check[k][s] \in Check /\ check[k][s].pc = "publish"
      /\ task' = task /\ mode' = mode /\ sinceOther' = sinceOther
  BY DEF Publish, TypeOK, Call
<1>3. Result(k, s) \in Status /\ task[k].age <= 2 * ClientTimeout
  BY <1>2 DEF Result, Status, Check, FlightInv
<1>4. \/ statuses' = statuses
      \/ /\ DOMAIN statuses' = DOMAIN statuses \cup {s}
         /\ statuses' \in [DOMAIN statuses' -> Status]
         /\ statuses'[s] = Result(k, s)
         /\ \A x \in DOMAIN statuses : x # s => statuses'[x] = statuses[x]
  BY <1>3 DEF Publish, TypeOK
<1>5. TypeOK'
  <2>1. statuses' \in [DOMAIN statuses' -> Status] /\ DOMAIN statuses' \subseteq Services
    <3>1. CASE statuses' = statuses
      BY <3>1 DEF TypeOK
    <3>2. CASE statuses' # statuses
      BY <1>4, <3>2 DEF TypeOK
    <3> QED
      BY <3>1, <3>2
  <2> QED
    BY <1>1, <2>1 DEF Publish, TypeOK
<1>6. IdleInv'
  <2>1. task[k].op # "idle"
    BY <1>2 DEF IdleInv, NoCheck
  <2> QED
    BY <1>1, <1>2, <2>1 DEF IdleInv
<1>7. FlightInv'
  BY <1>1, <1>2 DEF FlightInv
<1>8. StoredInv'
  <2>1. ASSUME NEW q \in Tasks, NEW x \in Services, Recent(x, q)
        PROVE  Recent(x, q)'
    <3>1. task[q].age \in Nat
      BY DEF TypeOK, Call
    <3> QED
      BY <1>2, <1>3, <1>4, <2>1, <3>1, MonitorAssumption DEF Recent, Result
  <2>2. task[k].op \in {"all", "collected"} => Recent(s, k)'
    <3>1. task[k].op = "collected" => FALSE
      BY <1>2 DEF StoredInv
    <3>2. CASE task[k].op = "all"
      <4>1. s \in DOMAIN statuses' /\ statuses'[s] = Result(k, s)
        BY <3>2 DEF Publish, Stores
      <4> QED
        BY <4>1, <1>2, MonitorAssumption DEF Recent, Result
    <3> QED
      BY <3>1, <3>2
  <2> QED
    BY <1>1, <1>2, <2>1, <2>2 DEF StoredInv
<1>9. SeenInv'
  <2>1. Since(s, check[k][s].healthy) <= task[k].age
    BY <1>2 DEF SeenInv, Judged
  <2>2. \A x \in DOMAIN statuses' :
          Since(x, statuses'[x].healthy) <= statuses'[x].age
    BY <1>2, <1>4, <2>1 DEF SeenInv, VerdictWasSeen, Result
  <2>3. \A q \in Tasks, x \in Services :
          check'[q][x].pc \in Judged =>
            Since(x, check'[q][x].healthy) <= task[q].age
    BY <1>1, <1>2, <2>1 DEF SeenInv
  <2> QED
    BY <1>2, <2>2, <2>3 DEF SeenInv, Since, Good, VerdictWasSeen
<1> QED
  BY <1>5, <1>6, <1>7, <1>8, <1>9

LEMMA CollectStep ==
  ASSUME MonitorInv, NEW k \in Tasks, Collect(k)
  PROVE  MonitorInv'
<1> USE DEF MonitorInv
<1>1. /\ task' \in [Tasks -> Call]
      /\ task'[k].op = "collected" /\ task'[k].age = task[k].age
      /\ task[k].op = "all"
      /\ \A q \in Tasks : q # k => task'[q] = task[q]
      /\ UNCHANGED <<mode, sinceOther, statuses, check, ticker>>
  BY DEF Collect, TypeOK, Call
<1>2. TypeOK'
  BY <1>1 DEF TypeOK
<1>3. IdleInv' /\ FlightInv'
  BY <1>1 DEF IdleInv, FlightInv
<1>4. StoredInv'
  BY <1>1 DEF Collect, StoredInv, Recent
<1>5. SeenInv'
  BY <1>1 DEF SeenInv, Since, Good, VerdictWasSeen
<1> QED
  BY <1>2, <1>3, <1>4, <1>5

LEMMA ReturnStep ==
  ASSUME MonitorInv, NEW k \in Tasks, Return(k)
  PROVE  MonitorInv'
<1> USE DEF MonitorInv
<1>1. /\ task' \in [Tasks -> Call]
      /\ check' \in [Tasks -> [Services -> Check]]
      /\ task'[k].op = "idle"
      /\ \A s \in Services : check'[k][s] = NoCheck
      /\ \A q \in Tasks : q # k => task'[q] = task[q] /\ check'[q] = check[q]
      /\ UNCHANGED <<mode, sinceOther, statuses, ticker>>
  BY NoCheckType DEF Return, TypeOK, NoCall
<1>2. NoCheck.pc = "off" /\ NoCheck.healthy = FALSE
  BY DEF NoCheck
<1>3. TypeOK'
  BY <1>1 DEF TypeOK
<1>4. IdleInv'
  BY <1>1 DEF IdleInv
<1>5. FlightInv'
  BY <1>1, <1>2 DEF FlightInv
<1>6. StoredInv'
  BY <1>1, <1>2 DEF StoredInv, Recent
<1>7. SeenInv'
  <2>1. \A q \in Tasks, x \in Services :
          check'[q][x].pc \in Judged =>
            check'[q][x] = check[q][x] /\ task'[q] = task[q]
    BY <1>1, <1>2 DEF Judged
  <2> QED
    BY <1>1, <2>1 DEF SeenInv, Since, Good, VerdictWasSeen
<1> QED
  BY <1>3, <1>4, <1>5, <1>6, <1>7

LEMMA SinceType ==
  ASSUME TypeOK, NEW s \in Services, NEW h \in BOOLEAN
  PROVE  Since(s, h) \in 0 .. SinceCap
BY MonitorAssumption DEF TypeOK, Since

LEMMA SinceTypePrime ==
  ASSUME TypeOK', NEW s \in Services, NEW h \in BOOLEAN
  PROVE  Since(s, h)' \in 0 .. SinceCap
BY MonitorAssumption DEF TypeOK, Since

LEMMA ChangeModeStep ==
  ASSUME MonitorInv, NEW s \in Services, NEW m \in Modes, ChangeMode(s, m)
  PROVE  MonitorInv'
<1> USE DEF MonitorInv
<1>1. /\ mode' \in [Services -> Modes]
      /\ sinceOther' \in [Services -> 0 .. SinceCap]
      /\ UNCHANGED <<statuses, task, check, ticker>>
  BY MonitorAssumption DEF ChangeMode, TypeOK
<1>2. ASSUME NEW x \in Services, NEW h \in BOOLEAN
      PROVE  Since(x, h)' <= Since(x, h)
  <2>1. CASE x # s
    <3>1. mode'[x] = mode[x] /\ sinceOther'[x] = sinceOther[x]
      BY <2>1 DEF ChangeMode, TypeOK
    <3> QED
      BY <3>1, SinceType DEF Since, Good
  <2>2. CASE x = s /\ (m \in HealthyModes) = Good(s)
    <3>1. mode'[s] = m /\ sinceOther'[s] = sinceOther[s]
      BY <2>2 DEF ChangeMode, TypeOK
    <3>2. Good(s)' = Good(s)
      BY <2>2, <3>1 DEF Good
    <3> QED
      BY <2>2, <3>1, <3>2, SinceType DEF Since
  <2>3. CASE x = s /\ (m \in HealthyModes) # Good(s)
    <3>1. sinceOther'[s] = 0
      BY <2>3, MonitorAssumption DEF ChangeMode, TypeOK
    <3>2. Since(s, h)' = 0
      BY <3>1 DEF Since
    <3> QED
      BY <2>3, <3>2, SinceType
  <2> QED
    BY <2>1, <2>2, <2>3
<1>3. TypeOK'
  BY <1>1 DEF TypeOK
<1>4. IdleInv' /\ FlightInv' /\ StoredInv'
  BY <1>1 DEF IdleInv, FlightInv, StoredInv, Recent
<1>5. SeenInv'
  <2>1. ASSUME NEW x \in Services, NEW h \in BOOLEAN, NEW n \in Nat,
               Since(x, h) <= n
        PROVE  Since(x, h)' <= n
    <3>1. Since(x, h) \in Int /\ Since(x, h)' \in Int
      BY <1>3, SinceType, SinceTypePrime
    <3> QED
      BY <1>2, <2>1, <3>1
  <2>2. \A q \in Tasks, x \in Services :
          check[q][x].healthy \in BOOLEAN /\ task[q].age \in Nat
    BY DEF TypeOK, Call, Check
  <2>3. \A q \in Tasks, x \in Services :
          check[q][x].pc \in Judged =>
            Since(x, check[q][x].healthy)' <= task[q].age
    BY <1>1, <2>1, <2>2 DEF SeenInv
  <2>4. \A x \in DOMAIN statuses :
          /\ x \in Services
          /\ statuses[x].healthy \in BOOLEAN
          /\ statuses[x].age \in Nat
    BY DEF TypeOK, Status
  <2>5. \A x \in DOMAIN statuses :
          Since(x, statuses[x].healthy)' <= statuses[x].age
    BY <1>1, <2>1, <2>4 DEF SeenInv, VerdictWasSeen
  <2> QED
    BY <1>1, <2>3, <2>5 DEF SeenInv, VerdictWasSeen
<1> QED
  BY <1>3, <1>4, <1>5

LEMMA OlderFacts ==
  /\ \A st \in Status : OlderStatus(st) \in Status
  /\ \A t \in Call :
       /\ OlderCall(t) \in Call
       /\ OlderCall(t).op = t.op
       /\ t.op # "idle" => OlderCall(t).age = t.age + 1
       /\ t.age <= OlderCall(t).age
  /\ \A c \in Check :
       (Waiting(c) => c.wait < ClientTimeout) =>
         /\ OlderCheck(c) \in Check
         /\ OlderCheck(c).pc = c.pc
         /\ OlderCheck(c).healthy = c.healthy
         /\ Waiting(c) => OlderCheck(c).wait = c.wait + 1
         /\ ~Waiting(c) => OlderCheck(c) = c
<1>1. \A st \in Status : OlderStatus(st) \in Status
  BY DEF Status, OlderStatus
<1>2. ASSUME NEW t \in Call
      PROVE  /\ OlderCall(t) \in Call
             /\ OlderCall(t).op = t.op
             /\ t.op # "idle" => OlderCall(t).age = t.age + 1
             /\ t.age <= OlderCall(t).age
  BY DEF Call, OlderCall
<1>3. ASSUME NEW c \in Check, Waiting(c) => c.wait < ClientTimeout
      PROVE  /\ OlderCheck(c) \in Check
             /\ OlderCheck(c).pc = c.pc
             /\ OlderCheck(c).healthy = c.healthy
             /\ Waiting(c) => OlderCheck(c).wait = c.wait + 1
             /\ ~Waiting(c) => OlderCheck(c) = c
  <2>1. CASE Waiting(c)
    <3>1. OlderCheck(c) = [c EXCEPT !.wait = c.wait + 1]
      BY <2>1 DEF OlderCheck
    <3>2. c.wait + 1 \in 0 .. ClientTimeout
      BY <1>3, <2>1, MonitorAssumption DEF Check
    <3> DEFINE w == c.wait + 1
    <3>3. OlderCheck(c) = [c EXCEPT !.wait = w]
      BY <3>1
    <3> HIDE DEF w
    <3>4. w \in 0 .. ClientTimeout
      BY <3>2 DEF w
    <3>5. /\ [c EXCEPT !.wait = w] \in Check
          /\ [c EXCEPT !.wait = w].pc = c.pc
          /\ [c EXCEPT !.wait = w].healthy = c.healthy
          /\ [c EXCEPT !.wait = w].wait = w
      BY <3>4 DEF Check
    <3> QED
      BY <2>1, <3>3, <3>5 DEF w
  <2>2. CASE ~Waiting(c)
    BY <2>2 DEF OlderCheck
  <2> QED
    BY <2>1, <2>2
<1> QED
  BY <1>1, <1>2, <1>3

LEMMA TickStep ==
  ASSUME MonitorInv, Tick
  PROVE  MonitorInv'
<1> USE DEF MonitorInv
<1>1. /\ mode' = mode
      /\ sinceOther' \in [Services -> 0 .. SinceCap]
      /\ \A s \in Services, h \in BOOLEAN : Since(s, h)' <= Since(s, h) + 1
  <2>1. \A s \in Services : sinceOther[s] \in 0 .. SinceCap
    BY DEF TypeOK
  <2>2. ASSUME NEW s \in Services
        PROVE  /\ sinceOther'[s] \in 0 .. SinceCap
               /\ sinceOther'[s] <= sinceOther[s] + 1
    <3>1. sinceOther'[s] = IF sinceOther[s] = SinceCap THEN SinceCap
                           ELSE sinceOther[s] + 1
      BY DEF Tick
    <3> QED
      BY <2>1, <3>1, MonitorAssumption
  <2>3. sinceOther' \in [Services -> 0 .. SinceCap]
    BY <2>2 DEF Tick
  <2>4. mode' = mode
    BY DEF Tick
  <2>5. ASSUME NEW s \in Services, NEW h \in BOOLEAN
        PROVE  Since(s, h)' <= Since(s, h) + 1
    <3>1. CASE Good(s) = h
      <4>1. Since(s, h) = 0 /\ Since(s, h)' = 0
        BY <2>4, <3>1 DEF Since, Good
      <4> QED
        BY <4>1
    <3>2. CASE Good(s) # h
      <4>1. Since(s, h) = sinceOther[s] /\ Since(s, h)' = sinceOther'[s]
        BY <2>4, <3>2 DEF Since, Good
      <4> QED
        BY <4>1, <2>2
    <3> QED
      BY <3>1, <3>2
  <2> QED
    BY <2>3, <2>4, <2>5
<1>2. /\ statuses' \in [DOMAIN statuses' -> Status]
      /\ DOMAIN statuses' = DOMAIN statuses
      /\ \A s \in DOMAIN statuses :
           /\ statuses[s] \in Status
           /\ statuses'[s].age = statuses[s].age + 1
           /\ statuses'[s].healthy = statuses[s].healthy
  BY OlderFacts DEF Tick, TypeOK, OlderStatus
<1>3. /\ task' \in [Tasks -> Call]
      /\ \A k \in Tasks :
           /\ task[k] \in Call
           /\ task'[k].op = task[k].op
           /\ task[k].op # "idle" => task'[k].age = task[k].age + 1
           /\ task[k].age <= task'[k].age
  BY OlderFacts DEF Tick, TypeOK
<1>4. /\ check' \in [Tasks -> [Services -> Check]]
      /\ \A k \in Tasks, s \in Services :
           /\ check[k][s] \in Check
           /\ check'[k][s].pc = check[k][s].pc
           /\ check'[k][s].healthy = check[k][s].healthy
           /\ Waiting(check[k][s]) => check'[k][s].wait = check[k][s].wait + 1
           /\ ~Waiting(check[k][s]) => check'[k][s] = check[k][s]
           /\ check[k][s].pc # "publish"
  <2>1. \A k \in Tasks, s \in Services :
          /\ check[k][s] \in Check
          /\ check[k][s].pc # "publish"
          /\ Waiting(check[k][s]) => check[k][s].wait < ClientTimeout
          /\ check'[k][s] = OlderCheck(check[k][s])
    BY DEF Tick, Settled, TypeOK
  <2>2. check' \in [Tasks -> [Services -> Check]]
    BY <2>1, OlderFacts DEF Tick
  <2> QED
    BY <2>1, <2>2, OlderFacts
<1>5. ticker' \in [elapsed : 0 .. Interval - 1, pending : BOOLEAN]
  <2>1. ticker \in [elapsed : 0 .. Interval - 1, pending : BOOLEAN]
    BY DEF TypeOK
  <2>2. ticker' = NextTicker
    BY DEF Tick
  <2>3. CASE ticker.elapsed + 1 = Interval
    BY <2>2, <2>3, MonitorAssumption DEF NextTicker
  <2>4. CASE ticker.elapsed + 1 # Interval
    <3>1. ticker.elapsed + 1 \in 0 .. Interval - 1
      BY <2>1, <2>4, MonitorAssumption
    <3> QED
      BY <2>1, <2>2, <2>4, <3>1 DEF NextTicker
  <2> QED
    BY <2>3, <2>4
<1>6. TypeOK'
  BY <1>1, <1>2, <1>3, <1>4, <1>5 DEF TypeOK
<1>7. \A k \in Tasks, s \in Services :
        check[k][s].pc # "off" \/ check[k][s].healthy => task[k].op # "idle"
  BY DEF IdleInv, NoCheck
<1>8. IdleInv'
  <2>1. ~Waiting(NoCheck)
    BY DEF Waiting, NoCheck
  <2> QED
    BY <1>3, <1>4, <2>1 DEF IdleInv
<1>9. FlightInv'
  BY <1>3, <1>4, <1>7, MonitorAssumption DEF FlightInv, Waiting, Call, Check
<1>10. StoredInv'
  <2>1. ASSUME NEW k \in Tasks, NEW s \in Services,
               task[k].op # "idle", Recent(s, k)
        PROVE  Recent(s, k)'
    BY <1>2, <1>3, <2>1, MonitorAssumption DEF Recent, Status, Call
  <2>2. \A k \in Tasks :
          task'[k].op \in {"all", "collected"} =>
            \A s \in Services : check'[k][s].pc = "done" => Recent(s, k)'
    BY <1>3, <1>4, <2>1 DEF StoredInv
  <2>3. \A k \in Tasks :
          task'[k].op = "collected" => \A s \in Services : check'[k][s].pc = "done"
    BY <1>3, <1>4 DEF StoredInv
  <2> QED
    BY <2>2, <2>3 DEF StoredInv
<1>11. SeenInv'
  <2>1. ASSUME NEW s \in Services, NEW h \in BOOLEAN, NEW n \in Nat,
               Since(s, h) <= n
        PROVE  Since(s, h)' <= n + 1
    <3>1. Since(s, h) \in Int /\ Since(s, h)' \in Int
      BY <1>6, SinceType, SinceTypePrime
    <3> QED
      BY <1>1, <2>1, <3>1
  <2>2. ASSUME NEW k \in Tasks, NEW s \in Services, check'[k][s].pc \in Judged
        PROVE  (Since(s, check[k][s].healthy) <= task[k].age)'
    <3>1. check[k][s].pc \in Judged /\ check'[k][s].healthy = check[k][s].healthy
      BY <1>4, <2>2
    <3>2. Since(s, check[k][s].healthy) <= task[k].age
      BY <3>1 DEF SeenInv
    <3>3. check[k][s].healthy \in BOOLEAN /\ task[k].age \in Nat
      BY DEF TypeOK, Call, Check
    <3>4. task'[k].age = task[k].age + 1
      BY <1>3, <1>7, <3>1 DEF Judged
    <3>5. Since(s, check[k][s].healthy)' <= task[k].age + 1
      BY <2>1, <3>1, <3>2, <3>3
    <3> QED
      BY <3>1, <3>4, <3>5 DEF Since, Good
  <2>3. ASSUME NEW s \in DOMAIN statuses
        PROVE  (Since(s, statuses[s].healthy) <= statuses[s].age)'
    <3>1. /\ s \in Services
          /\ statuses[s].healthy \in BOOLEAN /\ statuses[s].age \in Nat
          /\ Since(s, statuses[s].healthy) <= statuses[s].age
      BY DEF TypeOK, Status, SeenInv, VerdictWasSeen
    <3> QED
      BY <1>2, <2>1, <3>1
  <2> QED
    BY <1>2, <2>2, <2>3 DEF SeenInv, VerdictWasSeen
<1> QED
  BY <1>6, <1>8, <1>9, <1>10, <1>11

LEMMA MonitorStep == MonitorInv /\ [Next]_vars => MonitorInv'
<1> SUFFICES ASSUME MonitorInv, [Next]_vars PROVE MonitorInv'
  OBVIOUS
<1>1. ASSUME NEW k \in Handlers, BeginAll(k) PROVE MonitorInv'
  <2>1. ticker' \in [elapsed : 0 .. Interval - 1, pending : BOOLEAN]
    BY <1>1 DEF BeginAll, MonitorInv, TypeOK
  <2> QED
    BY <1>1, <2>1, BeginStep DEF BeginAll, Tasks
<1>2. ASSUME NEW k \in Handlers, NEW s \in Services, BeginOne(k, s)
      PROVE  MonitorInv'
  <2>1. ticker' \in [elapsed : 0 .. Interval - 1, pending : BOOLEAN]
    BY <1>2 DEF BeginOne, MonitorInv, TypeOK
  <2> QED
    BY <1>2, <2>1, BeginStep DEF BeginOne, Tasks
<1>3. CASE HousekeepingBegin
  <2>1. ticker' \in [elapsed : 0 .. Interval - 1, pending : BOOLEAN]
    BY <1>3 DEF HousekeepingBegin, MonitorInv, TypeOK
  <2> QED
    BY <1>3, <2>1, BeginStep DEF HousekeepingBegin, Tasks
<1>4. ASSUME NEW k \in Tasks, NEW s \in Services,
             HealthAnswer(k, s) \/ ConfigAnswer(k, s) \/ Publish(k, s)
      PROVE  MonitorInv'
  BY <1>4, HealthAnswerStep, ConfigAnswerStep, PublishStep
<1>5. ASSUME NEW k \in Tasks, Collect(k) \/ Return(k) PROVE MonitorInv'
  BY <1>5, CollectStep, ReturnStep
<1>6. ASSUME NEW s \in Services, NEW m \in Modes, ChangeMode(s, m)
      PROVE  MonitorInv'
  BY <1>6, ChangeModeStep
<1>7. CASE Tick
  BY <1>7, TickStep
<1>8. CASE UNCHANGED vars
  BY <1>8 DEF vars, MonitorInv, TypeOK, IdleInv, FlightInv, StoredInv, Recent,
              SeenInv, Since, Good, VerdictWasSeen
<1> QED
  BY <1>1, <1>2, <1>3, <1>4, <1>5, <1>6, <1>7, <1>8 DEF Next

-----------------------------------------------------------------------------

(***************************************************************************)
(* Type correctness, for every value of the constants.                     *)
(***************************************************************************)
THEOREM MonitorTypeOK == Spec => []TypeOK
<1>1. MonitorInv => TypeOK
  BY DEF MonitorInv
<1> QED
  BY <1>1, MonitorInitial, MonitorStep, PTL DEF Spec

(***************************************************************************)
(* When CheckAllServices has returned, every service has a status no older *)
(* than the call and two client timeouts, however many calls overlap       *)
(* (ecosystem_monitor.go 34-61, 85-87).                                    *)
(***************************************************************************)
THEOREM MonitorCollectedIsRecent == Spec => []CollectedIsRecent
<1>1. MonitorInv => CollectedIsRecent
  BY DEF MonitorInv, StoredInv, Recent, CollectedIsRecent
<1> QED
  BY <1>1, MonitorInitial, MonitorStep, PTL DEF Spec

(***************************************************************************)
(* A stored verdict, healthy or not, is backed by the service's behaviour  *)
(* at some moment since its LastCheck (ecosystem_monitor.go 109-161).      *)
(***************************************************************************)
THEOREM MonitorVerdictWasSeen == Spec => []VerdictWasSeen
<1>1. MonitorInv => VerdictWasSeen
  BY DEF MonitorInv, SeenInv
<1> QED
  BY <1>1, MonitorInitial, MonitorStep, PTL DEF Spec

\* A finite snapshot counted healthy as a whole has no unhealthy member.
LEMMA AllCounted ==
  ASSUME IsFiniteSet(DOMAIN statuses), OverallStatus = "healthy",
         NEW s \in DOMAIN statuses
  PROVE  statuses[s].healthy
<1> DEFINE H == {x \in DOMAIN statuses : statuses[x].healthy}
<1>1. Cardinality(H) = Cardinality(DOMAIN statuses)
  BY DEF OverallStatus, HealthyCount
<1>2. H \subseteq DOMAIN statuses
  OBVIOUS
<1> HIDE DEF H
<1>3. H = DOMAIN statuses
  BY <1>1, <1>2, FS_Subset
<1> QED
  BY <1>3 DEF H

(***************************************************************************)
(* An overall "healthy" answer means every configured service behaved      *)
(* healthily during the call or at most two client timeouts before it,     *)
(* for any finite number of services (handlers.go 189-218).                *)
(***************************************************************************)
THEOREM MonitorHealthyAnswerJustified ==
  ASSUME IsFiniteSet(Services)
  PROVE  Spec => []HealthyAnswerJustified
<1>1. MonitorInv => HealthyAnswerJustified
  <2> SUFFICES ASSUME MonitorInv, NEW k \in Handlers,
                      task[k].op = "collected", OverallStatus = "healthy",
                      NEW s \in Services
               PROVE  Since(s, TRUE) <= task[k].age + 2 * ClientTimeout
    BY DEF HealthyAnswerJustified
  <2>1. Recent(s, k)
    BY DEF MonitorInv, StoredInv, Tasks
  <2>2. IsFiniteSet(DOMAIN statuses)
    BY FS_Subset DEF MonitorInv, TypeOK
  <2>3. statuses[s].healthy
    BY <2>1, <2>2, AllCounted DEF Recent
  <2>4. Since(s, TRUE) <= statuses[s].age
    <3>1. statuses[s].healthy = TRUE
      BY <2>1, <2>3 DEF MonitorInv, TypeOK, Status, Recent
    <3>2. Since(s, statuses[s].healthy) <= statuses[s].age
      BY <2>1 DEF MonitorInv, SeenInv, VerdictWasSeen, Recent
    <3> QED
      BY <3>1, <3>2
  <2>5. TypeOK
    BY DEF MonitorInv
  <2> DEFINE n == Since(s, TRUE)
  <2>6. n \in 0 .. SinceCap /\ n <= statuses[s].age
    BY <2>4, <2>5, SinceType
  <2>7. statuses[s].age \in Nat /\ task[k].age \in Nat
    BY <2>1, <2>5 DEF TypeOK, Status, Call, Recent, Tasks
  <2> HIDE DEF n
  <2>8. n <= task[k].age + 2 * ClientTimeout
    BY <2>1, <2>6, <2>7, MonitorAssumption DEF Recent
  <2> QED
    BY <2>8 DEF n
<1> QED
  BY <1>1, MonitorInitial, MonitorStep, PTL DEF Spec
=============================================================================
