-------------------------- MODULE EcosystemMonitor --------------------------
(***************************************************************************)
(* services/ecosystem_monitor.go with its two callers: the HTTP handlers   *)
(* of api/handlers.go and the housekeeping loop of main.go.  Each caller   *)
(* fans out one check per service; checks of different callers overlap     *)
(* freely and meet only in the statuses map.                               *)
(*                                                                         *)
(* Time is relative and counted in ticks: a stored status carries          *)
(* now - LastCheck, a call the time since it began.  Time passes only in   *)
(* network waits and timers: goroutine scheduling, decoding and e.mutex    *)
(* take none (Settled).                                                    *)
(***************************************************************************)
EXTENDS Integers, FiniteSets

CONSTANTS Services,        \* receiver, proxy, soc, packer
          ConfigServices,  \* those with a ConfigEndpoint
          Handlers,        \* concurrent HTTP handler goroutines
          Housekeeper,     \* the housekeeping goroutine
          Modes,           \* behaviours of a service the instance explores
          ClientTimeout,   \* the http.Client's 30 seconds, in ticks
          ServiceTimeout,  \* ServiceEndpoint.TimeoutSeconds, in ticks
          WriteTimeout,    \* the http.Server's 30 seconds, in ticks (api.go)
          Interval,        \* Housekeeping.IntervalSeconds, in ticks
          SinceCap         \* bound of the ghost sinceOther

\* How a service treats its requests.  "ok": 200 and status "ok"; "garbled":
\* 200 and a body that is not JSON; "stalled": 200 and a body that never
\* ends; "other": 200 and another status; "error": another status code or a
\* refused connection; "silent": no answer at all.
HealthyModes == {"ok", "garbled", "stalled"}

FailingModes == {"error", "silent"}

SlowModes == {"stalled", "silent"}

ASSUME MonitorAssumption ==
  /\ ConfigServices \subseteq Services
  /\ Housekeeper \notin Handlers
  /\ Modes \subseteq HealthyModes \cup FailingModes \cup {"other"}
  /\ ClientTimeout \in Nat \ {0}
  /\ ServiceTimeout \in Nat \ {0}
  /\ WriteTimeout \in Nat
  /\ Interval \in Nat \ {0}
  /\ SinceCap \in Nat

Tasks == Handlers \cup {Housekeeper}

VARIABLES mode,       \* environment: mode[s], how service s behaves now
          sinceOther, \* ghost: ticks since s last was of the other kind,
                      \* healthy or not
          statuses,   \* e.statuses: a partial function on Services
          task,       \* task[k]: the call goroutine k is in, and its age
          check,      \* check[k][s]: k's checkSingleService of s
          ticker      \* the housekeeping time.Ticker

vars == <<mode, sinceOther, statuses, task, check, ticker>>

Status == [healthy : BOOLEAN, age : Nat]

Call == [op : {"idle", "all", "one", "collected"}, age : Nat]

Check == [pc : {"off", "health", "config", "publish", "done"},
          wait : 0 .. ClientTimeout, healthy : BOOLEAN, failed : BOOLEAN]

TypeOK ==
  /\ mode \in [Services -> Modes]
  /\ sinceOther \in [Services -> 0 .. SinceCap]
  /\ statuses \in [DOMAIN statuses -> Status]
  /\ DOMAIN statuses \subseteq Services
  /\ task \in [Tasks -> Call]
  /\ check \in [Tasks -> [Services -> Check]]
  /\ ticker \in [elapsed : 0 .. Interval - 1, pending : BOOLEAN]

NoCheck == [pc |-> "off", wait |-> 0, healthy |-> FALSE, failed |-> FALSE]

NoCall == [op |-> "idle", age |-> 0]

Init ==
  /\ mode \in [Services -> Modes]
  /\ sinceOther = [s \in Services |-> SinceCap]
  /\ statuses = [s \in {} |-> [healthy |-> FALSE, age |-> 0]]
  /\ task = [k \in Tasks |-> NoCall]
  /\ check = [k \in Tasks |-> [s \in Services |-> NoCheck]]
  /\ ticker = [elapsed |-> 0, pending |-> FALSE]

Good(s) == mode[s] \in HealthyModes

\* Ticks since s last behaved as the verdict h says.
Since(s, h) == IF Good(s) = h THEN 0 ELSE sinceOther[s]

Waiting(c) == c.pc \in {"health", "config"}

-----------------------------------------------------------------------------

\* Check c, its verdict unchanged, after it moved on to pc.
MovedTo(c, pc) ==
  [pc |-> pc, wait |-> 0, healthy |-> c.healthy, failed |-> c.failed]

\* checkSingleService begins: LastCheck is now and the health request is out.
Started == MovedTo(NoCheck, "health")

\* Task k begins operation op with one check on each service of ss.
Begin(k, op, ss) ==
  /\ task[k].op = "idle"
  /\ task' = [task EXCEPT ![k] = [op |-> op, age |-> 0]]
  /\ check' = [check EXCEPT ![k] = [s \in Services |->
                                      IF s \in ss THEN Started ELSE NoCheck]]

\* GetEcosystemHealth calls CheckAllServices: a goroutine per service.
BeginAll(k) ==
  /\ Begin(k, "all", Services)
  /\ UNCHANGED <<mode, sinceOther, statuses, ticker>>

\* GetServiceStatus calls CheckService for one known service.
BeginOne(k, s) ==
  /\ Begin(k, "one", {s})
  /\ UNCHANGED <<mode, sinceOther, statuses, ticker>>

\* startHousekeeping receives a tick and runs CheckAllServices itself.
HousekeepingBegin ==
  /\ ticker.pending
  /\ Begin(Housekeeper, "all", Services)
  /\ ticker' = [ticker EXCEPT !.pending = FALSE]
  /\ UNCHANGED <<mode, sinceOther, statuses>>

\* What one Get of s has come to: an answer, or the client's timeout.
Answered(c, s) == mode[s] \in SlowModes => c.wait = ClientTimeout

\* Wrong variants of the definitions below, named Bad*, stand before them:
\* each is a slip the properties are there to notice.
BadHealthResultAny200(s) ==
  [pc |-> IF Good(s) /\ s \in ConfigServices THEN "config" ELSE "publish",
   wait |-> 0, healthy |-> mode[s] \notin FailingModes,
   failed |-> mode[s] \in FailingModes]

\* checkSingleService up to the optional config request, by what s does.
HealthResult(s) ==
  [pc |-> IF Good(s) /\ s \in ConfigServices THEN "config" ELSE "publish",
   wait |-> 0, healthy |-> Good(s), failed |-> mode[s] \in FailingModes]

HealthAnswer(k, s) ==
  /\ check[k][s].pc = "health"
  /\ Answered(check[k][s], s)
  /\ check' = [check EXCEPT ![k][s] = HealthResult(s)]
  /\ UNCHANGED <<mode, sinceOther, statuses, task, ticker>>

\* The config request ends, however it ends: the verdict stays as it is.
ConfigAnswer(k, s) ==
  /\ check[k][s].pc = "config"
  /\ Answered(check[k][s], s)
  /\ check' = [check EXCEPT ![k][s] = MovedTo(check[k][s], "publish")]
  /\ UNCHANGED <<mode, sinceOther, statuses, task, ticker>>

BadStoresNoFailure(k, s) == ~check[k][s].failed

\* CheckService returns an error without storing; CheckAllServices stores.
Stores(k, s) == task[k].op = "all" \/ ~check[k][s].failed

BadResultStampedLate(k, s) == [healthy |-> check[k][s].healthy, age |-> 0]

\* The status checkSingleService returns: LastCheck is when it began.
Result(k, s) == [healthy |-> check[k][s].healthy, age |-> task[k].age]

\* Under e.mutex, statuses[s] = status; the check's goroutine is then done.
Publish(k, s) ==
  /\ check[k][s].pc = "publish"
  /\ statuses' = IF Stores(k, s)
                 THEN [x \in DOMAIN statuses \cup {s} |->
                         IF x = s THEN Result(k, s) ELSE statuses[x]]
                 ELSE statuses
  /\ check' = [check EXCEPT ![k][s] = MovedTo(check[k][s], "done")]
  /\ UNCHANGED <<mode, sinceOther, task, ticker>>

BadCollectBeforeStore(k) ==
  /\ task[k].op = "all"
  /\ \A s \in Services : check[k][s].pc \in {"publish", "done"}
  /\ task' = [task EXCEPT ![k].op = "collected"]
  /\ UNCHANGED <<mode, sinceOther, statuses, check, ticker>>

BadCollectSkipsDone(k) ==
  /\ task[k].op = "all"
  /\ \A s \in Services : check[k][s].pc = "done" /\ ~check[k][s].failed
  /\ task' = [task EXCEPT ![k].op = "collected"]
  /\ UNCHANGED <<mode, sinceOther, statuses, check, ticker>>

\* wg.Wait returns: every check of the call has been stored.
Collect(k) ==
  /\ task[k].op = "all"
  /\ \A s \in Services : check[k][s].pc = "done"
  /\ task' = [task EXCEPT ![k].op = "collected"]
  /\ UNCHANGED <<mode, sinceOther, statuses, check, ticker>>

\* The call returns: a handler answers from a snapshot of statuses taken
\* now, runHousekeeping and CheckService just return.
Return(k) ==
  /\ \/ task[k].op = "collected"
     \/ task[k].op = "one" /\ \E s \in Services : check[k][s].pc = "done"
  /\ task' = [task EXCEPT ![k] = NoCall]
  /\ check' = [check EXCEPT ![k] = [s \in Services |-> NoCheck]]
  /\ UNCHANGED <<mode, sinceOther, statuses, ticker>>

\* A service starts to behave differently.
ChangeMode(s, m) ==
  /\ m # mode[s]
  /\ mode' = [mode EXCEPT ![s] = m]
  /\ sinceOther' = [sinceOther EXCEPT
                     ![s] = IF (m \in HealthyModes) = Good(s) THEN @ ELSE 0]
  /\ UNCHANGED <<statuses, task, check, ticker>>

BadSettledNoTimeout ==
  /\ ~(ticker.pending /\ task[Housekeeper].op = "idle")
  /\ \A k \in Tasks :
       /\ task[k].op # "collected"
       /\ task[k].op # "idle" => \E s \in Services : Waiting(check[k][s])
       /\ \A s \in Services : check[k][s].pc # "publish"

\* Nothing is left to do without waiting, and no Get is overdue.
Settled ==
  /\ ~(ticker.pending /\ task[Housekeeper].op = "idle")
  /\ \A k \in Tasks :
       /\ task[k].op # "collected"
       /\ task[k].op # "idle" => \E s \in Services : Waiting(check[k][s])
       /\ \A s \in Services :
            /\ check[k][s].pc # "publish"
            /\ Waiting(check[k][s]) => check[k][s].wait < ClientTimeout

\* The ticker's channel holds one tick; a tick that finds it full is dropped.
NextTicker ==
  IF ticker.elapsed + 1 = Interval
  THEN [elapsed |-> 0, pending |-> TRUE]
  ELSE [elapsed |-> ticker.elapsed + 1, pending |-> ticker.pending]

\* One tick later: a stored status, a call in progress, a Get in flight.
OlderStatus(st) == [healthy |-> st.healthy, age |-> st.age + 1]

OlderCall(t) == IF t.op = "idle" THEN t ELSE [op |-> t.op, age |-> t.age + 1]

OlderCheck(c) == IF Waiting(c) THEN [c EXCEPT !.wait = c.wait + 1] ELSE c

Tick ==
  /\ Settled
  /\ ticker' = NextTicker
  /\ sinceOther' = [s \in Services |->
                      IF sinceOther[s] = SinceCap THEN SinceCap
                      ELSE sinceOther[s] + 1]
  /\ statuses' = [s \in DOMAIN statuses |-> OlderStatus(statuses[s])]
  /\ task' = [k \in Tasks |-> OlderCall(task[k])]
  /\ check' = [k \in Tasks |-> [s \in Services |-> OlderCheck(check[k][s])]]
  /\ UNCHANGED mode

Steps(k, s) == HealthAnswer(k, s) \/ ConfigAnswer(k, s) \/ Publish(k, s)

Next ==
  \/ \E k \in Handlers : BeginAll(k)
  \/ \E k \in Handlers, s \in Services : BeginOne(k, s)
  \/ HousekeepingBegin
  \/ \E k \in Tasks, s \in Services :
       HealthAnswer(k, s) \/ ConfigAnswer(k, s) \/ Publish(k, s)
  \/ \E k \in Tasks : Collect(k) \/ Return(k)
  \/ \E s \in Services, m \in Modes : ChangeMode(s, m)
  \/ Tick

Spec == Init /\ [][Next]_vars

\* A goroutine that can run runs, a Get ends by the client's timeout, and
\* time goes on (strongly fair: no endless burst of calls fits in no time).
\* Nobody is obliged to call, and no service to change.
Fairness ==
  /\ SF_vars(Tick)
  /\ WF_vars(HousekeepingBegin)
  /\ \A k \in Tasks : WF_vars(Collect(k)) /\ WF_vars(Return(k))
  /\ \A k \in Tasks, s \in Services : WF_vars(Steps(k, s))

FairSpec == Spec /\ Fairness

-----------------------------------------------------------------------------

(***************************************************************************)
(* When CheckAllServices has returned, every service has a status, and     *)
(* none is older than the call by more than one check can take: an older,  *)
(* slower check of another caller may overwrite a newer one, but not with  *)
(* anything staler than two client timeouts (ecosystem_monitor.go 43-58,   *)
(* 85-87, 112).                                                            *)
(***************************************************************************)
CollectedIsRecent ==
  \A k \in Tasks :
    task[k].op = "collected" =>
      \A s \in Services :
        /\ s \in DOMAIN statuses
        /\ statuses[s].age <= task[k].age + 2 * ClientTimeout

(***************************************************************************)
(* A stored verdict, healthy or not, is backed by the service: at some     *)
(* moment since its LastCheck the service behaved in a way the monitor     *)
(* takes for that, although the verdict is stored long after it was formed *)
(* and possibly over a newer one (ecosystem_monitor.go 109-161).           *)
(***************************************************************************)
VerdictWasSeen ==
  \A s \in DOMAIN statuses :
    Since(s, statuses[s].healthy) <= statuses[s].age

\* GetEcosystemHealth's summary of a snapshot of the statuses.
HealthyCount == Cardinality({s \in DOMAIN statuses : statuses[s].healthy})

BadOverallStatusAnyHealthy ==
  IF HealthyCount > 0 THEN "healthy" ELSE "unhealthy"

OverallStatus ==
  IF HealthyCount = Cardinality(DOMAIN statuses) /\ DOMAIN statuses # {}
  THEN "healthy"
  ELSE IF HealthyCount > 0 THEN "degraded" ELSE "unhealthy"

(***************************************************************************)
(* If GetEcosystemHealth is about to answer "healthy", every service, not  *)
(* only those with a stored status, behaved healthily during the call or   *)
(* at most two client timeouts before it (handlers.go 189-218).            *)
(***************************************************************************)
HealthyAnswerJustified ==
  \A k \in Handlers :
    task[k].op = "collected" /\ OverallStatus = "healthy" =>
      \A s \in Services : Since(s, TRUE) <= task[k].age + 2 * ClientTimeout

\* The longest a housekeeping round can be followed by silence.
RoundGap ==
  IF Interval > 2 * ClientTimeout THEN Interval ELSE 2 * ClientTimeout

(***************************************************************************)
(* With housekeeping on, no stored status is ever older than one gap       *)
(* between rounds plus the length of two checks, also when a round takes   *)
(* longer than the interval and ticks are dropped, and whatever the        *)
(* handlers overwrite (main.go 156-176, ecosystem_monitor.go 34-61).       *)
(***************************************************************************)
StatusAgeBound ==
  \A s \in DOMAIN statuses :
    statuses[s].age <= RoundGap + 4 * ClientTimeout

(***************************************************************************)
(* A failure or recovery shows in bounded time: a service that has been    *)
(* healthy, or not, for longer than a status may live is reported so, if   *)
(* it is reported at all, whichever of several overlapping checks stored   *)
(* last (main.go 156-176, ecosystem_monitor.go 34-61, 109-161).            *)
(***************************************************************************)
AccurateInTime ==
  \A s \in DOMAIN statuses :
    sinceOther[s] > RoundGap + 4 * ClientTimeout
      => statuses[s].healthy = Good(s)

\* What the monitor promises: a board of recent, earned verdicts.
Board == INSTANCE StatusBoard WITH
  MaxDelay <- 2 * ClientTimeout,
  MaxAge <- RoundGap + 4 * ClientTimeout,
  up <- [s \in Services |-> Good(s)],
  board <- statuses

(***************************************************************************)
(* The monitor implements the status board: with callers, checks, late     *)
(* stores and the ticker put away, what is left are single writes of       *)
(* verdicts at most two client timeouts old and true of some moment since, *)
(* soon enough for no entry to outlive its bound (ecosystem_monitor.go).   *)
(***************************************************************************)
ImplementsBoard == Board!Spec

(***************************************************************************)
(* However many services stall, no call outlasts two client timeouts: the  *)
(* checks of a call run together, and each makes at most two requests      *)
(* (ecosystem_monitor.go 27, 42-60, 109-161).                              *)
(***************************************************************************)
CallBound ==
  \A k \in Tasks : task[k].op # "idle" => task[k].age <= 2 * ClientTimeout

Reported(s, h) == s \in DOMAIN statuses /\ statuses[s].healthy = h

(***************************************************************************)
(* A service that stops behaving healthily for good ends up reported       *)
(* unhealthy for good, and one that recovers for good ends up reported     *)
(* healthy, with nobody asking: housekeeping alone finds out (main.go      *)
(* 162-176, ecosystem_monitor.go 46-54).                                   *)
(***************************************************************************)
EventuallyAccurate ==
  \A s \in Services :
    /\ <>[]~Good(s) => <>[]Reported(s, FALSE)
    /\ <>[]Good(s) => <>[]Reported(s, TRUE)

(***************************************************************************)
(* Every call comes back, whatever the services do: wg.Wait is never left  *)
(* waiting for a check that cannot end (ecosystem_monitor.go 42-60).       *)
(***************************************************************************)
CallsReturn ==
  \A k \in Tasks : task[k].op # "idle" ~> task[k].op = "idle"

-----------------------------------------------------------------------------
\* What the README and a test of the repository say, and the code does not
\* do.

(***************************************************************************)
(* README.md 510, "Continue operating even if some services are            *)
(* unavailable": GetEcosystemHealth has its answer before the server's     *)
(* write deadline, which is set when the request is read and after which   *)
(* nothing reaches the client.  The deadline and the client's timeout are  *)
(* both the literal 30 seconds (api.go 109, ecosystem_monitor.go 27).      *)
(***************************************************************************)
AnswerInTime ==
  \A k \in Handlers : task[k].op = "collected" => task[k].age < WriteTimeout

(***************************************************************************)
(* ecosystem_monitor_test.go 520-537, a service with TimeoutSeconds: 1     *)
(* "Should timeout and return error": no health request outlasts the       *)
(* timeout configured for its service.                                     *)
(***************************************************************************)
ServiceTimeoutRespected ==
  \A k \in Tasks, s \in Services :
    check[k][s].pc = "health" => check[k][s].wait <= ServiceTimeout
=============================================================================
