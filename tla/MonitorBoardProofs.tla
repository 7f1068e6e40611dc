------------------------- MODULE MonitorBoardProofs -------------------------
(***************************************************************************)
(* How old things get in the monitor: calls, and with housekeeping on the  *)
(* stored statuses, also when rounds outlast the interval.  With that the  *)
(* monitor implements the status board, for every value of the constants.  *)
(***************************************************************************)
EXTENDS EcosystemMonitorProofs

\* No call lasts longer than two client timeouts.
CallInv == \A k \in Tasks : task[k].age <= 2 * ClientTimeout

Resting == task[Housekeeper].op = "idle"

\* A round with no tick waiting began after the latest tick.
RoundInv ==
  /\ task[Housekeeper].op # "one"
  /\ ~Resting /\ ~ticker.pending => task[Housekeeper].age <= ticker.elapsed

\* The age a status may have when the next round begins.
BeginAge == IF ticker.pending THEN RoundGap ELSE ticker.elapsed

\* Between rounds statuses age with the ticker, in a round with the round
\* until its check replaces them (from then on StoredInv bounds them).
AgeInv ==
  \A s \in DOMAIN statuses :
    /\ Resting => statuses[s].age <= 2 * ClientTimeout + BeginAge
    /\ ~Resting /\ check[Housekeeper][s].pc # "done" =>
         statuses[s].age <= RoundGap + 2 * ClientTimeout + task[Housekeeper].age

BoardInv == MonitorInv /\ CallInv /\ RoundInv /\ AgeInv

LEMMA GapFacts ==
  /\ RoundGap \in Nat
  /\ Interval <= RoundGap
  /\ 2 * ClientTimeout <= RoundGap
BY MonitorAssumption DEF RoundGap

LEMMA HousekeeperIsTask == Housekeeper \in Tasks
BY DEF Tasks

\* The types the arithmetic below needs.
LEMMA TimeTypes ==
  ASSUME TypeOK
  PROVE  /\ \A k \in Tasks : task[k] \in Call /\ task[k].age \in Nat
         /\ \A s \in DOMAIN statuses : s \in Services /\ statuses[s].age \in Nat
         /\ ticker.elapsed \in 0 .. Interval - 1
         /\ ticker.pending \in BOOLEAN
         /\ ClientTimeout \in Nat /\ Interval \in Nat
BY MonitorAssumption DEF TypeOK, Call, Status

LEMMA BoardInitial == Init => BoardInv
<1> SUFFICES ASSUME Init PROVE BoardInv
  OBVIOUS
<1>1. MonitorInv
  BY MonitorInitial
<1>2. CallInv /\ RoundInv
  BY HousekeeperIsTask, MonitorAssumption
     DEF Init, CallInv, RoundInv, Resting, NoCall
<1>3. AgeInv
  BY DEF Init, AgeInv
<1> QED
  BY <1>1, <1>2, <1>3 DEF BoardInv

\* A call in which nothing but its checks happens grows old with them.
LEMMA CallStep == BoardInv /\ [Next]_vars => CallInv'
<1> SUFFICES ASSUME BoardInv, [Next]_vars, NEW k \in Tasks
             PROVE  task'[k].age <= 2 * ClientTimeout
  BY DEF CallInv
<1> USE DEF BoardInv, MonitorInv
<1>1. task[k] \in Call /\ task[k].age \in Nat /\ task[k].age <= 2 * ClientTimeout
  BY TimeTypes DEF CallInv
<1>2. CASE Tick
  <2>1. CASE task[k].op = "idle"
    BY <1>1, <1>2, <2>1 DEF Tick, OlderCall
  <2>2. CASE task[k].op # "idle"
    <3>1. PICK s \in Services : Waiting(check[k][s])
      BY <1>2, <2>2 DEF Tick, Settled
    <3>2. check[k][s].wait < ClientTimeout /\ check[k][s].wait \in Nat
      BY <1>2, <3>1 DEF Tick, Settled, TypeOK, Check
    <3>3. task[k].age <= ClientTimeout + check[k][s].wait
      BY <1>1, <3>1, <3>2, MonitorAssumption DEF FlightInv, Waiting
    <3>4. task'[k].age = task[k].age + 1
      BY <1>2, <2>2 DEF Tick, OlderCall
    <3> QED
      BY <1>1, <3>2, <3>3, <3>4, MonitorAssumption
  <2> QED
    BY <2>1, <2>2
<1>3. CASE \E q \in Tasks, op \in {"all", "one"}, ss \in SUBSET Services : Begin(q, op, ss)
  <2>1. task'[k].age = 0 \/ task'[k] = task[k]
    BY <1>3 DEF Begin, TypeOK
  <2> QED
    BY <1>1, <2>1, MonitorAssumption
<1>4. CASE \E q \in Tasks : Collect(q) \/ Return(q)
  <2>1. task'[k].age \in {0, task[k].age}
    BY <1>4 DEF Collect, Return, NoCall, TypeOK, Call
  <2> QED
    BY <1>1, <2>1, MonitorAssumption
<1>5. CASE UNCHANGED task
  BY <1>1, <1>5
<1>6. \/ Tick
      \/ \E q \in Tasks, op \in {"all", "one"}, ss \in SUBSET Services : Begin(q, op, ss)
      \/ \E q \in Tasks : Collect(q) \/ Return(q)
      \/ UNCHANGED task
  BY DEF Next, vars, BeginAll, BeginOne, HousekeepingBegin, Tasks,
         HealthAnswer, ConfigAnswer, Publish, ChangeMode
<1> QED
  BY <1>2, <1>3, <1>4, <1>5, <1>6

\* What a step of another caller, or of a service, leaves alone.
LEMMA OthersStep ==
  ASSUME BoardInv, UNCHANGED <<statuses, ticker>>,
         Resting' = Resting, task'[Housekeeper].op # "one",
         task'[Housekeeper].age = task[Housekeeper].age,
         \A s \in Services : check[Housekeeper][s].pc = "done" =>
           check'[Housekeeper][s].pc = "done"
  PROVE  RoundInv' /\ AgeInv'
<1>1. RoundInv'
  BY DEF BoardInv, RoundInv
<1>2. BeginAge' = BeginAge /\ RoundGap' = RoundGap
  BY DEF BeginAge, RoundGap
<1>3. \A s \in DOMAIN statuses : s \in Services
  BY DEF BoardInv, MonitorInv, TypeOK
<1>4. AgeInv'
  BY <1>2, <1>3 DEF BoardInv, AgeInv
<1> QED
  BY <1>1, <1>4

LEMMA HousekeepingBeginStep ==
  ASSUME BoardInv, HousekeepingBegin
  PROVE  RoundInv' /\ AgeInv'
<1> USE DEF BoardInv, MonitorInv
<1>1. /\ task'[Housekeeper].op = "all" /\ task'[Housekeeper].age = 0
      /\ Resting /\ ticker.pending /\ statuses' = statuses
      /\ ticker'.elapsed = ticker.elapsed
  BY HousekeeperIsTask DEF HousekeepingBegin, Begin, TypeOK, Resting
<1>2. RoundInv'
  BY <1>1, TimeTypes DEF RoundInv
<1>3. AgeInv'
  BY <1>1, GapFacts, TimeTypes DEF AgeInv, BeginAge, Resting
<1> QED
  BY <1>2, <1>3

LEMMA PublishBoard ==
  ASSUME BoardInv, NEW k \in Tasks, NEW s \in Services, Publish(k, s)
  PROVE  RoundInv' /\ AgeInv'
<1> USE DEF BoardInv, MonitorInv
<1>1. /\ task' = task /\ ticker' = ticker
      /\ \A x \in Services : check[Housekeeper][x].pc = "done" =>
           check'[Housekeeper][x].pc = "done"
      /\ \A x \in DOMAIN statuses' :
           \/ x \in DOMAIN statuses /\ statuses'[x] = statuses[x]
           \/ statuses'[x].age = task[k].age
  BY HousekeeperIsTask DEF Publish, Result, TypeOK, MovedTo
<1>2. RoundInv'
  BY <1>1 DEF RoundInv, Resting
<1>3. /\ task[k].age \in Nat /\ task[k].age <= 2 * ClientTimeout
      /\ task[Housekeeper].age \in Nat /\ ticker.elapsed \in Nat
      /\ ClientTimeout \in Nat
  BY TimeTypes, HousekeeperIsTask DEF CallInv
<1>4. BeginAge \in Nat /\ BeginAge' = BeginAge /\ Resting' = Resting
  BY <1>1, <1>3, GapFacts DEF BeginAge, Resting
<1>5. AgeInv'
  <2> SUFFICES ASSUME NEW x \in DOMAIN statuses'
               PROVE  /\ Resting => statuses'[x].age <= 2 * ClientTimeout + BeginAge
                      /\ ~Resting /\ check'[Housekeeper][x].pc # "done" =>
                           statuses'[x].age <= RoundGap + 2 * ClientTimeout
                                                 + task[Housekeeper].age
    BY <1>1, <1>4 DEF AgeInv
  <2>1. CASE statuses'[x].age = task[k].age
    BY <1>3, <1>4, <2>1, GapFacts
  <2>2. CASE x \in DOMAIN statuses /\ statuses'[x] = statuses[x]
    BY <1>1, <2>2, TimeTypes DEF AgeInv
  <2> QED
    BY <1>1, <2>1, <2>2
<1> QED
  BY <1>2, <1>5

\* The end of a round: what it stored is no older than the ticker says.
LEMMA RoundEnds ==
  ASSUME BoardInv, Return(Housekeeper)
  PROVE  RoundInv' /\ AgeInv'
<1> USE DEF BoardInv, MonitorInv
<1>1. /\ task'[Housekeeper].op = "idle"
      /\ task[Housekeeper].op = "collected"
      /\ UNCHANGED <<statuses, ticker>>
  BY HousekeeperIsTask DEF Return, NoCall, TypeOK, RoundInv
<1>2. RoundInv'
  BY <1>1 DEF RoundInv, Resting
<1>3. ASSUME NEW s \in DOMAIN statuses
      PROVE  statuses[s].age <= 2 * ClientTimeout + BeginAge
  <2>1. statuses[s].age <= task[Housekeeper].age + 2 * ClientTimeout
    BY <1>1, HousekeeperIsTask, TimeTypes DEF StoredInv, Recent
  <2>2. task[Housekeeper].age <= BeginAge
    BY <1>1, GapFacts, HousekeeperIsTask, TimeTypes
       DEF CallInv, RoundInv, Resting, BeginAge
  <2>3. BeginAge \in Nat
    BY GapFacts, TimeTypes DEF BeginAge
  <2> QED
    BY <2>1, <2>2, <2>3, TimeTypes, HousekeeperIsTask
<1>4. AgeInv'
  BY <1>1, <1>3 DEF AgeInv, Resting, BeginAge, RoundGap
<1> QED
  BY <1>2, <1>4

LEMMA TickBoard ==
  ASSUME BoardInv, Tick
  PROVE  RoundInv' /\ AgeInv'
<1> USE DEF BoardInv, MonitorInv
<1>1. /\ task[Housekeeper] \in Call
      /\ task'[Housekeeper] = OlderCall(task[Housekeeper])
      /\ ~(ticker.pending /\ Resting)
      /\ ticker' = NextTicker
  BY HousekeeperIsTask DEF Tick, Settled, Resting, TypeOK
<1>2. /\ task'[Housekeeper].op = task[Housekeeper].op
      /\ ~Resting => task'[Housekeeper].age = task[Housekeeper].age + 1
  BY <1>1 DEF OlderCall, Resting, Call
<1>3. \/ ticker'.pending /\ ticker.elapsed + 1 = Interval
      \/ ticker'.elapsed = ticker.elapsed + 1 /\ ticker'.pending = ticker.pending
  BY <1>1 DEF NextTicker
<1>4. /\ DOMAIN statuses' = DOMAIN statuses
      /\ \A s \in DOMAIN statuses : statuses'[s].age = statuses[s].age + 1
  BY DEF Tick, OlderStatus
<1>5. \A s \in DOMAIN statuses :
        check'[Housekeeper][s].pc # "done" => check[Housekeeper][s].pc # "done"
  <2>1. \A s \in Services :
          check'[Housekeeper][s] = OlderCheck(check[Housekeeper][s])
    BY HousekeeperIsTask DEF Tick
  <2>2. \A s \in Services : check[Housekeeper][s].pc = "done" =>
          check'[Housekeeper][s] = check[Housekeeper][s]
    BY <2>1 DEF OlderCheck, Waiting
  <2> QED
    BY <2>2 DEF TypeOK
<1>6. RoundInv'
  BY <1>2, <1>3, TimeTypes, HousekeeperIsTask DEF RoundInv, Resting
<1>7. RoundGap' = RoundGap
  BY DEF RoundGap
<1>8. /\ Resting' = Resting
      /\ BeginAge \in Nat /\ BeginAge' \in Nat
      /\ Resting => BeginAge + 1 <= BeginAge'
  BY <1>1, <1>2, <1>3, <1>7, GapFacts, TimeTypes DEF Resting, BeginAge
<1>9. AgeInv'
  BY <1>2, <1>4, <1>5, <1>7, <1>8, GapFacts, TimeTypes, HousekeeperIsTask
     DEF AgeInv, Resting
<1> QED
  BY <1>6, <1>9

LEMMA BoardStep == BoardInv /\ [Next]_vars => BoardInv'
<1> SUFFICES ASSUME BoardInv, [Next]_vars PROVE BoardInv'
  OBVIOUS
<1> SUFFICES RoundInv' /\ AgeInv'
  BY MonitorStep, CallStep DEF BoardInv
<1>1. TypeOK /\ RoundInv
  BY DEF BoardInv, MonitorInv
<1>2. ASSUME NEW k \in Handlers, NEW op \in {"all", "one"},
             NEW ss \in SUBSET Services, Begin(k, op, ss),
             UNCHANGED <<statuses, ticker>>
      PROVE  RoundInv' /\ AgeInv'
  <2>1. task'[Housekeeper] = task[Housekeeper]
        /\ check'[Housekeeper] = check[Housekeeper]
    BY <1>1, <1>2, HousekeeperIsTask, MonitorAssumption DEF Begin, TypeOK, Tasks
  <2> QED
    BY <1>1, <1>2, <2>1, OthersStep DEF RoundInv, Resting
<1>3. CASE \E k \in Handlers : BeginAll(k) \/ \E s \in Services : BeginOne(k, s)
  <2>1. Services \in SUBSET Services /\ \A s \in Services : {s} \in SUBSET Services
    OBVIOUS
  <2> QED
    BY <1>2, <1>3, <2>1 DEF BeginAll, BeginOne
<1>4. ASSUME NEW k \in Tasks, NEW s \in Services,
             HealthAnswer(k, s) \/ ConfigAnswer(k, s)
      PROVE  RoundInv' /\ AgeInv'
  <2>1. \A x \in Services : check[Housekeeper][x].pc = "done" =>
          check'[Housekeeper][x].pc = "done"
    BY <1>1, <1>4, HousekeeperIsTask DEF HealthAnswer, ConfigAnswer, TypeOK
  <2> QED
    BY <1>1, <1>4, <2>1, OthersStep DEF HealthAnswer, ConfigAnswer, RoundInv, Resting
<1>5. ASSUME NEW k \in Tasks, Collect(k)
      PROVE  RoundInv' /\ AgeInv'
  <2>1. /\ task'[Housekeeper].age = task[Housekeeper].age
        /\ task'[Housekeeper].op # "one"
        /\ Resting' = Resting
    BY <1>1, <1>5, HousekeeperIsTask DEF Collect, TypeOK, Call, Resting, RoundInv
  <2> QED
    BY <1>5, <2>1, OthersStep DEF Collect
<1>6. ASSUME NEW k \in Tasks, k # Housekeeper, Return(k)
      PROVE  RoundInv' /\ AgeInv'
  <2>1. task'[Housekeeper] = task[Housekeeper]
        /\ check'[Housekeeper] = check[Housekeeper]
    BY <1>1, <1>6, HousekeeperIsTask DEF Return, TypeOK
  <2> QED
    BY <1>1, <1>6, <2>1, OthersStep DEF Return, RoundInv, Resting
<1>7. ASSUME NEW s \in Services, NEW m \in Modes, ChangeMode(s, m)
      PROVE  RoundInv' /\ AgeInv'
  BY <1>1, <1>7, OthersStep DEF ChangeMode, RoundInv, Resting
<1>8. CASE UNCHANGED vars
  BY <1>1, <1>8, OthersStep DEF vars, RoundInv, Resting
<1> QED
  BY <1>3, <1>4, <1>5, <1>6, <1>7, <1>8, HousekeepingBeginStep,
     PublishBoard, RoundEnds, TickBoard DEF Next

-----------------------------------------------------------------------------

LEMMA AgesBounded == BoardInv => StatusAgeBound
<1> SUFFICES ASSUME BoardInv, NEW s \in DOMAIN statuses
             PROVE  statuses[s].age <= RoundGap + 4 * ClientTimeout
  BY DEF StatusAgeBound
<1> USE DEF BoardInv, MonitorInv
<1>1. /\ statuses[s].age \in Nat /\ task[Housekeeper].age \in Nat
      /\ task[Housekeeper].age <= 2 * ClientTimeout
      /\ s \in Services
  BY TimeTypes, HousekeeperIsTask DEF CallInv
<1>2. CASE Resting
  <2>1. BeginAge <= RoundGap
    BY GapFacts, TimeTypes DEF BeginAge
  <2>2. statuses[s].age <= 2 * ClientTimeout + BeginAge
    BY <1>2 DEF AgeInv
  <2>3. BeginAge \in Nat
    BY GapFacts, TimeTypes DEF BeginAge
  <2> QED
    BY <1>1, <2>1, <2>2, <2>3, GapFacts, TimeTypes
<1>3. CASE ~Resting /\ check[Housekeeper][s].pc # "done"
  BY <1>1, <1>3, GapFacts, TimeTypes DEF AgeInv
<1>4. CASE ~Resting /\ check[Housekeeper][s].pc = "done"
  <2>1. task[Housekeeper].op \in {"all", "collected"}
    BY <1>4, HousekeeperIsTask DEF Resting, RoundInv, TypeOK, Call
  <2>2. statuses[s].age <= task[Housekeeper].age + 2 * ClientTimeout
    BY <1>1, <1>4, <2>1, HousekeeperIsTask DEF StoredInv, Recent
  <2> QED
    BY <1>1, <2>2, GapFacts, TimeTypes
<1> QED
  BY <1>2, <1>3, <1>4

(***************************************************************************)
(* With housekeeping on, no stored status is ever older than one gap       *)
(* between rounds and the length of two checks, for every interval and     *)
(* timeout, whatever the handlers overwrite (main.go 156-176,              *)
(* ecosystem_monitor.go 34-61).                                            *)
(***************************************************************************)
THEOREM MonitorStatusAgeBound == Spec => []StatusAgeBound
BY AgesBounded, BoardInitial, BoardStep, PTL DEF Spec

(***************************************************************************)
(* Failures and recoveries show within the same bound, for every interval, *)
(* timeout and number of callers: a verdict that the service has outlived  *)
(* for that long would be on a status too old, or was never true           *)
(* (main.go 156-176, ecosystem_monitor.go 34-61, 109-161).                 *)
(***************************************************************************)
THEOREM MonitorAccurateInTime == Spec => []AccurateInTime
<1>1. BoardInv => AccurateInTime
  <2> SUFFICES ASSUME BoardInv, NEW s \in DOMAIN statuses,
                      sinceOther[s] > RoundGap + 4 * ClientTimeout,
                      statuses[s].healthy # Good(s)
               PROVE  FALSE
    BY DEF AccurateInTime
  <2>1. Since(s, statuses[s].healthy) <= statuses[s].age
    BY DEF BoardInv, MonitorInv, SeenInv, VerdictWasSeen
  <2>2. Since(s, statuses[s].healthy) = sinceOther[s]
    BY DEF Since
  <2>3. statuses[s].age <= RoundGap + 4 * ClientTimeout
    BY AgesBounded DEF StatusAgeBound
  <2>4. sinceOther[s] \in Nat /\ statuses[s].age \in Nat
    BY TimeTypes DEF BoardInv, MonitorInv, TypeOK
  <2> QED
    BY <2>1, <2>2, <2>3, <2>4, GapFacts, MonitorAssumption
<1> QED
  BY <1>1, BoardInitial, BoardStep, PTL DEF Spec

(***************************************************************************)
(* No call of either kind, by a handler or by housekeeping, takes longer   *)
(* than two client timeouts, for every number of services and callers and  *)
(* whatever the services do (ecosystem_monitor.go 27, 42-60, 109-161).     *)
(***************************************************************************)
THEOREM MonitorCallBound == Spec => []CallBound
<1>1. BoardInv => CallBound
  BY TimeTypes DEF BoardInv, MonitorInv, CallInv, CallBound
<1> QED
  BY <1>1, BoardInitial, BoardStep, PTL DEF Spec

-----------------------------------------------------------------------------

\* The verdict the board shows for s to be up or down.
Up == [s \in Services |-> Good(s)]

LEMMA BoardInitialImplements == Init => Board!Init
<1> SUFFICES ASSUME Init PROVE Board!Init
  OBVIOUS
<1>1. Up \in [Services -> BOOLEAN]
  BY DEF Up, Good
<1>2. DOMAIN statuses = {}
  BY DEF Init
<1> QED
  BY <1>1, <1>2 DEF Board!Init, Init, Up

\* Storing a result posts a status.
LEMMA PublishPosts ==
  ASSUME BoardInv, NEW k \in Tasks, NEW s \in Services, Publish(k, s)
  PROVE  Board!Post(s) \/ UNCHANGED Board!boardVars
<1> USE DEF BoardInv, MonitorInv
<1>1. UNCHANGED <<mode, sinceOther>>
  BY DEF Publish
<1>2. UNCHANGED Up
  BY <1>1 DEF Up, Good
<1>3. CASE ~Stores(k, s)
  BY <1>1, <1>2, <1>3 DEF Publish, Board!boardVars, Up
<1>4. CASE Stores(k, s)
  <2> DEFINE a == task[k].age
             h == check[k][s].healthy
  <2>1. /\ a \in 0 .. 2 * ClientTimeout
        /\ h \in BOOLEAN
    BY TimeTypes DEF CallInv, TypeOK, Check
  <2>2. Since(s, h) <= a
    BY DEF Publish, SeenInv, Judged
  <2>3. Up[s] = h \/ sinceOther[s] <= a
    BY <2>2 DEF Since, Up
  <2>4. statuses' = [x \in DOMAIN statuses \cup {s} |->
                       IF x = s THEN [healthy |-> h, age |-> a] ELSE statuses[x]]
    BY <1>4 DEF Publish, Result
  <2> HIDE DEF a, h
  <2> QED
    BY <1>1, <1>2, <2>1, <2>3, <2>4 DEF Board!Post, Board!Was, Up
<1> QED
  BY <1>3, <1>4

\* A service that changes its mode turns, or stays what it is to the monitor.
LEMMA ChangeModeTurns ==
  ASSUME TypeOK, NEW s \in Services, NEW m \in Modes, ChangeMode(s, m)
  PROVE  Board!Turn(s) \/ UNCHANGED Board!boardVars
<1>1. /\ statuses' = statuses
      /\ mode'[s] = m
      /\ \A x \in Services : x # s => mode'[x] = mode[x]
  BY DEF ChangeMode, TypeOK
<1>2. Up' = [Up EXCEPT ![s] = m \in HealthyModes]
  BY <1>1 DEF Up, Good
<1>3. CASE (m \in HealthyModes) = Good(s)
  <2>1. UNCHANGED <<Up, sinceOther>>
    BY <1>2, <1>3 DEF ChangeMode, Up, Good, TypeOK
  <2> QED
    BY <1>1, <2>1 DEF Board!boardVars, Up
<1>4. CASE (m \in HealthyModes) # Good(s)
  <2>1. Up' = [Up EXCEPT ![s] = ~Up[s]]
    <3>1. (m \in HealthyModes) = ~Good(s)
      BY <1>4 DEF Good
    <3>2. Up[s] = Good(s)
      BY DEF Up
    <3> QED
      BY <1>2, <3>1, <3>2
  <2>2. sinceOther' = [sinceOther EXCEPT ![s] = 0]
    BY <1>4 DEF ChangeMode
  <2> QED
    BY <1>1, <2>1, <2>2 DEF Board!Turn, Up
<1> QED
  BY <1>3, <1>4

\* Time passes on the board, which has nothing too old on it.
LEMMA TickTicks ==
  ASSUME BoardInv, BoardInv', Tick
  PROVE  Board!Tick
<1> USE DEF BoardInv, MonitorInv
<1>1. \A s \in DOMAIN statuses : statuses[s].age < RoundGap + 4 * ClientTimeout
  <2>1. StatusAgeBound'
    BY AgesBounded, PTL
  <2>2. /\ DOMAIN statuses' = DOMAIN statuses
        /\ \A s \in DOMAIN statuses : statuses'[s].age = statuses[s].age + 1
    BY DEF Tick, OlderStatus
  <2>3. RoundGap' = RoundGap
    BY DEF RoundGap
  <2> QED
    BY <2>1, <2>2, <2>3, GapFacts, TimeTypes DEF StatusAgeBound
<1>2. UNCHANGED Up
  BY DEF Tick, Up, Good
<1> QED
  BY <1>1, <1>2 DEF Board!Tick, Tick, OlderStatus, Up

(***************************************************************************)
(* The monitor implements the status board for every value of the          *)
(* constants: every step posts one recent, earned status, lets time pass   *)
(* while nothing on the board is too old, is a service's own, or changes   *)
(* nothing a reader of the statuses could see (ecosystem_monitor.go).      *)
(***************************************************************************)
THEOREM MonitorImplementsBoard == Spec => ImplementsBoard
<1>1. BoardInv /\ BoardInv' /\ [Next]_vars => [Board!Next]_Board!boardVars
  <2> SUFFICES ASSUME BoardInv, BoardInv', [Next]_vars
               PROVE  Board!Next \/ UNCHANGED Board!boardVars
    OBVIOUS
  <2>1. CASE Tick
    BY <2>1, TickTicks DEF Board!Next
  <2>2. CASE \E k \in Tasks, s \in Services : Publish(k, s)
    BY <2>2, PublishPosts DEF Board!Next
  <2>3. CASE \E s \in Services, m \in Modes : ChangeMode(s, m)
    BY <2>3, ChangeModeTurns DEF Board!Next, BoardInv, MonitorInv
  <2>4. CASE UNCHANGED <<mode, sinceOther, statuses>>
    BY <2>4 DEF Board!boardVars, Good
  <2> QED
    BY <2>1, <2>2, <2>3, <2>4
       DEF Next, vars, BeginAll, BeginOne, HousekeepingBegin, HealthAnswer,
           ConfigAnswer, Collect, Return
<1> QED
  BY <1>1, BoardInitialImplements, BoardInitial, BoardStep, PTL
     DEF Spec, ImplementsBoard, Board!Spec
=============================================================================
