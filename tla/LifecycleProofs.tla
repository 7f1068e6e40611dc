-------------------------- MODULE LifecycleProofs ---------------------------
(***************************************************************************)
(* A stop drains the API before it takes down what handlers use, and ends  *)
(* in time, for every number of requests and every length of its waits.    *)
(***************************************************************************)
EXTENDS Lifecycle, TLAPS

\* What the starting process has not got to yet.
StartedLate ==
  /\ main \in Starting \ {"launched"} => serve = "none"
  /\ main \in {"boot", "loaded", "observed", "assembled"} => keeper = "none"
  /\ main \in {"boot", "loaded", "observed"} => database # "closed"
  /\ main \in {"boot", "loaded"} => provider = [p \in Providers |-> "off"]

\* Requests run only once Serve has got to serving.
ServedFirst ==
  serve \in {"none", "started", "assigned", "listening"} => NobodyRuns

\* A Stop that found the server keeps it from taking new requests.
ShutStays ==
  main \in {"draining", "stopped", "cleared", "closed"} /\ ~missed
    => shut /\ serve # "serving"

\* Once it goes on, nothing runs unless it gave up waiting.
DrainedBefore ==
  main \in {"stopped", "cleared", "closed"} /\ ~GivenUp => NobodyRuns

TakenDownLate ==
  /\ database = "closed" => main \in {"closed"} \cup Ended
  /\ \A p \in Providers :
       provider[p] \in {"flushing", "stopped"} => main \in {"closed"} \cup Ended

EndedIsEnd == main \in Ended => NobodyRuns

\* Only main's configuration keeps the housekeeping goroutine from ticking.
KeeperInv == keeper = "started" => "housekeeping" \in conf

CutAtEnd ==
  \A r \in Requests :
    request[r] = "cut" =>
      main \in Ended /\ (GivenUp \/ main = "killed" \/ NoInterval)

\* The inductive invariant: none of the properties is inductive, since what
\* ends the process or takes a part down relies on what Stop did before.
IInv ==
  /\ TypeOK
  /\ StartedLate
  /\ ServedFirst
  /\ ShutStays
  /\ DrainedBefore
  /\ TakenDownLate
  /\ EndedIsEnd
  /\ KeeperInv
  /\ CutAtEnd

LEMMA InitIInv == Init => IInv
<1> SUFFICES ASSUME Init
             PROVE  IInv
  OBVIOUS
<1>1. TypeOK
  <2>1. drainAge \in 0 .. Grace /\ flushAge \in 0 .. FlushTimeout /\ stopAge \in Nat
    BY LifecycleAssumption DEF Init
  <2>2. main \in Starting /\ serve = "none" /\ keeper = "none"
    BY DEF Init, Starting
  <2>3. conf \in SUBSET Options /\ database = "absent"
    BY DEF Init
  <2>4. provider \in [Providers -> {"off", "running", "flushing", "stopped"}]
    BY DEF Init
  <2>5. request \in [Requests -> {"none", "running", "cut"}]
    BY DEF Init
  <2> QED
    BY <2>1, <2>2, <2>3, <2>4, <2>5, Zenon DEF Init, TypeOK
<1>2. StartedLate /\ ServedFirst /\ EndedIsEnd /\ CutAtEnd /\ KeeperInv
  BY DEF Init, StartedLate, ServedFirst, EndedIsEnd, CutAtEnd, KeeperInv,
         NobodyRuns
<1>3. ShutStays /\ DrainedBefore /\ TakenDownLate
  BY DEF Init, ShutStays, DrainedBefore, TakenDownLate
<1> QED
  BY <1>1, <1>2, <1>3 DEF IInv

LEMMA NextIInv == IInv /\ [Next]_vars => IInv'
<1> SUFFICES ASSUME IInv, [Next]_vars
             PROVE  IInv'
  OBVIOUS
<1> USE DEF IInv, TypeOK, StartedLate, ServedFirst, ShutStays, DrainedBefore,
            TakenDownLate, EndedIsEnd, KeeperInv, CutAtEnd, NobodyRuns,
            GivenUp, NoInterval, Starting, Ended, stopVars, partVars
<1>1. CASE Inform \/ LoadConfig
  BY <1>1 DEF Inform, LoadConfig
<1>2. CASE InitOtelProvider
  BY <1>2 DEF InitOtelProvider
<1>3. CASE NewServices
  BY <1>3 DEF NewServices
<1>4. CASE StartHousekeeping
  BY <1>4 DEF StartHousekeeping
<1>5. CASE Launch
  BY <1>5 DEF Launch
<1>6. CASE Notify
  BY <1>6 DEF Notify
<1>7. CASE Receive
  BY <1>7 DEF Receive
<1>8. CASE Look
  BY <1>8 DEF Look
<1>9. CASE Drained
  BY <1>9 DEF Drained
<1>10. CASE Expired
  BY <1>10 DEF Expired
<1>11. CASE Clear
  BY <1>11 DEF Clear
<1>12. CASE CloseDatabase
  BY <1>12 DEF CloseDatabase
<1>13. ASSUME NEW p \in Providers, Flush(p)
       PROVE  IInv'
  BY <1>13, LifecycleAssumption DEF Flush
<1>14. ASSUME NEW p \in Providers, CollectorAnswers(p) \/ FlushExpired(p)
       PROVE  IInv'
  BY <1>14 DEF CollectorAnswers, FlushExpired, Flushed, Alive
<1>15. CASE Exit
  BY <1>15 DEF Exit, End
<1>16. CASE Assign
  BY <1>16 DEF Assign, Alive
<1>17. CASE Call
  BY <1>17 DEF Call, End, Alive
<1>18. CASE Listen
  BY <1>18 DEF Listen, Alive
<1>19. CASE NewTicker
  BY <1>19 DEF NewTicker, End, Alive
<1>20. ASSUME NEW r \in Requests, Accept(r)
       PROVE  IInv'
  BY <1>20 DEF Accept, Alive
<1>21. ASSUME NEW r \in Requests, Answer(r)
       PROVE  IInv'
  BY <1>21 DEF Answer, Alive
<1>22. CASE Signal
  <2>1. CASE main \in Starting
    BY <1>22, <2>1 DEF Signal, End, Alive
  <2>2. CASE main \notin Starting
    BY <1>22, <2>2 DEF Signal, Alive
  <2> QED
    BY <2>1, <2>2
<1>23. CASE Reload
  BY <1>23 DEF Reload, End, Alive
<1>24. CASE Tick
  BY <1>24, LifecycleAssumption DEF Tick
<1>25. CASE UNCHANGED vars
  BY <1>25 DEF vars
<1> QED
  BY <1>1, <1>2, <1>3, <1>4, <1>5, <1>6, <1>7, <1>8, <1>9, <1>10, <1>11,
     <1>12, <1>13, <1>14, <1>15, <1>16, <1>17, <1>18, <1>19, <1>20, <1>21,
     <1>22, <1>23, <1>24, <1>25
     DEF Next, MainStep, ServeStep

LEMMA Inductive == Spec => []IInv
BY InitIInv, NextIInv, PTL DEF Spec

\* The life cycle's state is well formed from start to end (main.go 80-154).
THEOREM LifecycleTypeOK == Spec => []TypeOK
<1>1. IInv => TypeOK
  BY DEF IInv
<1> QED
  BY <1>1, Inductive, PTL

(***************************************************************************)
(* The end of the process cuts a request off only after the whole grace    *)
(* period, a missed server, an unhandled signal or a housekeeping interval *)
(* that makes the ticker panic (main.go 93-109 and 157, api.go 105-133).   *)
(***************************************************************************)
THEOREM LifecycleCutOnlyAfterGrace == Spec => []CutOnlyAfterGrace
<1>1. IInv => CutOnlyAfterGrace
  BY DEF IInv, CutAtEnd, CutOnlyAfterGrace
<1> QED
  BY <1>1, Inductive, PTL

(***************************************************************************)
(* Neither the database service is closed nor telemetry shut down under a  *)
(* running handler that Stop had not given up (main.go 65-70, 144-150).    *)
(***************************************************************************)
THEOREM LifecyclePartsOutliveRequests == Spec => []PartsOutliveRequests
<1>1. IInv => PartsOutliveRequests
  BY DEF IInv, TypeOK, TakenDownLate, EndedIsEnd, DrainedBefore, NobodyRuns,
         PartsOutliveRequests
<1> QED
  BY <1>1, Inductive, PTL

-----------------------------------------------------------------------------

\* The time provider p has cost, at most, until now.
Spent(p) ==
  IF provider[p] = "stopped" THEN FlushTimeout
  ELSE IF provider[p] = "flushing" THEN flushAge ELSE 0

\* A stop's time is what its waits have taken, one after the other.
TimeInv ==
  /\ ~(provider["traces"] = "flushing" /\ provider["metrics"] = "flushing")
  /\ stopAge <= drainAge + Spent("traces") + Spent("metrics")

LEMMA SpentTypes ==
  ASSUME TypeOK, NEW p \in Providers
  PROVE  Spent(p) \in 0 .. FlushTimeout
BY LifecycleAssumption DEF TypeOK, Spent

LEMMA TimeStep == IInv /\ TimeInv /\ [Next]_vars => TimeInv'
<1> SUFFICES ASSUME IInv, TimeInv, [Next]_vars
             PROVE  TimeInv'
  OBVIOUS
<1>1. TypeOK /\ "traces" \in Providers /\ "metrics" \in Providers
  BY DEF IInv, Providers
<1>2. CASE UNCHANGED <<drainAge, stopAge, flushAge, provider>>
  BY <1>2 DEF TimeInv, Spent
<1>3. CASE InitOtelProvider
  <2>1. \A p \in Providers : provider'[p] \in {"off", "running"}
    BY <1>3 DEF InitOtelProvider, IInv, StartedLate
  <2>2. \A p \in Providers : provider[p] = "off"
    BY <1>3 DEF InitOtelProvider, IInv, StartedLate
  <2> QED
    BY <1>1, <1>3, <2>1, <2>2 DEF InitOtelProvider, TimeInv, Spent, stopVars
<1>4. ASSUME NEW p \in Providers, Flush(p) PROVE TimeInv'
  <2>1. /\ p = "traces" \/ p = "metrics"
        /\ \A q \in Providers : provider[q] # "flushing"
        /\ provider' = [provider EXCEPT ![p] = "flushing"]
        /\ provider[p] = "running" /\ flushAge' = 0
        /\ UNCHANGED <<drainAge, stopAge>>
    BY <1>4 DEF Flush, Providers, stopVars
  <2>2. \A q \in Providers : Spent(q)' = Spent(q)
    BY <1>1, <2>1 DEF Spent, TypeOK
  <2> QED
    BY <1>1, <2>1, <2>2 DEF TimeInv, TypeOK
<1>5. ASSUME NEW p \in Providers, Flushed(p) PROVE TimeInv'
  <2>1. /\ provider' = [provider EXCEPT ![p] = "stopped"]
        /\ provider[p] = "flushing"
        /\ UNCHANGED <<drainAge, stopAge, flushAge>>
    BY <1>5 DEF Flushed, stopVars
  <2>2. \A q \in Providers : Spent(q) <= Spent(q)'
    BY <1>1, <2>1, LifecycleAssumption DEF Spent, TypeOK
  <2>3. \A q \in Providers : Spent(q) \in Nat /\ Spent(q)' \in Nat
    BY <1>1, <2>1, LifecycleAssumption DEF Spent, TypeOK
  <2> QED
    BY <1>1, <2>1, <2>2, <2>3 DEF TimeInv, TypeOK
<1>6. CASE Tick
  <2>1. CASE main = "draining"
    <3>1. \A p \in Providers : provider[p] \notin {"flushing", "stopped"}
      BY <2>1 DEF IInv, TakenDownLate, Ended
    <3>2. /\ drainAge' = drainAge + 1 /\ stopAge' = stopAge + 1
          /\ provider' = provider
      BY <1>6, <2>1 DEF Tick
    <3>3. \A p \in Providers : Spent(p) = 0 /\ Spent(p)' = 0
      BY <3>1, <3>2 DEF Spent
    <3>4. drainAge \in Nat /\ stopAge \in Nat
      BY <1>1, LifecycleAssumption DEF TypeOK
    <3> QED
      BY <1>1, <3>2, <3>3, <3>4 DEF TimeInv
  <2>2. CASE main # "draining"
    <3>1. /\ \E p \in Providers : provider[p] = "flushing"
          /\ flushAge' = flushAge + 1 /\ stopAge' = stopAge + 1
          /\ UNCHANGED <<drainAge, provider>>
      BY <1>6, <2>2 DEF Tick, Flushing
    <3>2. /\ drainAge \in Nat /\ stopAge \in Nat /\ flushAge \in Nat
          /\ FlushTimeout \in Nat
      BY <1>1, LifecycleAssumption DEF TypeOK
    <3>3. CASE provider["traces"] = "flushing"
      <4>1. /\ Spent("traces") = flushAge /\ Spent("traces")' = flushAge + 1
            /\ Spent("metrics")' = Spent("metrics")
        BY <3>1, <3>3 DEF TimeInv, Spent
      <4> QED
        BY <1>1, <3>1, <3>2, <4>1, SpentTypes DEF TimeInv
    <3>4. CASE provider["metrics"] = "flushing"
      <4>1. /\ Spent("metrics") = flushAge /\ Spent("metrics")' = flushAge + 1
            /\ Spent("traces")' = Spent("traces")
        BY <3>1, <3>4 DEF TimeInv, Spent
      <4> QED
        BY <1>1, <3>1, <3>2, <4>1, SpentTypes DEF TimeInv
    <3> QED
      BY <3>1, <3>3, <3>4 DEF Providers
  <2> QED
    BY <2>1, <2>2
<1>7. \/ UNCHANGED <<drainAge, stopAge, flushAge, provider>>
      \/ InitOtelProvider
      \/ \E p \in Providers : Flush(p) \/ Flushed(p)
      \/ Tick
  BY DEF Next, vars, MainStep, ServeStep, stopVars, partVars, Inform, LoadConfig,
         NewServices, StartHousekeeping, Launch, Notify, Receive, Look,
         Drained, Expired, Clear, CloseDatabase, FlushExpired, Exit, Assign,
         Call, Listen, NewTicker, CollectorAnswers, Accept, Answer, Signal,
         Reload
<1> QED
  BY <1>2, <1>3, <1>4, <1>5, <1>6, <1>7

(***************************************************************************)
(* With a grace period and two flush timeouts that fit into what systemd   *)
(* allows a stop, every stop main handles is over in time, however long    *)
(* handlers and the collector take (api.go 124, otel.go 79 and 113).       *)
(***************************************************************************)
THEOREM LifecycleEndsInTime ==
  ASSUME Grace + 2 * FlushTimeout < StopTimeout
  PROVE  Spec => []EndsInTime
<1>1. Init => TimeInv
  BY LifecycleAssumption DEF Init, TimeInv, Spent, Providers
<1>2. IInv /\ TimeInv => EndsInTime
  BY SpentTypes, LifecycleAssumption
     DEF IInv, TypeOK, TimeInv, EndsInTime, Providers
<1> QED
  BY <1>1, <1>2, Inductive, TimeStep, PTL DEF Spec

-----------------------------------------------------------------------------

\* The terms of StopLeft are natural numbers, and while the process lives
\* main has at least one step to go.
LEMMA LeftTypes ==
  ASSUME TypeOK, Alive, main \notin Starting
  PROVE  /\ StepsLeft[main] \in 1 .. 6
         /\ Grace - drainAge \in Nat
         /\ FlushLeft("traces") \in Nat
         /\ FlushLeft("metrics") \in Nat
         /\ StopLeft = StepsLeft[main] + (Grace - drainAge)
                         + FlushLeft("traces") + FlushLeft("metrics")
         /\ StopLeft \in Nat \ {0}
<1>1. main \in {"waiting", "stopping", "draining", "stopped", "cleared", "closed"}
  BY DEF TypeOK, Alive
<1>2. StepsLeft[main] \in 1 .. 6
  BY <1>1 DEF StepsLeft
<1>3. /\ Grace \in Nat /\ FlushTimeout \in Nat
      /\ drainAge \in 0 .. Grace /\ flushAge \in 0 .. FlushTimeout
  BY LifecycleAssumption DEF TypeOK
<1>4. FlushLeft("traces") \in Nat /\ FlushLeft("metrics") \in Nat
  BY <1>3 DEF FlushLeft
<1> QED
  BY <1>2, <1>3, <1>4 DEF StopLeft

LEMMA LeftIsInt ==
  ASSUME IInv, IInv', Next, Alive, main \notin Starting
  PROVE  StopLeft' \in Int
<1>1. main' \notin Starting
  BY DEF Next, MainStep, ServeStep, Inform, LoadConfig, InitOtelProvider,
         NewServices, StartHousekeeping, Launch, Notify, Receive, Look,
         Drained, Expired, Clear, CloseDatabase, Flush, FlushExpired, Flushed,
         Exit, End, Assign, Call, Listen, NewTicker, CollectorAnswers, Accept,
         Answer, Signal, Reload, Tick, Starting, Ended, Alive, partVars
<1>2. TypeOK'
  BY DEF IInv
<1>3. StepsLeft[main'] \in Int \/ main' \in Ended
  BY <1>1, <1>2 DEF TypeOK, StepsLeft
<1>4. /\ FlushTimeout \in Nat /\ Grace \in Nat
      /\ drainAge' \in Nat /\ flushAge' \in Nat
  BY <1>2, LifecycleAssumption DEF TypeOK
<1>5. FlushLeft("traces")' \in Int /\ FlushLeft("metrics")' \in Int
  BY <1>4 DEF FlushLeft
<1> QED
  BY <1>3, <1>4, <1>5 DEF StopLeft, StepsLeft, Alive

\* The end of the process ends the stop.
LEMMA EndGoesOn ==
  ASSUME TypeOK, Alive, main \notin Starting, main' \in Ended
  PROVE  StopLeft' < StopLeft
BY LeftTypes DEF StopLeft, Alive

\* A step of main that leaves its waits and the providers alone.
LEMMA StepGoesOn ==
  ASSUME TypeOK, TypeOK', Alive, main \notin Starting,
         main' \in {"waiting", "stopping", "draining", "stopped", "cleared", "closed"},
         StepsLeft[main'] < StepsLeft[main],
         UNCHANGED <<drainAge, provider, flushAge>>
  PROVE  StopLeft' < StopLeft
<1>1. Alive'
  BY DEF Alive, Ended
<1>2. /\ FlushLeft("traces")' = FlushLeft("traces")
      /\ FlushLeft("metrics")' = FlushLeft("metrics")
  BY DEF FlushLeft
<1>3. StopLeft' = StepsLeft[main'] + (Grace - drainAge)
                    + FlushLeft("traces") + FlushLeft("metrics")
  BY <1>1, <1>2 DEF StopLeft, StepsLeft
<1>4. StepsLeft[main'] \in Int
  BY DEF StepsLeft
<1> QED
  BY <1>3, <1>4, LeftTypes

\* A provider's shutdown begins or ends, or goes on for a tick.
LEMMA FlushGoesOn ==
  ASSUME TypeOK, TypeOK', Alive, main \notin Starting, UNCHANGED <<main, drainAge>>,
         NEW p \in Providers, FlushLeft(p)' < FlushLeft(p),
         \A q \in Providers \ {p} : FlushLeft(q)' = FlushLeft(q)
  PROVE  StopLeft' < StopLeft
<1>1. StopLeft' = StepsLeft[main] + (Grace - drainAge)
                    + FlushLeft("traces")' + FlushLeft("metrics")'
  BY DEF StopLeft, Alive, StepsLeft
<1>2. /\ flushAge' \in 0 .. FlushTimeout
      /\ FlushTimeout \in Nat
  BY LifecycleAssumption DEF TypeOK
<1>3. FlushLeft("traces")' \in Int /\ FlushLeft("metrics")' \in Int
  BY <1>2 DEF FlushLeft
<1>4. CASE p = "traces"
  <2>1. FlushLeft("metrics")' = FlushLeft("metrics")
    BY <1>4 DEF Providers
  <2> QED
    BY <1>1, <1>3, <1>4, <2>1, LeftTypes
<1>5. CASE p = "metrics"
  <2>1. FlushLeft("traces")' = FlushLeft("traces")
    BY <1>5 DEF Providers
  <2> QED
    BY <1>1, <1>3, <1>5, <2>1, LeftTypes
<1> QED
  BY <1>4, <1>5 DEF Providers

\* One provider at a time: no flush restarts the wait for another.
OneFlush == ~(provider["traces"] = "flushing" /\ provider["metrics"] = "flushing")

LEMMA StopStep ==
  ASSUME IInv, IInv', OneFlush, Next, Alive, main \notin Starting
  PROVE  /\ StopLeft' <= StopLeft
         /\ MainStep \/ Tick => StopLeft' < StopLeft
<1>0. TypeOK /\ TypeOK'
  BY DEF IInv
<1>t. /\ StopLeft \in Nat
      /\ provider \in [Providers -> {"off", "running", "flushing", "stopped"}]
      /\ flushAge \in 0 .. FlushTimeout /\ FlushTimeout \in Nat /\ Grace \in Nat
      /\ drainAge \in 0 .. Grace
  BY <1>0, LeftTypes, LifecycleAssumption DEF TypeOK
<1>1. ASSUME NEW p \in Providers, Flush(p) PROVE StopLeft' < StopLeft
  <2>1. /\ provider[p] = "running"
        /\ \A q \in Providers : provider[q] # "flushing"
        /\ provider' = [provider EXCEPT ![p] = "flushing"]
        /\ flushAge' = 0 /\ UNCHANGED <<main, drainAge>>
    BY <1>1 DEF Flush, stopVars
  <2>2. FlushLeft(p)' < FlushLeft(p)
    BY <1>t, <2>1 DEF FlushLeft
  <2>3. \A q \in Providers \ {p} : FlushLeft(q)' = FlushLeft(q)
    BY <1>t, <2>1 DEF FlushLeft
  <2> QED
    BY <1>0, <2>1, <2>2, <2>3, FlushGoesOn
<1>2. ASSUME NEW p \in Providers, Flushed(p) PROVE StopLeft' < StopLeft
  <2>1. /\ provider[p] = "flushing"
        /\ provider' = [provider EXCEPT ![p] = "stopped"]
        /\ UNCHANGED <<main, drainAge, flushAge>>
    BY <1>2 DEF Flushed, stopVars
  <2>2. FlushLeft(p)' < FlushLeft(p)
    BY <1>t, <2>1 DEF FlushLeft
  <2>3. \A q \in Providers \ {p} : FlushLeft(q)' = FlushLeft(q)
    BY <1>t, <2>1 DEF FlushLeft
  <2> QED
    BY <1>0, <2>1, <2>2, <2>3, FlushGoesOn
<1>3. ASSUME Tick PROVE StopLeft' < StopLeft
  <2>1. CASE main = "draining"
    <3>1. /\ drainAge < Grace /\ drainAge' = drainAge + 1
          /\ UNCHANGED <<main, flushAge, provider>>
      BY <1>3, <2>1 DEF Tick
    <3>2. /\ FlushLeft("traces")' = FlushLeft("traces")
          /\ FlushLeft("metrics")' = FlushLeft("metrics")
      BY <3>1 DEF FlushLeft
    <3>3. StopLeft' = StepsLeft[main] + (Grace - (drainAge + 1))
                        + FlushLeft("traces") + FlushLeft("metrics")
      BY <3>1, <3>2 DEF StopLeft, Alive, StepsLeft
    <3> QED
      BY <1>0, <1>t, <3>3, LeftTypes
  <2>2. CASE main # "draining"
    <3>1. /\ flushAge < FlushTimeout /\ flushAge' = flushAge + 1
          /\ UNCHANGED <<main, drainAge, provider>>
          /\ \E p \in Providers : provider[p] = "flushing"
      BY <1>3, <2>2 DEF Tick, Flushing
    <3>2. PICK p \in Providers : provider[p] = "flushing"
      BY <3>1
    <3>3. \A q \in Providers \ {p} : provider[q] # "flushing"
      BY <3>2 DEF OneFlush, Providers
    <3>4. FlushLeft(p)' < FlushLeft(p)
      BY <1>t, <3>1, <3>2 DEF FlushLeft
    <3>5. \A q \in Providers \ {p} : FlushLeft(q)' = FlushLeft(q)
      BY <3>1, <3>3 DEF FlushLeft
    <3> QED
      BY <1>0, <3>1, <3>4, <3>5, FlushGoesOn
  <2> QED
    BY <2>1, <2>2
<1>4. ASSUME Receive \/ Look \/ Drained \/ Expired \/ Clear \/ CloseDatabase
      PROVE  StopLeft' < StopLeft
  <2>1. UNCHANGED <<drainAge, provider, flushAge>>
    BY <1>4 DEF Receive, Look, Drained, Expired, Clear, CloseDatabase, stopVars, partVars
  <2>2. /\ main' \in {"waiting", "stopping", "draining", "stopped", "cleared", "closed"}
        /\ StepsLeft[main'] < StepsLeft[main]
    BY <1>4 DEF Receive, Look, Drained, Expired, Clear, CloseDatabase, StepsLeft
  <2> QED
    BY <1>0, <2>1, <2>2, StepGoesOn
<1>5. ASSUME main' \in Ended PROVE StopLeft' < StopLeft
  BY <1>0, <1>5, EndGoesOn
<1>6. ASSUME UNCHANGED <<main, drainAge, provider, flushAge>>
      PROVE  StopLeft' = StopLeft
  BY <1>6 DEF StopLeft, Alive, FlushLeft, StepsLeft
<1>7. MainStep =>
        \/ Receive \/ Look \/ Drained \/ Expired \/ Clear \/ CloseDatabase
        \/ \E p \in Providers : Flush(p) \/ Flushed(p)
        \/ main' \in Ended
  BY DEF MainStep, Inform, LoadConfig, InitOtelProvider, NewServices,
         StartHousekeeping, Launch, Notify, Starting, FlushExpired, Exit, End,
         Ended
<1>8. \/ MainStep \/ Tick
      \/ \E p \in Providers : Flushed(p)
      \/ main' \in Ended
      \/ UNCHANGED <<main, drainAge, provider, flushAge>>
  BY DEF Next, ServeStep, Assign, Call, Listen, NewTicker, CollectorAnswers,
         Accept, Answer, Signal, Reload, End, Ended, stopVars, partVars
<1>9. MainStep \/ Tick => StopLeft' < StopLeft
  BY <1>1, <1>2, <1>3, <1>4, <1>5, <1>7
<1>10. StopLeft' < StopLeft \/ StopLeft' = StopLeft
  BY <1>2, <1>5, <1>6, <1>8, <1>9
<1> QED
  BY <1>t, <1>9, <1>10, LeftIsInt

(***************************************************************************)
(* A stop is never set back, and every step of main and every tick of its  *)
(* waits takes it on, for every number of requests, grace period and flush *)
(* timeout: the safety half of SignalEnds (main.go 65-70 and 97-109).      *)
(***************************************************************************)
THEOREM LifecycleStopGoesOn == Spec => StopGoesOn
<1>1. Init => TimeInv
  BY LifecycleAssumption DEF Init, TimeInv, Spent, Providers
<1>2. TimeInv => OneFlush
  BY DEF TimeInv, OneFlush
<1>3. IInv /\ IInv' /\ OneFlush /\ [Next]_vars =>
        [Alive /\ main \notin Starting =>
           /\ StopLeft' <= StopLeft
           /\ MainStep \/ Tick => StopLeft' < StopLeft]_vars
  BY StopStep
<1> QED
  BY <1>1, <1>2, <1>3, Inductive, TimeStep, PTL DEF Spec, StopGoesOn
=============================================================================
