----------------------------- MODULE Lifecycle ------------------------------
(***************************************************************************)
(* The process from its start to its end: main and Server.Stop of main.go, *)
(* API.Serve and API.Stop of api/api.go, which share api.HttpServer        *)
(* without a lock, the parts main sets up (otel.go, services/database.go,  *)
(* the housekeeping goroutine) and the telemetry it flushes on its way     *)
(* out.  net/http's server and the OpenTelemetry SDK are external and      *)
(* modelled by what the code relies on: both kinds of Shutdown wait for    *)
(* what is under way or for their context, and the server's makes a later  *)
(* ListenAndServe of the same server return.                               *)
(***************************************************************************)
EXTENDS Integers

CONSTANTS Requests,     \* requests that can be in flight together
          Grace,        \* the 2 seconds of API.Stop's context, in ticks
          FlushTimeout, \* the 5 seconds of a provider's cleanup, in ticks
          StopTimeout   \* the unit's TimeoutStopSec, in ticks

ASSUME LifecycleAssumption ==
  /\ Grace \in Nat
  /\ FlushTimeout \in Nat
  /\ StopTimeout \in Nat

VARIABLES main,      \* where the main goroutine stands, or how it all ended
          conf,      \* what the configuration file turns on
          serve,     \* where the goroutine running Serve stands
          keeper,    \* where the goroutine running startHousekeeping stands
          server,    \* api.HttpServer is not nil
          shut,      \* Shutdown was called on the http.Server
          missed,    \* API.Stop found api.HttpServer nil
          drainAge,  \* ticks the http.Server's Shutdown has been waiting
          stopAge,   \* ghost: ticks since main received its signal
          pending,   \* a signal waits in signalC
          database,  \* svc.Services.Database
          provider,  \* provider[p]: a telemetry provider and its end
          flushAge,  \* ticks the provider being flushed has been
          request    \* request[r]: a request in flight, or what became of it

\* What only API.Stop changes, and the time it takes.
stopVars == <<shut, missed, drainAge, stopAge>>

\* The parts main sets up and takes down.
partVars == <<conf, keeper, database, provider, flushAge>>

vars == <<main, serve, server, stopVars, pending, partVars, request>>

Providers == {"traces", "metrics"}

Starting == {"boot", "loaded", "observed", "assembled", "prepared", "launched"}

Ended == {"exited", "fatal", "killed", "crashed", "panicked"}

\* "interval": Housekeeping.IntervalSeconds is positive.
Options == {"otel", "database", "housekeeping", "interval"}

TypeOK ==
  /\ main \in {"waiting", "stopping", "draining", "stopped", "cleared",
               "closed"} \cup Starting \cup Ended
  /\ conf \in SUBSET Options
  /\ serve \in {"none", "started", "assigned", "listening", "serving",
                "returned", "failed"}
  /\ keeper \in {"none", "started", "ticking"}
  /\ server \in BOOLEAN
  /\ shut \in BOOLEAN
  /\ missed \in BOOLEAN
  /\ pending \in BOOLEAN
  /\ drainAge \in 0 .. Grace
  /\ stopAge \in Nat
  /\ database \in {"absent", "present", "closed"}
  /\ provider \in [Providers -> {"off", "running", "flushing", "stopped"}]
  /\ flushAge \in 0 .. FlushTimeout
  /\ request \in [Requests -> {"none", "running", "cut"}]

Init ==
  /\ main = "boot"
  /\ conf = {}
  /\ serve = "none"
  /\ keeper = "none"
  /\ server = FALSE
  /\ shut = FALSE
  /\ missed = FALSE
  /\ pending = FALSE
  /\ drainAge = 0
  /\ stopAge = 0
  /\ database = "absent"
  /\ provider = [p \in Providers |-> "off"]
  /\ flushAge = 0
  /\ request = [r \in Requests |-> "none"]

Alive == main \notin Ended

\* The process ends in state how: its goroutines and connections are gone.
End(how) ==
  /\ main' = how
  /\ request' = [r \in Requests |-> IF request[r] = "running" THEN "cut"
                                    ELSE request[r]]

-----------------------------------------------------------------------------
\* The main goroutine starts up.

\* -version, -help, and -validate-config once the file is loaded.
Inform ==
  /\ main = "boot"
  /\ main' = "exited"
  /\ UNCHANGED <<serve, server, stopVars, pending, partVars, request>>

\* A file that cannot be read or parsed is fatal; what one that loads says
\* is not validated, whatever the flag's name.
LoadConfig ==
  /\ main = "boot"
  /\ \/ main' = "loaded" /\ conf' \in SUBSET Options
     \/ main' = "fatal" /\ UNCHANGED conf
  /\ UNCHANGED <<serve, server, stopVars, pending, keeper, database, provider,
                 flushAge, request>>

\* InitOtelProvider: whatever cannot be set up is logged and left out.
InitOtelProvider ==
  /\ main = "loaded"
  /\ main' = "observed"
  /\ provider' \in IF "otel" \in conf THEN [Providers -> {"off", "running"}]
                   ELSE {provider}
  /\ UNCHANGED <<serve, server, stopVars, pending, conf, keeper, database,
                 flushAge, request>>

\* NewServices: Connect fails for every type, and the service is kept.
NewServices ==
  /\ main = "observed"
  /\ main' = "assembled"
  /\ database' = IF "database" \in conf THEN "present" ELSE "absent"
  /\ UNCHANGED <<serve, server, stopVars, pending, conf, keeper, provider,
                 flushAge, request>>

\* go server.startHousekeeping()
StartHousekeeping ==
  /\ main = "assembled"
  /\ main' = "prepared"
  /\ keeper' = IF "housekeeping" \in conf THEN "started" ELSE keeper
  /\ UNCHANGED <<serve, server, stopVars, pending, conf, database, provider,
                 flushAge, request>>

\* go server.HttpApi.Serve(...)
Launch ==
  /\ main = "prepared"
  /\ main' = "launched"
  /\ serve' = "started"
  /\ UNCHANGED <<server, stopVars, pending, partVars, request>>

\* signal.Notify: from now on the listed signals go to signalC.
Notify ==
  /\ main = "launched"
  /\ main' = "waiting"
  /\ UNCHANGED <<serve, server, stopVars, pending, partVars, request>>

-----------------------------------------------------------------------------
\* The main goroutine stops the service.

\* sig := <-signalC, and Server.Stop calls API.Stop.
Receive ==
  /\ main = "waiting"
  /\ pending
  /\ main' = "stopping"
  /\ pending' = FALSE
  /\ UNCHANGED <<serve, server, stopVars, partVars, request>>

\* API.Stop reads api.HttpServer: nothing to shut down, or Shutdown begins.
Look ==
  /\ main = "stopping"
  /\ main' = IF server THEN "draining" ELSE "stopped"
  /\ missed' = ~server
  /\ shut' = server
  /\ serve' = IF server /\ serve = "serving" THEN "returned" ELSE serve
  /\ UNCHANGED <<server, pending, drainAge, stopAge, partVars, request>>

\* Wrong variant of Drained: Shutdown that waits for nobody (Close).
BadDrainedAtOnce ==
  /\ main = "draining"
  /\ main' = "stopped"
  /\ UNCHANGED <<serve, server, stopVars, pending, partVars, request>>

\* Shutdown finds every connection idle.
Drained ==
  /\ main = "draining"
  /\ \A r \in Requests : request[r] # "running"
  /\ main' = "stopped"
  /\ UNCHANGED <<serve, server, stopVars, pending, partVars, request>>

\* Wrong variant of Expired: Shutdown with a context that never ends.
BadExpiredNever == FALSE /\ UNCHANGED vars

\* Shutdown's context expires: its error is logged, nothing else.
Expired ==
  /\ main = "draining"
  /\ drainAge = Grace
  /\ main' = "stopped"
  /\ UNCHANGED <<serve, server, stopVars, pending, partVars, request>>

\* The deferred function: api.HttpServer = nil, whatever Serve is doing.
Clear ==
  /\ main = "stopped"
  /\ main' = "cleared"
  /\ server' = FALSE
  /\ UNCHANGED <<serve, stopVars, pending, partVars, request>>

\* Wrong variant of CloseDatabase: closed before the API is stopped.
BadCloseDatabaseFirst ==
  /\ main \in {"stopping", "cleared"}
  /\ database # "closed"
  /\ main' = IF main = "cleared" THEN "closed" ELSE main
  /\ database' = IF database = "present" THEN "closed" ELSE database
  /\ UNCHANGED <<serve, server, stopVars, pending, conf, keeper, provider,
                 flushAge, request>>

\* Server.Stop closes the database service if there is one, and returns.
CloseDatabase ==
  /\ main = "cleared"
  /\ main' = "closed"
  /\ database' = IF database = "present" THEN "closed" ELSE database
  /\ UNCHANGED <<serve, server, stopVars, pending, conf, keeper, provider,
                 flushAge, request>>

\* Wrong variant of Flush: both cleanups at once, under one context.
BadFlushTogether(p) ==
  /\ main = "closed"
  /\ provider[p] = "running"
  /\ p = "metrics" => provider["traces"] # "running"
  /\ provider' = [provider EXCEPT ![p] = "flushing"]
  /\ flushAge' = 0
  /\ UNCHANGED <<main, serve, server, stopVars, pending, conf, keeper,
                 database, request>>

\* The deferred otelShutdown: the tracer's cleanup, then the meter's.
Flush(p) ==
  /\ main = "closed"
  /\ provider[p] = "running"
  /\ \A q \in Providers : provider[q] # "flushing"
  /\ p = "metrics" => provider["traces"] # "running"
  /\ provider' = [provider EXCEPT ![p] = "flushing"]
  /\ flushAge' = 0
  /\ UNCHANGED <<main, serve, server, stopVars, pending, conf, keeper,
                 database, request>>

\* The provider's Shutdown returns: the collector took what was left, or
\* the context expired and its error is logged.
Flushed(p) ==
  /\ provider[p] = "flushing"
  /\ provider' = [provider EXCEPT ![p] = "stopped"]
  /\ UNCHANGED <<main, serve, server, stopVars, pending, conf, keeper,
                 database, flushAge, request>>

CollectorAnswers(p) == Alive /\ Flushed(p)

FlushExpired(p) == Alive /\ flushAge = FlushTimeout /\ Flushed(p)

\* Wrong variant of Exit: by os.Exit, which runs no deferred function.
BadExitWithoutDefers ==
  /\ main = "closed"
  /\ End("exited")
  /\ UNCHANGED <<serve, server, stopVars, pending, partVars>>

\* main returns.
Exit ==
  /\ main = "closed"
  /\ \A p \in Providers : provider[p] \in {"off", "stopped"}
  /\ End("exited")
  /\ UNCHANGED <<serve, server, stopVars, pending, partVars>>

-----------------------------------------------------------------------------
\* The goroutines running Serve and startHousekeeping, and the requests.

Assign ==
  /\ Alive
  /\ serve = "started"
  /\ serve' = "assigned"
  /\ server' = TRUE
  /\ UNCHANGED <<main, stopVars, pending, partVars, request>>

\* api.HttpServer is read again for ListenAndServe: a method of the server,
\* or a nil pointer dereference that ends the process.
Call ==
  /\ Alive
  /\ serve = "assigned"
  /\ \/ server /\ serve' = "listening" /\ UNCHANGED <<main, request>>
     \/ ~server /\ End("crashed") /\ UNCHANGED serve
  /\ UNCHANGED <<server, stopVars, pending, partVars>>

\* ListenAndServe: ErrServerClosed after Shutdown, else it listens or fails;
\* a failure is only logged.
Listen ==
  /\ Alive
  /\ serve = "listening"
  /\ \/ shut /\ serve' = "returned"
     \/ ~shut /\ serve' \in {"serving", "failed"}
  /\ UNCHANGED <<main, server, stopVars, pending, partVars, request>>

\* NewTicker panics on an interval that is not positive.
NewTicker ==
  /\ Alive
  /\ keeper = "started"
  /\ \/ "interval" \in conf /\ keeper' = "ticking" /\ UNCHANGED <<main, request>>
     \/ "interval" \notin conf /\ End("panicked") /\ UNCHANGED keeper
  /\ UNCHANGED <<serve, server, stopVars, pending, conf, database, provider,
                 flushAge>>

Accept(r) ==
  /\ Alive
  /\ serve = "serving"
  /\ request[r] = "none"
  /\ request' = [request EXCEPT ![r] = "running"]
  /\ UNCHANGED <<main, serve, server, stopVars, pending, partVars>>

\* A handler finishes, also while Shutdown waits.
Answer(r) ==
  /\ Alive
  /\ request[r] = "running"
  /\ request' = [request EXCEPT ![r] = "none"]
  /\ UNCHANGED <<main, serve, server, stopVars, pending, partVars>>

-----------------------------------------------------------------------------
\* The environment.

\* SIGINT, SIGQUIT, SIGABRT or SIGTERM: before Notify it ends the process;
\* afterwards signalC holds one, and nobody reads a second one.
Signal ==
  /\ Alive
  /\ ~pending
  /\ IF main \in Starting
     THEN End("killed") /\ UNCHANGED pending
     ELSE pending' = TRUE /\ UNCHANGED <<main, request>>
  /\ UNCHANGED <<serve, server, stopVars, partVars>>

\* SIGHUP is not among the signals of Notify: its default action.
Reload ==
  /\ Alive
  /\ End("killed")
  /\ UNCHANGED <<serve, server, stopVars, pending, partVars>>

Flushing == \E p \in Providers : provider[p] = "flushing"

\* Wrong variants of Tick: waits that outlast their contexts.
BadTickPastGrace ==
  /\ main = "draining"
  /\ drainAge' = drainAge + 1
  /\ stopAge' = stopAge + 1
  /\ UNCHANGED <<main, serve, server, shut, missed, pending, partVars, request>>

BadTickFlushForever ==
  /\ \/ /\ main = "draining" /\ drainAge < Grace
        /\ drainAge' = drainAge + 1
     \/ main = "closed" /\ Flushing /\ UNCHANGED drainAge
  /\ stopAge' = stopAge + 1
  /\ UNCHANGED <<main, serve, server, shut, missed, pending, partVars, request>>

\* Time passes in a stop: in either of its waits.
Tick ==
  /\ \/ /\ main = "draining" /\ drainAge < Grace
        /\ drainAge' = drainAge + 1
        /\ UNCHANGED flushAge
     \/ /\ main = "closed" /\ Flushing /\ flushAge < FlushTimeout
        /\ flushAge' = flushAge + 1
        /\ UNCHANGED drainAge
  /\ stopAge' = stopAge + 1
  /\ UNCHANGED <<main, serve, server, shut, missed, pending, conf, keeper,
                 database, provider, request>>

MainStep ==
  \/ Inform \/ LoadConfig \/ InitOtelProvider \/ NewServices
  \/ StartHousekeeping \/ Launch \/ Notify \/ Receive \/ Look \/ Drained \/ Expired \/ Clear
  \/ CloseDatabase \/ Exit
  \/ \E p \in Providers : Flush(p) \/ FlushExpired(p)

ServeStep == Assign \/ Call \/ Listen

Next ==
  \/ MainStep
  \/ ServeStep
  \/ NewTicker
  \/ \E p \in Providers : CollectorAnswers(p)
  \/ \E r \in Requests : Accept(r) \/ Answer(r)
  \/ Signal
  \/ Reload
  \/ Tick

Spec == Init /\ [][Next]_vars

\* Goroutines that can run do, and waits come to their end.  A handler may
\* run for ever, a collector may never answer, and nobody is obliged to send
\* a request or a signal.
Fairness ==
  /\ WF_vars(MainStep)
  /\ WF_vars(ServeStep)
  /\ WF_vars(NewTicker)
  /\ WF_vars(Tick)

FairSpec == Spec /\ Fairness

-----------------------------------------------------------------------------

\* Stop had done all it would do for the requests in flight.
GivenUp == drainAge = Grace \/ missed

NobodyRuns == \A r \in Requests : request[r] # "running"

\* Housekeeping is on with an interval that no ticker takes.
NoInterval == "housekeeping" \in conf /\ "interval" \notin conf

(***************************************************************************)
(* However a signal meets Serve, the requests and the database, the end of *)
(* the process cuts a request off only after Shutdown waited the whole     *)
(* grace period, or if Stop ran before Serve had published its server, or  *)
(* if the signal was not one that main handles, or if housekeeping was     *)
(* configured to panic: a crash on the nil server never costs a request    *)
(* (main.go 93-109 and 157, api.go 105-133).                               *)
(***************************************************************************)
CutOnlyAfterGrace ==
  (\E r \in Requests : request[r] = "cut")
    => GivenUp \/ main = "killed" \/ NoInterval

(***************************************************************************)
(* What the handlers use is not taken down under them, with the same two   *)
(* exceptions: Stop drains the API before it closes the database service,  *)
(* and telemetry is shut down last of all, when that is done (main.go      *)
(* 65-70 and 144-150).                                                     *)
(***************************************************************************)
PartsOutliveRequests ==
  ~NobodyRuns /\ ~GivenUp =>
    /\ database # "closed"
    /\ \A p \in Providers : provider[p] \in {"off", "running"}

(***************************************************************************)
(* A stop that hanging handlers and an unreachable collector delay as much *)
(* as they can is still over before systemd kills the process, which would *)
(* need a longer grace or flush timeout than the code has (api.go 124,     *)
(* otel.go 79 and 113, bytefreezer-control.service.j2 16).                 *)
(***************************************************************************)
EndsInTime == stopAge < StopTimeout

\* How much of the shutdown of provider p is still to come, at most.
FlushLeft(p) ==
  CASE provider[p] = "running" -> FlushTimeout + 2
    [] provider[p] = "flushing" -> FlushTimeout - flushAge + 1
    [] OTHER -> 0

StepsLeft ==
  [waiting |-> 6, stopping |-> 5, draining |-> 4, stopped |-> 3, cleared |-> 2,
   closed |-> 1]

\* How many steps and ticks main still needs from the signal to the end.
StopLeft ==
  IF Alive THEN StepsLeft[main] + (Grace - drainAge)
                  + FlushLeft("traces") + FlushLeft("metrics")
  ELSE 0

(***************************************************************************)
(* Once main listens for signals, nothing that Serve, housekeeping, the    *)
(* requests, a second signal or the collector do sets a stop back, and     *)
(* every step of main and every tick of its waits brings the end nearer:   *)
(* no wait is begun twice, and the two providers are flushed one after the *)
(* other (main.go 65-70 and 97-109, api.go 115-133, otel.go 49-56).        *)
(***************************************************************************)
StopGoesOn ==
  [][Alive /\ main \notin Starting =>
       /\ StopLeft' <= StopLeft
       /\ MainStep \/ Tick => StopLeft' < StopLeft]_vars

(***************************************************************************)
(* A signal ends the process, also when handlers hang, when Serve failed,  *)
(* when it arrives before Serve has begun, and when the collector of the   *)
(* telemetry does not answer (main.go 65-70 and 97-109).                   *)
(***************************************************************************)
SignalEnds == pending ~> ~Alive

(***************************************************************************)
(* A signal that main handles gets the telemetry out: each provider is     *)
(* shut down, unless something else ends the process first (main.go 65-70, *)
(* otel.go 49-56).                                                         *)
(***************************************************************************)
SignalFlushes ==
  \A p \in Providers :
    pending /\ provider[p] = "running" ~>
      provider[p] = "stopped" \/ main \in {"killed", "crashed", "panicked"}

-----------------------------------------------------------------------------
\* What the repository says of a stop, and the code does not do.

(***************************************************************************)
(* main.go 101-109, "Wait for shutdown signal", Stop, "ByteFreezer Control *)
(* service stopped": a signal main handles leads to a regular exit.        *)
(***************************************************************************)
StopIsRegular == main # "crashed"

(***************************************************************************)
(* main.go 99, "ByteFreezer Control service is running", and the unit's    *)
(* Restart=always: the process serves, or it ends so that it is restarted. *)
(***************************************************************************)
ServesOrEnds == <>(serve = "serving" \/ ~Alive)
=============================================================================
