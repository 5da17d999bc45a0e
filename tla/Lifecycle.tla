------------------------------- MODULE Lifecycle -------------------------------
(***************************************************************************)
(* The life of a payment-service process: main, PaymentServiceBootstrap    *)
(* and the polling loop of OutboxPublisherWorker.  It boots, polls, is     *)
(* told to stop by signals, by a failed boot or by a direct call of        *)
(* shutdown(), and ends by itself or by the hard stop.                     *)
(*                                                                         *)
(* All grace timers run for shutdownGraceMs, so they expire in the order   *)
(* they were armed: they are a queue.  An action runs to the next await;   *)
(* continuations of what settles in it are part of it.                     *)
(***************************************************************************)
EXTENDS Sequences, SequencesExt

CONSTANT
    Signal      \* the signals main listens to, each once

ASSUME SignalAssumption == "grace" \notin Signal

VARIABLES
    life,       \* PaymentServiceBootstrap.lifecycleState
    main,       \* where main() is
    http,       \* the HTTP server
    handler,    \* whether a request is being handled
    stop,       \* where stop() is: what it waits for
    worker,     \* OutboxPublisherWorker.lifecycleState
    timer,      \* whether the timer of the next poll is armed
    iteration,  \* what the iteration in flight waits for
    rabbit,     \* the RabbitMqConnectionManager
    knex,       \* the Knex pool
    signal,     \* what became of each signal
    armed,      \* the grace timers, the next to expire first
    exit,       \* how the process ended, and its exit code
    direct      \* whether shutdown() was called without a signal or a failed boot

workerVars == <<worker, timer, iteration>>
lifecycleVars == <<life, main, http, handler, stop, workerVars, rabbit, knex,
                   signal, armed, exit, direct>>

Alive == exit.how = "no"

Closing(resource) == IF resource = "open" THEN "closing" ELSE resource

\* The timers without t, if it is armed: none is armed twice.
Clear(t) ==
    IF t \in ToSet(armed) THEN RemoveAt(armed, CHOOSE i \in DOMAIN armed : armed[i] = t)
                          ELSE armed

Expires(t) == Alive /\ armed # <<>> /\ Head(armed) = t

-----------------------------------------------------------------------------
(* Stages of stop(), each up to its first await *)

\* closeKnex, after the manager is closed.
AtKnex == stop' = "knex" /\ knex' = Closing(knex)

AtRabbit == stop' = "rabbit" /\ rabbit' = Closing(rabbit)

AtWorker_KeepTimerBug ==
    /\ timer' = FALSE
    /\ UNCHANGED iteration
    /\ \/ /\ iteration = "none"
          /\ worker' = "stopped"
          /\ AtRabbit
          /\ UNCHANGED armed
       \/ /\ iteration # "none"
          /\ worker' = "stopping"
          /\ stop' = "worker" /\ UNCHANGED rabbit
          /\ armed' = Append(armed, "grace")

\* outboxPublisherWorker.stop() and the wait for it.
AtWorker ==
    /\ timer' = FALSE
    /\ UNCHANGED iteration
    /\ \/ /\ iteration = "none"
          /\ worker' = "stopped"
          /\ AtRabbit
          /\ armed' = Clear("grace")
       \/ /\ iteration # "none"
          /\ worker' = "stopping"
          /\ stop' = "worker" /\ UNCHANGED rabbit
          /\ armed' = Append(Clear("grace"), "grace")

\* shutdown() when nobody called it before: closeHttpServer comes first.
BeginShutdown(timers) ==
    /\ life' = "stopping"
    /\ http' = "closing"
    /\ stop' = "http"
    /\ armed' = Append(timers, "grace")

-----------------------------------------------------------------------------
(* Boot *)

\* start() after listen: a shutdown that began meanwhile interrupts it, and main
\* waits for that shutdown.
Start ==
    \/ /\ life = "starting"
       /\ worker' = "running" /\ timer' = TRUE
       /\ life' = "running"
       /\ main' = "booted"
    \/ /\ life # "starting"
       /\ main' = IF stop = "done" THEN "failed" ELSE "stopping"
       /\ UNCHANGED <<life, worker, timer>>

\* The server listens.  The callback of listen may come after close().
Listening ==
    /\ Alive /\ main = "booting" /\ http # "failed"
    /\ http' = IF http = "opening" THEN "listening" ELSE http
    /\ Start
    /\ exit' = [exit EXCEPT !.code = IF main' = "failed" THEN 1 ELSE @]
    /\ UNCHANGED <<handler, stop, iteration, rabbit, knex, signal, armed, direct>>

\* The port is taken: bootstrap rejects and main shuts down.  The server that
\* never listened rejects its close, and the worker, still idle, is not stopped.
ListenFails ==
    /\ Alive /\ main = "booting" /\ http = "opening"
    /\ main' = "stopping"
    /\ life' = "stopping" /\ http' = "failed"
    /\ AtRabbit
    /\ UNCHANGED <<handler, workerVars, knex, signal, armed, exit, direct>>

-----------------------------------------------------------------------------
(* Requests and polls *)

RequestArrives ==
    /\ Alive /\ http = "listening" /\ ~handler
    /\ handler' = TRUE
    /\ UNCHANGED <<life, main, http, stop, workerVars, rabbit, knex, signal, armed, exit, direct>>

RequestEnds ==
    /\ Alive /\ handler
    /\ handler' = FALSE
    /\ UNCHANGED <<life, main, http, stop, workerVars, rabbit, knex, signal, armed, exit, direct>>

PollBegins ==
    /\ Alive /\ timer
    /\ timer' = FALSE
    /\ iteration' = "broker"
    /\ UNCHANGED <<life, main, http, handler, stop, worker, rabbit, knex, signal, armed, exit, direct>>

\* An iteration asks for a channel or a confirm, then for the database.
PollGoesOn ==
    /\ Alive /\ iteration # "none"
    /\ iteration' = IF iteration = "broker" THEN "database" ELSE "broker"
    /\ UNCHANGED <<life, main, http, handler, stop, worker, timer, rabbit, knex, signal, armed, exit, direct>>

\* scheduleNext: only while running.
ScheduleNext == timer' = (worker = "running")

\* The iteration settles; a stop() that waited for it goes on.
PollEnds ==
    /\ Alive /\ iteration # "none"
    /\ iteration' = "none"
    /\ ScheduleNext
    /\ worker' = IF worker = "stopping" THEN "stopped" ELSE worker
    /\ \/ /\ stop = "worker"
          /\ AtRabbit
          /\ armed' = Clear("grace")
          /\ UNCHANGED knex
       \/ /\ stop = "worker again"
          /\ AtKnex
          /\ UNCHANGED <<rabbit, armed>>
       \/ /\ stop \notin {"worker", "worker again"}
          /\ UNCHANGED <<stop, rabbit, knex, armed>>
    /\ UNCHANGED <<life, main, http, handler, signal, exit, direct>>

-----------------------------------------------------------------------------
(* Shutdown *)

AfterHttp == AtWorker /\ http' = "closed"

\* The last request has ended, or closeAllConnections has cut it off.
HttpCloses ==
    /\ Alive /\ stop = "http" /\ http = "closing" /\ ~handler
    /\ AfterHttp
    /\ UNCHANGED <<life, main, handler, knex, signal, exit, direct>>

\* The grace of the server is over: its connections are cut.
HttpGraceOver ==
    /\ Expires("grace") /\ stop = "http"
    /\ AfterHttp
    /\ UNCHANGED <<life, main, handler, knex, signal, exit, direct>>

\* The grace of the worker is over: RabbitMQ is closed under its iteration.
WorkerGraceOver ==
    /\ Expires("grace") /\ stop = "worker"
    /\ armed' = Tail(armed)
    /\ stop' = "rabbit first"
    /\ rabbit' = Closing(rabbit)
    /\ UNCHANGED <<life, main, http, handler, workerVars, knex, signal, exit, direct>>

RabbitCloses ==
    /\ Alive /\ rabbit = "closing"
    /\ rabbit' = "closed"
    /\ \/ /\ stop = "rabbit first" /\ iteration # "none"
          /\ stop' = "worker again"
          /\ UNCHANGED knex
       \/ /\ stop = "rabbit" \/ (stop = "rabbit first" /\ iteration = "none")
          /\ AtKnex
    /\ UNCHANGED <<life, main, http, handler, workerVars, signal, armed, exit, direct>>

Settled_SwallowBug(code) ==
    /\ stop' = "done" /\ life' = "stopped"
    /\ signal' = [s \in Signal |-> IF signal[s] = "handled" THEN "over" ELSE signal[s]]
    /\ main' = IF main = "stopping" THEN "failed" ELSE main
    /\ exit' = [exit EXCEPT !.code = code]
    /\ armed' = <<>>

\* stop() has settled: every handleSignal clears its hard stop, main throws on.
Settled(code) ==
    /\ stop' = "done" /\ life' = "stopped"
    /\ signal' = [s \in Signal |-> IF signal[s] = "handled" THEN "over" ELSE signal[s]]
    /\ main' = IF main = "stopping" THEN "failed" ELSE main
    /\ exit' = [exit EXCEPT !.code = IF main = "stopping" THEN 1 ELSE code]
    /\ armed' = <<>>

\* knex.destroy succeeds or throws; the error is thrown by shutdown() and ends in
\* handleFatalError when a signal called it.
KnexCloses ==
    /\ Alive /\ stop = "knex" /\ knex = "closing"
    /\ knex' = "closed"
    /\ \/ Settled(exit.code)
       \/ Settled(IF \E s \in Signal : signal[s] = "handled" THEN 1 ELSE exit.code)
    /\ UNCHANGED <<http, handler, workerVars, rabbit, direct>>

-----------------------------------------------------------------------------
(* Signals, the hard stop and the end *)

HandleSignal_NoTimerBug(s) ==
    /\ Alive /\ signal[s] = "none" /\ stop = "no"
    /\ BeginShutdown(armed)
    /\ signal' = [signal EXCEPT ![s] = "handled"]
    /\ UNCHANGED <<main, handler, workerVars, rabbit, knex, exit, direct>>

HandleSignal_LateTimerBug(s) ==
    /\ Alive /\ signal[s] = "none" /\ stop = "no"
    /\ life' = "stopping" /\ http' = "closing" /\ stop' = "http"
    /\ armed' = Append(Append(armed, "grace"), s)
    /\ signal' = [signal EXCEPT ![s] = "handled"]
    /\ UNCHANGED <<main, handler, workerVars, rabbit, knex, exit, direct>>

\* handleSignal arms the hard stop before it calls shutdown().  A signal that
\* comes after shutdown() has settled finds nothing to do.
HandleSignal(s) ==
    /\ Alive /\ signal[s] = "none" /\ stop # "done"
    /\ \/ /\ stop = "no"
          /\ BeginShutdown(Append(armed, s))
       \/ /\ stop # "no"
          /\ armed' = Append(armed, s)
          /\ UNCHANGED <<life, http, stop>>
    /\ signal' = [signal EXCEPT ![s] = "handled"]
    /\ UNCHANGED <<main, handler, workerVars, rabbit, knex, exit, direct>>

\* As the unit tests do, and whoever embeds the service.
CallShutdown ==
    /\ Alive /\ stop = "no"
    /\ BeginShutdown(armed)
    /\ direct' = TRUE
    /\ UNCHANGED <<main, handler, workerVars, rabbit, knex, signal, exit>>

\* forceShutdownAfterDeadline: everything is told to close and the process exits.
HardStop(s) ==
    /\ Expires(s)
    /\ rabbit' = Closing(rabbit) /\ knex' = Closing(knex)
    /\ exit' = [how |-> "forced", code |-> 1]
    /\ UNCHANGED <<life, main, http, handler, stop, workerVars, signal, armed, direct>>

\* Node ends a process that has nothing to wait for.
ProcessEnds ==
    /\ Alive /\ stop = "done"
    /\ armed = <<>> /\ ~timer /\ iteration = "none" /\ http # "listening"
    /\ exit' = [exit EXCEPT !.how = "ended"]
    /\ UNCHANGED <<life, main, http, handler, stop, workerVars, rabbit, knex, signal, armed, direct>>

-----------------------------------------------------------------------------
(* Specification *)

\* main has called bootstrap(), which has called listen.
LifecycleInit ==
    /\ life = "starting" /\ main = "booting" /\ http = "opening" /\ handler = FALSE
    /\ stop = "no"
    /\ worker = "idle" /\ timer = FALSE /\ iteration = "none"
    /\ rabbit = "open" /\ knex = "open"
    /\ signal = [s \in Signal |-> "none"] /\ armed = <<>>
    /\ exit = [how |-> "no", code |-> 0] /\ direct = FALSE

Boot     == Listening \/ ListenFails
Requests == RequestArrives \/ RequestEnds
Polls    == PollBegins \/ PollGoesOn \/ PollEnds
Shutdown ==
    HttpCloses \/ HttpGraceOver \/ WorkerGraceOver \/ RabbitCloses \/ KnexCloses

LifecycleNext ==
    \/ Boot \/ Requests \/ Polls \/ Shutdown \/ CallShutdown \/ ProcessEnds
    \/ \E s \in Signal : HandleSignal(s) \/ HardStop(s)

LifecycleSpec == LifecycleInit /\ [][LifecycleNext]_lifecycleVars

\* Timers expire, a manager without a connection to wait for closes, a pool
\* closes that nobody uses.  Requests, iterations and a pool in use may last.
LifecycleFairSpec ==
    /\ LifecycleSpec
    /\ WF_lifecycleVars(HttpGraceOver \/ WorkerGraceOver \/ \E s \in Signal : HardStop(s))
    /\ WF_lifecycleVars(worker = "idle" /\ RabbitCloses)
    /\ WF_lifecycleVars(worker = "idle" /\ ~handler /\ KnexCloses)
    /\ WF_lifecycleVars(ProcessEnds)

-----------------------------------------------------------------------------
(* Properties *)

\* Types, and no timer armed twice.
LifecycleTypeOK ==
    /\ life \in {"starting", "running", "stopping", "stopped"}
    /\ main \in {"booting", "booted", "stopping", "failed"}
    /\ http \in {"opening", "listening", "failed", "closing", "closed"}
    /\ stop \in {"no", "http", "worker", "rabbit first", "worker again",
                 "rabbit", "knex", "done"}
    /\ worker \in {"idle", "running", "stopping", "stopped"}
    /\ iteration \in {"none", "broker", "database"}
    /\ {rabbit, knex} \subseteq {"open", "closing", "closed"}
    /\ handler \in BOOLEAN /\ timer \in BOOLEAN
    /\ signal \in [Signal -> {"none", "handled", "over"}]
    /\ armed \in Seq(Signal \cup {"grace"}) /\ IsInjective(armed)
    /\ exit \in [how : {"no", "ended", "forced"}, code : {0, 1}]
    /\ direct \in BOOLEAN

\* From the moment the pool is closed nothing polls and nothing will: the worker
\* is stopped for good, or was never started, however boot, signals, iterations
\* and the grace interleave.
NothingPollsAClosedPool ==
    Alive /\ knex # "open" => iteration = "none" /\ ~timer /\ worker # "running"

\* A stop that is told by signals, or by a failed boot, never takes the broker or
\* the pool away from a request or an iteration: they end first, or the hard stop
\* ends the process.  A direct call gives them one grace period.
WorkIsNotCutOff ==
    Alive /\ ~direct /\ (handler \/ iteration # "none") => rabbit = "open" /\ knex = "open"

\* Resources are closed behind the work that uses them, never under it.
ClosesBehindWork == NothingPollsAClosedPool /\ WorkIsNotCutOff

\* A process that ends by itself has given back everything, and it reports success
\* only if no boot failed or was interrupted under main.
EndsCleanly ==
    exit.how = "ended" =>
        /\ {rabbit, knex} = {"closed"} /\ iteration = "none"
        /\ exit.code = 0 => http = "closed" /\ main \in {"booting", "booted"}

(* The inductive invariant behind them *)

\* The bootstrap, main and the server follow the stages of stop().
StagesMatch ==
    /\ stop = "no" <=> life \in {"starting", "running"}
    /\ stop = "no" <=> http \in {"opening", "listening"}
    /\ stop = "http" <=> http = "closing"
    /\ http = "opening" => life = "starting"
    /\ life = "starting" => worker = "idle"
    /\ http = "failed" => main \in {"stopping", "failed"}
    /\ main = "failed" => stop = "done" /\ exit.code = 1
    /\ main = "stopping" => stop # "done"

\* So does the worker, which waits for an iteration, has one or is stopped.
WorkerMatches ==
    /\ timer => worker = "running" /\ iteration = "none"
    /\ iteration # "none" => worker \in {"running", "stopping"}
    /\ worker = "stopping" => iteration # "none"
    /\ stop \in {"no", "http"} => worker \in {"idle", "running"}
    /\ stop \in {"worker", "worker again"} => worker = "stopping"
    /\ stop = "rabbit first" => worker \in {"stopping", "stopped"}
    /\ stop \in {"rabbit", "knex", "done"} => worker \in {"idle", "stopped"}

\* So do the resources, until the hard stop closes them at once.
ResourcesMatch ==
    Alive =>
        /\ stop \in {"no", "http", "worker"} => rabbit = "open" /\ knex = "open"
        /\ stop \in {"rabbit first", "rabbit"} => rabbit = "closing" /\ knex = "open"
        /\ stop = "worker again" => rabbit = "closed" /\ knex = "open"
        /\ stop = "knex" => rabbit = "closed" /\ knex = "closing"
        /\ stop = "done" => rabbit = "closed" /\ knex = "closed"

\* Timers are armed by stop() and by signals, a hard stop once.
TimersMatch ==
    /\ stop = "no" => armed = <<>>
    /\ \A s \in Signal : signal[s] = "none" => s \notin ToSet(armed)

\* A stop that no one called directly runs under a hard stop armed before its
\* grace: the grace is never the next to expire.
HardStopComesFirst ==
    ~direct /\ stop \in {"http", "worker"} => armed # <<>> /\ Head(armed) # "grace"

\* So it cuts off neither a request nor an iteration.
NoGraceIsOver ==
    ~direct =>
        /\ stop \notin {"rabbit first", "worker again"}
        /\ handler => http \in {"listening", "closing"}

LifecycleInv ==
    /\ LifecycleTypeOK /\ StagesMatch /\ WorkerMatches /\ ResourcesMatch
    /\ TimersMatch /\ HardStopComesFirst /\ NoGraceIsOver /\ EndsCleanly

(* Liveness, and what a test says *)

\* A signal ends the process, whatever never settles: a request, an iteration, the
\* manager or the pool.
SignalEndsProcess ==
    (\E s \in Signal : signal[s] # "none") ~> ~Alive

\* "closes RabbitMQ after the shutdown grace expires so a pending confirm can
\* settle" (bootstrap-lifecycle.test.ts): a process is not forced to exit over an
\* iteration that waits for the broker before RabbitMQ was closed under it.
BrokerWaitIsReleased ==
    exit.how = "forced" /\ stop = "worker" /\ ~direct => iteration # "broker"

=============================================================================
