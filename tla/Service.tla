------------------------------- MODULE Service -------------------------------
(***************************************************************************)
(* The life of the process: run of main.go, and Init, Start and Close of   *)
(* service/service.go, with the goroutines they start: the HTTP server,    *)
(* the health checker that starts and stops the Kafka consumer, and the    *)
(* goroutine that closes everything against a deadline.  Every step of the *)
(* shutdown may succeed, fail, or hang for ever.                           *)
(***************************************************************************)
EXTENDS Naturals

CONSTANT Dependency      \* the dependencies that may be down

VARIABLES
    stopConsumingOnUnhealthy,  \* the configuration flag
    pc,                \* where run is; "nil" or "error" once it has returned
    signal,            \* is a signal pending?
    server,            \* the HTTP server and its goroutine
    svcErrors,         \* errors in the channel of capacity 1
    down,              \* the dependencies that are down
    healthCheck,       \* none, waiting, about to report OK or notOK, or stopped
    lastReport,        \* history: what the health checker reported last, or none
    seenDown,          \* history: what was down when it found that
    consumer,          \* the Kafka consumer group
    worker,            \* its one worker: idle, or busy with a message
    closer,            \* the step the goroutine of Close is at; 0: not started
    hasShutdownError,
    shutdownCtx,       \* live, cancelled by the closer, or past its deadline
    failures           \* history: the steps of the shutdown that failed

main == <<stopConsumingOnUnhealthy, pc, signal>>
http == <<server, svcErrors>>
health == <<down, healthCheck, lastReport, seenDown>>
kafka == <<consumer, worker>>
shutdown == <<closer, hasShutdownError, shutdownCtx, failures>>
vars == <<main, http, health, kafka, shutdown>>

Init ==
    /\ stopConsumingOnUnhealthy \in BOOLEAN
    /\ pc = "init" /\ signal = FALSE
    /\ server = "none" /\ svcErrors = 0
    /\ down \in SUBSET Dependency
    /\ healthCheck = "none" /\ lastReport = "none" /\ seenDown = {}
    /\ consumer = "stopped" /\ worker = "idle"
    /\ closer = 0 /\ hasShutdownError = FALSE
    /\ shutdownCtx = "live" /\ failures = {}

\* The process ends when run returns, with every goroutine in it.
running == pc \notin {"nil", "error"}

-----------------------------------------------------------------------------
\* run: Init, Start, and the wait for an error or a signal.

Goto(label) == pc' = label /\ UNCHANGED <<stopConsumingOnUnhealthy, signal>>

\* A failure ends the process without a Close.
ServiceInit ==
    /\ pc = "init"
    /\ Goto("start") \/ Goto("error")
    /\ UNCHANGED <<http, health, kafka, shutdown>>

\* Mutants: consuming starts whatever the flag; SubscribeAll is missing.
StartAnyway == TRUE
NotSubscribed == FALSE

\* The consumer is started by Start, or else by the reports it is subscribed to.
startsAtOnce == ~stopConsumingOnUnhealthy
subscribed == stopConsumingOnUnhealthy

Start ==
    /\ pc = "start"
    /\ \/ /\ Goto("select")
          /\ consumer' = IF startsAtOnce THEN "consuming" ELSE consumer
          /\ healthCheck' = "waiting"
          /\ server' = "listening"
       \/ startsAtOnce /\ Goto("error") /\ UNCHANGED <<consumer, healthCheck, server>>
    /\ UNCHANGED <<svcErrors, down, lastReport, seenDown, worker, shutdown>>

\* The select takes either one if both are there, and calls Close.
Select ==
    /\ pc = "select"
    /\ \/ svcErrors > 0 /\ svcErrors' = svcErrors - 1 /\ Goto("closeOnError")
       \/ signal /\ UNCHANGED svcErrors /\ Goto("closeOnSignal")
    /\ closer' = 1
    /\ UNCHANGED <<server, health, kafka, hasShutdownError, shutdownCtx, failures>>

\* Close returns once shutdownCtx is done.  run returns its error, or the
\* server's.
CloseReturns ==
    /\ pc \in {"closeOnError", "closeOnSignal"}
    /\ shutdownCtx # "live"
    /\ Goto(IF pc = "closeOnSignal" /\ shutdownCtx = "cancelled" /\ ~hasShutdownError
            THEN "nil" ELSE "error")
    /\ UNCHANGED <<http, health, kafka, shutdown>>

run == ServiceInit \/ Start \/ Select \/ CloseReturns

-----------------------------------------------------------------------------
\* The goroutine of Close: its steps in order, then the deferred cancel.

\* Mutant: the consumer is stopped before the health checker.
ConsumerFirst == <<"consumer", "healthCheck", "server", "close">>

shutdownOrder == <<"healthCheck", "consumer", "server", "close">>

At(step) == running /\ closer \in 1..4 /\ shutdownOrder[closer] = step

\* Mutant: the error is logged and no more.
LogOnly == UNCHANGED hasShutdownError

LatchError == hasShutdownError' = TRUE

Succeeds == closer' = closer + 1 /\ UNCHANGED <<hasShutdownError, shutdownCtx, failures>>

Fails(step) ==
    /\ closer' = closer + 1
    /\ LatchError
    /\ failures' = failures \cup {step}
    /\ UNCHANGED shutdownCtx

\* HealthCheck.Stop waits for a report the health checker is about to make.
StopHealthCheck ==
    /\ At("healthCheck")
    /\ healthCheck = "waiting"
    /\ healthCheck' = "stopped"
    /\ Succeeds
    /\ UNCHANGED <<main, http, down, lastReport, seenDown, kafka>>

\* Consumer.Stop does not wait for the worker.
StopConsumer ==
    /\ At("consumer")
    /\ \/ consumer' = "stopped" /\ Succeeds
       \/ UNCHANGED consumer /\ Fails("consumer")
    /\ UNCHANGED <<main, http, health, worker>>

ShutdownServer ==
    /\ At("server")
    /\ server' = IF server = "listening" THEN "closed" ELSE server
    /\ Succeeds \/ Fails("server")
    /\ UNCHANGED <<main, svcErrors, health, kafka>>

CloseConsumer ==
    /\ At("close")
    /\ \/ consumer' = "closed" /\ Succeeds
       \/ UNCHANGED consumer /\ Fails("close")
    /\ UNCHANGED <<main, http, health, worker>>

ShutdownCtxDone(how) ==
    /\ shutdownCtx' = IF shutdownCtx = "live" THEN how ELSE shutdownCtx
    /\ UNCHANGED <<main, http, health, kafka, hasShutdownError, failures>>

Cancel == running /\ closer = 5 /\ closer' = 6 /\ ShutdownCtxDone("cancelled")

Close == StopHealthCheck \/ StopConsumer \/ ShutdownServer \/ CloseConsumer \/ Cancel

\* Mutant: a context without a timeout.
NoTimeout == FALSE

hasTimeout == closer # 0

\* GracefulShutdownTimeout is over.
Deadline ==
    /\ running /\ hasTimeout /\ shutdownCtx = "live"
    /\ ShutdownCtxDone("deadline")
    /\ UNCHANGED closer

-----------------------------------------------------------------------------
\* The other goroutines, and the world.

\* ListenAndServe fails, or returns because of Shutdown.
ListenAndServe ==
    /\ running
    /\ server \in {"listening", "closed"}
    /\ server' = "returned"
    /\ UNCHANGED <<main, svcErrors, health, kafka, shutdown>>

\* Mutant: the server is started again.
ServeAgain == "listening"

afterError == "done"

\* Either way the error goes into the channel.
SendError ==
    /\ running
    /\ server = "returned"
    /\ svcErrors' = svcErrors + 1
    /\ server' = afterError
    /\ UNCHANGED <<main, health, kafka, shutdown>>

\* Mutant: the dataset API is not checked.
DatasetUnchecked == {"kafka", "s3Private", "s3Public", "vault"}

\* The dependencies a checker is added for.  The filter API, the population types
\* API and Cantabular have none.
registered == {"kafka", "datasetAPI", "s3Private", "s3Public", "vault"}

healthy == IF down \cap registered = {} THEN "OK" ELSE "notOK"

\* An interval is over: the health checker has new health to report.
Check ==
    /\ running
    /\ healthCheck = "waiting" /\ healthy # lastReport
    /\ healthCheck' = healthy
    /\ seenDown' = down
    /\ UNCHANGED <<main, http, down, lastReport, kafka, shutdown>>

\* It reports; a consumer that is subscribed starts or stops.
Report ==
    /\ running
    /\ healthCheck \in {"OK", "notOK"}
    /\ healthCheck' = "waiting"
    /\ lastReport' = healthCheck
    /\ consumer' = IF ~subscribed \/ consumer = "closed" THEN consumer
                   ELSE IF healthCheck = "OK" THEN "consuming" ELSE "stopped"
    /\ UNCHANGED <<main, http, down, seenDown, worker, shutdown>>

\* The worker is handed a message, or has handled it.
Work ==
    /\ running
    /\ \/ worker = "idle" /\ consumer = "consuming" /\ worker' = "busy"
       \/ worker = "busy" /\ worker' = "idle"
    /\ UNCHANGED <<main, http, health, consumer, shutdown>>

HealthChanges ==
    /\ running
    /\ \E d \in Dependency : down' = IF d \in down THEN down \ {d} ELSE down \cup {d}
    /\ UNCHANGED <<main, http, healthCheck, lastReport, seenDown, kafka, shutdown>>

\* SIGINT or SIGTERM.
Signal ==
    /\ running /\ ~signal
    /\ signal' = TRUE
    /\ UNCHANGED <<stopConsumingOnUnhealthy, pc, http, health, kafka, shutdown>>

Exited == ~running /\ UNCHANGED vars

Next ==
    \/ run \/ Close \/ Deadline
    \/ ListenAndServe \/ SendError
    \/ Check \/ Report \/ Work
    \/ HealthChanges \/ Signal
    \/ Exited

Spec == Init /\ [][Next]_vars

\* run is scheduled, and its calls before the select return; the clock goes on;
\* the health checker checks on its interval.  Nothing is assumed of the steps
\* of the shutdown, which may hang, nor of the server.
Fairness == WF_vars(run) /\ WF_vars(Deadline) /\ WF_vars(Check \/ Report)

FairSpec == Spec /\ Fairness

-----------------------------------------------------------------------------
\* Properties.

\* Every variable has its type; the send of an error never blocks, for the
\* channel never holds more than the one its capacity admits (main.go:48).
TypeOK ==
    /\ stopConsumingOnUnhealthy \in BOOLEAN
    /\ pc \in {"init", "start", "select", "closeOnError", "closeOnSignal", "nil", "error"}
    /\ signal \in BOOLEAN
    /\ server \in {"none", "listening", "closed", "returned", "done"}
    /\ svcErrors \in 0..1
    /\ down \in SUBSET Dependency /\ seenDown \in SUBSET Dependency
    /\ healthCheck \in {"none", "waiting", "OK", "notOK", "stopped"}
    /\ lastReport \in {"OK", "notOK", "none"}
    /\ consumer \in {"stopped", "consuming", "closed"}
    /\ worker \in {"idle", "busy"}
    /\ closer \in 0..6
    /\ hasShutdownError \in BOOLEAN
    /\ shutdownCtx \in {"live", "cancelled", "deadline"}
    /\ failures \in SUBSET {"consumer", "server", "close"}

takesMessage == worker = "idle" /\ worker' = "busy"

\* "no more messages will be processed" (service.go:141): once Stop of the
\* consumer has returned without error, no late report of good health starts it
\* again, and nothing is taken off the topic in the rest of the shutdown.
NothingTakenAfterStop ==
    [][takesMessage => closer <= 2 \/ "consumer" \in failures]_vars

\* With the flag set, no message is taken before the first report, nor, once a
\* report is out, when the dataset API was down at the check it is of (README.md:38,
\* dp-cantabular-xlsx-exporter-unhealthy.feature:4-6).
TakesOnlyWhenHealthy ==
    [][takesMessage /\ stopConsumingOnUnhealthy =>
          /\ lastReport = "OK"
          /\ healthCheck = "waiting" => "datasetAPI" \notin seenDown]_vars

\* The same of every dependency, as "Dependent services are health checked"
\* (README.md:60) has it.
TakesOnlyWithAllUp ==
    [][takesMessage /\ stopConsumingOnUnhealthy /\ healthCheck = "waiting" =>
          seenDown = {}]_vars

\* A process that returns no error has stopped the health checker, the consumer
\* and the server, and has closed the consumer, all before the deadline
\* (service.go:173-187).
NilIsGraceful ==
    pc = "nil" =>
        /\ failures = {}
        /\ healthCheck = "stopped"
        /\ consumer = "closed"
        /\ server \notin {"none", "listening"}

\* A signal or a failed server ends the process, though every step of the
\* shutdown may hang (service.go:128, 173-179).
StopEndsProcess == signal \/ svcErrors > 0 ~> ~running

\* With or without the flag, a service whose dependencies are healthy consumes.
HealthyServiceConsumes ==
    []<>(consumer = "consuming" \/ healthy # "OK" \/ pc # "select")

\* What the messages see of the process, as Process has it.
stoppedConsumer == closer > 2 /\ "consumer" \notin failures
life == [state |-> IF pc \in {"init", "start"} THEN "starting"
                   ELSE IF pc = "select" THEN "up"
                   ELSE IF ~running THEN "ended"
                   ELSE IF stoppedConsumer THEN "stopped" ELSE "stopping",
         consumer |-> IF consumer = "consuming" THEN "consuming" ELSE "stopped"]
Contract == INSTANCE Process WITH process <- life

\* Whatever the health reports, the server and the shutdown do, and however they
\* interleave, the worker takes messages only as Process lets it (main.go:45-98,
\* service.go:99-188).
ImplementsProcess == Contract!Spec

=============================================================================
