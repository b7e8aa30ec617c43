----------------------------- MODULE ServiceProofs -----------------------------
(***************************************************************************)
(* The safety properties of Service, proved: its one inductive invariant   *)
(* says what each step of the shutdown leaves behind.                      *)
(***************************************************************************)
EXTENDS Service, TLAPS

\* What is known before the shutdown, and of a goroutine that serves no more.
StartInv ==
    /\ pc \in {"init", "start"} =>
          /\ server = "none" /\ healthCheck = "none"
          /\ consumer = "stopped" /\ worker = "idle"
    /\ pc \in {"init", "start", "select"} => closer = 0
    /\ pc \in {"select", "closeOnError", "closeOnSignal"} =>
          server # "none" /\ healthCheck # "none"
    /\ svcErrors > 0 => server = "done"

\* What the shutdown has done once it is past each of its steps.
CloserInv ==
    /\ closer > 0 => server # "none" /\ healthCheck # "none"
    /\ closer > 1 => healthCheck = "stopped"
    /\ closer > 2 => consumer # "consuming" \/ "consumer" \in failures
    /\ closer > 3 => server # "listening"
    /\ closer > 4 => consumer = "closed" \/ "close" \in failures

\* Close waits for the last step, and learns of every failure.
ShutdownInv ==
    /\ shutdownCtx = "cancelled" => closer = 6
    /\ failures # {} => hasShutdownError = TRUE

\* The consumer follows the reports, and good health is reported of checks that
\* found the dataset API up.
ReportInv ==
    /\ stopConsumingOnUnhealthy = TRUE /\ consumer = "consuming" => lastReport = "OK"
    /\ healthCheck = "none" => lastReport = "none"
    /\ \/ healthCheck = "OK"
       \/ healthCheck = "waiting" /\ lastReport = "OK"
       => "datasetAPI" \notin seenDown

IInv ==
    /\ TypeOK
    /\ StartInv
    /\ CloserInv
    /\ ShutdownInv
    /\ ReportInv
    /\ NilIsGraceful

-----------------------------------------------------------------------------
\* The initial states satisfy the invariant.
LEMMA InitIInv == Init => IInv
<1> SUFFICES ASSUME Init PROVE IInv
    OBVIOUS
<1>1. TypeOK
    <2>1. failures \in SUBSET {"consumer", "server", "close"}
        BY DEF Init
    <2>2. closer \in 0..6 /\ svcErrors \in 0..1
        BY DEF Init
    <2> QED
        BY <2>1, <2>2 DEF Init, TypeOK
<1>2. StartInv /\ CloserInv
    BY DEF Init, StartInv, CloserInv
<1>3. ShutdownInv /\ ReportInv /\ NilIsGraceful
    BY DEF Init, ShutdownInv, ReportInv, NilIsGraceful
<1> QED
    BY <1>1, <1>2, <1>3 DEF IInv

\* A step of run keeps the invariant.
LEMMA RunStep ==
    ASSUME IInv, run
    PROVE  IInv'
<1> USE DEF Goto, http, health, kafka, shutdown
<1>a. TypeOK /\ StartInv /\ CloserInv /\ ShutdownInv /\ ReportInv /\ NilIsGraceful
    BY DEF IInv
<1>1. CASE ServiceInit
    <2>2. TypeOK'
        BY <1>a, <1>1 DEF ServiceInit, TypeOK
    <2>3. StartInv' /\ CloserInv'
        BY <1>a, <1>1 DEF ServiceInit, TypeOK, StartInv, CloserInv
    <2>4. ShutdownInv' /\ ReportInv'
        BY <1>a, <1>1 DEF ServiceInit, TypeOK, ShutdownInv, ReportInv, StartInv
    <2>5. NilIsGraceful'
        BY <1>a, <1>1
        DEF ServiceInit, TypeOK, CloserInv, ShutdownInv, NilIsGraceful, StartInv
    <2> QED
        BY <2>2, <2>3, <2>4, <2>5 DEF IInv
<1>2. CASE Start
    <2>2. TypeOK'
        BY <1>a, <1>2 DEF Start, startsAtOnce, TypeOK
    <2>3. StartInv' /\ CloserInv'
        BY <1>a, <1>2 DEF Start, startsAtOnce, TypeOK, StartInv, CloserInv
    <2>4. ShutdownInv' /\ ReportInv'
        BY <1>a, <1>2 DEF Start, startsAtOnce, TypeOK, ShutdownInv, ReportInv, StartInv
    <2>5. NilIsGraceful'
        BY <1>a, <1>2
        DEF Start, startsAtOnce, TypeOK, CloserInv, ShutdownInv, NilIsGraceful, StartInv
    <2> QED
        BY <2>2, <2>3, <2>4, <2>5 DEF IInv
<1>3. CASE Select
    <2>2. TypeOK'
        BY <1>a, <1>3 DEF Select, TypeOK
    <2>3. StartInv' /\ CloserInv'
        BY <1>a, <1>3 DEF Select, TypeOK, StartInv, CloserInv
    <2>4. ShutdownInv' /\ ReportInv'
        BY <1>a, <1>3 DEF Select, TypeOK, ShutdownInv, ReportInv, StartInv
    <2>5. NilIsGraceful'
        BY <1>a, <1>3 DEF Select, TypeOK, CloserInv, ShutdownInv, NilIsGraceful, StartInv
    <2> QED
        BY <2>2, <2>3, <2>4, <2>5 DEF IInv
<1>4. CASE CloseReturns
    <2>2. TypeOK'
        BY <1>a, <1>4 DEF CloseReturns, TypeOK
    <2>3. StartInv' /\ CloserInv'
        BY <1>a, <1>4 DEF CloseReturns, TypeOK, StartInv, CloserInv
    <2>4. ShutdownInv' /\ ReportInv'
        BY <1>a, <1>4 DEF CloseReturns, TypeOK, ShutdownInv, ReportInv, StartInv
    <2>5. NilIsGraceful'
        BY <1>a, <1>4
        DEF CloseReturns, TypeOK, CloserInv, ShutdownInv, NilIsGraceful, StartInv
    <2> QED
        BY <2>2, <2>3, <2>4, <2>5 DEF IInv
<1> QED
    BY <1>1, <1>2, <1>3, <1>4 DEF run

\* So does a step of the shutdown, and its deadline.
LEMMA CloseStep ==
    ASSUME IInv, Close \/ Deadline
    PROVE  IInv'
<1> USE DEF running, main, http, health, kafka
<1>a. TypeOK /\ StartInv /\ CloserInv /\ ShutdownInv /\ ReportInv /\ NilIsGraceful
    BY DEF IInv
<1>1. CASE StopHealthCheck
    <2>1. closer = 1
        BY <1>1 DEF StopHealthCheck, At, shutdownOrder
    <2>2. TypeOK'
        BY <1>a, <1>1, <2>1 DEF StopHealthCheck, Succeeds, TypeOK
    <2>3. StartInv' /\ CloserInv'
        BY <1>a, <1>1, <2>1 DEF StopHealthCheck, Succeeds, TypeOK, StartInv, CloserInv
    <2>4. ShutdownInv' /\ ReportInv'
        BY <1>a, <1>1, <2>1
        DEF StopHealthCheck, Succeeds, TypeOK, ShutdownInv, ReportInv, StartInv
    <2>5. NilIsGraceful'
        BY <1>a, <1>1, <2>1
        DEF StopHealthCheck, Succeeds, TypeOK, CloserInv, ShutdownInv, NilIsGraceful, StartInv
    <2> QED
        BY <2>2, <2>3, <2>4, <2>5 DEF IInv
<1>2. CASE StopConsumer
    <2>1. closer = 2
        BY <1>2 DEF StopConsumer, At, shutdownOrder
    <2>2. TypeOK'
        <3>1. failures' \in {failures, failures \cup {"consumer"}}
            BY <1>2 DEF StopConsumer, Succeeds, Fails
        <3>2. failures' \in SUBSET {"consumer", "server", "close"}
            BY <1>a, <3>1 DEF TypeOK
        <3>3. hasShutdownError' \in {hasShutdownError, TRUE} /\ closer' = closer + 1
              /\ shutdownCtx' = shutdownCtx
            BY <1>2 DEF StopConsumer, Succeeds, Fails, LatchError
        <3>4. hasShutdownError' \in BOOLEAN
            BY <1>a, <3>3 DEF TypeOK
        <3> QED
            BY <1>a, <1>2, <2>1, <3>2, <3>3, <3>4 DEF StopConsumer, TypeOK
    <2>3. StartInv' /\ CloserInv'
        BY <1>a, <1>2, <2>1
        DEF StopConsumer, Succeeds, Fails, LatchError, TypeOK, StartInv, CloserInv
    <2>4. ShutdownInv' /\ ReportInv'
        BY <1>a, <1>2, <2>1
        DEF StopConsumer, Succeeds, Fails, LatchError, TypeOK, ShutdownInv, ReportInv, StartInv
    <2>5. NilIsGraceful'
        BY <1>2 DEF StopConsumer, At, NilIsGraceful
    <2> QED
        BY <2>2, <2>3, <2>4, <2>5 DEF IInv
<1>3. CASE ShutdownServer
    <2>1. closer = 3
        BY <1>3 DEF ShutdownServer, At, shutdownOrder
    <2>2. TypeOK'
        <3>1. failures' \in {failures, failures \cup {"server"}}
            BY <1>3 DEF ShutdownServer, Succeeds, Fails
        <3>2. failures' \in SUBSET {"consumer", "server", "close"}
            BY <1>a, <3>1 DEF TypeOK
        <3>3. hasShutdownError' \in {hasShutdownError, TRUE} /\ closer' = closer + 1
              /\ shutdownCtx' = shutdownCtx
            BY <1>3 DEF ShutdownServer, Succeeds, Fails, LatchError
        <3>4. hasShutdownError' \in BOOLEAN
            BY <1>a, <3>3 DEF TypeOK
        <3> QED
            BY <1>a, <1>3, <2>1, <3>2, <3>3, <3>4 DEF ShutdownServer, TypeOK
    <2>3. StartInv' /\ CloserInv'
        BY <1>a, <1>3, <2>1
        DEF ShutdownServer, Succeeds, Fails, LatchError, TypeOK, StartInv, CloserInv
    <2>4. ShutdownInv' /\ ReportInv'
        BY <1>a, <1>3, <2>1
        DEF ShutdownServer, Succeeds, Fails, LatchError, TypeOK, ShutdownInv, ReportInv, StartInv
    <2>5. NilIsGraceful'
        BY <1>3 DEF ShutdownServer, At, NilIsGraceful
    <2> QED
        BY <2>2, <2>3, <2>4, <2>5 DEF IInv
<1>4. CASE CloseConsumer
    <2>1. closer = 4
        BY <1>4 DEF CloseConsumer, At, shutdownOrder
    <2>2. TypeOK'
        <3>1. failures' \in {failures, failures \cup {"close"}}
            BY <1>4 DEF CloseConsumer, Succeeds, Fails
        <3>2. failures' \in SUBSET {"consumer", "server", "close"}
            BY <1>a, <3>1 DEF TypeOK
        <3>3. hasShutdownError' \in {hasShutdownError, TRUE} /\ closer' = closer + 1
              /\ shutdownCtx' = shutdownCtx
            BY <1>4 DEF CloseConsumer, Succeeds, Fails, LatchError
        <3>4. hasShutdownError' \in BOOLEAN
            BY <1>a, <3>3 DEF TypeOK
        <3> QED
            BY <1>a, <1>4, <2>1, <3>2, <3>3, <3>4 DEF CloseConsumer, TypeOK
    <2>3. StartInv' /\ CloserInv'
        BY <1>a, <1>4, <2>1
        DEF CloseConsumer, Succeeds, Fails, LatchError, TypeOK, StartInv, CloserInv
    <2>4. ShutdownInv' /\ ReportInv'
        BY <1>a, <1>4, <2>1
        DEF CloseConsumer, Succeeds, Fails, LatchError, TypeOK, ShutdownInv, ReportInv, StartInv
    <2>5. NilIsGraceful'
        BY <1>4 DEF CloseConsumer, At, NilIsGraceful
    <2> QED
        BY <2>2, <2>3, <2>4, <2>5 DEF IInv
<1>5. CASE Cancel
    <2>2. TypeOK'
        BY <1>a, <1>5 DEF Cancel, ShutdownCtxDone, TypeOK
    <2>3. StartInv' /\ CloserInv'
        BY <1>a, <1>5 DEF Cancel, ShutdownCtxDone, TypeOK, StartInv, CloserInv
    <2>4. ShutdownInv' /\ ReportInv'
        BY <1>a, <1>5
        DEF Cancel, ShutdownCtxDone, TypeOK, ShutdownInv, ReportInv, StartInv
    <2>5. NilIsGraceful'
        BY <1>a, <1>5
        DEF Cancel, ShutdownCtxDone, TypeOK, CloserInv, ShutdownInv, NilIsGraceful, StartInv
    <2> QED
        BY <2>2, <2>3, <2>4, <2>5 DEF IInv
<1>6. CASE Deadline
    <2>2. TypeOK'
        BY <1>a, <1>6 DEF Deadline, ShutdownCtxDone, TypeOK
    <2>3. StartInv' /\ CloserInv'
        BY <1>a, <1>6 DEF Deadline, ShutdownCtxDone, TypeOK, StartInv, CloserInv
    <2>4. ShutdownInv' /\ ReportInv'
        BY <1>a, <1>6
        DEF Deadline, ShutdownCtxDone, TypeOK, ShutdownInv, ReportInv, StartInv
    <2>5. NilIsGraceful'
        BY <1>a, <1>6
        DEF Deadline, ShutdownCtxDone, TypeOK, CloserInv, ShutdownInv, NilIsGraceful, StartInv
    <2> QED
        BY <2>2, <2>3, <2>4, <2>5 DEF IInv
<1> QED
    BY <1>1, <1>2, <1>3, <1>4, <1>5, <1>6 DEF Close

\* So do the other goroutines, the world, and a stuttering step.
LEMMA OtherStep ==
    ASSUME IInv, \/ ListenAndServe \/ SendError \/ Check \/ Report \/ Work
                 \/ HealthChanges \/ Signal \/ Exited \/ UNCHANGED vars
    PROVE  IInv'
<1> USE DEF running, main, http, health, kafka, shutdown
<1>a. TypeOK /\ StartInv /\ CloserInv /\ ShutdownInv /\ ReportInv /\ NilIsGraceful
    BY DEF IInv
<1>1. CASE ListenAndServe
    <2>2. TypeOK'
        BY <1>a, <1>1 DEF ListenAndServe, TypeOK
    <2>3. StartInv' /\ CloserInv'
        BY <1>a, <1>1 DEF ListenAndServe, TypeOK, StartInv, CloserInv
    <2>4. ShutdownInv' /\ ReportInv'
        BY <1>a, <1>1 DEF ListenAndServe, TypeOK, ShutdownInv, ReportInv, StartInv
    <2>5. NilIsGraceful'
        BY <1>a, <1>1
        DEF ListenAndServe, TypeOK, CloserInv, ShutdownInv, NilIsGraceful, StartInv
    <2> QED
        BY <2>2, <2>3, <2>4, <2>5 DEF IInv
<1>2. CASE SendError
    <2>2. TypeOK'
        BY <1>a, <1>2 DEF SendError, afterError, TypeOK, StartInv
    <2>3. StartInv' /\ CloserInv'
        BY <1>a, <1>2 DEF SendError, afterError, TypeOK, StartInv, CloserInv
    <2>4. ShutdownInv' /\ ReportInv'
        BY <1>a, <1>2 DEF SendError, afterError, TypeOK, ShutdownInv, ReportInv, StartInv
    <2>5. NilIsGraceful'
        BY <1>a, <1>2
        DEF SendError, afterError, TypeOK, CloserInv, ShutdownInv, NilIsGraceful, StartInv
    <2> QED
        BY <2>2, <2>3, <2>4, <2>5 DEF IInv
<1>3. CASE Check
    <2>1. healthCheck' \in {"OK", "notOK"} /\ seenDown' = down
        BY <1>3 DEF Check, healthy
    <2>2. TypeOK'
        BY <1>a, <1>3, <2>1 DEF Check, TypeOK
    <2>3. StartInv' /\ CloserInv'
        BY <1>a, <1>3, <2>1 DEF Check, TypeOK, StartInv, CloserInv
    <2>b. healthCheck' = "OK" => "datasetAPI" \notin seenDown'
        BY <1>3, <2>1 DEF Check, healthy, registered
    <2>4. ShutdownInv' /\ ReportInv'
        BY <1>a, <1>3, <2>1, <2>b DEF Check, TypeOK, ShutdownInv, ReportInv, StartInv
    <2>5. NilIsGraceful'
        BY <1>a, <1>3 DEF Check, TypeOK, CloserInv, ShutdownInv, NilIsGraceful, StartInv
    <2> QED
        BY <2>2, <2>3, <2>4, <2>5 DEF IInv
<1>4. CASE Report
    <2>2. TypeOK'
        BY <1>a, <1>4 DEF Report, subscribed, TypeOK
    <2>3. StartInv' /\ CloserInv'
        BY <1>a, <1>4 DEF Report, subscribed, TypeOK, StartInv, CloserInv
    <2>4. ShutdownInv' /\ ReportInv'
        BY <1>a, <1>4 DEF Report, subscribed, TypeOK, ShutdownInv, ReportInv, StartInv
    <2>5. NilIsGraceful'
        BY <1>a, <1>4
        DEF Report, subscribed, TypeOK, CloserInv, ShutdownInv, NilIsGraceful, StartInv
    <2> QED
        BY <2>2, <2>3, <2>4, <2>5 DEF IInv
<1>5. CASE Work
    <2>2. TypeOK'
        BY <1>a, <1>5 DEF Work, TypeOK
    <2>3. StartInv' /\ CloserInv'
        BY <1>a, <1>5 DEF Work, TypeOK, StartInv, CloserInv
    <2>4. ShutdownInv' /\ ReportInv'
        BY <1>a, <1>5 DEF Work, TypeOK, ShutdownInv, ReportInv, StartInv
    <2>5. NilIsGraceful'
        BY <1>a, <1>5 DEF Work, TypeOK, CloserInv, ShutdownInv, NilIsGraceful, StartInv
    <2> QED
        BY <2>2, <2>3, <2>4, <2>5 DEF IInv
<1>6. CASE HealthChanges
    <2>1. down' \in SUBSET Dependency
        BY <1>a, <1>6 DEF HealthChanges, TypeOK
    <2>2. TypeOK'
        BY <1>a, <1>6, <2>1 DEF HealthChanges, TypeOK
    <2>3. StartInv' /\ CloserInv'
        BY <1>a, <1>6 DEF HealthChanges, TypeOK, StartInv, CloserInv
    <2>4. ShutdownInv' /\ ReportInv'
        BY <1>a, <1>6 DEF HealthChanges, TypeOK, ShutdownInv, ReportInv, StartInv
    <2>5. NilIsGraceful'
        BY <1>a, <1>6
        DEF HealthChanges, TypeOK, CloserInv, ShutdownInv, NilIsGraceful, StartInv
    <2> QED
        BY <2>2, <2>3, <2>4, <2>5 DEF IInv
<1>7. CASE Signal
    <2>2. TypeOK'
        BY <1>a, <1>7 DEF Signal, TypeOK
    <2>3. StartInv' /\ CloserInv'
        BY <1>a, <1>7 DEF Signal, TypeOK, StartInv, CloserInv
    <2>4. ShutdownInv' /\ ReportInv'
        BY <1>a, <1>7 DEF Signal, TypeOK, ShutdownInv, ReportInv, StartInv
    <2>5. NilIsGraceful'
        BY <1>a, <1>7 DEF Signal, TypeOK, CloserInv, ShutdownInv, NilIsGraceful, StartInv
    <2> QED
        BY <2>2, <2>3, <2>4, <2>5 DEF IInv
<1>8. CASE Exited \/ UNCHANGED vars
    <2>1. UNCHANGED <<main, http, health, kafka, shutdown>>
        BY <1>8 DEF Exited, vars
    <2>2. TypeOK'
        BY <1>a, <2>1 DEF TypeOK
    <2>3. StartInv' /\ CloserInv'
        BY <1>a, <1>8 DEF Exited, vars, TypeOK, StartInv, CloserInv
    <2>4. ShutdownInv' /\ ReportInv'
        BY <1>a, <1>8 DEF Exited, vars, TypeOK, ShutdownInv, ReportInv, StartInv
    <2>5. NilIsGraceful'
        BY <1>a, <1>8
        DEF Exited, vars, TypeOK, CloserInv, ShutdownInv, NilIsGraceful, StartInv
    <2> QED
        BY <2>2, <2>3, <2>4, <2>5 DEF IInv
<1> QED
    BY <1>1, <1>2, <1>3, <1>4, <1>5, <1>6, <1>7, <1>8

LEMMA Invariance == Spec => []IInv
<1>1. IInv /\ [Next]_vars => IInv'
    BY RunStep, CloseStep, OtherStep DEF Next
<1> QED
    BY InitIInv, <1>1, PTL DEF Spec

-----------------------------------------------------------------------------
\* Every variable of Service keeps its type; the channel is never over its
\* capacity.
THEOREM TypeCorrect == Spec => []TypeOK
<1>1. IInv => TypeOK
    BY DEF IInv
<1> QED
    BY Invariance, <1>1, PTL

\* A process that ends without error was shut down gracefully.
THEOREM NilIsGracefulHolds == Spec => []NilIsGraceful
<1>1. IInv => NilIsGraceful
    BY DEF IInv
<1> QED
    BY Invariance, <1>1, PTL

\* Only Work hands the worker a message.
LEMMA TakenByWork ==
    ASSUME [Next]_vars, takesMessage
    PROVE  consumer = "consuming"
BY DEF takesMessage, Next, run, ServiceInit, Start, Select, CloseReturns, Close,
       StopHealthCheck, StopConsumer, ShutdownServer, CloseConsumer, Cancel, Deadline,
       ShutdownCtxDone, ListenAndServe, SendError, Check, Report, Work, HealthChanges,
       Signal, Exited, vars, kafka

\* No message is taken once the consumer has been stopped without error.
THEOREM NothingTakenAfterStopHolds == Spec => NothingTakenAfterStop
<1>1. IInv /\ [Next]_vars =>
          [takesMessage => closer <= 2 \/ "consumer" \in failures]_vars
    BY TakenByWork DEF IInv, TypeOK, CloserInv
<1> QED
    BY Invariance, <1>1, PTL DEF Spec, NothingTakenAfterStop

\* No message is taken when the last report was not of good health, or was of a
\* check that found the dataset API down.
THEOREM TakesOnlyWhenHealthyHolds == Spec => TakesOnlyWhenHealthy
<1>1. IInv /\ [Next]_vars =>
          [takesMessage /\ stopConsumingOnUnhealthy =>
              /\ lastReport = "OK"
              /\ healthCheck = "waiting" => "datasetAPI" \notin seenDown]_vars
    BY TakenByWork DEF IInv, TypeOK, ReportInv
<1> QED
    BY Invariance, <1>1, PTL DEF Spec, TakesOnlyWhenHealthy

-----------------------------------------------------------------------------
\* The refinement of Process.

USE DEF life, stoppedConsumer, Contract!Starts, Contract!Shuts, Contract!Ends, Contract!Stops,
        Contract!Reports, Contract!takes, Contract!alive, running

\* The steps of run start the process, shut it down and end it.
LEMMA RunLives ==
    ASSUME IInv, run
    PROVE  /\ life' \in Contract!Starts(life) \cup Contract!Shuts(life)
                          \cup Contract!Ends(life) \cup {life}
           /\ worker' = worker
<1>a. TypeOK /\ StartInv
    BY DEF IInv
<1> USE DEF Goto, kafka, shutdown
<1>1. CASE ServiceInit
    <2>1. life' = life \/ life' = [life EXCEPT !.state = "ended"]
        BY <1>1 DEF ServiceInit
    <2> QED
        BY <1>1, <2>1 DEF ServiceInit
<1>2. CASE Start
    <2>1. CASE Goto("select")
        BY <1>a, <1>2, <2>1 DEF Start, startsAtOnce, StartInv
    <2>2. CASE Goto("error")
        BY <1>2, <2>2 DEF Start
    <2> QED
        BY <1>2, <2>1, <2>2 DEF Start
<1>3. CASE Select
    <2>1. closer = 0 /\ closer' = 1 /\ failures' = failures
        BY <1>a, <1>3 DEF Select, StartInv
    <2>2. life' = [life EXCEPT !.state = "stopping"] /\ life.state = "up"
        BY <1>3, <2>1 DEF Select
    <2> QED
        BY <1>3, <2>2 DEF Select
<1>4. CASE CloseReturns
    <2>1. life' = [life EXCEPT !.state = "ended"] /\ life.state \in {"stopping", "stopped"}
        BY <1>4 DEF CloseReturns
    <2> QED
        BY <1>4, <2>1 DEF CloseReturns
<1> QED
    BY <1>1, <1>2, <1>3, <1>4 DEF run

\* Those of the shutdown stop its consumer, or leave it as it is.
LEMMA CloseLives ==
    ASSUME IInv, Close \/ Deadline
    PROVE  /\ life' \in Contract!Stops(life) \cup Contract!Reports(life) \cup {life}
           /\ worker' = worker
<1>a. TypeOK /\ StartInv /\ CloserInv
    BY DEF IInv
<1> USE DEF main, kafka
<1>1. CASE StopHealthCheck
    <2>1. closer = 1 /\ closer' = 2
        BY <1>1 DEF StopHealthCheck, At, shutdownOrder, Succeeds
    <2> QED
        BY <1>1, <2>1 DEF StopHealthCheck, Succeeds
<1>2. CASE StopConsumer
    <2>1. closer = 2 /\ closer' = 3 /\ pc' = pc
        BY <1>2 DEF StopConsumer, At, shutdownOrder, Succeeds, Fails
    <2>2. life.state = "stopping"
        BY <1>a, <1>2, <2>1 DEF StopConsumer, At, StartInv
    <2> QED
        BY <1>2, <2>1, <2>2 DEF StopConsumer, Succeeds, Fails
<1>3. CASE ShutdownServer
    <2>1. closer = 3 /\ closer' = 4
        BY <1>3 DEF ShutdownServer, At, shutdownOrder, Succeeds, Fails
    <2> QED
        BY <1>3, <2>1 DEF ShutdownServer, Succeeds, Fails
<1>4. CASE CloseConsumer
    <2>1. closer = 4 /\ closer' = 5 /\ pc' = pc
        BY <1>4 DEF CloseConsumer, At, shutdownOrder, Succeeds, Fails
    <2>2. /\ pc \in {"closeOnError", "closeOnSignal"}
          /\ "consumer" \in failures \/ consumer # "consuming"
        <3>1. pc \in {"closeOnError", "closeOnSignal"}
            BY <1>a, <1>4, <2>1 DEF CloseConsumer, At, StartInv, TypeOK
        <3>2. "consumer" \in failures \/ consumer # "consuming"
            BY <1>a, <2>1 DEF CloserInv
        <3> QED
            BY <3>1, <3>2
    <2>3. CASE consumer' = "closed" /\ Succeeds
        BY <1>4, <2>1, <2>2, <2>3 DEF CloseConsumer, Succeeds
    <2>4. CASE UNCHANGED consumer /\ Fails("close")
        BY <1>4, <2>1, <2>2, <2>4 DEF CloseConsumer, Fails
    <2> QED
        BY <1>4, <2>3, <2>4 DEF CloseConsumer
<1>5. CASE Cancel \/ Deadline
    BY <1>a, <1>5 DEF Cancel, Deadline, ShutdownCtxDone
<1> QED
    BY <1>1, <1>2, <1>3, <1>4, <1>5 DEF Close

\* Only a report changes what the consumer takes; only Work changes the worker.
LEMMA OtherLives ==
    ASSUME IInv, \/ ListenAndServe \/ SendError \/ Check \/ Report \/ Work
                 \/ HealthChanges \/ Signal \/ Exited \/ UNCHANGED vars
    PROVE  [Contract!Next]_(Contract!vars)
<1>a. TypeOK /\ StartInv /\ CloserInv
    BY DEF IInv
<1> USE DEF main, kafka, shutdown
<1>1. CASE Report
    <2>1. healthCheck # "stopped" /\ healthCheck # "none"
        BY <1>1 DEF Report
    <2>2. pc \notin {"init", "start"} /\ ~(closer > 2)
        BY <1>a, <2>1 DEF StartInv, CloserInv, TypeOK
    <2>3. life' \in Contract!Reports(life) \cup {life} /\ worker' = worker
        BY <1>a, <1>1, <2>2 DEF Report, TypeOK
    <2> QED
        BY <2>3 DEF Contract!Next, Contract!Lives, Contract!vars
<1>2. CASE Work
    BY <1>a, <1>2 DEF Work, StartInv, CloserInv, Contract!Next, Contract!Take, Contract!Finish
<1>3. CASE ListenAndServe \/ SendError \/ Check \/ HealthChanges \/ Signal
           \/ Exited \/ UNCHANGED vars
    BY <1>3 DEF ListenAndServe, SendError, Check, HealthChanges, Signal, Exited, vars,
                Contract!vars
<1> QED
    BY <1>1, <1>2, <1>3

\* Service implements Process: what System takes for granted of each instance.
THEOREM ProcessImplemented == Spec => ImplementsProcess
<1>1. Init => Contract!Init
    BY DEF Init, Contract!Init, Contract!Fresh
<1>2. IInv /\ [Next]_vars => [Contract!Next]_(Contract!vars)
    <2> SUFFICES ASSUME IInv, [Next]_vars
                 PROVE  [Contract!Next]_(Contract!vars)
        OBVIOUS
    <2>1. CASE run
        BY <2>1, RunLives DEF Contract!Next, Contract!Lives, Contract!vars
    <2>2. CASE Close \/ Deadline
        BY <2>2, CloseLives DEF Contract!Next, Contract!Lives, Contract!vars
    <2> QED
        BY <2>1, <2>2, OtherLives DEF Next
<1> QED
    BY <1>1, <1>2, Invariance, PTL DEF Spec, ImplementsProcess, Contract!Spec
=============================================================================
