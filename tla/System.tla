--------------------------------- MODULE System ---------------------------------
(***************************************************************************)
(* The exporter as it is deployed: the instances of XlsxCreate, each in a  *)
(* process that lives as Process lets Service live.  A shutdown meets the  *)
(* handler of a message anywhere: Consumer.Stop does not wait for it, the  *)
(* broker may give its message to another instance while it goes on, and   *)
(* the end of the process, by its timeout if need be, ends it.  What ends  *)
(* is replaced by a next instance.                                         *)
(***************************************************************************)
EXTENDS XlsxCreate, ProcessLife

CONSTANT MaxShutdowns    \* bound: shutdowns in one behaviour
ASSUME ShutdownAssumption == MaxShutdowns \in Nat

VARIABLES
    process,      \* process[w]: the life of the process of w
    shutdowns     \* shutdowns so far

system == <<process, shutdowns>>

SystemInit ==
    /\ Init
    /\ process = [w \in Worker |-> Fresh]
    /\ shutdowns = 0

Becomes(w, states) ==
    \E p \in states : p # process[w] /\ process' = [process EXCEPT ![w] = p]

\* Init and Start; a failure ends the process.
Start(w) ==
    /\ Becomes(w, Starts(process[w]))
    /\ IF process'[w].state = "ended" THEN Fault ELSE UNCHANGED faults
    /\ UNCHANGED <<broker, pc, locals, stores, history, shutdowns>>

\* A report starts the consumer, or stops it because a dependency is down.
Report(w, status) ==
    /\ Becomes(w, Reports(process[w]))
    /\ process'[w].consumer = status
    /\ IF status = "stopped" THEN Fault ELSE UNCHANGED faults
    /\ UNCHANGED <<broker, pc, locals, stores, history, shutdowns>>

BeginShutdown(w) ==
    /\ Becomes(w, Shuts(process[w]))
    /\ shutdowns < MaxShutdowns
    /\ shutdowns' = shutdowns + 1
    /\ UNCHANGED vars

\* The handler goes on; its message stays assigned, or is free for others.
StopConsumer(w) ==
    /\ Becomes(w, Stops(process[w]))
    /\ owner' \in {owner, [m \in Message |-> IF owner[m] = w THEN None ELSE owner[m]]}
    /\ UNCHANGED <<committed, attempts, faults, pc, locals, stores, history, shutdowns>>

\* Mutant: run returns, and the handlers go on.
HandlerSurvives(w) == UNCHANGED vars

\* os.Exit, or the return of main, ends every goroutine.
goroutinesEnd(w) ==
    IF pc[w] = "idle" THEN UNCHANGED vars ELSE Die(w) /\ UNCHANGED faults

EndProcess(w) ==
    /\ Becomes(w, Ends(process[w]))
    /\ goroutinesEnd(w)
    /\ UNCHANGED shutdowns

Kill(w) ==
    /\ Crash(w)
    /\ process' = [process EXCEPT ![w].state = "ended"]
    /\ UNCHANGED shutdowns

\* "another/next instance of this service"
NextInstance(w) ==
    /\ process[w].state = "ended"
    /\ process' = [process EXCEPT ![w] = Fresh]
    /\ UNCHANGED <<vars, shutdowns>>

HandleStep(w) == alive(process[w]) /\ Handle(w) /\ UNCHANGED system
DeliverTo(w, m) == takes(process[w]) /\ Deliver(w, m) /\ UNCHANGED system

Live(w) ==
    \/ Start(w) \/ BeginShutdown(w) \/ StopConsumer(w) \/ EndProcess(w)
    \/ \E status \in {"consuming", "stopped"} : Report(w, status)
    \/ HandleStep(w)

SystemNext ==
    \/ \E w \in Worker : Live(w) \/ Kill(w) \/ NextInstance(w)
    \/ \E w \in Worker, m \in Message : DeliverTo(w, m)
    \/ (\E w \in Worker : CancelContext(w)) /\ UNCHANGED system
    \/ (\E m \in Message : Revoke(m)) /\ UNCHANGED system
    \/ (\E s \in Subject : Publish(s)) /\ UNCHANGED system
    \/ AwaitMessages /\ UNCHANGED system

\* Besides what XlsxCreate assumes: a process that starts is up or fails, a
\* healthy one consumes, one that shuts down ends (StopEndsProcess of Service),
\* and the orchestrator replaces it.  Consumer.Stop may hang.
SystemFairness ==
    /\ \A w \in Worker :
          /\ WF_<<vars, system>>(HandleStep(w))
          /\ WF_<<vars, system>>(Start(w))
          /\ WF_<<vars, system>>(process[w].state = "up" /\ Report(w, "consuming"))
          /\ WF_<<vars, system>>(EndProcess(w))
          /\ WF_<<vars, system>>(NextInstance(w))
    /\ \A m \in Message : WF_<<vars, system>>(\E w \in Worker : DeliverTo(w, m))

SystemSafety == SystemInit /\ [][SystemNext]_<<vars, system>>

SystemSpec == SystemSafety /\ SystemFairness

-----------------------------------------------------------------------------
\* Properties, besides those of XlsxCreate.

\* Every variable has its type; a handler runs only in a process that is alive.
SystemTypeOK ==
    /\ TypeOK
    /\ process \in [Worker -> ProcessState]
    /\ shutdowns \in 0..MaxShutdowns
    /\ \A w \in Worker : pc[w] # "idle" => alive(process[w])
=============================================================================
