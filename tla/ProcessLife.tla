------------------------------ MODULE ProcessLife ------------------------------
(***************************************************************************)
(* The life of one process of the service, as far as the messages it takes *)
(* are concerned: what module Process says of Service, and what module     *)
(* System takes for each of its instances.  Each operator gives the states *)
(* one step leads to.                                                      *)
(***************************************************************************)
\* Its consumer hands messages to the worker, or does not, or is stopped for good.
ProcessState == [state : {"starting", "up", "stopping", "stopped", "ended"},
                 consumer : {"stopped", "consuming"}]

Fresh == [state |-> "starting", consumer |-> "stopped"]

takes(p) == p.state \in {"up", "stopping"} /\ p.consumer = "consuming"
alive(p) == p.state \in {"up", "stopping", "stopped"}

\* Init and Start: the process is up, or ends at once.
Starts(p) ==
    {q \in {[state |-> "up", consumer |-> "stopped"], [state |-> "up", consumer |-> "consuming"],
            [p EXCEPT !.state = "ended"]} : p.state = "starting"}

\* A report of the health checker; in the shutdown also the consumer's Close.
Reports(p) ==
    {q \in {[p EXCEPT !.consumer = "stopped"], [p EXCEPT !.consumer = "consuming"]} :
        p.state \in {"up", "stopping"}}

\* A signal, or an error of the server.
Shuts(p) == {q \in {[p EXCEPT !.state = "stopping"]} : p.state = "up"}

\* Consumer.Stop has returned without error.
Stops(p) == {q \in {[state |-> "stopped", consumer |-> "stopped"]} : p.state = "stopping"}

\* Mutant: without a timeout, when a step of Close hangs.
HangsForEver(p) == {}

\* Everything is closed, or the timeout of Close is over.
Ends(p) == {q \in {[p EXCEPT !.state = "ended"]} : p.state \in {"stopping", "stopped"}}
=============================================================================
