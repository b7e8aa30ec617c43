-------------------------------- MODULE Process --------------------------------
(***************************************************************************)
(* What Service promises to the messages: they are handed to its one       *)
(* worker only while its consumer takes them, and no more once it has been *)
(* stopped; the process may end under its worker.  Service implements it;  *)
(* System relies on it.                                                    *)
(***************************************************************************)
EXTENDS ProcessLife

VARIABLES
    process,
    worker     \* idle, or busy with a message

vars == <<process, worker>>

Init == process = Fresh /\ worker = "idle"

Lives ==
    /\ process' \in Starts(process) \cup Reports(process) \cup Shuts(process)
                    \cup Stops(process) \cup Ends(process)
    /\ UNCHANGED worker

Take ==
    /\ takes(process) /\ worker = "idle"
    /\ worker' = "busy"
    /\ UNCHANGED process

Finish ==
    /\ alive(process) /\ worker = "busy"
    /\ worker' = "idle"
    /\ UNCHANGED process

Next == Lives \/ Take \/ Finish

Spec == Init /\ [][Next]_vars
=============================================================================
