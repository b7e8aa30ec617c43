-------------------------------- MODULE Exports --------------------------------
(***************************************************************************)
(* What the exporter promises to those who watch it from outside: who send *)
(* messages, and who read the download records of the APIs.  A record is   *)
(* put for a message, and is public only if its subject's publisher has    *)
(* published it; the record of a filter output comes with the published    *)
(* flag that fits it, which may take an earlier one back.  A message is    *)
(* done with when its record is there, or when its failure has been        *)
(* reported.  No worker, bucket, vault or retry is seen.  XlsxCreate       *)
(* implements it.                                                          *)
(***************************************************************************)
CONSTANTS
    Message, Subject, Target,
    subject,         \* subject[m]: whose published state counts for m
    target,          \* target[m]: whose record m's export puts
    flagged,         \* the messages whose export puts the published flag too
    CommitOnError

VARIABLES
    published,       \* published[s]: what the API shows of s
    released,        \* the subjects their publishers have published
    records,         \* records[t]: none, or the access the record of t gives
    committed,       \* the messages that are done with
    reported         \* the messages a failure has been reported for

vars == <<published, released, records, committed, reported>>

Init ==
    /\ published \in [Subject -> BOOLEAN]
    /\ released = {s \in Subject : published[s]}
    /\ records = [t \in Target |-> "none"]
    /\ committed = {}
    /\ reported = {}

Publish(s) ==
    /\ ~published[s]
    /\ published' = [published EXCEPT ![s] = TRUE]
    /\ released' = released \cup {s}
    /\ UNCHANGED <<records, committed, reported>>

\* The state may have been read before the subject was published.
Export(m) ==
    /\ \E access \in {"private", "public"} :
          /\ access = "public" => subject[m] \in released
          /\ records' = [records EXCEPT ![target[m]] = access]
          /\ published' = IF m \in flagged
                          THEN [published EXCEPT ![subject[m]] = (access = "public")]
                          ELSE published
    /\ UNCHANGED <<released, committed, reported>>

Commit(m) ==
    /\ records[target[m]] # "none"
    /\ committed' = committed \cup {m}
    /\ UNCHANGED <<published, released, records, reported>>

Report(m) ==
    /\ reported' = reported \cup {m}
    /\ committed' \in {committed, IF CommitOnError THEN committed \cup {m} ELSE committed}
    /\ UNCHANGED <<published, released, records>>

Next ==
    \/ \E s \in Subject : Publish(s)
    \/ \E m \in Message : Export(m) \/ Commit(m) \/ Report(m)

Spec == Init /\ [][Next]_vars

\* Every message is done with in the end.
EveryMessageSettles == \A m \in Message : <>(m \in committed)
=============================================================================
