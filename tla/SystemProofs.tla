----------------------------- MODULE SystemProofs -----------------------------
(***************************************************************************)
(* What XlsxCreateProofs shows of the handlers holds of them in processes  *)
(* that start, shut down under them, end and are replaced: IInv, the       *)
(* inductive invariant of XlsxCreate, is one of System.                    *)
(***************************************************************************)
EXTENDS System, XlsxCreateProofs

\* The end of a process under its handler keeps the invariant.
LEMMA DieStep ==
    ASSUME IInv, NEW w \in Worker, Die(w), UNCHANGED faults
    PROVE  IInv'
<1> USE NoneAssumption
<1> USE DEF broker, locals, stores, history, busy, ev
<1>a. TypeOK /\ WholeInv /\ ExportInv /\ ReleaseInv /\ AttemptInv /\ IsolationInv /\ LinkInv
    BY DEF IInv
<1>1. TypeOK'
    BY <1>a DEF Die, DropLocals, Goto, Sheet, TypeOK
<1>2. WholeInv'
    BY <1>a, <1>1 DEF Die, DropLocals, Goto, TypeOK, WholeInv, OnlyWholeWorkbooks
<1>3. ExportInv'
    BY <1>a, <1>1 DEF Die, DropLocals, Goto, TypeOK, ExportInv, CommittedIsExportedOrReported
<1>4. ReleaseInv'
    BY <1>a, <1>1 DEF Die, DropLocals, Goto, TypeOK, ReleaseInv, NoPrerelease, PublicLinksStand, isPublic
<1>5. AttemptInv'
    BY <1>a, <1>1 DEF Die, DropLocals, Goto, TypeOK, AttemptInv
<1>6. IsolationInv'
    BY <1>a, <1>1 DEF Die, DropLocals, Goto, TypeOK, IsolationInv, NoOverlap, KeyKept,
        ObjectKept, SizeKept, RecordKept, xlsxObject, xlsxRecord
<1>7. LinkInv'
    BY <1>a, <1>1 DEF Die, DropLocals, Goto, TypeOK, LinkInv, LinksLead, leads, hasWorkbook,
        hasKey
<1> QED
    BY <1>1, <1>2, <1>3, <1>4, <1>5, <1>6, <1>7 DEF IInv

\* So does a message taken from a handler that goes on, and a fault that is none
\* of a handler's.
LEMMA BrokerStep ==
    ASSUME IInv,
           owner' \in [Message -> Worker \cup {None}], faults' \in Nat,
           UNCHANGED <<committed, attempts, pc, locals, stores, history>>
    PROVE  IInv'
<1> USE NoneAssumption
<1> USE DEF broker, locals, stores, history, busy, ev
<1>a. TypeOK /\ WholeInv /\ ExportInv /\ ReleaseInv /\ AttemptInv /\ IsolationInv /\ LinkInv
    BY DEF IInv
<1>1. TypeOK'
    BY <1>a DEF TypeOK
<1>2. WholeInv'
    BY <1>a, <1>1 DEF TypeOK, WholeInv, OnlyWholeWorkbooks
<1>3. ExportInv'
    BY <1>a, <1>1 DEF TypeOK, ExportInv, CommittedIsExportedOrReported
<1>4. ReleaseInv'
    BY <1>a, <1>1 DEF TypeOK, ReleaseInv, NoPrerelease, PublicLinksStand, isPublic
<1>5. AttemptInv'
    BY <1>a, <1>1 DEF TypeOK, AttemptInv
<1>6. IsolationInv'
    BY <1>a, <1>1 DEF TypeOK, IsolationInv, NoOverlap, KeyKept, ObjectKept, SizeKept,
        RecordKept, xlsxObject, xlsxRecord
<1>7. LinkInv'
    BY <1>a, <1>1 DEF TypeOK, LinkInv, LinksLead, leads, hasWorkbook, hasKey
<1> QED
    BY <1>1, <1>2, <1>3, <1>4, <1>5, <1>6, <1>7 DEF IInv

\* And so does a step of XlsxCreate.
LEMMA HandlersStep ==
    ASSUME IInv, [Next]_vars
    PROVE  IInv'
BY TypeStep, WholeStep, ReleaseStep, ExportStep, AttemptStep, IsolationStep, LinkStep
    DEF IInv

LEMMA SystemStep ==
    ASSUME IInv, [SystemNext]_<<vars, system>>
    PROVE  IInv'
<1>1. CASE [Next]_vars
    BY <1>1, HandlersStep
<1>2. ASSUME NEW w \in Worker, Start(w) \/ \E status \in {"consuming", "stopped"} : Report(w, status)
      PROVE  IInv'
    <2>1. owner' \in [Message -> Worker \cup {None}] /\ faults' \in Nat
        BY <1>2 DEF Start, Report, Fault, broker, IInv, TypeOK
    <2> QED
        BY <1>2, <2>1, BrokerStep DEF Start, Report, broker
<1>3. ASSUME NEW w \in Worker, StopConsumer(w)
      PROVE  IInv'
    <2>1. owner' \in [Message -> Worker \cup {None}] /\ faults' \in Nat
        BY <1>3 DEF StopConsumer, IInv, TypeOK
    <2> QED
        BY <1>3, <2>1, BrokerStep DEF StopConsumer
<1>4. ASSUME NEW w \in Worker, EndProcess(w)
      PROVE  IInv'
    BY <1>4, DieStep, HandlersStep DEF EndProcess, goroutinesEnd
<1> QED
    BY <1>1, <1>2, <1>3, <1>4
    DEF SystemNext, Live, BeginShutdown, HandleStep, Kill, NextInstance, DeliverTo,
        Next, Environment, system

\* The invariant of the handlers is one of the system.
LEMMA SystemInvariance == SystemSpec => []IInv
<1>1. SystemInit => IInv
    BY InitIInv DEF SystemInit
<1>2. IInv /\ [SystemNext]_<<vars, system>> => IInv'
    BY SystemStep
<1> QED
    BY <1>1, <1>2, PTL DEF SystemSpec, SystemSafety

\* Whatever the processes go through, an attempt that no conflicting attempt
\* overlaps leaves its object, its key and its record in agreement.
THEOREM IsolatedInDeployment == SystemSpec => []IsolatedExportConsistent
<1>1. ASSUME IInv, NEW w \in Worker, pc[w] = "nil", alone[w]
      PROVE  /\ downloads[TargetOf(ev(w))] = xlsxRecord(w)
             /\ xlsxObject(w) = [by |-> attempt[w], whole |-> TRUE]
             /\ isPublished[w] \/ vault[vaultPathXLSX(ev(w))] = attempt[w]
    BY <1>1 DEF IInv, IsolationInv, KeyKept, ObjectKept, RecordKept, busy
<1>2. IInv => IsolatedExportConsistent
    BY <1>1 DEF IsolatedExportConsistent
<1> QED
    BY SystemInvariance, <1>2, PTL

\* Nor do they bring a cut workbook into a bucket, make public what has not been
\* released, leave a public link under a flag taken back, lose a message, or leave
\* a link without its workbook.
THEOREM SafeInDeployment ==
    SystemSpec => [](/\ OnlyWholeWorkbooks /\ NoPrerelease /\ PublicLinksStand
                     /\ CommittedIsExportedOrReported /\ LinksLead)
<1>1. IInv => /\ OnlyWholeWorkbooks /\ NoPrerelease /\ PublicLinksStand
              /\ CommittedIsExportedOrReported /\ LinksLead
    BY DEF IInv, WholeInv, ReleaseInv, ExportInv, LinkInv
<1> QED
    BY SystemInvariance, <1>1, PTL

\* What a process goes through by itself changes no store and settles no message.
LEMMA LifeUnseen ==
    ASSUME [SystemNext]_<<vars, system>>
    PROVE  [Next]_vars \/ UNCHANGED <<stores, released, committed, reported>>
<1>1. ASSUME NEW w \in Worker,
             \/ Start(w) \/ StopConsumer(w)
             \/ \E status \in {"consuming", "stopped"} : Report(w, status)
      PROVE  UNCHANGED <<stores, released, committed, reported>>
    BY <1>1 DEF Start, StopConsumer, Report, broker, history
<1>2. ASSUME NEW w \in Worker, EndProcess(w)
      PROVE  [Next]_vars \/ UNCHANGED <<stores, released, committed, reported>>
    BY <1>2 DEF EndProcess, goroutinesEnd, Die
<1> QED
    BY <1>1, <1>2
    DEF SystemNext, Live, BeginShutdown, HandleStep, Kill, NextInstance, DeliverTo, Next,
        Environment, system

\* Whatever the processes go through, an observer sees the deployed exporter do
\* what Exports promises.
THEOREM ExportsInDeployment == SystemSpec => ImplementsExports
<1>1. SystemInit => Contract!Init
    BY ExportsInit DEF SystemInit
<1>2. IInv /\ [SystemNext]_<<vars, system>> => [Contract!Next]_Contract!vars
    <2>1. UNCHANGED <<stores, released, committed, reported>> => UNCHANGED Contract!vars
        BY DEF stores, Contract!vars
    <2> QED
        BY <2>1, LifeUnseen, ExportsStep
<1> QED
    BY SystemInvariance, <1>1, <1>2, PTL
    DEF SystemSpec, SystemSafety, ImplementsExports, Contract!Spec

-----------------------------------------------------------------------------
\* What the steps of a process leave of it.
LEMMA LifeSteps ==
    ASSUME NEW p \in ProcessState
    PROVE  /\ \A q \in Starts(p) : q \in ProcessState /\ ~alive(p)
           /\ \A q \in Reports(p) \cup Shuts(p) \cup Stops(p) : q \in ProcessState /\ alive(q)
           /\ \A q \in Ends(p) : q \in ProcessState
           /\ takes(p) => alive(p)
<1> USE DEF ProcessState, alive
<1>1. \A q \in Starts(p) : q \in ProcessState /\ ~alive(p)
    BY DEF Starts
<1>2. \A q \in Reports(p) : q \in ProcessState /\ alive(q)
    BY DEF Reports
<1>3. \A q \in Shuts(p) \cup Stops(p) : q \in ProcessState /\ alive(q)
    BY DEF Shuts, Stops
<1>4. \A q \in Ends(p) : q \in ProcessState
    BY DEF Ends
<1> QED
    BY <1>1, <1>2, <1>3, <1>4 DEF takes

\* A handler moves itself only; the end of its process leaves it idle.
LEMMA HandlerMoves ==
    ASSUME TypeOK, NEW w \in Worker,
           Handle(w) \/ (\E m \in Message : Deliver(w, m)) \/ Die(w)
    PROVE  /\ \A v \in Worker \ {w} : pc'[v] = pc[v]
           /\ Die(w) => pc'[w] = "idle"
<1>1. \E label : Goto(w, label)
    BY DEF Handle, Validate, IsInstancePublished, isFilterPublished, GetState,
       GetCSVtoExcelStructure, AddMetaDataToExcelStructure, WriteKey, UploadXLSXFile,
       GetS3ContentLength, UpdateInstance, UpdateFilterOutput, PutDownload, Return,
       Fail, Deliver, Die
<1>2. \A v \in Worker \ {w} : pc'[v] = pc[v]
    BY <1>1 DEF Goto, TypeOK
<1>3. Die(w) => pc'[w] = "idle"
    BY DEF Die, Goto, TypeOK
<1> QED
    BY <1>2, <1>3

LEMMA SystemTypeStep ==
    ASSUME TypeOK', SystemTypeOK, [SystemNext]_<<vars, system>>
    PROVE  SystemTypeOK'
<1>a. /\ TypeOK
      /\ process \in [Worker -> ProcessState]
      /\ shutdowns \in 0..MaxShutdowns
      /\ \A w \in Worker : pc[w] # "idle" => alive(process[w])
    BY DEF SystemTypeOK
<1> USE ShutdownAssumption DEF Becomes
<1>1. ASSUME NEW w \in Worker, Start(w)
      PROVE  SystemTypeOK'
    BY <1>a, <1>1, LifeSteps DEF Start, SystemTypeOK
<1>2. ASSUME NEW w \in Worker, NEW status \in {"consuming", "stopped"}, Report(w, status)
      PROVE  SystemTypeOK'
    BY <1>a, <1>2, LifeSteps DEF Report, SystemTypeOK
<1>3. ASSUME NEW w \in Worker, BeginShutdown(w)
      PROVE  SystemTypeOK'
    <2>1. pc' = pc
        BY <1>3 DEF BeginShutdown, vars
    <2> QED
        BY <1>a, <1>3, <2>1, LifeSteps DEF BeginShutdown, SystemTypeOK
<1>4. ASSUME NEW w \in Worker, StopConsumer(w)
      PROVE  SystemTypeOK'
    BY <1>a, <1>4, LifeSteps DEF StopConsumer, SystemTypeOK
<1>5. ASSUME NEW w \in Worker, EndProcess(w)
      PROVE  SystemTypeOK'
    <2>1. pc'[w] = "idle" /\ \A v \in Worker \ {w} : pc'[v] = pc[v]
        BY <1>a, <1>5, HandlerMoves DEF EndProcess, goroutinesEnd, vars
    <2> QED
        BY <1>a, <1>5, <2>1, LifeSteps DEF EndProcess, SystemTypeOK
<1>6. ASSUME NEW w \in Worker, Kill(w)
      PROVE  SystemTypeOK'
    <2>1. pc'[w] = "idle" /\ \A v \in Worker \ {w} : pc'[v] = pc[v]
        BY <1>a, <1>6, HandlerMoves DEF Kill, Crash
    <2> QED
        BY <1>a, <1>6, <2>1 DEF Kill, SystemTypeOK, ProcessState
<1>7. ASSUME NEW w \in Worker, NextInstance(w)
      PROVE  SystemTypeOK'
    <2>1. pc' = pc /\ pc[w] = "idle"
        BY <1>a, <1>7 DEF NextInstance, vars, alive
    <2> QED
        BY <1>a, <1>7, <2>1 DEF NextInstance, SystemTypeOK, ProcessState, Fresh
<1>8. ASSUME NEW w \in Worker, HandleStep(w) \/ \E m \in Message : DeliverTo(w, m)
      PROVE  SystemTypeOK'
    <2>1. /\ alive(process[w])
          /\ \A v \in Worker \ {w} : pc'[v] = pc[v]
        BY <1>a, <1>8, HandlerMoves, LifeSteps DEF HandleStep, DeliverTo
    <2> QED
        BY <1>a, <1>8, <2>1 DEF HandleStep, DeliverTo, system, SystemTypeOK
<1>9. CASE UNCHANGED system /\ UNCHANGED pc
    BY <1>a, <1>9 DEF system, SystemTypeOK
<1> QED
    BY <1>1, <1>2, <1>3, <1>4, <1>5, <1>6, <1>7, <1>8, <1>9
    DEF SystemNext, Live, CancelContext, Revoke, Publish, AwaitMessages, vars

\* Every variable keeps its type; no handler outlives its process.
THEOREM SystemTypeCorrect == SystemSpec => []SystemTypeOK
<1>1. SystemInit => SystemTypeOK
    <2> SUFFICES ASSUME SystemInit PROVE SystemTypeOK
        OBVIOUS
    <2>1. TypeOK /\ \A w \in Worker : pc[w] = "idle"
        BY InitType DEF SystemInit, Init
    <2> QED
        BY <2>1, ShutdownAssumption DEF SystemInit, SystemTypeOK, ProcessState, Fresh
<1>2. IInv' /\ SystemTypeOK /\ [SystemNext]_<<vars, system>> => SystemTypeOK'
    BY SystemTypeStep DEF IInv
<1> QED
    BY <1>1, <1>2, SystemInvariance, PTL DEF SystemSpec, SystemSafety
=============================================================================
