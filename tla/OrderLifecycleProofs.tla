------------------------ MODULE OrderLifecycleProofs ------------------------
(***************************************************************************)
(* Theorems about OrderLifecycle, for every set of orders, workers and     *)
(* cancellations and every combination of faults.                          *)
(***************************************************************************)
EXTENDS OrderLifecycle, FiniteSetTheorems, TLAPS

\* A worker past its first save, and before the end of its transaction, holds
\* the lock of the row of its order.
WorkerHoldsLock ==
    \A w \in Workers : wpc[w] \in ExecutingPcs =>
        /\ wOrder[w] \in Orders
        /\ rowLock[wOrder[w]] = w

\* A worker about to place a wallet's BUY has a transfer in hand that no
\* placement has used.
PlacementIsPaid ==
    \A w \in Workers : wpc[w] = "place" /\ wOrder[w] \in Funded =>
        placed[wOrder[w]] < charged[wOrder[w]]

\* A worker about to commit a fill got it from the exchange.
ResultIsBacked ==
    \A w \in Workers : wResult[w] = "filled" =>
        /\ wpc[w] = "commit"
        /\ RealTrading => placed[wOrder[w]] >= 1

ExecutionInv ==
    /\ TypeOK
    /\ WorkerHoldsLock
    /\ PlacementIsPaid
    /\ ChargedBeforePlaced
    /\ ResultIsBacked
    /\ FilledIsBacked

-----------------------------------------------------------------------------
\* Every variable keeps its type, whatever faults occur.
LEMMA InitTypeOK == Init => TypeOK
BY OrderConstants DEF Init, TypeOK, Statuses, JobStates, CreatePcs, WorkerPcs,
                      CancelPcs, Results

LEMMA CreateStepTypeOK ==
    ASSUME TypeOK, NEW o \in Orders, CreateStep(o)
    PROVE  TypeOK'
<1> USE DEF CreateGoto, dbVars, queueVars, workerVars, cancelVars, worldVars
<1>1. CASE ValidateOrder(o)
  BY <1>1 DEF ValidateOrder, TypeOK, CreatePcs
<1>2. CASE InsertOrder(o)
  BY <1>2 DEF InsertOrder, TypeOK, CreatePcs, Statuses
<1>3. CASE EnqueueJob(o)
  BY <1>3 DEF EnqueueJob, TypeOK, CreatePcs, JobStates
<1>4. CASE SetQueued(o)
  BY <1>4 DEF SetQueued, TypeOK, CreatePcs, Statuses
<1>5. CASE AbortCreate(o)
  BY <1>5 DEF AbortCreate, TypeOK, CreatePcs
<1> QED BY <1>1, <1>2, <1>3, <1>4, <1>5 DEF CreateStep, CreateProgress

\* What RecordFailure leaves in the queue's variables.
LEMMA RecordFailureTypes ==
    ASSUME TypeOK, NEW o \in Orders, NEW next \in JobStates, RecordFailure(o, next)
    PROVE  /\ attemptsMade' \in [Orders -> Nat]
           /\ job' \in [Orders -> JobStates]
           /\ jobLock' \in [Orders -> Workers \union {NONE}]
           /\ marking' \in [Orders -> BOOLEAN]
<1>1. attemptsMade' \in [Orders -> Nat]
  BY DEF RecordFailure, TypeOK
<1>2. job' \in [Orders -> JobStates] /\ jobLock' \in [Orders -> Workers \union {NONE}]
  BY DEF RecordFailure, TypeOK
<1>3. marking' \in [Orders -> BOOLEAN]
  <2> DEFINE last == attemptsMade[o] + 1 >= MaxAttempts
  <2>1. marking' = [marking EXCEPT ![o] = marking[o] \/ last]
    BY DEF RecordFailure
  <2>2. (marking[o] \/ last) \in BOOLEAN
    OBVIOUS
  <2> HIDE DEF last
  <2> QED BY <2>1, <2>2, Zenon DEF TypeOK
<1> QED BY <1>1, <1>2, <1>3

LEMMA QueueStepTypeOK ==
    ASSUME TypeOK, NEW o \in Orders, QueueStep(o)
    PROVE  TypeOK'
<1> USE DEF dbVars, queueVars, workerVars, cancelVars, worldVars
<1>1. CASE PromoteJob(o)
  BY <1>1 DEF PromoteJob, TypeOK, JobStates
<1>2. CASE RecoverStalledJob(o)
  <2>1. CASE RecordFailure(o, "failed") /\ UNCHANGED stalls
    BY <1>2, <2>1, RecordFailureTypes DEF RecoverStalledJob, TypeOK, JobStates
  <2>2. CASE /\ stalls' = [stalls EXCEPT ![o] = @ + 1]
             /\ job' = [job EXCEPT ![o] = "waiting"]
             /\ UNCHANGED <<jobLock, attemptsMade, marking>>
    BY <1>2, <2>2 DEF RecoverStalledJob, TypeOK, JobStates
  <2> QED BY <1>2, <2>1, <2>2 DEF RecoverStalledJob
<1>3. CASE MarkAsFailed(o)
  BY <1>3 DEF MarkAsFailed, TypeOK, Statuses
<1>4. CASE LoseJobLock(o)
  BY <1>4 DEF LoseJobLock, TypeOK
<1> QED BY <1>1, <1>2, <1>3, <1>4 DEF QueueStep, QueueProgress

LEMMA WorkerStepTypeOK ==
    ASSUME TypeOK, NEW o \in Orders, NEW w \in Workers, WorkerStep(w, o)
    PROVE  TypeOK'
<1> USE DEF At, Unlock, Finish, WorkerPcs, Results,
            dbVars, queueVars, workerVars, cancelVars, worldVars
<1>1. CASE PickUp(w, o)
  BY <1>1 DEF PickUp, TypeOK, JobStates
<1>2. CASE ReadOrder(w, o)
  BY <1>2 DEF ReadOrder, TypeOK
<1>3. CASE SaveProcessing(w, o)
  BY <1>3 DEF SaveProcessing, TypeOK
<1>4. CASE CheckMarket(w, o)
  BY <1>4 DEF CheckMarket, TypeOK
<1>5. CASE CheckHealth(w, o)
  BY <1>5 DEF CheckHealth, TypeOK
<1>6. CASE TransferUsdc(w, o)
  BY <1>6 DEF TransferUsdc, TypeOK
<1>7. CASE PlaceOrder(w, o)
  BY <1>7 DEF PlaceOrder, TypeOK
<1>8. CASE CommitExecution(w, o)
  BY <1>8 DEF CommitExecution, TypeOK, Statuses
<1>9. CASE AckJob(w, o)
  BY <1>9 DEF AckJob, TypeOK, JobStates
<1>10. CASE FailJob(w, o)
  <2>1. CASE UNCHANGED <<job, jobLock, attemptsMade, marking>>
    BY <1>10, <2>1 DEF FailJob, TypeOK
  <2>2. CASE \E next \in {"delayed", "failed"} : RecordFailure(o, next)
    BY <1>10, <2>2, RecordFailureTypes DEF FailJob, TypeOK, JobStates
  <2> QED BY <1>10, <2>1, <2>2 DEF FailJob
<1>11. CASE RollbackExecution(w, o)
  BY <1>11 DEF RollbackExecution, TypeOK
<1>12. CASE CrashWorker(w, o)
  BY <1>12 DEF CrashWorker, TypeOK
<1> QED BY <1>1, <1>2, <1>3, <1>4, <1>5, <1>6, <1>7, <1>8, <1>9, <1>10, <1>11,
           <1>12 DEF WorkerStep, WorkerProgress

LEMMA CancelStepTypeOK ==
    ASSUME TypeOK, NEW o \in Orders, NEW c \in Cancels, CancelStep(c, o)
    PROVE  TypeOK'
<1> USE DEF CancelAt, CancelGoto, AfterQueue, Unlock, CancelPcs,
            dbVars, queueVars, workerVars, cancelVars, worldVars
<1>1. CASE LockForCancel(c, o)
  BY <1>1 DEF LockForCancel, TypeOK
<1>2. CASE ListJobs(c, o)
  BY <1>2 DEF ListJobs, TypeOK
<1>3. CASE RemoveJob(c, o)
  BY <1>3 DEF RemoveJob, TypeOK, JobStates
<1>4. CASE CancelOnProvider(c, o)
  BY <1>4 DEF CancelOnProvider, TypeOK
<1>5. CASE CommitCancel(c, o)
  BY <1>5 DEF CommitCancel, TypeOK, Statuses
<1>6. CASE RollbackCancel(c, o)
  BY <1>6 DEF RollbackCancel, TypeOK
<1> QED BY <1>1, <1>2, <1>3, <1>4, <1>5, <1>6 DEF CancelStep, CancelProgress

LEMMA NextTypeOK == TypeOK /\ [Next]_vars => TypeOK'
<1> SUFFICES ASSUME TypeOK, [Next]_vars PROVE TypeOK'
  OBVIOUS
<1>1. CASE UNCHANGED vars
  BY <1>1 DEF vars, dbVars, queueVars, workerVars, cancelVars, worldVars, TypeOK
<1>2. CASE ToggleMarket
  BY <1>2 DEF ToggleMarket, dbVars, queueVars, workerVars, cancelVars, TypeOK
<1>3. ASSUME NEW o \in Orders, CreateStep(o) \/ QueueStep(o) PROVE TypeOK'
  BY <1>3, CreateStepTypeOK, QueueStepTypeOK
<1>4. ASSUME NEW o \in Orders, NEW w \in Workers, WorkerStep(w, o) PROVE TypeOK'
  BY <1>4, WorkerStepTypeOK
<1>5. ASSUME NEW o \in Orders, NEW c \in Cancels, CancelStep(c, o) PROVE TypeOK'
  BY <1>5, CancelStepTypeOK
<1> QED BY <1>1, <1>2, <1>3, <1>4, <1>5 DEF Next

\* Type correctness of every reachable state.
THEOREM TypeCorrect == Spec => []TypeOK
BY InitTypeOK, NextTypeOK, PTL DEF Spec

-----------------------------------------------------------------------------
(* The execution invariant: exclusive, paid and backed.                    *)

\* A step that neither runs a worker nor takes a lock from one, and fills no
\* order: every step of a request, of the queue and of the market.
Quiet ==
    /\ UNCHANGED <<workerVars, extId, charged, placed>>
    /\ \A o \in Orders : rowLock[o] \in Workers => rowLock'[o] = rowLock[o]
    /\ \A o \in Orders : status'[o] = "FILLED" => status[o] = "FILLED"

LEMMA QuietKeeps ==
    ASSUME ExecutionInv, TypeOK', Quiet
    PROVE  ExecutionInv'
<1>1. UNCHANGED <<wpc, wOrder, wResult, wExt, extId, charged, placed>>
  BY DEF Quiet, workerVars
<1>2. WorkerHoldsLock'
  BY <1>1 DEF ExecutionInv, WorkerHoldsLock, Quiet
<1>3. PlacementIsPaid' /\ ChargedBeforePlaced' /\ ResultIsBacked'
  BY <1>1 DEF ExecutionInv, PlacementIsPaid, ChargedBeforePlaced, ResultIsBacked
<1>4. FilledIsBacked'
  BY <1>1 DEF ExecutionInv, FilledIsBacked, Quiet
<1> QED BY <1>2, <1>3, <1>4 DEF ExecutionInv

LEMMA CreateStepQuiet ==
    ASSUME TypeOK, NEW o \in Orders, CreateStep(o)
    PROVE  Quiet
BY DEF CreateStep, CreateProgress, ValidateOrder, InsertOrder, EnqueueJob,
       SetQueued, AbortCreate, Quiet, TypeOK, dbVars, worldVars, workerVars

LEMMA QueueStepQuiet ==
    ASSUME TypeOK, NEW o \in Orders, QueueStep(o)
    PROVE  Quiet
BY DEF QueueStep, QueueProgress, PromoteJob, RecoverStalledJob, MarkAsFailed,
       LoseJobLock, Quiet, TypeOK, dbVars, worldVars, workerVars

LEMMA CancelStepQuiet ==
    ASSUME TypeOK, NEW o \in Orders, NEW c \in Cancels, CancelStep(c, o)
    PROVE  Quiet
<1>1. c \notin Workers /\ NONE \notin Workers
  BY OrderConstants
<1>2. CASE LockForCancel(c, o)
  BY <1>1, <1>2 DEF LockForCancel, Quiet, TypeOK, worldVars, workerVars
<1>3. CASE ListJobs(c, o) \/ RemoveJob(c, o) \/ CancelOnProvider(c, o)
  BY <1>3 DEF ListJobs, RemoveJob, CancelOnProvider, Quiet, dbVars, worldVars,
              workerVars
<1>4. CASE CommitCancel(c, o) \/ RollbackCancel(c, o)
  BY <1>1, <1>4 DEF CommitCancel, RollbackCancel, Unlock, Quiet, TypeOK,
                    worldVars, workerVars
<1> QED BY <1>2, <1>3, <1>4 DEF CancelStep, CancelProgress

\* The steps of a worker, one by one.
LEMMA WorkerStepKeeps ==
    ASSUME ExecutionInv, NEW o \in Orders, NEW w \in Workers, WorkerStep(w, o)
    PROVE  ExecutionInv'
<1> USE DEF At, Unlock, Finish, dbVars, queueVars, worldVars
<1>1. TypeOK /\ TypeOK' /\ NONE \notin Workers /\ NONE \notin Orders /\ Funded \subseteq Orders
  BY WorkerStepTypeOK, OrderConstants DEF ExecutionInv
<1> USE <1>1 DEF ExecutionInv
<1>2. CASE PickUp(w, o)
  <2>1. WorkerHoldsLock' /\ PlacementIsPaid'
    BY <1>2 DEF PickUp, WorkerHoldsLock, PlacementIsPaid, ExecutingPcs, TypeOK
  <2>2. ChargedBeforePlaced' /\ ResultIsBacked' /\ FilledIsBacked'
    BY <1>2 DEF PickUp, ChargedBeforePlaced, ResultIsBacked, FilledIsBacked, TypeOK
  <2> QED BY <2>1, <2>2
<1>3. CASE ReadOrder(w, o)
  <2>1. WorkerHoldsLock' /\ PlacementIsPaid'
    BY <1>3 DEF ReadOrder, WorkerHoldsLock, PlacementIsPaid, ExecutingPcs, TypeOK
  <2>2. ChargedBeforePlaced' /\ ResultIsBacked' /\ FilledIsBacked'
    BY <1>3 DEF ReadOrder, ChargedBeforePlaced, ResultIsBacked, FilledIsBacked, TypeOK
  <2> QED BY <2>1, <2>2
<1>4. CASE SaveProcessing(w, o)
  <2>1. WorkerHoldsLock' /\ PlacementIsPaid'
    BY <1>4 DEF SaveProcessing, WorkerHoldsLock, PlacementIsPaid, ExecutingPcs, TypeOK
  <2>2. ChargedBeforePlaced' /\ ResultIsBacked' /\ FilledIsBacked'
    BY <1>4 DEF SaveProcessing, ChargedBeforePlaced, ResultIsBacked, FilledIsBacked,
                TypeOK
  <2> QED BY <2>1, <2>2
<1>5. CASE CheckMarket(w, o)
  <2>1. WorkerHoldsLock' /\ PlacementIsPaid'
    BY <1>5 DEF CheckMarket, WorkerHoldsLock, PlacementIsPaid, ExecutingPcs, TypeOK
  <2>2. ChargedBeforePlaced' /\ ResultIsBacked' /\ FilledIsBacked'
    BY <1>5 DEF CheckMarket, ChargedBeforePlaced, ResultIsBacked, FilledIsBacked, TypeOK
  <2> QED BY <2>1, <2>2
<1>6. CASE CheckHealth(w, o)
  <2>1. WorkerHoldsLock' /\ PlacementIsPaid'
    BY <1>6 DEF CheckHealth, WorkerHoldsLock, PlacementIsPaid, ExecutingPcs, TypeOK
  <2>2. ChargedBeforePlaced' /\ ResultIsBacked' /\ FilledIsBacked'
    BY <1>6 DEF CheckHealth, ChargedBeforePlaced, ResultIsBacked, FilledIsBacked, TypeOK
  <2> QED BY <2>1, <2>2
<1>7. CASE TransferUsdc(w, o)
  <2>1. WorkerHoldsLock'
    BY <1>7 DEF TransferUsdc, WorkerHoldsLock, ExecutingPcs, TypeOK
  <2>2. \A p \in Orders : charged[p] <= charged'[p] /\ placed'[p] = placed[p]
    BY <1>7 DEF TransferUsdc, TypeOK
  <2>3. PlacementIsPaid' /\ ChargedBeforePlaced'
    BY <1>7, <2>2 DEF TransferUsdc, PlacementIsPaid, ChargedBeforePlaced, TypeOK
  <2>4. ResultIsBacked' /\ FilledIsBacked'
    BY <1>7 DEF TransferUsdc, ResultIsBacked, FilledIsBacked, TypeOK
  <2> QED BY <2>1, <2>3, <2>4
<1>8. CASE PlaceOrder(w, o)
  <2>1. WorkerHoldsLock'
    BY <1>8 DEF PlaceOrder, WorkerHoldsLock, ExecutingPcs, TypeOK
  <2>2. \A p \in Orders : /\ placed[p] <= placed'[p] /\ charged'[p] = charged[p]
                          /\ p # o => placed'[p] = placed[p]
    BY <1>8 DEF PlaceOrder, TypeOK
  <2>3. \A v \in Workers \ {w} : wpc[v] = "place" => wOrder[v] # o
    BY <1>8 DEF PlaceOrder, WorkerHoldsLock, ExecutingPcs
  <2>4. PlacementIsPaid'
    BY <1>8, <2>2, <2>3 DEF PlaceOrder, PlacementIsPaid, TypeOK
  <2>5. ChargedBeforePlaced'
    BY <1>8, <2>2 DEF PlaceOrder, PlacementIsPaid, ChargedBeforePlaced, TypeOK
  <2>6. ResultIsBacked'
    BY <1>8, <2>2 DEF PlaceOrder, ResultIsBacked, WorkerHoldsLock, ExecutingPcs, TypeOK
  <2>7. FilledIsBacked'
    BY <1>8, <2>2 DEF PlaceOrder, FilledIsBacked, TypeOK
  <2> QED BY <2>1, <2>4, <2>5, <2>6, <2>7
<1>9. CASE CommitExecution(w, o)
  <2>1. WorkerHoldsLock' /\ PlacementIsPaid'
    BY <1>9 DEF CommitExecution, WorkerHoldsLock, PlacementIsPaid, ExecutingPcs, TypeOK
  <2>2. ChargedBeforePlaced' /\ ResultIsBacked'
    BY <1>9 DEF CommitExecution, ChargedBeforePlaced, ResultIsBacked, TypeOK
  <2>3. FilledIsBacked'
    BY <1>9 DEF CommitExecution, ResultIsBacked, FilledIsBacked, TypeOK
  <2> QED BY <2>1, <2>2, <2>3
<1>10. CASE RollbackExecution(w, o) \/ CrashWorker(w, o)
  <2>1. WorkerHoldsLock' /\ PlacementIsPaid'
    BY <1>10 DEF RollbackExecution, CrashWorker, WorkerHoldsLock, PlacementIsPaid,
                 ExecutingPcs, TypeOK
  <2>2. ChargedBeforePlaced' /\ ResultIsBacked' /\ FilledIsBacked'
    BY <1>10 DEF RollbackExecution, CrashWorker, ChargedBeforePlaced, ResultIsBacked,
                 FilledIsBacked, TypeOK
  <2> QED BY <2>1, <2>2
<1>11. CASE AckJob(w, o) \/ FailJob(w, o)
  <2>1. WorkerHoldsLock' /\ PlacementIsPaid'
    BY <1>11 DEF AckJob, FailJob, WorkerHoldsLock, PlacementIsPaid, ExecutingPcs, TypeOK
  <2>2. ChargedBeforePlaced' /\ ResultIsBacked' /\ FilledIsBacked'
    BY <1>11 DEF AckJob, FailJob, ChargedBeforePlaced, ResultIsBacked, FilledIsBacked,
                 TypeOK
  <2> QED BY <2>1, <2>2
<1> QED BY <1>2, <1>3, <1>4, <1>5, <1>6, <1>7, <1>8, <1>9, <1>10, <1>11
        DEF WorkerStep, WorkerProgress

LEMMA ExecutionInvInit == Init => ExecutionInv
<1> SUFFICES ASSUME Init PROVE ExecutionInv
  OBVIOUS
<1>1. WorkerHoldsLock /\ PlacementIsPaid /\ ResultIsBacked
  BY DEF Init, WorkerHoldsLock, PlacementIsPaid, ResultIsBacked, ExecutingPcs
<1>2. ChargedBeforePlaced /\ FilledIsBacked
  BY OrderConstants DEF Init, ChargedBeforePlaced, FilledIsBacked
<1> QED BY <1>1, <1>2, InitTypeOK DEF ExecutionInv

LEMMA ExecutionInvNext == ExecutionInv /\ [Next]_vars => ExecutionInv'
<1> SUFFICES ASSUME ExecutionInv, [Next]_vars PROVE ExecutionInv'
  OBVIOUS
<1>1. TypeOK /\ TypeOK'
  BY NextTypeOK DEF ExecutionInv
<1>2. CASE UNCHANGED vars \/ ToggleMarket
  BY <1>1, <1>2, QuietKeeps DEF vars, ToggleMarket, dbVars, worldVars, Quiet
<1>3. ASSUME NEW o \in Orders, CreateStep(o) \/ QueueStep(o) PROVE ExecutionInv'
  BY <1>1, <1>3, CreateStepQuiet, QueueStepQuiet, QuietKeeps
<1>4. ASSUME NEW o \in Orders, NEW w \in Workers, WorkerStep(w, o)
      PROVE  ExecutionInv'
  BY <1>4, WorkerStepKeeps
<1>5. ASSUME NEW o \in Orders, NEW c \in Cancels, CancelStep(c, o)
      PROVE  ExecutionInv'
  BY <1>1, <1>5, CancelStepQuiet, QuietKeeps
<1> QED BY <1>2, <1>3, <1>4, <1>5 DEF Next

\* Executions of one order exclude each other, even when a stalled job runs
\* on several workers (processor.process holds the row from its first save).
THEOREM ExecutionsExclude == Spec => []ExecutionExclusive
<1>1. ExecutionInv => ExecutionExclusive
  BY DEF ExecutionInv, WorkerHoldsLock, ExecutionExclusive
<1> QED BY <1>1, ExecutionInvInit, ExecutionInvNext, PTL DEF Spec

\* Every placement for a wallet's BUY is covered by a transfer of its own,
\* through retries, crashes and stalled jobs (executeRealOrder).
THEOREM PlacementsAreCharged == Spec => []ChargedBeforePlaced
<1>1. ExecutionInv => ChargedBeforePlaced
  BY DEF ExecutionInv
<1> QED BY <1>1, ExecutionInvInit, ExecutionInvNext, PTL DEF Spec

\* A FILLED row has an external id and, in real trading, an order the exchange
\* accepted, whatever stale writers do.
THEOREM FillsAreBacked == Spec => []FilledIsBacked
<1>1. ExecutionInv => FilledIsBacked
  BY DEF ExecutionInv
<1> QED BY <1>1, ExecutionInvInit, ExecutionInvNext, PTL DEF Spec

-----------------------------------------------------------------------------
(* Settled orders are inert.                                               *)

\* Before its row is inserted an order is in no queue, on no worker and in no
\* cancellation.
Unborn(o) ==
    /\ status[o] = "ABSENT"
    /\ job[o] = "none"
    /\ marking[o] = FALSE
    /\ \A w \in Workers : wOrder[w] # o
    /\ \A c \in Cancels : xpc[c] \in CancellingPcs => xOrder[c] # o

UnbornInv == \A o \in Orders : cpc[o] \in {"idle", "validated"} => Unborn(o)

LEMMA UnbornInit == Init => UnbornInv
BY OrderConstants DEF Init, UnbornInv, Unborn, CancellingPcs

LEMMA UnbornCreate ==
    ASSUME TypeOK, UnbornInv, NEW p \in Orders, CreateStep(p)
    PROVE  UnbornInv'
<1> USE DEF CreateGoto, TypeOK, UnbornInv, Unborn, dbVars, queueVars, workerVars,
            cancelVars, worldVars
<1>1. CASE ValidateOrder(p)
  BY <1>1 DEF ValidateOrder
<1>2. CASE InsertOrder(p)
  BY <1>2 DEF InsertOrder
<1>3. CASE EnqueueJob(p)
  BY <1>3 DEF EnqueueJob
<1>4. CASE SetQueued(p)
  BY <1>4 DEF SetQueued
<1>5. CASE AbortCreate(p)
  BY <1>5 DEF AbortCreate
<1> QED BY <1>1, <1>2, <1>3, <1>4, <1>5 DEF CreateStep, CreateProgress

\* A step on an order that is born keeps the others unborn.
LEMMA UnbornElsewhere ==
    ASSUME TypeOK, UnbornInv, NEW p \in Orders, ~Unborn(p), UNCHANGED cpc,
           \A o \in Orders \ {p} : Unborn(o) => Unborn(o)'
    PROVE  UnbornInv'
BY DEF UnbornInv

LEMMA UnbornQueue ==
    ASSUME TypeOK, UnbornInv, NEW p \in Orders, QueueStep(p)
    PROVE  UnbornInv'
<1>1. ~Unborn(p)
  BY DEF QueueStep, QueueProgress, PromoteJob, RecoverStalledJob, MarkAsFailed,
         LoseJobLock, Unborn, TypeOK
<1>2. UNCHANGED <<cpc, wOrder, xpc, xOrder>>
  BY DEF QueueStep, QueueProgress, PromoteJob, RecoverStalledJob, MarkAsFailed,
         LoseJobLock, workerVars, cancelVars
<1>3. ASSUME NEW o \in Orders \ {p}
      PROVE  status'[o] = status[o] /\ job'[o] = job[o] /\ marking'[o] = marking[o]
  BY DEF QueueStep, QueueProgress, PromoteJob, RecoverStalledJob, MarkAsFailed,
         LoseJobLock, RecordFailure, TypeOK, dbVars
<1>4. \A o \in Orders \ {p} : Unborn(o) => Unborn(o)'
  BY <1>2, <1>3 DEF Unborn
<1> QED BY <1>1, <1>2, <1>4, UnbornElsewhere

LEMMA UnbornWorker ==
    ASSUME TypeOK, UnbornInv, NEW p \in Orders, NEW w \in Workers, WorkerStep(w, p)
    PROVE  UnbornInv'
<1> USE DEF WorkerStep, WorkerProgress, PickUp, ReadOrder, SaveProcessing,
            CheckMarket, CheckHealth, TransferUsdc, PlaceOrder, CommitExecution,
            RollbackExecution, CrashWorker, AckJob, FailJob, At
<1>1. ~Unborn(p)
  BY DEF Unborn
<1>2. UNCHANGED <<cpc, xpc, xOrder>>
  BY DEF cancelVars
<1>3. ASSUME NEW o \in Orders \ {p}
      PROVE  /\ status'[o] = status[o] /\ job'[o] = job[o]
             /\ marking'[o] = marking[o]
             /\ \A v \in Workers : wOrder'[v] = o => wOrder[v] = o
  BY OrderConstants DEF RecordFailure, TypeOK, dbVars, queueVars
<1> HIDE DEF WorkerStep
<1>4. \A o \in Orders \ {p} : Unborn(o) => Unborn(o)'
  BY <1>2, <1>3 DEF Unborn
<1> QED BY <1>1, <1>2, <1>4, UnbornElsewhere

LEMMA UnbornCancel ==
    ASSUME TypeOK, UnbornInv, NEW p \in Orders, NEW c \in Cancels, CancelStep(c, p)
    PROVE  UnbornInv'
<1> USE DEF CancelStep, CancelProgress, LockForCancel, ListJobs, RemoveJob,
            CancelOnProvider, CommitCancel, RollbackCancel, CancelAt, CancelGoto
<1>1. ~Unborn(p)
  BY DEF Unborn, CancellingPcs
<1>2. UNCHANGED <<cpc, wOrder, marking>>
  BY DEF queueVars, workerVars
<1>3. ASSUME NEW o \in Orders \ {p}
      PROVE  /\ status'[o] = status[o] /\ job'[o] = job[o]
             /\ \A d \in Cancels : xOrder'[d] = o => xOrder[d] = o /\ xpc'[d] = xpc[d]
  BY DEF TypeOK, dbVars, queueVars, CancellingPcs
<1> HIDE DEF CancelStep
<1>4. \A o \in Orders \ {p} : Unborn(o) => Unborn(o)'
  BY <1>2, <1>3 DEF Unborn
<1> QED BY <1>1, <1>2, <1>4, UnbornElsewhere

LEMMA UnbornNext == TypeOK /\ UnbornInv /\ [Next]_vars => UnbornInv'
<1> SUFFICES ASSUME TypeOK, UnbornInv, [Next]_vars PROVE UnbornInv'
  OBVIOUS
<1>1. CASE UNCHANGED vars \/ ToggleMarket
  BY <1>1 DEF vars, ToggleMarket, dbVars, queueVars, workerVars, cancelVars,
              UnbornInv, Unborn
<1>2. ASSUME NEW p \in Orders, CreateStep(p) \/ QueueStep(p) PROVE UnbornInv'
  BY <1>2, UnbornCreate, UnbornQueue
<1>3. ASSUME NEW p \in Orders, NEW w \in Workers, WorkerStep(w, p) PROVE UnbornInv'
  BY <1>3, UnbornWorker
<1>4. ASSUME NEW p \in Orders, NEW c \in Cancels, CancelStep(c, p) PROVE UnbornInv'
  BY <1>4, UnbornCancel
<1> QED BY <1>1, <1>2, <1>3, <1>4 DEF Next

\* What SettledUnclaimedIsInert says of one order and one step.
Inert(o) ==
    /\ status'[o] \in Settled
    /\ ~Claimed(o)'
    /\ charged'[o] = charged[o]
    /\ placed'[o] = placed[o]

LEMMA InertStep ==
    ASSUME TypeOK, UnbornInv, Next,
           NEW o \in Orders, status[o] \in Settled, ~Claimed(o), ~QueueingPending(o)
    PROVE  Inert(o)
<1>1. CASE ToggleMarket
  BY <1>1 DEF ToggleMarket, Inert, Claimed, dbVars, workerVars
<1>2. ASSUME NEW p \in Orders, CreateStep(p) PROVE Inert(o)
  <2>1. UNCHANGED <<wpc, wOrder, charged, placed>>
    BY <1>2 DEF CreateStep, CreateProgress, ValidateOrder, InsertOrder, EnqueueJob,
                SetQueued, AbortCreate, workerVars, worldVars
  <2>2. cpc[o] # "validated"
    BY DEF UnbornInv, Unborn, Settled
  <2>3. status'[o] = status[o]
    BY <1>2, <2>2 DEF CreateStep, CreateProgress, ValidateOrder, InsertOrder,
           EnqueueJob, SetQueued, AbortCreate, CreateGoto, QueueingPending, TypeOK,
           dbVars
  <2> QED BY <2>1, <2>3 DEF Inert, Claimed
<1>3. ASSUME NEW p \in Orders, QueueStep(p) PROVE Inert(o)
  <2>1. UNCHANGED <<wpc, wOrder, charged, placed>>
    BY <1>3 DEF QueueStep, QueueProgress, PromoteJob, RecoverStalledJob, MarkAsFailed,
                LoseJobLock, workerVars, worldVars
  <2>2. status'[o] \in Settled
    BY <1>3 DEF QueueStep, QueueProgress, PromoteJob, RecoverStalledJob, MarkAsFailed,
                LoseJobLock, Settled, TypeOK, dbVars
  <2> QED BY <2>1, <2>2 DEF Inert, Claimed
<1>4. ASSUME NEW p \in Orders, NEW c \in Cancels, CancelStep(c, p) PROVE Inert(o)
  <2>1. UNCHANGED <<wpc, wOrder, charged, placed>>
    BY <1>4 DEF CancelStep, CancelProgress, LockForCancel, ListJobs, RemoveJob,
                CancelOnProvider, CommitCancel, RollbackCancel, workerVars, worldVars
  <2>2. status'[o] \in Settled
    BY <1>4 DEF CancelStep, CancelProgress, LockForCancel, ListJobs, RemoveJob,
                CancelOnProvider, CommitCancel, RollbackCancel, Settled, TypeOK, dbVars
  <2> QED BY <2>1, <2>2 DEF Inert, Claimed
<1>5. ASSUME NEW p \in Orders, NEW w \in Workers, WorkerStep(w, p) PROVE Inert(o)
  <2> USE DEF WorkerStep, WorkerProgress, PickUp, ReadOrder, SaveProcessing,
              CheckMarket, CheckHealth, TransferUsdc, PlaceOrder, CommitExecution,
              RollbackExecution, CrashWorker, AckJob, FailJob, At, Finish
  <2>1. \A v \in Workers : wpc[v] \in ClaimedPcs => wOrder[v] # o
    BY DEF Claimed
  <2>2. /\ status'[o] = status[o]
        /\ charged'[o] = charged[o]
        /\ placed'[o] = placed[o]
    BY <1>5, <2>1 DEF ClaimedPcs, ExecutingPcs, TypeOK, dbVars, worldVars
  <2>3. wpc'[w] \in ClaimedPcs => wOrder'[w] # o
    BY <1>5, <2>1, OrderConstants DEF ClaimedPcs, ExecutingPcs, TypeOK, Settled,
                                     Processable
  <2>4. \A v \in Workers \ {w} : wpc'[v] = wpc[v] /\ wOrder'[v] = wOrder[v]
    BY <1>5 DEF TypeOK
  <2> HIDE DEF WorkerStep
  <2> QED BY <2>1, <2>2, <2>3, <2>4 DEF Inert, Claimed
<1> QED BY <1>1, <1>2, <1>3, <1>4, <1>5 DEF Next

\* A settled order nobody had claimed stays settled, unclaimed, uncharged and
\* unplaced: jobs that outlive a cancellation or a failure do nothing
\* (process skips what isProcessable refuses).
THEOREM SettledOrdersAreInert == Spec => SettledUnclaimedIsInert
<1>1. TypeOK /\ UnbornInv /\ [Next]_vars =>
          [\A o \in Orders :
              status[o] \in Settled /\ ~Claimed(o) /\ ~QueueingPending(o) =>
                  /\ status'[o] \in Settled
                  /\ ~Claimed(o)'
                  /\ charged'[o] = charged[o]
                  /\ placed'[o] = placed[o]]_vars
  BY InertStep DEF Inert
<1> QED BY <1>1, InitTypeOK, NextTypeOK, UnbornInit, UnbornNext, PTL
        DEF Spec, SettledUnclaimedIsInert

-----------------------------------------------------------------------------
(* Executions are bounded by the attempts and the stalls.                  *)

\* Control states of a worker that has still to pay, or to place.
PayPcs == {"read", "save", "market", "health", "transfer"}
PlacePcs == PayPcs \union {"place"}

Ahead(o, pcs) == {w \in Workers : wpc[w] \in pcs /\ wOrder[w] = o}

\* The executions that the attempts and stalls so far account for, and one more
\* while an attempt is left, which may still be waiting in the queue.
Waiting(o) == IF job[o] \in {"delayed", "prioritized", "waiting"} THEN 1 ELSE 0
Budget(o) ==
    attemptsMade[o] + stalls[o] + (IF attemptsMade[o] < MaxAttempts THEN 1 ELSE 0) - Waiting(o)

\* Executions done, and those that running workers may still do.
Counted(o, done, pcs) ==
    IsFiniteSet(Ahead(o, pcs)) /\ done + Cardinality(Ahead(o, pcs)) <= Budget(o)

AttemptFacts ==
    \A o \in Orders :
        /\ attemptsMade[o] <= MaxAttempts /\ stalls[o] <= MaxStalled
        /\ job[o] \in {"delayed", "prioritized", "waiting", "active"} =>
              attemptsMade[o] < MaxAttempts
        /\ jobLock[o] # NONE => job[o] = "active"
        /\ cpc[o] \in {"idle", "validated", "committed"} =>
              /\ job[o] = "none" /\ attemptsMade[o] = 0 /\ charged[o] = 0 /\ placed[o] = 0
              /\ \A w \in Workers : wOrder[w] # o

CountFacts ==
    \A o \in Orders : Counted(o, charged[o], PayPcs) /\ Counted(o, placed[o], PlacePcs)

BoundInv == TypeOK /\ AttemptFacts /\ CountFacts

LEMMA BudgetType ==
    ASSUME TypeOK, NEW o \in Orders
    PROVE  Budget(o) \in Int
BY OrderConstants DEF Budget, Waiting, TypeOK

\* How a worker that comes, or one that goes having done its execution or not,
\* counts against the budget.
LEMMA CountLess ==
    ASSUME NEW S, NEW T, NEW done \in Nat, NEW more \in Nat, NEW b \in Int, NEW c \in Int,
           IsFiniteSet(S), done + Cardinality(S) <= b,
           NEW w \in S, T = S \ {w}, more \in {done, done + 1}, b <= c
    PROVE  IsFiniteSet(T) /\ more + Cardinality(T) <= c
<1>1. IsFiniteSet(T) /\ Cardinality(T) = Cardinality(S) - 1
  BY FS_RemoveElement
<1>2. Cardinality(S) \in Nat
  BY FS_CardinalityType
<1> QED BY <1>1, <1>2

LEMMA CountMore ==
    ASSUME NEW S, NEW T, NEW done \in Nat, NEW b \in Int, NEW c \in Int,
           IsFiniteSet(S), done + Cardinality(S) <= b,
           NEW w, T = S \union {w}, b + 1 <= c
    PROVE  IsFiniteSet(T) /\ done + Cardinality(T) <= c
<1>1. IsFiniteSet(T) /\ Cardinality(T) \in {Cardinality(S), Cardinality(S) + 1}
  BY FS_AddElement
<1>2. Cardinality(S) \in Nat
  BY FS_CardinalityType
<1> QED BY <1>1, <1>2

LEMMA CountSame ==
    ASSUME NEW S, NEW done \in Nat, NEW b \in Int, NEW c \in Int,
           IsFiniteSet(S), done + Cardinality(S) <= b, b <= c
    PROVE  done + Cardinality(S) <= c
<1>1. Cardinality(S) \in Nat
  BY FS_CardinalityType
<1> QED BY <1>1

LEMMA BoundInit == Init => AttemptFacts /\ CountFacts
<1> SUFFICES ASSUME Init PROVE AttemptFacts /\ CountFacts
  OBVIOUS
<1>1. AttemptFacts
  BY OrderConstants DEF Init, AttemptFacts
<1>2. \A o \in Orders : Ahead(o, PayPcs) = {} /\ Ahead(o, PlacePcs) = {}
  BY DEF Init, Ahead, PayPcs, PlacePcs
<1>3. \A o \in Orders : Budget(o) = 1
  BY OrderConstants DEF Init, Budget, Waiting
<1>4. IsFiniteSet({}) /\ Cardinality({}) = 0
  BY FS_EmptySet
<1>5. \A o \in Orders : charged[o] = 0 /\ placed[o] = 0
  BY DEF Init
<1>6. ASSUME NEW o \in Orders
      PROVE  Counted(o, charged[o], PayPcs) /\ Counted(o, placed[o], PlacePcs)
  <2>1. 0 + Cardinality({}) <= Budget(o)
    BY <1>3, <1>4
  <2> QED BY <1>2, <1>4, <1>5, <2>1 DEF Counted
<1> QED BY <1>1, <1>6 DEF CountFacts

\* Steps that leave the workers, the chain and the exchange alone: no budget
\* shrinks, but that of an order without workers.
LEMMA CountQuiet ==
    ASSUME BoundInv, TypeOK', UNCHANGED <<wpc, wOrder, charged, placed>>,
           \A o \in Orders : \/ Budget(o) <= Budget(o)'
                             \/ cpc[o] = "committed" /\ 0 <= Budget(o)'
    PROVE  CountFacts'
<1> SUFFICES ASSUME NEW o \in Orders
             PROVE  Counted(o, charged[o], PayPcs)' /\ Counted(o, placed[o], PlacePcs)'
  BY DEF CountFacts
<1>1. Ahead(o, PayPcs)' = Ahead(o, PayPcs) /\ Ahead(o, PlacePcs)' = Ahead(o, PlacePcs)
  BY DEF Ahead
<1>2. /\ charged[o] \in Nat /\ placed[o] \in Nat
      /\ charged'[o] = charged[o] /\ placed'[o] = placed[o]
  BY DEF BoundInv, TypeOK
<1>3. Budget(o) \in Int /\ Budget(o)' \in Int
  <2>1. Budget(o) \in Int
    BY BudgetType DEF BoundInv
  <2>2. Budget(o)' \in Int
    BY OrderConstants DEF Budget, Waiting, TypeOK
  <2> QED BY <2>1, <2>2
<1>4. Counted(o, charged[o], PayPcs) /\ Counted(o, placed[o], PlacePcs)
  BY DEF BoundInv, CountFacts
<1>5. CASE Budget(o) <= Budget(o)'
  <2>1. /\ IsFiniteSet(Ahead(o, PayPcs)) /\ charged[o] + Cardinality(Ahead(o, PayPcs)) <= Budget(o)'
        /\ IsFiniteSet(Ahead(o, PlacePcs)) /\ placed[o] + Cardinality(Ahead(o, PlacePcs)) <= Budget(o)'
    BY <1>2, <1>3, <1>4, <1>5, CountSame DEF Counted
  <2> QED BY <1>1, <1>2, <2>1 DEF Counted
<1>6. CASE cpc[o] = "committed" /\ 0 <= Budget(o)'
  <2>1. /\ Ahead(o, PayPcs) = {} /\ Ahead(o, PlacePcs) = {}
        /\ charged[o] = 0 /\ placed[o] = 0
    BY <1>6 DEF BoundInv, AttemptFacts, Ahead
  <2>2. IsFiniteSet({}) /\ Cardinality({}) = 0
    BY FS_EmptySet
  <2>3. 0 + Cardinality({}) <= Budget(o)'
    BY <1>3, <1>6, <2>2
  <2> QED BY <1>1, <1>2, <2>1, <2>2, <2>3 DEF Counted
<1> QED BY <1>5, <1>6

\* Worker w goes on with its order, having executed at most once, or leaves it.
Advances(w, pcs) == wpc'[w] \in pcs => wpc[w] \in pcs
Done(w, done, more, pcs) ==
    \/ more = done
    \/ more = done + 1 /\ wpc[w] \in pcs /\ wpc'[w] \notin pcs

\* Where a worker's step may take it within its transaction.
Moves(w) ==
    \/ wpc'[w] \in {"commit", "ack", "throw"}
    \/ wpc[w] = "read" /\ wpc'[w] = "save"
    \/ wpc[w] = "save" /\ wpc'[w] = "market"
    \/ wpc[w] = "market" /\ wpc'[w] = "health"
    \/ wpc[w] = "health" /\ wpc'[w] \in {"transfer", "place"}
    \/ wpc[w] = "transfer" /\ wpc'[w] = "place"

LEMMA CountOne ==
    ASSUME BoundInv, TypeOK', NEW w \in Workers, NEW o \in Orders, NEW pcs,
           NEW done \in Nat, NEW more \in Nat,
           wOrder[w] \in Orders,
           \A v \in Workers \ {w} : wpc'[v] = wpc[v] /\ wOrder'[v] = wOrder[v],
           wOrder'[w] = wOrder[w] \/ wpc'[w] \notin pcs,
           Advances(w, pcs),
           IF o = wOrder[w] THEN Done(w, done, more, pcs) ELSE more = done,
           Counted(o, done, pcs), Budget(o) <= Budget(o)'
    PROVE  IsFiniteSet(Ahead(o, pcs)') /\ more + Cardinality(Ahead(o, pcs)') <= Budget(o)'
<1>1. Budget(o) \in Int /\ Budget(o)' \in Int
  <2>1. Budget(o) \in Int
    BY BudgetType DEF BoundInv
  <2>2. Budget(o)' \in Int
    BY OrderConstants DEF Budget, Waiting, TypeOK
  <2> QED BY <2>1, <2>2
<1>2. CASE w \in Ahead(o, pcs) /\ wpc'[w] \notin pcs
  <2>1. Ahead(o, pcs)' = Ahead(o, pcs) \ {w}
    BY <1>2 DEF Ahead
  <2>2. more \in {done, done + 1}
    BY DEF Done
  <2> QED BY <1>1, <1>2, <2>1, <2>2, CountLess DEF Counted
<1>3. CASE ~(w \in Ahead(o, pcs) /\ wpc'[w] \notin pcs)
  <2>1. Ahead(o, pcs)' = Ahead(o, pcs)
    BY <1>3 DEF Ahead, Advances
  <2>2. more = done
    BY <1>3 DEF Ahead, Done
  <2> QED BY <1>1, <2>1, <2>2, CountSame DEF Counted
<1> QED BY <1>2, <1>3

LEMMA CountWorker ==
    ASSUME BoundInv, TypeOK', NEW w \in Workers,
           wOrder[w] \in Orders,
           \A v \in Workers \ {w} : wpc'[v] = wpc[v] /\ wOrder'[v] = wOrder[v],
           wOrder'[w] = wOrder[w] \/ wpc'[w] \in {"idle", "ack", "throw"},
           Advances(w, PayPcs), Advances(w, PlacePcs),
           \A o \in Orders :
              IF o = wOrder[w] THEN /\ Done(w, charged[o], charged'[o], PayPcs)
                                    /\ Done(w, placed[o], placed'[o], PlacePcs)
                               ELSE charged'[o] = charged[o] /\ placed'[o] = placed[o],
           \A o \in Orders : Budget(o) <= Budget(o)'
    PROVE  CountFacts'
<1> SUFFICES ASSUME NEW o \in Orders
             PROVE  Counted(o, charged[o], PayPcs)' /\ Counted(o, placed[o], PlacePcs)'
  BY DEF CountFacts
<1>1. /\ charged[o] \in Nat /\ placed[o] \in Nat
      /\ charged'[o] \in Nat /\ placed'[o] \in Nat
  BY DEF BoundInv, TypeOK
<1>2. Counted(o, charged[o], PayPcs) /\ Counted(o, placed[o], PlacePcs)
  BY DEF BoundInv, CountFacts
<1>3. \A pcs \in {PayPcs, PlacePcs} : wOrder'[w] = wOrder[w] \/ wpc'[w] \notin pcs
  BY DEF PayPcs, PlacePcs
<1>4. /\ IsFiniteSet(Ahead(o, PayPcs)')
      /\ charged'[o] + Cardinality(Ahead(o, PayPcs)') <= Budget(o)'
  BY <1>1, <1>2, <1>3, CountOne
<1>5. /\ IsFiniteSet(Ahead(o, PlacePcs)')
      /\ placed'[o] + Cardinality(Ahead(o, PlacePcs)') <= Budget(o)'
  BY <1>1, <1>2, <1>3, CountOne
<1> QED BY <1>4, <1>5 DEF Counted

-----------------------------------------------------------------------------
LEMMA BoundCreate ==
    ASSUME BoundInv, TypeOK', NEW o \in Orders, CreateStep(o)
    PROVE  AttemptFacts' /\ CountFacts'
<1> USE DEF CreateGoto, dbVars, queueVars, workerVars, worldVars, BoundInv, TypeOK
<1>1. CASE EnqueueJob(o)
  <2>1. AttemptFacts'
    BY OrderConstants, <1>1 DEF EnqueueJob, AttemptFacts
  <2>2. \A p \in Orders : \/ Budget(p) <= Budget(p)'
                          \/ cpc[p] = "committed" /\ 0 <= Budget(p)'
    BY OrderConstants, <1>1 DEF EnqueueJob, AttemptFacts, Budget, Waiting
  <2> QED BY <1>1, <2>1, <2>2, CountQuiet DEF EnqueueJob
<1>2. CASE ~EnqueueJob(o)
  <2>1. UNCHANGED <<queueVars, workerVars, worldVars>>
    BY <1>2 DEF CreateStep, CreateProgress, ValidateOrder, InsertOrder, SetQueued, AbortCreate
  <2>2. AttemptFacts'
    BY <1>2, <2>1 DEF CreateStep, CreateProgress, ValidateOrder, InsertOrder, SetQueued,
                      AbortCreate, AttemptFacts
  <2>3. \A p \in Orders : Budget(p) <= Budget(p)'
    BY OrderConstants, <2>1 DEF Budget, Waiting
  <2> QED BY <2>1, <2>2, <2>3, CountQuiet
<1> QED BY <1>1, <1>2

LEMMA BoundQueue ==
    ASSUME BoundInv, TypeOK', NEW o \in Orders, QueueStep(o)
    PROVE  AttemptFacts' /\ CountFacts'
<1> USE DEF dbVars, queueVars, workerVars, worldVars, BoundInv, TypeOK
<1>1. CASE PromoteJob(o)
  <2>1. AttemptFacts'
    BY <1>1 DEF PromoteJob, AttemptFacts
  <2>2. \A p \in Orders : Budget(p) <= Budget(p)'
    BY OrderConstants, <1>1 DEF PromoteJob, Budget, Waiting
  <2> QED BY <1>1, <2>1, <2>2, CountQuiet DEF PromoteJob
<1>2. CASE RecoverStalledJob(o)
  <2>1. AttemptFacts'
    BY OrderConstants, <1>2 DEF RecoverStalledJob, RecordFailure, AttemptFacts
  <2>2. \A p \in Orders : Budget(p) <= Budget(p)'
    BY OrderConstants, <1>2 DEF RecoverStalledJob, RecordFailure, AttemptFacts, Budget, Waiting
  <2> QED BY <1>2, <2>1, <2>2, CountQuiet DEF RecoverStalledJob
<1>3. CASE MarkAsFailed(o)
  <2>1. AttemptFacts'
    BY <1>3 DEF MarkAsFailed, AttemptFacts
  <2>2. \A p \in Orders : Budget(p) <= Budget(p)'
    BY OrderConstants, <1>3 DEF MarkAsFailed, Budget, Waiting
  <2> QED BY <1>3, <2>1, <2>2, CountQuiet DEF MarkAsFailed
<1>4. CASE LoseJobLock(o)
  <2>1. AttemptFacts'
    BY <1>4 DEF LoseJobLock, AttemptFacts
  <2>2. \A p \in Orders : Budget(p) <= Budget(p)'
    BY OrderConstants, <1>4 DEF LoseJobLock, Budget, Waiting
  <2> QED BY <1>4, <2>1, <2>2, CountQuiet DEF LoseJobLock
<1> QED BY <1>1, <1>2, <1>3, <1>4 DEF QueueStep, QueueProgress

LEMMA BoundCancel ==
    ASSUME BoundInv, TypeOK', NEW o \in Orders, NEW c \in Cancels, CancelStep(c, o)
    PROVE  AttemptFacts' /\ CountFacts'
<1> USE DEF CancelGoto, CancelAt, dbVars, queueVars, workerVars, worldVars, BoundInv, TypeOK
<1>1. CASE RemoveJob(c, o)
  <2>1. AttemptFacts'
    BY <1>1 DEF RemoveJob, AttemptFacts
  <2>2. \A p \in Orders : Budget(p) <= Budget(p)'
    BY OrderConstants, <1>1 DEF RemoveJob, Budget, Waiting
  <2> QED BY <1>1, <2>1, <2>2, CountQuiet DEF RemoveJob
<1>2. CASE ~RemoveJob(c, o)
  <2>1. UNCHANGED <<queueVars, cpc, workerVars, worldVars>>
    BY <1>2 DEF CancelStep, CancelProgress, LockForCancel, ListJobs, CancelOnProvider,
                CommitCancel, RollbackCancel
  <2>2. AttemptFacts'
    BY <2>1 DEF AttemptFacts
  <2>3. \A p \in Orders : Budget(p) <= Budget(p)'
    BY OrderConstants, <2>1 DEF Budget, Waiting
  <2> QED BY <2>1, <2>2, <2>3, CountQuiet
<1> QED BY <1>1, <1>2

LEMMA BoundPickUp ==
    ASSUME BoundInv, TypeOK', NEW o \in Orders, NEW w \in Workers, PickUp(w, o)
    PROVE  AttemptFacts' /\ CountFacts'
<1> USE DEF dbVars, worldVars, BoundInv, TypeOK
<1>1. AttemptFacts'
  BY DEF PickUp, AttemptFacts
<1> SUFFICES ASSUME NEW p \in Orders
             PROVE  Counted(p, charged[p], PayPcs)' /\ Counted(p, placed[p], PlacePcs)'
  BY <1>1 DEF CountFacts
<1>2. /\ charged[p] \in Nat /\ placed[p] \in Nat
      /\ charged'[p] = charged[p] /\ placed'[p] = placed[p]
  BY DEF PickUp
<1>3. Budget(p) \in Int /\ Budget(p)' \in Int
  <2>1. Budget(p) \in Int
    BY BudgetType
  <2>2. Budget(p)' \in Int
    BY OrderConstants DEF Budget, Waiting
  <2> QED BY <2>1, <2>2
<1>4. Counted(p, charged[p], PayPcs) /\ Counted(p, placed[p], PlacePcs)
  BY DEF CountFacts
<1>5. CASE p = o
  <2>1. Budget(p) + 1 <= Budget(p)'
    BY OrderConstants, <1>5 DEF PickUp, Budget, Waiting
  <2>2. /\ Ahead(p, PayPcs)' = Ahead(p, PayPcs) \union {w}
        /\ Ahead(p, PlacePcs)' = Ahead(p, PlacePcs) \union {w}
    BY <1>5 DEF PickUp, Ahead, PayPcs, PlacePcs
  <2> QED BY <1>2, <1>3, <1>4, <2>1, <2>2, CountMore DEF Counted
<1>6. CASE p # o
  <2>1. Budget(p) <= Budget(p)'
    BY OrderConstants, <1>6 DEF PickUp, Budget, Waiting
  <2>2. /\ Ahead(p, PayPcs)' = Ahead(p, PayPcs)
        /\ Ahead(p, PlacePcs)' = Ahead(p, PlacePcs)
    BY <1>6 DEF PickUp, Ahead, PayPcs, PlacePcs
  <2> QED BY <1>2, <1>3, <1>4, <2>1, <2>2, CountSame DEF Counted
<1> QED BY <1>5, <1>6

\* A worker that reads, saves, checks, pays, places, commits or rolls back
\* leaves the queue alone.
LEMMA BoundExecution ==
    ASSUME BoundInv, TypeOK', NEW o \in Orders, NEW w \in Workers,
           \/ ReadOrder(w, o) \/ SaveProcessing(w, o) \/ CheckMarket(w, o)
           \/ CheckHealth(w, o) \/ TransferUsdc(w, o) \/ PlaceOrder(w, o)
           \/ CommitExecution(w, o) \/ RollbackExecution(w, o)
    PROVE  AttemptFacts' /\ CountFacts'
<1>1. UNCHANGED <<queueVars, cpc, wOrder>> /\ wOrder[w] = o
  BY DEF ReadOrder, SaveProcessing, CheckMarket, CheckHealth, TransferUsdc, PlaceOrder,
         CommitExecution, RollbackExecution, At
<1>2. /\ wpc \in [Workers -> WorkerPcs]
      /\ charged \in [Orders -> Nat] /\ placed \in [Orders -> Nat]
  BY DEF BoundInv, TypeOK
<1>3. /\ \A v \in Workers \ {w} : wpc'[v] = wpc[v]
      /\ Moves(w)
      /\ charged' \in {charged, [charged EXCEPT ![o] = @ + 1]}
      /\ placed' \in {placed, [placed EXCEPT ![o] = @ + 1]}
      /\ charged' = charged \/ wpc[w] = "transfer"
      /\ placed' = placed \/ wpc[w] = "place"
  <2> USE <1>2 DEF At, Finish, Moves, worldVars
  <2>1. CASE ReadOrder(w, o)
    BY <2>1 DEF ReadOrder
  <2>2. CASE SaveProcessing(w, o)
    BY <2>2 DEF SaveProcessing
  <2>3. CASE CheckMarket(w, o)
    BY <2>3 DEF CheckMarket
  <2>4. CASE CheckHealth(w, o)
    BY <2>4 DEF CheckHealth
  <2>5. CASE TransferUsdc(w, o)
    BY <2>5 DEF TransferUsdc
  <2>6. CASE PlaceOrder(w, o)
    BY <2>6 DEF PlaceOrder
  <2>7. CASE CommitExecution(w, o)
    BY <2>7 DEF CommitExecution
  <2>8. CASE RollbackExecution(w, o)
    BY <2>8 DEF RollbackExecution
  <2> QED BY <2>1, <2>2, <2>3, <2>4, <2>5, <2>6, <2>7, <2>8
<1>4. AttemptFacts'
  <2>1. UNCHANGED <<job, jobLock, attemptsMade, stalls, cpc, wOrder>>
    BY <1>1 DEF queueVars
  <2>2. \A p \in Orders : cpc[p] \in {"idle", "validated", "committed"} => p # o
    BY <1>1 DEF BoundInv, AttemptFacts
  <2>3. \A p \in Orders \ {o} : charged'[p] = charged[p] /\ placed'[p] = placed[p]
    BY <1>2, <1>3
  <2> QED BY <2>1, <2>2, <2>3 DEF BoundInv, AttemptFacts
<1>5. \A p \in Orders : Budget(p) <= Budget(p)'
  BY OrderConstants, <1>1 DEF Budget, Waiting, BoundInv, TypeOK, queueVars
<1>6. Advances(w, PayPcs) /\ Advances(w, PlacePcs)
  BY <1>3 DEF Moves, Advances, PayPcs, PlacePcs
<1>7. /\ Done(w, charged[o], charged'[o], PayPcs)
      /\ Done(w, placed[o], placed'[o], PlacePcs)
  BY <1>2, <1>3 DEF Moves, Done, PayPcs, PlacePcs
<1>8. \A p \in Orders \ {o} : charged'[p] = charged[p] /\ placed'[p] = placed[p]
  BY <1>2, <1>3
<1>9. CountFacts'
  BY <1>1, <1>3, <1>5, <1>6, <1>7, <1>8, CountWorker
<1> QED BY <1>4, <1>9

\* A worker that is through, or dies.
LEMMA BoundLeave ==
    ASSUME BoundInv, TypeOK', NEW o \in Orders, NEW w \in Workers,
           AckJob(w, o) \/ FailJob(w, o) \/ CrashWorker(w, o)
    PROVE  AttemptFacts' /\ CountFacts'
<1> USE DEF At, dbVars, queueVars, worldVars, BoundInv, TypeOK
<1>1. /\ wOrder[w] = o /\ wpc'[w] = "idle"
      /\ \A v \in Workers \ {w} : wpc'[v] = wpc[v] /\ wOrder'[v] = wOrder[v]
      /\ UNCHANGED <<charged, placed>>
  BY DEF AckJob, FailJob, CrashWorker
<1>2. AttemptFacts'
  <2>1. CASE AckJob(w, o)
    BY OrderConstants, <2>1 DEF AckJob, AttemptFacts
  <2>2. CASE FailJob(w, o)
    BY OrderConstants, <2>2 DEF FailJob, RecordFailure, AttemptFacts
  <2>3. CASE CrashWorker(w, o)
    BY OrderConstants, <2>3 DEF CrashWorker, AttemptFacts
  <2> QED BY <2>1, <2>2, <2>3
<1>3. \A p \in Orders : Budget(p) <= Budget(p)'
  <2>1. CASE AckJob(w, o)
    BY OrderConstants, <2>1 DEF AckJob, Budget, Waiting
  <2>2. CASE FailJob(w, o)
    BY OrderConstants, <2>2 DEF FailJob, RecordFailure, AttemptFacts, Budget, Waiting
  <2>3. CASE CrashWorker(w, o)
    BY OrderConstants, <2>3 DEF CrashWorker, Budget, Waiting
  <2> QED BY <2>1, <2>2, <2>3
<1>4. Advances(w, PayPcs) /\ Advances(w, PlacePcs)
  BY <1>1 DEF Advances, PayPcs, PlacePcs
<1>5. \A p \in Orders : /\ charged'[p] = charged[p] /\ placed'[p] = placed[p]
                        /\ Done(w, charged[p], charged'[p], PayPcs)
                        /\ Done(w, placed[p], placed'[p], PlacePcs)
  BY <1>1 DEF Done
<1> HIDE DEF BoundInv, TypeOK
<1>6. CountFacts'
  BY <1>1, <1>3, <1>4, <1>5, CountWorker
<1> QED BY <1>2, <1>6

LEMMA BoundNext == BoundInv /\ TypeOK' /\ [Next]_vars => AttemptFacts' /\ CountFacts'
<1> SUFFICES ASSUME BoundInv, TypeOK', [Next]_vars
             PROVE  AttemptFacts' /\ CountFacts'
  OBVIOUS
<1>1. ASSUME NEW o \in Orders, NEW w \in Workers, WorkerStep(w, o)
      PROVE  AttemptFacts' /\ CountFacts'
  BY <1>1, BoundPickUp, BoundExecution, BoundLeave DEF WorkerStep, WorkerProgress
<1>2. CASE ToggleMarket \/ UNCHANGED vars
  <2>1. UNCHANGED <<queueVars, cpc, workerVars, charged, placed>>
    BY <1>2 DEF ToggleMarket, vars, worldVars
  <2>2. AttemptFacts'
    BY <2>1 DEF AttemptFacts, BoundInv, queueVars, workerVars
  <2>3. \A p \in Orders : Budget(p) <= Budget(p)'
    BY OrderConstants, <2>1 DEF Budget, Waiting, BoundInv, TypeOK, queueVars
  <2> QED BY <2>1, <2>2, <2>3, CountQuiet DEF workerVars
<1> QED BY <1>1, <1>2, BoundCreate, BoundQueue, BoundCancel DEF Next

\* Whatever fails, however often a job is retried or redelivered and whoever
\* still runs it: an order is charged and placed at most once per attempt and
\* tolerated stall (queueOrder's options, executeRealOrder).
THEOREM ExecutionsAreBounded == Spec => []ExecutionsBounded
<1>1. BoundInv => ExecutionsBounded
  <2> SUFFICES ASSUME BoundInv, NEW o \in Orders
               PROVE  /\ charged[o] <= MaxAttempts + MaxStalled
                      /\ placed[o] <= MaxAttempts + MaxStalled
    BY DEF ExecutionsBounded
  <2>1. Budget(o) \in Int /\ Budget(o) <= MaxAttempts + MaxStalled
    BY OrderConstants DEF Budget, Waiting, BoundInv, AttemptFacts, TypeOK
  <2>2. /\ Cardinality(Ahead(o, PayPcs)) \in Nat
        /\ Cardinality(Ahead(o, PlacePcs)) \in Nat
    BY FS_CardinalityType DEF BoundInv, CountFacts, Counted
  <2> QED BY OrderConstants, <2>1, <2>2 DEF BoundInv, CountFacts, Counted, TypeOK
<1>2. Init => BoundInv
  BY InitTypeOK, BoundInit DEF BoundInv
<1>3. BoundInv /\ TypeOK' /\ [Next]_vars => BoundInv'
  BY BoundNext DEF BoundInv
<1>4. Spec => []TypeOK
  BY TypeCorrect
<1> QED BY <1>1, <1>2, <1>3, <1>4, PTL DEF Spec

-----------------------------------------------------------------------------
(***************************************************************************)
(* The outcomes.  A client's request that dies, an error of a queue call   *)
(* or of onFailed's UPDATE does not touch an execution.  A worker that     *)
(* dies repeats its execution, yet not one whose outcome it committed.     *)
(* The other faults overwrite outcomes: a commit that reports an error, or *)
(* a lost job lock, ends in onFailed writing FAILED, and a slow queueOrder *)
(* writes QUEUED.                                                          *)
(***************************************************************************)
Harmless == {"request", "redis", "mark"}

\* With crashes a job that stalled too often fails; unless that uses up its
\* attempts (queueOrder asks for three), onFailed leaves the row alone.
Survivable ==
    /\ Faults \subseteq Harmless \union {"crash"}
    /\ "crash" \in Faults => MaxAttempts > 1

\* A job is active for as long as one worker has it, and for no other; only a
\* crash leaves it active without one.
JobFacts ==
    /\ \A w \in Workers : wpc[w] # "idle" =>
          wOrder[w] \in Orders /\ job[wOrder[w]] = "active" /\ jobLock[wOrder[w]] = w
    /\ "crash" \notin Faults => \A o \in Orders : job[o] = "active" => jobLock[o] # NONE
    /\ \A o \in Orders : job[o] # "none" => cpc[o] \in {"enqueued", "done", "errored"}
    /\ \A o \in Orders : job[o] \notin {"none", "delayed"} => cpc[o] \in {"done", "errored"}
    /\ \A o \in Orders : attemptsMade[o] # 0 =>
          job[o] \in {"none", "failed"} /\ cpc[o] \in {"done", "errored"}
    /\ \A o \in Orders : marking[o] = FALSE
    /\ \A w \in Workers : wpc[w] # "throw"

\* What the row says while a creation or a cancellation is about to write it.
RowFacts ==
    /\ \A o \in Orders : status[o] # "PROCESSING"
    /\ \A o \in Orders : QueueingPending(o) => status[o] \in {"PENDING", "CANCELLED"}
    /\ \A c \in Cancels : xpc[c] \in CancellingPcs =>
          /\ xOrder[c] \in Orders /\ rowLock[xOrder[c]] = c
          /\ status[xOrder[c]] \in {"PENDING", "QUEUED"}

Ended == {"FILLED", "FAILED"}

\* What a worker acts on has no outcome yet.
ClaimsAreOpen == \A w \in Workers : wpc[w] \in ClaimedPcs => status[wOrder[w]] \notin Ended

RowsInv ==
    TypeOK /\ WorkerHoldsLock /\ UnbornInv /\ JobFacts /\ RowFacts /\ ClaimsAreOpen

-----------------------------------------------------------------------------
LEMMA InitRowsInv == Init => RowsInv
<1> SUFFICES ASSUME Init PROVE RowsInv
  OBVIOUS
<1>1. TypeOK /\ WorkerHoldsLock /\ UnbornInv
  BY InitTypeOK, ExecutionInvInit, UnbornInit DEF ExecutionInv
<1>2. JobFacts /\ RowFacts /\ ClaimsAreOpen
  BY DEF Init, JobFacts, RowFacts, QueueingPending, CancellingPcs, ClaimsAreOpen, ClaimedPcs,
         ExecutingPcs
<1> QED BY <1>1, <1>2 DEF RowsInv

LEMMA CreateRows ==
    ASSUME RowsInv, NEW o \in Orders, CreateStep(o)
    PROVE  /\ JobFacts' /\ RowFacts' /\ ClaimsAreOpen'
           /\ \A p \in Orders : status[p] \in Ended => status'[p] = status[p]
<1> USE DEF RowsInv, CreateGoto, dbVars, queueVars, workerVars, cancelVars, worldVars
<1>1. CASE ValidateOrder(o)
  BY <1>1 DEF ValidateOrder, JobFacts, RowFacts, ClaimsAreOpen, QueueingPending, TypeOK
<1>2. CASE InsertOrder(o)
  <2>1. Unborn(o)
    BY <1>2 DEF InsertOrder, UnbornInv
  <2>2. JobFacts'
    BY <1>2 DEF InsertOrder, JobFacts, TypeOK
  <2>3. RowFacts'
    BY <1>2, <2>1 DEF InsertOrder, RowFacts, QueueingPending, TypeOK, Unborn
  <2>4. ClaimsAreOpen' /\ \A p \in Orders : status[p] \in Ended => status'[p] = status[p]
    BY <1>2, <2>1 DEF InsertOrder, ClaimsAreOpen, TypeOK, Unborn, Ended
  <2> QED BY <2>2, <2>3, <2>4
<1>3. CASE EnqueueJob(o)
  BY <1>3 DEF EnqueueJob, JobFacts, RowFacts, ClaimsAreOpen, QueueingPending, TypeOK
<1>4. CASE SetQueued(o)
  <2>1. JobFacts'
    BY <1>4 DEF SetQueued, JobFacts, TypeOK
  <2>2. \A c \in Cancels : xpc[c] \in CancellingPcs => xOrder[c] # o
    BY <1>4, OrderConstants DEF SetQueued, RowFacts
  <2>3. RowFacts'
    BY <1>4, <2>2 DEF SetQueued, RowFacts, QueueingPending, TypeOK
  <2>4. status[o] \notin Ended
    BY <1>4 DEF SetQueued, RowFacts, QueueingPending, Ended
  <2>5. ClaimsAreOpen' /\ \A p \in Orders : status[p] \in Ended => status'[p] = status[p]
    BY <1>4, <2>4 DEF SetQueued, ClaimsAreOpen, TypeOK, Ended
  <2> QED BY <2>1, <2>3, <2>5
<1>5. CASE AbortCreate(o)
  BY <1>5 DEF AbortCreate, JobFacts, RowFacts, ClaimsAreOpen, QueueingPending, TypeOK
<1> QED BY <1>1, <1>2, <1>3, <1>4, <1>5 DEF CreateStep, CreateProgress

\* No lock expires under a running worker and no execution throws: the queue
\* promotes, and gives back or gives up the job of a worker that died.
LEMMA QueueMoves ==
    ASSUME RowsInv, Survivable, NEW o \in Orders, QueueStep(o)
    PROVE  \/ PromoteJob(o) /\ "slow" \notin Faults
           \/ RecoverStalledJob(o) /\ "crash" \in Faults
BY DEF RowsInv, Survivable, QueueStep, QueueProgress, RecoverStalledJob, MarkAsFailed,
       LoseJobLock, JobFacts, Harmless

LEMMA QueueRows ==
    ASSUME RowsInv, Survivable, NEW o \in Orders, QueueStep(o)
    PROVE  /\ JobFacts' /\ RowFacts' /\ ClaimsAreOpen'
           /\ UNCHANGED <<status, charged, placed, wpc, wOrder, wResult>>
<1> USE DEF RowsInv, dbVars, queueVars, workerVars, cancelVars, worldVars
<1>1. CASE PromoteJob(o) /\ "slow" \notin Faults
  BY <1>1 DEF PromoteJob, JobFacts, RowFacts, ClaimsAreOpen, QueueingPending, TypeOK
<1>2. CASE RecoverStalledJob(o) /\ "crash" \in Faults
  <2>1. job[o] = "active" /\ attemptsMade[o] = 0 /\ cpc[o] \in {"done", "errored"}
    BY <1>2 DEF RecoverStalledJob, JobFacts
  <2>2. \A w \in Workers : wpc[w] # "idle" => wOrder[w] # o
    BY <1>2, OrderConstants DEF RecoverStalledJob, JobFacts
  <2>3. JobFacts'
    <3>1. CASE stalls[o] >= MaxStalled /\ RecordFailure(o, "failed")
      <4>1. attemptsMade[o] + 1 < MaxAttempts
        BY <1>2, <2>1, OrderConstants DEF Survivable
      <4>2. marking' = marking
        BY <3>1, <2>1, <4>1, OrderConstants DEF RecordFailure, TypeOK
      <4> QED BY <1>2, <2>1, <2>2, <3>1, <4>2 DEF RecoverStalledJob, RecordFailure, JobFacts, TypeOK
    <3>2. CASE job' = [job EXCEPT ![o] = "waiting"] /\ UNCHANGED <<jobLock, attemptsMade, marking>>
      BY <1>2, <2>1, <2>2, <3>2 DEF RecoverStalledJob, JobFacts, TypeOK
    <3> QED BY <1>2, <3>1, <3>2 DEF RecoverStalledJob
  <2>4. RowFacts' /\ ClaimsAreOpen'
    BY <1>2 DEF RecoverStalledJob, RowFacts, ClaimsAreOpen, QueueingPending
  <2> QED BY <1>2, <2>3, <2>4 DEF RecoverStalledJob
<1> QED BY <1>1, <1>2, QueueMoves

\* A worker's order is nobody else's: its job is locked.
LEMMA BusyWorker ==
    ASSUME RowsInv, NEW w \in Workers, wpc[w] # "idle"
    PROVE  /\ wOrder[w] \in Orders /\ wOrder[w] # NONE
           /\ jobLock[wOrder[w]] = w /\ job[wOrder[w]] = "active"
           /\ cpc[wOrder[w]] \in {"done", "errored"}
           /\ \A v \in Workers \ {w} : wpc[v] # "idle" => wOrder[v] # wOrder[w]
BY OrderConstants DEF RowsInv, JobFacts

\* A worker goes on, takes a job, or dies.
LEMMA WorkerMoves ==
    ASSUME RowsInv, Survivable, NEW o \in Orders, NEW w \in Workers, WorkerStep(w, o)
    PROVE  \/ PickUp(w, o)
           \/ WorkerProgress(w, o) /\ ~FailJob(w, o)
           \/ CrashWorker(w, o)
BY DEF WorkerStep, RollbackExecution, FailJob, RowsInv, Survivable, JobFacts, At, Harmless

LEMMA WorkerJobs ==
    ASSUME RowsInv, Survivable, NEW o \in Orders, NEW w \in Workers, WorkerStep(w, o)
    PROVE  JobFacts'
<1> USE DEF RowsInv, At, Finish, dbVars, queueVars, workerVars, cancelVars, worldVars
<1>1. CASE PickUp(w, o)
  <2>1. \A v \in Workers : wpc[v] # "idle" => wOrder[v] # o
    BY <1>1 DEF PickUp, JobFacts
  <2>2. w # NONE
    BY OrderConstants
  <2> QED BY <1>1, <2>1, <2>2 DEF PickUp, JobFacts, TypeOK
<1>2. CASE AckJob(w, o)
  <2>1. wpc[w] = "ack" /\ wOrder[w] = o /\ jobLock[o] = w
    BY <1>2, BusyWorker DEF AckJob
  <2>2. \A v \in Workers \ {w} : wpc[v] # "idle" => wOrder[v] # o
    BY <2>1, BusyWorker
  <2> QED BY <1>2, <2>1, <2>2, BusyWorker DEF AckJob, JobFacts, TypeOK
<1>3. CASE ReadOrder(w, o) \/ SaveProcessing(w, o) \/ CommitExecution(w, o)
  BY <1>3 DEF ReadOrder, SaveProcessing, CommitExecution, JobFacts, TypeOK, Harmless, Survivable
<1>4. CASE CheckMarket(w, o) \/ CheckHealth(w, o)
  BY <1>4 DEF CheckMarket, CheckHealth, JobFacts, TypeOK
<1>5. CASE TransferUsdc(w, o) \/ PlaceOrder(w, o)
  BY <1>5 DEF TransferUsdc, PlaceOrder, JobFacts, TypeOK
<1>6. CASE CrashWorker(w, o)
  <2>1. \A v \in Workers \ {w} : wpc[v] # "idle" => wOrder[v] # o
    BY <1>6, BusyWorker DEF CrashWorker
  <2> QED BY <1>6, <2>1 DEF CrashWorker, JobFacts, TypeOK
<1> QED BY <1>1, <1>2, <1>3, <1>4, <1>5, <1>6, WorkerMoves DEF WorkerProgress

\* Of a worker's steps the commit of an outcome alone writes the status, and
\* it finds the order without one.
LEMMA WorkerRows ==
    ASSUME RowsInv, Survivable, NEW o \in Orders, NEW w \in Workers, WorkerStep(w, o)
    PROVE  /\ RowFacts'
           /\ \A p \in Orders : status[p] \in Ended => status'[p] = status[p]
<1> USE DEF RowsInv, At, Finish, dbVars, queueVars, workerVars, cancelVars, worldVars
<1>1. w \notin Cancels /\ NONE \notin Cancels
  BY OrderConstants
<1>2. CASE SaveProcessing(w, o)
  BY <1>1, <1>2 DEF SaveProcessing, RowFacts, QueueingPending, TypeOK
<1>3. CASE CommitExecution(w, o)
  <2>1. cpc[o] \in {"done", "errored"}
    BY <1>3, BusyWorker DEF CommitExecution
  <2>2. rowLock[o] = w
    BY <1>3 DEF CommitExecution, WorkerHoldsLock, ExecutingPcs
  <2>3. \A c \in Cancels : xpc[c] \in CancellingPcs => xOrder[c] # o
    BY <1>1, <2>2 DEF RowFacts
  <2>4. status[o] \notin Ended
    BY <1>3 DEF CommitExecution, ClaimsAreOpen, ClaimedPcs, ExecutingPcs
  <2>5. RowFacts'
    BY <1>3, <2>1, <2>3 DEF CommitExecution, Unlock, RowFacts, QueueingPending, TypeOK
  <2> QED BY <1>3, <2>4, <2>5 DEF CommitExecution, TypeOK
<1>4. CASE UNCHANGED <<dbVars, cpc, cancelVars>>
  BY <1>4 DEF RowFacts, QueueingPending
<1>5. PickUp(w, o) \/ AckJob(w, o) \/ ReadOrder(w, o) \/ CheckMarket(w, o)
         \/ CheckHealth(w, o) \/ TransferUsdc(w, o) \/ PlaceOrder(w, o)
      => UNCHANGED <<dbVars, cpc, cancelVars>>
  BY DEF PickUp, AckJob, ReadOrder, CheckMarket, CheckHealth, TransferUsdc, PlaceOrder
<1>6. CASE CrashWorker(w, o)
  BY <1>1, <1>6 DEF CrashWorker, Unlock, RowFacts, QueueingPending, TypeOK
<1> QED BY <1>2, <1>3, <1>4, <1>5, <1>6, WorkerMoves DEF WorkerProgress

\* A worker's step changes the claim of its own order at most.
LEMMA WorkerClaims ==
    ASSUME RowsInv, Survivable, NEW o \in Orders, NEW w \in Workers, WorkerStep(w, o)
    PROVE  /\ \A v \in Workers \ {w} :
                 wpc'[v] = wpc[v] /\ wOrder'[v] = wOrder[v] /\ wResult'[v] = wResult[v]
           /\ \A v \in Workers \ {w} : wpc[v] # "idle" => wOrder[v] # o
           /\ wpc[w] # "idle" => wOrder[w] = o
           /\ wpc'[w] # "idle" => wOrder'[w] = o
           /\ \A p \in Orders \ {o} : Claimed(p)' <=> Claimed(p)
           /\ Claimed(o) <=> wpc[w] \in ClaimedPcs
           /\ Claimed(o)' <=> wpc'[w] \in ClaimedPcs
<1> USE DEF RowsInv, At, Finish, dbVars, queueVars, workerVars, cancelVars, worldVars
<1>1. /\ \A v \in Workers \ {w} :
            wpc'[v] = wpc[v] /\ wOrder'[v] = wOrder[v] /\ wResult'[v] = wResult[v]
      /\ wpc[w] # "idle" => wOrder[w] = o
      /\ wpc'[w] # "idle" => wOrder'[w] = o
  <2>1. CASE PickUp(w, o) \/ AckJob(w, o) \/ ReadOrder(w, o) \/ SaveProcessing(w, o)
    BY <2>1 DEF PickUp, AckJob, ReadOrder, SaveProcessing, TypeOK
  <2>2. CASE CheckMarket(w, o) \/ CheckHealth(w, o) \/ TransferUsdc(w, o)
    BY <2>2 DEF CheckMarket, CheckHealth, TransferUsdc, TypeOK
  <2>3. CASE PlaceOrder(w, o) \/ CommitExecution(w, o) \/ CrashWorker(w, o)
    BY <2>3 DEF PlaceOrder, CommitExecution, CrashWorker, TypeOK
  <2> QED BY <2>1, <2>2, <2>3, WorkerMoves DEF WorkerProgress
<1>2. \A v \in Workers \ {w} : wpc[v] # "idle" => wOrder[v] # o
  <2>1. CASE wpc[w] = "idle"
    <3>1. PickUp(w, o)
      BY <2>1, WorkerMoves DEF WorkerProgress, AckJob, ReadOrder, SaveProcessing, CheckMarket,
            CheckHealth, TransferUsdc, PlaceOrder, CommitExecution, CrashWorker
    <3> QED BY <3>1 DEF PickUp, JobFacts
  <2>2. CASE wpc[w] # "idle"
    BY <1>1, <2>2, BusyWorker
  <2> QED BY <2>1, <2>2
<1>3. "idle" \notin ClaimedPcs
  BY DEF ClaimedPcs, ExecutingPcs
<1> QED BY <1>1, <1>2, <1>3 DEF Claimed

\* A worker claims an order that is processable, and lets go of it when it
\* writes the outcome.
LEMMA WorkerOpen ==
    ASSUME RowsInv, Survivable, NEW o \in Orders, NEW w \in Workers, WorkerStep(w, o)
    PROVE  ClaimsAreOpen'
<1> USE DEF RowsInv, At, Finish, ClaimedPcs, ExecutingPcs, dbVars, queueVars
<1>1. /\ \A v \in Workers \ {w} : wpc'[v] = wpc[v] /\ wOrder'[v] = wOrder[v]
      /\ \A v \in Workers \ {w} : wpc[v] # "idle" => wOrder[v] # o
      /\ wpc[w] # "idle" => wOrder[w] = o
      /\ wpc'[w] # "idle" => wOrder'[w] = o
  BY WorkerClaims
<1>2. \A v \in Workers : wpc[v] # "idle" => wOrder[v] \in Orders
  BY DEF JobFacts
<1>3. CASE PickUp(w, o) \/ AckJob(w, o) \/ CrashWorker(w, o)
  BY <1>1, <1>2, <1>3 DEF PickUp, AckJob, CrashWorker, ClaimsAreOpen, TypeOK
<1>4. CASE ReadOrder(w, o)
  BY <1>1, <1>2, <1>4 DEF ReadOrder, ClaimsAreOpen, TypeOK, Processable, Ended
<1>5. CASE SaveProcessing(w, o) \/ CheckMarket(w, o) \/ CheckHealth(w, o)
  BY <1>1, <1>2, <1>5 DEF SaveProcessing, CheckMarket, CheckHealth, ClaimsAreOpen, TypeOK
<1>6. CASE TransferUsdc(w, o) \/ PlaceOrder(w, o)
  BY <1>1, <1>2, <1>6 DEF TransferUsdc, PlaceOrder, ClaimsAreOpen, TypeOK
<1>7. CASE CommitExecution(w, o)
  <2>1. wpc'[w] \in {"ack", "throw"}
    BY <1>7 DEF CommitExecution, TypeOK
  <2>2. \A v \in Workers \ {w} : wpc[v] # "idle" => status'[wOrder[v]] = status[wOrder[v]]
    BY <1>1, <1>2, <1>7 DEF CommitExecution, TypeOK
  <2> QED BY <1>1, <2>1, <2>2 DEF ClaimsAreOpen
<1> QED BY <1>3, <1>4, <1>5, <1>6, <1>7, WorkerMoves DEF WorkerProgress

LEMMA CancelRows ==
    ASSUME RowsInv, NEW o \in Orders, NEW c \in Cancels, CancelStep(c, o)
    PROVE  /\ JobFacts' /\ RowFacts' /\ ClaimsAreOpen'
           /\ \A p \in Orders : status[p] \in Ended => status'[p] = status[p]
<1> USE DEF RowsInv, CancelAt, CancelGoto, AfterQueue, CancellingPcs,
            dbVars, queueVars, workerVars, cancelVars, worldVars
<1>1. CASE LockForCancel(c, o)
  <2>1. NONE \notin Cancels
    BY OrderConstants
  <2>2. \A d \in Cancels \ {c} : xpc[d] \in CancellingPcs => xOrder[d] # o
    BY <1>1, <2>1 DEF LockForCancel, RowFacts
  <2>3. RowFacts'
    BY <1>1, <2>2 DEF LockForCancel, RowFacts, QueueingPending, Cancellable, TypeOK
  <2>4. JobFacts' /\ ClaimsAreOpen' /\ status' = status
    BY <1>1 DEF LockForCancel, JobFacts, ClaimsAreOpen
  <2> QED BY <2>3, <2>4
<1>2. CASE ListJobs(c, o) \/ CancelOnProvider(c, o)
  <2>1. RowFacts'
    BY <1>2 DEF ListJobs, CancelOnProvider, RowFacts, QueueingPending, TypeOK
  <2>2. JobFacts' /\ ClaimsAreOpen' /\ status' = status
    BY <1>2 DEF ListJobs, CancelOnProvider, JobFacts, ClaimsAreOpen
  <2> QED BY <2>1, <2>2
<1>3. CASE RemoveJob(c, o)
  <2>1. RowFacts'
    BY <1>3 DEF RemoveJob, RowFacts, QueueingPending, TypeOK
  <2>2. ClaimsAreOpen' /\ status' = status
    BY <1>3 DEF RemoveJob, ClaimsAreOpen
  <2>3. jobLock[o] = NONE => \A w \in Workers : wpc[w] # "idle" => wOrder[w] # o
    BY OrderConstants DEF JobFacts
  <2>4. JobFacts'
    BY <1>3, <2>3 DEF RemoveJob, JobFacts, TypeOK
  <2> QED BY <2>1, <2>2, <2>4
<1>4. CASE CommitCancel(c, o)
  <2>1. \A d \in Cancels \ {c} : xpc[d] \in CancellingPcs => xOrder[d] # o
    BY <1>4 DEF CommitCancel, RowFacts
  <2>2. status[o] \in {"PENDING", "QUEUED"}
    BY <1>4 DEF CommitCancel, RowFacts
  <2>3. RowFacts'
    BY <1>4, <2>1 DEF CommitCancel, Unlock, RowFacts, QueueingPending, TypeOK
  <2>4. ClaimsAreOpen' /\ \A p \in Orders : status[p] \in Ended => status'[p] = status[p]
    BY <1>4, <2>2 DEF CommitCancel, ClaimsAreOpen, TypeOK, Ended
  <2>5. JobFacts'
    BY <1>4 DEF CommitCancel, JobFacts
  <2> QED BY <2>3, <2>4, <2>5
<1>5. CASE RollbackCancel(c, o)
  <2>1. \A d \in Cancels \ {c} : xpc[d] \in CancellingPcs => xOrder[d] # o
    BY <1>5 DEF RollbackCancel, RowFacts
  <2>2. RowFacts'
    BY <1>5, <2>1 DEF RollbackCancel, Unlock, RowFacts, QueueingPending, TypeOK
  <2>3. JobFacts' /\ ClaimsAreOpen' /\ status' = status
    BY <1>5 DEF RollbackCancel, JobFacts, ClaimsAreOpen
  <2> QED BY <2>2, <2>3
<1> QED BY <1>1, <1>2, <1>3, <1>4, <1>5 DEF CancelStep, CancelProgress

LEMMA RowsInvStep ==
    ASSUME RowsInv, Survivable, [Next]_vars
    PROVE  /\ RowsInv'
           /\ \A p \in Orders : status[p] \in Ended => status'[p] = status[p]
<1>1. TypeOK' /\ UnbornInv'
  BY NextTypeOK, UnbornNext DEF RowsInv
<1>2. WorkerHoldsLock'
  <2> USE DEF RowsInv
  <2>1. ASSUME Quiet PROVE WorkerHoldsLock'
    BY <2>1 DEF Quiet, workerVars, WorkerHoldsLock
  <2>2. CASE UNCHANGED vars \/ ToggleMarket
    BY <2>1, <2>2 DEF vars, ToggleMarket, dbVars, worldVars, Quiet
  <2>3. ASSUME NEW o \in Orders, CreateStep(o) \/ QueueStep(o) PROVE WorkerHoldsLock'
    BY <2>1, <2>3, CreateStepQuiet, QueueStepQuiet
  <2>4. ASSUME NEW o \in Orders, NEW c \in Cancels, CancelStep(c, o) PROVE WorkerHoldsLock'
    BY <2>1, <2>4, CancelStepQuiet
  <2>5. ASSUME NEW o \in Orders, NEW w \in Workers, WorkerStep(w, o) PROVE WorkerHoldsLock'
    <3> USE OrderConstants DEF At, Finish, dbVars, WorkerHoldsLock, ExecutingPcs
    <3>1. CASE PickUp(w, o) \/ AckJob(w, o) \/ ReadOrder(w, o) \/ SaveProcessing(w, o)
      BY <2>5, <3>1 DEF PickUp, AckJob, ReadOrder, SaveProcessing, TypeOK
    <3>2. CASE CheckMarket(w, o) \/ CheckHealth(w, o) \/ TransferUsdc(w, o) \/ PlaceOrder(w, o)
      BY <2>5, <3>2 DEF CheckMarket, CheckHealth, TransferUsdc, PlaceOrder, TypeOK
    <3>3. CASE CommitExecution(w, o) \/ CrashWorker(w, o)
      BY <2>5, <3>3 DEF CommitExecution, CrashWorker, Unlock, TypeOK
    <3> QED BY <2>5, <3>1, <3>2, <3>3, WorkerMoves DEF WorkerProgress
  <2> QED BY <2>2, <2>3, <2>4, <2>5 DEF Next
<1>3. /\ JobFacts' /\ RowFacts' /\ ClaimsAreOpen'
      /\ \A p \in Orders : status[p] \in Ended => status'[p] = status[p]
  <2>1. CASE UNCHANGED vars \/ ToggleMarket
    <3> USE <2>1 DEF RowsInv, vars, ToggleMarket, dbVars, queueVars, workerVars,
                     cancelVars, worldVars
    <3>1. JobFacts'
      BY DEF JobFacts
    <3>2. RowFacts' /\ ClaimsAreOpen' /\ status' = status
      BY DEF RowFacts, ClaimsAreOpen, QueueingPending
    <3> QED BY <3>1, <3>2
  <2>2. ASSUME NEW o \in Orders, QueueStep(o)
        PROVE  /\ JobFacts' /\ RowFacts' /\ ClaimsAreOpen'
               /\ \A p \in Orders : status[p] \in Ended => status'[p] = status[p]
    BY <2>2, QueueRows
  <2>3. ASSUME NEW o \in Orders, NEW w \in Workers, WorkerStep(w, o)
        PROVE  /\ JobFacts' /\ RowFacts' /\ ClaimsAreOpen'
               /\ \A p \in Orders : status[p] \in Ended => status'[p] = status[p]
    BY <2>3, WorkerJobs, WorkerRows, WorkerOpen
  <2> QED BY <2>1, <2>2, <2>3, CreateRows, CancelRows DEF Next
<1> QED BY <1>1, <1>2, <1>3 DEF RowsInv

\* What follows for the client: FILLED and FAILED are final.  Neither a
\* cancellation that comes late nor the UPDATE to QUEUED overwrites them, and a
\* worker that dies and is restarted, however often, ends by writing one outcome
\* or none (process commits the outcome once, cancelOrder checks the status).
THEOREM OutcomesAreFinal ==
    ASSUME Survivable
    PROVE  Spec => [][\A o \in Orders : status[o] \in Ended => status'[o] = status[o]]_vars
<1>1. RowsInv /\ [Next]_vars => RowsInv'
  BY RowsInvStep
<1>2. RowsInv /\ [Next]_vars =>
        [\A o \in Orders : status[o] \in Ended => status'[o] = status[o]]_vars
  BY RowsInvStep
<1> QED BY <1>1, <1>2, InitRowsInv, PTL DEF Spec

-----------------------------------------------------------------------------
(***************************************************************************)
(* The contract.  With the harmless faults, or with none, OrderLifecycle   *)
(* implements OrderContract.  Each other fault alone breaks it: a crash, a *)
(* failed commit and a lost job lock execute an order again, and a slow    *)
(* queueOrder writes QUEUED over an outcome.                               *)
(***************************************************************************)

\* What the chain and the exchange did for the order, by the worker's progress.
MoneyFacts ==
    /\ \A w \in Workers : wpc[w] \in {"save", "market", "health", "transfer"} =>
          charged[wOrder[w]] = 0 /\ placed[wOrder[w]] = 0
    /\ \A w \in Workers : wpc[w] \in {"health", "transfer", "place"} => RealTrading
    /\ \A w \in Workers : wpc[w] = "transfer" => wOrder[w] \in Funded
    /\ \A w \in Workers : wpc[w] = "place" =>
          placed[wOrder[w]] = 0 /\ (wOrder[w] \in Funded => charged[wOrder[w]] = 1)
    /\ \A w \in Workers : wpc[w] = "commit" /\ wResult[w] = "filled" /\ RealTrading =>
          placed[wOrder[w]] = 1
    /\ \A o \in Orders : ~Claimed(o) /\ status[o] \notin Ended =>
          charged[o] = 0 /\ placed[o] = 0

ContractInv == RowsInv /\ MoneyFacts

LEMMA HarmlessSurvives == Faults \subseteq Harmless => Survivable /\ "crash" \notin Faults
BY DEF Survivable, Harmless

LEMMA InitContractInv == Init => ContractInv
<1> SUFFICES ASSUME Init PROVE ContractInv
  OBVIOUS
<1>1. MoneyFacts
  BY DEF Init, MoneyFacts, ClaimedPcs, ExecutingPcs
<1> QED BY <1>1, InitRowsInv DEF ContractInv

\* The money follows the claims and the outcomes.
LEMMA SameMoney ==
    ASSUME ContractInv, UNCHANGED <<wpc, wOrder, wResult, charged, placed>>,
           \A o \in Orders : status[o] \in Ended => status'[o] = status[o]
    PROVE  MoneyFacts'
BY DEF ContractInv, MoneyFacts, Claimed

LEMMA WorkerMoney ==
    ASSUME ContractInv, Faults \subseteq Harmless,
           NEW o \in Orders, NEW w \in Workers, WorkerStep(w, o)
    PROVE  MoneyFacts'
<1> USE DEF ContractInv, RowsInv, At, Finish, ClaimedPcs, ExecutingPcs,
            dbVars, queueVars, workerVars, cancelVars, worldVars
<1>1. /\ \A v \in Workers \ {w} :
            wpc'[v] = wpc[v] /\ wOrder'[v] = wOrder[v] /\ wResult'[v] = wResult[v]
      /\ \A v \in Workers \ {w} : wpc[v] # "idle" => wOrder[v] # o
      /\ wpc[w] # "idle" => wOrder[w] = o
      /\ wpc'[w] # "idle" => wOrder'[w] = o
      /\ \A p \in Orders \ {o} : Claimed(p)' <=> Claimed(p)
      /\ Claimed(o) <=> wpc[w] \in ClaimedPcs
      /\ Claimed(o)' <=> wpc'[w] \in ClaimedPcs
  BY WorkerClaims, HarmlessSurvives
<1>2. \A v \in Workers : wpc[v] # "idle" => wOrder[v] \in Orders
  BY DEF JobFacts
<1>3. CASE PickUp(w, o) \/ AckJob(w, o)
  BY <1>1, <1>2, <1>3 DEF PickUp, AckJob, MoneyFacts, TypeOK
<1>4. CASE ReadOrder(w, o)
  <2>1. ~Claimed(o)
    BY <1>1, <1>4 DEF ReadOrder
  <2> QED BY <1>1, <1>2, <1>4, <2>1 DEF ReadOrder, MoneyFacts, TypeOK, Processable, Ended
<1>5. CASE SaveProcessing(w, o)
  BY <1>1, <1>2, <1>5 DEF SaveProcessing, MoneyFacts, TypeOK
<1>6. CASE CheckMarket(w, o)
  BY <1>1, <1>2, <1>6 DEF CheckMarket, MoneyFacts, TypeOK
<1>7. CASE CheckHealth(w, o)
  BY <1>1, <1>2, <1>7 DEF CheckHealth, MoneyFacts, TypeOK
<1>8. CASE TransferUsdc(w, o)
  BY <1>1, <1>2, <1>8 DEF TransferUsdc, MoneyFacts, TypeOK
<1>9. CASE PlaceOrder(w, o)
  BY <1>1, <1>2, <1>9 DEF PlaceOrder, MoneyFacts, TypeOK
<1>10. CASE CommitExecution(w, o)
  BY <1>1, <1>2, <1>10 DEF CommitExecution, MoneyFacts, TypeOK, Ended
<1>11. ~CrashWorker(w, o)
  BY HarmlessSurvives DEF CrashWorker
<1> QED BY <1>3, <1>4, <1>5, <1>6, <1>7, <1>8, <1>9, <1>10, <1>11, WorkerMoves, HarmlessSurvives
        DEF WorkerProgress

LEMMA ContractInvStep ==
    ASSUME ContractInv, Faults \subseteq Harmless, [Next]_vars
    PROVE  ContractInv'
<1>1. RowsInv' /\ \A p \in Orders : status[p] \in Ended => status'[p] = status[p]
  BY RowsInvStep, HarmlessSurvives DEF ContractInv
<1>2. MoneyFacts'
  <2>1. ASSUME UNCHANGED <<wpc, wOrder, wResult, charged, placed>> PROVE MoneyFacts'
    BY <1>1, <2>1, SameMoney
  <2>2. CASE UNCHANGED vars \/ ToggleMarket
    BY <2>1, <2>2 DEF vars, ToggleMarket, workerVars, worldVars
  <2>3. ASSUME NEW o \in Orders, CreateStep(o) PROVE MoneyFacts'
    BY <2>1, <2>3 DEF CreateStep, CreateProgress, ValidateOrder, InsertOrder, EnqueueJob, SetQueued,
          AbortCreate, workerVars, worldVars
  <2>4. ASSUME NEW o \in Orders, QueueStep(o) PROVE MoneyFacts'
    BY <2>1, <2>4, QueueRows, HarmlessSurvives DEF ContractInv
  <2>5. ASSUME NEW o \in Orders, NEW c \in Cancels, CancelStep(c, o) PROVE MoneyFacts'
    BY <2>1, <2>5 DEF CancelStep, CancelProgress, LockForCancel, ListJobs, RemoveJob,
          CancelOnProvider, CommitCancel, RollbackCancel, workerVars, worldVars
  <2> QED BY <2>2, <2>3, <2>4, <2>5, WorkerMoney DEF Next
<1> QED BY <1>1, <1>2 DEF ContractInv

-----------------------------------------------------------------------------
(* Every step is a step of the contract, or none.                          *)

ClaimOf(o) ==
    IF Claimed(o) THEN "held" ELSE IF status[o] \in {"FILLED", "FAILED"} THEN "spent" ELSE "none"

Claims == [o \in Orders |-> ClaimOf(o)]

LEMMA SameClaims ==
    ASSUME UNCHANGED <<status, charged, placed>>,
           \A p \in Orders : Claimed(p)' <=> Claimed(p)
    PROVE  UNCHANGED Contract!contractVars
<1>1. Claims' = Claims
  BY DEF Claims, ClaimOf
<1> QED BY <1>1 DEF Contract!contractVars, Claims, ClaimOf

\* What becomes of the claims when only o's status and claim change.
LEMMA ClaimOfOne ==
    ASSUME NEW o \in Orders,
           \A p \in Orders \ {o} : (Claimed(p)' <=> Claimed(p)) /\ status'[p] = status[p]
    PROVE  Claims' = [Claims EXCEPT ![o] = ClaimOf(o)']
<1>1. \A p \in Orders \ {o} : ClaimOf(p)' = ClaimOf(p)
  BY DEF ClaimOf
<1> QED BY <1>1 DEF Claims

LEMMA InitContract == Init => Contract!Init
<1> SUFFICES ASSUME Init PROVE Contract!Init
  OBVIOUS
<1>1. \A o \in Orders : ~Claimed(o) /\ status[o] \notin {"FILLED", "FAILED"}
  BY DEF Init, Claimed, ClaimedPcs, ExecutingPcs
<1> QED BY <1>1 DEF Init, Contract!Init

LEMMA CreateContract ==
    ASSUME ContractInv, Faults \subseteq Harmless, NEW o \in Orders, CreateStep(o)
    PROVE  [Contract!Next]_(Contract!contractVars)
<1> USE DEF ContractInv, RowsInv, CreateGoto, dbVars, queueVars, workerVars, worldVars
<1>1. \A p \in Orders : Claimed(p)' <=> Claimed(p)
  BY DEF CreateStep, CreateProgress, ValidateOrder, InsertOrder, EnqueueJob, SetQueued,
         AbortCreate, Claimed
<1>2. CASE ValidateOrder(o) \/ EnqueueJob(o) \/ AbortCreate(o)
  BY <1>1, <1>2, SameClaims DEF ValidateOrder, EnqueueJob, AbortCreate
<1>3. CASE InsertOrder(o)
  <2>1. Unborn(o)
    BY <1>3 DEF InsertOrder, UnbornInv
  <2>2. /\ status[o] = "ABSENT" /\ status' = [status EXCEPT ![o] = "PENDING"]
        /\ charged' = charged /\ placed' = placed
    BY <1>3, <2>1 DEF InsertOrder, Unborn
  <2>3. \A p \in Orders : ClaimOf(p)' = ClaimOf(p)
    BY <1>1, <2>2 DEF ClaimOf, TypeOK
  <2>4. Contract!Accept(o)
    BY <2>2, <2>3 DEF Contract!Accept, ClaimOf
  <2> QED BY <2>4 DEF Contract!Next
<1>4. CASE SetQueued(o)
  <2>1. status[o] \in {"PENDING", "CANCELLED"}
    BY <1>4 DEF SetQueued, RowFacts, QueueingPending
  <2>2. /\ status' = [status EXCEPT ![o] = "QUEUED"]
        /\ charged' = charged /\ placed' = placed
    BY <1>4 DEF SetQueued
  <2>3. \A p \in Orders : ClaimOf(p)' = ClaimOf(p)
    BY <1>1, <2>1, <2>2 DEF ClaimOf, TypeOK
  <2>4. ~Claimed(o)
    BY <1>4, BusyWorker DEF SetQueued, Claimed, ClaimedPcs, ExecutingPcs
  <2>5. Contract!Queue(o)
    BY <2>1, <2>2, <2>3, <2>4 DEF Contract!Queue, ClaimOf
  <2> QED BY <2>5 DEF Contract!Next
<1> QED BY <1>2, <1>3, <1>4 DEF CreateStep, CreateProgress

LEMMA CancelContract ==
    ASSUME ContractInv, Faults \subseteq Harmless,
           NEW o \in Orders, NEW c \in Cancels, CancelStep(c, o)
    PROVE  [Contract!Next]_(Contract!contractVars)
<1> USE DEF ContractInv, RowsInv, CancelAt, dbVars, queueVars, workerVars, worldVars
<1>1. \A p \in Orders : Claimed(p)' <=> Claimed(p)
  BY DEF CancelStep, CancelProgress, LockForCancel, ListJobs, RemoveJob, CancelOnProvider,
         CommitCancel, RollbackCancel, Claimed
<1>2. CASE \/ LockForCancel(c, o) \/ ListJobs(c, o) \/ RemoveJob(c, o)
           \/ CancelOnProvider(c, o) \/ RollbackCancel(c, o)
  BY <1>1, <1>2, SameClaims
     DEF LockForCancel, ListJobs, RemoveJob, CancelOnProvider, RollbackCancel
<1>3. CASE CommitCancel(c, o)
  <2>1. status[o] \in {"PENDING", "QUEUED"}
    BY <1>3 DEF CommitCancel, RowFacts, CancellingPcs
  <2>2. /\ status' = [status EXCEPT ![o] = "CANCELLED"]
        /\ charged' = charged /\ placed' = placed
    BY <1>3 DEF CommitCancel
  <2>3. \A p \in Orders : ClaimOf(p)' = ClaimOf(p)
    BY <1>1, <2>1, <2>2 DEF ClaimOf, TypeOK
  <2>4. Contract!Cancel(o)
    BY <2>1, <2>2, <2>3 DEF Contract!Cancel, Contract!Open, ClaimOf
  <2> QED BY <2>4 DEF Contract!Next
<1> QED BY <1>2, <1>3 DEF CancelStep, CancelProgress

LEMMA WorkerContract ==
    ASSUME ContractInv, Faults \subseteq Harmless,
           NEW o \in Orders, NEW w \in Workers, WorkerStep(w, o)
    PROVE  [Contract!Next]_(Contract!contractVars)
<1> USE DEF ContractInv, RowsInv, At, Finish, ClaimedPcs, ExecutingPcs, dbVars, worldVars
<1>1. /\ wpc[w] # "idle" => wOrder[w] = o
      /\ \A p \in Orders \ {o} : Claimed(p)' <=> Claimed(p)
      /\ Claimed(o) <=> wpc[w] \in ClaimedPcs
      /\ Claimed(o)' <=> wpc'[w] \in ClaimedPcs
  BY WorkerClaims, HarmlessSurvives
<1>2. ASSUME UNCHANGED <<status, charged, placed>>, Claimed(o)' <=> Claimed(o)
      PROVE  UNCHANGED Contract!contractVars
  BY <1>1, <1>2, SameClaims
<1>3. CASE PickUp(w, o) \/ AckJob(w, o) \/ SaveProcessing(w, o)
  BY <1>1, <1>2, <1>3 DEF PickUp, AckJob, SaveProcessing, TypeOK
<1>4. CASE CheckMarket(w, o) \/ CheckHealth(w, o)
  BY <1>1, <1>2, <1>4 DEF CheckMarket, CheckHealth, TypeOK
<1>5. CASE ReadOrder(w, o)
  <2>1. UNCHANGED <<status, charged, placed>> /\ wpc[w] = "read"
    BY <1>5 DEF ReadOrder
  <2>2. CASE wpc' = [wpc EXCEPT ![w] = "ack"]
    BY <1>1, <1>2, <2>1, <2>2 DEF TypeOK
  <2>3. CASE status[o] \in Processable /\ wpc' = [wpc EXCEPT ![w] = "save"]
    <3>1. ~Claimed(o) /\ Claimed(o)'
      BY <1>1, <2>1, <2>3 DEF TypeOK
    <3>2. Claims' = [Claims EXCEPT ![o] = "held"]
      BY <1>1, <2>1, <3>1, ClaimOfOne DEF ClaimOf
    <3>3. ClaimOf(o) = "none"
      BY <2>3, <3>1 DEF ClaimOf, Processable
    <3>4. Contract!Claim(o)
      BY <2>1, <2>3, <3>2, <3>3 DEF Contract!Claim, Contract!Open, Processable, Claims, ClaimOf
    <3> QED BY <3>4 DEF Contract!Next
  <2> QED BY <1>5, <2>2, <2>3 DEF ReadOrder
<1>6. CASE TransferUsdc(w, o)
  <2>1. /\ wpc[w] = "transfer" /\ wOrder[w] = o /\ status' = status /\ placed' = placed
        /\ wpc'[w] \in {"place", "commit"}
    BY <1>6 DEF TransferUsdc, TypeOK
  <2>2. Claimed(o) /\ Claimed(o)'
    BY <1>1, <2>1
  <2>3. CASE charged' = charged
    BY <1>2, <2>1, <2>2, <2>3
  <2>4. CASE charged' = [charged EXCEPT ![o] = @ + 1]
    <3>1. charged[o] = 0 /\ placed[o] = 0 /\ RealTrading /\ o \in Funded
      BY <2>1 DEF MoneyFacts
    <3>2. charged' = [charged EXCEPT ![o] = 1]
      BY <2>4, <3>1
    <3>3. \A p \in Orders : ClaimOf(p)' = ClaimOf(p)
      BY <1>1, <2>1, <2>2 DEF ClaimOf
    <3>4. Contract!Pay(o)
      BY <2>1, <2>2, <3>1, <3>2, <3>3 DEF Contract!Pay, ClaimOf
    <3> QED BY <3>4 DEF Contract!Next
  <2> QED BY <1>6, <2>3, <2>4 DEF TransferUsdc
<1>7. CASE PlaceOrder(w, o)
  <2>1. /\ wpc[w] = "place" /\ wOrder[w] = o /\ status' = status /\ charged' = charged
        /\ wpc'[w] = "commit"
    BY <1>7 DEF PlaceOrder, TypeOK
  <2>2. Claimed(o) /\ Claimed(o)'
    BY <1>1, <2>1
  <2>3. CASE placed' = placed
    BY <1>2, <2>1, <2>2, <2>3
  <2>4. CASE placed' = [placed EXCEPT ![o] = @ + 1]
    <3>1. placed[o] = 0 /\ RealTrading /\ (o \in Funded => charged[o] = 1)
      BY <2>1 DEF MoneyFacts
    <3>2. placed' = [placed EXCEPT ![o] = 1]
      BY <2>4, <3>1
    <3>3. \A p \in Orders : ClaimOf(p)' = ClaimOf(p)
      BY <1>1, <2>1, <2>2 DEF ClaimOf
    <3>4. Contract!Place(o)
      BY <2>1, <2>2, <3>1, <3>2, <3>3 DEF Contract!Place, ClaimOf
    <3> QED BY <3>4 DEF Contract!Next
  <2> QED BY <1>7, <2>3, <2>4 DEF PlaceOrder
<1>8. CASE CommitExecution(w, o)
  <2>1. /\ wpc[w] = "commit" /\ wOrder[w] = o /\ charged' = charged /\ placed' = placed
        /\ status' = [status EXCEPT ![o] = IF wResult[w] = "filled" THEN "FILLED" ELSE "FAILED"]
        /\ wpc'[w] = "ack"
    BY <1>8 DEF CommitExecution, TypeOK, Harmless
  <2>2. Claimed(o) /\ ~Claimed(o)'
    BY <1>1, <2>1
  <2>3. ClaimOf(o) = "held" /\ ClaimOf(o)' = "spent"
    BY <2>1, <2>2 DEF ClaimOf, TypeOK
  <2>4. Claims' = [Claims EXCEPT ![o] = "spent"]
    BY <1>1, <2>1, <2>3, ClaimOfOne DEF TypeOK
  <2>5. wResult[w] = "filled" /\ RealTrading => placed[o] = 1
    BY <2>1 DEF MoneyFacts
  <2>6. Contract!Settle(o)
    BY <2>1, <2>3, <2>4, <2>5 DEF Contract!Settle, Claims, ClaimOf
  <2> QED BY <2>6 DEF Contract!Next
<1>9. ~CrashWorker(w, o)
  BY HarmlessSurvives DEF CrashWorker
<1> QED BY <1>3, <1>4, <1>5, <1>6, <1>7, <1>8, <1>9, WorkerMoves, HarmlessSurvives
        DEF WorkerProgress

LEMMA StepContract ==
    ASSUME ContractInv, Faults \subseteq Harmless, [Next]_vars
    PROVE  [Contract!Next]_(Contract!contractVars)
<1>1. CASE UNCHANGED vars \/ ToggleMarket
  <2>1. UNCHANGED <<status, charged, placed, wpc, wOrder>>
    BY <1>1 DEF vars, ToggleMarket, dbVars, workerVars, worldVars
  <2> QED BY <2>1, SameClaims DEF Claimed
<1>2. ASSUME NEW o \in Orders, QueueStep(o) PROVE UNCHANGED Contract!contractVars
  <2>1. UNCHANGED <<status, charged, placed, wpc, wOrder>>
    BY <1>2, QueueRows, HarmlessSurvives DEF ContractInv
  <2> QED BY <2>1, SameClaims DEF Claimed
<1> QED BY <1>1, <1>2, CreateContract, CancelContract, WorkerContract DEF Next

\* When no execution fails the order API keeps its contract, whatever requests,
\* workers and cancellations interleave or break off: one claim per order, taken
\* while it was open, which pays at most once, never places before it paid, and
\* whose outcome is final (createOrder, process, cancelOrder).
THEOREM ContractImplemented ==
    ASSUME Faults \subseteq Harmless
    PROVE  Spec => ContractKept
<1>1. ContractInv /\ [Next]_vars => ContractInv'
  BY ContractInvStep
<1>2. ContractInv /\ [Next]_vars => [Contract!Next]_(Contract!contractVars)
  BY StepContract
<1> QED BY <1>1, <1>2, InitContractInv, InitContract, PTL DEF Spec, ContractKept, Contract!Spec

-----------------------------------------------------------------------------
(* One execution.                                                          *)

\* Nothing that would run a job again ever happens.
FirstAttempt ==
    /\ \A o \in Orders : attemptsMade[o] = 0 /\ stalls[o] = 0
    /\ \A o \in Orders : job[o] = "active" => jobLock[o] # NONE
    /\ \A w \in Workers : wpc[w] # "throw"

LEMMA FirstAttemptNext ==
    ASSUME TypeOK, FirstAttempt, Faults \intersect {"commit", "crash", "stall"} = {}, [Next]_vars
    PROVE  FirstAttempt'
<1> USE DEF TypeOK, FirstAttempt, dbVars, queueVars, workerVars, worldVars
<1>1. CASE UNCHANGED vars \/ ToggleMarket
  BY <1>1 DEF vars, ToggleMarket
<1>2. ASSUME NEW o \in Orders, CreateStep(o) PROVE FirstAttempt'
  BY <1>2 DEF CreateStep, CreateProgress, ValidateOrder, InsertOrder, EnqueueJob, SetQueued,
              AbortCreate
<1>3. ASSUME NEW o \in Orders, QueueStep(o) PROVE FirstAttempt'
  BY <1>3 DEF QueueStep, QueueProgress, PromoteJob, RecoverStalledJob, MarkAsFailed, LoseJobLock
<1>4. ASSUME NEW o \in Orders, NEW c \in Cancels, CancelStep(c, o) PROVE FirstAttempt'
  BY <1>4 DEF CancelStep, CancelProgress, LockForCancel, ListJobs, RemoveJob, CancelOnProvider,
              CommitCancel, RollbackCancel
<1>5. ASSUME NEW o \in Orders, NEW w \in Workers, WorkerStep(w, o) PROVE FirstAttempt'
  <2> USE DEF At, Finish
  <2>1. CASE PickUp(w, o)
    BY <2>1, OrderConstants DEF PickUp
  <2>2. CASE ReadOrder(w, o) \/ SaveProcessing(w, o) \/ CheckMarket(w, o) \/ CheckHealth(w, o)
    BY <2>2 DEF ReadOrder, SaveProcessing, CheckMarket, CheckHealth
  <2>3. CASE TransferUsdc(w, o) \/ PlaceOrder(w, o) \/ CommitExecution(w, o)
    BY <1>5, <2>3 DEF TransferUsdc, PlaceOrder, CommitExecution
  <2>4. CASE AckJob(w, o)
    BY <2>4 DEF AckJob
  <2>5. ~FailJob(w, o) /\ ~RollbackExecution(w, o) /\ ~CrashWorker(w, o)
    BY <1>5 DEF FailJob, RollbackExecution, CrashWorker
  <2> QED BY <1>5, <2>1, <2>2, <2>3, <2>4, <2>5 DEF WorkerStep, WorkerProgress
<1> QED BY <1>1, <1>2, <1>3, <1>4, <1>5 DEF Next

ExecutedOnce == \A o \in Orders : charged[o] <= 1 /\ placed[o] <= 1

\* An order is charged at most once and placed at most once as long as no worker
\* dies, loses the lock of its job or fails to commit: neither broken requests,
\* errors of the queue nor a queueOrder that is overtaken by its job pay twice.
\* The three that are left out are what makes executeRealOrder, which nothing
\* makes idempotent, run again.
THEOREM ExecutionsAreSingle ==
    ASSUME Faults \intersect {"commit", "crash", "stall"} = {}
    PROVE  Spec => []ExecutedOnce
<1>1. ASSUME BoundInv, FirstAttempt PROVE ExecutedOnce
  <2> SUFFICES ASSUME NEW o \in Orders PROVE charged[o] <= 1 /\ placed[o] <= 1
    BY DEF ExecutedOnce
  <2>1. Budget(o) \in Int /\ Budget(o) <= 1
    BY <1>1, OrderConstants DEF Budget, Waiting, FirstAttempt
  <2>2. /\ Cardinality(Ahead(o, PayPcs)) \in Nat
        /\ Cardinality(Ahead(o, PlacePcs)) \in Nat
    BY <1>1, FS_CardinalityType DEF BoundInv, CountFacts, Counted
  <2> QED BY <1>1, <2>1, <2>2 DEF BoundInv, CountFacts, Counted, TypeOK
<1>2. Init => BoundInv /\ FirstAttempt
  BY InitTypeOK, BoundInit DEF BoundInv, FirstAttempt, Init
<1>3. BoundInv /\ FirstAttempt /\ [Next]_vars => BoundInv' /\ FirstAttempt'
  BY NextTypeOK, BoundNext, FirstAttemptNext DEF BoundInv
<1> QED BY <1>1, <1>2, <1>3, PTL DEF Spec

=============================================================================
