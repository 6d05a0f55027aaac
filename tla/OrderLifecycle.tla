--------------------------- MODULE OrderLifecycle ---------------------------
(***************************************************************************)
(* The life of an order row: the request that creates it, the BullMQ job   *)
(* that carries it, the worker that executes it against the chain and the  *)
(* exchange, and the requests that cancel it.  One action per piece of     *)
(* code between two awaits; a database transaction holds the lock of the   *)
(* order row from its first write (or SELECT ... FOR UPDATE) to its end,   *)
(* and what it wrote is visible to the others only after its commit.       *)
(***************************************************************************)
EXTENDS Naturals, FiniteSets

CONSTANTS
    Orders,       \* order ids that POST /orders may insert
    Funded,       \* the BUY orders that carry a user wallet (USDC is pulled)
    Workers,      \* BullMQ workers of the queue 'orders', one per API replica
    Cancels,      \* one-shot cancellation requests
    MaxAttempts,  \* 'attempts' of the job options: 10 in the code
    MaxStalled,   \* BullMQ's maxStalledCount: 1 by default
    RealTrading,  \* polymarket.enableRealTrading
    Faults,       \* the faults this instance may suffer
    NONE          \* no transaction, no worker, no order

(***************************************************************************)
(* commit:  a statement or the COMMIT of a worker's transaction errors     *)
(* request: an HTTP request dies, or errors, between two of its statements *)
(* redis:   a queue call errors        mark: the UPDATE of onFailed errors *)
(* crash:   a worker process dies      stall: a live worker's job lock     *)
(*                                            expires                      *)
(* slow:    the job's 10 s delay elapses before queueOrder's own UPDATE    *)
(***************************************************************************)
AllFaults == {"commit", "request", "redis", "mark", "crash", "stall", "slow"}

ASSUME OrderConstants ==
    /\ Funded \subseteq Orders
    /\ MaxAttempts \in Nat \ {0}
    /\ MaxStalled \in Nat
    /\ RealTrading \in BOOLEAN
    /\ Faults \subseteq AllFaults
    /\ NONE \notin Orders \union Workers \union Cancels
    /\ Workers \intersect Cancels = {}

VARIABLES
    status,       \* committed status of the row; "ABSENT" before the insert
    extId,        \* is external_order_id committed as non-null?
    rowLock,      \* the transaction that holds the row lock
    job,          \* state of the order's job in the queue
    jobLock,      \* the worker whose lock on the active job is still valid
    attemptsMade,
    stalls,
    marking,      \* an onFailed handler is about to run markAsFailed
    cpc,          \* control state of the creating request
    wpc, wOrder, wResult, wExt,   \* of each worker
    xpc, xOrder,  \* of each cancellation
    marketOpen,   \* market.active && !market.closed
    charged,      \* USDC transfers sent on chain for the order
    placed        \* orders the exchange accepted for the order

dbVars     == <<status, extId, rowLock>>
queueVars  == <<job, jobLock, attemptsMade, stalls, marking>>
workerVars == <<wpc, wOrder, wResult, wExt>>
cancelVars == <<xpc, xOrder>>
worldVars  == <<marketOpen, charged, placed>>
vars == <<dbVars, queueVars, cpc, workerVars, cancelVars, worldVars>>

Statuses == {"PENDING", "QUEUED", "PROCESSING", "FILLED", "CANCELLED", "FAILED"}
Settled  == {"FILLED", "CANCELLED", "FAILED"}
Processable == {"PENDING", "QUEUED"}

JobStates == {"none", "delayed", "prioritized", "waiting", "active",
              "completed", "failed"}

CreatePcs == {"idle", "validated", "committed", "enqueued",
              "done", "rejected", "errored"}
WorkerPcs == {"idle", "read", "save", "market", "health", "transfer", "place",
              "commit", "ack", "throw"}
CancelPcs == {"idle", "list", "remove", "provider", "commit",
              "acked", "rejected", "errored"}
Results == {"none", "filled", "failed", "unavailable"}

\* Worker control states inside the transaction that took the row lock.
ExecutingPcs == {"market", "health", "transfer", "place", "commit"}
\* Worker control states that act on a status read earlier.
ClaimedPcs == ExecutingPcs \union {"save"}
\* Cancellation control states that hold the row lock.
CancellingPcs == {"list", "remove", "provider", "commit"}

TypeOK ==
    /\ status \in [Orders -> Statuses \union {"ABSENT"}]
    /\ extId \in [Orders -> BOOLEAN]
    /\ rowLock \in [Orders -> Workers \union Cancels \union {NONE}]
    /\ job \in [Orders -> JobStates]
    /\ jobLock \in [Orders -> Workers \union {NONE}]
    /\ attemptsMade \in [Orders -> Nat]
    /\ stalls \in [Orders -> Nat]
    /\ marking \in [Orders -> BOOLEAN]
    /\ cpc \in [Orders -> CreatePcs]
    /\ wpc \in [Workers -> WorkerPcs]
    /\ wOrder \in [Workers -> Orders \union {NONE}]
    /\ wResult \in [Workers -> Results]
    /\ wExt \in [Workers -> BOOLEAN]
    /\ xpc \in [Cancels -> CancelPcs]
    /\ xOrder \in [Cancels -> Orders \union {NONE}]
    /\ marketOpen \in BOOLEAN
    /\ charged \in [Orders -> Nat]
    /\ placed \in [Orders -> Nat]

Init ==
    /\ status = [o \in Orders |-> "ABSENT"]
    /\ extId = [o \in Orders |-> FALSE]
    /\ rowLock = [o \in Orders |-> NONE]
    /\ job = [o \in Orders |-> "none"]
    /\ jobLock = [o \in Orders |-> NONE]
    /\ attemptsMade = [o \in Orders |-> 0]
    /\ stalls = [o \in Orders |-> 0]
    /\ marking = [o \in Orders |-> FALSE]
    /\ cpc = [o \in Orders |-> "idle"]
    /\ wpc = [w \in Workers |-> "idle"]
    /\ wOrder = [w \in Workers |-> NONE]
    /\ wResult = [w \in Workers |-> "none"]
    /\ wExt = [w \in Workers |-> FALSE]
    /\ xpc = [c \in Cancels |-> "idle"]
    /\ xOrder = [c \in Cancels |-> NONE]
    /\ marketOpen = TRUE
    /\ charged = [o \in Orders |-> 0]
    /\ placed = [o \in Orders |-> 0]

-----------------------------------------------------------------------------
(* createOrder: one transaction for the row, then, after its commit,       *)
(* queueOrder: the job first and the status QUEUED second.                 *)

CreateGoto(o, from, to) ==
    /\ cpc[o] = from
    /\ cpc' = [cpc EXCEPT ![o] = to]

\* The checks of market, signature, balance and allowance.
ValidateOrder(o) ==
    /\ \/ marketOpen /\ CreateGoto(o, "idle", "validated")
       \/ CreateGoto(o, "idle", "rejected")
    /\ UNCHANGED <<dbVars, queueVars, workerVars, cancelVars, worldVars>>

InsertOrder(o) ==
    /\ \/ CreateGoto(o, "validated", "committed")
       \/ "request" \in Faults /\ CreateGoto(o, "validated", "errored")
    /\ status' = [status EXCEPT ![o] = "PENDING"]
    /\ UNCHANGED <<extId, rowLock, queueVars, workerVars, cancelVars, worldVars>>

EnqueueJob(o) ==
    /\ \/ CreateGoto(o, "committed", "enqueued")
       \/ "redis" \in Faults /\ CreateGoto(o, "committed", "errored")
    /\ job' = [job EXCEPT ![o] = "delayed"]
    /\ UNCHANGED <<dbVars, jobLock, attemptsMade, stalls, marking,
                   workerVars, cancelVars, worldVars>>

\* orderRepository.updateStatus: one UPDATE by id, whatever the status is.
SetQueued(o) ==
    /\ rowLock[o] = NONE
    /\ \/ CreateGoto(o, "enqueued", "done")
       \/ "request" \in Faults /\ CreateGoto(o, "enqueued", "errored")
    /\ status' = [status EXCEPT ![o] = "QUEUED"]
    /\ UNCHANGED <<extId, rowLock, queueVars, workerVars, cancelVars, worldVars>>

\* The statement or queue call the request is at fails without effect: the
\* client gets an error, and what was committed before stays.
AbortCreate(o) ==
    /\ \/ "request" \in Faults /\ \E pc \in {"validated", "enqueued"} :
                                      CreateGoto(o, pc, "errored")
       \/ {"request", "redis"} \intersect Faults # {}
              /\ CreateGoto(o, "committed", "errored")
    /\ UNCHANGED <<dbVars, queueVars, workerVars, cancelVars, worldVars>>

-----------------------------------------------------------------------------
(* The queue: BullMQ as the options of queueOrder and the worker use it.   *)

\* A job with a priority leaves 'delayed' for 'prioritized', not 'waiting'.
PromoteJob(o) ==
    /\ job[o] = "delayed"
    /\ cpc[o] = "enqueued" => "slow" \in Faults
    /\ job' = [job EXCEPT ![o] = "prioritized"]
    /\ UNCHANGED <<dbVars, jobLock, attemptsMade, stalls, marking, cpc,
                   workerVars, cancelVars, worldVars>>

\* Variant: onFailed compares with > and misses the last attempt.
RecordFailureMarksLate(o, next) ==
    /\ attemptsMade' = [attemptsMade EXCEPT ![o] = @ + 1]
    /\ job' = [job EXCEPT ![o] = next]
    /\ jobLock' = [jobLock EXCEPT ![o] = NONE]
    /\ marking' = [marking EXCEPT ![o] = @ \/ attemptsMade[o] + 1 > MaxAttempts]

\* A failed attempt; the 'failed' event calls onFailed, which writes the row
\* only when no attempt is left.
RecordFailure(o, next) ==
    /\ attemptsMade' = [attemptsMade EXCEPT ![o] = @ + 1]
    /\ job' = [job EXCEPT ![o] = next]
    /\ jobLock' = [jobLock EXCEPT ![o] = NONE]
    /\ marking' = [marking EXCEPT ![o] = @ \/ attemptsMade[o] + 1 >= MaxAttempts]

\* The lock of an active job expires while its worker is still running.
LoseJobLock(o) ==
    /\ "stall" \in Faults
    /\ job[o] = "active"
    /\ jobLock' = [jobLock EXCEPT ![o] = NONE]
    /\ UNCHANGED <<dbVars, job, attemptsMade, stalls, marking, cpc,
                   workerVars, cancelVars, worldVars>>

\* The stalled-job check: back to the waiting list, or failed for good.
RecoverStalledJob(o) ==
    /\ job[o] = "active"
    /\ jobLock[o] = NONE
    /\ \/ /\ stalls[o] < MaxStalled
          /\ stalls' = [stalls EXCEPT ![o] = @ + 1]
          /\ job' = [job EXCEPT ![o] = "waiting"]
          /\ UNCHANGED <<jobLock, attemptsMade, marking>>
       \/ /\ stalls[o] >= MaxStalled
          /\ RecordFailure(o, "failed")
          /\ UNCHANGED stalls
    /\ UNCHANGED <<dbVars, cpc, workerVars, cancelVars, worldVars>>

\* orderRepository.markAsFailed of onFailed: one UPDATE by id.
MarkAsFailed(o) ==
    /\ marking[o]
    /\ marking' = [marking EXCEPT ![o] = FALSE]
    /\ \/ /\ rowLock[o] = NONE
          /\ status' = [status EXCEPT ![o] = "FAILED"]
       \/ /\ "mark" \in Faults
          /\ UNCHANGED status
    /\ UNCHANGED <<extId, rowLock, job, jobLock, attemptsMade, stalls, cpc,
                   workerVars, cancelVars, worldVars>>

-----------------------------------------------------------------------------
(* OrdersProcessor.process.  The status is read without a lock; the first  *)
(* save takes the row lock, which is then held through the transfer and    *)
(* the placement, up to the commit.                                        *)

At(w, pc, o) == wpc[w] = pc /\ wOrder[w] = o

Unlock(o, holder) == rowLock' = [rowLock EXCEPT ![o] = IF @ = holder THEN NONE ELSE @]

Finish(w, result) ==
    /\ wpc' = [wpc EXCEPT ![w] = "commit"]
    /\ wResult' = [wResult EXCEPT ![w] = result]

PickUp(w, o) ==
    /\ wpc[w] = "idle"
    /\ job[o] \in {"prioritized", "waiting"}
    /\ job' = [job EXCEPT ![o] = "active"]
    /\ jobLock' = [jobLock EXCEPT ![o] = w]
    /\ wpc' = [wpc EXCEPT ![w] = "read"]
    /\ wOrder' = [wOrder EXCEPT ![w] = o]
    /\ UNCHANGED <<dbVars, attemptsMade, stalls, marking, cpc, wResult, wExt,
                   cancelVars, worldVars>>

\* Variant: the status check is missing.
ReadOrderUnchecked(w, o) ==
    /\ At(w, "read", o)
    /\ wpc' = [wpc EXCEPT ![w] = "save"]
    /\ wExt' = [wExt EXCEPT ![w] = extId[o]]
    /\ UNCHANGED <<dbVars, queueVars, cpc, wOrder, wResult, cancelVars, worldVars>>

ReadOrder(w, o) ==
    /\ At(w, "read", o)
    /\ \/ status[o] \in Processable /\ wpc' = [wpc EXCEPT ![w] = "save"]
       \/ status[o] \notin Processable /\ wpc' = [wpc EXCEPT ![w] = "ack"]
    /\ wExt' = [wExt EXCEPT ![w] = extId[o]]
    /\ UNCHANGED <<dbVars, queueVars, cpc, wOrder, wResult, cancelVars, worldVars>>

\* Variant: the save goes through the repository, outside the transaction.
SaveProcessingUnlocked(w, o) ==
    /\ At(w, "save", o)
    /\ rowLock[o] = NONE
    /\ status' = [status EXCEPT ![o] = "PROCESSING"]
    /\ wpc' = [wpc EXCEPT ![w] = "market"]
    /\ UNCHANGED <<extId, rowLock, queueVars, cpc, wOrder, wResult, wExt,
                   cancelVars, worldVars>>

\* save(PROCESSING): an UPDATE by id that no version guards.
SaveProcessing(w, o) ==
    /\ At(w, "save", o)
    /\ rowLock[o] = NONE
    /\ rowLock' = [rowLock EXCEPT ![o] = w]
    /\ wpc' = [wpc EXCEPT ![w] = "market"]
    /\ UNCHANGED <<status, extId, queueVars, cpc, wOrder, wResult, wExt,
                   cancelVars, worldVars>>

\* Market gone, inactive or closed; otherwise execute, for real or simulated.
CheckMarket(w, o) ==
    /\ At(w, "market", o)
    /\ \/ ~marketOpen /\ Finish(w, "failed")
       \/ /\ marketOpen /\ RealTrading
          /\ wpc' = [wpc EXCEPT ![w] = "health"]
          /\ UNCHANGED wResult
       \/ /\ marketOpen /\ ~RealTrading
          /\ \E r \in {"filled", "failed"} : Finish(w, r)
    /\ UNCHANGED <<dbVars, queueVars, cpc, wOrder, wExt, cancelVars, worldVars>>

\* No condition id, provider down, or on to the payment or the placement.
CheckHealth(w, o) ==
    /\ At(w, "health", o)
    /\ \/ \E r \in {"failed", "unavailable"} : Finish(w, r)
       \/ /\ wpc' = [wpc EXCEPT ![w] = IF o \in Funded THEN "transfer" ELSE "place"]
          /\ UNCHANGED wResult
    /\ UNCHANGED <<dbVars, queueVars, cpc, wOrder, wExt, cancelVars, worldVars>>

\* Variant: the catch logs the error and lets the execution go on.
TransferUsdcGoesOn(w, o) ==
    /\ At(w, "transfer", o)
    /\ charged' \in {charged, [charged EXCEPT ![o] = @ + 1]}
    /\ wpc' = [wpc EXCEPT ![w] = "place"]
    /\ UNCHANGED <<dbVars, queueVars, cpc, wOrder, wResult, wExt, cancelVars,
                   marketOpen, placed>>

\* Balance, allowance, transferFromUser and the funder's balance share one
\* catch: an error fails the order whether or not the transfer was sent.
TransferUsdc(w, o) ==
    /\ At(w, "transfer", o)
    /\ \/ /\ charged' = [charged EXCEPT ![o] = @ + 1]
          /\ \/ wpc' = [wpc EXCEPT ![w] = "place"] /\ UNCHANGED wResult
             \/ Finish(w, "failed")
       \/ Finish(w, "failed") /\ UNCHANGED charged
    /\ UNCHANGED <<dbVars, queueVars, cpc, wOrder, wExt, cancelVars,
                   marketOpen, placed>>

\* Variant: an error of placeOrder is taken for an accepted order.
PlaceOrderOptimistic(w, o) ==
    /\ At(w, "place", o)
    /\ placed' \in {placed, [placed EXCEPT ![o] = @ + 1]}
    /\ \E r \in {"filled", "failed"} : Finish(w, r)
    /\ UNCHANGED <<dbVars, queueVars, cpc, wOrder, wExt, cancelVars,
                   marketOpen, charged>>

\* The exchange accepts, or placeOrder throws: refused, or accepted with the
\* answer lost.
PlaceOrder(w, o) ==
    /\ At(w, "place", o)
    /\ \/ /\ placed' = [placed EXCEPT ![o] = @ + 1]
          /\ \E r \in {"filled", "failed"} : Finish(w, r)
       \/ Finish(w, "failed") /\ UNCHANGED placed
    /\ UNCHANGED <<dbVars, queueVars, cpc, wOrder, wExt, cancelVars,
                   marketOpen, charged>>

\* Variant: the result is written where the status belongs.
CommitExecutionRaw(w, o) ==
    /\ At(w, "commit", o)
    /\ status' = [status EXCEPT ![o] = wResult[w]]
    /\ Unlock(o, w)
    /\ wResult' = [wResult EXCEPT ![w] = "none"]
    /\ wpc' = [wpc EXCEPT ![w] = "ack"]
    /\ UNCHANGED <<extId, queueVars, cpc, wOrder, wExt, cancelVars, worldVars>>

\* The second save writes the whole entity, its stale external id included.
CommitExecution(w, o) ==
    /\ At(w, "commit", o)
    /\ status' = [status EXCEPT ![o] =
                     IF wResult[w] = "filled" THEN "FILLED" ELSE "FAILED"]
    /\ extId' = [extId EXCEPT ![o] = wResult[w] = "filled" \/ wExt[w]]
    /\ Unlock(o, w)
    /\ wResult' = [wResult EXCEPT ![w] = "none"]
    /\ \/ wpc' = [wpc EXCEPT ![w] = "ack"]
       \/ "commit" \in Faults /\ wpc' = [wpc EXCEPT ![w] = "throw"]
    /\ UNCHANGED <<queueVars, cpc, wOrder, wExt, cancelVars, worldVars>>

\* A statement errors: rollback, rethrow.  Nothing undoes a transfer or an
\* order that the exchange accepted.
RollbackExecution(w, o) ==
    /\ "commit" \in Faults
    /\ \E pc \in {"read", "save", "market", "commit"} : At(w, pc, o)
    /\ Unlock(o, w)
    /\ wpc' = [wpc EXCEPT ![w] = "throw"]
    /\ wResult' = [wResult EXCEPT ![w] = "none"]
    /\ UNCHANGED <<status, extId, queueVars, cpc, wOrder, wExt, cancelVars,
                   worldVars>>

\* process returned: the job completes, unless its lock is no longer ours.
AckJob(w, o) ==
    /\ At(w, "ack", o)
    /\ \/ /\ jobLock[o] = w
          /\ job' = [job EXCEPT ![o] = "completed"]
          /\ jobLock' = [jobLock EXCEPT ![o] = NONE]
       \/ jobLock[o] # w /\ UNCHANGED <<job, jobLock>>
    /\ wpc' = [wpc EXCEPT ![w] = "idle"]
    /\ wOrder' = [wOrder EXCEPT ![w] = NONE]
    /\ UNCHANGED <<dbVars, attemptsMade, stalls, marking, cpc, wResult, wExt,
                   cancelVars, worldVars>>

\* Variant: one attempt too many.
FailJobOnceMore(w, o) ==
    /\ At(w, "throw", o)
    /\ \/ /\ jobLock[o] = w
          /\ RecordFailure(o, IF attemptsMade[o] < MaxAttempts
                              THEN "delayed" ELSE "failed")
       \/ jobLock[o] # w /\ UNCHANGED <<job, jobLock, attemptsMade, marking>>
    /\ wpc' = [wpc EXCEPT ![w] = "idle"]
    /\ wOrder' = [wOrder EXCEPT ![w] = NONE]
    /\ UNCHANGED <<dbVars, stalls, cpc, wResult, wExt, cancelVars, worldVars>>

\* process threw: retried after a backoff while attempts are left.
FailJob(w, o) ==
    /\ At(w, "throw", o)
    /\ \/ /\ jobLock[o] = w
          /\ RecordFailure(o, IF attemptsMade[o] + 1 < MaxAttempts
                              THEN "delayed" ELSE "failed")
       \/ jobLock[o] # w /\ UNCHANGED <<job, jobLock, attemptsMade, marking>>
    /\ wpc' = [wpc EXCEPT ![w] = "idle"]
    /\ wOrder' = [wOrder EXCEPT ![w] = NONE]
    /\ UNCHANGED <<dbVars, stalls, cpc, wResult, wExt, cancelVars, worldVars>>

\* The process dies and is restarted; its connection's transaction is rolled
\* back, the lock of its job expires.
CrashWorker(w, o) ==
    /\ "crash" \in Faults
    /\ wpc[w] # "idle" /\ wOrder[w] = o
    /\ Unlock(o, w)
    /\ jobLock' = [jobLock EXCEPT ![o] = IF @ = w THEN NONE ELSE @]
    /\ wpc' = [wpc EXCEPT ![w] = "idle"]
    /\ wOrder' = [wOrder EXCEPT ![w] = NONE]
    /\ wResult' = [wResult EXCEPT ![w] = "none"]
    /\ UNCHANGED <<status, extId, job, attemptsMade, stalls, marking, cpc, wExt,
                   cancelVars, worldVars>>

-----------------------------------------------------------------------------
(* cancelOrder: one transaction that holds the row lock from its read.     *)

CancelAt(c, pc, o) == xpc[c] = pc /\ xOrder[c] = o

CancelGoto(c, pc) == xpc' = [xpc EXCEPT ![c] = pc]

\* After the queue, the provider if there is something to cancel there.
AfterQueue(o) == IF extId[o] THEN "provider" ELSE "commit"

\* Variant: whatever is not filled may be cancelled.
CancellableUnlessFilled(o) == status[o] \notin {"FILLED", "CANCELLED"}

Cancellable(o) ==
    \/ status[o] \in {"PENDING", "QUEUED"}
    \/ status[o] = "PROCESSING" /\ extId[o]

LockForCancel(c, o) ==
    /\ xpc[c] = "idle"
    /\ status[o] # "ABSENT"
    /\ rowLock[o] = NONE
    /\ \/ /\ Cancellable(o)
          /\ rowLock' = [rowLock EXCEPT ![o] = c]
          /\ CancelGoto(c, IF status[o] = "QUEUED" THEN "list" ELSE AfterQueue(o))
       \/ /\ ~Cancellable(o)
          /\ CancelGoto(c, "rejected")
          /\ UNCHANGED rowLock
    /\ xOrder' = [xOrder EXCEPT ![c] = o]
    /\ UNCHANGED <<status, extId, queueVars, cpc, workerVars, worldVars>>

\* getJobs(['waiting', 'delayed', 'active']): prioritized jobs are not asked
\* for.  An error of the queue is logged and swallowed.
ListJobs(c, o) ==
    /\ CancelAt(c, "list", o)
    /\ \/ job[o] \in {"waiting", "delayed", "active"} /\ CancelGoto(c, "remove")
       \/ /\ job[o] \notin {"waiting", "delayed", "active"} \/ "redis" \in Faults
          /\ CancelGoto(c, AfterQueue(o))
    /\ UNCHANGED <<dbVars, queueVars, cpc, workerVars, xOrder, worldVars>>

\* job.remove() throws for a job that a worker has locked.
RemoveJob(c, o) ==
    /\ CancelAt(c, "remove", o)
    /\ \/ /\ jobLock[o] = NONE
          /\ job' = [job EXCEPT ![o] = "none"]
       \/ /\ jobLock[o] # NONE \/ "redis" \in Faults
          /\ UNCHANGED job
    /\ CancelGoto(c, AfterQueue(o))
    /\ UNCHANGED <<dbVars, jobLock, attemptsMade, stalls, marking, cpc,
                   workerVars, xOrder, worldVars>>

\* Whatever the provider answers, the local cancellation proceeds.
CancelOnProvider(c, o) ==
    /\ CancelAt(c, "provider", o)
    /\ CancelGoto(c, "commit")
    /\ UNCHANGED <<dbVars, queueVars, cpc, workerVars, xOrder, worldVars>>

CommitCancel(c, o) ==
    /\ CancelAt(c, "commit", o)
    /\ status' = [status EXCEPT ![o] = "CANCELLED"]
    /\ Unlock(o, c)
    /\ \/ CancelGoto(c, "acked")
       \/ "request" \in Faults /\ CancelGoto(c, "errored")
    /\ UNCHANGED <<extId, queueVars, cpc, workerVars, xOrder, worldVars>>

\* The request dies or a statement errors: rollback.  A job that was already
\* removed from the queue stays removed.
RollbackCancel(c, o) ==
    /\ "request" \in Faults
    /\ \E pc \in CancellingPcs : CancelAt(c, pc, o)
    /\ Unlock(o, c)
    /\ CancelGoto(c, "errored")
    /\ UNCHANGED <<status, extId, queueVars, cpc, workerVars, xOrder, worldVars>>

-----------------------------------------------------------------------------
(* The market opens and closes under the writers of the markets table.     *)

ToggleMarket ==
    /\ marketOpen' = ~marketOpen
    /\ UNCHANGED <<dbVars, queueVars, cpc, workerVars, cancelVars, charged, placed>>

-----------------------------------------------------------------------------
CreateProgress(o) == InsertOrder(o) \/ EnqueueJob(o) \/ SetQueued(o)

CreateStep(o) == ValidateOrder(o) \/ CreateProgress(o) \/ AbortCreate(o)

QueueProgress(o) == PromoteJob(o) \/ RecoverStalledJob(o) \/ MarkAsFailed(o)

QueueStep(o) == QueueProgress(o) \/ LoseJobLock(o)

WorkerProgress(w, o) ==
    \/ ReadOrder(w, o) \/ SaveProcessing(w, o) \/ CheckMarket(w, o)
    \/ CheckHealth(w, o) \/ TransferUsdc(w, o) \/ PlaceOrder(w, o)
    \/ CommitExecution(w, o) \/ AckJob(w, o) \/ FailJob(w, o)

WorkerStep(w, o) ==
    PickUp(w, o) \/ WorkerProgress(w, o) \/ RollbackExecution(w, o) \/ CrashWorker(w, o)

CancelProgress(c, o) ==
    ListJobs(c, o) \/ RemoveJob(c, o) \/ CancelOnProvider(c, o) \/ CommitCancel(c, o)

CancelStep(c, o) == LockForCancel(c, o) \/ CancelProgress(c, o) \/ RollbackCancel(c, o)

Next ==
    \/ \E o \in Orders : \/ CreateStep(o) \/ QueueStep(o)
                         \/ \E w \in Workers : WorkerStep(w, o)
                         \/ \E c \in Cancels : CancelStep(c, o)
    \/ ToggleMarket

Spec == Init /\ [][Next]_vars

(***************************************************************************)
(* Fairness: an accepted request runs to its end, the queue promotes,      *)
(* redelivers and hands out jobs, a worker that has a job goes on.  Nobody *)
(* is obliged to send a request, and no fault is obliged to happen.        *)
(***************************************************************************)
Fairness ==
    /\ \A o \in Orders :
          /\ WF_vars(CreateProgress(o))
          /\ WF_vars(PromoteJob(o)) /\ WF_vars(RecoverStalledJob(o))
          /\ WF_vars(MarkAsFailed(o))
          /\ WF_vars(\E w \in Workers : PickUp(w, o))
    /\ \A w \in Workers : WF_vars(\E o \in Orders : WorkerProgress(w, o))
    /\ \A c \in Cancels : WF_vars(\E o \in Orders : CancelProgress(c, o))

FairSpec == Spec /\ Fairness

-----------------------------------------------------------------------------
(* Properties of every instance, whatever faults it suffers.               *)

\* A worker acts on o as if the status it once read were still the row's.
Claimed(o) == \E w \in Workers : wpc[w] \in ClaimedPcs /\ wOrder[w] = o

\* createOrder has committed the row and not yet run its UPDATE to QUEUED.
QueueingPending(o) == cpc[o] \in {"committed", "enqueued"}

\* The row lock makes executions of one order exclusive: even when a stalled
\* job runs on two workers, only one of them is between its first save and
\* its commit (processor.process).
ExecutionExclusive ==
    \A v, w \in Workers :
        /\ wpc[v] \in ExecutingPcs /\ wpc[w] \in ExecutingPcs
        /\ wOrder[v] = wOrder[w]
        => v = w

\* No order is placed with the funder's money: every placement for a wallet's
\* BUY follows a transfer of its own, across retries, crashes and repeated
\* runs (executeRealOrder transfers before it places).
ChargedBeforePlaced == \A o \in Funded : placed[o] <= charged[o]

\* A row that says FILLED has an order on the exchange behind it and knows
\* its id; no interleaving of stale writers fabricates a fill.
FilledIsBacked ==
    \A o \in Orders : status[o] = "FILLED" =>
        extId[o] /\ (RealTrading => placed[o] >= 1)

\* Nothing makes execution idempotent, but the queue bounds it: an order is
\* charged and placed at most once per attempt and per tolerated stall.
ExecutionsBounded ==
    \A o \in Orders :
        /\ charged[o] <= MaxAttempts + MaxStalled
        /\ placed[o] <= MaxAttempts + MaxStalled

\* A settled order that no worker claimed beforehand, and whose creation is
\* over, stays settled, is never claimed again and reaches neither the chain
\* nor the exchange: the status check of the processor is enough for every job
\* that starts later, left in the queue by a cancellation, retried or
\* redelivered.
SettledUnclaimedIsInert ==
    [][\A o \in Orders :
          status[o] \in Settled /\ ~Claimed(o) /\ ~QueueingPending(o) =>
              /\ status'[o] \in Settled
              /\ ~Claimed(o)'
              /\ charged'[o] = charged[o]
              /\ placed'[o] = placed[o]]_vars

-----------------------------------------------------------------------------
(* Properties of instances that suffer no fault, or few.                   *)

\* When no execution fails the order API keeps its contract: at most one
\* execution per order, taken while the order was open, and a final outcome.
Contract == INSTANCE OrderContract WITH
    state <- status,
    claim <- [o \in Orders |->
                 IF Claimed(o) THEN "held"
                 ELSE IF status[o] \in {"FILLED", "FAILED"} THEN "spent"
                 ELSE "none"],
    paid <- charged,
    live <- placed

ContractKept == Contract!Spec

\* An order whose creation succeeded ends in FILLED, FAILED or CANCELLED and
\* remains so.
EveryOrderSettles ==
    \A o \in Orders : cpc[o] = "done" ~> [](status[o] \in Settled)

=============================================================================
