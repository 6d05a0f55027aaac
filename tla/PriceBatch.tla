----------------------------- MODULE PriceBatch -----------------------------
(***************************************************************************)
(* The price path of one MarketUpdateHandlerService: quotes arrive from    *)
(* the WebSocket, each is handled after an asynchronous token lookup, the  *)
(* newest per market is queued, and a timer starts batches that write the  *)
(* queue to the market rows in one transaction.                            *)
(***************************************************************************)
EXTENDS Integers, FiniteSets

CONSTANTS
    Listed,       \* markets whose tokens are in the database
    Unlisted,     \* markets the database does not know
    Prices,       \* positive quotes, in units of 1/One
    One,          \* the price 1.0: a NO token costs One minus the best bid
    MaxQuotes,    \* bound on the quotes received in a behaviour
    Faults,       \* the faults this instance may suffer
    NONE

(***************************************************************************)
(* reorder:  lookups of quotes finish in another order than they started   *)
(* lookup:   a lookup is rejected; the handler logs that and goes on       *)
(* db:       the transaction of a batch fails (a lost deadlock included)   *)
(* connect:  the batch gets no connection                                  *)
(* rollback: a failed transaction cannot be rolled back either             *)
(* The rejections of the last two nobody handles: they end the process,    *)
(* which is restarted.                                                     *)
(***************************************************************************)
AllFaults == {"reorder", "lookup", "db", "connect", "rollback"}

Markets == Listed \union Unlisted

ASSUME PriceConstants ==
    /\ Listed \intersect Unlisted = {}
    /\ One \in Nat
    /\ Prices \subseteq 1..One
    /\ MaxQuotes \in Nat
    /\ Faults \subseteq AllFaults

Quotes == [bid : Prices \union {0}, ask : Prices \union {0}]

ASSUME NoneIsNoQuote == NONE \notin Quotes

VARIABLES
    lookups,      \* quotes whose token lookup has not finished
    received,     \* number of quotes received
    priceUpdateQueue,      \* per market: the queued quote or NONE
    timerSet,              \* priceUpdateTimer # null
    isProcessingBatch,
    pendingBatchScheduled,
    batch,        \* per market: the quote of the running batch or NONE
    batchPc,      \* "idle", "connect", "write" or "finally"
    yesPrice, noPrice,     \* the market rows
    newest,       \* per market: the quote received last, NONE if a fault undid it
    yesAsks       \* per market: the asks its YES token was ever quoted at

memVars  == <<priceUpdateQueue, timerSet, isProcessingBatch, pendingBatchScheduled>>
batchVars == <<batch, batchPc>>
rowVars  == <<yesPrice, noPrice>>
seenVars == <<newest, yesAsks>>
vars == <<lookups, received, memVars, batchVars, rowVars, seenVars>>

Outcomes == {"YES", "NO"}
Messages == [seq : Nat, market : Markets, quote : Quotes]
Empty == [m \in Markets |-> NONE]

TypeOK ==
    /\ lookups \subseteq Messages
    /\ received \in Nat
    /\ priceUpdateQueue \in [Markets -> Quotes \union {NONE}]
    /\ timerSet \in BOOLEAN
    /\ isProcessingBatch \in BOOLEAN
    /\ pendingBatchScheduled \in BOOLEAN
    /\ batch \in [Markets -> Quotes \union {NONE}]
    /\ batchPc \in {"idle", "connect", "write", "finally"}
    /\ yesPrice \in [Markets -> 0..One]
    /\ noPrice \in [Markets -> 0..One]
    /\ newest \in [Markets -> Quotes \union {NONE}]
    /\ yesAsks \in [Markets -> SUBSET Prices]

Init ==
    /\ lookups = {}
    /\ received = 0
    /\ priceUpdateQueue = Empty
    /\ timerSet = FALSE
    /\ isProcessingBatch = FALSE
    /\ pendingBatchScheduled = FALSE
    /\ batch = Empty
    /\ batchPc = "idle"
    /\ yesPrice = [m \in Markets |-> 0]
    /\ noPrice = [m \in Markets |-> 0]
    /\ newest = Empty
    /\ yesAsks = [m \in Markets |-> {}]

-----------------------------------------------------------------------------
\* handleMessage starts: book, price_change and best_bid_ask all look up the
\* token first, and keep of it only its market.  A side that is absent, or
\* does not parse, is 0.
ReceiveQuote(m, outcome, q) ==
    /\ received < MaxQuotes
    /\ received' = received + 1
    /\ lookups' = lookups \union {[seq |-> received, market |-> m, quote |-> q]}
    /\ newest' = [newest EXCEPT ![m] = q]
    /\ yesAsks' = [yesAsks EXCEPT ![m] =
                      IF outcome = "YES" THEN @ \union ({q.ask} \ {0}) ELSE @]
    /\ UNCHANGED <<memVars, batchVars, rowVars>>

\* Variant: a quote that meets a running batch does not ask for another one.
UpdateMarketPricesUnscheduled(m, q) ==
    /\ priceUpdateQueue' = [priceUpdateQueue EXCEPT ![m] = q]
    /\ timerSet' = (timerSet \/ ~isProcessingBatch)
    /\ UNCHANGED <<isProcessingBatch, pendingBatchScheduled>>

\* Variant: the timer is set even while a batch runs.
UpdateMarketPricesAlwaysTimed(m, q) ==
    /\ priceUpdateQueue' = [priceUpdateQueue EXCEPT ![m] = q]
    /\ timerSet' = TRUE
    /\ UNCHANGED <<isProcessingBatch, pendingBatchScheduled>>

\* updateMarketPrices: the queue keeps one quote per market.
UpdateMarketPrices(m, q) ==
    /\ priceUpdateQueue' = [priceUpdateQueue EXCEPT ![m] = q]
    /\ timerSet' = (timerSet \/ ~isProcessingBatch)
    /\ pendingBatchScheduled' = (pendingBatchScheduled \/ isProcessingBatch)
    /\ UNCHANGED isProcessingBatch

\* An older quote of the same market still waits for its lookup.
Overtakes(msg) ==
    \E other \in lookups : other.market = msg.market /\ other.seq < msg.seq

\* Lookups end in the order they started in, or in any.
EndsNext(msg) == "reorder" \in Faults \/ \A other \in lookups : msg.seq <= other.seq

\* The lookup is over: unknown tokens and empty quotes are dropped.
FinishLookup(msg) ==
    /\ EndsNext(msg)
    /\ lookups' = lookups \ {msg}
    /\ \/ /\ msg.market \in Listed
          /\ msg.quote.bid > 0 \/ msg.quote.ask > 0
          /\ UpdateMarketPrices(msg.market, msg.quote)
       \/ /\ msg.market \in Unlisted \/ msg.quote = [bid |-> 0, ask |-> 0]
          /\ UNCHANGED memVars
    /\ newest' = IF Overtakes(msg) THEN [newest EXCEPT ![msg.market] = NONE]
                 ELSE newest
    /\ UNCHANGED <<received, batchVars, rowVars, yesAsks>>

\* A later quote of the same market will still say what the price is.
Superseded(msg) ==
    \E other \in lookups : other.market = msg.market /\ other.seq > msg.seq

\* The lookup is rejected: handleMessage logs it, and the quote is gone.  (In
\* price_change the later entries of the message go with it: quotes of their
\* own here, whose lookups may be rejected too.)
FailLookup(msg) ==
    /\ "lookup" \in Faults
    /\ EndsNext(msg)
    /\ lookups' = lookups \ {msg}
    /\ newest' = IF Superseded(msg) THEN newest ELSE [newest EXCEPT ![msg.market] = NONE]
    /\ UNCHANGED <<received, memVars, batchVars, rowVars, yesAsks>>

\* processPriceUpdateBatch up to its first await: the queue becomes the batch.
\* With a batch running it returns and leaves the handle set; with nothing
\* queued it only clears the handle.
StartBatch ==
    LET starts == ~isProcessingBatch /\ priceUpdateQueue # Empty
    IN  /\ timerSet
        /\ timerSet' = isProcessingBatch
        /\ isProcessingBatch' = (isProcessingBatch \/ starts)
        /\ batch' = IF starts THEN priceUpdateQueue ELSE batch
        /\ priceUpdateQueue' = IF starts THEN Empty ELSE priceUpdateQueue
        /\ batchPc' = IF starts THEN "connect" ELSE batchPc
        /\ UNCHANGED <<lookups, received, pendingBatchScheduled, rowVars, seenVars>>

ConnectBatch ==
    /\ batchPc = "connect"
    /\ batchPc' = "write"
    /\ UNCHANGED <<lookups, received, memVars, batch, rowVars, seenVars>>

\* The process ends, and with it the queue, the batch and the quotes in flight.
LoseMemory ==
    /\ lookups' = {}
    /\ priceUpdateQueue' = Empty
    /\ timerSet' = FALSE
    /\ isProcessingBatch' = FALSE
    /\ pendingBatchScheduled' = FALSE
    /\ batch' = Empty
    /\ batchPc' = "idle"
    /\ newest' = Empty
    /\ UNCHANGED <<received, rowVars, yesAsks>>

\* connect() stands before the try.
DieConnecting ==
    /\ "connect" \in Faults
    /\ batchPc = "connect"
    /\ LoseMemory

\* A side without a quote keeps the price of the row, read under its lock.
YesPriceOf(m) == IF batch[m] # NONE /\ batch[m].ask > 0
                 THEN batch[m].ask ELSE yesPrice[m]

\* Variant: the complement the wrong way round.
NoPriceOfNegated(m) == IF batch[m] # NONE /\ batch[m].bid > 0
                       THEN batch[m].bid - One ELSE noPrice[m]

NoPriceOf(m)  == IF batch[m] # NONE /\ batch[m].bid > 0
                 THEN One - batch[m].bid ELSE noPrice[m]

\* Variant: the queue is cleared after the batch, not when it starts.
WriteBatchClearsQueue ==
    /\ batchPc = "write"
    /\ yesPrice' = [m \in Markets |-> YesPriceOf(m)]
    /\ noPrice' = [m \in Markets |-> NoPriceOf(m)]
    /\ batch' = Empty
    /\ priceUpdateQueue' = Empty
    /\ batchPc' = "finally"
    /\ UNCHANGED <<lookups, received, timerSet, isProcessingBatch,
                   pendingBatchScheduled, seenVars>>

WriteBatch ==
    /\ batchPc = "write"
    /\ yesPrice' = [m \in Markets |-> YesPriceOf(m)]
    /\ noPrice' = [m \in Markets |-> NoPriceOf(m)]
    /\ batch' = Empty
    /\ batchPc' = "finally"
    /\ UNCHANGED <<lookups, received, memVars, seenVars>>

\* What nothing newer replaces is lost with its batch.
ForgetLost ==
    newest' = [m \in Markets |->
        IF \/ batch[m] = NONE
           \/ priceUpdateQueue[m] # NONE
           \/ \E msg \in lookups : msg.market = m
        THEN newest[m] ELSE NONE]

\* Variant: the flags are reset after the try instead of in a finally.
LoseBatchNoFinally ==
    /\ "db" \in Faults
    /\ batchPc = "write"
    /\ batch' = Empty
    /\ batchPc' = "idle"
    /\ ForgetLost
    /\ UNCHANGED <<lookups, received, memVars, rowVars, yesAsks>>

\* The transaction fails: logged, and the quotes of the batch are gone.
LoseBatch ==
    /\ "db" \in Faults
    /\ batchPc = "write"
    /\ batch' = Empty
    /\ batchPc' = "finally"
    /\ ForgetLost
    /\ UNCHANGED <<lookups, received, memVars, rowVars, yesAsks>>

\* rollbackTransaction is rejected inside the catch.  The finally still runs,
\* and what it sets ends with the process.
DieRollingBack ==
    /\ "rollback" \in Faults
    /\ batchPc = "write"
    /\ LoseMemory

\* finally: quotes that came meanwhile get a timer of their own.
FinishBatch ==
    /\ batchPc = "finally"
    /\ batchPc' = "idle"
    /\ isProcessingBatch' = FALSE
    /\ pendingBatchScheduled' = FALSE
    /\ timerSet' = (timerSet \/ (pendingBatchScheduled /\ priceUpdateQueue # Empty))
    /\ UNCHANGED <<lookups, received, priceUpdateQueue, batch, rowVars, seenVars>>

BatchProgress == StartBatch \/ ConnectBatch \/ WriteBatch \/ FinishBatch

Next ==
    \/ \E m \in Markets, outcome \in Outcomes, q \in Quotes :
          ReceiveQuote(m, outcome, q)
    \/ \E msg \in lookups : FinishLookup(msg) \/ FailLookup(msg)
    \/ BatchProgress \/ LoseBatch \/ DieConnecting \/ DieRollingBack

Spec == Init /\ [][Next]_vars

\* Lookups end, one way or the other, the timer fires and a batch that runs goes on.
Fairness ==
    /\ WF_vars(\E msg \in lookups : FinishLookup(msg) \/ FailLookup(msg))
    /\ WF_vars(BatchProgress)

FairSpec == Spec /\ Fairness

-----------------------------------------------------------------------------
\* No lost wake-up: a queued quote has a timer ahead of it, or a batch whose
\* end will set one (updateMarketPrices and the finally of the batch agree).
QueuedMeansScheduled ==
    priceUpdateQueue # Empty =>
        timerSet \/ (isProcessingBatch /\ pendingBatchScheduled)

\* A batch and a timer never exist together, so that no timer fires into a
\* running batch, whose early return would leave the handle set for good.
TimerExcludesBatch == ~(timerSet /\ isProcessingBatch)

\* At rest both prices of a market are those of the newest quote, for the
\* sides that it quotes, unless that quote was lost in a rejected lookup, with
\* its batch or with the process, or overtaken by the lookup of a later one.
RestingPriceIsNewest ==
    lookups = {} /\ priceUpdateQueue = Empty /\ ~isProcessingBatch =>
        \A m \in Listed : newest[m] # NONE =>
            /\ newest[m].ask > 0 => yesPrice[m] = newest[m].ask
            /\ newest[m].bid > 0 => noPrice[m] = One - newest[m].bid

\* modules/markets/dto/market-response.dto.ts: outcomeYesPrice is the price of
\* the YES outcome.  Here: it is one its YES token was quoted at.
YesPriceOfYesToken ==
    \A m \in Listed : yesPrice[m] \in yesAsks[m] \union {0}

\* The queue always drains again: failed batches and restarts included, the
\* handler never gets stuck with quotes or with its processing flag.
HandlerComesToRest ==
    (priceUpdateQueue # Empty \/ isProcessingBatch) ~>
        (priceUpdateQueue = Empty /\ ~isProcessingBatch)

=============================================================================
