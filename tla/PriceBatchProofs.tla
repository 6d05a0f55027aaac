-------------------------- MODULE PriceBatchProofs --------------------------
(***************************************************************************)
(* Theorems about PriceBatch, for every set of markets and prices, any     *)
(* number of quotes and every combination of faults.                       *)
(***************************************************************************)
EXTENDS PriceBatch, TLAPS

\* The processing flag is set exactly while a batch runs, and there are quotes
\* in the batch only until it is written.
FlagMeansBatch ==
    /\ isProcessingBatch <=> batchPc # "idle"
    /\ batchPc \in {"idle", "finally"} => batch = Empty

BatchInv == TypeOK /\ FlagMeansBatch /\ TimerExcludesBatch /\ QueuedMeansScheduled

-----------------------------------------------------------------------------
LEMMA InitBatch == Init => BatchInv
<1> SUFFICES ASSUME Init PROVE BatchInv
  OBVIOUS
<1>1. Empty \in [Markets -> Quotes \union {NONE}]
  BY DEF Empty
<1>2. 0 \in 0..One
  BY PriceConstants
<1>3. TypeOK
  BY <1>1, <1>2 DEF Init, TypeOK
<1> QED BY <1>3 DEF Init, BatchInv, FlagMeansBatch, TimerExcludesBatch,
             QueuedMeansScheduled

\* What the queueing of a quote leaves in memory.
LEMMA QueueingBatch ==
    ASSUME BatchInv, NEW m \in Markets, NEW q \in Quotes, UpdateMarketPrices(m, q),
           UNCHANGED batchVars
    PROVE  /\ priceUpdateQueue' \in [Markets -> Quotes \union {NONE}]
           /\ timerSet' \in BOOLEAN /\ isProcessingBatch' \in BOOLEAN
           /\ pendingBatchScheduled' \in BOOLEAN
           /\ FlagMeansBatch' /\ TimerExcludesBatch' /\ QueuedMeansScheduled'
<1>1. priceUpdateQueue' \in [Markets -> Quotes \union {NONE}]
  BY DEF UpdateMarketPrices, BatchInv, TypeOK
<1>2. timerSet' \in BOOLEAN /\ pendingBatchScheduled' \in BOOLEAN
  BY DEF UpdateMarketPrices
<1> QED BY <1>1, <1>2 DEF UpdateMarketPrices, batchVars, BatchInv, TypeOK,
             FlagMeansBatch, TimerExcludesBatch, QueuedMeansScheduled, Empty

\* A message is received, or its lookup ends.
LEMMA MessageBatch ==
    ASSUME BatchInv,
           \/ \E m \in Markets, outcome \in Outcomes, q \in Quotes :
                 ReceiveQuote(m, outcome, q)
           \/ \E msg \in lookups : FinishLookup(msg) \/ FailLookup(msg)
    PROVE  BatchInv'
<1> USE DEF memVars, batchVars, rowVars
<1>1. ASSUME NEW m \in Markets, NEW outcome \in Outcomes, NEW q \in Quotes,
             ReceiveQuote(m, outcome, q)
      PROVE  BatchInv'
  <2>1. yesAsks' \in [Markets -> SUBSET Prices]
    BY <1>1 DEF ReceiveQuote, BatchInv, TypeOK, Quotes
  <2>2. /\ lookups' \subseteq Messages /\ received' \in Nat
        /\ newest' \in [Markets -> Quotes \union {NONE}]
    BY <1>1 DEF ReceiveQuote, BatchInv, TypeOK, Messages
  <2> QED BY <1>1, <2>1, <2>2 DEF ReceiveQuote, BatchInv, TypeOK, FlagMeansBatch,
               TimerExcludesBatch, QueuedMeansScheduled, Empty
<1>2. ASSUME NEW msg \in lookups, FinishLookup(msg)
      PROVE  BatchInv'
  <2>1. msg.market \in Markets /\ msg.quote \in Quotes
    BY DEF BatchInv, TypeOK, Messages
  <2>2. /\ lookups' \subseteq Messages
        /\ newest' \in [Markets -> Quotes \union {NONE}]
    BY <1>2, <2>1 DEF FinishLookup, BatchInv, TypeOK
  <2>3. CASE UpdateMarketPrices(msg.market, msg.quote)
    BY <1>2, <2>1, <2>2, <2>3, QueueingBatch
       DEF FinishLookup, UpdateMarketPrices, BatchInv, TypeOK
  <2>4. CASE UNCHANGED memVars
    BY <1>2, <2>2, <2>4 DEF FinishLookup, BatchInv, TypeOK, FlagMeansBatch,
               TimerExcludesBatch, QueuedMeansScheduled, Empty
  <2> QED BY <1>2, <2>3, <2>4 DEF FinishLookup
<1>3. ASSUME NEW msg \in lookups, FailLookup(msg)
      PROVE  BatchInv'
  <2>1. /\ lookups' \subseteq Messages
        /\ newest' \in [Markets -> Quotes \union {NONE}]
    BY <1>3 DEF FailLookup, BatchInv, TypeOK, Messages
  <2> QED BY <1>3, <2>1 DEF FailLookup, BatchInv, TypeOK, FlagMeansBatch,
               TimerExcludesBatch, QueuedMeansScheduled, Empty
<1> QED BY <1>1, <1>2, <1>3

\* The prices that a batch writes are prices.
LEMMA WrittenPrices ==
    ASSUME TypeOK, NEW m \in Markets
    PROVE  YesPriceOf(m) \in 0..One /\ NoPriceOf(m) \in 0..One
<1>1. yesPrice[m] \in 0..One /\ noPrice[m] \in 0..One
  BY DEF TypeOK
<1>2. CASE batch[m] = NONE
  BY <1>1, <1>2 DEF YesPriceOf, NoPriceOf
<1>3. CASE batch[m] # NONE
  <2>1. batch[m].ask \in Prices \union {0} /\ batch[m].bid \in Prices \union {0}
    BY <1>3 DEF TypeOK, Quotes
  <2>2. One \in Nat /\ \A p \in Prices : p \in Int /\ 1 <= p /\ p <= One
    BY PriceConstants
  <2>3. \A p \in Prices \union {0} : p \in 0..One /\ One - p \in 0..One
    BY <2>2
  <2>4. batch[m].ask \in 0..One /\ One - batch[m].bid \in 0..One
    BY <2>1, <2>3
  <2> QED BY <1>1, <2>4 DEF YesPriceOf, NoPriceOf
<1> QED BY <1>2, <1>3

\* The steps of a batch.
LEMMA StepBatch ==
    ASSUME BatchInv, BatchProgress \/ LoseBatch \/ DieConnecting \/ DieRollingBack
    PROVE  BatchInv'
<1> USE DEF BatchInv, FlagMeansBatch, TimerExcludesBatch, QueuedMeansScheduled, Empty,
            memVars, batchVars, rowVars, seenVars
<1>1. CASE StartBatch
  BY <1>1 DEF StartBatch, TypeOK
<1>2. CASE ConnectBatch
  BY <1>2 DEF ConnectBatch, TypeOK
<1>3. CASE WriteBatch
  BY <1>3, WrittenPrices DEF WriteBatch, TypeOK
<1>4. CASE FinishBatch
  <2> DEFINE more == pendingBatchScheduled /\ priceUpdateQueue # [m \in Markets |-> NONE]
  <2>1. timerSet \in BOOLEAN /\ timerSet' = (timerSet \/ more)
    BY <1>4 DEF FinishBatch, TypeOK
  <2>2. timerSet' \in BOOLEAN
    <3> HIDE DEF more
    <3> QED BY <2>1, Zenon
  <2>3. /\ lookups' = lookups /\ received' = received /\ batch' = batch
        /\ priceUpdateQueue' = priceUpdateQueue /\ yesPrice' = yesPrice
        /\ noPrice' = noPrice /\ newest' = newest /\ yesAsks' = yesAsks
        /\ batchPc' = "idle" /\ isProcessingBatch' = FALSE
        /\ pendingBatchScheduled' = FALSE
    BY <1>4 DEF FinishBatch
  <2>4. TypeOK'
    BY <2>2, <2>3 DEF TypeOK
  <2>5. batch = [m \in Markets |-> NONE]
    BY <1>4 DEF FinishBatch
  <2> QED BY <2>1, <2>3, <2>4, <2>5
<1>5. CASE DieConnecting \/ DieRollingBack
  BY <1>5 DEF DieConnecting, DieRollingBack, LoseMemory, TypeOK
<1>6. CASE LoseBatch
  <2>1. newest' \in [Markets -> Quotes \union {NONE}]
    BY <1>6 DEF LoseBatch, ForgetLost, TypeOK
  <2> QED BY <1>6, <2>1 DEF LoseBatch, TypeOK
<1> QED BY <1>1, <1>2, <1>3, <1>4, <1>5, <1>6 DEF BatchProgress

LEMMA BatchStep == BatchInv /\ [Next]_vars => BatchInv'
<1> SUFFICES ASSUME BatchInv, [Next]_vars PROVE BatchInv'
  OBVIOUS
<1>1. CASE Next
  BY <1>1, MessageBatch, StepBatch DEF Next
<1>2. CASE UNCHANGED vars
  BY <1>2 DEF vars, memVars, batchVars, rowVars, seenVars, BatchInv, TypeOK,
      FlagMeansBatch, TimerExcludesBatch, QueuedMeansScheduled, Empty
<1> QED BY <1>1, <1>2

LEMMA BatchAlways == Spec => []BatchInv
BY InitBatch, BatchStep, PTL DEF Spec

\* Every variable of PriceBatch keeps its type, the stored prices their range.
THEOREM TypeCorrect == Spec => []TypeOK
BY BatchAlways, PTL DEF BatchInv

\* No lost wake-up, for any number of quotes and failing batches.
THEOREM NoLostWakeUp == Spec => []QueuedMeansScheduled
BY BatchAlways, PTL DEF BatchInv

\* No timer is ever set while a batch runs.
THEOREM TimerAndBatchExclude == Spec => []TimerExcludesBatch
BY BatchAlways, PTL DEF BatchInv

-----------------------------------------------------------------------------
(* The newest quote on its way to the row.                                 *)

\* Both prices of m are those of the newest quote, for the sides it quotes.
Matches(m) ==
    /\ newest[m].ask > 0 => yesPrice[m] = newest[m].ask
    /\ newest[m].bid > 0 => noPrice[m] = One - newest[m].bid

\* The last lookup of m in flight is that of its newest quote.
InFlight(m) ==
    \E msg \in lookups :
        /\ msg.market = m /\ msg.quote = newest[m]
        /\ \A other \in lookups : other.market = m => other.seq <= msg.seq

\* Its newest quote says nothing, is queued, is in the batch with nothing
\* behind it, or is written with nothing behind it.
Settled(m) ==
    \/ newest[m] = [bid |-> 0, ask |-> 0]
    \/ priceUpdateQueue[m] = newest[m]
    \/ priceUpdateQueue[m] = NONE /\ batch[m] = newest[m]
    \/ priceUpdateQueue[m] = NONE /\ batch[m] = NONE /\ Matches(m)

\* Quotes are numbered as they come.
Numbered ==
    \A a \in lookups :
        /\ a.seq < received
        /\ \A b \in lookups : a.seq = b.seq => a = b

NewestOnItsWay ==
    \A m \in Listed : newest[m] # NONE =>
        \/ InFlight(m)
        \/ (\A msg \in lookups : msg.market # m) /\ Settled(m)

PathInv == BatchInv /\ Numbered /\ NewestOnItsWay

LEMMA InitPath == Init => PathInv
BY InitBatch DEF Init, PathInv, Numbered, NewestOnItsWay, Empty, Markets

LEMMA ReceivePath ==
    ASSUME PathInv, NEW m \in Markets, NEW outcome \in Outcomes, NEW q \in Quotes,
           ReceiveQuote(m, outcome, q)
    PROVE  Numbered' /\ NewestOnItsWay'
<1> DEFINE new == [seq |-> received, market |-> m, quote |-> q]
<1>1. /\ lookups' = lookups \union {new} /\ received' = received + 1
      /\ newest' = [newest EXCEPT ![m] = q]
      /\ priceUpdateQueue' = priceUpdateQueue /\ batch' = batch
      /\ yesPrice' = yesPrice /\ noPrice' = noPrice
  BY DEF ReceiveQuote, memVars, batchVars, rowVars
<1>2. new.seq = received /\ new.market = m /\ new.quote = q
  OBVIOUS
<1>3. /\ received \in Nat /\ \A msg \in lookups : msg.seq \in Nat /\ msg.seq < received
      /\ newest \in [Markets -> Quotes \union {NONE}]
  BY DEF PathInv, BatchInv, TypeOK, Messages, Numbered
<1> HIDE DEF new
<1>4. Numbered'
  BY <1>1, <1>2, <1>3 DEF PathInv, Numbered
<1>5. ASSUME NEW k \in Listed, newest'[k] # NONE
      PROVE  InFlight(k)' \/ ((\A msg \in lookups' : msg.market # k) /\ Settled(k)')
  <2>1. CASE k = m
    <3>1. newest'[k] = q
      BY <1>1, <1>3, <2>1
    <3>2. new \in lookups' /\ \A other \in lookups' : other.seq <= new.seq
      BY <1>1, <1>2, <1>3
    <3> QED BY <1>2, <2>1, <3>1, <3>2 DEF InFlight
  <2>2. CASE k # m
    <3>1. newest'[k] = newest[k]
      BY <1>1, <1>3, <2>2 DEF Markets
    <3>2. \A msg \in lookups' : msg.market = k => msg \in lookups
      BY <1>1, <1>2, <2>2
    <3>3. CASE InFlight(k)
      BY <1>1, <3>1, <3>2, <3>3 DEF InFlight
    <3>4. CASE (\A msg \in lookups : msg.market # k) /\ Settled(k)
      BY <1>1, <3>1, <3>2, <3>4 DEF Settled, Matches
    <3> QED BY <1>5, <3>1, <3>3, <3>4 DEF PathInv, NewestOnItsWay
  <2> QED BY <2>1, <2>2
<1> QED BY <1>4, <1>5 DEF NewestOnItsWay

LEMMA LookupPath ==
    ASSUME PathInv, NEW msg \in lookups, FinishLookup(msg)
    PROVE  Numbered' /\ NewestOnItsWay'
<1> DEFINE n == msg.market
<1>1. /\ lookups' = lookups \ {msg} /\ received' = received /\ batch' = batch
      /\ yesPrice' = yesPrice /\ noPrice' = noPrice
  BY DEF FinishLookup, batchVars, rowVars
<1>2. newest' = IF Overtakes(msg) THEN [newest EXCEPT ![n] = NONE] ELSE newest
  BY DEF FinishLookup
<1>3. \/ priceUpdateQueue' = [priceUpdateQueue EXCEPT ![n] = msg.quote]
      \/ /\ n \in Unlisted \/ msg.quote = [bid |-> 0, ask |-> 0]
         /\ priceUpdateQueue' = priceUpdateQueue
  BY DEF FinishLookup, UpdateMarketPrices, memVars
<1>4. /\ n \in Markets /\ newest \in [Markets -> Quotes \union {NONE}]
      /\ priceUpdateQueue \in [Markets -> Quotes \union {NONE}]
      /\ \A a \in lookups : a.seq \in Nat
  BY DEF PathInv, BatchInv, TypeOK, Messages
<1>5. Numbered'
  BY <1>1 DEF PathInv, Numbered
<1>6. ASSUME NEW k \in Listed, newest'[k] # NONE
      PROVE  InFlight(k)' \/ ((\A a \in lookups' : a.market # k) /\ Settled(k)')
  <2>1. k \in Markets /\ k \notin Unlisted
    BY PriceConstants DEF Markets
  <2>2. newest'[k] = newest[k]
    BY <1>2, <1>4, <1>6, <2>1
  <2>3. InFlight(k) \/ ((\A a \in lookups : a.market # k) /\ Settled(k))
    BY <1>6, <2>2 DEF PathInv, NewestOnItsWay
  <2>4. CASE k # n
    <3>1. priceUpdateQueue'[k] = priceUpdateQueue[k]
      BY <1>3, <1>4, <2>1, <2>4
    <3>2. CASE InFlight(k)
      <4>1. PICK a \in lookups : /\ a.market = k /\ a.quote = newest[k]
                                 /\ \A b \in lookups : b.market = k => b.seq <= a.seq
        BY <3>2 DEF InFlight
      <4>2. a \in lookups'
        BY <1>1, <2>4, <4>1
      <4> QED BY <1>1, <2>2, <4>1, <4>2 DEF InFlight
    <3>3. CASE (\A a \in lookups : a.market # k) /\ Settled(k)
      BY <1>1, <2>2, <3>1, <3>3 DEF Settled, Matches
    <3> QED BY <2>3, <3>2, <3>3
  <2>5. CASE k = n
    <3>1. PICK a \in lookups : /\ a.market = k /\ a.quote = newest[k]
                               /\ \A b \in lookups : b.market = k => b.seq <= a.seq
      BY <2>3, <2>5 DEF InFlight
    <3>2. \A b \in lookups : b.market = k => msg.seq <= b.seq
      <4>1. ~Overtakes(msg)
        BY <1>2, <1>4, <1>6, <2>1, <2>5
      <4> QED BY <1>4, <2>5, <4>1 DEF Overtakes
    <3>3. CASE a # msg
      BY <1>1, <2>2, <3>1, <3>3 DEF InFlight
    <3>4. CASE a = msg
      <4>1. \A b \in lookups : b.market = k => b = msg
        BY <1>4, <3>1, <3>2, <3>4 DEF PathInv, Numbered
      <4>2. \A b \in lookups' : b.market # k
        BY <1>1, <4>1
      <4>3. msg.quote = newest[k]
        BY <3>1, <3>4
      <4>4. Settled(k)'
        BY <1>3, <1>4, <2>1, <2>2, <2>5, <4>3 DEF Settled
      <4> QED BY <4>2, <4>4
    <3> QED BY <3>3, <3>4
  <2> QED BY <2>4, <2>5
<1> QED BY <1>5, <1>6 DEF NewestOnItsWay

LEMMA RejectedPath ==
    ASSUME PathInv, NEW msg \in lookups, FailLookup(msg)
    PROVE  Numbered' /\ NewestOnItsWay'
<1> DEFINE n == msg.market
<1>1. /\ lookups' = lookups \ {msg} /\ received' = received /\ batch' = batch
      /\ yesPrice' = yesPrice /\ noPrice' = noPrice
      /\ priceUpdateQueue' = priceUpdateQueue
      /\ newest' = IF Superseded(msg) THEN newest ELSE [newest EXCEPT ![n] = NONE]
  BY DEF FailLookup, batchVars, rowVars, memVars
<1>2. /\ n \in Markets /\ newest \in [Markets -> Quotes \union {NONE}]
      /\ \A a \in lookups : a.seq \in Nat
  BY DEF PathInv, BatchInv, TypeOK, Messages
<1>3. Numbered'
  BY <1>1 DEF PathInv, Numbered
<1>4. ASSUME NEW k \in Listed, newest'[k] # NONE
      PROVE  InFlight(k)' \/ ((\A a \in lookups' : a.market # k) /\ Settled(k)')
  <2>1. newest'[k] = newest[k] /\ (k = n => Superseded(msg))
    BY <1>1, <1>2, <1>4 DEF Markets
  <2>2. InFlight(k) \/ ((\A a \in lookups : a.market # k) /\ Settled(k))
    BY <1>4, <2>1 DEF PathInv, NewestOnItsWay
  <2>3. CASE InFlight(k)
    <3>1. PICK a \in lookups : /\ a.market = k /\ a.quote = newest[k]
                               /\ \A b \in lookups : b.market = k => b.seq <= a.seq
      BY <2>3 DEF InFlight
    <3>2. a # msg
      BY <1>2, <2>1, <3>1 DEF Superseded
    <3> QED BY <1>1, <2>1, <3>1, <3>2 DEF InFlight
  <2>4. CASE (\A a \in lookups : a.market # k) /\ Settled(k)
    BY <1>1, <2>1, <2>4 DEF Settled, Matches
  <2> QED BY <2>2, <2>3, <2>4
<1> QED BY <1>3, <1>4 DEF NewestOnItsWay

\* A step that leaves the lookups alone keeps what is on its way, if it keeps
\* what is settled.
LEMMA SettledPath ==
    ASSUME PathInv, UNCHANGED <<lookups, received>>,
           ASSUME NEW m \in Listed, newest'[m] # NONE
           PROVE  /\ newest'[m] = newest[m]
                  /\ (\A msg \in lookups : msg.market # m) /\ Settled(m) => Settled(m)'
    PROVE  Numbered' /\ NewestOnItsWay'
<1>1. Numbered'
  BY DEF PathInv, Numbered
<1>2. ASSUME NEW m \in Listed, newest'[m] # NONE
      PROVE  InFlight(m)' \/ ((\A msg \in lookups' : msg.market # m) /\ Settled(m)')
  <2>1. /\ newest'[m] = newest[m]
        /\ (\A msg \in lookups : msg.market # m) /\ Settled(m) => Settled(m)'
    BY <1>2
  <2>2. CASE InFlight(m)
    BY <2>1, <2>2 DEF InFlight
  <2> QED BY <1>2, <2>1, <2>2 DEF PathInv, NewestOnItsWay
<1> QED BY <1>1, <1>2 DEF NewestOnItsWay

LEMMA BatchPath ==
    ASSUME PathInv, BatchProgress \/ LoseBatch \/ DieConnecting \/ DieRollingBack
    PROVE  Numbered' /\ NewestOnItsWay'
<1> USE DEF memVars, batchVars, rowVars, seenVars
<1>0. /\ priceUpdateQueue \in [Markets -> Quotes \union {NONE}]
      /\ batch \in [Markets -> Quotes \union {NONE}]
      /\ newest \in [Markets -> Quotes \union {NONE}]
      /\ Listed \subseteq Markets
  BY DEF PathInv, BatchInv, TypeOK, Markets
<1>1. CASE StartBatch
  <2>1. /\ newest' = newest /\ lookups' = lookups /\ received' = received
        /\ yesPrice' = yesPrice /\ noPrice' = noPrice
        /\ \/ priceUpdateQueue' = priceUpdateQueue /\ batch' = batch
           \/ ~isProcessingBatch /\ priceUpdateQueue' = Empty /\ batch' = priceUpdateQueue
    BY <1>1 DEF StartBatch
  <2>2. ~isProcessingBatch => batch = Empty
    BY DEF PathInv, BatchInv, FlagMeansBatch
  <2>3. ASSUME NEW m \in Listed, newest'[m] # NONE, Settled(m) PROVE Settled(m)'
    <3>1. CASE priceUpdateQueue' = priceUpdateQueue /\ batch' = batch
      BY <2>1, <2>3, <3>1 DEF Settled, Matches
    <3>2. CASE ~isProcessingBatch /\ priceUpdateQueue' = Empty /\ batch' = priceUpdateQueue
      <4>1. priceUpdateQueue'[m] = NONE /\ batch[m] = NONE
        BY <1>0, <2>2, <3>2 DEF Empty
      <4> QED BY <2>1, <2>3, <3>2, <4>1 DEF Settled, Matches
    <3> QED BY <2>1, <3>1, <3>2
  <2> QED BY <2>1, <2>3, SettledPath
<1>2. CASE ConnectBatch
  <2>1. /\ newest' = newest /\ lookups' = lookups /\ received' = received
        /\ yesPrice' = yesPrice /\ noPrice' = noPrice
        /\ priceUpdateQueue' = priceUpdateQueue /\ batch' = batch
    BY <1>2 DEF ConnectBatch
  <2>2. ASSUME NEW m \in Listed, newest'[m] # NONE, Settled(m) PROVE Settled(m)'
    BY <2>1, <2>2 DEF Settled, Matches
  <2> QED BY <2>1, <2>2, SettledPath
<1>3. CASE WriteBatch
  <2>1. /\ newest' = newest /\ lookups' = lookups /\ received' = received
        /\ priceUpdateQueue' = priceUpdateQueue /\ batch' = Empty
        /\ yesPrice' = [m \in Markets |-> YesPriceOf(m)]
        /\ noPrice' = [m \in Markets |-> NoPriceOf(m)]
    BY <1>3 DEF WriteBatch
  <2>2. ASSUME NEW m \in Listed, newest'[m] # NONE, Settled(m) PROVE Settled(m)'
    <3>1. /\ batch'[m] = NONE /\ m \in Markets
          /\ yesPrice'[m] = YesPriceOf(m) /\ noPrice'[m] = NoPriceOf(m)
      BY <1>0, <2>1 DEF Empty
    <3>2. CASE batch[m] = NONE
      BY <2>1, <2>2, <3>1, <3>2 DEF Settled, Matches, YesPriceOf, NoPriceOf
    <3>3. CASE batch[m] # NONE
      <4>1. \/ newest[m] = [bid |-> 0, ask |-> 0] \/ priceUpdateQueue[m] = newest[m]
            \/ priceUpdateQueue[m] = NONE /\ batch[m] = newest[m]
        BY <2>2, <3>3 DEF Settled
      <4>2. CASE priceUpdateQueue[m] = NONE /\ batch[m] = newest[m]
        BY <2>1, <3>1, <3>3, <4>2 DEF Settled, Matches, YesPriceOf, NoPriceOf
      <4> QED BY <2>1, <4>1, <4>2 DEF Settled
    <3> QED BY <3>2, <3>3
  <2> QED BY <2>1, <2>2, SettledPath
<1>4. CASE FinishBatch
  <2>1. /\ newest' = newest /\ lookups' = lookups /\ received' = received
        /\ yesPrice' = yesPrice /\ noPrice' = noPrice
        /\ priceUpdateQueue' = priceUpdateQueue /\ batch' = batch
    BY <1>4 DEF FinishBatch
  <2>2. ASSUME NEW m \in Listed, newest'[m] # NONE, Settled(m) PROVE Settled(m)'
    BY <2>1, <2>2 DEF Settled, Matches
  <2> QED BY <2>1, <2>2, SettledPath
<1>5. CASE DieConnecting \/ DieRollingBack
  <2>1. lookups' = {} /\ \A m \in Listed : newest'[m] = NONE
    BY <1>0, <1>5 DEF DieConnecting, DieRollingBack, LoseMemory, Empty
  <2> QED BY <2>1 DEF Numbered, NewestOnItsWay
<1>6. CASE LoseBatch
  <2>1. /\ lookups' = lookups /\ received' = received
        /\ yesPrice' = yesPrice /\ noPrice' = noPrice
        /\ priceUpdateQueue' = priceUpdateQueue /\ batch' = Empty
        /\ newest' = [m \in Markets |->
               IF \/ batch[m] = NONE \/ priceUpdateQueue[m] # NONE
                  \/ \E msg \in lookups : msg.market = m
               THEN newest[m] ELSE NONE]
    BY <1>6 DEF LoseBatch, ForgetLost
  <2>2. ASSUME NEW m \in Listed, newest'[m] # NONE
        PROVE  /\ newest'[m] = newest[m]
               /\ (\A msg \in lookups : msg.market # m) /\ Settled(m) => Settled(m)'
    <3>1. /\ newest'[m] = newest[m] /\ batch'[m] = NONE
          /\ \/ batch[m] = NONE \/ priceUpdateQueue[m] # NONE
             \/ \E msg \in lookups : msg.market = m
      BY <1>0, <2>1, <2>2 DEF Empty
    <3> QED BY <2>1, <3>1 DEF Settled, Matches
  <2> QED BY <2>1, <2>2, SettledPath
<1> QED BY <1>1, <1>2, <1>3, <1>4, <1>5, <1>6 DEF BatchProgress

LEMMA PathStep == PathInv /\ [Next]_vars => PathInv'
<1> SUFFICES ASSUME PathInv, [Next]_vars PROVE PathInv'
  OBVIOUS
<1>1. BatchInv'
  BY BatchStep DEF PathInv
<1>2. CASE Next
  BY <1>1, <1>2, ReceivePath, LookupPath, RejectedPath, BatchPath DEF Next, PathInv
<1>3. CASE UNCHANGED vars
  BY <1>1, <1>3 DEF vars, memVars, batchVars, rowVars, seenVars, PathInv, Numbered,
      NewestOnItsWay, InFlight, Settled, Matches
<1> QED BY <1>2, <1>3

LEMMA PathAtRest == PathInv => RestingPriceIsNewest
<1> SUFFICES ASSUME PathInv, lookups = {}, priceUpdateQueue = Empty, ~isProcessingBatch,
                    NEW m \in Listed, newest[m] # NONE
             PROVE  Matches(m)
  BY DEF RestingPriceIsNewest, Matches
<1>1. batch = Empty /\ m \in Markets
  BY DEF PathInv, BatchInv, FlagMeansBatch, Markets
<1>2. Settled(m)
  BY DEF PathInv, NewestOnItsWay, InFlight
<1> QED BY <1>1, <1>2 DEF Settled, Empty, Matches

\* At rest the row has the newest quote that no fault undid, for any number of
\* markets, quotes and batches: what is queued replaces only what is older, and
\* nothing written is older than what it overwrites.
THEOREM NewestPriceRests == Spec => []RestingPriceIsNewest
BY InitPath, PathStep, PathAtRest, PTL DEF Spec

-----------------------------------------------------------------------------
(* What it costs to forget a quote.                                        *)

\* A market with a quote keeps one: the exception that RestingPriceIsNewest
\* makes never applies to it again.
NewestIsKept == [][\A m \in Markets : newest[m] # NONE => newest'[m] # NONE]_vars

\* Where no lookup is rejected, no transaction fails, no connection to the
\* database is refused and the lookups end in their order, nothing ever undoes a quote: each market with a
\* quote has its newest one at rest (updateMarketPrices replaces what is queued
\* by what is newer, processPriceUpdateBatch takes the queue before it awaits).
THEOREM NewestIsNeverForgotten ==
    ASSUME Faults = {}
    PROVE  Spec => NewestIsKept
<1>1. ASSUME BatchInv, [Next]_vars, NEW k \in Markets, newest[k] # NONE
      PROVE  newest'[k] # NONE
  <2>1. newest \in [Markets -> Quotes \union {NONE}] /\ NONE \notin Quotes
    BY <1>1, NoneIsNoQuote DEF BatchInv, TypeOK
  <2>2. ASSUME NEW m \in Markets, NEW outcome \in Outcomes, NEW q \in Quotes,
               ReceiveQuote(m, outcome, q)
        PROVE  newest'[k] # NONE
    BY <1>1, <2>1, <2>2 DEF ReceiveQuote
  <2>3. ASSUME NEW msg \in lookups, FinishLookup(msg) PROVE newest'[k] # NONE
    <3>1. \A other \in lookups : msg.seq <= other.seq /\ msg.seq \in Nat /\ other.seq \in Nat
      BY <1>1, <2>3 DEF FinishLookup, EndsNext, BatchInv, TypeOK, Messages
    <3>2. ~Overtakes(msg)
      BY <3>1 DEF Overtakes
    <3> QED BY <1>1, <2>3, <3>2 DEF FinishLookup
  <2>4. ASSUME BatchProgress PROVE newest'[k] # NONE
    BY <1>1, <2>4 DEF BatchProgress, StartBatch, ConnectBatch, WriteBatch, FinishBatch, seenVars
  <2>5. /\ ~DieConnecting /\ ~DieRollingBack /\ ~LoseBatch
        /\ \A msg \in lookups : ~FailLookup(msg)
    BY DEF DieConnecting, DieRollingBack, LoseBatch, FailLookup
  <2>6. ASSUME UNCHANGED vars PROVE newest'[k] # NONE
    BY <1>1, <2>6 DEF vars, seenVars
  <2> QED BY <1>1, <2>2, <2>3, <2>4, <2>5, <2>6 DEF Next
<1>2. BatchInv /\ [Next]_vars => [\A m \in Markets : newest[m] # NONE => newest'[m] # NONE]_vars
  BY <1>1
<1> QED BY <1>2, BatchAlways, PTL DEF Spec, NewestIsKept

=============================================================================
