-------------------------- MODULE MarketRowsProofs --------------------------
(***************************************************************************)
(* Theorems about MarketRows, for every set of markets and any number of   *)
(* synchronisations, handlers and searches, whatever faults occur.         *)
(***************************************************************************)
EXTENDS MarketRows, TLAPS

RowsInv == TypeOK /\ OpenRowExplained

-----------------------------------------------------------------------------
LEMMA InitRows == Init => RowsInv
BY RowConstants DEF Init, RowsInv, TypeOK, OpenRowExplained

\* The steps of a market on the exchange and of its resolution here.
LEMMA MarketStepRows ==
    ASSUME RowsInv, NEW m \in Markets,
           ListMarket(m) \/ CloseUpstream(m) \/ ResolveMarket(m)
    PROVE  RowsInv'
<1> USE DEF RowsInv, TypeOK, OpenRowExplained, procVars, exchangeVars
<1>1. CASE ListMarket(m)
  BY <1>1 DEF ListMarket
<1>2. CASE CloseUpstream(m)
  BY <1>2 DEF CloseUpstream
<1>3. CASE ResolveMarket(m)
  BY <1>3 DEF ResolveMarket
<1> QED BY <1>1, <1>2, <1>3

\* The steps that a synchronisation and a handler share.
LEMMA MarketsProgressRows ==
    ASSUME RowsInv, NEW p \in Procs, MarketsProgress(p)
    PROVE  RowsInv'
<1> USE DEF RowsInv, procVars, exchangeVars, Goto
<1>1. CASE SaveEvent(p)
  BY <1>1 DEF SaveEvent, AfterEvent, Status, TypeOK, OpenRowExplained
<1>2. CASE FetchMarkets(p)
  BY <1>2 DEF FetchMarkets, AfterEvent, TypeOK, OpenRowExplained
<1>3. CASE ReadStatus(p)
  BY <1>3 DEF ReadStatus, HasOpen, TypeOK, OpenRowExplained
<1>4. CASE WriteStatus(p)
  BY <1>4 DEF WriteStatus, Status, TypeOK, OpenRowExplained
<1>5. CASE LoseStatus(p)
  BY <1>5, RowConstants DEF LoseStatus, TypeOK, OpenRowExplained
<1>6. CASE EndMarkets(p)
  BY <1>6 DEF EndMarkets, AfterEvent, TypeOK, OpenRowExplained
<1>7. ASSUME NEW n \in todo[p], SaveMarket(p, n)
      PROVE  RowsInv'
  <2>1. n \in Snapshots
    BY <1>7 DEF TypeOK
  <2>2. n.market \in Markets /\ n.state \in {"open", "closed"}
    BY <2>1 DEF Snapshots
  <2>3. TypeOK'
    BY <1>7, <2>2 DEF SaveMarket, TypeOK
  <2>4. OpenRowExplained'
    BY <1>7, <2>2 DEF SaveMarket, TypeOK, OpenRowExplained
  <2> QED BY <2>3, <2>4
<1> QED BY <1>1, <1>2, <1>3, <1>4, <1>5, <1>6, <1>7 DEF MarketsProgress

\* The steps that only one of them takes.
LEMMA StartRows ==
    ASSUME RowsInv, NEW p \in Procs,
           \/ StartSync(p) \/ ReadStatuses(p) \/ WriteStatuses(p) \/ SearchEvents(p)
           \/ \E m \in Markets : NewMarketMessage(p, m) \/ SearchMarkets(p, m)
    PROVE  RowsInv'
<1> USE DEF RowsInv, TypeOK, OpenRowExplained, procVars, exchangeVars, Goto, Snapshots
<1>1. CASE StartSync(p)
  BY <1>1 DEF StartSync
<1>2. CASE ReadStatuses(p)
  BY <1>2 DEF ReadStatuses, HasOpen
<1>3. CASE WriteStatuses(p)
  BY <1>3 DEF WriteStatuses, Status
<1>4. CASE SearchEvents(p)
  BY <1>4 DEF SearchEvents
<1>5. ASSUME NEW m \in Markets, NewMarketMessage(p, m) PROVE RowsInv'
  BY <1>5 DEF NewMarketMessage
<1>6. ASSUME NEW m \in Markets, SearchMarkets(p, m) PROVE RowsInv'
  BY <1>6 DEF SearchMarkets, Matches
<1> QED BY <1>1, <1>2, <1>3, <1>4, <1>5, <1>6

LEMMA RowsStep == RowsInv /\ [Next]_vars => RowsInv'
<1> SUFFICES ASSUME RowsInv, [Next]_vars PROVE RowsInv'
  OBVIOUS
<1>1. ASSUME NEW m \in Markets, ListMarket(m) \/ CloseUpstream(m) \/ ResolveMarket(m)
      PROVE  RowsInv'
  BY <1>1, MarketStepRows
<1>2. ASSUME NEW s \in Syncs, SyncProgress(s) PROVE RowsInv'
  BY <1>2, MarketsProgressRows, StartRows DEF SyncProgress, Procs
<1>3. ASSUME NEW h \in Handlers,
             \/ MarketsProgress(h) \/ SearchEvents(h)
             \/ \E m \in Markets : NewMarketMessage(h, m) \/ SearchMarkets(h, m)
      PROVE  RowsInv'
  BY <1>3, MarketsProgressRows, StartRows DEF Procs
<1>4. CASE UNCHANGED vars
  BY <1>4 DEF vars, exchangeVars, procVars, RowsInv, TypeOK, OpenRowExplained
<1> QED BY <1>1, <1>2, <1>3, <1>4 DEF Next

LEMMA RowsAlways == Spec => []RowsInv
BY InitRows, RowsStep, PTL DEF Spec

\* Every variable of MarketRows keeps its type.
THEOREM TypeCorrect == Spec => []TypeOK
BY RowsAlways, PTL DEF RowsInv

\* A market closed on the exchange and stored as open has its message still
\* ahead of it, or was the victim of a missed message, of a failed transaction
\* or of an older snapshot, for any number of writers (syncMarketsForEvent,
\* handleMarketResolvedMessage).
THEOREM OpenRowsExplained == Spec => []OpenRowExplained
BY RowsAlways, PTL DEF RowsInv

-----------------------------------------------------------------------------
(* Closures are final.  The step takes a closed row without an older       *)
(* snapshot to another one: what is fetched of the exchange after the      *)
(* closure is closed, or is dropped.                                       *)

LEMMA ClosureStep ==
    ASSUME RowsInv, Next, NEW m \in Markets,
           upstream[m] = "closed", row[m] = "closed", ~HeldOpen(m)
    PROVE  row'[m] = "closed" /\ ~HeldOpen(m)'
<1> USE DEF HeldOpen, procVars, exchangeVars, Goto
<1>1. ASSUME NEW k \in Markets, ListMarket(k) \/ CloseUpstream(k) \/ ResolveMarket(k)
      PROVE  row'[m] = "closed" /\ ~HeldOpen(m)'
  BY <1>1 DEF ListMarket, CloseUpstream, ResolveMarket, RowsInv, TypeOK
<1>2. ASSUME NEW p \in Procs, MarketsProgress(p)
      PROVE  row'[m] = "closed" /\ ~HeldOpen(m)'
  <2>1. CASE SaveEvent(p)
    BY <1>2, <2>1 DEF SaveEvent, RowsInv, TypeOK
  <2>2. CASE FetchMarkets(p)
    BY <1>2, <2>2 DEF FetchMarkets, RowsInv, TypeOK
  <2>3. CASE ReadStatus(p) \/ WriteStatus(p) \/ LoseStatus(p) \/ EndMarkets(p)
    BY <1>2, <2>3 DEF ReadStatus, WriteStatus, LoseStatus, EndMarkets
  <2>4. ASSUME NEW n \in todo[p], SaveMarket(p, n)
        PROVE  row'[m] = "closed" /\ ~HeldOpen(m)'
    <3>1. n \in Snapshots
      BY <2>4 DEF RowsInv, TypeOK
    <3>2. n.market = m => n.state = "closed"
      BY <2>4, <3>1 DEF Snapshots
    <3> QED BY <2>4, <3>1, <3>2 DEF SaveMarket, RowsInv, TypeOK, Snapshots
  <2> QED BY <1>2, <2>1, <2>2, <2>3, <2>4 DEF MarketsProgress
<1>3. ASSUME NEW p \in Procs,
             \/ StartSync(p) \/ ReadStatuses(p) \/ WriteStatuses(p) \/ SearchEvents(p)
             \/ \E k \in Markets : NewMarketMessage(p, k) \/ SearchMarkets(p, k)
      PROVE  row'[m] = "closed" /\ ~HeldOpen(m)'
  BY <1>3 DEF StartSync, ReadStatuses, WriteStatuses, SearchEvents,
              NewMarketMessage, SearchMarkets, RowsInv, TypeOK
<1> QED BY <1>1, <1>2, <1>3 DEF Next, SyncProgress, Procs

\* A market that is closed on the exchange and here, of which nobody holds an
\* older snapshot, stays closed (syncMarket, the filter of syncMarketsForEvent).
THEOREM ClosuresAreFinal == Spec => ClosedForGood
<1>1. RowsInv /\ [Next]_vars =>
        [\A m \in Markets :
            upstream[m] = "closed" /\ row[m] = "closed" /\ ~HeldOpen(m) =>
                row'[m] = "closed" /\ ~HeldOpen(m)']_vars
  BY ClosureStep
<1> QED BY <1>1, RowsAlways, PTL DEF Spec, ClosedForGood

=============================================================================
