------------------------- MODULE WsConnectionProofs -------------------------
(***************************************************************************)
(* Theorems about WsConnection, for every number of sockets, markets and   *)
(* attempts and every combination of faults.                               *)
(***************************************************************************)
EXTENDS WsConnection, TLAPS

NoneAbandoned == \A s \in Sockets : ~Abandoned(s)

\* What the service believes of its socket, and that it plans no other
\* connection while it has one.
SocketFacts ==
    /\ ws # NONE =>
          /\ ~reconnectTimer /\ ~isShuttingDown /\ NoneAbandoned
          /\ sock[ws] \in {"connecting", "open", "closing"}
          /\ sock[ws] = "connecting" => connectionState = "connecting"
          /\ sock[ws] = "open" => connectionState = "connected"
    /\ ws = NONE => connectionState \in {"disconnected", "error"}

ConnectionInv ==
    TypeOK /\ SocketFacts /\ OneSocket /\ ReconnectAhead /\ QuietAfterShutdown

-----------------------------------------------------------------------------
LEMMA InitConnection == Init => ConnectionInv
<1> SUFFICES ASSUME Init PROVE ConnectionInv
  OBVIOUS
<1>1. TypeOK
  <2>1. 0 \in 0 .. MaxAttempts
    BY WsConstants
  <2>2. /\ sock \in [Sockets -> {"closed", "connecting", "open", "closing"}]
        /\ sent \in [Sockets -> SUBSET Tokens] /\ snapshot \in [Sockets -> SUBSET Tokens]
        /\ query \in [Sockets -> {"none", "asked", "read", "failed"}]
        /\ market \in [Tokens -> Phases \union {"absent"}]
        /\ excused \in [Tokens -> SUBSET {"remembered", "activated", "elsewhere"}]
    BY DEF Init, Phases
  <2> QED BY <2>1, <2>2 DEF Init, TypeOK
<1> QED BY <1>1, WsConstants DEF Init, ConnectionInv, SocketFacts, NoneAbandoned, Abandoned,
             OneSocket, ReconnectAhead, QuietAfterShutdown

LEMMA ScheduleCounts ==
    ASSUME TypeOK, ScheduleReconnect
    PROVE  reconnectTimer' = TRUE /\ reconnectAttempts' \in 0 .. MaxAttempts
BY WsConstants DEF TypeOK, ScheduleReconnect

LEMMA ConnectKeeps ==
    ASSUME ConnectionInv, NEW s \in Sockets, Connect(s)
    PROVE  ConnectionInv'
<1> USE DEF marketVars
<1>1. /\ reconnectTimer /\ ws = NONE /\ NoneAbandoned /\ ~isShuttingDown
      /\ connectionState \in {"disconnected", "error"}
      /\ \A r \in Sockets : sock[r] = "closed"
  <2>1. /\ reconnectTimer /\ NoneAbandoned /\ ws = NONE /\ ~isShuttingDown
        /\ connectionState \in {"disconnected", "error"}
    BY DEF Connect, ConnectionInv, SocketFacts, NoneAbandoned, QuietAfterShutdown
  <2>2. ASSUME NEW r \in Sockets PROVE sock[r] = "closed"
    <3>1. r # NONE /\ sock[r] \in {"closed", "connecting", "open", "closing"}
      BY WsConstants DEF ConnectionInv, TypeOK
    <3> QED BY <2>1, <3>1 DEF ConnectionInv, OneSocket, NoneAbandoned, Abandoned
  <2> QED BY <2>1, <2>2
<1>2. /\ reconnectTimer' = FALSE /\ connectionState' = "connecting" /\ connectionTimeout' = TRUE
      /\ ws' = s /\ sock' = [sock EXCEPT ![s] = "connecting"] /\ sent' = [sent EXCEPT ![s] = {}]
      /\ query' = [query EXCEPT ![s] = "none"]
      /\ reconnectAttempts' = reconnectAttempts /\ isShuttingDown' = isShuttingDown
      /\ subscribedTokenIds' = subscribedTokenIds /\ snapshot' = snapshot
      /\ market' = market /\ calls' = calls /\ excused' = excused
  BY <1>1 DEF Connect
<1>3. TypeOK'
  <2>1. /\ sock' \in [Sockets -> {"closed", "connecting", "open", "closing"}]
        /\ sent' \in [Sockets -> SUBSET Tokens]
        /\ query' \in [Sockets -> {"none", "asked", "read", "failed"}]
    BY <1>2 DEF ConnectionInv, TypeOK
  <2> QED BY <1>2, <2>1 DEF ConnectionInv, TypeOK
<1>4. /\ sock'[s] = "connecting" /\ \A r \in Sockets \ {s} : sock'[r] = "closed"
      /\ s # NONE
  BY <1>1, <1>2, WsConstants DEF ConnectionInv, TypeOK
<1> QED BY <1>1, <1>2, <1>3, <1>4 DEF ConnectionInv, SocketFacts, NoneAbandoned, Abandoned,
             OneSocket, ReconnectAhead, QuietAfterShutdown

LEMMA TimeOutKeeps ==
    ASSUME ConnectionInv, TimeOut
    PROVE  ConnectionInv'
<1> USE DEF marketVars, queryVars
<1>1. /\ connectionTimeout' = FALSE /\ isShuttingDown' = isShuttingDown
      /\ subscribedTokenIds' = subscribedTokenIds /\ sent' = sent /\ query' = query
      /\ snapshot' = snapshot /\ market' = market /\ calls' = calls /\ excused' = excused
  BY DEF TimeOut
<1>2. CASE connectionState = "connecting" /\ ws # NONE
  <2>1. /\ connectionState' = "error" /\ sock' = [sock EXCEPT ![ws] = "closing"]
        /\ ws' = NONE /\ ~isShuttingDown /\ ScheduleReconnect
    BY <1>2 DEF TimeOut, ConnectionInv, SocketFacts
  <2>2. reconnectTimer' = TRUE /\ reconnectAttempts' \in 0 .. MaxAttempts
    BY <2>1, ScheduleCounts DEF ConnectionInv
  <2>3. TypeOK'
    BY <1>1, <2>1, <2>2 DEF ConnectionInv, TypeOK
  <2>4. \A s \in Sockets : sock'[s] \notin {"connecting", "open"}
    BY <2>1 DEF ConnectionInv, TypeOK, OneSocket
  <2> QED BY <1>1, <2>1, <2>2, <2>3, <2>4 DEF ConnectionInv, SocketFacts, OneSocket,
               ReconnectAhead, QuietAfterShutdown
<1>3. CASE ~(connectionState = "connecting" /\ ws # NONE)
  <2>1. /\ connectionState' = connectionState /\ sock' = sock /\ ws' = ws
        /\ reconnectTimer' = reconnectTimer /\ reconnectAttempts' = reconnectAttempts
    BY <1>3 DEF TimeOut
  <2> QED BY <1>1, <2>1 DEF ConnectionInv, TypeOK, SocketFacts, NoneAbandoned, Abandoned,
               OneSocket, ReconnectAhead, QuietAfterShutdown
<1> QED BY <1>2, <1>3

LEMMA OpenKeeps ==
    ASSUME ConnectionInv, NEW s \in Sockets, SocketOpen(s)
    PROVE  ConnectionInv'
<1> USE DEF marketVars, queryVars
<1>1. /\ sock[s] = "connecting" /\ sock' = [sock EXCEPT ![s] = "open"]
      /\ connectionState' = "connected" /\ connectionTimeout' = FALSE /\ reconnectAttempts' = 0
      /\ query' = [query EXCEPT ![s] = "asked"]
      /\ ws' = ws /\ reconnectTimer' = reconnectTimer /\ isShuttingDown' = isShuttingDown
      /\ subscribedTokenIds' = subscribedTokenIds /\ sent' = sent /\ snapshot' = snapshot
      /\ market' = market /\ calls' = calls
  BY DEF SocketOpen
<1>2. ws = s /\ s # NONE
  BY <1>1, WsConstants DEF ConnectionInv, OneSocket
<1>3. excused' \in [Tokens -> SUBSET {"remembered", "activated", "elsewhere"}]
  BY DEF SocketOpen, ConnectionInv, TypeOK
<1>4. TypeOK'
  <2>1. 0 \in 0 .. MaxAttempts
    BY WsConstants
  <2>2. /\ sock' \in [Sockets -> {"closed", "connecting", "open", "closing"}]
        /\ query' \in [Sockets -> {"none", "asked", "read", "failed"}]
    BY <1>1 DEF ConnectionInv, TypeOK
  <2> QED BY <1>1, <1>3, <2>1, <2>2 DEF ConnectionInv, TypeOK
<1>5. sock'[s] = "open" /\ \A r \in Sockets \ {s} : sock'[r] = sock[r]
  BY <1>1 DEF ConnectionInv, TypeOK
<1> QED BY <1>1, <1>2, <1>4, <1>5 DEF ConnectionInv, SocketFacts, NoneAbandoned, Abandoned,
             OneSocket, ReconnectAhead, QuietAfterShutdown

LEMMA EndKeeps ==
    ASSUME ConnectionInv, NEW s \in Sockets, SocketError(s) \/ LoseConnection(s)
    PROVE  ConnectionInv'
<1> USE DEF marketVars, queryVars, serviceVars
<1>1. /\ sock[s] \in {"connecting", "open"} /\ sock' = [sock EXCEPT ![s] = "closing"]
      /\ connectionTimeout' \in {FALSE, connectionTimeout}
      /\ connectionState' \in {"error", connectionState}
      /\ ws' = ws /\ reconnectAttempts' = reconnectAttempts /\ reconnectTimer' = reconnectTimer
      /\ isShuttingDown' = isShuttingDown /\ query' = query /\ excused' = excused
      /\ subscribedTokenIds' = subscribedTokenIds /\ sent' = sent /\ snapshot' = snapshot
      /\ market' = market /\ calls' = calls
  BY DEF SocketError, LoseConnection
<1>2. ws = s /\ s # NONE
  BY <1>1, WsConstants DEF ConnectionInv, OneSocket
<1>3. TypeOK'
  BY <1>1 DEF ConnectionInv, TypeOK
<1>4. sock'[s] = "closing" /\ \A r \in Sockets \ {s} : sock'[r] = sock[r]
  BY <1>1 DEF ConnectionInv, TypeOK
<1> QED BY <1>1, <1>2, <1>3, <1>4 DEF ConnectionInv, SocketFacts, NoneAbandoned, Abandoned,
             OneSocket, ReconnectAhead, QuietAfterShutdown

LEMMA CloseKeeps ==
    ASSUME ConnectionInv, NEW s \in Sockets, SocketClose(s)
    PROVE  ConnectionInv'
<1> USE DEF marketVars, queryVars
<1>1. /\ sock[s] = "closing" /\ sock' = [sock EXCEPT ![s] = "closed"]
      /\ connectionTimeout' = FALSE /\ connectionState' = "disconnected" /\ ws' = NONE
      /\ isShuttingDown' = isShuttingDown /\ query' = query /\ excused' = excused
      /\ subscribedTokenIds' = subscribedTokenIds /\ sent' = sent /\ snapshot' = snapshot
      /\ market' = market /\ calls' = calls
  BY DEF SocketClose
<1>2. /\ reconnectTimer' \in BOOLEAN /\ reconnectAttempts' \in 0 .. MaxAttempts
      /\ isShuttingDown => reconnectTimer' = reconnectTimer
      /\ ~isShuttingDown => reconnectTimer' \/ reconnectAttempts' >= MaxAttempts
  BY ScheduleCounts DEF SocketClose, ConnectionInv, TypeOK
<1>3. TypeOK'
  BY <1>1, <1>2 DEF ConnectionInv, TypeOK
<1>4. \A r \in Sockets : sock'[r] \notin {"connecting", "open"}
  <2> SUFFICES ASSUME NEW r \in Sockets, sock'[r] \in {"connecting", "open"} PROVE FALSE
    OBVIOUS
  <2>1. r # s /\ sock[r] \in {"connecting", "open"}
    BY <1>1 DEF ConnectionInv, TypeOK
  <2>2. ws = r /\ ws # NONE
    BY <2>1, WsConstants DEF ConnectionInv, OneSocket
  <2> QED BY <1>1, <2>1, <2>2 DEF ConnectionInv, SocketFacts, NoneAbandoned, Abandoned
<1> QED BY <1>1, <1>2, <1>3, <1>4 DEF ConnectionInv, SocketFacts, OneSocket, ReconnectAhead,
             QuietAfterShutdown

LEMMA DestroyKeeps ==
    ASSUME ConnectionInv, Destroy
    PROVE  ConnectionInv'
<1> USE DEF marketVars, queryVars
<1>1. /\ isShuttingDown' = TRUE /\ reconnectTimer' = FALSE /\ connectionTimeout' = FALSE
      /\ sock' = [s \in Sockets |-> IF s = ws THEN "closed" ELSE sock[s]]
      /\ ws' = NONE /\ connectionState' = "disconnected"
      /\ reconnectAttempts' = reconnectAttempts /\ query' = query /\ excused' = excused
      /\ subscribedTokenIds' = subscribedTokenIds /\ sent' = sent /\ snapshot' = snapshot
      /\ market' = market /\ calls' = calls
  BY DEF Destroy
<1>2. TypeOK'
  BY <1>1 DEF ConnectionInv, TypeOK
<1>3. \A r \in Sockets : sock'[r] \notin {"connecting", "open"}
  BY <1>1 DEF ConnectionInv, OneSocket
<1> QED BY <1>1, <1>2, <1>3 DEF ConnectionInv, SocketFacts, OneSocket, ReconnectAhead,
             QuietAfterShutdown

\* The types of what a connection does not depend on.
SubscriptionTypes ==
    /\ subscribedTokenIds \subseteq Tokens
    /\ sent \in [Sockets -> SUBSET Tokens]
    /\ query \in [Sockets -> {"none", "asked", "read", "failed"}]
    /\ snapshot \in [Sockets -> SUBSET Tokens]
    /\ market \in [Tokens -> Phases \union {"absent"}]
    /\ calls \subseteq Calls
    /\ excused \in [Tokens -> SUBSET {"remembered", "activated", "elsewhere"}]

SubscriptionStep ==
    \/ \E s \in Sockets : RunQuery(s) \/ SubscribeToActiveMarkets(s)
    \/ \E t \in Tokens : \/ SubscribeToTokenIds(t) \/ UnsubscribeFromTokenIds(t)
                         \/ CreateMarket(t) \/ CreateElsewhere(t) \/ UpdateMarket(t)
                         \/ NewMarketMessage(t) \/ MarketResolvedMessage(t)
                         \/ ResolveMarket(t)

LEMMA SendTypes ==
    ASSUME TypeOK, NEW change \in SUBSET Tokens, Send(change)
    PROVE  sent' \in [Sockets -> SUBSET Tokens]
BY DEF TypeOK, Send

LEMMA SentTypes ==
    ASSUME TypeOK, ws # NONE
    PROVE  sent[ws] \subseteq Tokens
BY DEF TypeOK

\* What subscribes, and what changes the markets, leaves the connection alone.
LEMMA SubscriptionKeeps ==
    ASSUME ConnectionInv, SubscriptionStep
    PROVE  ConnectionInv' /\ UNCHANGED <<serviceVars, sock>>
<1> USE DEF queryVars, marketVars
<1>0. TypeOK
  BY DEF ConnectionInv
<1>1. ASSUME NEW s \in Sockets, RunQuery(s)
      PROVE  SubscriptionTypes' /\ UNCHANGED <<serviceVars, sock>>
  <2>1. /\ snapshot' \in [Sockets -> SUBSET Tokens]
        /\ query' \in [Sockets -> {"none", "asked", "read", "failed"}]
    BY <1>0, <1>1 DEF RunQuery, TypeOK, Active
  <2> QED BY <1>0, <1>1, <2>1 DEF RunQuery, TypeOK, SubscriptionTypes
<1>2. ASSUME NEW s \in Sockets, SubscribeToActiveMarkets(s)
      PROVE  SubscriptionTypes' /\ UNCHANGED <<serviceVars, sock>>
  <2>1. snapshot[s] \subseteq Tokens
    BY <1>0 DEF TypeOK
  <2>2. sent' \in [Sockets -> SUBSET Tokens]
    <3>1. CASE IsConnected
      <4>1. sent[ws] \union snapshot[s] \subseteq Tokens
        BY <1>0, <2>1, <3>1, SentTypes DEF IsConnected
      <4> QED BY <1>0, <1>2, <4>1, SendTypes DEF SubscribeToActiveMarkets
    <3>2. CASE ~IsConnected
      BY <1>0, <1>2, <3>2 DEF SubscribeToActiveMarkets, Send, TypeOK
    <3> QED BY <3>1, <3>2
  <2>3. /\ snapshot' \in [Sockets -> SUBSET Tokens]
        /\ query' \in [Sockets -> {"none", "asked", "read", "failed"}]
        /\ subscribedTokenIds' \subseteq Tokens
    BY <1>0, <1>2, <2>1 DEF SubscribeToActiveMarkets, TypeOK
  <2> QED BY <1>0, <1>2, <2>2, <2>3 DEF SubscribeToActiveMarkets, TypeOK, SubscriptionTypes
<1>3. ASSUME NEW t \in Tokens, SubscribeToTokenIds(t) \/ UnsubscribeFromTokenIds(t)
      PROVE  SubscriptionTypes' /\ UNCHANGED <<serviceVars, sock>>
  <2>1. sent' \in [Sockets -> SUBSET Tokens]
    <3>1. CASE sent' = sent
      BY <1>0, <3>1 DEF TypeOK
    <3>2. CASE sent' # sent
      <4>1. IsConnected /\ (Send(sent[ws] \union {t}) \/ Send(sent[ws] \ {t}))
        BY <1>3, <3>2 DEF SubscribeToTokenIds, UnsubscribeFromTokenIds
      <4>2. sent[ws] \union {t} \subseteq Tokens /\ sent[ws] \ {t} \subseteq Tokens
        BY <1>0, <4>1, SentTypes DEF IsConnected
      <4> QED BY <1>0, <4>1, <4>2, SendTypes
    <3> QED BY <3>1, <3>2
  <2>2. subscribedTokenIds' \subseteq Tokens /\ calls' \subseteq Calls
    BY <1>0, <1>3 DEF SubscribeToTokenIds, UnsubscribeFromTokenIds, TypeOK
  <2> QED BY <1>0, <1>3, <2>1, <2>2
          DEF SubscribeToTokenIds, UnsubscribeFromTokenIds, TypeOK, SubscriptionTypes
<1>4. ASSUME NEW t \in Tokens, \/ CreateMarket(t) \/ NewMarketMessage(t)
                              \/ MarketResolvedMessage(t) \/ ResolveMarket(t)
      PROVE  SubscriptionTypes' /\ UNCHANGED <<serviceVars, sock>>
  <2>1. market' \in [Tokens -> Phases \union {"absent"}]
    BY <1>0, <1>4
       DEF CreateMarket, NewMarketMessage, MarketResolvedMessage, ResolveMarket, TypeOK, Phases
  <2>2. \A op \in {"resolve", "subscribe", "unsubscribe"} : Call(op, t) \in Calls
    BY DEF Call, Calls
  <2>3. calls' \subseteq Calls
    BY <1>0, <1>4, <2>2
       DEF CreateMarket, NewMarketMessage, MarketResolvedMessage, ResolveMarket, TypeOK
  <2> QED BY <1>0, <1>4, <2>1, <2>3
          DEF CreateMarket, NewMarketMessage, MarketResolvedMessage, ResolveMarket, TypeOK,
              SubscriptionTypes
<1>5. ASSUME NEW t \in Tokens, CreateElsewhere(t) \/ UpdateMarket(t)
      PROVE  SubscriptionTypes' /\ UNCHANGED <<serviceVars, sock>>
  <2>1. /\ market' \in [Tokens -> Phases \union {"absent"}]
        /\ excused' \in [Tokens -> SUBSET {"remembered", "activated", "elsewhere"}]
    BY <1>0, <1>5 DEF CreateElsewhere, UpdateMarket, TypeOK, Phases
  <2> QED BY <1>0, <1>5, <2>1 DEF CreateElsewhere, UpdateMarket, TypeOK, SubscriptionTypes
<1>6. SubscriptionTypes' /\ UNCHANGED <<serviceVars, sock>>
  BY <1>1, <1>2, <1>3, <1>4, <1>5 DEF SubscriptionStep
<1>7. TypeOK'
  BY <1>0, <1>6 DEF serviceVars, TypeOK, SubscriptionTypes
<1> QED BY <1>6, <1>7 DEF serviceVars, ConnectionInv, SocketFacts, NoneAbandoned, Abandoned,
             OneSocket, ReconnectAhead, QuietAfterShutdown

LEMMA ConnectionStep == ConnectionInv /\ [Next]_vars => ConnectionInv'
<1> SUFFICES ASSUME ConnectionInv, [Next]_vars PROVE ConnectionInv'
  OBVIOUS
<1>1. CASE Next
  <2>1. CASE SubscriptionStep
    BY <2>1, SubscriptionKeeps
  <2>2. CASE \E s \in Sockets : Connect(s) \/ SocketOpen(s) \/ SocketEnds(s)
    BY <2>2, ConnectKeeps, OpenKeeps, EndKeeps, CloseKeeps DEF SocketEnds
  <2> QED BY <1>1, <2>1, <2>2, TimeOutKeeps, DestroyKeeps DEF Next, SubscriptionStep
<1>2. CASE UNCHANGED vars
  BY <1>2 DEF vars, serviceVars, queryVars, marketVars, ConnectionInv, TypeOK, SocketFacts,
     NoneAbandoned, Abandoned, OneSocket, ReconnectAhead, QuietAfterShutdown
<1> QED BY <1>1, <1>2

LEMMA ConnectionAlways == Spec => []ConnectionInv
BY InitConnection, ConnectionStep, PTL DEF Spec

\* Every variable of the connection keeps its type.
THEOREM TypeCorrect == Spec => []TypeOK
BY ConnectionAlways, PTL DEF ConnectionInv

\* However connections hang, fail and are replaced, there is one socket.
THEOREM OneSocketEver == Spec => []OneSocket
BY ConnectionAlways, PTL DEF ConnectionInv

\* Whoever drops the socket leaves a reconnection behind, until the attempts
\* are used up or the service is shut down.
THEOREM ReconnectionIsAhead == Spec => []ReconnectAhead
BY ConnectionAlways, PTL DEF ConnectionInv

\* After shutdown no timer and no late event connects again.
THEOREM ShutdownIsQuiet == Spec => []QuietAfterShutdown
BY ConnectionAlways, PTL DEF ConnectionInv

-----------------------------------------------------------------------------
(* The subscriptions.                                                      *)

\* The query that the opening started has t before it, or has failed.
Pending(t) ==
    \/ query[ws] \in {"asked", "failed"}
    \/ query[ws] = "read" /\ t \in snapshot[ws]

\* A token that is remembered is subscribed on this connection, or will be if
\* its market is active.
RememberedCovered ==
    IsConnected => \A t \in subscribedTokenIds : excused[t] = {} =>
        \/ t \in sent[ws]
        \/ market[t] # "absent" /\ (market[t] = "active" => Pending(t))

\* So is a token of an active market that nobody is about to subscribe.
ActiveCovered ==
    IsConnected => \A t \in Active :
        Call("subscribe", t) \notin calls /\ excused[t] = {} => t \in sent[ws] \/ Pending(t)

\* Only tokens of stored markets that are not active are unsubscribed.
UnsubscribedClosed ==
    \A t \in Tokens : Call("unsubscribe", t) \in calls /\ excused[t] = {} =>
        market[t] \in {"inactive", "closed"}

SubscriptionInv ==
    ConnectionInv /\ RememberedCovered /\ ActiveCovered /\ UnsubscribedClosed

LEMMA CallsDiffer ==
    /\ \A t, u \in Tokens, a, b \in {"resolve", "subscribe", "unsubscribe"} :
          Call(a, t) = Call(b, u) => a = b /\ t = u
BY DEF Call

LEMMA InitSubscription == Init => SubscriptionInv
BY InitConnection, WsConstants
   DEF Init, SubscriptionInv, RememberedCovered, ActiveCovered, UnsubscribedClosed, IsConnected

\* The connection changes: there is none, or its query is asked.
LEMMA ConnectionCovers ==
    ASSUME SubscriptionInv, ConnectionInv',
           \/ TimeOut \/ Destroy
           \/ \E s \in Sockets : Connect(s) \/ SocketOpen(s) \/ SocketEnds(s)
    PROVE  RememberedCovered' /\ ActiveCovered' /\ UnsubscribedClosed'
<1> USE DEF marketVars, queryVars
<1>1. ASSUME NEW s \in Sockets, SocketOpen(s)
      PROVE  RememberedCovered' /\ ActiveCovered' /\ UnsubscribedClosed'
  <2>1. ws = s /\ s # NONE
    BY <1>1, WsConstants DEF SocketOpen, SubscriptionInv, ConnectionInv, OneSocket
  <2>2. query'[ws] = "asked" /\ ws' = ws /\ market' = market /\ calls' = calls
        /\ subscribedTokenIds' = subscribedTokenIds /\ subscribedTokenIds \subseteq Tokens
    BY <1>1, <2>1 DEF SocketOpen, SubscriptionInv, ConnectionInv, TypeOK
  <2>3. \A t \in Tokens : /\ excused'[t] = {} => excused[t] = {}
                          /\ excused'[t] = {} /\ t \in subscribedTokenIds => t \in Active
    BY <1>1 DEF SocketOpen
  <2>4. RememberedCovered'
    BY <2>2, <2>3 DEF RememberedCovered, Pending, Active
  <2>5. ActiveCovered'
    BY <2>2 DEF ActiveCovered, Pending
  <2> QED BY <2>2, <2>3, <2>4, <2>5 DEF SubscriptionInv, UnsubscribedClosed
<1>2. ASSUME ~IsConnected', market' = market, calls' = calls, excused' = excused
      PROVE  RememberedCovered' /\ ActiveCovered' /\ UnsubscribedClosed'
  BY <1>2 DEF RememberedCovered, ActiveCovered, SubscriptionInv, UnsubscribedClosed
<1>3. ASSUME NEW s \in Sockets, Connect(s)
      PROVE  ~IsConnected' /\ market' = market /\ calls' = calls /\ excused' = excused
  <2>1. connectionState' # "connected"
    BY <1>3 DEF Connect, SubscriptionInv, ConnectionInv, SocketFacts, IsConnected, QuietAfterShutdown
  <2> QED BY <1>3, <2>1 DEF Connect, IsConnected
<1>4. ASSUME NEW s \in Sockets, SocketEnds(s)
      PROVE  ~IsConnected' /\ market' = market /\ calls' = calls /\ excused' = excused
  <2>1. CASE SocketClose(s)
    BY <2>1 DEF SocketClose, IsConnected
  <2>2. CASE SocketError(s)
    BY <2>2 DEF SocketError, IsConnected
  <2>3. CASE LoseConnection(s)
    <3>1. ws = s /\ ws' = ws /\ sock'[s] = "closing"
      BY <2>3, WsConstants
         DEF LoseConnection, SubscriptionInv, ConnectionInv, OneSocket, TypeOK, serviceVars
    <3> QED BY <2>3, <3>1 DEF LoseConnection, IsConnected
  <2> QED BY <1>4, <2>1, <2>2, <2>3 DEF SocketEnds
<1>5. ASSUME Destroy
      PROVE  ~IsConnected' /\ market' = market /\ calls' = calls /\ excused' = excused
  BY <1>5 DEF Destroy, IsConnected
<1>6. ASSUME TimeOut
      PROVE  RememberedCovered' /\ ActiveCovered' /\ UnsubscribedClosed'
  <2>1. CASE connectionState = "connecting" /\ ws # NONE
    BY <1>2, <1>6, <2>1 DEF TimeOut, IsConnected
  <2>2. CASE ~(connectionState = "connecting" /\ ws # NONE)
    BY <1>6, <2>2 DEF TimeOut, SubscriptionInv, RememberedCovered, ActiveCovered,
       UnsubscribedClosed, IsConnected, Pending, Active
  <2> QED BY <2>1, <2>2
<1> QED BY <1>1, <1>2, <1>3, <1>4, <1>5, <1>6

\* What Send does to a connection that is there.
LEMMA SendCovers ==
    ASSUME TypeOK, NEW change, Send(change), IsConnected, ws' = ws
    PROVE  sent'[ws'] = change
BY DEF TypeOK, Send, IsConnected

LEMMA QueryCovers ==
    ASSUME SubscriptionInv, NEW s \in Sockets, RunQuery(s) \/ SubscribeToActiveMarkets(s)
    PROVE  RememberedCovered' /\ ActiveCovered' /\ UnsubscribedClosed'
<1>0. TypeOK /\ (IsConnected' <=> IsConnected) /\ ws' = ws
  BY DEF RunQuery, SubscribeToActiveMarkets, serviceVars, IsConnected, SubscriptionInv, ConnectionInv
<1>1. UnsubscribedClosed' /\ Active' = Active /\ excused' = excused /\ calls' = calls
      /\ market' = market
  BY DEF RunQuery, SubscribeToActiveMarkets, marketVars, UnsubscribedClosed, SubscriptionInv, Active
<1> SUFFICES ASSUME IsConnected
             PROVE  RememberedCovered' /\ ActiveCovered'
  BY <1>0, <1>1 DEF RememberedCovered, ActiveCovered
<1>2. ws \in Sockets
  BY <1>0 DEF IsConnected, TypeOK
<1>3. CASE RunQuery(s)
  <2>1. sent' = sent /\ subscribedTokenIds' = subscribedTokenIds
    BY <1>3 DEF RunQuery
  <2>2. \A t \in Active : Pending(t) => Pending(t)'
    BY <1>0, <1>2, <1>3 DEF RunQuery, Pending, TypeOK
  <2>3. Active = {t \in Tokens : market[t] = "active"} /\ subscribedTokenIds \subseteq Tokens
    BY <1>0 DEF Active, TypeOK
  <2> QED BY <1>0, <1>1, <2>1, <2>2, <2>3
          DEF SubscriptionInv, RememberedCovered, ActiveCovered
<1>4. CASE SubscribeToActiveMarkets(s)
  <2>1. /\ subscribedTokenIds' = subscribedTokenIds \union snapshot[s]
        /\ sent'[ws'] = sent[ws] \union snapshot[s]
    BY <1>0, <1>4, SendCovers DEF SubscribeToActiveMarkets
  <2>2. \A t \in Tokens : Pending(t) => Pending(t)' \/ t \in snapshot[s]
    BY <1>0, <1>2, <1>4 DEF SubscribeToActiveMarkets, Pending, TypeOK
  <2>3. Active \subseteq Tokens /\ subscribedTokenIds \subseteq Tokens
    BY <1>0 DEF Active, TypeOK
  <2> QED BY <1>0, <1>1, <2>1, <2>2, <2>3
          DEF SubscriptionInv, RememberedCovered, ActiveCovered
<1> QED BY <1>3, <1>4

\* A caller subscribes or unsubscribes one market.
LEMMA CallCovers ==
    ASSUME SubscriptionInv, NEW t \in Tokens,
           SubscribeToTokenIds(t) \/ UnsubscribeFromTokenIds(t)
    PROVE  RememberedCovered' /\ ActiveCovered' /\ UnsubscribedClosed'
<1>0. /\ TypeOK /\ (IsConnected' <=> IsConnected) /\ ws' = ws
      /\ Active' = Active /\ excused' = excused /\ market' = market
      /\ query' = query /\ snapshot' = snapshot /\ calls' \subseteq calls
      /\ \A u \in Tokens : Pending(u)' <=> Pending(u)
  BY DEF SubscribeToTokenIds, UnsubscribeFromTokenIds, serviceVars, queryVars, IsConnected,
         Pending, Active, SubscriptionInv, ConnectionInv
<1>1. UnsubscribedClosed'
  BY <1>0 DEF UnsubscribedClosed, SubscriptionInv
<1> SUFFICES ASSUME IsConnected
             PROVE  RememberedCovered' /\ ActiveCovered'
  BY <1>0, <1>1 DEF RememberedCovered, ActiveCovered
<1>2. Active = {u \in Tokens : market[u] = "active"} /\ subscribedTokenIds \subseteq Tokens
  BY <1>0 DEF Active, TypeOK
<1>3. CASE SubscribeToTokenIds(t)
  <2>1. calls' = calls \ {Call("subscribe", t)}
    BY <1>3 DEF SubscribeToTokenIds
  <2>2. \A u \in Tokens \ {t} : Call("subscribe", u) \in calls => Call("subscribe", u) \in calls'
    BY <2>1, CallsDiffer
  <2>3. CASE t \notin subscribedTokenIds
    <3>1. /\ sent'[ws'] = sent[ws] \union {t}
          /\ subscribedTokenIds' = subscribedTokenIds \union {t}
      BY <1>0, <1>3, <2>3, SendCovers DEF SubscribeToTokenIds
    <3> QED BY <1>0, <1>2, <2>2, <3>1
            DEF SubscriptionInv, RememberedCovered, ActiveCovered
  <2>4. CASE t \in subscribedTokenIds
    <3>1. sent' = sent /\ subscribedTokenIds' = subscribedTokenIds
      BY <1>3, <2>4 DEF SubscribeToTokenIds
    <3>2. t \in Active /\ excused[t] = {} => t \in sent[ws] \/ Pending(t)
      BY <1>2, <2>4 DEF SubscriptionInv, RememberedCovered
    <3> QED BY <1>0, <1>2, <2>2, <3>1, <3>2
            DEF SubscriptionInv, RememberedCovered, ActiveCovered
  <2> QED BY <2>3, <2>4
<1>4. CASE UnsubscribeFromTokenIds(t)
  <2>1. /\ calls' = calls \ {Call("unsubscribe", t)} /\ Call("unsubscribe", t) \in calls
        /\ \/ sent'[ws'] = sent[ws] \ {t} /\ subscribedTokenIds' = subscribedTokenIds \ {t}
           \/ sent' = sent /\ subscribedTokenIds' = subscribedTokenIds
    BY <1>0, <1>4, SendCovers DEF UnsubscribeFromTokenIds
  <2>2. \A u \in Tokens : Call("subscribe", u) \in calls => Call("subscribe", u) \in calls'
    BY <2>1, CallsDiffer
  <2>3. excused[t] # {} \/ t \notin Active
    BY <1>2, <2>1 DEF SubscriptionInv, UnsubscribedClosed
  <2> QED BY <1>0, <1>2, <2>1, <2>2, <2>3
          DEF SubscriptionInv, RememberedCovered, ActiveCovered
<1> QED BY <1>3, <1>4

\* A market changes, or a message about it comes in.
LEMMA MarketCovers ==
    ASSUME SubscriptionInv, NEW t \in Tokens,
           \/ CreateMarket(t) \/ CreateElsewhere(t) \/ UpdateMarket(t)
           \/ NewMarketMessage(t) \/ MarketResolvedMessage(t) \/ ResolveMarket(t)
    PROVE  RememberedCovered' /\ ActiveCovered' /\ UnsubscribedClosed'
<1>0. /\ TypeOK /\ (IsConnected' <=> IsConnected) /\ ws' = ws /\ sent' = sent
      /\ subscribedTokenIds' = subscribedTokenIds /\ subscribedTokenIds \subseteq Tokens
      /\ \A u \in Tokens : Pending(u)' <=> Pending(u)
      /\ Active = {u \in Tokens : market[u] = "active"}
      /\ Active' = {u \in Tokens : market'[u] = "active"}
  BY DEF CreateMarket, CreateElsewhere, UpdateMarket, NewMarketMessage, MarketResolvedMessage,
         ResolveMarket, serviceVars, queryVars, IsConnected, Pending, Active, SubscriptionInv,
         ConnectionInv, TypeOK
<1>1. CASE CreateMarket(t)
  <2>1. /\ market[t] = "absent" /\ market'[t] \in Phases /\ excused' = excused
        /\ \A u \in Tokens \ {t} : market'[u] = market[u]
        /\ calls \subseteq calls' /\ calls' \subseteq calls \union {Call("subscribe", t)}
        /\ market'[t] = "active" => Call("subscribe", t) \in calls'
    BY <1>0, <1>1 DEF CreateMarket, TypeOK
  <2>2. \A u \in Tokens : Call("unsubscribe", u) \in calls' => Call("unsubscribe", u) \in calls
    BY <2>1, CallsDiffer
  <2> QED BY <1>0, <2>1, <2>2
          DEF SubscriptionInv, RememberedCovered, ActiveCovered, UnsubscribedClosed, Phases
<1>2. CASE NewMarketMessage(t) \/ MarketResolvedMessage(t)
  <2>1. /\ market' = market /\ excused' = excused
        /\ \E op \in {"subscribe", "resolve"} : calls' = calls \union {Call(op, t)}
    BY <1>2 DEF NewMarketMessage, MarketResolvedMessage
  <2>2. \A u \in Tokens : Call("unsubscribe", u) \in calls' => Call("unsubscribe", u) \in calls
    BY <2>1, CallsDiffer
  <2> QED BY <1>0, <2>1, <2>2
          DEF SubscriptionInv, RememberedCovered, ActiveCovered, UnsubscribedClosed
<1>3. CASE ResolveMarket(t)
  <2>1. /\ excused' = excused
        /\ \A u \in Tokens \ {t} : market'[u] = market[u]
        /\ \/ market[t] # "absent" /\ market'[t] = "closed"
           \/ market' = market /\ calls' \subseteq calls
        /\ calls \ {Call("resolve", t)} \subseteq calls'
        /\ calls' \subseteq calls \union {Call("unsubscribe", t)}
    BY <1>0, <1>3 DEF ResolveMarket, TypeOK
  <2>2. \A u \in Tokens : /\ Call("subscribe", u) \in calls => Call("subscribe", u) \in calls'
                          /\ Call("unsubscribe", u) \in calls' /\ u # t =>
                                Call("unsubscribe", u) \in calls
    BY <2>1, CallsDiffer
  <2> QED BY <1>0, <2>1, <2>2
          DEF SubscriptionInv, RememberedCovered, ActiveCovered, UnsubscribedClosed
<1>4. CASE CreateElsewhere(t) \/ UpdateMarket(t)
  <2>1. /\ calls' = calls /\ market'[t] # "absent"
        /\ \/ excused'[t] # {}
           \/ /\ excused' = excused /\ market[t] # "absent"
              /\ market'[t] \in {"inactive", "closed"}
        /\ \A u \in Tokens \ {t} : market'[u] = market[u] /\ excused'[u] = excused[u]
    <3>1. CASE CreateElsewhere(t)
      BY <1>0, <3>1 DEF CreateElsewhere, TypeOK, Phases
    <3>2. CASE UpdateMarket(t) /\ excused' = excused
      BY <1>0, <3>2 DEF UpdateMarket, TypeOK, Phases
    <3>3. CASE UpdateMarket(t) /\ excused' # excused
      BY <1>0, <3>3 DEF UpdateMarket, TypeOK, Phases
    <3> QED BY <1>4, <3>1, <3>2, <3>3
  <2>2. excused'[t] = {} =>
           excused[t] = {} /\ market[t] # "absent" /\ market'[t] \in {"inactive", "closed"}
    BY <2>1
  <2>3. RememberedCovered'
    BY <1>0, <2>1, <2>2 DEF SubscriptionInv, RememberedCovered
  <2>4. ActiveCovered'
    BY <1>0, <2>1, <2>2 DEF SubscriptionInv, ActiveCovered
  <2>5. UnsubscribedClosed'
    BY <2>1, <2>2 DEF SubscriptionInv, UnsubscribedClosed
  <2> QED BY <2>3, <2>4, <2>5
<1> QED BY <1>1, <1>2, <1>3, <1>4

LEMMA SubscriptionInvStep == SubscriptionInv /\ [Next]_vars => SubscriptionInv'
<1> SUFFICES ASSUME SubscriptionInv, [Next]_vars PROVE SubscriptionInv'
  OBVIOUS
<1>1. ConnectionInv'
  BY ConnectionStep DEF SubscriptionInv
<1>2. CASE Next
  BY <1>1, <1>2, ConnectionCovers, QueryCovers, CallCovers, MarketCovers
     DEF Next, SubscriptionInv
<1>3. CASE UNCHANGED vars
  BY <1>1, <1>3 DEF vars, serviceVars, queryVars, marketVars, SubscriptionInv,
     RememberedCovered, ActiveCovered, UnsubscribedClosed, IsConnected, Pending, Active
<1> QED BY <1>2, <1>3

LEMMA CoveredAtRest == SubscriptionInv => ActiveIsSubscribed
BY DEF SubscriptionInv, ActiveCovered, ActiveIsSubscribed, Pending

\* Once the query of the connection is over every active market is subscribed,
\* whatever was remembered, created, resolved or lost before, but for the
\* markets that are excused.
THEOREM ActiveAreSubscribed == Spec => []ActiveIsSubscribed
BY InitSubscription, SubscriptionInvStep, CoveredAtRest, PTL DEF Spec

-----------------------------------------------------------------------------
(***************************************************************************)
(* All excuses come from faults.  Where no connection is ever lost, no     *)
(* stored market becomes active and no other process stores markets, the   *)
(* first connection that opens is the only one, and nothing is remembered  *)
(* from an earlier one.                                                    *)
(***************************************************************************)
FirstConnection ==
    \/ isShuttingDown
    \/ ws # NONE /\ sock[ws] = "open"
    \/ subscribedTokenIds = {} /\ \A s \in Sockets : query[s] = "none"

NothingExcused == \A t \in Tokens : excused[t] = {}

LEMMA FirstConnectionNext ==
    ASSUME ConnectionInv, FirstConnection, NothingExcused,
           Faults \intersect {"network", "activate", "scheduler"} = {}, [Next]_vars
    PROVE  FirstConnection' /\ NothingExcused'
<1> USE DEF FirstConnection, NothingExcused, marketVars, queryVars, serviceVars
<1>1. TypeOK /\ SocketFacts /\ OneSocket /\ NONE \notin Sockets
  BY WsConstants DEF ConnectionInv
<1>2. ASSUME NEW s \in Sockets, SocketOpen(s) PROVE FirstConnection' /\ NothingExcused'
  <2>1. sock[s] = "connecting" /\ s = ws /\ ~isShuttingDown
    BY <1>1, <1>2 DEF SocketOpen, OneSocket, SocketFacts, NoneAbandoned, Abandoned
  <2>2. subscribedTokenIds = {}
    BY <2>1
  <2>3. ws' # NONE /\ sock'[ws'] = "open" /\ excused' = [t \in Tokens |-> excused[t]]
    BY <1>1, <1>2, <2>1, <2>2 DEF SocketOpen, TypeOK
  <2> QED BY <2>3
<1>3. ASSUME NEW s \in Sockets, Connect(s) PROVE FirstConnection' /\ NothingExcused'
  <2>1. excused' = excused /\ isShuttingDown' = isShuttingDown
        /\ subscribedTokenIds' = subscribedTokenIds
    BY <1>3 DEF Connect
  <2>2. ws = NONE
    BY <1>1, <1>3 DEF Connect, SocketFacts
  <2>3. \A r \in Sockets : query[r] = "none" => query'[r] = "none"
    BY <1>1, <1>3 DEF Connect, TypeOK
  <2> QED BY <2>1, <2>2, <2>3
<1>4. ASSUME NEW s \in Sockets, SocketClose(s) PROVE FirstConnection' /\ NothingExcused'
  <2>1. ~(ws # NONE /\ sock[ws] = "open")
    BY <1>1, <1>4 DEF SocketClose, SocketFacts, NoneAbandoned, Abandoned
  <2> QED BY <1>4, <2>1 DEF SocketClose
<1>5. ASSUME TimeOut PROVE FirstConnection' /\ NothingExcused'
  <2>1. ws # NONE /\ sock[ws] = "open" => ws' = ws /\ sock' = sock
    BY <1>1, <1>5 DEF TimeOut, SocketFacts
  <2> QED BY <1>5, <2>1 DEF TimeOut
<1>6. ASSUME Destroy PROVE FirstConnection' /\ NothingExcused'
  BY <1>6 DEF Destroy
<1>7. ASSUME NEW s \in Sockets, RunQuery(s) \/ SubscribeToActiveMarkets(s)
      PROVE  FirstConnection' /\ NothingExcused'
  <2>1. query[s] # "none" /\ ws' = ws /\ sock' = sock
        /\ isShuttingDown' = isShuttingDown /\ excused' = excused
    BY <1>7 DEF RunQuery, SubscribeToActiveMarkets
  <2> QED BY <2>1
<1>8. ASSUME NEW t \in Tokens, SubscribeToTokenIds(t) \/ UnsubscribeFromTokenIds(t)
      PROVE  FirstConnection' /\ NothingExcused'
  <2>1. /\ ws' = ws /\ sock' = sock /\ isShuttingDown' = isShuttingDown /\ excused' = excused
        /\ query' = query
        /\ IsConnected \/ subscribedTokenIds' = subscribedTokenIds
    BY <1>8 DEF SubscribeToTokenIds, UnsubscribeFromTokenIds
  <2> QED BY <2>1 DEF IsConnected
<1>9. ASSUME NEW t \in Tokens,
             \/ CreateMarket(t) \/ UpdateMarket(t) \/ NewMarketMessage(t)
             \/ MarketResolvedMessage(t) \/ ResolveMarket(t)
      PROVE  FirstConnection' /\ NothingExcused'
  BY <1>9 DEF CreateMarket, UpdateMarket, NewMarketMessage, MarketResolvedMessage, ResolveMarket
<1>10. ASSUME UNCHANGED vars PROVE FirstConnection' /\ NothingExcused'
  BY <1>10 DEF vars
<1>11. \A s \in Sockets : ~LoseConnection(s) /\ ~SocketError(s)
  BY DEF LoseConnection, SocketError
<1>12. \A t \in Tokens : ~CreateElsewhere(t)
  BY DEF CreateElsewhere
<1> QED BY <1>2, <1>3, <1>4, <1>5, <1>6, <1>7, <1>8, <1>9, <1>10, <1>11, <1>12
        DEF Next, SocketEnds

\* What ActiveIsSubscribed says, without the exception.
AllActiveSubscribed ==
    IsConnected /\ query[ws] = "none" =>
        \A t \in Active : Call("subscribe", t) \notin calls => t \in sent[ws]

\* In a deployment of one process, whose connection is not lost and whose stored
\* markets do not become active later, every active market is subscribed once the
\* query of the connection was answered, none excused, whatever times out before
\* it opens: short of a failed query it takes one of the three faults to leave an
\* active market out (subscribeToActiveMarkets, subscribeToTokenIds, syncMarket).
THEOREM SubscribedShortOfFaults ==
    ASSUME Faults \intersect {"network", "activate", "scheduler"} = {}
    PROVE  Spec => []AllActiveSubscribed
<1>1. Init => FirstConnection /\ NothingExcused
  BY DEF Init, FirstConnection, NothingExcused
<1>2. ConnectionInv /\ FirstConnection /\ NothingExcused /\ [Next]_vars
      => FirstConnection' /\ NothingExcused'
  BY FirstConnectionNext
<1>3. NothingExcused /\ ActiveIsSubscribed => AllActiveSubscribed
  BY DEF NothingExcused, ActiveIsSubscribed, AllActiveSubscribed, Active
<1> QED BY <1>1, <1>2, <1>3, ConnectionAlways, ActiveAreSubscribed, PTL DEF Spec

=============================================================================
