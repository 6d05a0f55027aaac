---------------------------- MODULE WsConnection ----------------------------
(***************************************************************************)
(* PolymarketWebSocketService: the socket, its reconnection and what is    *)
(* subscribed on it, with the callers that subscribe and unsubscribe: the  *)
(* synchronisation of a new market and the handlers of new_market and      *)
(* market_resolved.  A market stands for its two token ids.  The process   *)
(* of the scheduler has a service of its own and shares only the rows.     *)
(***************************************************************************)
EXTENDS Naturals, FiniteSets

CONSTANTS
    Sockets,      \* identities of WebSocket objects, used again once closed
    Tokens,       \* the tokens of one market each
    MaxAttempts,  \* maxReconnectAttempts: 10 in the code
    Faults,       \* the faults this instance may suffer
    NONE

(***************************************************************************)
(* network:   a connection fails or is lost                                *)
(* db:        the query for the active markets errors                      *)
(* activate:  a market becomes active after it was stored, because it was  *)
(*            not yet, or closed and saved from a stale snapshot           *)
(* scheduler: the other process synchronises markets as well               *)
(***************************************************************************)
AllFaults == {"network", "db", "activate", "scheduler"}

ASSUME WsConstants ==
    /\ NONE \notin Sockets
    /\ MaxAttempts \in Nat \ {0}
    /\ Faults \subseteq AllFaults

VARIABLES
    ws,               \* this.ws
    connectionState,
    reconnectAttempts,
    reconnectTimer,   \* reconnectTimer # null
    connectionTimeout,      \* the timeout of the latest connect is armed
    isShuttingDown,
    subscribedTokenIds,
    sock,             \* per socket: its phase, seen from its events
    sent,             \* per socket: what the exchange sends on it
    query,            \* per socket: the query for active markets it started
    snapshot,         \* per socket: what that query read
    market,           \* per market: what its row says, if there is one
    calls,            \* what handlers and synchronisation are about to do
    excused           \* per market: why it may stay without a subscription

serviceVars == <<ws, connectionState, reconnectAttempts, reconnectTimer,
                 connectionTimeout, isShuttingDown>>
queryVars  == <<query, snapshot>>
marketVars == <<market, calls>>
vars == <<serviceVars, subscribedTokenIds, sock, sent, queryVars, marketVars, excused>>

\* Of a row: active and not closed; neither; closed.
Phases == {"active", "inactive", "closed"}

Calls == [op : {"resolve", "subscribe", "unsubscribe"}, token : Tokens]
Call(op, t) == [op |-> op, token |-> t]

TypeOK ==
    /\ ws \in Sockets \union {NONE}
    /\ connectionState \in {"disconnected", "connecting", "connected", "error"}
    /\ reconnectAttempts \in 0..MaxAttempts
    /\ reconnectTimer \in BOOLEAN
    /\ connectionTimeout \in BOOLEAN
    /\ isShuttingDown \in BOOLEAN
    /\ subscribedTokenIds \subseteq Tokens
    /\ sock \in [Sockets -> {"closed", "connecting", "open", "closing"}]
    /\ sent \in [Sockets -> SUBSET Tokens]
    /\ query \in [Sockets -> {"none", "asked", "read", "failed"}]
    /\ snapshot \in [Sockets -> SUBSET Tokens]
    /\ market \in [Tokens -> Phases \union {"absent"}]
    /\ calls \subseteq Calls
    /\ excused \in [Tokens -> SUBSET {"remembered", "activated", "elsewhere"}]

\* After onModuleInit: the first connect has been called.
Init ==
    /\ ws \in Sockets
    /\ connectionState = "connecting"
    /\ reconnectAttempts = 0
    /\ reconnectTimer = FALSE
    /\ connectionTimeout = TRUE
    /\ isShuttingDown = FALSE
    /\ subscribedTokenIds = {}
    /\ sock = [s \in Sockets |-> IF s = ws THEN "connecting" ELSE "closed"]
    /\ sent = [s \in Sockets |-> {}]
    /\ query = [s \in Sockets |-> "none"]
    /\ snapshot = [s \in Sockets |-> {}]
    /\ market \in [Tokens -> Phases \union {"absent"}]
    /\ calls = {}
    /\ excused = [t \in Tokens |-> {}]

Active == {t \in Tokens : market[t] = "active"}

IsConnected == connectionState = "connected" /\ ws # NONE /\ sock[ws] = "open"

\* A socket the service gave up but whose events are still to come.
Abandoned(s) == s # ws /\ sock[s] = "closing"

-----------------------------------------------------------------------------
\* Variant: attempts are counted down.
ScheduleReconnectDown ==
    /\ reconnectTimer' = TRUE
    /\ reconnectAttempts' = reconnectAttempts - 1

\* scheduleReconnect replaces an armed timer.  The count is only compared with
\* its maximum, at which it is cut off here.
ScheduleReconnect ==
    /\ reconnectTimer' = TRUE
    /\ reconnectAttempts' = IF reconnectAttempts < MaxAttempts
                            THEN reconnectAttempts + 1 ELSE reconnectAttempts

\* Variant: the connection timeout is not armed.
ConnectUntimed(s) ==
    /\ reconnectTimer
    /\ reconnectTimer' = FALSE
    /\ sock[s] = "closed" /\ query[s] \in {"none", "failed"}
    /\ ~ \E a \in Sockets : Abandoned(a)
    /\ connectionState' = "connecting"
    /\ ws' = s
    /\ sock' = [sock EXCEPT ![s] = "connecting"]
    /\ sent' = [sent EXCEPT ![s] = {}]
    /\ query' = [query EXCEPT ![s] = "none"]
    /\ UNCHANGED <<reconnectAttempts, connectionTimeout, isShuttingDown,
                   subscribedTokenIds, snapshot, marketVars, excused>>

\* The reconnect timer fires: connect, unless connecting, connected or shut
\* down.  An abandoned socket has closed long before: at the next tick.
Connect(s) ==
    /\ reconnectTimer
    /\ reconnectTimer' = FALSE
    /\ sock[s] = "closed" /\ query[s] \in {"none", "failed"}
    /\ ~ \E a \in Sockets : Abandoned(a)
    /\ \/ /\ ~isShuttingDown /\ connectionState \in {"disconnected", "error"}
          /\ connectionState' = "connecting"
          /\ connectionTimeout' = TRUE
          /\ ws' = s
          /\ sock' = [sock EXCEPT ![s] = "connecting"]
          /\ sent' = [sent EXCEPT ![s] = {}]
          /\ query' = [query EXCEPT ![s] = "none"]
       \/ /\ isShuttingDown \/ connectionState \in {"connecting", "connected"}
          /\ UNCHANGED <<connectionState, connectionTimeout, ws, sock, sent, query>>
    /\ UNCHANGED <<reconnectAttempts, isShuttingDown, subscribedTokenIds,
                   snapshot, marketVars, excused>>

\* Variant: the socket that timed out is dropped without being closed.
TimeOutUnclosed ==
    /\ connectionTimeout
    /\ connectionTimeout' = FALSE
    /\ connectionState = "connecting" /\ ws # NONE
    /\ connectionState' = "error"
    /\ ws' = NONE
    /\ ScheduleReconnect
    /\ UNCHANGED <<isShuttingDown, subscribedTokenIds, sock, sent, queryVars,
                   marketVars, excused>>

\* The connection timeout: the socket is closed and dropped, and its close
\* event is still to come.
TimeOut ==
    /\ connectionTimeout
    /\ connectionTimeout' = FALSE
    /\ \/ /\ connectionState = "connecting" /\ ws # NONE
          /\ connectionState' = "error"
          /\ sock' = [sock EXCEPT ![ws] = "closing"]
          /\ ws' = NONE
          /\ IF isShuttingDown THEN UNCHANGED <<reconnectTimer, reconnectAttempts>>
             ELSE ScheduleReconnect
       \/ /\ connectionState # "connecting" \/ ws = NONE
          /\ UNCHANGED <<connectionState, sock, ws, reconnectTimer, reconnectAttempts>>
    /\ UNCHANGED <<isShuttingDown, subscribedTokenIds, sent, queryVars,
                   marketVars, excused>>

\* 'open': the query for the active markets starts.
SocketOpen(s) ==
    /\ sock[s] = "connecting"
    /\ sock' = [sock EXCEPT ![s] = "open"]
    /\ connectionState' = "connected"
    /\ connectionTimeout' = FALSE
    /\ reconnectAttempts' = 0
    /\ query' = [query EXCEPT ![s] = "asked"]
    /\ excused' = [t \in Tokens |->
          IF t \in subscribedTokenIds \ Active
          THEN excused[t] \union {"remembered"} ELSE excused[t]]
    /\ UNCHANGED <<ws, reconnectTimer, isShuttingDown, subscribedTokenIds, sent,
                   snapshot, marketVars>>

\* The connection is lost, or the exchange closes it; its events come later.
LoseConnection(s) ==
    /\ "network" \in Faults
    /\ sock[s] = "open"
    /\ sock' = [sock EXCEPT ![s] = "closing"]
    /\ UNCHANGED <<serviceVars, subscribedTokenIds, sent, queryVars, marketVars, excused>>

\* 'error', which 'close' always follows.
SocketError(s) ==
    /\ "network" \in Faults
    /\ sock[s] \in {"connecting", "open"}
    /\ sock' = [sock EXCEPT ![s] = "closing"]
    /\ connectionTimeout' = FALSE
    /\ connectionState' = "error"
    /\ UNCHANGED <<ws, reconnectAttempts, reconnectTimer, isShuttingDown,
                   subscribedTokenIds, sent, queryVars, marketVars, excused>>

\* Variant: only a connection that had been open is reconnected.
SocketCloseOfOpen(s) ==
    /\ sock[s] = "closing"
    /\ sock' = [sock EXCEPT ![s] = "closed"]
    /\ connectionTimeout' = FALSE
    /\ connectionState' = "disconnected"
    /\ ws' = NONE
    /\ \/ connectionState = "connected" /\ ~isShuttingDown /\ ScheduleReconnect
       \/ /\ connectionState # "connected" \/ isShuttingDown
          /\ UNCHANGED <<reconnectTimer, reconnectAttempts>>
    /\ UNCHANGED <<isShuttingDown, subscribedTokenIds, sent, queryVars,
                   marketVars, excused>>

\* 'close', also of an abandoned socket: whatever this.ws is, it is dropped.
\* What was subscribed is remembered.
SocketClose(s) ==
    /\ sock[s] = "closing"
    /\ sock' = [sock EXCEPT ![s] = "closed"]
    /\ connectionTimeout' = FALSE
    /\ connectionState' = "disconnected"
    /\ ws' = NONE
    /\ \/ /\ ~isShuttingDown /\ reconnectAttempts < MaxAttempts
          /\ ScheduleReconnect
       \/ /\ isShuttingDown \/ reconnectAttempts >= MaxAttempts
          /\ UNCHANGED <<reconnectTimer, reconnectAttempts>>
    /\ UNCHANGED <<isShuttingDown, subscribedTokenIds, sent, queryVars,
                   marketVars, excused>>

\* Variant: only a socket that is open is closed, and loses its listeners.
DestroyOpenOnly ==
    /\ ~isShuttingDown
    /\ isShuttingDown' = TRUE
    /\ reconnectTimer' = FALSE
    /\ connectionTimeout' = FALSE
    /\ IF IsConnected THEN ws' = NONE /\ sock' = [sock EXCEPT ![ws] = "closed"]
       ELSE UNCHANGED <<ws, sock>>
    /\ connectionState' = "disconnected"
    /\ UNCHANGED <<reconnectAttempts, subscribedTokenIds, sent, queryVars,
                   marketVars, excused>>

\* onModuleDestroy: timers cleared, the socket closed and its listeners gone.
Destroy ==
    /\ ~isShuttingDown
    /\ isShuttingDown' = TRUE
    /\ reconnectTimer' = FALSE
    /\ connectionTimeout' = FALSE
    /\ sock' = [s \in Sockets |-> IF s = ws THEN "closed" ELSE sock[s]]
    /\ ws' = NONE
    /\ connectionState' = "disconnected"
    /\ UNCHANGED <<reconnectAttempts, subscribedTokenIds, sent, queryVars,
                   marketVars, excused>>

-----------------------------------------------------------------------------
\* sendMessage: nothing is sent unless connected; what is sent on a socket
\* that is closing is lost.
Send(change) ==
    sent' = IF IsConnected THEN [sent EXCEPT ![ws] = change] ELSE sent

\* findActiveMarketsWithTokens reads the rows, or errors.
RunQuery(s) ==
    /\ query[s] = "asked"
    /\ \/ /\ query' = [query EXCEPT ![s] = "read"]
          /\ snapshot' = [snapshot EXCEPT ![s] = Active]
       \/ /\ "db" \in Faults
          /\ query' = [query EXCEPT ![s] = "failed"]
          /\ UNCHANGED snapshot
    /\ UNCHANGED <<serviceVars, subscribedTokenIds, sock, sent, marketVars, excused>>

\* Variant: what is subscribed already is not sent again.
SubscribeToActiveMarketsNew(s) ==
    /\ query[s] = "read"
    /\ query' = [query EXCEPT ![s] = "none"]
    /\ snapshot' = [snapshot EXCEPT ![s] = {}]
    /\ Send(sent[ws] \union (snapshot[s] \ subscribedTokenIds))
    /\ subscribedTokenIds' = subscribedTokenIds \union snapshot[s]
    /\ UNCHANGED <<serviceVars, sock, marketVars, excused>>

\* subscribeToActiveMarkets goes on, on whatever socket is there by now, and
\* remembers the tokens even if nothing was sent.
SubscribeToActiveMarkets(s) ==
    /\ query[s] = "read"
    /\ query' = [query EXCEPT ![s] = "none"]
    /\ snapshot' = [snapshot EXCEPT ![s] = {}]
    /\ Send(sent[ws] \union snapshot[s])
    /\ subscribedTokenIds' = subscribedTokenIds \union snapshot[s]
    /\ UNCHANGED <<serviceVars, sock, marketVars, excused>>

\* Only what is not remembered is subscribed.
SubscribeToTokenIds(t) ==
    /\ Call("subscribe", t) \in calls
    /\ calls' = calls \ {Call("subscribe", t)}
    /\ \/ /\ IsConnected /\ t \notin subscribedTokenIds
          /\ Send(sent[ws] \union {t})
          /\ subscribedTokenIds' = subscribedTokenIds \union {t}
       \/ /\ ~IsConnected \/ t \in subscribedTokenIds
          /\ UNCHANGED <<sent, subscribedTokenIds>>
    /\ UNCHANGED <<serviceVars, sock, queryVars, market, excused>>

\* Nothing is forgotten while disconnected.
UnsubscribeFromTokenIds(t) ==
    /\ Call("unsubscribe", t) \in calls
    /\ calls' = calls \ {Call("unsubscribe", t)}
    /\ \/ /\ IsConnected /\ t \in subscribedTokenIds
          /\ Send(sent[ws] \ {t})
          /\ subscribedTokenIds' = subscribedTokenIds \ {t}
       \/ /\ ~IsConnected \/ t \notin subscribedTokenIds
          /\ UNCHANGED <<sent, subscribedTokenIds>>
    /\ UNCHANGED <<serviceVars, sock, queryVars, market, excused>>

\* syncMarket commits a new market, as the exchange described it, and goes on to
\* subscribe it if it is active.
CreateMarket(t) ==
    /\ market[t] = "absent"
    /\ \E phase \in Phases :
          /\ market' = [market EXCEPT ![t] = phase]
          /\ calls' = IF phase = "active" THEN calls \union {Call("subscribe", t)} ELSE calls
    /\ UNCHANGED <<serviceVars, subscribedTokenIds, sock, sent, queryVars, excused>>

\* The same in the other process, which subscribes it on a connection of its own.
CreateElsewhere(t) ==
    /\ "scheduler" \in Faults
    /\ market[t] = "absent"
    /\ \E phase \in Phases : market' = [market EXCEPT ![t] = phase]
    /\ excused' = [excused EXCEPT ![t] = @ \union {"elsewhere"}]
    /\ UNCHANGED <<serviceVars, subscribedTokenIds, sock, sent, queryVars, calls>>

\* syncMarket of a market that is stored, in either process, and market_resolved
\* in the other: nothing is subscribed.
UpdateMarket(t) ==
    /\ market[t] # "absent"
    /\ \/ /\ \E phase \in {"inactive", "closed"} : market' = [market EXCEPT ![t] = phase]
          /\ UNCHANGED excused
       \/ /\ "activate" \in Faults
          /\ market[t] # "active"
          /\ market' = [market EXCEPT ![t] = "active"]
          /\ excused' = [excused EXCEPT ![t] = @ \union {"activated"}]
    /\ UNCHANGED <<serviceVars, subscribedTokenIds, sock, sent, queryVars, calls>>

\* new_market: its tokens are subscribed whether or not the market is known,
\* or could be synchronised.
NewMarketMessage(t) ==
    /\ IsConnected
    /\ calls' = calls \union {Call("subscribe", t)}
    /\ UNCHANGED <<serviceVars, subscribedTokenIds, sock, sent, queryVars, market, excused>>

MarketResolvedMessage(t) ==
    /\ IsConnected
    /\ calls' = calls \union {Call("resolve", t)}
    /\ UNCHANGED <<serviceVars, subscribedTokenIds, sock, sent, queryVars, market, excused>>

\* The transaction of market_resolved; a market it does not find is ignored.
ResolveMarket(t) ==
    /\ Call("resolve", t) \in calls
    /\ \/ /\ market[t] # "absent"
          /\ market' = [market EXCEPT ![t] = "closed"]
          /\ calls' = (calls \ {Call("resolve", t)}) \union {Call("unsubscribe", t)}
       \/ /\ market[t] = "absent"
          /\ calls' = calls \ {Call("resolve", t)}
          /\ UNCHANGED market
    /\ UNCHANGED <<serviceVars, subscribedTokenIds, sock, sent, queryVars, excused>>

-----------------------------------------------------------------------------
SocketEnds(s) == SocketError(s) \/ LoseConnection(s) \/ SocketClose(s)

Next ==
    \/ TimeOut \/ Destroy
    \/ \E s \in Sockets : \/ Connect(s) \/ SocketOpen(s) \/ SocketEnds(s)
                          \/ RunQuery(s) \/ SubscribeToActiveMarkets(s)
    \/ \E t \in Tokens : \/ SubscribeToTokenIds(t) \/ UnsubscribeFromTokenIds(t)
                         \/ CreateMarket(t) \/ CreateElsewhere(t) \/ UpdateMarket(t)
                         \/ NewMarketMessage(t) \/ MarketResolvedMessage(t)
                         \/ ResolveMarket(t)

Spec == Init /\ [][Next]_vars

\* Timers fire, a socket that is closing says so, and queries return.  Nothing
\* obliges a connection to open or a message to come.
Fairness ==
    /\ WF_vars(TimeOut)
    /\ WF_vars(\E s \in Sockets : Connect(s))
    /\ \A s \in Sockets :
          /\ WF_vars(SocketClose(s))
          /\ WF_vars(RunQuery(s) \/ SubscribeToActiveMarkets(s))

FairSpec == Spec /\ Fairness

-----------------------------------------------------------------------------
\* The service never holds two connections: a socket that is connecting or
\* open is the one it knows, through timeouts and reconnections.
OneSocket ==
    \A s \in Sockets : sock[s] \in {"connecting", "open"} => s = ws

\* Nobody is left behind: without a socket, and with none about to close, a
\* reconnection is scheduled, until the attempts are used up or the service
\* shuts down (the timeout, error and close handlers agree on who schedules).
ReconnectAhead ==
    ws = NONE /\ ~isShuttingDown /\ (\A s \in Sockets : ~Abandoned(s)) =>
        reconnectTimer \/ reconnectAttempts >= MaxAttempts

\* Once shut down the service never connects again, although the close event
\* of an abandoned socket may still come.
QuietAfterShutdown ==
    isShuttingDown => ~reconnectTimer /\ connectionState \notin {"connecting", "connected"}

\* An active market is subscribed on the connection once the query that its
\* opening started is over, however markets are created and connections lost
\* meanwhile, except when that query failed, when its tokens were remembered from
\* an earlier connection before it was stored, and in two cases that nobody
\* subscribes: it became active after it was stored (syncMarket asks for created),
\* or the process of the scheduler stored it.
ActiveIsSubscribed ==
    IsConnected /\ query[ws] = "none" =>
        \A t \in Active :
            Call("subscribe", t) \notin calls /\ excused[t] = {} => t \in sent[ws]

\* A service that is not connected ends up connected, out of attempts or shut
\* down; a connection that hangs does not stop it.
ServiceRecovers ==
    connectionState # "connected" ~>
        connectionState = "connected" \/ isShuttingDown
        \/ reconnectAttempts >= MaxAttempts

=============================================================================
