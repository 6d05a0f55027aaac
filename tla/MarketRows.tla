----------------------------- MODULE MarketRows -----------------------------
(***************************************************************************)
(* The rows of one event and of its markets under their writers: the       *)
(* synchronisation of events (from the cron job and from POST /events/sync)*)
(* with its snapshots of the exchange, the searches for events and markets *)
(* that find nothing here and fall back to the exchange, and the handlers  *)
(* of new_market and market_resolved.  Prices are those of MarketPrices.   *)
(*                                                                         *)
(* A save finds the row, compares and updates: when nothing differs it has *)
(* its effect (none) where it read, otherwise where it wrote, so that each *)
(* save is one step.                                                       *)
(***************************************************************************)
EXTENDS Naturals, FiniteSets

CONSTANTS
    Markets,
    Syncs,        \* runs of syncEvents that may overlap
    Handlers,     \* handlers of new_market messages and of searches that may
                  \* overlap
    MaxLapses,    \* bound on the status updates that fail
    Faults        \* the faults this instance may suffer

(***************************************************************************)
(* missed:   a market_resolved message does not arrive                     *)
(* provider: the exchange does not answer getMarkets                       *)
(* db:       a transaction or the update of a status fails                 *)
(***************************************************************************)
AllFaults == {"missed", "provider", "db"}

ASSUME RowConstants ==
    /\ Faults \subseteq AllFaults
    /\ MaxLapses \in Nat
    /\ Syncs \intersect Handlers = {}

VARIABLES
    upstream,     \* per market: what the exchange says
    messages,     \* markets whose market_resolved message is on its way
    row,          \* per market: the stored row; "open" is active && !closed
    eventActive,  \* the event row
    pc,           \* per sync and handler: control state
    offered,      \* per sync and handler: event.active as fetched, until saved
    todo,         \* per sync and handler: market snapshots still to be saved
    seen,         \* per sync and handler: event status computed from the rows,
                  \* until written
    lapses,       \* status updates that failed
    excused       \* markets whose closure was missed, lost by a transaction, or
                  \* overwritten from an older snapshot (history)

exchangeVars == <<upstream, messages>>
procVars == <<pc, offered, todo, seen>>
vars == <<exchangeVars, row, eventActive, procVars, lapses, excused>>

Procs == Syncs \union Handlers
Snapshots == [market : Markets, state : {"open", "closed"}]
Status(active) == IF active THEN "active" ELSE "inactive"

TypeOK ==
    /\ upstream \in [Markets -> {"unlisted", "open", "closed"}]
    /\ messages \subseteq Markets
    /\ row \in [Markets -> {"absent", "open", "closed"}]
    /\ eventActive \in {"absent", "active", "inactive"}
    /\ pc \in [Procs -> {"idle", "event", "fetch", "markets", "status",
                         "update", "statuses", "write"}]
    /\ offered \in [Procs -> BOOLEAN]
    /\ todo \in [Procs -> SUBSET Snapshots]
    /\ seen \in [Procs -> BOOLEAN]
    /\ lapses \in 0 .. MaxLapses
    /\ excused \subseteq Markets

Init ==
    /\ upstream = [m \in Markets |-> "unlisted"]
    /\ messages = {}
    /\ row = [m \in Markets |-> "absent"]
    /\ eventActive = "absent"
    /\ pc = [p \in Procs |-> "idle"]
    /\ offered = [p \in Procs |-> FALSE]
    /\ todo = [p \in Procs |-> {}]
    /\ seen = [p \in Procs |-> FALSE]
    /\ lapses = 0
    /\ excused = {}

Goto(p, from, to) == pc[p] = from /\ pc' = [pc EXCEPT ![p] = to]

HasOpen == \E m \in Markets : row[m] = "open"

-----------------------------------------------------------------------------
(* The exchange: a market opens once and closes once.                      *)

ListMarket(m) ==
    /\ upstream[m] = "unlisted"
    /\ upstream' = [upstream EXCEPT ![m] = "open"]
    /\ UNCHANGED <<messages, row, eventActive, procVars, lapses, excused>>

CloseUpstream(m) ==
    /\ upstream[m] = "open"
    /\ upstream' = [upstream EXCEPT ![m] = "closed"]
    /\ \/ messages' = messages \union {m} /\ UNCHANGED excused
       \/ /\ "missed" \in Faults
          /\ excused' = excused \union {m}
          /\ UNCHANGED messages
    /\ UNCHANGED <<row, eventActive, procVars, lapses>>

-----------------------------------------------------------------------------
\* getEvents: the event, with its flag, or without the event when it is not
\* among those asked for.
StartSync(s) ==
    /\ \/ /\ Goto(s, "idle", "event")
          /\ \E active \in BOOLEAN : offered' = [offered EXCEPT ![s] = active]
       \/ Goto(s, "idle", "statuses") /\ UNCHANGED offered
    /\ UNCHANGED <<exchangeVars, row, eventActive, todo, seen, lapses, excused>>

\* What a synchronisation or a handler does when it is through with the event.
AfterEvent(p) == IF p \in Syncs THEN "statuses" ELSE "idle"

\* syncEvent: created, or updated with the exchange's own flag.  Without its
\* event no market is stored; only a new_market handler knows its market yet.
SaveEvent(p) ==
    /\ \/ /\ Goto(p, "event", IF todo[p] = {} THEN "fetch" ELSE "markets")
          /\ eventActive' = Status(offered[p])
          /\ UNCHANGED todo
       \/ /\ "db" \in Faults
          /\ Goto(p, "event", AfterEvent(p))
          /\ todo' = [todo EXCEPT ![p] = {}]
          /\ UNCHANGED eventActive
    /\ offered' = [offered EXCEPT ![p] = FALSE]
    /\ UNCHANGED <<exchangeVars, row, seen, lapses, excused>>

\* syncMarketsForEvent: of the answer only markets that are open are kept; an
\* error is recorded, and the synchronisation goes on.
FetchMarkets(p) ==
    /\ \/ /\ Goto(p, "fetch", "markets")
          /\ todo' = [todo EXCEPT ![p] =
                {n \in Snapshots : n.state = "open" /\ upstream[n.market] = "open"}]
       \/ "provider" \in Faults /\ Goto(p, "fetch", AfterEvent(p)) /\ UNCHANGED todo
    /\ UNCHANGED <<exchangeVars, row, eventActive, offered, seen, lapses, excused>>

\* Variant: every market of the answer is stored as an open one.
SaveMarketOpen(p, n) ==
    /\ n \in todo[p]
    /\ todo' = [todo EXCEPT ![p] = @ \ {n}]
    /\ Goto(p, "markets", "status")
    /\ row' = [row EXCEPT ![n.market] = "open"]
    /\ UNCHANGED <<exchangeVars, eventActive, offered, seen, lapses, excused>>

\* syncMarket: created or updated from the snapshot, flags included.  When it
\* fails, which it also does when another one creates the row meanwhile, the
\* next market follows.
SaveMarket(p, n) ==
    /\ n \in todo[p]
    /\ todo' = [todo EXCEPT ![p] = @ \ {n}]
    /\ \/ /\ Goto(p, "markets", "status")
          /\ row' = [row EXCEPT ![n.market] = n.state]
          /\ excused' = IF n.state # upstream[n.market] THEN excused \union {n.market}
                        ELSE excused
       \/ /\ "db" \in Faults \/ row[n.market] # "absent"
          /\ Goto(p, "markets", "markets")
          /\ UNCHANGED <<row, excused>>
    /\ UNCHANGED <<exchangeVars, eventActive, offered, seen, lapses>>

\* updateEventStatusIfAllMarketsClosed, first half: the rows are read.
ReadStatus(p) ==
    /\ Goto(p, "status", "update")
    /\ seen' = [seen EXCEPT ![p] = HasOpen]
    /\ UNCHANGED <<exchangeVars, row, eventActive, offered, todo, lapses, excused>>

\* Variant: the status of a market is written to the event.
WriteStatusClosed(p) ==
    /\ Goto(p, "update", "markets")
    /\ eventActive' = IF seen[p] THEN "active" ELSE "closed"
    /\ seen' = [seen EXCEPT ![p] = FALSE]
    /\ UNCHANGED <<exchangeVars, row, offered, todo, lapses, excused>>

\* Second half: its three branches all make the flag what the rows said.
WriteStatus(p) ==
    /\ Goto(p, "update", "markets")
    /\ eventActive' = Status(seen[p])
    /\ seen' = [seen EXCEPT ![p] = FALSE]
    /\ UNCHANGED <<exchangeVars, row, offered, todo, lapses, excused>>

EndMarkets(p) ==
    /\ todo[p] = {}
    /\ Goto(p, "markets", AfterEvent(p))
    /\ UNCHANGED <<exchangeVars, row, eventActive, offered, todo, seen, lapses, excused>>

\* Variant: events without open markets are left as they are.
ReadStatusesOpenOnly(s) ==
    /\ \/ /\ eventActive = "inactive" /\ HasOpen
          /\ Goto(s, "statuses", "write")
          /\ seen' = [seen EXCEPT ![s] = TRUE]
       \/ /\ eventActive # "inactive" \/ ~HasOpen
          /\ Goto(s, "statuses", "idle")
          /\ UNCHANGED seen
    /\ UNCHANGED <<exchangeVars, row, eventActive, offered, todo, lapses, excused>>

\* updateAllEventStatuses, its query: an update is due or not.
ReadStatuses(s) ==
    /\ \/ /\ eventActive \notin {"absent", Status(HasOpen)}
          /\ Goto(s, "statuses", "write")
          /\ seen' = [seen EXCEPT ![s] = HasOpen]
       \/ /\ eventActive \in {"absent", Status(HasOpen)}
          /\ Goto(s, "statuses", "idle")
          /\ UNCHANGED seen
    /\ UNCHANGED <<exchangeVars, row, eventActive, offered, todo, lapses, excused>>

\* The transaction of the updates.
WriteStatuses(s) ==
    /\ Goto(s, "write", "idle")
    /\ eventActive' = Status(seen[s])
    /\ seen' = [seen EXCEPT ![s] = FALSE]
    /\ UNCHANGED <<exchangeVars, row, offered, todo, lapses, excused>>

\* A query or an update of a status fails: the error is swallowed, after a
\* market as at the end of the synchronisation, and nothing is written.
LoseStatus(p) ==
    /\ "db" \in Faults
    /\ lapses < MaxLapses
    /\ lapses' = lapses + 1
    /\ \/ \E at \in {"status", "update"} : Goto(p, at, "markets")
       \/ \E at \in {"statuses", "write"} : Goto(p, at, "idle")
    /\ seen' = [seen EXCEPT ![p] = FALSE]
    /\ UNCHANGED <<exchangeVars, row, eventActive, offered, todo, excused>>

-----------------------------------------------------------------------------
\* new_market for an unknown market: the exchange is searched for it, and it
\* is stored as it is found, its event before it if it has none.
NewMarketMessage(h, m) ==
    /\ row[m] = "absent" /\ upstream[m] # "unlisted"
    /\ Goto(h, "idle", IF eventActive = "absent" THEN "event" ELSE "markets")
    /\ todo' = [todo EXCEPT ![h] = {[market |-> m, state |-> upstream[m]]}]
    /\ \E active \in BOOLEAN : offered' = [offered EXCEPT ![h] = active]
    /\ UNCHANGED <<exchangeVars, row, eventActive, seen, lapses, excused>>

\* What the stored or the offered state of a market looks like to a filter on
\* its flags.
Matches(state, filter) == state \in {"open", "closed"} /\ filter \in {state, "any"}

\* getMarkets with a search that has no result here but one on the exchange: a
\* market that is not stored, or is stored otherwise than the filter asks.  Of
\* an event that is known only the market found is stored, whatever its state;
\* an event that is not known is synchronised.
SearchMarkets(h, m) ==
    /\ \E filter \in {"any", "open", "closed"} :
          Matches(upstream[m], filter) /\ ~Matches(row[m], filter)
    /\ \/ /\ eventActive # "absent"
          /\ Goto(h, "idle", "markets")
          /\ todo' = [todo EXCEPT ![h] = {[market |-> m, state |-> upstream[m]]}]
          /\ UNCHANGED offered
       \/ /\ eventActive = "absent"
          /\ Goto(h, "idle", "event")
          /\ \E active \in BOOLEAN : offered' = [offered EXCEPT ![h] = active]
          /\ UNCHANGED todo
    /\ UNCHANGED <<exchangeVars, row, eventActive, seen, lapses, excused>>

\* getEvents with a search that has no result here but one on the exchange: the
\* event is not stored, or not with the flag that the filter asks for.
SearchEvents(h) ==
    /\ Goto(h, "idle", "event")
    /\ \E active \in BOOLEAN :
          /\ eventActive # Status(active)
          /\ offered' = [offered EXCEPT ![h] = active]
    /\ UNCHANGED <<exchangeVars, row, eventActive, todo, seen, lapses, excused>>

\* Variant: the message is kept from a market whose event is inactive.
ResolveMarketOfActive(m) ==
    /\ m \in messages
    /\ messages' = messages \ {m}
    /\ row' = IF row[m] = "absent" \/ eventActive # "active" THEN row
              ELSE [row EXCEPT ![m] = "closed"]
    /\ UNCHANGED <<upstream, eventActive, procVars, lapses, excused>>

\* market_resolved: the row is closed, or the message is lost on a market
\* that is not stored, or with its transaction.  The event is left alone.
ResolveMarket(m) ==
    /\ m \in messages
    /\ messages' = messages \ {m}
    /\ \/ /\ row' = IF row[m] = "absent" THEN row ELSE [row EXCEPT ![m] = "closed"]
          /\ UNCHANGED excused
       \/ "db" \in Faults /\ excused' = excused \union {m} /\ UNCHANGED row
    /\ UNCHANGED <<upstream, eventActive, procVars, lapses>>

-----------------------------------------------------------------------------
MarketsProgress(p) ==
    \/ SaveEvent(p) \/ FetchMarkets(p)
    \/ ReadStatus(p) \/ WriteStatus(p) \/ LoseStatus(p) \/ EndMarkets(p)
    \/ \E n \in todo[p] : SaveMarket(p, n)

SyncProgress(s) ==
    StartSync(s) \/ ReadStatuses(s) \/ WriteStatuses(s) \/ MarketsProgress(s)

Next ==
    \/ \E m \in Markets : ListMarket(m) \/ CloseUpstream(m) \/ ResolveMarket(m)
    \/ \E s \in Syncs : SyncProgress(s)
    \/ \E h \in Handlers :
          \/ MarketsProgress(h) \/ SearchEvents(h)
          \/ \E m \in Markets : NewMarketMessage(h, m) \/ SearchMarkets(h, m)

Spec == Init /\ [][Next]_vars

\* The cron job starts a synchronisation again and again, what runs goes on,
\* and a message that was received is handled.
Fairness ==
    /\ \A s \in Syncs : WF_vars(SyncProgress(s))
    /\ \A h \in Handlers : WF_vars(MarketsProgress(h))
    /\ \A m \in Markets : WF_vars(ResolveMarket(m))

FairSpec == Spec /\ Fairness

-----------------------------------------------------------------------------
\* A synchronisation or handler holds a snapshot of m from when it was open.
HeldOpen(m) ==
    \E p \in Procs : [market |-> m, state |-> "open"] \in todo[p]

\* A closed row is reopened only from a snapshot that is older than the
\* closure: once nobody holds one, a market that is closed on the exchange
\* and here stays closed (the filter of syncMarketsForEvent, syncMarket).
ClosedForGood ==
    [][\A m \in Markets :
          upstream[m] = "closed" /\ row[m] = "closed" /\ ~HeldOpen(m) =>
              row'[m] = "closed" /\ ~HeldOpen(m)']_vars

\* Whatever the exchange says of the event, and however the synchronisations
\* overlap, its flag is again and again what its markets make it, after every
\* resolution of a market as well, and although updates of it fail now and then.
EventStatusRepaired ==
    []<>(eventActive \in {"absent", Status(HasOpen)})

\* A market that is closed on the exchange and stored as open has its message
\* still ahead of it, or is the trace of a named accident: the message missed,
\* its transaction failed, or an older snapshot saved.  The synchronisation
\* drops closed markets before it looks at them, and repairs none of the three.
OpenRowExplained ==
    \A m \in Markets :
        upstream[m] = "closed" /\ row[m] = "open" => m \in messages \union excused

=============================================================================
