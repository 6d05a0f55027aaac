---------------------------- MODULE MarketPrices ----------------------------
(***************************************************************************)
(* The prices of a market row and of its two token rows under their three  *)
(* writers, each a transaction: syncMarket, which saves a snapshot without *)
(* locking what it compares with; the polling of updateMarketPrices, which *)
(* updates blindly; and the price batch, which locks the rows it completes *)
(* its quotes from.  What a batch and its queue do in memory is PriceBatch.*)
(*                                                                         *)
(* The writers have their prices from sources that need not agree: the     *)
(* outcome prices of the Gamma API, the token prices of the CLOB, and the  *)
(* ask and the complement of the bid of either token.  A quote is          *)
(* therefore any price of either side.                                     *)
(***************************************************************************)
EXTENDS Naturals, FiniteSets

CONSTANTS
    Markets,
    Prices,
    Polls,        \* rounds of updateMarketPrices that may overlap
    Syncs,        \* synchronisations that may overlap
    Batches,      \* the batches: one per process, never overlapping with itself
    MaxFailures,  \* bound on the failures of calls and transactions
    Faults,       \* the faults this instance may suffer
    NONE

(***************************************************************************)
(* provider: the exchange does not answer, or does not know the market     *)
(* db:       a transaction fails, or loses a deadlock                      *)
(* exact:    prices are spelled as the column spells them, with eight      *)
(*           decimals; save compares the spellings, so that otherwise it   *)
(*           takes every price for changed                                 *)
(***************************************************************************)
AllFaults == {"provider", "db", "exact"}

ASSUME PricesConstants ==
    /\ Polls \intersect Syncs = {} /\ Batches \intersect (Polls \union Syncs) = {}
    /\ MaxFailures \in Nat
    /\ Faults \subseteq AllFaults

VARIABLES
    failures,
    stored,       \* per market: the committed prices
    pc,           \* per writer: "idle", or the row it is at, or "commit"
    todo,         \* per polling round: the markets still to be polled
    job,          \* per writer: market and quote it is about to store
    seen,         \* per writer: the prices it has read of the row it is at
    held,         \* per writer: the rows of its market that it has locked
    written,      \* per writer: its columns that wait for the commit
    torn          \* markets with a token last saved without its market's price

txVars == <<pc, job, seen, held, written>>
vars == <<failures, stored, todo, txVars, torn>>

Writers == Polls \union Syncs \union Batches
Sides == {"yes", "no"}
Rows == {"market", "yesToken", "noToken"}

\* The market row has two prices, a token row one.
ColumnsOf(row) == IF row = "market" THEN Sides ELSE {row}
Columns == UNION {ColumnsOf(row) : row \in Rows}
TokenOf(side) == IF side = "yes" THEN "yesToken" ELSE "noToken"
SideOf(column) == IF column \in {"yes", "yesToken"} THEN "yes" ELSE "no"

\* The rows in the order in which every transaction writes them.
Following(row) == CASE row = "market"   -> "yesToken"
                    [] row = "yesToken" -> "noToken"
                    [] row = "noToken"  -> "commit"

NoPrices == [c \in {} |-> NONE]
Idle == [market |-> NONE, quote |-> NoPrices]

\* A source may quote one side only, as the batch's do, or both.
QuotesOf(sides) == [sides -> Prices]

Init ==
    /\ failures = 0
    /\ \E first \in [Markets -> QuotesOf(Sides)] :
          stored = [m \in Markets |-> [c \in Columns |-> first[m][SideOf(c)]]]
    /\ pc = [w \in Writers |-> "idle"]
    /\ todo = [p \in Polls |-> {}]
    /\ job = [w \in Writers |-> Idle]
    /\ seen = [w \in Writers |-> NoPrices]
    /\ held = [w \in Writers |-> {}]
    /\ written = [w \in Writers |-> NoPrices]
    /\ torn = {}

-----------------------------------------------------------------------------
Goto(w, from, to) == pc[w] = from /\ pc' = [pc EXCEPT ![w] = to]

\* A failure, of which an instance suffers MaxFailures.
Fail(fault) ==
    /\ fault \in Faults
    /\ failures < MaxFailures
    /\ failures' = failures + 1

\* The row locks of w's market that nobody else holds.
Free(w, row) ==
    \A other \in Writers \ {w} :
        job[other].market = job[w].market => row \notin held[other]

Read(w, row) == [c \in ColumnsOf(row) |-> stored[job[w].market][c]]

\* What w's quote says of columns of both sides.
Quoted(w, columns) == [c \in columns |-> job[w].quote[SideOf(c)]]

\* An update of columns of a row: it waits for the row, and holds it.
Update(w, row, prices) ==
    /\ DOMAIN prices # {} => Free(w, row)
    /\ held' = [held EXCEPT ![w] = @ \union (IF DOMAIN prices = {} THEN {} ELSE {row})]
    /\ written' = [written EXCEPT ![w] =
            [c \in DOMAIN @ \union DOMAIN prices |->
                IF c \in DOMAIN prices THEN prices[c] ELSE @[c]]]

Begin(w, m, quote) ==
    /\ Goto(w, "idle", "market")
    /\ job' = [job EXCEPT ![w] = [market |-> m, quote |-> quote]]
    /\ UNCHANGED <<failures, stored, seen, held, written, torn>>

\* The transaction of w is over, with or without effect.
End(w) ==
    /\ pc' = [pc EXCEPT ![w] = "idle"]
    /\ job' = [job EXCEPT ![w] = Idle]
    /\ seen' = [seen EXCEPT ![w] = NoPrices]
    /\ held' = [held EXCEPT ![w] = {}]
    /\ written' = [written EXCEPT ![w] = NoPrices]
    /\ UNCHANGED todo

-----------------------------------------------------------------------------
\* updateMarketPrices asks for the active markets.
StartPoll(p) ==
    /\ pc[p] = "idle" /\ todo[p] = {}
    /\ todo' = [todo EXCEPT ![p] = Markets]
    /\ UNCHANGED <<failures, stored, txVars, torn>>

\* The next of them and the prices of its tokens, until its transaction begins.
PollMarket(p, m) ==
    /\ m \in todo[p]
    /\ \E quote \in QuotesOf(Sides) : Begin(p, m, quote)
    /\ todo' = [todo EXCEPT ![p] = @ \ {m}]

\* getMarketPrice fails: a market that the exchange does not know is passed
\* over; any other error ends the round, since the call stands before the try.
MissPrice(p, m) ==
    /\ pc[p] = "idle" /\ m \in todo[p]
    /\ Fail("provider")
    /\ \E rest \in {todo[p] \ {m}, {}} : todo' = [todo EXCEPT ![p] = rest]
    /\ UNCHANGED <<stored, txVars, torn>>

\* Variant: the tokens are left to the synchronisation.
UpdatePolledMarketOnly(p, row) ==
    /\ Goto(p, row, "commit")
    /\ Update(p, row, Quoted(p, ColumnsOf(row)))
    /\ UNCHANGED <<failures, stored, todo, job, seen, torn>>

\* The three updates of a polled market, of whatever is stored.
UpdatePolled(p, row) ==
    /\ Goto(p, row, Following(row))
    /\ Update(p, row, Quoted(p, ColumnsOf(row)))
    /\ UNCHANGED <<failures, stored, todo, job, seen, torn>>

\* getMarkets, until syncMarket: a snapshot of the market.
StartSync(s, m) ==
    /\ \E quote \in QuotesOf(Sides) : Begin(s, m, quote)
    /\ UNCHANGED todo

\* save reads the row that it is going to compare with.
LoadRow(s, row) ==
    /\ pc[s] = row /\ seen[s] = NoPrices
    /\ seen' = [seen EXCEPT ![s] = Read(s, row)]
    /\ UNCHANGED <<failures, stored, todo, pc, job, held, written, torn>>

\* save updates what it has found changed: with luck only what has changed.
SaveRow(s, row) ==
    /\ seen[s] # NoPrices
    /\ seen' = [seen EXCEPT ![s] = NoPrices]
    /\ Goto(s, row, Following(row))
    /\ \E columns \in {ColumnsOf(row),
                      {c \in ColumnsOf(row) : seen[s][c] # job[s].quote[SideOf(c)]}} :
          /\ columns # ColumnsOf(row) => "exact" \in Faults
          /\ Update(s, row, Quoted(s, columns))
    /\ UNCHANGED <<failures, stored, todo, job, torn>>

\* A batch with a quote of one or both sides of the market: the ask of the
\* token that the message was about, and the complement of its bid.
StartBatch(b, m, sides) ==
    /\ sides # {}
    /\ \E quote \in QuotesOf(sides) : Begin(b, m, quote)
    /\ UNCHANGED todo

\* Variant: the rows are read without a lock.
LockMarketUnlocked(b) ==
    /\ Goto(b, "market", "yesToken")
    /\ seen' = [seen EXCEPT ![b] = Read(b, "market")]
    /\ UNCHANGED <<failures, stored, todo, job, held, written, torn>>

\* SELECT ... FOR UPDATE of the market row.
LockMarket(b) ==
    /\ Goto(b, "market", "yesToken")
    /\ Free(b, "market")
    /\ held' = [held EXCEPT ![b] = {"market"}]
    /\ seen' = [seen EXCEPT ![b] = Read(b, "market")]
    /\ UNCHANGED <<failures, stored, todo, job, written, torn>>

\* The token rows are locked, and everything is updated: a side without a
\* quote gets the price that was read.
UpdateQuoted(b) ==
    LET price == [side \in Sides |-> IF side \in DOMAIN job[b].quote THEN job[b].quote[side]
                                     ELSE seen[b][side]]
    IN  /\ Goto(b, "yesToken", "commit")
        /\ \A row \in Rows : Free(b, row)
        /\ held' = [held EXCEPT ![b] = Rows]
        /\ written' = [written EXCEPT ![b] = [c \in Columns |-> price[SideOf(c)]]]
        /\ UNCHANGED <<failures, stored, todo, job, seen, torn>>

Commit(w) ==
    LET m == job[w].market
    IN  /\ pc[w] = "commit"
        /\ stored' = [stored EXCEPT ![m] =
                [c \in Columns |-> IF c \in DOMAIN written[w] THEN written[w][c] ELSE @[c]]]
        /\ torn' = IF DOMAIN written[w] = Columns THEN torn \ {m}
                   ELSE IF \E side \in Sides :
                              TokenOf(side) \in DOMAIN written[w] /\ side \notin DOMAIN written[w]
                        THEN torn \union {m}
                   ELSE torn
        /\ End(w)
        /\ UNCHANGED failures

\* The transaction is rolled back; the next market follows, or the next batch.
Rollback(w) ==
    /\ pc[w] # "idle"
    /\ Fail("db")
    /\ End(w)
    /\ UNCHANGED <<stored, torn>>

-----------------------------------------------------------------------------
PollProgress(p) ==
    \/ StartPoll(p) \/ Commit(p) \/ Rollback(p)
    \/ \E m \in Markets : PollMarket(p, m) \/ MissPrice(p, m)
    \/ \E row \in Rows : UpdatePolled(p, row)

SyncProgress(s) ==
    \/ Commit(s) \/ Rollback(s)
    \/ \E m \in Markets : StartSync(s, m)
    \/ \E row \in Rows : LoadRow(s, row) \/ SaveRow(s, row)

BatchProgress(b) ==
    \/ Commit(b) \/ Rollback(b) \/ LockMarket(b) \/ UpdateQuoted(b)
    \/ \E m \in Markets, sides \in SUBSET Sides : StartBatch(b, m, sides)

Next ==
    \/ \E p \in Polls : PollProgress(p)
    \/ \E s \in Syncs : SyncProgress(s)
    \/ \E b \in Batches : BatchProgress(b)

Spec == Init /\ [][Next]_vars

-----------------------------------------------------------------------------
\* Whoever writes, a token has its market's price of its side: the writers
\* exclude each other through the market row, which they write first.  Only a
\* synchronisation that found that price unchanged saves a token without it.
TokensFollowMarket ==
    \A m \in Markets \ torn, side \in Sides :
        stored[m][TokenOf(side)] = stored[m][side]

\* A batch changes no side of a market that it has no quote for, although it
\* writes both: nobody's price is undone by what the batch read earlier, the
\* price of another process's batch no more than a polled one.
UnquotedSideKept ==
    [][\A b \in Batches, m \in Markets, side \in Sides :
          /\ pc[b] = "commit" /\ pc'[b] = "idle"
          /\ job[b].market = m /\ side \notin DOMAIN job[b].quote
          => stored'[m][side] = stored[m][side]]_vars

=============================================================================
