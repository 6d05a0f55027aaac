------------------------- MODULE MarketPricesProofs -------------------------
(***************************************************************************)
(* Theorems about MarketPrices, for every set of markets and prices and    *)
(* any number of polling rounds, synchronisations, batches and failures.   *)
(***************************************************************************)
EXTENDS MarketPrices, TLAPS

PartialPrices == UNION {[C -> Prices] : C \in SUBSET Columns}

TypeOK ==
    /\ stored \in [Markets -> [Columns -> Prices]]
    /\ pc \in [Writers -> {"idle", "market", "yesToken", "noToken", "commit"}]
    /\ todo \in [Polls -> SUBSET Markets]
    /\ job \in [Writers -> [market : Markets \union {NONE}, quote : PartialPrices]]
    /\ seen \in [Writers -> PartialPrices]
    /\ held \in [Writers -> SUBSET Rows]
    /\ written \in [Writers -> PartialPrices]

\* A transaction has a market; what it has written it holds.
WriterFacts ==
    \A w \in Writers :
        /\ pc[w] = "idle" => held[w] = {} /\ written[w] = NoPrices /\ seen[w] = NoPrices
        /\ pc[w] # "idle" => job[w].market \in Markets
        /\ \A row \in Rows : \A c \in ColumnsOf(row) : c \in DOMAIN written[w] => row \in held[w]

\* A row has one holder.
LocksExclude ==
    \A w, x \in Writers : \A row \in Rows :
        w # x /\ row \in held[w] /\ row \in held[x] => job[w].market # job[x].market

\* The rows that a transaction at pc has behind it.
Behind(at) ==
    {row \in Rows : \/ at = "commit"
                    \/ at = "noToken" /\ row # "noToken"
                    \/ at = "yesToken" /\ row = "market"}

\* A polling round quotes both sides, and writes all columns it has behind it.
PollFacts ==
    \A p \in Polls :
        /\ pc[p] # "idle" => DOMAIN job[p].quote = Sides
        /\ \A c \in DOMAIN written[p] : written[p][c] = job[p].quote[SideOf(c)]
        /\ \A row \in Behind(pc[p]) : ColumnsOf(row) \subseteq DOMAIN written[p]

\* A synchronisation does as well, and writes some of them.
SyncFacts ==
    \A s \in Syncs :
        /\ pc[s] # "idle" => DOMAIN job[s].quote = Sides
        /\ \A c \in DOMAIN written[s] : written[s][c] = job[s].quote[SideOf(c)]
        /\ \A row \in Rows : pc[s] = row /\ seen[s] # NoPrices => DOMAIN seen[s] = ColumnsOf(row)
        /\ pc[s] = "commit" => seen[s] = NoPrices

\* A batch writes everything at once, a token with its market's price.
BatchFacts ==
    \A b \in Batches :
        /\ pc[b] # "noToken"
        /\ pc[b] = "yesToken" => DOMAIN seen[b] = Sides
        /\ IF pc[b] = "commit"
           THEN /\ DOMAIN written[b] = Columns
                /\ \A side \in Sides : written[b][TokenOf(side)] = written[b][side]
           ELSE written[b] = NoPrices

\* A synchronisation that wrote a side of the market, and so holds its row,
\* reads a token that nobody changes until it commits, but for one who leaves
\* the market torn; when it leaves the token as it is, it has its price.
UnwrittenTokenAgrees ==
    \A s \in Syncs, side \in Sides :
        side \in DOMAIN written[s] /\ job[s].market \notin torn =>
            /\ pc[s] = TokenOf(side) /\ seen[s] # NoPrices =>
                  seen[s][TokenOf(side)] = stored[job[s].market][TokenOf(side)]
            /\ TokenOf(side) \in Behind(pc[s]) \ DOMAIN written[s] =>
                  stored[job[s].market][TokenOf(side)] = job[s].quote[side]

PricesInv ==
    /\ TypeOK /\ WriterFacts /\ LocksExclude
    /\ PollFacts /\ SyncFacts /\ BatchFacts
    /\ UnwrittenTokenAgrees /\ TokensFollowMarket

-----------------------------------------------------------------------------
LEMMA ColumnFacts ==
    /\ Sides \subseteq Columns
    /\ "yesToken" \in Columns /\ "noToken" \in Columns
    /\ \A side \in Sides : TokenOf(side) \in Columns /\ TokenOf(side) \in Rows
                           /\ ColumnsOf(TokenOf(side)) = {TokenOf(side)}
                           /\ SideOf(side) = side /\ SideOf(TokenOf(side)) = side
    /\ \A c \in Columns : SideOf(c) \in Sides
    /\ ColumnsOf("market") = Sides
    /\ ColumnsOf("yesToken") = {"yesToken"} /\ ColumnsOf("noToken") = {"noToken"}
    /\ Columns = {"yes", "no", "yesToken", "noToken"}
    /\ \A row \in Rows : ColumnsOf(row) \subseteq Columns
    /\ NoPrices \in PartialPrices /\ DOMAIN NoPrices = {}
<1>1. /\ ColumnsOf("market") = Sides
      /\ ColumnsOf("yesToken") = {"yesToken"} /\ ColumnsOf("noToken") = {"noToken"}
  BY DEF ColumnsOf, Sides
<1>2. Columns = {"yes", "no", "yesToken", "noToken"}
  BY <1>1 DEF Columns, Rows, Sides
<1>3. NoPrices \in [{} -> Prices] /\ DOMAIN NoPrices = {}
  BY DEF NoPrices
<1>4. {} \in SUBSET Columns
  OBVIOUS
<1>5. NoPrices \in PartialPrices
  BY <1>3, <1>4 DEF PartialPrices
<1> QED BY <1>1, <1>2, <1>3, <1>5 DEF TokenOf, SideOf, Sides, Rows

LEMMA PartialFacts ==
    ASSUME NEW f \in PartialPrices
    PROVE  /\ DOMAIN f \subseteq Columns
           /\ \A c \in DOMAIN f : f[c] \in Prices
BY DEF PartialPrices

LEMMA PartialIntro ==
    ASSUME NEW C \in SUBSET Columns, NEW f, f \in [C -> Prices]
    PROVE  f \in PartialPrices
BY DEF PartialPrices

LEMMA InitPrices == Init => PricesInv
<1> SUFFICES ASSUME Init PROVE PricesInv
  OBVIOUS
<1>0. PICK first \in [Markets -> QuotesOf(Sides)] :
         stored = [m \in Markets |-> [c \in Columns |-> first[m][SideOf(c)]]]
  BY DEF Init
<1>1. stored \in [Markets -> [Columns -> Prices]]
  <2>1. \A m \in Markets : first[m] \in [Sides -> Prices]
    BY <1>0 DEF QuotesOf
  <2>2. ASSUME NEW m \in Markets, NEW c \in Columns PROVE first[m][SideOf(c)] \in Prices
    <3>1. SideOf(c) \in Sides
      BY ColumnFacts
    <3> QED BY <2>1, <3>1
  <2> QED BY <1>0, <2>2
<1>2. Idle \in [market : Markets \union {NONE}, quote : PartialPrices]
  BY ColumnFacts DEF Idle
<1>3. TypeOK
  BY <1>1, <1>2, ColumnFacts DEF Init, TypeOK
<1>4. WriterFacts /\ LocksExclude
  BY ColumnFacts DEF Init, WriterFacts, LocksExclude
<1>5. PollFacts /\ SyncFacts /\ BatchFacts /\ UnwrittenTokenAgrees
  BY ColumnFacts DEF Init, PollFacts, SyncFacts, BatchFacts, UnwrittenTokenAgrees, Behind, Writers, Rows
<1>6. TokensFollowMarket
  BY <1>0, ColumnFacts DEF TokensFollowMarket
<1> QED BY <1>3, <1>4, <1>5, <1>6 DEF PricesInv

-----------------------------------------------------------------------------
LEMMA WriterSets ==
    /\ Polls \subseteq Writers /\ Syncs \subseteq Writers /\ Batches \subseteq Writers
    /\ \A w \in Writers : w \in Polls \/ w \in Syncs \/ w \in Batches
    /\ \A p \in Polls : p \notin Syncs /\ p \notin Batches
    /\ \A s \in Syncs : s \notin Polls /\ s \notin Batches
    /\ \A b \in Batches : b \notin Polls /\ b \notin Syncs
BY PricesConstants DEF Writers

\* Steps of a polling round between two markets.
LEMMA QuietPrices ==
    ASSUME PricesInv,
           \E p \in Polls : StartPoll(p) \/ \E m \in Markets : MissPrice(p, m)
    PROVE  PricesInv'
<1> DEFINE Quiet == /\ txVars' = txVars /\ torn' = torn /\ stored' = stored
                    /\ todo' \in [Polls -> SUBSET Markets]
<1>1. Quiet
  <2> USE DEF PricesInv, TypeOK
  <2>2. ASSUME NEW p \in Polls, StartPoll(p) PROVE Quiet
    BY <2>2 DEF StartPoll
  <2>3. ASSUME NEW p \in Polls, NEW m \in Markets, MissPrice(p, m) PROVE Quiet
    BY <2>3 DEF MissPrice
  <2> QED BY <2>2, <2>3
<1>2. TypeOK'
  BY <1>1 DEF PricesInv, TypeOK, txVars
<1>3. WriterFacts' /\ LocksExclude'
  BY <1>1 DEF PricesInv, txVars, WriterFacts, LocksExclude
<1>4. PollFacts' /\ SyncFacts' /\ BatchFacts' /\ UnwrittenTokenAgrees'
  <2>1. PollFacts' /\ SyncFacts'
    BY <1>1 DEF PricesInv, txVars, PollFacts, SyncFacts
  <2>2. BatchFacts' /\ UnwrittenTokenAgrees'
    BY <1>1 DEF PricesInv, txVars, BatchFacts, UnwrittenTokenAgrees
  <2> QED BY <2>1, <2>2
<1>5. TokensFollowMarket'
  BY <1>1 DEF PricesInv, TokensFollowMarket
<1> QED BY <1>2, <1>3, <1>4, <1>5 DEF PricesInv

\* A transaction begins: it has read, locked and written nothing.
LEMMA BeginPrices ==
    ASSUME PricesInv, NEW w \in Writers, NEW m \in Markets,
           NEW sides \in SUBSET Sides, NEW quote \in QuotesOf(sides),
           w \notin Batches => sides = Sides,
           Begin(w, m, quote), todo' \in [Polls -> SUBSET Markets]
    PROVE  PricesInv'
<1> DEFINE new == [market |-> m, quote |-> quote]
<1> USE DEF PricesInv
<1>1. /\ pc[w] = "idle" /\ pc' = [pc EXCEPT ![w] = "market"]
      /\ job' = [job EXCEPT ![w] = new]
      /\ stored' = stored /\ seen' = seen /\ held' = held
      /\ written' = written /\ torn' = torn
  BY DEF Begin, Goto
<1>2. /\ new \in [market : Markets \union {NONE}, quote : PartialPrices]
      /\ new.market \in Markets /\ DOMAIN new.quote = sides
  <2>1. sides \in SUBSET Columns /\ quote \in [sides -> Prices]
    BY ColumnFacts DEF QuotesOf
  <2>2. quote \in PartialPrices
    BY <2>1, PartialIntro
  <2> QED BY <2>1, <2>2
<1> HIDE DEF new
<1>3. TypeOK'
  BY <1>1, <1>2 DEF TypeOK
<1>4. held[w] = {} /\ written[w] = NoPrices /\ DOMAIN written[w] = {} /\ seen[w] = NoPrices
  BY <1>1, ColumnFacts DEF WriterFacts
<1>5. /\ pc'[w] = "market" /\ job'[w] = new
      /\ \A x \in Writers \ {w} : pc'[x] = pc[x] /\ job'[x] = job[x]
  BY <1>1 DEF TypeOK
<1>6. WriterFacts'
  BY <1>1, <1>2, <1>4, <1>5 DEF WriterFacts
<1>7. LocksExclude'
  BY <1>1, <1>4, <1>5 DEF LocksExclude
<1>8. PollFacts'
  BY <1>1, <1>2, <1>4, <1>5, WriterSets DEF PollFacts, Behind
<1>9. SyncFacts'
  BY <1>1, <1>2, <1>4, <1>5, WriterSets DEF SyncFacts, Rows
<1>10. BatchFacts'
  BY <1>1, <1>4, <1>5, WriterSets DEF BatchFacts
<1>11. UnwrittenTokenAgrees'
  BY <1>1, <1>4, <1>5, WriterSets DEF UnwrittenTokenAgrees, Behind
<1>12. TokensFollowMarket'
  BY <1>1 DEF TokensFollowMarket
<1> QED BY <1>3, <1>6, <1>7, <1>8, <1>9, <1>10, <1>11, <1>12

\* An update of some columns of a row, all from a quote of both sides.
LEMMA UpdateFacts ==
    ASSUME PricesInv, NEW w \in Writers, pc[w] # "idle", NEW row \in Rows,
           NEW C \in SUBSET ColumnsOf(row),
           DOMAIN job[w].quote = Sides,
           Update(w, row, Quoted(w, C)), job' = job
    PROVE  /\ held' \in [Writers -> SUBSET Rows] /\ written' \in [Writers -> PartialPrices]
           /\ \A x \in Writers \ {w} : held'[x] = held[x] /\ written'[x] = written[x]
           /\ DOMAIN written'[w] = DOMAIN written[w] \union C
           /\ \A c \in C : written'[w][c] = job[w].quote[SideOf(c)]
           /\ \A c \in DOMAIN written[w] \ C : written'[w][c] = written[w][c]
           /\ held'[w] = held[w] \union (IF C = {} THEN {} ELSE {row})
           /\ LocksExclude'
<1> DEFINE prices == Quoted(w, C)
           new == [c \in DOMAIN written[w] \union C |->
                      IF c \in C THEN prices[c] ELSE written[w][c]]
<1> USE DEF PricesInv
<1>0. Update(w, row, prices)
  OBVIOUS
<1>1. DOMAIN prices = C /\ \A c \in C : prices[c] = job[w].quote[SideOf(c)]
  BY DEF Quoted
<1> HIDE DEF prices
<1>2. /\ C # {} => Free(w, row)
      /\ held' = [held EXCEPT ![w] = @ \union (IF C = {} THEN {} ELSE {row})]
      /\ written' = [written EXCEPT ![w] = new]
  BY <1>0, <1>1 DEF Update
<1>3. /\ DOMAIN new = DOMAIN written[w] \union C
      /\ \A c \in C : new[c] = job[w].quote[SideOf(c)]
      /\ \A c \in DOMAIN written[w] \ C : new[c] = written[w][c]
  BY <1>1
<1>4. new \in PartialPrices
  <2>0. written[w] \in PartialPrices /\ job[w].quote \in PartialPrices
    BY DEF TypeOK
  <2>1. /\ written[w] \in PartialPrices
        /\ \A c \in C : c \in Columns /\ job[w].quote[SideOf(c)] \in Prices
    BY <2>0, PartialFacts, ColumnFacts
  <2>2. DOMAIN written[w] \union C \in SUBSET Columns
    BY <2>1, PartialFacts, ColumnFacts
  <2>3. new \in [DOMAIN written[w] \union C -> Prices]
    BY <2>1, <1>1, PartialFacts
  <2> QED BY <2>2, <2>3, PartialIntro
<1> HIDE DEF new
<1>5. /\ held' \in [Writers -> SUBSET Rows] /\ written' \in [Writers -> PartialPrices]
      /\ \A x \in Writers \ {w} : held'[x] = held[x] /\ written'[x] = written[x]
      /\ written'[w] = new
      /\ held'[w] = held[w] \union (IF C = {} THEN {} ELSE {row})
  BY <1>2, <1>4 DEF TypeOK
<1>6. LocksExclude'
  BY <1>2, <1>5 DEF LocksExclude, Free
<1> QED BY <1>3, <1>5, <1>6

\* Where a transaction goes from a row, and what it has behind it then.
LEMMA RowOrder ==
    ASSUME NEW row \in Rows
    PROVE  /\ Following(row) \in {"yesToken", "noToken", "commit"}
           /\ Following(row) # row
           /\ Behind(Following(row)) = Behind(row) \union {row}
           /\ row \notin Behind(row)
<1>1. CASE row = "market"
  BY <1>1 DEF Rows, Following, Behind
<1>2. CASE row = "yesToken"
  BY <1>2 DEF Rows, Following, Behind
<1>3. CASE row = "noToken"
  BY <1>3 DEF Rows, Following, Behind
<1> QED BY <1>1, <1>2, <1>3 DEF Rows

LEMMA UpdatePolledPrices ==
    ASSUME PricesInv, NEW p \in Polls, NEW row \in Rows, UpdatePolled(p, row)
    PROVE  PricesInv'
<1> USE DEF PricesInv
<1> DEFINE C == ColumnsOf(row)
<1>1. /\ pc[p] = row /\ pc' = [pc EXCEPT ![p] = Following(row)]
      /\ Update(p, row, Quoted(p, C))
      /\ stored' = stored /\ todo' = todo /\ job' = job
      /\ seen' = seen /\ torn' = torn
  BY DEF UpdatePolled, Goto
<1>2. /\ p \in Writers /\ pc[p] # "idle" /\ C \in SUBSET ColumnsOf(row)
      /\ DOMAIN job[p].quote = Sides
  BY <1>1, WriterSets DEF Rows, PollFacts
<1>3. /\ held' \in [Writers -> SUBSET Rows] /\ written' \in [Writers -> PartialPrices]
      /\ \A x \in Writers \ {p} : held'[x] = held[x] /\ written'[x] = written[x]
      /\ DOMAIN written'[p] = DOMAIN written[p] \union C
      /\ \A c \in C : written'[p][c] = job[p].quote[SideOf(c)]
      /\ \A c \in DOMAIN written[p] \ C : written'[p][c] = written[p][c]
      /\ held'[p] = held[p] \union (IF C = {} THEN {} ELSE {row})
      /\ LocksExclude'
  BY <1>1, <1>2, UpdateFacts
<1>4. /\ pc' \in [Writers -> {"idle", "market", "yesToken", "noToken", "commit"}]
      /\ pc'[p] = Following(row) /\ pc'[p] # "idle"
      /\ \A x \in Writers \ {p} : pc'[x] = pc[x]
  BY <1>1, <1>2, RowOrder DEF TypeOK
<1>5. TypeOK'
  BY <1>1, <1>3, <1>4 DEF TypeOK
<1>6. WriterFacts'
  <2> SUFFICES ASSUME NEW w \in Writers PROVE WriterFacts!(w)'
    BY DEF WriterFacts
  <2>1. CASE w # p
    BY <1>1, <1>3, <1>4, <2>1 DEF WriterFacts
  <2>2. CASE w = p
    <3>1. \A r \in Rows \ {row} : ColumnsOf(r) \intersect C = {}
      BY DEF ColumnsOf, Rows, Sides
    <3>2. \A r \in Rows : \A c \in ColumnsOf(r) : c \in DOMAIN written'[p] => r \in held'[p]
      BY <1>2, <1>3, <3>1 DEF WriterFacts
    <3> QED BY <1>1, <1>2, <1>4, <2>2, <3>2 DEF WriterFacts
  <2> QED BY <2>1, <2>2
<1>7. PollFacts'
  <2> SUFFICES ASSUME NEW q \in Polls
               PROVE  /\ pc'[q] # "idle" => DOMAIN job'[q].quote = Sides
                      /\ \A c \in DOMAIN written'[q] :
                            written'[q][c] = job'[q].quote[SideOf(c)]
                      /\ \A r \in Behind(pc'[q]) : ColumnsOf(r) \subseteq DOMAIN written'[q]
    BY DEF PollFacts
  <2>1. CASE q # p
    BY <1>1, <1>3, <1>4, <2>1, WriterSets DEF PollFacts
  <2>2. CASE q = p
    BY <1>1, <1>2, <1>3, <1>4, <2>2, RowOrder DEF PollFacts
  <2> QED BY <2>1, <2>2
<1>8. SyncFacts' /\ BatchFacts' /\ UnwrittenTokenAgrees'
  <2>1. /\ \A s \in Syncs : s \in Writers \ {p}
        /\ \A b \in Batches : b \in Writers \ {p}
    BY WriterSets
  <2>2. SyncFacts'
    BY <1>1, <1>3, <1>4, <2>1 DEF SyncFacts
  <2>3. BatchFacts'
    BY <1>1, <1>3, <1>4, <2>1 DEF BatchFacts
  <2>4. UnwrittenTokenAgrees'
    BY <1>1, <1>3, <1>4, <2>1 DEF UnwrittenTokenAgrees
  <2> QED BY <2>2, <2>3, <2>4
<1>9. TokensFollowMarket'
  BY <1>1 DEF TokensFollowMarket
<1> QED BY <1>3, <1>5, <1>6, <1>7, <1>8, <1>9

LEMMA LoadRowPrices ==
    ASSUME PricesInv, NEW s \in Syncs, NEW row \in Rows, LoadRow(s, row)
    PROVE  PricesInv'
<1> USE DEF PricesInv
<1>1. /\ pc[s] = row /\ seen' = [seen EXCEPT ![s] = Read(s, row)]
      /\ stored' = stored /\ todo' = todo /\ job' = job /\ pc' = pc
      /\ held' = held /\ written' = written /\ torn' = torn
  BY DEF LoadRow
<1>2. s \in Writers /\ pc[s] # "idle" /\ job[s].market \in Markets
  BY <1>1, WriterSets DEF WriterFacts, Rows
<1>3. /\ Read(s, row) \in [ColumnsOf(row) -> Prices] /\ Read(s, row) \in PartialPrices
      /\ DOMAIN Read(s, row) = ColumnsOf(row)
      /\ \A c \in ColumnsOf(row) : Read(s, row)[c] = stored[job[s].market][c]
  <2>1. ColumnsOf(row) \in SUBSET Columns
    BY ColumnFacts
  <2>2. Read(s, row) = [c \in ColumnsOf(row) |-> stored[job[s].market][c]]
    BY DEF Read
  <2>3. Read(s, row) \in [ColumnsOf(row) -> Prices]
    BY <1>2, <2>1, <2>2 DEF TypeOK
  <2> QED BY <2>1, <2>2, <2>3, PartialIntro
<1>4. /\ seen'[s] = Read(s, row) /\ \A x \in Writers \ {s} : seen'[x] = seen[x]
      /\ seen' \in [Writers -> PartialPrices]
  BY <1>1, <1>2, <1>3 DEF TypeOK
<1>5. TypeOK'
  BY <1>1, <1>4 DEF TypeOK
<1>6. WriterFacts' /\ LocksExclude' /\ PollFacts'
  BY <1>1, <1>2, <1>4, WriterSets DEF WriterFacts, LocksExclude, PollFacts
<1>7. SyncFacts'
  BY <1>1, <1>2, <1>3, <1>4, WriterSets DEF SyncFacts, Rows
<1>8. BatchFacts'
  BY <1>1, <1>4, WriterSets DEF BatchFacts
<1>9. UnwrittenTokenAgrees'
  BY <1>1, <1>2, <1>3, <1>4, WriterSets, ColumnFacts DEF UnwrittenTokenAgrees
<1>10. TokensFollowMarket'
  BY <1>1 DEF TokensFollowMarket
<1> QED BY <1>5, <1>6, <1>7, <1>8, <1>9, <1>10

LEMMA SaveRowPrices ==
    ASSUME PricesInv, NEW s \in Syncs, NEW row \in Rows, SaveRow(s, row)
    PROVE  PricesInv'
<1> USE DEF PricesInv
<1>1. /\ pc[s] = row /\ pc' = [pc EXCEPT ![s] = Following(row)]
      /\ seen[s] # NoPrices /\ seen' = [seen EXCEPT ![s] = NoPrices]
      /\ stored' = stored /\ todo' = todo /\ job' = job
      /\ torn' = torn
  BY DEF SaveRow, Goto
<1>2. PICK C \in {ColumnsOf(row),
                  {c \in ColumnsOf(row) : seen[s][c] # job[s].quote[SideOf(c)]}} :
         Update(s, row, Quoted(s, C))
  BY DEF SaveRow
<1>3. /\ s \in Writers /\ pc[s] # "idle" /\ C \in SUBSET ColumnsOf(row)
      /\ DOMAIN job[s].quote = Sides
  BY <1>1, WriterSets DEF Rows, SyncFacts
<1>4. /\ held' \in [Writers -> SUBSET Rows] /\ written' \in [Writers -> PartialPrices]
      /\ \A x \in Writers \ {s} : held'[x] = held[x] /\ written'[x] = written[x]
      /\ DOMAIN written'[s] = DOMAIN written[s] \union C
      /\ \A c \in C : written'[s][c] = job[s].quote[SideOf(c)]
      /\ \A c \in DOMAIN written[s] \ C : written'[s][c] = written[s][c]
      /\ held'[s] = held[s] \union (IF C = {} THEN {} ELSE {row})
      /\ LocksExclude'
  BY <1>1, <1>2, <1>3, UpdateFacts
<1>5. /\ pc' \in [Writers -> {"idle", "market", "yesToken", "noToken", "commit"}]
      /\ pc'[s] = Following(row) /\ pc'[s] # "idle"
      /\ \A x \in Writers \ {s} : pc'[x] = pc[x] /\ seen'[x] = seen[x]
      /\ seen'[s] = NoPrices /\ seen' \in [Writers -> PartialPrices]
  BY <1>1, <1>3, RowOrder, ColumnFacts DEF TypeOK
<1>6. TypeOK'
  BY <1>1, <1>4, <1>5 DEF TypeOK
<1>7. WriterFacts'
  <2> SUFFICES ASSUME NEW w \in Writers PROVE WriterFacts!(w)'
    BY DEF WriterFacts
  <2>1. CASE w # s
    BY <1>1, <1>4, <1>5, <2>1 DEF WriterFacts
  <2>2. CASE w = s
    <3>1. \A r \in Rows \ {row} : ColumnsOf(r) \intersect C = {}
      BY <1>3 DEF ColumnsOf, Rows, Sides
    <3>2. \A r \in Rows : \A c \in ColumnsOf(r) : c \in DOMAIN written'[s] => r \in held'[s]
      BY <1>3, <1>4, <3>1 DEF WriterFacts
    <3> QED BY <1>1, <1>3, <1>5, <2>2, <3>2 DEF WriterFacts
  <2> QED BY <2>1, <2>2
<1>8. PollFacts' /\ BatchFacts'
  <2>1. /\ \A b \in Batches : b \in Writers \ {s}
        /\ \A p \in Polls : p \in Writers \ {s}
    BY WriterSets
  <2> QED BY <1>1, <1>4, <1>5, <2>1 DEF PollFacts, BatchFacts
<1>9. SyncFacts'
  <2> SUFFICES ASSUME NEW t \in Syncs PROVE SyncFacts!(t)'
    BY DEF SyncFacts
  <2>1. CASE t # s
    BY <1>1, <1>4, <1>5, <2>1, WriterSets DEF SyncFacts
  <2>2. CASE t = s
    BY <1>1, <1>3, <1>4, <1>5, <2>2 DEF SyncFacts, Rows
  <2> QED BY <2>1, <2>2
<1>10. UnwrittenTokenAgrees'
  <2> SUFFICES ASSUME NEW t \in Syncs, NEW side \in Sides,
                      side \in DOMAIN written'[t], job[t].market \notin torn
               PROVE  /\ pc'[t] = TokenOf(side) /\ seen'[t] # NoPrices =>
                            seen'[t][TokenOf(side)] = stored[job[t].market][TokenOf(side)]
                      /\ TokenOf(side) \in Behind(pc'[t]) \ DOMAIN written'[t] =>
                            stored[job[t].market][TokenOf(side)] = job[t].quote[side]
    BY <1>1 DEF UnwrittenTokenAgrees
  <2>1. CASE t # s
    BY <1>4, <1>5, <2>1, WriterSets DEF UnwrittenTokenAgrees
  <2>2. CASE t = s
    <3> SUFFICES ASSUME TokenOf(side) \in Behind(Following(row)), TokenOf(side) \notin DOMAIN written'[s]
                 PROVE  stored[job[s].market][TokenOf(side)] = job[s].quote[side]
      BY <1>5, <2>2
    <3>1. row # "market"
      BY DEF TokenOf, Behind, Following, Rows, Sides
    <3>2. side \in DOMAIN written[s]
      BY <1>3, <1>4, <2>2, <3>1, ColumnFacts DEF Rows, Sides
    <3>3. CASE row = TokenOf(side)
      <4>1. TokenOf(side) \in ColumnsOf(row) /\ TokenOf(side) \notin C
        BY <1>4, <3>3, ColumnFacts
      <4>2. seen[s][TokenOf(side)] = job[s].quote[side]
        BY <1>2, <4>1, ColumnFacts
      <4> QED BY <1>1, <2>2, <3>2, <3>3, <4>2 DEF UnwrittenTokenAgrees
    <3>4. CASE row # TokenOf(side)
      <4>1. TokenOf(side) \in Behind(row) \ DOMAIN written[s]
        BY <1>4, <3>4, RowOrder
      <4> QED BY <1>1, <2>2, <3>2, <4>1 DEF UnwrittenTokenAgrees
    <3> QED BY <3>3, <3>4
  <2> QED BY <2>1, <2>2
<1>11. TokensFollowMarket'
  BY <1>1 DEF TokensFollowMarket
<1> QED BY <1>4, <1>6, <1>7, <1>8, <1>9, <1>10, <1>11

LEMMA LockMarketPrices ==
    ASSUME PricesInv, NEW b \in Batches, LockMarket(b)
    PROVE  PricesInv'
<1> USE DEF PricesInv
<1>1. /\ pc[b] = "market" /\ pc' = [pc EXCEPT ![b] = "yesToken"]
      /\ Free(b, "market")
      /\ held' = [held EXCEPT ![b] = {"market"}]
      /\ seen' = [seen EXCEPT ![b] = Read(b, "market")]
      /\ stored' = stored /\ todo' = todo /\ job' = job
      /\ written' = written /\ torn' = torn
  BY DEF LockMarket, Goto
<1>2. /\ b \in Writers /\ job[b].market \in Markets
      /\ written[b] = NoPrices
  BY <1>1, WriterSets DEF WriterFacts, BatchFacts
<1>3. /\ Read(b, "market") \in PartialPrices
      /\ DOMAIN Read(b, "market") = Sides
  <2>1. Read(b, "market") = [c \in Sides |-> stored[job[b].market][c]]
    BY ColumnFacts DEF Read
  <2>2. Read(b, "market") \in [Sides -> Prices]
    BY <1>2, <2>1, ColumnFacts DEF TypeOK
  <2>3. Sides \in SUBSET Columns
    BY ColumnFacts
  <2> QED BY <2>1, <2>2, <2>3, PartialIntro
<1>4. /\ pc'[b] = "yesToken" /\ held'[b] = {"market"}
      /\ DOMAIN seen'[b] = Sides
      /\ \A x \in Writers \ {b} : pc'[x] = pc[x] /\ held'[x] = held[x] /\ seen'[x] = seen[x]
      /\ pc' \in [Writers -> {"idle", "market", "yesToken", "noToken", "commit"}]
      /\ held' \in [Writers -> SUBSET Rows] /\ seen' \in [Writers -> PartialPrices]
  BY <1>1, <1>2, <1>3 DEF TypeOK, Rows
<1>5. TypeOK'
  BY <1>1, <1>4 DEF TypeOK
<1>6. WriterFacts'
  BY <1>1, <1>2, <1>4, ColumnFacts DEF WriterFacts
<1>7. LocksExclude'
  BY <1>1, <1>2, <1>4 DEF LocksExclude, Free
<1>8. PollFacts' /\ SyncFacts' /\ UnwrittenTokenAgrees'
  <2>1. \A x \in Polls \union Syncs : x \in Writers \ {b}
    BY WriterSets
  <2>2. PollFacts' /\ SyncFacts'
    BY <1>1, <1>4, <2>1 DEF PollFacts, SyncFacts
  <2>3. UnwrittenTokenAgrees'
    BY <1>1, <1>4, <2>1 DEF UnwrittenTokenAgrees
  <2> QED BY <2>2, <2>3
<1>9. BatchFacts'
  <2> SUFFICES ASSUME NEW other \in Batches PROVE BatchFacts!(other)'
    BY DEF BatchFacts
  <2>1. CASE other = b
    BY <1>1, <1>2, <1>4, <2>1 DEF BatchFacts
  <2>2. CASE other # b
    BY <1>1, <1>4, <2>2, WriterSets DEF BatchFacts
  <2> QED BY <2>1, <2>2
<1>10. TokensFollowMarket'
  BY <1>1 DEF TokensFollowMarket
<1> QED BY <1>5, <1>6, <1>7, <1>8, <1>9, <1>10

LEMMA UpdateQuotedPrices ==
    ASSUME PricesInv, NEW b \in Batches, UpdateQuoted(b)
    PROVE  PricesInv'
<1> USE DEF PricesInv
<1> DEFINE price == [side \in Sides |-> IF side \in DOMAIN job[b].quote THEN job[b].quote[side]
                                        ELSE seen[b][side]]
           new == [c \in Columns |-> price[SideOf(c)]]
<1>1. /\ pc[b] = "yesToken" /\ pc' = [pc EXCEPT ![b] = "commit"]
      /\ \A row \in Rows : Free(b, row)
      /\ held' = [held EXCEPT ![b] = Rows]
      /\ written' = [written EXCEPT ![b] = new]
      /\ stored' = stored /\ todo' = todo /\ job' = job
      /\ seen' = seen /\ torn' = torn
  BY DEF UpdateQuoted, Goto
<1>2. /\ b \in Writers /\ job[b].market \in Markets
      /\ DOMAIN seen[b] = Sides /\ seen[b] \in PartialPrices
      /\ job[b].quote \in PartialPrices
  BY <1>1, WriterSets DEF WriterFacts, BatchFacts, TypeOK
<1>3. \A side \in Sides : price[side] \in Prices
  BY <1>2, PartialFacts
<1> HIDE DEF price
<1>5. /\ new \in [Columns -> Prices]
      /\ \A side \in Sides : new[TokenOf(side)] = new[side]
  BY <1>3, ColumnFacts
<1>6. Columns \in SUBSET Columns
  OBVIOUS
<1>7. new \in PartialPrices /\ DOMAIN new = Columns
  BY <1>5, <1>6, PartialIntro
<1> HIDE DEF new
<1>8. /\ pc'[b] = "commit" /\ held'[b] = Rows /\ written'[b] = new
      /\ \A x \in Writers \ {b} : pc'[x] = pc[x] /\ held'[x] = held[x] /\ written'[x] = written[x]
      /\ pc' \in [Writers -> {"idle", "market", "yesToken", "noToken", "commit"}]
      /\ held' \in [Writers -> SUBSET Rows] /\ written' \in [Writers -> PartialPrices]
  BY <1>1, <1>2, <1>7 DEF TypeOK
<1>9. TypeOK'
  BY <1>1, <1>8 DEF TypeOK
<1>10. WriterFacts'
  BY <1>1, <1>2, <1>8 DEF WriterFacts
<1>11. LocksExclude'
  BY <1>1, <1>2, <1>8 DEF LocksExclude, Free
<1>12. PollFacts' /\ SyncFacts' /\ UnwrittenTokenAgrees'
  <2>1. \A x \in Polls \union Syncs : x \in Writers \ {b}
    BY WriterSets
  <2>2. PollFacts' /\ SyncFacts'
    BY <1>1, <1>8, <2>1 DEF PollFacts, SyncFacts
  <2>3. UnwrittenTokenAgrees'
    BY <1>1, <1>8, <2>1 DEF UnwrittenTokenAgrees
  <2> QED BY <2>2, <2>3
<1>13. BatchFacts'
  <2> SUFFICES ASSUME NEW other \in Batches PROVE BatchFacts!(other)'
    BY DEF BatchFacts
  <2>1. CASE other = b
    BY <1>1, <1>2, <1>5, <1>7, <1>8, <2>1 DEF BatchFacts
  <2>2. CASE other # b
    BY <1>1, <1>8, <2>2, WriterSets DEF BatchFacts
  <2> QED BY <2>1, <2>2
<1>14. TokensFollowMarket'
  BY <1>1 DEF TokensFollowMarket
<1> QED BY <1>9, <1>10, <1>11, <1>12, <1>13, <1>14

\* The end of a transaction, whatever becomes of what it wrote.
LEMMA EndFacts ==
    ASSUME PricesInv, NEW w \in Writers, End(w),
           stored' \in [Markets -> [Columns -> Prices]]
    PROVE  /\ \A x \in Writers \ {w} : /\ pc'[x] = pc[x] /\ job'[x] = job[x]
                                       /\ seen'[x] = seen[x] /\ written'[x] = written[x]
           /\ DOMAIN written'[w] = {}
           /\ TypeOK' /\ WriterFacts' /\ LocksExclude'
           /\ PollFacts' /\ SyncFacts' /\ BatchFacts'
<1> USE DEF PricesInv
<1>1. /\ pc' = [pc EXCEPT ![w] = "idle"] /\ job' = [job EXCEPT ![w] = Idle]
      /\ seen' = [seen EXCEPT ![w] = NoPrices] /\ held' = [held EXCEPT ![w] = {}]
      /\ written' = [written EXCEPT ![w] = NoPrices]
      /\ todo' = todo
  BY DEF End
<1>2. Idle \in [market : Markets \union {NONE}, quote : PartialPrices]
  BY ColumnFacts DEF Idle
<1>3. TypeOK'
  BY <1>1, <1>2, ColumnFacts DEF TypeOK
<1>4. /\ pc'[w] = "idle" /\ seen'[w] = NoPrices /\ held'[w] = {} /\ written'[w] = NoPrices
      /\ DOMAIN written'[w] = {}
      /\ \A x \in Writers \ {w} : /\ pc'[x] = pc[x] /\ job'[x] = job[x] /\ held'[x] = held[x]
                                  /\ seen'[x] = seen[x] /\ written'[x] = written[x]
  BY <1>1, ColumnFacts DEF TypeOK
<1>5. WriterFacts' /\ LocksExclude'
  BY <1>4 DEF WriterFacts, LocksExclude
<1>6. PollFacts'
  <2> SUFFICES ASSUME NEW q \in Polls PROVE PollFacts!(q)'
    BY DEF PollFacts
  <2>1. CASE q = w
    BY <1>4, <2>1 DEF Behind
  <2>2. CASE q # w
    BY <1>4, <2>2, WriterSets DEF PollFacts
  <2> QED BY <2>1, <2>2
<1>7. SyncFacts' /\ BatchFacts'
  BY <1>4, WriterSets DEF SyncFacts, BatchFacts
<1> QED BY <1>3, <1>4, <1>5, <1>6, <1>7

LEMMA RollbackPrices ==
    ASSUME PricesInv, NEW w \in Writers, Rollback(w)
    PROVE  PricesInv'
<1> USE DEF PricesInv
<1>1. End(w) /\ stored' = stored /\ torn' = torn
  BY DEF Rollback
<1>2. stored' \in [Markets -> [Columns -> Prices]]
  BY <1>1 DEF TypeOK
<1>3. UnwrittenTokenAgrees'
  BY <1>1, <1>2, EndFacts, WriterSets DEF UnwrittenTokenAgrees
<1>4. TokensFollowMarket'
  BY <1>1 DEF TokensFollowMarket
<1> QED BY <1>1, <1>2, <1>3, <1>4, EndFacts

\* A transaction commits: its own columns agree; it leaves alone what another
\* one relies on, or leaves the market torn.
LEMMA CommitPrices ==
    ASSUME PricesInv, NEW w \in Writers, Commit(w)
    PROVE  PricesInv'
<1> USE DEF PricesInv
<1> DEFINE m == job[w].market
           full == DOMAIN written[w] = Columns
           lone == \E side \in Sides :
                      TokenOf(side) \in DOMAIN written[w] /\ side \notin DOMAIN written[w]
           new == [c \in Columns |-> IF c \in DOMAIN written[w] THEN written[w][c]
                                     ELSE stored[m][c]]
<1>1. /\ pc[w] = "commit" /\ End(w)
      /\ torn' = IF full THEN torn \ {m} ELSE IF lone THEN torn \union {m} ELSE torn
      /\ stored' = [stored EXCEPT ![m] = new]
  BY DEF Commit
<1>2. /\ m \in Markets /\ written[w] \in PartialPrices
      /\ DOMAIN written[w] \subseteq Columns
  BY <1>1, PartialFacts DEF WriterFacts, TypeOK
<1>3. new \in [Columns -> Prices]
  BY <1>2, PartialFacts DEF TypeOK
<1>4. /\ \A c \in Columns : new[c] = IF c \in DOMAIN written[w] THEN written[w][c]
                                     ELSE stored[m][c]
  OBVIOUS
<1> HIDE DEF new
<1>5. /\ stored' \in [Markets -> [Columns -> Prices]]
      /\ stored'[m] = new /\ \A n \in Markets \ {m} : stored'[n] = stored[n]
  BY <1>1, <1>2, <1>3 DEF TypeOK
<1>6. /\ \A x \in Writers \ {w} : /\ pc'[x] = pc[x] /\ job'[x] = job[x]
                                  /\ seen'[x] = seen[x] /\ written'[x] = written[x]
      /\ DOMAIN written'[w] = {}
  BY <1>1, <1>5, EndFacts
<1>7. \A n \in Markets \ {m} : n \notin torn' => n \notin torn
  BY <1>1
\* Which tokens agree when both, one or neither of the columns was written.
<1>8. ASSUME NEW side \in Sides, m \notin torn'
      PROVE  new[TokenOf(side)] = new[side]
  <2>0. side \in Columns /\ TokenOf(side) \in Columns
    BY ColumnFacts
  <2>1. CASE side \in DOMAIN written[w] /\ TokenOf(side) \in DOMAIN written[w]
    <3>1. CASE w \in Polls
      BY <1>4, <2>0, <2>1, <3>1, ColumnFacts DEF PollFacts
    <3>2. CASE w \in Syncs
      BY <1>4, <2>0, <2>1, <3>2, ColumnFacts DEF SyncFacts
    <3>3. CASE w \in Batches
      BY <1>1, <1>4, <2>0, <2>1, <3>3 DEF BatchFacts
    <3> QED BY <3>1, <3>2, <3>3, WriterSets
  <2>2. CASE TokenOf(side) \notin DOMAIN written[w]
    <3>1. ~full /\ m \notin torn
      BY <1>1, <1>8, <2>0, <2>2
    <3>2. TokenOf(side) \in Behind(pc[w]) /\ TokenOf(side) \in Rows
      BY <1>1, ColumnFacts DEF Behind
    <3>3. w \in Syncs
      BY <1>1, <2>0, <2>2, <3>2, WriterSets, ColumnFacts DEF PollFacts, BatchFacts
    <3>4. CASE side \in DOMAIN written[w]
      <4>1. stored[m][TokenOf(side)] = job[w].quote[side]
        BY <2>2, <3>1, <3>2, <3>3, <3>4 DEF UnwrittenTokenAgrees
      <4>2. written[w][side] = job[w].quote[side]
        BY <3>3, <3>4, ColumnFacts DEF SyncFacts
      <4> QED BY <1>4, <2>0, <2>2, <3>4, <4>1, <4>2
    <3>5. CASE side \notin DOMAIN written[w]
      BY <1>2, <1>4, <2>0, <2>2, <3>1, <3>5 DEF TokensFollowMarket
    <3> QED BY <3>4, <3>5
  <2>3. TokenOf(side) \in DOMAIN written[w] => side \in DOMAIN written[w]
    BY <1>1, <1>8, <2>0
  <2> QED BY <2>1, <2>2, <2>3
<1>9. TokensFollowMarket'
  BY <1>2, <1>5, <1>7, <1>8 DEF TokensFollowMarket
<1>10. UnwrittenTokenAgrees'
  <2> SUFFICES ASSUME NEW s \in Syncs, NEW side \in Sides,
                      side \in DOMAIN written'[s], job'[s].market \notin torn'
               PROVE  UnwrittenTokenAgrees!(s, side)!2'
    BY DEF UnwrittenTokenAgrees
  <2>1. /\ s \in Writers /\ s # w /\ side \in DOMAIN written[s]
        /\ pc'[s] = pc[s] /\ job'[s] = job[s] /\ seen'[s] = seen[s] /\ written'[s] = written[s]
    BY <1>6, WriterSets
  <2>2. pc[s] # "idle"
    BY <2>1, ColumnFacts DEF WriterFacts
  <2>3. job[s].market \in Markets
    BY <2>1, <2>2 DEF WriterFacts
  <2>4. CASE job[s].market # m
    BY <1>5, <1>7, <2>1, <2>3, <2>4 DEF UnwrittenTokenAgrees
  <2>5. CASE job[s].market = m
    <3>1. "market" \in held[s]
      BY <2>1, ColumnFacts DEF WriterFacts, Rows
    <3>2. "market" \notin held[w]
      BY <2>1, <2>5, <3>1 DEF LocksExclude, Rows
    <3>3. side \notin DOMAIN written[w]
      BY <3>2, ColumnFacts DEF WriterFacts, Rows
    <3>4. ~full
      BY <3>3, ColumnFacts
    <3>5. ~lone /\ m \notin torn
      BY <1>1, <2>1, <2>5, <3>4
    <3>6. TokenOf(side) \notin DOMAIN written[w] /\ TokenOf(side) \in Columns
      BY <3>3, <3>5, ColumnFacts
    <3>7. stored'[m][TokenOf(side)] = stored[m][TokenOf(side)]
      BY <1>4, <1>5, <3>6
    <3> QED BY <2>1, <2>5, <3>5, <3>7 DEF UnwrittenTokenAgrees
  <2> QED BY <2>4, <2>5
<1> QED BY <1>1, <1>5, <1>9, <1>10, EndFacts

LEMMA PricesStep == PricesInv /\ [Next]_vars => PricesInv'
<1> SUFFICES ASSUME PricesInv, [Next]_vars PROVE PricesInv'
  OBVIOUS
<1>1. ASSUME NEW p \in Polls, PollProgress(p) PROVE PricesInv'
  <2>1. ASSUME NEW m \in Markets, PollMarket(p, m) PROVE PricesInv'
    <3>1. todo' \in [Polls -> SUBSET Markets]
      BY <2>1 DEF PollMarket, PricesInv, TypeOK
    <3> QED BY <2>1, <3>1, BeginPrices, WriterSets DEF PollMarket
  <2> QED BY <1>1, <2>1, QuietPrices, CommitPrices, RollbackPrices, UpdatePolledPrices, WriterSets
          DEF PollProgress
<1>2. ASSUME NEW s \in Syncs, SyncProgress(s) PROVE PricesInv'
  <2>1. ASSUME NEW m \in Markets, StartSync(s, m) PROVE PricesInv'
    <3>1. todo' \in [Polls -> SUBSET Markets]
      BY <2>1 DEF StartSync, PricesInv, TypeOK
    <3> QED BY <2>1, <3>1, BeginPrices, WriterSets DEF StartSync
  <2> QED BY <1>2, <2>1, CommitPrices, RollbackPrices, LoadRowPrices, SaveRowPrices, WriterSets
          DEF SyncProgress
<1>3. ASSUME NEW b \in Batches, BatchProgress(b) PROVE PricesInv'
  <2>1. ASSUME NEW m \in Markets, NEW sides \in SUBSET Sides, StartBatch(b, m, sides)
        PROVE  PricesInv'
    <3>1. todo' \in [Polls -> SUBSET Markets]
      BY <2>1 DEF StartBatch, PricesInv, TypeOK
    <3> QED BY <2>1, <3>1, BeginPrices, WriterSets DEF StartBatch
  <2> QED BY <1>3, <2>1, LockMarketPrices, UpdateQuotedPrices, CommitPrices, RollbackPrices,
             WriterSets DEF BatchProgress
<1>4. CASE UNCHANGED vars
  <2> USE <1>4 DEF PricesInv, vars, txVars
  <2>1. TypeOK' /\ WriterFacts' /\ LocksExclude'
    BY DEF TypeOK, WriterFacts, LocksExclude
  <2>2. PollFacts' /\ SyncFacts' /\ BatchFacts'
    BY DEF PollFacts, SyncFacts, BatchFacts
  <2>3. UnwrittenTokenAgrees' /\ TokensFollowMarket'
    BY DEF UnwrittenTokenAgrees, TokensFollowMarket
  <2> QED BY <2>1, <2>2, <2>3
<1> QED BY <1>1, <1>2, <1>3, <1>4 DEF Next

-----------------------------------------------------------------------------
\* The rows, the locks and everything that a writer carries keep their types.
THEOREM TypeCorrect == Spec => []TypeOK
<1>1. PricesInv => TypeOK
  BY DEF PricesInv
<1> QED BY <1>1, InitPrices, PricesStep, PTL DEF Spec

\* Whoever writes, and whatever fails, a token that was not saved without its
\* market has its market's price: the row locks of the three writers, taken
\* with their first writes, suffice for it, though not all of them lock what
\* they read (syncMarket, updateMarketPrices, processPriceUpdateBatch).
THEOREM TokensAgree == Spec => []TokensFollowMarket
<1>1. PricesInv => TokensFollowMarket
  BY DEF PricesInv
<1> QED BY <1>1, InitPrices, PricesStep, PTL DEF Spec

-----------------------------------------------------------------------------
\* Between its reading of the market row and its commit a batch holds it, so
\* that what it read is still what is stored.
SeesRow(b) ==
    /\ pc[b] \in {"yesToken", "commit"} =>
          /\ "market" \in held[b]
          /\ \A side \in Sides : seen[b][side] = stored[job[b].market][side]
    /\ pc[b] = "commit" =>
          \A side \in Sides \ DOMAIN job[b].quote : written[b][side] = seen[b][side]

BatchSeesRow == \A b \in Batches : SeesRow(b)

Untouched(b) ==
    /\ pc'[b] = pc[b] /\ job'[b] = job[b] /\ seen'[b] = seen[b]
    /\ held'[b] = held[b] /\ written'[b] = written[b]

LEMMA InitSeen == Init => BatchSeesRow
BY WriterSets DEF Init, BatchSeesRow, SeesRow

\* A commit of another writer leaves the row that a batch holds alone.
LEMMA OthersCommitSeen ==
    ASSUME PricesInv, NEW b \in Batches, SeesRow(b), NEW w \in Writers \ {b}, Commit(w)
    PROVE  SeesRow(b)'
<1> USE DEF PricesInv
<1> DEFINE m == job[w].market
           new == [c \in Columns |-> IF c \in DOMAIN written[w] THEN written[w][c]
                                     ELSE stored[m][c]]
<1>1. /\ pc[w] = "commit" /\ stored' = [stored EXCEPT ![m] = new] /\ End(w)
  BY DEF Commit
<1>2. /\ m \in Markets /\ w \in Writers /\ b \in Writers
      /\ \A side \in Sides : side \notin DOMAIN written[w] => new[side] = stored[m][side]
  BY <1>1, WriterSets, ColumnFacts DEF WriterFacts
<1> HIDE DEF new
<1>3. /\ stored'[m] = new /\ \A n \in Markets \ {m} : stored'[n] = stored[n]
  BY <1>1, <1>2 DEF TypeOK
<1>4. Untouched(b)
  BY <1>1, <1>2 DEF End, TypeOK, Untouched
<1>5. ASSUME pc[b] \in {"yesToken", "commit"}, NEW side \in Sides
      PROVE  stored'[job[b].market][side] = stored[job[b].market][side]
  <2>1. job[b].market \in Markets /\ "market" \in held[b]
    BY <1>2, <1>5 DEF WriterFacts, SeesRow
  <2>2. CASE job[b].market # m
    BY <1>3, <2>1, <2>2
  <2>3. CASE job[b].market = m
    <3>1. "market" \notin held[w]
      BY <1>2, <2>1, <2>3 DEF LocksExclude, Rows
    <3>2. side \notin DOMAIN written[w]
      BY <1>2, <3>1, ColumnFacts DEF WriterFacts, Rows
    <3> QED BY <1>2, <1>3, <2>3, <3>2
  <2> QED BY <2>2, <2>3
<1> QED BY <1>4, <1>5 DEF SeesRow, Untouched

\* Nothing else that others do concerns a batch, another batch no more than
\* any writer.
LEMMA OthersSeen ==
    ASSUME PricesInv, NEW b \in Batches, SeesRow(b),
           \/ \E p \in Polls : PollProgress(p)
           \/ \E s \in Syncs : SyncProgress(s)
           \/ \E other \in Batches \ {b} : BatchProgress(other)
           \/ UNCHANGED vars
    PROVE  SeesRow(b)'
<1> USE DEF txVars, PricesInv
<1>1. ASSUME stored' = stored, Untouched(b) PROVE SeesRow(b)'
  BY <1>1 DEF SeesRow, Untouched
<1>2. ASSUME NEW w \in Writers \ {b}, Rollback(w) PROVE SeesRow(b)'
  <2>1. stored' = stored /\ Untouched(b)
    BY <1>2, WriterSets DEF Rollback, End, TypeOK, Untouched
  <2> QED BY <1>1, <2>1
<1>3. ASSUME NEW w \in Writers \ {b}, NEW m \in Markets, NEW quote, Begin(w, m, quote)
      PROVE  SeesRow(b)'
  <2>1. stored' = stored /\ Untouched(b)
    BY <1>3, WriterSets DEF Begin, Goto, TypeOK, Untouched
  <2> QED BY <1>1, <2>1
<1>4. ASSUME NEW p \in Polls, PollProgress(p) PROVE SeesRow(b)'
  <2>1. p \in Writers \ {b}
    BY WriterSets
  <2>2. ASSUME NEW row \in Rows, UpdatePolled(p, row) PROVE SeesRow(b)'
    <3>1. stored' = stored /\ Untouched(b)
      BY <2>1, <2>2, WriterSets DEF UpdatePolled, Update, Goto, TypeOK, Untouched
    <3> QED BY <1>1, <3>1
  <2>3. ASSUME StartPoll(p) \/ \E m \in Markets : MissPrice(p, m) PROVE SeesRow(b)'
    <3>1. stored' = stored /\ Untouched(b)
      BY <2>3 DEF StartPoll, MissPrice, Untouched
    <3> QED BY <1>1, <3>1
  <2> QED BY <1>2, <1>3, <1>4, <2>1, <2>2, <2>3, OthersCommitSeen DEF PollProgress, PollMarket
<1>5. ASSUME NEW s \in Syncs, SyncProgress(s) PROVE SeesRow(b)'
  <2>1. s \in Writers \ {b}
    BY WriterSets
  <2>2. ASSUME NEW row \in Rows, LoadRow(s, row) \/ SaveRow(s, row) PROVE SeesRow(b)'
    <3>1. stored' = stored /\ Untouched(b)
      BY <2>1, <2>2, WriterSets DEF LoadRow, SaveRow, Update, Goto, TypeOK, Untouched
    <3> QED BY <1>1, <3>1
  <2> QED BY <1>2, <1>3, <1>5, <2>1, <2>2, OthersCommitSeen DEF SyncProgress, StartSync
<1>6. ASSUME NEW other \in Batches \ {b}, BatchProgress(other) PROVE SeesRow(b)'
  <2>1. other \in Writers \ {b}
    BY WriterSets
  <2>2. ASSUME LockMarket(other) \/ UpdateQuoted(other) PROVE SeesRow(b)'
    <3>1. stored' = stored /\ Untouched(b)
      BY <2>1, <2>2, WriterSets DEF LockMarket, UpdateQuoted, Goto, TypeOK, Untouched
    <3> QED BY <1>1, <3>1
  <2> QED BY <1>2, <1>3, <1>6, <2>1, <2>2, OthersCommitSeen DEF BatchProgress, StartBatch
<1>7. CASE UNCHANGED vars
  BY <1>1, <1>7 DEF vars, Untouched
<1> QED BY <1>4, <1>5, <1>6, <1>7

\* A batch's own steps.
LEMMA OwnSeen ==
    ASSUME PricesInv, NEW b \in Batches, SeesRow(b), BatchProgress(b)
    PROVE  SeesRow(b)'
<1> USE DEF PricesInv
<1>1. b \in Writers
  BY WriterSets
<1>2. ASSUME pc'[b] \in {"idle", "market"} PROVE SeesRow(b)'
  BY <1>2 DEF SeesRow
<1>3. CASE LockMarket(b)
  <2>1. /\ pc'[b] = "yesToken" /\ held'[b] = {"market"}
        /\ stored' = stored /\ job' = job /\ seen'[b] = Read(b, "market")
    BY <1>1, <1>3 DEF LockMarket, Goto, TypeOK
  <2>2. \A side \in Sides : Read(b, "market")[side] = stored[job[b].market][side]
    BY ColumnFacts DEF Read
  <2> QED BY <2>1, <2>2 DEF SeesRow
<1>4. CASE UpdateQuoted(b)
  <2> DEFINE price == [side \in Sides |-> IF side \in DOMAIN job[b].quote
                                          THEN job[b].quote[side] ELSE seen[b][side]]
             new == [c \in Columns |-> price[SideOf(c)]]
  <2>1. /\ pc[b] = "yesToken" /\ pc'[b] = "commit" /\ held'[b] = Rows
        /\ stored' = stored /\ job' = job /\ seen' = seen /\ written'[b] = new
    BY <1>1, <1>4 DEF UpdateQuoted, Goto, TypeOK
  <2>2. \A side \in Sides \ DOMAIN job[b].quote : new[side] = seen[b][side]
    BY ColumnFacts
  <2> HIDE DEF new
  <2> QED BY <2>1, <2>2 DEF SeesRow, Rows
<1>5. CASE Commit(b) \/ Rollback(b)
  BY <1>1, <1>2, <1>5 DEF Commit, Rollback, End, TypeOK
<1>6. ASSUME NEW m \in Markets, NEW sides \in SUBSET Sides, StartBatch(b, m, sides)
      PROVE  SeesRow(b)'
  BY <1>1, <1>2, <1>6 DEF StartBatch, Begin, Goto, TypeOK
<1> QED BY <1>3, <1>4, <1>5, <1>6 DEF BatchProgress

LEMMA SeenStep == PricesInv /\ BatchSeesRow /\ [Next]_vars => BatchSeesRow'
BY OthersSeen, OwnSeen DEF BatchSeesRow, Next

\* A commit of a batch leaves every side that it has no quote for as it is.
LEMMA CommitKeepsUnquoted ==
    ASSUME PricesInv, BatchSeesRow, [Next]_vars,
           NEW b \in Batches, NEW m \in Markets, NEW side \in Sides,
           pc[b] = "commit", pc'[b] = "idle",
           job[b].market = m, side \notin DOMAIN job[b].quote
    PROVE  stored'[m][side] = stored[m][side]
<1> USE DEF PricesInv
<1>0. b \in Writers
  BY WriterSets
<1>1. stored' = stored \/ \E w \in Writers : Commit(w)
  <2> USE DEF txVars, End, Begin
  <2>1. ASSUME NEW p \in Polls, PollProgress(p) PROVE stored' = stored \/ Commit(p)
    BY <2>1 DEF PollProgress, StartPoll, Rollback, PollMarket, MissPrice, UpdatePolled
  <2>2. ASSUME NEW s \in Syncs, SyncProgress(s) PROVE stored' = stored \/ Commit(s)
    BY <2>2 DEF SyncProgress, StartSync, Rollback, LoadRow, SaveRow
  <2>3. ASSUME NEW a \in Batches, BatchProgress(a) PROVE stored' = stored \/ Commit(a)
    BY <2>3 DEF BatchProgress, StartBatch, LockMarket, UpdateQuoted, Rollback
  <2> QED BY <2>1, <2>2, <2>3, WriterSets DEF Next, vars
<1>2. ASSUME NEW w \in Writers, Commit(w) PROVE stored'[m][side] = stored[m][side]
  <2>1. w = b
    BY <1>0, <1>2 DEF Commit, End, TypeOK
  <2>2. /\ side \in DOMAIN written[b] /\ side \in Columns
        /\ written[b][side] = stored[m][side]
    BY ColumnFacts DEF BatchFacts, BatchSeesRow, SeesRow
  <2>3. stored' = [stored EXCEPT ![m] =
            [c \in Columns |-> IF c \in DOMAIN written[b] THEN written[b][c] ELSE @[c]]]
    BY <1>2, <2>1 DEF Commit
  <2>4. stored'[m] =
            [c \in Columns |-> IF c \in DOMAIN written[b] THEN written[b][c]
                               ELSE stored[m][c]]
    BY <2>3 DEF TypeOK
  <2> QED BY <2>2, <2>4
<1> QED BY <1>1, <1>2

\* A batch undoes nobody's price of a side that it has no quote for: it locks
\* the market row before it reads what it writes back.
THEOREM UnquotedSidesKept == Spec => UnquotedSideKept
<1>1. Spec => [](PricesInv /\ BatchSeesRow)
  BY InitPrices, InitSeen, PricesStep, SeenStep, PTL DEF Spec
<1>2. PricesInv /\ BatchSeesRow /\ [Next]_vars =>
        [\A b \in Batches, m \in Markets, side \in Sides :
            /\ pc[b] = "commit" /\ pc'[b] = "idle"
            /\ job[b].market = m /\ side \notin DOMAIN job[b].quote
            => stored'[m][side] = stored[m][side]]_vars
  BY CommitKeepsUnquoted
<1> QED BY <1>1, <1>2, PTL DEF Spec, UnquotedSideKept

-----------------------------------------------------------------------------
(* Without spellings that happen to agree nothing is torn.                 *)

\* A synchronisation has written whatever it has behind it, and no market was
\* ever torn.
WholeRows ==
    /\ torn = {}
    /\ \A s \in Syncs : \A row \in Behind(pc[s]) : ColumnsOf(row) \subseteq DOMAIN written[s]

\* Who is about to commit has written everything.
LEMMA CommitIsWhole ==
    ASSUME PricesInv, WholeRows, NEW w \in Writers, pc[w] = "commit"
    PROVE  DOMAIN written[w] = Columns
<1>1. DOMAIN written[w] \subseteq Columns
  BY PartialFacts DEF PricesInv, TypeOK
<1>2. Behind(pc[w]) = Rows
  BY DEF Behind
<1>3. CASE w \in Batches
  BY <1>3 DEF PricesInv, BatchFacts
<1>4. CASE w \in Polls \/ w \in Syncs
  <2>1. \A row \in Rows : ColumnsOf(row) \subseteq DOMAIN written[w]
    BY <1>2, <1>4 DEF PricesInv, PollFacts, WholeRows
  <2>2. Columns \subseteq DOMAIN written[w]
    BY <2>1 DEF Columns
  <2> QED BY <1>1, <2>2
<1> QED BY <1>3, <1>4, WriterSets

LEMMA WholeEnd ==
    ASSUME PricesInv, WholeRows, NEW w \in Writers, Commit(w) \/ Rollback(w)
    PROVE  WholeRows'
<1>1. pc' = [pc EXCEPT ![w] = "idle"] /\ written' = [written EXCEPT ![w] = NoPrices]
  BY DEF Commit, Rollback, End
<1>2. torn' = {}
  <2>1. CASE Rollback(w)
    BY <2>1 DEF Rollback, WholeRows
  <2>2. CASE Commit(w)
    <3>1. DOMAIN written[w] = Columns
      BY <2>2, CommitIsWhole DEF Commit
    <3> QED BY <2>2, <3>1 DEF Commit, WholeRows
  <2> QED BY <2>1, <2>2
<1>3. ASSUME NEW s \in Syncs, NEW row \in Behind(pc'[s])
      PROVE  ColumnsOf(row) \subseteq DOMAIN written'[s]
  <2>1. s # w
    BY <1>1, <1>3, WriterSets DEF Behind, PricesInv, TypeOK
  <2>2. pc'[s] = pc[s] /\ written'[s] = written[s]
    BY <1>1, <2>1, WriterSets DEF PricesInv, TypeOK
  <2> QED BY <1>3, <2>2 DEF WholeRows
<1> QED BY <1>2, <1>3 DEF WholeRows

LEMMA WholeSave ==
    ASSUME PricesInv, WholeRows, "exact" \notin Faults,
           NEW s \in Syncs, NEW row \in Rows, SaveRow(s, row)
    PROVE  WholeRows'
<1>1. /\ pc[s] = row /\ pc' = [pc EXCEPT ![s] = Following(row)] /\ job' = job /\ torn' = torn
      /\ Update(s, row, Quoted(s, ColumnsOf(row)))
  BY DEF SaveRow, Goto
<1>2. s \in Writers /\ pc[s] # "idle" /\ DOMAIN job[s].quote = Sides
  BY <1>1, WriterSets DEF Rows, PricesInv, SyncFacts
<1>3. /\ \A x \in Writers \ {s} : written'[x] = written[x]
      /\ DOMAIN written'[s] = DOMAIN written[s] \union ColumnsOf(row)
  BY <1>1, <1>2, UpdateFacts
<1>4. Behind(pc'[s]) = Behind(pc[s]) \union {row}
  BY <1>1, <1>2, RowOrder DEF PricesInv, TypeOK
<1>5. ASSUME NEW x \in Syncs, NEW r \in Behind(pc'[x])
      PROVE  ColumnsOf(r) \subseteq DOMAIN written'[x]
  <2>1. CASE x = s
    BY <1>3, <1>4, <1>5, <2>1 DEF WholeRows
  <2>2. CASE x # s
    <3>1. pc'[x] = pc[x] /\ written'[x] = written[x]
      BY <1>1, <1>3, <2>2, WriterSets DEF PricesInv, TypeOK
    <3> QED BY <1>5, <3>1 DEF WholeRows
  <2> QED BY <2>1, <2>2
<1> QED BY <1>1, <1>5 DEF WholeRows

\* Steps of which no synchronisation notices anything, its beginning included.
LEMMA WholeElsewhere ==
    ASSUME WholeRows, torn' = torn,
           \A s \in Syncs : Behind(pc'[s]) = {} \/ (pc'[s] = pc[s] /\ written'[s] = written[s])
    PROVE  WholeRows'
BY DEF WholeRows

LEMMA WholeBegin ==
    ASSUME PricesInv, WholeRows, NEW w \in Writers, NEW m, NEW quote, Begin(w, m, quote)
    PROVE  WholeRows'
<1>1. torn' = torn /\ written' = written /\ pc' = [pc EXCEPT ![w] = "market"]
  BY DEF Begin, Goto
<1>2. \A s \in Syncs : pc'[s] = pc[s] \/ pc'[s] = "market"
  BY <1>1, WriterSets DEF PricesInv, TypeOK
<1>3. Behind("market") = {}
  BY DEF Behind, Rows
<1> QED BY <1>1, <1>2, <1>3, WholeElsewhere

LEMMA WholeStep ==
    ASSUME PricesInv, WholeRows, "exact" \notin Faults, [Next]_vars
    PROVE  WholeRows'
<1> USE DEF PricesInv, TypeOK
<1>1. ASSUME NEW p \in Polls, PollProgress(p) PROVE WholeRows'
  <2>1. CASE StartPoll(p)
    BY <2>1, WholeElsewhere DEF StartPoll, txVars
  <2>2. ASSUME NEW m \in Markets, PollMarket(p, m) PROVE WholeRows'
    BY <2>2, WholeBegin, WriterSets DEF PollMarket
  <2>3. ASSUME NEW m \in Markets, MissPrice(p, m) PROVE WholeRows'
    BY <2>3, WholeElsewhere DEF MissPrice, txVars
  <2>4. ASSUME NEW row \in Rows, UpdatePolled(p, row) PROVE WholeRows'
    BY <2>4, WholeElsewhere, WriterSets DEF UpdatePolled, Goto, Update
  <2> QED BY <1>1, <2>1, <2>2, <2>3, <2>4, WholeEnd, WriterSets DEF PollProgress
<1>2. ASSUME NEW s \in Syncs, SyncProgress(s) PROVE WholeRows'
  <2>1. ASSUME NEW row \in Rows, LoadRow(s, row) PROVE WholeRows'
    BY <2>1, WholeElsewhere DEF LoadRow
  <2>2. ASSUME NEW m \in Markets, StartSync(s, m) PROVE WholeRows'
    BY <2>2, WholeBegin, WriterSets DEF StartSync
  <2> QED BY <1>2, <2>1, <2>2, WholeEnd, WholeSave, WriterSets DEF SyncProgress
<1>3. ASSUME NEW b \in Batches, BatchProgress(b) PROVE WholeRows'
  <2>1. CASE LockMarket(b)
    BY <2>1, WholeElsewhere, WriterSets DEF LockMarket, Goto
  <2>2. CASE UpdateQuoted(b)
    BY <2>2, WholeElsewhere, WriterSets DEF UpdateQuoted, Goto
  <2>3. ASSUME NEW m \in Markets, NEW sides \in SUBSET Sides, StartBatch(b, m, sides)
        PROVE  WholeRows'
    BY <2>3, WholeBegin, WriterSets DEF StartBatch
  <2> QED BY <1>3, <2>1, <2>2, <2>3, WholeEnd, WriterSets DEF BatchProgress
<1>4. CASE UNCHANGED vars
  BY <1>4, WholeElsewhere DEF vars, txVars
<1> QED BY <1>1, <1>2, <1>3, <1>4 DEF Next

\* Where save takes every price for changed, as it does unless the spellings of
\* decimals agree, every token of every market always has its market's price:
\* only a save that leaves the market's column out and writes the token's can
\* separate them, no failed transaction and no order of the writers.
THEOREM TokensAlwaysAgree ==
    ASSUME "exact" \notin Faults
    PROVE  Spec => [](\A m \in Markets, side \in Sides :
                          stored[m][TokenOf(side)] = stored[m][side])
<1>1. Init => WholeRows
  BY WriterSets DEF Init, WholeRows, Behind
<1>2. PricesInv /\ WholeRows =>
        \A m \in Markets, side \in Sides : stored[m][TokenOf(side)] = stored[m][side]
  BY DEF PricesInv, TokensFollowMarket, WholeRows
<1>3. PricesInv /\ WholeRows /\ [Next]_vars => WholeRows'
  BY WholeStep
<1> QED BY <1>1, <1>2, <1>3, InitPrices, PricesStep, PTL DEF Spec

=============================================================================
