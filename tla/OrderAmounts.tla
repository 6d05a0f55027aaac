---------------------------- MODULE OrderAmounts ----------------------------
(***************************************************************************)
(* The money of one order: the quantity derived from an amount, the USDC   *)
(* required when it is created, the USDC charged when it is executed, the  *)
(* size and price placed on the exchange, and the fill that is recorded.   *)
(* Each step reads the market's price anew, from the row or from the       *)
(* exchange, so that each may find another one.                            *)
(*                                                                         *)
(* Money is counted in units of the token, prices and quantities in units  *)
(* of the columns that hold them.  The numbers of a request have as many    *)
(* decimals as the client likes, and are counted in units Fine times finer; *)
(* the columns round them.  The code calculates in floating point; here the *)
(* arithmetic is exact, but for the one product whose error the code does   *)
(* not round away.                                                          *)
(***************************************************************************)
EXTENDS Integers

CONSTANTS
    Dollar,       \* token units of a dollar, 10^6 in the code
    One,          \* price units of a dollar, 10^8 in the code
    Share,        \* quantity units of a share, 10^8 in the code
    Fine,         \* request units of one unit of a column
    Prices,       \* prices a row may hold, 0 included
    Limits,       \* prices a request may name, in request units
    Amounts,      \* dollar amounts a request may name, in those of a price
    Quantities,   \* quantities a request may name, in request units
    Wallets,      \* balances and allowances a wallet may have
    Fees,         \* fees per gas the network may name, in gwei
    Ticks,        \* tick sizes of the exchange, in price units
    SizeStep      \* what the client library rounds sizes down to: 10^6

NoPrice == -1
MinPrice == One \div 1000
MaxPrice == One - MinPrice

ASSUME AmountConstants ==
    /\ Dollar \in Nat \ {0} /\ Dollar % 2000 = 0
    /\ One \in Nat \ {0} /\ One % 1000 = 0
    /\ Share \in Nat \ {0} /\ Fine \in Nat \ {0}
    /\ Prices \subseteq 0 .. One /\ Limits \subseteq Nat
    /\ Amounts \subseteq Nat \ {0} /\ Quantities \subseteq Nat \ {0}
    /\ Wallets \subseteq Nat /\ Fees \subseteq Nat
    /\ Ticks \subseteq 1 .. One /\ SizeStep \in Nat \ {0}

VARIABLES
    realTrading,  \* POLYMARKET_ENABLE_REAL_TRADING
    stage,        \* how far the order is
    request,      \* the body of POST /orders
    order,        \* the quantity and the price of its row
    required,     \* the USDC the wallet had to have when it was created
    charge,       \* the USDC transferred, and the price it was computed from
    asked,        \* the size, price and tick handed to the client library
    placed,       \* the size and price that it puts on the exchange
    fill          \* filledQuantity and averageFillPrice

vars == <<realTrading, stage, request, order, required, charge, asked, placed, fill>>

Larger(a, b) == IF a > b THEN a ELSE b
Smaller(a, b) == IF a < b THEN a ELSE b

\* toFixed, and a column: the nearest whole number to n / d.
Round(n, d) == (2 * n + d) \div (2 * d)

\* What a column keeps of a number of the request.
Column(n) == Round(n, Fine)

\* Of a quantity at a price, both in request units, counted so finely that half
\* a unit of rounding is a whole number; and a dollar, counted so.
Worth(quantity, price) == 2 * quantity * price
Whole == 2 * (One * Fine) * (Share * Fine)

\* The same of a row.
WorthOfRow(quantity, price) == Worth(quantity * Fine, price * Fine)

\* What a client may ask for: a SELL names a quantity, a LIMIT a price that
\* the exchange knows.  What a MARKET order names for a price nobody checks.
Requests ==
    {r \in [side : {"BUY", "SELL"}, type : {"MARKET", "LIMIT"},
            by : {"amount", "quantity"}, number : Amounts \union Quantities,
            price : Limits \union {NoPrice}, wallet : BOOLEAN] :
        /\ r.number \in IF r.by = "amount" THEN Amounts ELSE Quantities
        /\ r.side = "SELL" => r.by = "quantity"
        /\ r.type = "LIMIT" => r.price \in (MinPrice * Fine) .. (MaxPrice * Fine)}

TypeOK ==
    /\ realTrading \in BOOLEAN
    /\ stage \in {"new", "refused", "created", "charged", "filled", "failed"}
    /\ request \in Requests
    /\ order \in [quantity : Nat, price : Nat \union {NoPrice}]
    /\ required \in Nat
    /\ charge \in [usdc : Nat, price : Nat]
    /\ asked \in [size : Nat, price : 0 .. One, tick : 0 .. One]
    /\ placed \in [size : Nat, price : Nat]
    /\ fill \in [quantity : Nat, price : Nat]

Init ==
    /\ realTrading \in BOOLEAN
    /\ stage = "new"
    /\ request \in Requests
    /\ order = [quantity |-> 0, price |-> NoPrice]
    /\ required = 0
    /\ charge = [usdc |-> 0, price |-> 0]
    /\ asked = [size |-> 0, price |-> 0, tick |-> 0]
    /\ placed = [size |-> 0, price |-> 0]
    /\ fill = [quantity |-> 0, price |-> 0]

-----------------------------------------------------------------------------
(* Creation.                                                               *)

\* Variant: rounded up to whole shares.
BoughtForWhole(amount, price) == Share * (amount \div price + 1)

\* amount / price, toFixed to the unit of the column.
BoughtFor(amount, price) == Round(amount * Share, price)

\* processOrderDto, in request units: an amount becomes a quantity, at the limit
\* or at the row's price; a MARKET BUY without a price gets the row's.
ProcessOrderDto(r, rowPrice) ==
    LET unpriced == r.by = "amount" \/ r.price = NoPrice
        price == IF r.side = "BUY" /\ r.type = "MARKET" /\ unpriced
                 THEN rowPrice * Fine ELSE r.price
    IN  [quantity |-> IF r.by = "quantity" THEN r.number
                      ELSE BoughtFor(r.number, price) * Fine,
         price |-> price]

\* The row of a processed request: decimal columns round.
Row(dto) == [quantity |-> Column(dto.quantity),
             price |-> IF dto.price = NoPrice THEN NoPrice ELSE Column(dto.price)]

\* At least a dollar, one percent on top, and 0.0005 for the gas, toFixed.
WithFees(worth) ==
    Round(101 * (Dollar \div 100) * Larger(worth, Whole), Whole) + Dollar \div 2000

\* calculateUsdcAmount of the service, of the processed request.
RequiredUsdc(r, dto, rowPrice) ==
    WithFees(Worth(dto.quantity, IF r.type = "MARKET" THEN rowPrice * Fine ELSE dto.price))

\* validateUsdcRequirements, and the checks before the transfer: balance and
\* allowance are asked for one after the other.
Covered(usdc) == \E balance, allowance \in Wallets : balance >= usdc /\ allowance >= usdc

\* createOrder.  A price of 0 makes the quantity infinite, which the checks
\* let pass and the column refuses.  With a wallet, a BUY must be covered by
\* balance and allowance; the signature may be wrong as well.
CreateOrder(rowPrice) ==
    /\ stage = "new"
    /\ IF request.by = "amount" /\ request.type = "MARKET" /\ rowPrice = 0
       THEN stage' = "refused" /\ UNCHANGED <<order, required>>
       ELSE LET dto == ProcessOrderDto(request, rowPrice)
                usdc == IF request.wallet /\ request.side = "BUY"
                        THEN RequiredUsdc(request, dto, rowPrice) ELSE 0
            IN  \/ /\ Covered(usdc)
                   /\ stage' = "created" /\ order' = Row(dto) /\ required' = usdc
                \/ stage' = "refused" /\ UNCHANGED <<order, required>>
    /\ UNCHANGED <<realTrading, request, charge, asked, placed, fill>>

-----------------------------------------------------------------------------
(* Execution.                                                              *)

\* Variant: the price of the row is taken for LIMIT orders too.
ChargePriceOfRow(rowPrice) == rowPrice

\* The price that calculateUsdcAmount of the processor uses.
ChargePrice(rowPrice) == IF request.type = "MARKET" THEN rowPrice ELSE order.price

\* calculateUsdcAmount of the processor, of the row.
ChargedUsdc(rowPrice) == WithFees(WorthOfRow(order.quantity, ChargePrice(rowPrice)))

\* getGasPrices: minima of 25 gwei for the tip and 30 for the base fee; 0 when
\* the network names none.
GasPrices(base, tip) ==
    LET priority == Larger(tip, 25)
    IN  [maxFeePerGas |-> IF base > 30 THEN base ELSE priority + 30,
         maxPriorityFeePerGas |-> priority]

\* A transaction whose tip exceeds its fee is not accepted.
Acceptable(gas) == gas.maxPriorityFeePerGas <= gas.maxFeePerGas

\* What transferFromUser moves: the sum, less the unit that its truncation may
\* lose, in a transaction that the network must accept.
Transferred(usdc) ==
    IF \E base, tip \in Fees : tip <= base /\ Acceptable(GasPrices(base, tip))
    THEN {usdc, usdc - 1} ELSE {}

\* The wallet's part of executeRealOrder: balance and allowance are checked
\* once more and the sum is transferred.  Anything may fail before the
\* transfer, and after it the query for the funder's balance.
ChargeUser(rowPrice) ==
    /\ stage = "created" /\ realTrading
    /\ \/ /\ request.wallet /\ request.side = "BUY"
          /\ LET usdc == ChargedUsdc(rowPrice)
             IN  /\ Covered(usdc)
                 /\ \E sent \in Transferred(usdc) :
                       charge' = [usdc |-> sent, price |-> ChargePrice(rowPrice)]
          /\ stage' \in {"charged", "failed"}
       \/ /\ ~(request.wallet /\ request.side = "BUY")
          /\ stage' = "charged" /\ UNCHANGED charge
       \/ stage' = "failed" /\ UNCHANGED charge
    /\ UNCHANGED <<realTrading, request, order, required, asked, placed, fill>>

\* The price of the order: the limit, or the exchange's price of the token, a
\* half when it names none.
AskedPrice(tokenPrice) ==
    LET wanted == IF request.type = "LIMIT" THEN order.price
                  ELSE IF tokenPrice = NoPrice THEN One \div 2 ELSE tokenPrice
    IN  Larger(MinPrice, Smaller(wanted, MaxPrice))

BelowMinimum(quantity, price) == quantity * price < One * Share

\* Variant: one share more than the least that is worth a dollar.
AskedSizeGenerous(quantity, price) ==
    IF BelowMinimum(quantity, price) THEN Share * (One \div price + 2) ELSE quantity

\* Variant: the size that is worth a dollar is rounded down.
AskedSizeFloor(quantity, price) ==
    IF BelowMinimum(quantity, price) THEN Share * (One \div price) ELSE quantity

\* The size: as ordered, or the least number of shares worth a dollar.
AskedSize(quantity, price) ==
    IF BelowMinimum(quantity, price)
    THEN Share * ((One + price - 1) \div price) ELSE quantity

\* What the client library makes of price and size, in createAndPostOrder: the
\* nearest tick, the size rounded down; it refuses a price off the ticks' range.
ClientPrice(price, tick) == tick * Round(price, tick)
ClientSize(size) == size - (size % SizeStep)
ClientAccepts(price, tick) == tick <= price /\ price <= One - tick

\* Variant: the price of the row is recorded even if it has none.
FilledRaw == [quantity |-> order.quantity, price |-> order.price]

\* What is recorded when the order succeeds: the quantity of the row, and its
\* price for want of another.
Filled == [quantity |-> order.quantity,
           price |-> IF order.price = NoPrice THEN 0 ELSE order.price]

\* placeOrder: refused, accepted, or accepted with the answer lost.  A SELL
\* and an order without a wallet get here uncharged.
PlaceOrder(tokenPrice, tick) ==
    /\ stage = "charged"
    /\ LET price == AskedPrice(tokenPrice)
           size == AskedSize(order.quantity, price)
       IN  \/ /\ ClientAccepts(price, tick)
              /\ asked' = [size |-> size, price |-> price, tick |-> tick]
              /\ placed' = [size |-> ClientSize(size), price |-> ClientPrice(price, tick)]
              /\ \/ stage' = "filled" /\ fill' = Filled
                 \/ stage' = "failed" /\ UNCHANGED fill
           \/ stage' = "failed" /\ UNCHANGED <<asked, placed, fill>>
    /\ UNCHANGED <<realTrading, request, order, required, charge>>

WithinLimit(rowPrice) ==
    IF request.side = "BUY" THEN rowPrice <= order.price ELSE rowPrice >= order.price

\* simulateExecution: a LIMIT order is filled at its limit when the row's price
\* allows it, a MARKET order at the row's price; some are failed at random.
\* Nothing is charged.
SimulateExecution(rowPrice) ==
    /\ stage = "created" /\ ~realTrading
    /\ \/ stage' = "failed" /\ UNCHANGED fill
       \/ /\ request.type = "LIMIT" => WithinLimit(rowPrice)
          /\ stage' = "filled"
          /\ fill' = [quantity |-> order.quantity,
                      price |-> IF request.type = "MARKET" THEN rowPrice ELSE order.price]
    /\ UNCHANGED <<realTrading, request, order, required, charge, asked, placed>>

Next ==
    \/ \E p \in Prices : CreateOrder(p) \/ ChargeUser(p) \/ SimulateExecution(p)
    \/ \E p \in Prices \union {NoPrice}, tick \in Ticks : PlaceOrder(p, tick)

Spec == Init /\ [][Next]_vars

-----------------------------------------------------------------------------
Charged == charge.usdc > 0

\* The row says at which price a MARKET order was checked, and it did not rise.
PriceHeld ==
    \/ request.type = "LIMIT"
    \/ /\ request.by = "amount" \/ request.price = NoPrice
       /\ charge.price <= order.price

\* What the columns may change of the worth of the request: half a unit of the
\* price for each unit of quantity, and half a unit of quantity at the price.
Rounding == (order.quantity + order.price + 1) * Fine * Fine

\* The same in token units, with the one percent; nothing if the columns hold
\* the request as it is.
Margin ==
    IF /\ request.by = "quantity" => request.number % Fine = 0
       /\ request.type = "LIMIT" => request.price % Fine = 0
    THEN 0 ELSE (101 * (Dollar \div 100) * Rounding) \div Whole + 1

\* The two calculateUsdcAmount agree, although one reads the request and the
\* other the row: a LIMIT order is charged what its wallet was checked for when
\* it was created, up to what the columns round and the unit that the truncation
\* of transferFromUser loses; a MARKET order more only after its price rose.
ChargedAsRequired ==
    Charged =>
        /\ request.type = "LIMIT" => charge.usdc >= required - Margin - 1
        /\ PriceHeld => charge.usdc <= required + Margin

\* A client that names an amount is charged that amount (or the minimum), one
\* percent and the gas, up to the rounding of the quantity and of the limit,
\* unless the price rose before the execution (processOrderDto,
\* calculateUsdcAmount).
BudgetKept ==
    Charged /\ request.by = "amount" /\ PriceHeld =>
        charge.usdc <= WithFees(Worth(Share * Fine, request.number) + Rounding)

\* What is worth more than a sum of the token.
Exceeds(worth, usdc) == worth * Dollar > usdc * Whole

\* Where the exchange asks no more than the charge was computed from, the funder
\* pays for an order more than the user was charged only if the order was raised
\* to a dollar's worth or the client library rounded its price up; and then
\* less than the price of a share and half a tick for each share placed.
FunderLossBounded ==
    Charged /\ asked.price <= charge.price =>
        LET cost == WorthOfRow(placed.size, placed.price)
            share == WorthOfRow(Share, asked.price)
            halfTicks == placed.size * asked.tick * Fine * Fine
        IN  /\ ~ Exceeds(cost - share - halfTicks, charge.usdc)
            /\ Exceeds(cost, charge.usdc) =>
                  \/ BelowMinimum(order.quantity, asked.price)
                  \/ placed.price > asked.price

\* What is recorded of a filled order is what is on the exchange, short of the
\* client library's rounding: less than one step of size is missing, a limit is
\* at most half a tick off, and with that step it is worth the exchange's
\* minimum (placeOrder raises the size before the library rounds it).
FillIsPlaced ==
    stage = "filled" /\ realTrading =>
        /\ fill.quantity < placed.size + SizeStep
        /\ WorthOfRow(placed.size + SizeStep, asked.price) > Whole
        /\ request.type = "LIMIT" =>
              2 * fill.price \in (2 * placed.price - asked.tick) .. (2 * placed.price + asked.tick)

=============================================================================
