------------------------- MODULE OrderAmountsProofs -------------------------
(***************************************************************************)
(* Theorems about OrderAmounts, for every unit of money, price, quantity   *)
(* and request, and every set of prices, amounts, quantities, balances,    *)
(* fees and ticks: those of the code among them.                           *)
(***************************************************************************)
EXTENDS OrderAmounts, TLAPS

\* The factor of WithFees, in hundredths of a token unit, and its gas.
Percent == 101 * (Dollar \div 100)
Gas == Dollar \div 2000

-----------------------------------------------------------------------------
(* The arithmetic.                                                         *)

LEMMA Product == ASSUME NEW a \in Nat, NEW b \in Nat PROVE a * b \in Nat
OBVIOUS

LEMMA ProductPositive ==
    ASSUME NEW a \in Nat \ {0}, NEW b \in Nat \ {0} PROVE a * b \in Nat \ {0}
OBVIOUS

LEMMA ProductGrows ==
    ASSUME NEW a \in Nat, NEW b \in Nat, NEW c \in Nat, a <= b
    PROVE  a * c <= b * c
OBVIOUS

LEMMA DivisionIsFloor ==
    ASSUME NEW n \in Nat, NEW d \in Nat \ {0}
    PROVE  n \div d \in Nat /\ d * (n \div d) <= n /\ n < d * (n \div d) + d
OBVIOUS

LEMMA Factors ==
    /\ Percent \in Nat \ {0} /\ Gas \in Nat \ {0}
    /\ Percent >= Dollar + 20 /\ Dollar \in Nat
    /\ Whole \in Nat \ {0} /\ Whole = 2 * (One * Share) * (Fine * Fine)
<1>1. /\ Dollar \in Nat \ {0} /\ Dollar % 2000 = 0
      /\ One \in Nat \ {0} /\ Share \in Nat \ {0} /\ Fine \in Nat \ {0}
  BY AmountConstants
<1>2. Dollar = 2000 * (Dollar \div 2000) /\ Dollar \div 2000 \in Nat
  BY <1>1
<1>3. Dollar = 100 * (Dollar \div 100) /\ Dollar \div 100 \in Nat
  BY <1>1
<1>4. Percent \in Nat \ {0} /\ Gas \in Nat \ {0} /\ Percent >= Dollar + 20
  BY <1>1, <1>2, <1>3 DEF Percent, Gas
<1>5. One * Fine \in Nat \ {0} /\ Share * Fine \in Nat \ {0}
  BY <1>1, ProductPositive
<1>6. (One * Fine) * (Share * Fine) \in Nat \ {0}
  BY <1>5, ProductPositive
<1>7. Whole \in Nat \ {0}
  BY <1>5, <1>6 DEF Whole
<1>8. Whole = 2 * (One * Share) * (Fine * Fine)
  BY <1>1 DEF Whole
<1> QED BY <1>1, <1>4, <1>7, <1>8

\* Round finds the nearest whole number.
LEMMA RoundIsNearest ==
    ASSUME NEW n \in Nat, NEW d \in Nat \ {0}
    PROVE  /\ Round(n, d) \in Nat
           /\ 2 * (d * Round(n, d)) <= 2 * n + d
           /\ 2 * n < 2 * (d * Round(n, d)) + d
<1> DEFINE m == 2 * n + d
           e == 2 * d
<1>1. m \in Nat /\ e \in Nat \ {0}
  OBVIOUS
<1>2. m \div e \in Nat /\ e * (m \div e) <= m /\ m < e * (m \div e) + e
  <2> HIDE DEF m, e
  <2> QED BY <1>1, DivisionIsFloor
<1>3. Round(n, d) = m \div e
  BY DEF Round
<1> DEFINE r == m \div e
<1>4. r \in Nat /\ e * r = 2 * (d * r)
  <2>1. r \in Nat
    BY <1>2
  <2> HIDE DEF r
  <2> QED BY <2>1
<1> HIDE DEF r
<1> QED BY <1>2, <1>3, <1>4 DEF r

LEMMA RoundIsNear ==
    ASSUME NEW m \in Nat, NEW n \in Nat, NEW k \in Nat, NEW d \in Nat \ {0}, n <= m + k
    PROVE  Round(n, d) <= Round(m, d) + (k \div d) + 1
<1> DEFINE r == Round(n, d)
           s == Round(m, d)
           e == k \div d
<1>1. /\ r \in Nat /\ 2 * (d * r) <= 2 * n + d
      /\ s \in Nat /\ 2 * m < 2 * (d * s) + d
  BY RoundIsNearest
<1>2. e \in Nat /\ k < d * e + d
  BY DivisionIsFloor
<1> HIDE DEF r, s, e
<1> SUFFICES ASSUME r >= s + e + 2 PROVE FALSE
  BY <1>1, <1>2 DEF r, s, e
<1>3. (s + e + 2) * d <= r * d
  BY <1>1, <1>2, ProductGrows
<1>4. d * s \in Nat /\ d * e \in Nat /\ d * r \in Nat
  BY <1>1, <1>2, Product
<1>5. d * s + d * e + 2 * d <= d * r
  BY <1>1, <1>2, <1>3
<1> QED BY <1>1, <1>2, <1>4, <1>5

LEMMA RoundGrows ==
    ASSUME NEW m \in Nat, NEW n \in Nat, NEW d \in Nat \ {0}, n <= m
    PROVE  Round(n, d) <= Round(m, d)
<1> DEFINE r == Round(n, d)
           s == Round(m, d)
<1>1. /\ r \in Nat /\ 2 * (d * r) <= 2 * n + d
      /\ s \in Nat /\ 2 * m < 2 * (d * s) + d
  BY RoundIsNearest
<1> HIDE DEF r, s
<1> SUFFICES ASSUME r >= s + 1 PROVE FALSE
  BY <1>1 DEF r, s
<1>2. (s + 1) * d <= r * d
  BY <1>1, ProductGrows
<1>3. d * s \in Nat /\ d * r \in Nat
  BY <1>1, Product
<1>4. d * s + d <= d * r
  BY <1>1, <1>2
<1> QED BY <1>1, <1>3, <1>4

\* What a column holds it returns.
LEMMA RoundOfMultiple ==
    ASSUME NEW k \in Nat, NEW d \in Nat \ {0}
    PROVE  Round(d * k, d) = k
<1> DEFINE r == Round(d * k, d)
<1>1. d * k \in Nat
  BY Product
<1>2. r \in Nat /\ 2 * (d * r) <= 2 * (d * k) + d /\ 2 * (d * k) < 2 * (d * r) + d
  BY <1>1, RoundIsNearest
<1> HIDE DEF r
<1>3. d * r \in Nat
  BY <1>2, Product
<1>4. ~(r >= k + 1)
  <2> SUFFICES ASSUME r >= k + 1 PROVE FALSE
    OBVIOUS
  <2>1. (k + 1) * d <= r * d
    BY <1>2, ProductGrows
  <2>2. d * k + d <= d * r
    BY <1>2, <2>1
  <2> QED BY <1>1, <1>2, <1>3, <2>2
<1>5. ~(k >= r + 1)
  <2> SUFFICES ASSUME k >= r + 1 PROVE FALSE
    OBVIOUS
  <2>1. (r + 1) * d <= k * d
    BY <1>2, ProductGrows
  <2>2. d * r + d <= d * k
    BY <1>2, <2>1
  <2> QED BY <1>1, <1>2, <1>3, <2>2
<1>6. r = k
  BY <1>2, <1>4, <1>5
<1> QED BY <1>6 DEF r

\* A column is at most half a unit off, and not at all without more decimals.
LEMMA ColumnIsNear ==
    ASSUME NEW n \in Nat
    PROVE  /\ Column(n) \in Nat /\ Column(n) * Fine \in Nat
           /\ 2 * (Column(n) * Fine) <= 2 * n + Fine
           /\ 2 * n <= 2 * (Column(n) * Fine) + Fine
           /\ n % Fine = 0 => Column(n) * Fine = n
<1>1. Fine \in Nat \ {0}
  BY AmountConstants
<1> DEFINE c == Column(n)
<1>2. c \in Nat /\ 2 * (Fine * c) <= 2 * n + Fine /\ 2 * n < 2 * (Fine * c) + Fine
  BY <1>1, RoundIsNearest DEF Column
<1>3. ASSUME n % Fine = 0 PROVE Fine * c = n
  <2>1. n = Fine * (n \div Fine) /\ n \div Fine \in Nat
    BY <1>1, <1>3
  <2>2. Column(Fine * (n \div Fine)) = n \div Fine
    BY <1>1, <2>1, RoundOfMultiple DEF Column
  <2> QED BY <2>1, <2>2
<1> HIDE DEF c
<1>4. c * Fine = Fine * c /\ Fine * c \in Nat
  BY <1>1, <1>2, Product
<1> QED BY <1>1, <1>2, <1>3, <1>4 DEF c

LEMMA FeesAreNatural ==
    ASSUME NEW w \in Nat
    PROVE  /\ WithFees(w) \in Nat
           /\ Larger(w, Whole) \in Nat /\ Percent * Larger(w, Whole) \in Nat
           /\ WithFees(w) = Round(Percent * Larger(w, Whole), Whole) + Gas
<1> DEFINE a == Larger(w, Whole)
<1>1. a \in Nat
  BY Factors DEF Larger
<1>2. WithFees(w) = Round(Percent * a, Whole) + Gas
  BY DEF WithFees, Percent, Gas
<1> HIDE DEF a
<1>3. Percent * a \in Nat
  BY <1>1, Factors, Product
<1>4. Round(Percent * a, Whole) \in Nat
  BY <1>3, Factors, RoundIsNearest
<1>5. WithFees(w) \in Nat
  BY <1>2, <1>4, Factors
<1> QED BY <1>1, <1>2, <1>3, <1>5 DEF a

LEMMA FeesGrow ==
    ASSUME NEW v \in Nat, NEW w \in Nat, v <= w
    PROVE  WithFees(v) <= WithFees(w)
<1> DEFINE a == Larger(v, Whole)
           b == Larger(w, Whole)
<1>1. a \in Nat /\ b \in Nat /\ a <= b
  BY Factors DEF Larger
<1> HIDE DEF a, b
<1>2. Percent * a <= Percent * b /\ Percent * a \in Nat /\ Percent * b \in Nat
  BY <1>1, Factors, ProductGrows, Product
<1>3. Round(Percent * a, Whole) <= Round(Percent * b, Whole)
  BY <1>2, Factors, RoundGrows
<1>4. WithFees(v) = Round(Percent * a, Whole) + Gas /\ WithFees(w) = Round(Percent * b, Whole) + Gas
  BY FeesAreNatural DEF a, b
<1>5. Round(Percent * a, Whole) \in Nat /\ Round(Percent * b, Whole) \in Nat
  BY <1>2, Factors, RoundIsNearest
<1> QED BY <1>3, <1>4, <1>5, Factors

LEMMA FeesAreNear ==
    ASSUME NEW v \in Nat, NEW w \in Nat, NEW k \in Nat, v <= w + k
    PROVE  WithFees(v) <= WithFees(w) + ((Percent * k) \div Whole) + 1
<1> DEFINE a == Larger(v, Whole)
           b == Larger(w, Whole)
<1>1. a \in Nat /\ b \in Nat /\ a <= b + k
  BY Factors DEF Larger
<1> HIDE DEF a, b
<1>2. Percent * a \in Nat /\ Percent * b \in Nat /\ Percent * k \in Nat
  BY <1>1, Factors, Product
<1>3. a * Percent <= (b + k) * Percent
  BY <1>1, Factors, ProductGrows
<1>4. Percent * a <= Percent * b + Percent * k
  BY <1>1, <1>3, Factors
<1>5. Round(Percent * a, Whole) <= Round(Percent * b, Whole) + ((Percent * k) \div Whole) + 1
  BY <1>2, <1>4, Factors, RoundIsNear
<1>6. /\ Round(Percent * a, Whole) \in Nat /\ Round(Percent * b, Whole) \in Nat
      /\ (Percent * k) \div Whole \in Nat
  BY <1>2, Factors, RoundIsNearest, DivisionIsFloor
<1>7. WithFees(v) = Round(Percent * a, Whole) + Gas /\ WithFees(w) = Round(Percent * b, Whole) + Gas
  BY FeesAreNatural DEF a, b
<1> QED BY <1>5, <1>6, <1>7, Factors

\* The one percent and the gas more than make up for all rounding.
LEMMA FeesCover ==
    ASSUME NEW w \in Nat
    PROVE  /\ WithFees(w) - 1 \in Nat
           /\ w * Dollar <= (WithFees(w) - 1) * Whole
           /\ Whole * Dollar <= (WithFees(w) - 1) * Whole
<1> DEFINE a == Larger(w, Whole)
           r == Round(Percent * a, Whole)
<1>1. a \in Nat /\ w <= a /\ Whole <= a
  BY Factors DEF Larger
<1>2. r \in Nat /\ WithFees(w) = r + Gas /\ 2 * (Percent * a) < 2 * (Whole * r) + Whole
      /\ Percent * a \in Nat
  BY FeesAreNatural, Factors, RoundIsNearest
<1> HIDE DEF a, r
<1>3. WithFees(w) - 1 \in Nat /\ r <= WithFees(w) - 1
  BY <1>2, Factors
<1>4. (Dollar + 20) * a <= Percent * a
  BY <1>1, Factors, ProductGrows
<1>5. Dollar * a + 20 * a <= Percent * a /\ Dollar * a \in Nat
  BY <1>1, <1>4, Factors, Product
<1>6. r * Whole <= (WithFees(w) - 1) * Whole /\ r * Whole = Whole * r /\ Whole * r \in Nat
  BY <1>2, <1>3, Factors, ProductGrows, Product
<1>7. Dollar * a <= Whole * r
  BY <1>1, <1>2, <1>5, <1>6, Factors
<1>8. w * Dollar <= a * Dollar /\ Whole * Dollar <= a * Dollar /\ a * Dollar = Dollar * a
  BY <1>1, Factors, ProductGrows
<1>9. /\ w * Dollar \in Nat /\ Whole * Dollar \in Nat
      /\ (WithFees(w) - 1) * Whole \in Nat
  BY <1>3, Factors, Product
<1> QED BY <1>3, <1>5, <1>6, <1>7, <1>8, <1>9

LEMMA WorthIsNatural ==
    ASSUME NEW q \in Nat, NEW p \in Nat
    PROVE  /\ Worth(q, p) \in Nat /\ WorthOfRow(q, p) \in Nat
           /\ Worth(q, p) = 2 * (q * p)
           /\ WorthOfRow(q, p) = 2 * (q * p) * (Fine * Fine)
           /\ q * p \in Nat /\ Fine * Fine \in Nat \ {0}
<1>1. Fine \in Nat \ {0}
  BY AmountConstants
<1>2. q * p \in Nat /\ Fine * Fine \in Nat \ {0}
  BY <1>1, Product, ProductPositive
<1>3. Worth(q, p) = 2 * (q * p)
  BY DEF Worth
<1>4. WorthOfRow(q, p) = 2 * (q * p) * (Fine * Fine)
  BY <1>1 DEF WorthOfRow, Worth
<1>5. (q * p) * (Fine * Fine) \in Nat
  BY <1>2, Product
<1>6. 2 * (q * p) * (Fine * Fine) = 2 * ((q * p) * (Fine * Fine))
  BY <1>2
<1> QED BY <1>2, <1>3, <1>4, <1>5, <1>6

LEMMA WorthGrows ==
    ASSUME NEW q \in Nat, NEW p \in Nat, NEW r \in Nat, p <= r
    PROVE  WorthOfRow(q, p) <= WorthOfRow(q, r)
<1> DEFINE a == q * p
           b == q * r
           f == Fine * Fine
<1>1. a <= b /\ a \in Nat /\ b \in Nat
  BY ProductGrows, Product
<1>2. /\ WorthOfRow(q, p) = 2 * a * f /\ WorthOfRow(q, r) = 2 * b * f /\ f \in Nat
  BY WorthIsNatural
<1> HIDE DEF a, b, f
<1>3. a * f <= b * f /\ a * f \in Nat /\ b * f \in Nat
  BY <1>1, <1>2, ProductGrows, Product
<1> QED BY <1>1, <1>2, <1>3

\* What rounding to columns changes of the worth of x at y, in both directions.
LEMMA WorthOfRowIsNear ==
    ASSUME NEW q \in Nat, NEW p \in Nat, NEW x \in Nat, NEW y \in Nat,
           2 * (q * Fine) <= 2 * x + Fine, 2 * x <= 2 * (q * Fine) + Fine,
           2 * (p * Fine) <= 2 * y + Fine, 2 * y <= 2 * (p * Fine) + Fine
    PROVE  /\ WorthOfRow(q, p) <= Worth(x, y) + (q + p + 1) * Fine * Fine
           /\ Worth(x, y) <= WorthOfRow(q, p) + (q + p + 1) * Fine * Fine
<1> DEFINE a == q * Fine
           b == p * Fine
           f == Fine * Fine
<1>1. Fine \in Nat \ {0} /\ a \in Nat /\ b \in Nat /\ f \in Nat
  BY AmountConstants, Product
<1>2. /\ WorthOfRow(q, p) = 2 * (a * b)
      /\ (q + p + 1) * Fine * Fine = a * Fine + b * Fine + f
  BY <1>1 DEF WorthOfRow, Worth
<1>3. Worth(x, y) = 2 * (x * y)
  BY DEF Worth
<1> HIDE DEF a, b, f
<1>4. 2 * a <= 2 * x + Fine /\ 2 * x <= 2 * a + Fine
      /\ 2 * b <= 2 * y + Fine /\ 2 * y <= 2 * b + Fine
  BY DEF a, b
<1>5. /\ (2 * b) * a <= (2 * y + Fine) * a
      /\ (2 * a) * y <= (2 * x + Fine) * y
      /\ (2 * y) * Fine <= (2 * b + Fine) * Fine
  BY <1>1, <1>4, ProductGrows
<1>6. /\ (2 * y) * x <= (2 * b + Fine) * x
      /\ (2 * x) * b <= (2 * a + Fine) * b
      /\ (2 * x) * Fine <= (2 * a + Fine) * Fine
  BY <1>1, <1>4, ProductGrows
<1>7. /\ a * b \in Nat /\ a * y \in Nat /\ x * y \in Nat /\ x * b \in Nat
      /\ a * Fine \in Nat /\ b * Fine \in Nat /\ x * Fine \in Nat /\ y * Fine \in Nat
  BY <1>1, Product
<1>8. /\ 2 * (a * b) <= 2 * (a * y) + a * Fine
      /\ 2 * (a * y) <= 2 * (x * y) + y * Fine
      /\ 2 * (y * Fine) <= 2 * (b * Fine) + f
  BY <1>1, <1>5 DEF f
<1>9. /\ 2 * (x * y) <= 2 * (x * b) + x * Fine
      /\ 2 * (x * b) <= 2 * (a * b) + b * Fine
      /\ 2 * (x * Fine) <= 2 * (a * Fine) + f
  BY <1>1, <1>6 DEF f
<1>10. 2 * (a * b) <= 2 * (x * y) + (a * Fine + b * Fine + f)
  BY <1>1, <1>7, <1>8
<1>11. 2 * (x * y) <= 2 * (a * b) + (a * Fine + b * Fine + f)
  BY <1>1, <1>7, <1>9
<1> QED BY <1>2, <1>3, <1>10, <1>11

LEMMA PriceRange ==
    /\ MinPrice \in Nat \ {0} /\ MaxPrice \in Nat /\ MinPrice <= MaxPrice /\ MaxPrice <= One
    /\ MinPrice .. MaxPrice \subseteq 1 .. One /\ One \div 2 \in Nat
    /\ NoPrice \notin Nat /\ Prices \subseteq Nat /\ One \in Nat /\ Fine \in Nat \ {0}
<1>1. One \in Nat \ {0} /\ One % 1000 = 0 /\ Prices \subseteq 0 .. One /\ Fine \in Nat \ {0}
  BY AmountConstants
<1>2. One = 1000 * (One \div 1000) /\ One \div 1000 \in Nat /\ One \div 2 \in Nat
  BY <1>1
<1>3. /\ MinPrice \in Nat \ {0} /\ MaxPrice \in Nat /\ MinPrice <= MaxPrice /\ MaxPrice <= One
  BY <1>1, <1>2 DEF MinPrice, MaxPrice
<1> QED BY <1>1, <1>2, <1>3 DEF NoPrice

\* The column keeps a limit that the exchange knows one that it knows.
LEMMA LimitOfRow ==
    ASSUME NEW n \in (MinPrice * Fine) .. (MaxPrice * Fine)
    PROVE  n \in Nat \ {0} /\ Column(n) \in MinPrice .. MaxPrice
<1>1. Fine * MinPrice \in Nat \ {0} /\ Fine * MaxPrice \in Nat
  BY PriceRange, Product, ProductPositive
<1>2. n \in Nat \ {0} /\ Fine * MinPrice <= n /\ n <= Fine * MaxPrice
  BY <1>1, PriceRange
<1>3. Column(Fine * MinPrice) = MinPrice /\ Column(Fine * MaxPrice) = MaxPrice
  BY PriceRange, RoundOfMultiple DEF Column
<1>4. Column(Fine * MinPrice) <= Column(n) /\ Column(n) <= Column(Fine * MaxPrice)
  BY <1>1, <1>2, PriceRange, RoundGrows DEF Column
<1> QED BY <1>2, <1>3, <1>4, ColumnIsNear

\* The column of what a row holds.
LEMMA ColumnOfRow == ASSUME NEW c \in Nat PROVE c * Fine \in Nat /\ Column(c * Fine) = c
<1>1. c * Fine = Fine * c /\ Fine * c \in Nat
  BY PriceRange, Product
<1> QED BY <1>1, PriceRange, RoundOfMultiple DEF Column

\* A number of a request and what a column may hold of it.
Near(n, c) == 2 * (c * Fine) <= 2 * n + Fine /\ 2 * n <= 2 * (c * Fine) + Fine

\* The quantity bought for n dollars, at a price that a column keeps, is worth
\* the n dollars up to the rounding.
LEMMA BoughtIsWorth ==
    ASSUME NEW n \in Nat, NEW y \in Nat \ {0}, NEW p \in Nat, Near(y, p)
    PROVE  LET q == BoughtFor(n, y)
           IN  /\ q \in Nat
               /\ WorthOfRow(q, p) <= Worth(Share * Fine, n) + (q + p + 1) * Fine * Fine
<1> DEFINE q == BoughtFor(n, y)
           f == Fine * Fine
           a == q * y
           b == n * Share
<1>1. Fine \in Nat \ {0} /\ Share \in Nat /\ b \in Nat /\ f \in Nat
  BY AmountConstants, Product
<1>2. q \in Nat /\ 2 * (y * q) <= 2 * b + y
  BY <1>1, RoundIsNearest DEF BoughtFor
<1> HIDE DEF q
<1>3. a \in Nat /\ y * q = a /\ p * Fine \in Nat /\ q * Fine \in Nat /\ y * Fine \in Nat
  BY <1>1, <1>2, Product
<1>4. /\ WorthOfRow(q, p) = (2 * (p * Fine)) * (q * Fine)
      /\ Worth(Share * Fine, n) = (2 * b) * Fine
      /\ (q + p + 1) * Fine * Fine = q * f + (p * Fine) * Fine + f
  BY <1>1, <1>2 DEF WorthOfRow, Worth
<1>5. /\ (2 * (p * Fine)) * (q * Fine) <= (2 * y + Fine) * (q * Fine)
      /\ (2 * y) * Fine <= (2 * (p * Fine) + Fine) * Fine
  BY <1>1, <1>3, ProductGrows DEF Near
<1>6. (2 * y + Fine) * (q * Fine) = (2 * a) * Fine + q * f
  BY <1>1, <1>2
<1>7. 2 * a <= 2 * b + y
  BY <1>2, <1>3
<1> HIDE DEF a, b
<1>8. (2 * a) * Fine <= (2 * b + y) * Fine
  BY <1>1, <1>3, <1>7, ProductGrows
<1>9. (2 * b + y) * Fine = (2 * b) * Fine + y * Fine
  BY <1>1
<1>10. 2 * (y * Fine) <= 2 * ((p * Fine) * Fine) + f
  BY <1>1, <1>3, <1>5
<1>11. /\ (p * Fine) * Fine \in Nat /\ q * f \in Nat /\ (2 * b) * Fine \in Nat
       /\ (2 * a) * Fine \in Nat /\ (2 * (p * Fine)) * (q * Fine) \in Nat
  BY <1>1, <1>2, <1>3, Product
<1> HIDE DEF f
<1>12. y * Fine <= (p * Fine) * Fine + f
  BY <1>1, <1>3, <1>10, <1>11
<1>13. WorthOfRow(q, p) <= Worth(Share * Fine, n) + (q + p + 1) * Fine * Fine
  BY <1>1, <1>3, <1>4, <1>5, <1>6, <1>8, <1>9, <1>11, <1>12
<1> QED BY <1>2, <1>13 DEF q

\* A size raised to a dollar's worth is larger than the quantity, is worth a
\* dollar, and at most one share more than that.
LEMMA SizeIsEnough ==
    ASSUME NEW q \in Nat, NEW p \in 1 .. One
    PROVE  LET s == AskedSize(q, p)
           IN  /\ s \in Nat /\ q <= s /\ One * Share <= s * p
               /\ s # q => BelowMinimum(q, p) /\ s * p <= One * Share + Share * p
<1>1. One \in Nat \ {0} /\ Share \in Nat \ {0} /\ p \in Nat \ {0} /\ p <= One
  BY AmountConstants
<1>2. One * Share \in Nat /\ q * p \in Nat
  BY <1>1, Product
<1>3. CASE ~BelowMinimum(q, p)
  BY <1>1, <1>2, <1>3 DEF AskedSize, BelowMinimum
<1>4. CASE BelowMinimum(q, p)
  <2> DEFINE d == (One + p - 1) \div p
             s == Share * d
  <2>1. d \in Nat /\ p * d <= One + p - 1 /\ One + p - 1 < p * d + p
    <3>1. One + p - 1 \in Nat
      BY <1>1
    <3> QED BY <1>1, <3>1, DivisionIsFloor
  <2> HIDE DEF d
  <2>2. p * d \in Nat /\ s \in Nat /\ s * p = (p * d) * Share
    BY <1>1, <2>1, Product
  <2> HIDE DEF s
  <2>3. One <= p * d /\ p * d <= One + p
    BY <1>1, <2>1, <2>2
  <2>4. One * Share <= (p * d) * Share /\ (p * d) * Share <= (One + p) * Share
    BY <1>1, <2>2, <2>3, ProductGrows
  <2>5. (One + p) * Share = One * Share + Share * p
    BY <1>1
  <2>6. q * p < s * p
    BY <1>2, <1>4, <2>2, <2>4 DEF BelowMinimum
  <2>7. q <= s
    <3> SUFFICES ASSUME s <= q PROVE s = q
      BY <2>2
    <3>1. s * p <= q * p
      BY <1>1, <2>2, ProductGrows
    <3>2. s * p \in Nat
      BY <1>1, <2>2, Product
    <3> QED BY <1>2, <2>6, <3>1, <3>2
  <2>8. AskedSize(q, p) = s
    BY <1>4 DEF AskedSize, s, d
  <2> QED BY <1>4, <2>2, <2>4, <2>5, <2>7, <2>8
<1> QED BY <1>3, <1>4

\* What the client library makes of price and size.
LEMMA ClientIsNear ==
    ASSUME NEW s \in Nat, NEW p \in Nat, NEW tick \in 1 .. One
    PROVE  /\ ClientSize(s) \in Nat /\ ClientSize(s) <= s /\ s < ClientSize(s) + SizeStep
           /\ ClientPrice(p, tick) \in Nat
           /\ 2 * ClientPrice(p, tick) <= 2 * p + tick
           /\ 2 * p <= 2 * ClientPrice(p, tick) + tick
<1>1. SizeStep \in Nat \ {0} /\ tick \in Nat \ {0}
  BY AmountConstants
<1>2. s % SizeStep \in 0 .. (SizeStep - 1) /\ s % SizeStep <= s
  BY <1>1
<1>3. ClientSize(s) \in Nat /\ ClientSize(s) <= s /\ s < ClientSize(s) + SizeStep
  BY <1>1, <1>2 DEF ClientSize
<1> DEFINE r == Round(p, tick)
<1>4. r \in Nat /\ 2 * (tick * r) <= 2 * p + tick /\ 2 * p < 2 * (tick * r) + tick
  BY <1>1, RoundIsNearest
<1>5. ClientPrice(p, tick) = tick * r
  BY DEF ClientPrice
<1> HIDE DEF r
<1>6. tick * r \in Nat
  BY <1>1, <1>4, Product
<1> QED BY <1>1, <1>3, <1>4, <1>5, <1>6

-----------------------------------------------------------------------------
(* The invariant.                                                          *)

\* The quantity and the price that a BUY was checked with, in request units.
FineQuantity == IF request.by = "quantity" THEN request.number ELSE order.quantity * Fine
FinePrice == IF request.type = "LIMIT" THEN request.price ELSE order.price * Fine

\* The row says at which price it was checked.
Priced == request.type = "LIMIT" \/ request.by = "amount" \/ request.price = NoPrice

\* Nothing is charged before the execution, nothing placed before its end.
Untouched ==
    /\ stage \in {"new", "refused", "created"} => charge.usdc = 0
    /\ stage \notin {"filled", "failed"} =>
          asked = [size |-> 0, price |-> 0, tick |-> 0] /\ placed = [size |-> 0, price |-> 0]

\* What createOrder derived from the request.
Derived ==
    stage \notin {"new", "refused"} =>
        /\ request.type = "LIMIT" => order.price = Column(request.price)
        /\ request.by = "quantity" => order.quantity = Column(request.number)
        /\ request.by = "amount" =>
              FinePrice \in Nat \ {0} /\ order.quantity = BoughtFor(request.number, FinePrice)
        /\ request.side = "BUY" /\ Priced => order.price \in Nat
        /\ request.wallet /\ request.side = "BUY" /\ Priced =>
              required = WithFees(Worth(FineQuantity, FinePrice))

\* What is charged covers the quantity at the price read for it.
ChargeCovers ==
    Charged =>
        /\ charge.usdc \in {WithFees(WorthOfRow(order.quantity, charge.price)),
                            WithFees(WorthOfRow(order.quantity, charge.price)) - 1}
        /\ request.type = "LIMIT" => charge.price = order.price
        /\ request.wallet /\ request.side = "BUY"
        /\ stage \notin {"new", "refused", "created"}

\* What is placed is what the library makes of the quantity, or of the size that
\* the minimum asks for.
PlacedFits ==
    \/ /\ asked = [size |-> 0, price |-> 0, tick |-> 0] /\ placed = [size |-> 0, price |-> 0]
       /\ stage = "filled" => ~realTrading
    \/ /\ asked.price \in MinPrice .. MaxPrice /\ asked.tick \in 1 .. One
       /\ asked.size = AskedSize(order.quantity, asked.price)
       /\ placed.size = ClientSize(asked.size)
       /\ placed.price = ClientPrice(asked.price, asked.tick)
       /\ stage = "filled" =>
             /\ fill.quantity = order.quantity
             /\ request.type = "LIMIT" => fill.price = asked.price

AmountsInv == TypeOK /\ Untouched /\ Derived /\ ChargeCovers /\ PlacedFits

LEMMA InitAmounts == Init => AmountsInv
<1> SUFFICES ASSUME Init PROVE AmountsInv
  OBVIOUS
<1>1. TypeOK
  <2>1. One \in Nat
    BY PriceRange
  <2> QED BY <2>1 DEF Init, TypeOK
<1> QED BY <1>1 DEF Init, AmountsInv, Untouched, Derived, ChargeCovers, PlacedFits, Charged

\* What a request names.
LEMMA RequestTypes ==
    ASSUME NEW r \in Requests
    PROVE  /\ r.number \in Nat
           /\ r.side \in {"BUY", "SELL"} /\ r.type \in {"MARKET", "LIMIT"}
           /\ r.by \in {"amount", "quantity"}
           /\ r.price \in Nat \union {NoPrice}
           /\ r.side = "SELL" => r.by = "quantity"
           /\ r.type = "LIMIT" =>
                 r.price \in Nat \ {0} /\ Column(r.price) \in MinPrice .. MaxPrice
           /\ r.wallet \in BOOLEAN
<1>1. /\ r.side \in {"BUY", "SELL"} /\ r.type \in {"MARKET", "LIMIT"}
      /\ r.by \in {"amount", "quantity"} /\ r.number \in Amounts \union Quantities
      /\ r.price \in Limits \union {NoPrice} /\ r.wallet \in BOOLEAN
  BY DEF Requests
<1>2. /\ r.side = "SELL" => r.by = "quantity"
      /\ r.type = "LIMIT" => r.price \in (MinPrice * Fine) .. (MaxPrice * Fine)
  BY DEF Requests
<1>3. r.number \in Nat /\ r.price \in Nat \union {NoPrice}
  <2>1. Amounts \union Quantities \subseteq Nat /\ Limits \subseteq Nat
    BY AmountConstants
  <2> QED BY <1>1, <2>1
<1> QED BY <1>1, <1>2, <1>3, LimitOfRow

\* The processed request, and the row that createOrder stores of it.
LEMMA RowOfRequest ==
    ASSUME NEW r \in Requests, NEW p \in Prices,
           ~(r.by = "amount" /\ r.type = "MARKET" /\ p = 0)
    PROVE  LET d == ProcessOrderDto(r, p)
               o == Row(d)
           IN  /\ d.quantity \in Nat /\ d.price \in Nat \union {NoPrice}
               /\ o \in [quantity : Nat, price : Nat \union {NoPrice}]
               /\ r.type = "LIMIT" => d.price = r.price /\ o.price = Column(r.price)
               /\ r.type = "MARKET" /\ r.side = "BUY" /\ (r.by = "amount" \/ r.price = NoPrice) =>
                     o.price = p
               /\ r.by = "quantity" => d.quantity = r.number /\ o.quantity = Column(r.number)
               /\ r.by = "amount" =>
                     LET y == IF r.type = "LIMIT" THEN r.price ELSE p * Fine
                     IN  /\ y \in Nat \ {0} /\ o.quantity = BoughtFor(r.number, y)
                         /\ d.quantity = o.quantity * Fine
<1> DEFINE d == ProcessOrderDto(r, p)
           o == Row(d)
           y == IF r.type = "LIMIT" THEN r.price ELSE p * Fine
           free == r.type = "MARKET" /\ r.side = "BUY" /\ (r.by = "amount" \/ r.price = NoPrice)
<1>1. p \in Nat /\ p * Fine \in Nat /\ Column(p * Fine) = p /\ p * Fine # NoPrice
  BY PriceRange, ColumnOfRow
<1>2. d.price = IF free THEN p * Fine ELSE r.price
  BY RequestTypes DEF ProcessOrderDto
<1>3. d.quantity = IF r.by = "quantity" THEN r.number ELSE BoughtFor(r.number, d.price) * Fine
  BY DEF ProcessOrderDto
<1>4. d.price \in Nat \union {NoPrice}
  BY <1>1, <1>2, RequestTypes
<1>5. ASSUME r.type = "LIMIT" PROVE d.price = r.price /\ r.price \in Nat \ {0} /\ r.price # NoPrice
  BY <1>2, <1>5, RequestTypes, PriceRange
<1>6. ASSUME r.by = "amount"
      PROVE  d.price = y /\ y \in Nat \ {0} /\ BoughtFor(r.number, y) \in Nat
  <2>1. r.side = "BUY" /\ r.type \in {"MARKET", "LIMIT"} /\ r.number \in Nat
    BY <1>6, RequestTypes
  <2>2. r.type = "MARKET" => p * Fine \in Nat \ {0}
    BY <1>1, <1>6, PriceRange, ProductPositive
  <2>3. d.price = y /\ y \in Nat \ {0}
    BY <1>2, <1>5, <1>6, <2>1, <2>2
  <2>4. r.number * Share \in Nat
    BY <2>1, AmountConstants, Product
  <2> HIDE DEF y
  <2> QED BY <2>3, <2>4, RoundIsNearest DEF BoughtFor
<1>7. /\ o.quantity = Column(d.quantity)
      /\ o.price = IF d.price = NoPrice THEN NoPrice ELSE Column(d.price)
      /\ o = [quantity |-> o.quantity, price |-> o.price]
  BY DEF Row
<1> HIDE DEF d, o
<1>8. free => o.price = p
  BY <1>1, <1>2, <1>7
<1>9. r.type = "LIMIT" => o.price = Column(r.price)
  BY <1>5, <1>7
<1>10. r.by = "quantity" => d.quantity = r.number /\ o.quantity = Column(r.number) /\ d.quantity \in Nat
  BY <1>3, <1>7, RequestTypes
<1>11. ASSUME r.by = "amount"
       PROVE  /\ o.quantity = BoughtFor(r.number, y) /\ d.quantity = o.quantity * Fine
              /\ d.quantity \in Nat
  <2> DEFINE b == BoughtFor(r.number, y)
  <2>1. d.quantity = b * Fine /\ b \in Nat
    BY <1>3, <1>6, <1>11
  <2> HIDE DEF b
  <2>2. o.quantity = b /\ d.quantity \in Nat
    BY <1>7, <2>1, ColumnOfRow
  <2> QED BY <2>1, <2>2 DEF b
<1>12. o.quantity \in Nat /\ o.price \in Nat \union {NoPrice} /\ d.quantity \in Nat
  BY <1>4, <1>7, <1>10, <1>11, RequestTypes, ColumnIsNear
<1>13. o \in [quantity : Nat, price : Nat \union {NoPrice}]
  BY <1>7, <1>12
<1>14. r.by = "amount" => y \in Nat \ {0}
  BY <1>6
<1>15. r.type = "LIMIT" => d.price = r.price
  BY <1>5
<1> HIDE DEF y
<1> QED BY <1>4, <1>8, <1>9, <1>10, <1>11, <1>12, <1>13, <1>14, <1>15 DEF o, d, y

LEMMA CreateAmounts ==
    ASSUME AmountsInv, NEW p \in Prices, CreateOrder(p)
    PROVE  AmountsInv'
<1>1. /\ realTrading' = realTrading /\ request' = request /\ charge' = charge
      /\ asked' = asked /\ placed' = placed /\ fill' = fill /\ stage = "new" /\ charge.usdc = 0
      /\ asked = [size |-> 0, price |-> 0, tick |-> 0] /\ placed = [size |-> 0, price |-> 0]
  BY DEF CreateOrder, AmountsInv, Untouched
<1>2. CASE stage' = "refused" /\ UNCHANGED <<order, required>>
  BY <1>1, <1>2 DEF AmountsInv, TypeOK, Untouched, Derived, ChargeCovers, PlacedFits, Charged
<1>3. CASE ~(stage' = "refused" /\ UNCHANGED <<order, required>>)
  <2> DEFINE d == ProcessOrderDto(request, p)
             o == Row(d)
             cost == IF request.type = "MARKET" THEN p * Fine ELSE d.price
             due == RequiredUsdc(request, d, p)
  <2>1. /\ ~(request.by = "amount" /\ request.type = "MARKET" /\ p = 0)
        /\ stage' = "created" /\ order' = o
        /\ required' = IF request.wallet /\ request.side = "BUY" THEN due ELSE 0
    BY <1>3 DEF CreateOrder
  <2>2. request \in Requests
    BY DEF AmountsInv, TypeOK
  <2>3. /\ d.quantity \in Nat /\ d.price \in Nat \union {NoPrice}
        /\ o \in [quantity : Nat, price : Nat \union {NoPrice}]
        /\ request.type = "LIMIT" => d.price = request.price /\ o.price = Column(request.price)
        /\ request.type = "MARKET" /\ request.side = "BUY"
           /\ (request.by = "amount" \/ request.price = NoPrice) => o.price = p
        /\ request.by = "quantity" =>
              d.quantity = request.number /\ o.quantity = Column(request.number)
        /\ request.by = "amount" =>
              LET y == IF request.type = "LIMIT" THEN request.price ELSE p * Fine
              IN  /\ y \in Nat \ {0} /\ o.quantity = BoughtFor(request.number, y)
                  /\ d.quantity = o.quantity * Fine
    BY <2>1, <2>2, RowOfRequest
  <2>4. due = WithFees(Worth(d.quantity, cost))
    BY DEF RequiredUsdc
  <2> HIDE DEF d, o, due
  <2>5. /\ request.type \in {"MARKET", "LIMIT"} /\ request.by \in {"amount", "quantity"}
        /\ request.type = "LIMIT" =>
              request.price \in Nat \ {0} /\ Column(request.price) \in MinPrice .. MaxPrice
    BY <2>2, RequestTypes
  <2>6. p \in Nat /\ p * Fine \in Nat
    BY PriceRange, Product
  <2>7. cost \in Nat
    BY <2>3, <2>5, <2>6
  <2>8. due \in Nat
    <3> HIDE DEF cost
    <3>1. Worth(d.quantity, cost) \in Nat
      BY <2>3, <2>7, WorthIsNatural
    <3> QED BY <2>4, <3>1, FeesAreNatural
  <2>9. TypeOK'
    BY <1>1, <2>1, <2>3, <2>8 DEF AmountsInv, TypeOK
  <2>10. ASSUME request.side = "BUY", Priced
         PROVE  /\ order'.price \in Nat
                /\ FinePrice' = cost /\ FineQuantity' = d.quantity
    <3>1. CASE request.type = "LIMIT"
      <4>1. Column(request.price) \in Nat
        BY <2>5, <3>1, ColumnIsNear
      <4> QED BY <1>1, <2>1, <2>3, <2>5, <3>1, <4>1 DEF FinePrice, FineQuantity
    <3>2. CASE request.type = "MARKET"
      <4>1. order'.price = p
        BY <2>1, <2>3, <2>10, <3>2 DEF Priced
      <4> QED BY <1>1, <2>1, <2>3, <2>5, <2>6, <3>2, <4>1 DEF FinePrice, FineQuantity
    <3> QED BY <2>5, <3>1, <3>2
  <2>11. ASSUME request.by = "amount"
         PROVE  /\ FinePrice' \in Nat \ {0}
                /\ order'.quantity = BoughtFor(request.number, FinePrice')
    <3> DEFINE y == IF request.type = "LIMIT" THEN request.price ELSE p * Fine
    <3>1. y \in Nat \ {0} /\ o.quantity = BoughtFor(request.number, y)
      BY <2>3, <2>11
    <3>2. request.side = "BUY"
      BY <2>2, <2>11, RequestTypes
    <3>3. FinePrice' = y
      BY <1>1, <2>1, <2>3, <2>5, <2>11, <3>2 DEF FinePrice
    <3> HIDE DEF y
    <3> QED BY <2>1, <3>1, <3>3
  <2>12. Derived'
    <3>1. Priced' = Priced
      BY <1>1 DEF Priced
    <3>2. request.wallet /\ request.side = "BUY" /\ Priced =>
             required' = WithFees(Worth(FineQuantity', FinePrice'))
      BY <2>1, <2>4, <2>10
    <3> QED BY <1>1, <2>1, <2>3, <2>10, <2>11, <3>1, <3>2 DEF Derived
  <2> QED BY <1>1, <2>1, <2>9, <2>12
          DEF AmountsInv, Untouched, ChargeCovers, PlacedFits, Charged
<1> QED BY <1>2, <1>3

\* What a charge at a price is.
LEMMA ChargeIsNatural ==
    ASSUME NEW q \in Nat, NEW p \in Nat
    PROVE  /\ WorthOfRow(q, p) \in Nat
           /\ WithFees(WorthOfRow(q, p)) \in Nat /\ WithFees(WorthOfRow(q, p)) - 1 \in Nat
<1> DEFINE w == WorthOfRow(q, p)
<1>1. w \in Nat
  BY WorthIsNatural
<1> HIDE DEF w
<1>2. WithFees(w) \in Nat /\ WithFees(w) - 1 \in Nat
  BY <1>1, FeesAreNatural, FeesCover
<1> QED BY <1>1, <1>2 DEF w

LEMMA ChargeAmounts ==
    ASSUME AmountsInv, NEW p \in Prices, ChargeUser(p)
    PROVE  AmountsInv'
<1>1. /\ realTrading' = realTrading /\ request' = request /\ order' = order
      /\ required' = required /\ asked' = asked /\ placed' = placed /\ fill' = fill
      /\ stage = "created" /\ stage' \in {"charged", "failed"} /\ charge.usdc = 0
      /\ asked = [size |-> 0, price |-> 0, tick |-> 0] /\ placed = [size |-> 0, price |-> 0]
  BY DEF ChargeUser, AmountsInv, Untouched
<1>2. Untouched' /\ Derived' /\ PlacedFits'
  BY <1>1 DEF AmountsInv, Untouched, Derived, Priced, FinePrice, FineQuantity, PlacedFits
<1>3. CASE charge' = charge
  BY <1>1, <1>2, <1>3 DEF AmountsInv, TypeOK, ChargeCovers, Charged
<1>4. CASE charge' # charge
  <2> DEFINE price == ChargePrice(p)
             usdc == WithFees(WorthOfRow(order.quantity, price))
  <2>1. /\ request.wallet /\ request.side = "BUY"
        /\ charge' \in {[usdc |-> usdc, price |-> price], [usdc |-> usdc - 1, price |-> price]}
    BY <1>4 DEF ChargeUser, ChargedUsdc, Transferred
  <2>2. request \in Requests /\ order.quantity \in Nat
    BY DEF AmountsInv, TypeOK
  <2>3. price \in Nat /\ (request.type = "LIMIT" => price = order.price)
    <3>1. request.type = "LIMIT" => order.price \in Nat
      BY <1>1, <2>1 DEF AmountsInv, Derived, Priced
    <3> QED BY <2>2, <3>1, RequestTypes, PriceRange DEF ChargePrice
  <2> HIDE DEF price
  <2>4. usdc \in Nat /\ usdc - 1 \in Nat
    BY <2>2, <2>3, ChargeIsNatural
  <2>5. /\ charge' \in [usdc : Nat, price : Nat]
        /\ charge'.price = price /\ charge'.usdc \in {usdc, usdc - 1}
    BY <2>1, <2>3, <2>4
  <2>6. TypeOK'
    BY <1>1, <2>5 DEF AmountsInv, TypeOK
  <2>7. ChargeCovers'
    BY <1>1, <2>1, <2>3, <2>5 DEF ChargeCovers
  <2> QED BY <1>2, <2>6, <2>7 DEF AmountsInv
<1> QED BY <1>3, <1>4

\* The price asked is one of the exchange, and the limit of a LIMIT order.
LEMMA PriceOfPlacement ==
    ASSUME AmountsInv, NEW p \in Prices \union {NoPrice}, stage = "charged"
    PROVE  /\ AskedPrice(p) \in MinPrice .. MaxPrice
           /\ request.type = "LIMIT" => AskedPrice(p) = order.price /\ order.price # NoPrice
<1> DEFINE wanted == IF request.type = "LIMIT" THEN order.price
                     ELSE IF p = NoPrice THEN One \div 2 ELSE p
<1>1. request \in Requests
  BY DEF AmountsInv, TypeOK
<1>2. request.type = "LIMIT" => wanted \in MinPrice .. MaxPrice /\ wanted = order.price
  BY <1>1, RequestTypes DEF AmountsInv, Derived
<1>3. wanted \in Int
  BY <1>2, PriceRange
<1>4. AskedPrice(p) = Larger(MinPrice, Smaller(wanted, MaxPrice))
  BY DEF AskedPrice
<1> HIDE DEF wanted
<1>5. request.type = "LIMIT" => order.price # NoPrice
  BY <1>2, PriceRange
<1> QED BY <1>2, <1>3, <1>4, <1>5, PriceRange DEF Larger, Smaller

LEMMA PlaceAmounts ==
    ASSUME AmountsInv, NEW p \in Prices \union {NoPrice}, NEW tick \in Ticks, PlaceOrder(p, tick)
    PROVE  AmountsInv'
<1> DEFINE price == AskedPrice(p)
           size == AskedSize(order.quantity, price)
<1>1. /\ realTrading' = realTrading /\ request' = request /\ order' = order
      /\ required' = required /\ charge' = charge
      /\ stage = "charged" /\ stage' \in {"filled", "failed"}
      /\ asked = [size |-> 0, price |-> 0, tick |-> 0] /\ placed = [size |-> 0, price |-> 0]
      /\ \/ asked' = asked /\ placed' = placed /\ fill' = fill /\ stage' = "failed"
         \/ /\ asked' = [size |-> size, price |-> price, tick |-> tick]
            /\ placed' = [size |-> ClientSize(size), price |-> ClientPrice(price, tick)]
            /\ fill' = Filled \/ (fill' = fill /\ stage' = "failed")
  BY DEF PlaceOrder, AmountsInv, Untouched
<1>2. /\ price \in MinPrice .. MaxPrice
      /\ request.type = "LIMIT" => price = order.price /\ order.price # NoPrice
  BY <1>1, PriceOfPlacement
<1> HIDE DEF price
<1>3. Untouched' /\ Derived' /\ ChargeCovers'
  BY <1>1 DEF AmountsInv, Untouched, Derived, Priced, FinePrice, FineQuantity, ChargeCovers, Charged
<1>4. /\ order.quantity \in Nat /\ price \in 1 .. One /\ price \in 0 .. One /\ price \in Nat
      /\ tick \in 1 .. One /\ tick \in 0 .. One
  BY <1>2, PriceRange, AmountConstants DEF AmountsInv, TypeOK
<1>5. size \in Nat
  BY <1>4, SizeIsEnough
<1> HIDE DEF size
<1>6. ClientSize(size) \in Nat /\ ClientPrice(price, tick) \in Nat
  BY <1>4, <1>5, ClientIsNear
<1>7. Filled \in [quantity : Nat, price : Nat]
  BY <1>4 DEF Filled, AmountsInv, TypeOK
<1>8. TypeOK'
  BY <1>1, <1>4, <1>5, <1>6, <1>7 DEF AmountsInv, TypeOK
<1>9. PlacedFits'
  <2>1. CASE asked' = asked /\ placed' = placed /\ fill' = fill /\ stage' = "failed"
    BY <1>1, <2>1 DEF PlacedFits
  <2>2. CASE ~(asked' = asked /\ placed' = placed /\ fill' = fill /\ stage' = "failed")
    <3>1. /\ asked'.price = price /\ asked'.tick = tick /\ asked'.size = size
          /\ placed'.size = ClientSize(size) /\ placed'.price = ClientPrice(price, tick)
      BY <1>1, <2>2
    <3>2. request.type = "LIMIT" => Filled.price = price
      BY <1>2 DEF Filled
    <3>3. stage' = "filled" =>
             /\ fill'.quantity = order.quantity
             /\ request.type = "LIMIT" => fill'.price = price
      BY <1>1, <2>2, <3>2 DEF Filled
    <3> QED BY <1>1, <1>2, <1>4, <3>1, <3>3 DEF PlacedFits, size
  <2> QED BY <2>1, <2>2
<1> QED BY <1>3, <1>8, <1>9 DEF AmountsInv

LEMMA SimulateAmounts ==
    ASSUME AmountsInv, NEW p \in Prices, SimulateExecution(p)
    PROVE  AmountsInv'
<1>1. /\ realTrading' = realTrading /\ request' = request /\ charge' = charge /\ asked' = asked
      /\ placed' = placed /\ order' = order /\ required' = required
      /\ stage = "created" /\ stage' \in {"filled", "failed"} /\ ~realTrading /\ charge.usdc = 0
      /\ asked = [size |-> 0, price |-> 0, tick |-> 0] /\ placed = [size |-> 0, price |-> 0]
  BY DEF SimulateExecution, AmountsInv, Untouched
<1>2. fill' \in [quantity : Nat, price : Nat]
  <2>1. request \in Requests /\ order.quantity \in Nat
    BY DEF AmountsInv, TypeOK
  <2>2. request.type = "LIMIT" => order.price \in Nat
    BY <1>1, <2>1, RequestTypes, PriceRange DEF AmountsInv, Derived
  <2>3. request.type \in {"MARKET", "LIMIT"} /\ p \in Nat
    BY <2>1, RequestTypes, PriceRange
  <2> QED BY <2>1, <2>2, <2>3 DEF SimulateExecution, AmountsInv, TypeOK
<1>3. TypeOK'
  BY <1>1, <1>2 DEF AmountsInv, TypeOK
<1> QED BY <1>1, <1>3
        DEF AmountsInv, Untouched, Derived, Priced, FinePrice, FineQuantity, ChargeCovers,
            PlacedFits, Charged

LEMMA AmountsStep == AmountsInv /\ [Next]_vars => AmountsInv'
<1> SUFFICES ASSUME AmountsInv, [Next]_vars PROVE AmountsInv'
  OBVIOUS
<1>1. CASE Next
  BY <1>1, CreateAmounts, ChargeAmounts, SimulateAmounts, PlaceAmounts DEF Next
<1>2. CASE UNCHANGED vars
  BY <1>2 DEF vars, AmountsInv, TypeOK, Untouched, Derived, Priced, FinePrice, FineQuantity,
              ChargeCovers, PlacedFits, Charged
<1> QED BY <1>1, <1>2

LEMMA AmountsAlways == Spec => []AmountsInv
BY InitAmounts, AmountsStep, PTL DEF Spec

\* Every variable of OrderAmounts keeps its type: whole, non-negative amounts,
\* whatever the rounding, and prices between 0 and a dollar asked.
THEOREM TypeCorrect == Spec => []TypeOK
BY AmountsAlways, PTL DEF AmountsInv

-----------------------------------------------------------------------------
(* What is charged, and what is placed.                                    *)

\* What a charge is, and what it was checked against.
LEMMA ChargeBounds ==
    ASSUME AmountsInv, Charged
    PROVE  LET w == WithFees(WorthOfRow(order.quantity, charge.price))
           IN  /\ charge.usdc \in {w - 1, w} /\ charge.usdc \in Nat /\ w \in Nat
               /\ charge.price \in Nat /\ order.quantity \in Nat
               /\ WorthOfRow(order.quantity, charge.price) \in Nat
               /\ WorthOfRow(order.quantity, charge.price) * Dollar <= charge.usdc * Whole
               /\ Whole * Dollar <= charge.usdc * Whole
<1> DEFINE v == WorthOfRow(order.quantity, charge.price)
           w == WithFees(v)
<1>1. charge.price \in Nat /\ charge.usdc \in Nat /\ order.quantity \in Nat
  BY DEF AmountsInv, TypeOK
<1>2. charge.usdc \in {w - 1, w}
  BY DEF AmountsInv, ChargeCovers
<1>3. v \in Nat
  BY <1>1, WorthIsNatural
<1> HIDE DEF v
<1>4. w \in Nat /\ w - 1 \in Nat /\ v * Dollar <= (w - 1) * Whole
      /\ Whole * Dollar <= (w - 1) * Whole
  BY <1>3, FeesCover, FeesAreNatural
<1> HIDE DEF w
<1>5. w - 1 <= charge.usdc
  BY <1>1, <1>2, <1>4
<1>6. (w - 1) * Whole <= charge.usdc * Whole
  BY <1>1, <1>4, <1>5, Factors, ProductGrows
<1>7. v * Dollar \in Nat /\ Whole * Dollar \in Nat /\ (w - 1) * Whole \in Nat
      /\ charge.usdc * Whole \in Nat
  BY <1>1, <1>3, <1>4, Factors, Product
<1>8. v * Dollar <= charge.usdc * Whole /\ Whole * Dollar <= charge.usdc * Whole
  BY <1>4, <1>6, <1>7
<1>9. w \in Nat
  BY <1>4
<1> QED BY <1>1, <1>2, <1>3, <1>8, <1>9 DEF w, v

\* The row holds about what the BUY was checked with.
LEMMA RowIsNear ==
    ASSUME AmountsInv, Charged, Priced
    PROVE  /\ order.price \in Nat /\ order.quantity \in Nat
           /\ FinePrice \in Nat /\ FineQuantity \in Nat
           /\ Near(FinePrice, order.price) /\ Near(FineQuantity, order.quantity)
           /\ required = WithFees(Worth(FineQuantity, FinePrice))
           /\ (request.by = "quantity" => request.number % Fine = 0) =>
                 order.quantity * Fine = FineQuantity
           /\ (request.type = "LIMIT" => request.price % Fine = 0) => order.price * Fine = FinePrice
<1>1. /\ request.wallet /\ request.side = "BUY" /\ stage \notin {"new", "refused"}
  BY DEF AmountsInv, ChargeCovers
<1>2. /\ request.type = "LIMIT" => order.price = Column(request.price)
      /\ request.by = "quantity" => order.quantity = Column(request.number)
      /\ order.price \in Nat
      /\ required = WithFees(Worth(FineQuantity, FinePrice))
  BY <1>1 DEF AmountsInv, Derived
<1>3. request \in Requests /\ order.quantity \in Nat
  BY DEF AmountsInv, TypeOK
<1>4. order.price * Fine \in Nat /\ order.quantity * Fine \in Nat /\ Fine \in Nat
  BY <1>2, <1>3, PriceRange, Product
<1>5. /\ FinePrice \in Nat /\ Near(FinePrice, order.price)
      /\ (request.type = "LIMIT" => request.price % Fine = 0) => order.price * Fine = FinePrice
  <2>1. CASE request.type = "LIMIT"
    <3>1. request.price \in Nat /\ FinePrice = request.price
      BY <1>3, <2>1, RequestTypes DEF FinePrice
    <3> QED BY <1>2, <2>1, <3>1, ColumnIsNear DEF Near
  <2>2. CASE request.type # "LIMIT"
    <3>1. FinePrice = order.price * Fine
      BY <2>2 DEF FinePrice
    <3> QED BY <1>4, <3>1 DEF Near
  <2> QED BY <2>1, <2>2
<1>6. /\ FineQuantity \in Nat /\ Near(FineQuantity, order.quantity)
      /\ (request.by = "quantity" => request.number % Fine = 0) =>
            order.quantity * Fine = FineQuantity
  <2>1. CASE request.by = "quantity"
    <3>1. request.number \in Nat /\ FineQuantity = request.number
      BY <1>3, <2>1, RequestTypes DEF FineQuantity
    <3> QED BY <1>2, <2>1, <3>1, ColumnIsNear DEF Near
  <2>2. CASE request.by # "quantity"
    <3>1. FineQuantity = order.quantity * Fine
      BY <2>2 DEF FineQuantity
    <3> QED BY <1>4, <2>2, <3>1 DEF Near
  <2> QED BY <2>1, <2>2
<1> QED BY <1>2, <1>3, <1>5, <1>6

\* What the row is charged at its own price is what its wallet was checked for.
LEMMA RowAgrees ==
    ASSUME AmountsInv, Charged, Priced
    PROVE  LET w == WithFees(WorthOfRow(order.quantity, order.price))
           IN  /\ w \in Nat /\ required \in Nat /\ Margin \in Nat
               /\ w <= required + Margin /\ required <= w + Margin
<1> DEFINE v == WorthOfRow(order.quantity, order.price)
           u == Worth(FineQuantity, FinePrice)
           e == (Percent * Rounding) \div Whole
           exact == /\ request.by = "quantity" => request.number % Fine = 0
                    /\ request.type = "LIMIT" => request.price % Fine = 0
<1>1. /\ order.price \in Nat /\ order.quantity \in Nat /\ required = WithFees(u)
      /\ FinePrice \in Nat /\ FineQuantity \in Nat
      /\ Near(FinePrice, order.price) /\ Near(FineQuantity, order.quantity)
  BY RowIsNear
<1>2. v \in Nat /\ u \in Nat /\ WithFees(v) \in Nat /\ WithFees(u) \in Nat
  <2>1. v \in Nat /\ u \in Nat
    BY <1>1, WorthIsNatural
  <2> HIDE DEF v, u
  <2> QED BY <2>1, FeesAreNatural
<1>3. v <= u + Rounding /\ u <= v + Rounding
  BY <1>1, WorthOfRowIsNear DEF Near, Rounding
<1>4. Rounding \in Nat
  <2> DEFINE f == Fine * Fine
             t == order.quantity + order.price + 1
  <2>1. f \in Nat /\ t \in Nat /\ t * f \in Nat
    BY <1>1, PriceRange, Product
  <2>2. Rounding = t * f
    BY <1>1, PriceRange DEF Rounding
  <2> QED BY <2>1, <2>2
<1>5. e \in Nat
  BY <1>4, Factors, Product, DivisionIsFloor
<1>6. Margin = IF exact THEN 0 ELSE e + 1
  BY DEF Margin, Percent
<1>7. ASSUME exact PROVE v = u
  <2>1. request.type \in {"MARKET", "LIMIT"} /\ request.by \in {"amount", "quantity"}
    BY RequestTypes DEF AmountsInv, TypeOK
  <2>2. order.quantity * Fine = FineQuantity /\ order.price * Fine = FinePrice
    BY <1>7, <2>1, RowIsNear
  <2> QED BY <2>2 DEF WorthOfRow
<1> HIDE DEF v, u, exact
<1>8. WithFees(v) <= WithFees(u) + e + 1 /\ WithFees(u) <= WithFees(v) + e + 1
  BY <1>2, <1>3, <1>4, FeesAreNear
<1> HIDE DEF e
<1> QED BY <1>1, <1>2, <1>5, <1>6, <1>7, <1>8 DEF v, u

\* A charge at a price that is no higher than the one of the row.
LEMMA ChargeBelow ==
    ASSUME AmountsInv, Charged, order.price \in Nat, charge.price <= order.price
    PROVE  /\ charge.usdc <= WithFees(WorthOfRow(order.quantity, order.price))
           /\ WithFees(WorthOfRow(order.quantity, order.price)) \in Nat
           /\ WorthOfRow(order.quantity, order.price) \in Nat
<1> DEFINE v == WorthOfRow(order.quantity, charge.price)
           w == WorthOfRow(order.quantity, order.price)
<1>1. /\ charge.price \in Nat /\ order.quantity \in Nat /\ charge.usdc \in Nat
      /\ WithFees(v) \in Nat /\ charge.usdc \in {WithFees(v) - 1, WithFees(v)} /\ v \in Nat
  BY ChargeBounds
<1>2. w \in Nat /\ v <= w
  BY <1>1, WorthIsNatural, WorthGrows
<1> HIDE DEF v, w
<1>3. WithFees(v) <= WithFees(w) /\ WithFees(w) \in Nat
  BY <1>1, <1>2, FeesGrow, FeesAreNatural
<1> QED BY <1>1, <1>2, <1>3 DEF w

\* Where the price held, the row says at which price it was checked.
LEMMA HeldIsPriced ==
    ASSUME AmountsInv, Charged, PriceHeld
    PROVE  Priced /\ order.price \in Nat /\ charge.price <= order.price
<1>1. Priced
  BY DEF PriceHeld, Priced
<1>2. order.price \in Nat /\ charge.price \in Nat
  BY <1>1, RowIsNear, ChargeBounds
<1>3. charge.price <= order.price
  BY <1>2 DEF PriceHeld, AmountsInv, ChargeCovers
<1> QED BY <1>1, <1>2, <1>3

LEMMA ChargeAgrees == AmountsInv => ChargedAsRequired
<1> SUFFICES ASSUME AmountsInv, Charged
             PROVE  /\ request.type = "LIMIT" => charge.usdc >= required - Margin - 1
                    /\ PriceHeld => charge.usdc <= required + Margin
  BY DEF ChargedAsRequired
<1> DEFINE w == WithFees(WorthOfRow(order.quantity, order.price))
<1>1. charge.usdc \in Nat
  BY ChargeBounds
<1>2. ASSUME request.type = "LIMIT" PROVE charge.usdc >= required - Margin - 1
  <2>1. charge.price = order.price
    BY <1>2 DEF AmountsInv, ChargeCovers
  <2>2. charge.usdc \in {w - 1, w}
    BY <2>1, ChargeBounds
  <2>3. w \in Nat /\ required \in Nat /\ Margin \in Nat /\ required <= w + Margin
    BY <1>2, RowAgrees DEF Priced
  <2> HIDE DEF w
  <2> QED BY <1>1, <2>2, <2>3
<1>3. ASSUME PriceHeld PROVE charge.usdc <= required + Margin
  <2>1. Priced /\ order.price \in Nat /\ charge.price <= order.price
    BY <1>3, HeldIsPriced
  <2>2. charge.usdc <= w
    BY <2>1, ChargeBelow
  <2>3. w \in Nat /\ required \in Nat /\ Margin \in Nat /\ w <= required + Margin
    BY <2>1, RowAgrees
  <2> HIDE DEF w
  <2> QED BY <1>1, <2>2, <2>3
<1> QED BY <1>2, <1>3

LEMMA BudgetHolds == AmountsInv => BudgetKept
<1> DEFINE v == WorthOfRow(order.quantity, order.price)
           budget == Worth(Share * Fine, request.number) + Rounding
<1> SUFFICES ASSUME AmountsInv, Charged, request.by = "amount", PriceHeld
             PROVE  charge.usdc <= WithFees(budget)
  BY DEF BudgetKept
<1>1. /\ stage \notin {"new", "refused"} /\ Priced
      /\ order.price \in Nat /\ charge.price <= order.price
  BY HeldIsPriced DEF AmountsInv, ChargeCovers
<1>2. FinePrice \in Nat \ {0} /\ order.quantity = BoughtFor(request.number, FinePrice)
  BY <1>1 DEF AmountsInv, Derived
<1>3. Near(FinePrice, order.price) /\ request.number \in Nat
  BY <1>1, RowIsNear, RequestTypes DEF AmountsInv, TypeOK
<1>4. v <= budget
  BY <1>1, <1>2, <1>3, BoughtIsWorth DEF Rounding
<1>5. charge.usdc <= WithFees(v) /\ v \in Nat /\ WithFees(v) \in Nat /\ charge.usdc \in Nat
  BY <1>1, ChargeBelow, ChargeBounds
<1>6. budget \in Nat
  <2> DEFINE f == Fine * Fine
             t == order.quantity + order.price + 1
             s == Share * Fine
  <2>1. order.quantity \in Nat /\ Fine \in Nat /\ Share \in Nat
    BY AmountConstants DEF AmountsInv, TypeOK
  <2>2. f \in Nat /\ t \in Nat /\ t * f \in Nat /\ s \in Nat
    BY <1>1, <2>1, Product
  <2>3. Rounding = t * f
    BY <1>1, <2>1 DEF Rounding
  <2> HIDE DEF s
  <2>4. Worth(s, request.number) \in Nat
    BY <1>3, <2>2, WorthIsNatural
  <2> QED BY <2>2, <2>3, <2>4 DEF s
<1> HIDE DEF budget, v
<1>7. WithFees(v) <= WithFees(budget) /\ WithFees(budget) \in Nat
  BY <1>4, <1>5, <1>6, FeesGrow, FeesAreNatural
<1> QED BY <1>5, <1>7

\* What is worth no more than a sum paid does not exceed it.
LEMMA Covers ==
    ASSUME NEW x \in Int, NEW w \in Nat, NEW u \in Nat, x <= w, w * Dollar <= u * Whole
    PROVE  ~Exceeds(x, u)
<1>1. Dollar \in Nat /\ Whole \in Nat
  BY Factors
<1>2. x * Dollar <= w * Dollar
  <2>1. x * Dollar \in Int /\ w * Dollar \in Int /\ w - x \in Nat
    BY <1>1
  <2>2. (w - x) * Dollar \in Nat
    BY <1>1, <2>1, Product
  <2>3. (w - x) * Dollar = w * Dollar - x * Dollar
    BY <1>1
  <2> QED BY <2>1, <2>2, <2>3
<1>3. x * Dollar \in Int /\ w * Dollar \in Int /\ u * Whole \in Int
  BY <1>1
<1> QED BY <1>2, <1>3 DEF Exceeds

\* What rounding the price to a tick adds to the worth of a size.
LEMMA TickIsNear ==
    ASSUME NEW s \in Nat, NEW p \in Nat, NEW r \in Nat, NEW tick \in Nat, 2 * r <= 2 * p + tick
    PROVE  /\ WorthOfRow(s, r) <= WorthOfRow(s, p) + s * tick * Fine * Fine
           /\ s * tick * Fine * Fine \in Nat
<1> DEFINE f == Fine * Fine
<1>1. Fine \in Nat /\ f \in Nat /\ s * r \in Nat /\ s * p \in Nat /\ s * tick \in Nat
  BY PriceRange, Product
<1>2. (2 * r) * s <= (2 * p + tick) * s
  BY ProductGrows
<1>3. 2 * (s * r) <= 2 * (s * p) + s * tick
  BY <1>1, <1>2
<1>4. /\ WorthOfRow(s, r) = 2 * (s * r) * f /\ WorthOfRow(s, p) = 2 * (s * p) * f
      /\ s * tick * Fine * Fine = (s * tick) * f
  BY <1>1, WorthIsNatural
<1> DEFINE a == s * r
           b == s * p
           c == s * tick
<1> HIDE DEF a, b, c, f
<1>5. (2 * a) * f <= (2 * b + c) * f
  BY <1>1, <1>3, ProductGrows DEF a, b, c
<1>6. c * f \in Nat /\ a * f \in Nat /\ b * f \in Nat
  BY <1>1, Product DEF a, b, c
<1>7. 2 * a * f <= 2 * b * f + c * f
  BY <1>1, <1>5, <1>6 DEF a, b, c
<1> QED BY <1>4, <1>6, <1>7 DEF a, b, c, f

\* What a size is worth that no product exceeds.
LEMMA WorthOfProduct ==
    ASSUME NEW s \in Nat, NEW p \in Nat, NEW m \in Nat
    PROVE  /\ s * p <= m => WorthOfRow(s, p) <= 2 * m * (Fine * Fine)
           /\ m < s * p => 2 * m * (Fine * Fine) < WorthOfRow(s, p)
           /\ 2 * m * (Fine * Fine) \in Nat
<1> DEFINE f == Fine * Fine
           a == s * p
<1>1. a \in Nat /\ f \in Nat \ {0} /\ WorthOfRow(s, p) = 2 * a * f
  BY WorthIsNatural
<1> HIDE DEF f, a
<1>2. a * f \in Nat /\ m * f \in Nat
  BY <1>1, Product
<1>3. a <= m => a * f <= m * f
  BY <1>1, ProductGrows
<1>4. ASSUME m < a PROVE m * f < a * f
  <2>1. (m + 1) * f <= a * f
    BY <1>1, <1>4, ProductGrows
  <2> QED BY <1>1, <1>2, <2>1
<1>5. 2 * a * f = 2 * (a * f) /\ 2 * m * f = 2 * (m * f)
  BY <1>1
<1> QED BY <1>1, <1>2, <1>3, <1>4, <1>5 DEF f, a

LEMMA LossBounded == AmountsInv => FunderLossBounded
<1> DEFINE q == order.quantity
           p == asked.price
           cost == WorthOfRow(placed.size, placed.price)
           share == WorthOfRow(Share, p)
           halfTicks == placed.size * asked.tick * Fine * Fine
           due == WorthOfRow(q, charge.price)
           worth == WorthOfRow(placed.size, p)
<1> SUFFICES ASSUME AmountsInv, Charged, p <= charge.price
             PROVE  /\ ~Exceeds(cost - share - halfTicks, charge.usdc)
                    /\ Exceeds(cost, charge.usdc) => BelowMinimum(q, p) \/ placed.price > p
  BY DEF FunderLossBounded
<1>1. /\ charge.price \in Nat /\ q \in Nat /\ charge.usdc \in Nat /\ due \in Nat
      /\ due * Dollar <= charge.usdc * Whole /\ Whole * Dollar <= charge.usdc * Whole
  BY ChargeBounds
<1>2. /\ placed.price \in Nat /\ placed.size \in Nat /\ Share \in Nat /\ p \in Nat
      /\ asked.tick \in Nat
  BY AmountConstants DEF AmountsInv, TypeOK
<1>3. share \in Nat /\ cost \in Nat /\ worth \in Nat
  BY <1>2, WorthIsNatural
<1>4. WorthOfRow(q, p) <= due
  BY <1>1, <1>2, WorthGrows
<1>5. CASE asked = [size |-> 0, price |-> 0, tick |-> 0] /\ placed = [size |-> 0, price |-> 0]
  <2>1. cost = 0 /\ halfTicks = 0
    <3>1. placed.size = 0 /\ placed.price = 0 /\ asked.tick = 0
      BY <1>5
    <3>2. WorthOfRow(0, 0) = 0
      BY PriceRange DEF WorthOfRow, Worth
    <3>3. 0 * 0 * Fine * Fine = 0
      BY PriceRange
    <3> QED BY <3>1, <3>2, <3>3
  <2>2. cost - share - halfTicks \in Int /\ cost - share - halfTicks <= Whole
    BY <1>3, <2>1, Factors
  <2>3. cost \in Int /\ cost <= Whole
    BY <2>1, Factors
  <2> HIDE DEF cost, share, halfTicks
  <2> QED BY <1>1, <2>2, <2>3, Covers, Factors
<1>6. CASE ~(asked = [size |-> 0, price |-> 0, tick |-> 0] /\ placed = [size |-> 0, price |-> 0])
  <2> DEFINE s == AskedSize(q, p)
  <2>1. /\ p \in 1 .. One /\ asked.tick \in 1 .. One
        /\ placed.size = ClientSize(s) /\ placed.price = ClientPrice(p, asked.tick)
    BY <1>6, PriceRange DEF AmountsInv, PlacedFits
  <2>2. /\ s \in Nat
        /\ s # q => BelowMinimum(q, p) /\ s * p <= One * Share + Share * p
    BY <1>1, <2>1, SizeIsEnough
  <2> HIDE DEF s
  <2>3. placed.size <= s /\ 2 * placed.price <= 2 * p + asked.tick
    BY <1>2, <2>1, <2>2, ClientIsNear
  <2>4. cost <= worth + halfTicks /\ halfTicks \in Nat
    BY <1>2, <2>3, TickIsNear
  <2>5. placed.size * p <= s * p /\ placed.size * p \in Nat /\ s * p \in Nat
    BY <1>2, <2>2, <2>3, ProductGrows, Product
  <2>6. s = q => worth <= due
    <3>1. q * p \in Nat /\ 2 * (q * p) * (Fine * Fine) = WorthOfRow(q, p)
          /\ WorthOfRow(q, p) \in Nat
      BY <1>1, <1>2, WorthIsNatural
    <3>2. s = q => placed.size * p <= q * p
      BY <2>5
    <3>3. s = q => worth <= WorthOfRow(q, p)
      BY <1>2, <3>1, <3>2, WorthOfProduct
    <3> QED BY <1>1, <1>3, <1>4, <3>1, <3>3
  <2>7. s * p <= One * Share + Share * p => worth <= Whole + share
    <3> DEFINE a == One * Share
               b == Share * p
               f == Fine * Fine
    <3>1. a \in Nat /\ b \in Nat /\ f \in Nat /\ a + b \in Nat
      BY <1>2, PriceRange, Product
    <3>2. share = 2 * b * f /\ Whole = 2 * a * f
      BY <1>2, Factors, WorthIsNatural
    <3>3. placed.size * p <= a + b => worth <= 2 * (a + b) * f
      BY <1>2, <3>1, WorthOfProduct
    <3>4. s * p <= a + b => placed.size * p <= a + b
      BY <2>5, <3>1
    <3> HIDE DEF a, b, f
    <3>5. 2 * (a + b) * f = 2 * a * f + 2 * b * f
      BY <3>1
    <3> HIDE DEF worth, share
    <3>6. s * p <= a + b => worth <= Whole + share
      BY <3>2, <3>3, <3>4, <3>5
    <3> QED BY <3>6 DEF a, b, worth, share
  <2> HIDE DEF cost, share, halfTicks, due, worth
  <2>8. ~Exceeds(cost - share - halfTicks, charge.usdc)
    <3>1. CASE s = q
      <4>1. cost - share - halfTicks \in Int /\ cost - share - halfTicks <= due
        BY <1>1, <1>3, <2>4, <2>6, <3>1
      <4> QED BY <1>1, <4>1, Covers
    <3>2. CASE s * p <= One * Share + Share * p
      <4>1. cost - share - halfTicks \in Int /\ cost - share - halfTicks <= Whole
        BY <1>3, <2>4, <2>7, <3>2, Factors
      <4> QED BY <1>1, <4>1, Covers, Factors
    <3> QED BY <2>2, <3>1, <3>2
  <2>9. ASSUME ~BelowMinimum(q, p), ~(placed.price > p) PROVE ~Exceeds(cost, charge.usdc)
    <3>1. cost <= worth
      BY <1>2, <2>9, WorthGrows DEF cost, worth
    <3>2. cost \in Int /\ cost <= due
      BY <1>1, <1>3, <2>2, <2>6, <2>9, <3>1
    <3> QED BY <1>1, <3>2, Covers
  <2> QED BY <2>8, <2>9 DEF cost, share, halfTicks
<1> QED BY <1>5, <1>6

LEMMA FillHolds == AmountsInv => FillIsPlaced
<1> DEFINE p == asked.price
           s == AskedSize(order.quantity, p)
           next == placed.size + SizeStep
<1> SUFFICES ASSUME AmountsInv, stage = "filled", realTrading
             PROVE  /\ fill.quantity < next
                    /\ WorthOfRow(next, p) > Whole
                    /\ request.type = "LIMIT" =>
                          2 * fill.price \in (2 * placed.price - asked.tick) .. (2 * placed.price + asked.tick)
  BY DEF FillIsPlaced
<1>1. /\ p \in 1 .. One /\ asked.tick \in 1 .. One
      /\ placed.size = ClientSize(s) /\ placed.price = ClientPrice(p, asked.tick)
      /\ fill.quantity = order.quantity
      /\ request.type = "LIMIT" => fill.price = p
  BY PriceRange DEF AmountsInv, PlacedFits
<1>2. order.quantity \in Nat /\ p \in Nat \ {0} /\ SizeStep \in Nat \ {0} /\ Share \in Nat
  BY <1>1, AmountConstants DEF AmountsInv, TypeOK
<1>3. s \in Nat /\ order.quantity <= s /\ One * Share <= s * p
  BY <1>1, <1>2, SizeIsEnough
<1> HIDE DEF s
<1>4. /\ ClientSize(s) \in Nat /\ s < ClientSize(s) + SizeStep
      /\ placed.price \in Nat
      /\ 2 * placed.price <= 2 * p + asked.tick /\ 2 * p <= 2 * placed.price + asked.tick
  BY <1>1, <1>2, <1>3, ClientIsNear
<1>5. next \in Nat /\ s < next
  BY <1>1, <1>2, <1>4
<1>6. fill.quantity < next
  BY <1>1, <1>2, <1>3, <1>5
<1>7. One * Share \in Nat /\ One * Share < next * p
  <2> HIDE DEF next
  <2>1. (s + 1) * p <= next * p
    BY <1>2, <1>3, <1>5, ProductGrows
  <2>2. s * p \in Nat /\ next * p \in Nat /\ One * Share \in Nat /\ (s + 1) * p = s * p + p
    BY <1>2, <1>3, <1>5, PriceRange, Product
  <2> QED BY <1>2, <1>3, <2>1, <2>2
<1>8. Whole < WorthOfRow(next, p)
  <2> HIDE DEF next, p
  <2>1. Whole = 2 * (One * Share) * (Fine * Fine)
    BY Factors
  <2> QED BY <1>2, <1>5, <1>7, <2>1, WorthOfProduct
<1>9. Whole \in Nat /\ WorthOfRow(next, p) \in Nat
  <2> HIDE DEF next, p
  <2> QED BY <1>2, <1>5, Factors, WorthIsNatural
<1>10. request.type = "LIMIT" =>
          2 * fill.price \in (2 * placed.price - asked.tick) .. (2 * placed.price + asked.tick)
  BY <1>1, <1>4
<1> HIDE DEF next
<1> QED BY <1>6, <1>8, <1>9, <1>10

\* The processor charges what the service checked the wallet for, short of what
\* the columns of the row round: at every price, quantity and unit, a MARKET
\* order apart whose price rose in between.
THEOREM ChargeMatchesCheck == Spec => []ChargedAsRequired
BY AmountsAlways, ChargeAgrees, PTL

\* A client that names an amount is not charged more than it, its fees and what
\* the rounding of quantity and limit adds, unless the price rose.
THEOREM BudgetAlwaysKept == Spec => []BudgetKept
BY AmountsAlways, BudgetHolds, PTL

\* Where the exchange asks no more than the charge was computed from, the
\* funder's loss on an order stays below the price of a share and half a tick
\* for each share, whatever the minimum and the client library make of it.
THEOREM FunderLossAlwaysBounded == Spec => []FunderLossBounded
BY AmountsAlways, LossBounded, PTL

\* A filled order was placed as recorded, with a dollar's worth, up to one step
\* of size and half a tick that the client library rounds.
THEOREM FillAlwaysPlaced == Spec => []FillIsPlaced
BY AmountsAlways, FillHolds, PTL

\* Whatever fees the network names, its minima included, the transaction that
\* getGasPrices prices is acceptable if the network's own tip does not exceed
\* its base fee.
THEOREM GasIsAcceptable ==
    \A base, tip \in Nat : tip <= base => Acceptable(GasPrices(base, tip))
BY DEF Acceptable, GasPrices, Larger

=============================================================================
