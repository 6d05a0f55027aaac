--------------------------- MODULE MCOrderAmounts ---------------------------
(* A small instance of OrderAmounts for TLC: prices and quantities on both  *)
(* sides of every minimum and rounding, with and without a decimal that the *)
(* columns do not hold.                                                     *)
EXTENDS OrderAmounts

MCPrices == {0, 300, 500, 999, 1000}
MCLimits == {3, 211, 1000, 1951, 2996, 2997}
MCAmounts == {4, 2101, 3000, 4199}
MCQuantities == {1, 2, 47, 70}
MCWallets == {2000, 2021, 12000, 4000000}
MCFees == {0, 1, 26, 30, 31, 60}
MCTicks == {1, 10, 100}
=============================================================================
