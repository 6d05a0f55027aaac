--------------------------- MODULE MCMarketPrices ---------------------------
(* Small instances of MarketPrices for TLC.                                *)
EXTENDS MarketPrices, TLC

\* The batches of the API and of the scheduler run the same code.
Processes == Permutations(Batches)

=============================================================================
