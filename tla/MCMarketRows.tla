---------------------------- MODULE MCMarketRows ----------------------------
(* Small instances of MarketRows for TLC.                                  *)
EXTENDS MarketRows, TLC

Symmetry == Permutations(Markets) \union Permutations(Syncs)
=============================================================================
