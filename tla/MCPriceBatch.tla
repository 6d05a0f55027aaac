---------------------------- MODULE MCPriceBatch ----------------------------
(* Small instances of PriceBatch for TLC.                                  *)
EXTENDS PriceBatch, TLC

Symmetry == Permutations(Listed)
=============================================================================
