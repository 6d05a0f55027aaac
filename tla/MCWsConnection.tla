--------------------------- MODULE MCWsConnection ---------------------------
(* Small instances of WsConnection for TLC.                                *)
EXTENDS WsConnection, TLC

Symmetry == Permutations(Sockets) \union Permutations(Tokens)
=============================================================================
