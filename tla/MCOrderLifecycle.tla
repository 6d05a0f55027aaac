-------------------------- MODULE MCOrderLifecycle --------------------------
(* Small instances of OrderLifecycle for TLC.                              *)
EXTENDS OrderLifecycle, TLC

\* Workers, and cancellations, are interchangeable.
Symmetry == Permutations(Workers) \union Permutations(Cancels)
=============================================================================
