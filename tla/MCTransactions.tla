--------------------------- MODULE MCTransactions ---------------------------
(* Model values for TLC; the workers, and the transactions with statements,  *)
(* can be exchanged for each other.                                          *)
EXTENDS Transactions, TLC

Symmetry == Permutations(Workers) \cup Permutations(Trans \ Empty) \cup Permutations(Callers)
=============================================================================
