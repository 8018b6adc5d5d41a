------------------------------ MODULE MCBoltTx ------------------------------
(* Model-checking instance of BoltTx. *)
EXTENDS BoltTx, TLC

\* Threads and Tx objects are interchangeable.
Symmetric == Permutations(Threads) \cup Permutations(TxIds)
=============================================================================
