------------------------------ MODULE MCTxPool ------------------------------
(* TxPool for TLC.                                                         *)
EXTENDS TxPool, TLC

Symmetry == Permutations(Worker) \cup Permutations(Client) \cup Permutations(Event)
=============================================================================
