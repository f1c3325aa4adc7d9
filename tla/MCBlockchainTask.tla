-------------------------- MODULE MCBlockchainTask --------------------------
(* Small instances of the retry queue for TLC. *)
EXTENDS BlockchainTask, TLC

(* Rows and workers are interchangeable: nothing orders them. *)
Symmetry == Permutations(Tasks) \cup Permutations(Workers)
=============================================================================
