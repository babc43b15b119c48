--------------------------- MODULE MCHybridStorage ---------------------------
(* Small instances of HybridStorage: clients and write-once keys are alike. *)
EXTENDS HybridStorage, TLC

Symmetry == Permutations(Clients) \cup Permutations(Once)
=============================================================================
