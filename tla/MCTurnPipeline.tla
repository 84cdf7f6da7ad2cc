--------------------------- MODULE MCTurnPipeline ---------------------------
(* TurnPipeline on small instances: no step and no safety property tells   *)
(* replicas of a worker, or texts, apart.                                  *)
EXTENDS TurnPipeline

Symmetry == Permutations(Inbound) \cup Permutations(Media) \cup Permutations(Texts)
=============================================================================
