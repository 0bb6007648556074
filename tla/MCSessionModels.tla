-------------------------- MODULE MCSessionModels --------------------------
(* TLC instance of SessionModels: interchangeable sessions and models. *)
EXTENDS SessionModels, TLC

Symmetry == Permutations(Keys) \cup Permutations(Models)
============================================================================
