------------------------ MODULE MCGenericController ------------------------
(* Instances of GenericController for TLC. *)
EXTENDS GenericController, TLC

\* Keys are told apart by nothing, and neither are workers.
KeysAndWorkers == Permutations(Keys) \cup Permutations(Workers)
=============================================================================
