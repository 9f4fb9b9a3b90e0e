-------------------------- MODULE MCObservationCache --------------------------
(* Instances of ObservationCache for TLC. *)
EXTENDS ObservationCache, TLC

Symmetry == Permutations(Contents) \cup Permutations(Readers)

=============================================================================
