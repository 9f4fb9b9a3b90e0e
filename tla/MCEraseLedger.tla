---------------------------- MODULE MCEraseLedger ----------------------------
(* Instances of EraseLedger for TLC. *)
EXTENDS EraseLedger, TLC

Symmetry == Permutations(Keys) \cup Permutations(Attempts)

==============================================================================
