------------------------- MODULE MCRegistryImporter -------------------------
(* Instances of RegistryImporter for TLC. *)
EXTENDS RegistryImporter, TLC

Symmetry == Permutations(Refs) \cup Permutations(Syncs)

=============================================================================
