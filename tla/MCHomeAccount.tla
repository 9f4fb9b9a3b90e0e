---------------------------- MODULE MCHomeAccount ----------------------------
(* Instances of HomeAccount for TLC. *)
EXTENDS HomeAccount, TLC

Symmetry == Permutations(Calls) \cup Permutations(Conns)

=============================================================================
