-------------------------- MODULE MCZhoubianAccount --------------------------
(* Instances of ZhoubianAccount. *)
EXTENDS ZhoubianAccount, TLC

Symmetric == Permutations(Sessions)

=============================================================================
