----------------------------- MODULE MCAdmission -----------------------------
(* Instances of Admission for TLC. *)
EXTENDS Admission, TLC

Symmetry ==
    Permutations(Keys) \cup Permutations(Bases) \cup Permutations(Enrollments)
    \cup Permutations(Controllers)

==============================================================================
