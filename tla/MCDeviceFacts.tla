---------------------------- MODULE MCDeviceFacts ----------------------------
(* Instances of DeviceFacts for TLC. *)
EXTENDS DeviceFacts, TLC

Symmetry == Permutations(Calls) \cup Permutations(Policies) \cup Permutations(Commands)

=============================================================================
