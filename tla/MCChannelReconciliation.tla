----------------------- MODULE MCChannelReconciliation -----------------------
(* Instances of ChannelReconciliation for TLC. *)
EXTENDS ChannelReconciliation, TLC

Symmetry == Permutations(Calls)

=============================================================================
