-------------------------- MODULE MCSnapshotDelivery --------------------------
(* Small instances of SnapshotDelivery for TLC. *)
EXTENDS SnapshotDelivery, TLC

Symmetry == Permutations(Workers) \cup Permutations(Producers) \cup Permutations(Deliveries)
=============================================================================
