-------------------------- MODULE MCSnapshotPromotion --------------------------
(* A small instance of SnapshotPromotion for TLC.                          *)
EXTENDS SnapshotPromotion, TLC

Symmetry == Permutations(Snapshots) \cup Permutations(Times)
                \cup Permutations(Promoters)
=============================================================================
