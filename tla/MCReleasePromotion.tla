--------------------------- MODULE MCReleasePromotion ---------------------------
(* Small instances of ReleasePromotion for TLC.                            *)
EXTENDS ReleasePromotion, TLC
=============================================================================
