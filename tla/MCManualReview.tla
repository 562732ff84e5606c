----------------------------- MODULE MCManualReview -----------------------------
(* Small instances of ManualReview for TLC.                                *)
EXTENDS ManualReview, TLC

CONSTANTS a1, a1renamed, a2, c1, m1

\* a1 and a1renamed are names of one account.
UidOf(actor) == IF actor = a2 THEN 2 ELSE 1

\* The segment of m1 is the whole package, that of the others one case.
SegmentCases(manifest) == IF manifest = m1 THEN Cases ELSE {c1}

Symmetry == Permutations({a1, a1renamed}) \cup Permutations(Exporters)
=============================================================================
