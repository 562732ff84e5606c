------------------------- MODULE MCQuarantineResolution -------------------------
(* A small instance of QuarantineResolution for TLC.                       *)
EXTENDS QuarantineResolution, TLC

CONSTANTS o1, o2, u1, e1, e2

\* Two decisions of different occurrences, one of which reuses an event id,
\* and one that no reviewer may take.
TheManifests ==
    {[event |-> e1, occurrence |-> o1],
     [event |-> e2, occurrence |-> o2],
     [event |-> e1, occurrence |-> o2],
     [event |-> e2, occurrence |-> u1]}

Symmetry == Permutations(Brokers) \cup Permutations(Reviewers)
=============================================================================
