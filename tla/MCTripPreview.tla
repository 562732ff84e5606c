--------------------------- MODULE MCTripPreview ---------------------------
(* Two previews of the same trip over one or two modes.                    *)
EXTENDS TripPreview

MCHops == [TRANSIT |-> 2, CAR |-> 1, WALK |-> 1]
MCLegs == [TRANSIT |-> 1, CAR |-> 1, WALK |-> 2, OUT |-> 1, BACK |-> 1]
MCTtl  == [TRANSIT |-> 1, CAR |-> 1, WALK |-> 2, OUT |-> 1, BACK |-> 1]
=============================================================================
