--------------------------- MODULE MCReleaseJobs ---------------------------
(* Two operators, each with a model lock of its own: named by the operator *)
(* itself, so that exchanging the operators exchanges the locks.           *)
EXTENDS ReleaseJobs, TLC

MCEncoder == [o \in Operators |-> o]
Exchange == Permutations(Operators)
=============================================================================
