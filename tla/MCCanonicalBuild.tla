--------------------------- MODULE MCCanonicalBuild ---------------------------
(* Small instances of CanonicalBuild for TLC.                              *)
EXTENDS CanonicalBuild, TLC

\* Builders, cases and contents are interchangeable; releases are not
\* (NoJob chooses one).
Symmetry == Permutations(Builders) \cup Permutations(Cases)
                \cup Permutations(Contents)

\* Bound: a build is started for an unissued release, always the same one of
\* those, because the order in which ids are used up does not matter here.
InOrder ==
    \A b \in Builders :
        job'[b] # job[b] /\ pc[b] = "idle" =>
            job'[b].release \in Releases \ IssuedIds(releases)
            /\ job'[b].release = CHOOSE r \in Releases : ~Issued(r)

\* No crash, but a removal may be refused; in that order, and with the
\* fairness of running processes.
LifeSpec ==
    /\ Init
    /\ [][(BuilderNext \/ \E b \in Builders : RemovalFails(b)) /\ InOrder]_vars
    /\ Fairness
=============================================================================
