\* Three names of two reviewers, two exporters, two manifests.
\* The system may end: all cases are decided and attested.
SPECIFICATION Spec
CONSTANTS
    c1 = c1
    m1 = m1
    Cases = {c1, c2}
    Restricted = {c2}
    a1 = a1
    a1renamed = a1renamed
    a2 = a2
    Actors = {a1, a1renamed, a2}
    Uid <- UidOf
    Manifests = {m1, m2}
    CasesOf <- SegmentCases
    Exporters = {x1, x2}
    None = None
    Partial = Partial
SYMMETRY Symmetry
CHECK_DEADLOCK FALSE
INVARIANTS
    ExportIsLoadable
    AttestationHolds
    RunIsResumable
PROPERTIES
    TerminalIsPublished
    ImplementsReview
