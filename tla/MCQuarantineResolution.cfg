\* Two brokers with their own sockets, two reviewers, four decisions; any
\* broker and the machine may die at any step.
SPECIFICATION Spec
CONSTANTS
    o1 = o1
    o2 = o2
    u1 = u1
    e1 = e1
    e2 = e2
    Occurrences = {o1, o2, u1}
    Upstream = {u1}
    EventIds = {e1, e2}
    Reviewers = {r1, r2}
    Brokers = {b1, b2}
    Manifests <- TheManifests
    None = None
SYMMETRY Symmetry
INVARIANTS
    SidecarIsValid
    AcknowledgedIsKept
    LockHolderWorks
PROPERTIES
    ImplementsDecisionLog
