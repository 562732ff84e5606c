\* Two approvals race for candidates of the same predecessor; any process, or
\* the machine, may stop at any step. The system may end: ids are used up.
SPECIFICATION FaultSpec
CONSTANTS
    Snapshots = {s1, s2}
    Contents = {x1}
    Times = {t1, t2}
    Syncs = {y1}
    Promoters = {p1, p2}
    None = None
SYMMETRY Symmetry
CHECK_DEADLOCK FALSE
INVARIANTS
    CurrentIsServable
    PromotionIsRecoverable
PROPERTIES
    ImplementsLineage
