\* The life of two case ids over three releases that add, rewrite, drop and
\* try to revive them, through one builder whose build may fail at any step.
\* No symmetry: it is unsound for liveness.
SPECIFICATION LifeSpec
CONSTANTS
    Releases = {r1, r2, r3}
    Cases = {c1, c2}
    Contents = {x1, x2}
    None = None
    Builders = {b1}
CHECK_DEADLOCK FALSE
INVARIANTS
    DeltasDescribeIssuance
PROPERTIES
    BundleIsResolved
    IdentityIsPermanent
