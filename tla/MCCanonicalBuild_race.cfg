\* Two builders race for two releases of two cases: every interleaving of
\* lease, rename, commit, cleanup and crash.
SPECIFICATION Spec
CONSTANTS
    Releases = {r1, r2}
    Cases = {c1, c2}
    Contents = {x1}
    None = None
    Builders = {b1, b2}
SYMMETRY Symmetry
INVARIANTS
    IssuedBundleDurable
    CleanupTouchesOwnBundle
    HeadReadable
PROPERTIES
    ImplementsLedger
