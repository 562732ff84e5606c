\* A build that SQLite refuses to commit, without any crash.
SPECIFICATION NoCrashSpec
CONSTANTS
    Releases = {r1}
    Cases = {c1}
    Contents = {x1}
    None = None
    Builders = {b1}
INVARIANTS
    NoUnissuedBundleLeft
