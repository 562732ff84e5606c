\* Two promoters, four releases, also back to older ones; no lock in the code.
SPECIFICATION Spec
CONSTANTS
    Releases = {1, 2, 3, 4}
    First = 2
    Promoters = {p1, p2}
INVARIANTS
    QuietAgreement
PROPERTIES
    ManifestFollowsExpected
