SPECIFICATION Spec
CONSTANTS
    Requests = {r1, r2}
    DisplayModes = {"TRANSIT", "CAR"}
    Hops <- MCHops
    Legs <- MCLegs
    Ttl <- MCTtl
    MaxConcurrency = 2
    MaxAttempts = 2
    MaxEntries = 4
    FuelTtl = 1
    RateLimit = 1
    MaxTime = 1
\* Every request ends; then nothing is left to do.
CHECK_DEADLOCK FALSE
INVARIANTS
    UpstreamIsBounded
PROPERTIES
    AdmittedIsAnswered
