SPECIFICATION Spec
CONSTANTS
    Operators = {o1, o2}
    Encoder <- MCEncoder
    Chunks = {1, 2}
    Sampled = {1}
SYMMETRY Exchange
CHECK_DEADLOCK FALSE
INVARIANT
    AttestedReleasePasses
