CONSTANTS
    Rules <- MCRules
    Unit = 953064000
    Limit = 2
    MaxRelations = 1
    MaxSpans = 2
    MaxFlags = 1
    Minimum = 2
    OneIn = 2
    Score <- MCScore
SPECIFICATION Spec
INVARIANTS
    ModesCombine
    AllowanceIsOwed
    AttemptsAreClean
    SearchIsGrounded
    FreshSearchAnswers
    ChunksShowTheCase
    EvidenceBinds
    RelationsBind
    NobodyEscapes
    SamplesSpeak
    PackageIsRead
    ExtractionIsWhole
    CasesAreWhole
