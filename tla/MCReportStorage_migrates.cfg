CONSTANTS
    Procs <- Three
    Scenarios <- AllScenarios
SPECIFICATION FairSpec
INVARIANTS
    TypeOK
    ReadsAreSound
    PlaintextIsGone
PROPERTIES
    MigrationEnds
CHECK_DEADLOCK FALSE
