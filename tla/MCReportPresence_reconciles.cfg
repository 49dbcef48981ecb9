CONSTANT
    Scenarios <- AllScenarios
SPECIFICATION FairSpec
INVARIANTS
    TypeOK
    BaselineIsTrue
    CloudIsFollowed
PROPERTIES
    KeepsEdits
    Settles
CHECK_DEADLOCK FALSE
