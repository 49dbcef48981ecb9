CONSTANTS
    None = None
    Streams = {1, 2, 3, 4, 5, 6}
    Sids = {"a", "b", "c"}
    Replicas = {"r1", "r2"}
    MaxSessions = 1
    Scenarios <- AllScenarios
SPECIFICATION FairSpec
INVARIANTS
    TypeOK
    AcceptedIsAuthorized
PROPERTIES
    OneStream
    Settles
CHECK_DEADLOCK FALSE
