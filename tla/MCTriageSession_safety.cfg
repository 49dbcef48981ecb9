CONSTANTS
    c1 = c1
    c2 = c2
    f1 = f1
    f2 = f2
    color = color
    comment = comment
    v1 = v1
    v2 = v2
    v3 = v3
    None = None
    Clients = {c1, c2}
    Findings = {f1, f2}
    Fields = {color, comment}
    KeyframeInterval = 3
    MaxFailures = 2
    Resolver = TRUE
    Scenarios <- SafetyScenarios
SPECIFICATION Spec
INVARIANTS
    TypeOK
    BaseIsChainState
    ChangesAttributed
    RestIsFinal
PROPERTIES
    NothingForgotten
CHECK_DEADLOCK FALSE
