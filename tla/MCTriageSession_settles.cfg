CONSTANTS
    c1 = c1
    c2 = c2
    f1 = f1
    f2 = f2
    color = color
    comment = comment
    v1 = v1
    v2 = v2
    v3 = v3
    None = None
    Clients = {c1, c2}
    Findings = {f1}
    Fields = {color}
    KeyframeInterval = 3
    MaxFailures = 2
    Resolver = TRUE
    Scenarios <- LadderScenarios
SPECIFICATION LiveSpec
PROPERTIES
    Settles
CHECK_DEADLOCK FALSE
