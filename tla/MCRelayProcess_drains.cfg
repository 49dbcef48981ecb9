CONSTANTS
    w1 = w1
    s1 = s1
    j1 = j1
    j2 = j2
    n1 = n1
    None = None
    Rest = Rest
    MaxFailures = 2
    Notes = {n1}
    Sockets = {w1}
    Streams = {s1}
    Jobs = {j1, j2}
    MaxInflight = 1
SPECIFICATION FairSpec
INVARIANTS
    TypeOK
    NothingStray
PROPERTIES
    ProcessSettles
CHECK_DEADLOCK FALSE
