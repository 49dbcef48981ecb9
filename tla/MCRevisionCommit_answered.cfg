CONSTANTS
    q1 = q1
    q2 = q2
    q3 = q3
    a = a
    b = b
    c = c
    f = f
    Requests = {q1, q2}
    Ids = {a, b, c}
    Foreign = {f}
    NoBase = NoBase
    Gated = {q1}
    Oversize = {c}
    Backends = {"neon", "sqlite"}
SPECIFICATION FairSpec
INVARIANTS
    TypeOK
PROPERTIES
    ImplementsChain
    EverySaveAnswered
CHECK_DEADLOCK FALSE
