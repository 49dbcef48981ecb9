CONSTANTS
    q1 = q1
    q2 = q2
    q3 = q3
    a = a
    b = b
    c = c
    f = f
    Requests = {q1, q2, q3}
    Ids = {a, b, c}
    Foreign = {f}
    NoBase = NoBase
    Gated = {}
    Oversize = {}
    Backends = {"neon"}
SPECIFICATION Spec
SYMMETRY RequestAndIdSymmetry
INVARIANTS
    LinearChain
    AckedIsDurable
    StaleIsFinal
    NobodyLeftBehind
PROPERTIES
    ImplementsChain
CHECK_DEADLOCK FALSE
