CONSTANTS
    p1 = p1
    p2 = p2
    u1 = u1
    u2 = u2
    u3 = u3
    d1 = d1
    r1 = r1
    r2 = r2
    w1 = w1
    w2 = w2
    None = None
    Puts = {p1, p2}
    Uploads = {u1, u2}
    Deletes = {d1}
    Reapers = {r1}
    Deployments <- FileSystems
SPECIFICATION Spec
SYMMETRY PutUploadReaperSymmetry
INVARIANTS
    TypeOK
    LiveIsReadable
    VersionNamesContent
    AnswersAreTrue
CHECK_DEADLOCK FALSE
