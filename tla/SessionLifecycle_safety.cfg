SPECIFICATION Spec
CONSTANTS
    c1 = c1
    c2 = c2
    c3 = c3
    p1 = p1
    p2 = p2
    p3 = p3
    Instances <- MCInstances2
    Procs <- MCProcs2
    SoftAttempts = 2
    Requests = {"start", "relink", "restore", "release", "delete"}
SYMMETRY Symmetry
INVARIANTS
    TypeOK
    RegisteredServed
PROPERTY
    AuthKept
