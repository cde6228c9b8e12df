SPECIFICATION Spec
CONSTANTS
    a1 = a1
    p1 = p1
    p2 = p2
    Accounts = {a1}
    Procs = {p1, p2}
    MaxTokens = 3
    MaxKeys = 2
SYMMETRY Symmetry
INVARIANTS
    TypeOK
    KeyRemains
    SoloTokenWorks
    ForgottenForGood
