SPECIFICATION LiveSpec
CONSTANTS
    Procs = {p1, p2}
    Nonces = {n1, n2}
    Deltas = {0}
    Auxs = {a1}
    NoAux = NoAux
    Nil = Nil
    Every = 2
    MaxObjs = 2
    MaxTime = 2
INVARIANTS
    UsedOnce
PROPERTIES
    DeleteOldIsExact
    ExpiredLeaves
