CONSTANTS
    Stores = {s1, s2}
    Keys = {k1, k2}
    Passwords = {p1, p2}
    Torn = Torn
    Nil = Nil
    MaxCalls = 3
    MaxFaults = 1
SPECIFICATION Spec
CONSTRAINT UntilShared
INVARIANTS
    KeysKept
    SharedOnlyIfOrphaned
    FinalizedIsClean
PROPERTY
    StorageObtainable
