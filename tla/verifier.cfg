SPECIFICATION MCSpec
CONSTANTS
    c1 = c1
    KOp = KOp
    HashZero = HashZero
    NoRoot = NoRoot
    None = None
    Claims = {c1}
    MaxNonce = 2
    Genesis <- MCGenesis
    Publishable <- MCPublishable
    Freshness = 1
    Expiration <- C1Expires
    MaxTime = 2
    MaxBlock = 3
INVARIANTS
    AcceptedIsFresh
    AcceptedIsIssued
    HeldIsConsistent
    RootAlwaysFound
