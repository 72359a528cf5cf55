SPECIFICATION LiveSpec
CONSTANTS
    c1 = c1
    c2 = c2
    KOp = KOp
    HashZero = HashZero
    NoTx = NoTx
    NoClaim = NoClaim
    Claims = {c1, c2}
    MaxNonce = 4
    ConfirmBlocks = 2
    MaxFaults = 0
    ExtraGenesisClaims <- OneExtraClaim
INVARIANTS
    NoFatalError
    KnownStateServed
PROPERTIES
    ImplementsStateGraph
    AdoptsConfirmed
    SyncCatchesUp
    ChangesReachChain
