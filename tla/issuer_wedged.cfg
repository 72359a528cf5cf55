SPECIFICATION LiveSpec
CONSTANTS
    c1 = c1
    c2 = c2
    KOp = KOp
    HashZero = HashZero
    NoTx = NoTx
    NoClaim = NoClaim
    Claims = {c1}
    MaxNonce = 2
    ConfirmBlocks = 1
    MaxFaults = 1
    ExtraGenesisClaims <- NoExtraClaims
PROPERTIES
    SyncCatchesUp
