SPECIFICATION Spec
CONSTANTS
    c1 = c1
    c2 = c2
    KOp = KOp
    HashZero = HashZero
    NoTx = NoTx
    NoClaim = NoClaim
    Claims = {c1, c2}
    MaxNonce = 3
    ConfirmBlocks = 0
    MaxFaults = 2
    ExtraGenesisClaims <- NoExtraClaims
INVARIANTS
    NonceNamesOneClaim
    RootsCoverHistory
    PendingIsLastListed
    IndInv
    CredentialIsIssued
PROPERTIES
    ImplementsRegistry
SYMMETRY Symmetry
