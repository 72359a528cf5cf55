CONSTANTS
    Issuers = {i1, i2}
    Bytes = {0, 255}
    Payloads = {1}
    Numbers = {2}
    MaxNonce = 2
SPECIFICATION Spec
SYMMETRY Symmetry
INVARIANT LeafCommitsToData
