CONSTANTS
    Users = {u1, u2}
    Good = Good
    Other = Other
    None = None
    MaxFaults = 2
SPECIFICATION Spec
INVARIANTS
    GivenHasHash
    FileIsWhole
PROPERTIES
    FileStays
    FileObtained
