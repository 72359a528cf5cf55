SPECIFICATION Spec
CONSTANTS
    HIndexes = {0, 1, 4, 8}
    HValues = {v1, v2}
    MaxLevels = 4
    MaxFaults = 1
INVARIANTS
    RootCommitsToSet
    VersionsReadable
    ProofsVerify
    ProofsSound
    ProofsSurviveBytes
    AddEntryAcceptsWhatFits
