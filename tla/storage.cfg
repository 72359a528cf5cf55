SPECIFICATION Spec
CONSTANTS
    TreePrefixes <- MCTreePrefixes
    TreeKeys <- MCTreeKeys
    TreeValues = {v1, v2}
    ListKeys = {k1, k2}
    NotFound = NotFound
    TreeTxs = {t1, t2}
    Own = Own
    MaxLen = 2
    MaxFaults = 1
INVARIANTS
    ListIsWhole
    ViewsAreSeparate
PROPERTIES
    ListOnlyGrows
