SPECIFICATION Spec
CONSTANTS
    IdenStates = {s1, s2, s3, s4, s5, s6}
    CacheLen = 3
    Empty = Empty
    NotFound = NotFound
INVARIANTS
    
    RecentIsServed
