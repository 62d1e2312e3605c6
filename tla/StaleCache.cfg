SPECIFICATION Spec
CONSTANTS
    k233 = k233  k2332 = k2332  k0 = k0  c1 = c1  c2 = c2  p1 = p1  p2 = p2
    Keys = {k233}
    ValidKeys = {k233}
    Extends <- MCExtends
    Files = {"acme"}
    Contents = {c1, c2}
    Bad = Bad  Absent = Absent  Dir = Dir  NoModule = NoModule  None = None
    DiskStates <- GoodDisks
    PathsIn <- MCPathsIn
    Lex <- MCLex
    Deprioritized = {}
    Requests <- StaleRequests
    WithCache = TRUE
    CacheWithDescription = FALSE
    Faults = {}
    Procs = {p1, p2}
    MaxChanges = 1
INVARIANT ReadAfterReloadIsExact
