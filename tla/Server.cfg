SPECIFICATION ServerSpec
CONSTANTS
    kA = kA  kB = kB  c1 = c1  c2 = c2  l1 = l1  l2 = l2  p1 = p1
    Keys = {kA, kB}
    ValidKeys = {kA, kB}
    Extends <- MCExtends
    Files = {"acme", "base"}
    Contents = {c1, c2}
    Bad = Bad  Absent = Absent  Dir = Dir  NoModule = NoModule  None = None
    DiskStates <- MCDisks
    PathsIn <- MCPathsIn
    Lex <- MCLex
    Deprioritized = {}
    Requests <- MCRequests
    WithCache = FALSE
    CacheWithDescription = FALSE
    Faults = {"commit", "drop", "crash"}
    Procs = {l1, l2, p1}
    MaxChanges = 3
    Loaders = {l1, l2}
    Configured <- MCConfigured
    MaxFailures = 1
INVARIANTS ServingMeansLoaded ConfiguredAreServed
PROPERTIES StartupKeepsStored StartDecides RequestsReturn
