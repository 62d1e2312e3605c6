SPECIFICATION Spec
CONSTANTS
    m1 = m1  m2 = m2
    Modules = {m1, m2}
    Rank <- MCRank
    MaxLen = 3
    Depths = {0, 1, 3}
    Stores = {"persistent", "memory"}
    Defects <- MCDefects
    Foreign = Foreign  NoModule = NoModule  None = None
INVARIANTS InOrder CompleteWhenOk OneTreePerWalk
PROPERTIES StreamReturns NoGoroutineLeft
CHECK_DEADLOCK FALSE
