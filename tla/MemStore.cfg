SPECIFICATION Spec
CONSTANTS
    k = k  k0 = k0  c1 = c1  g1 = g1  g2 = g2  g3 = g3  p1 = p1  p2 = p2
    Keys = {k, k0}
    ValidKeys = {k}
    Files = {"a", "b"}
    Contents = {c1}
    Bad = Bad  Absent = Absent  Dir = Dir  None = None
    DiskStates <- MCDisks
    Requests <- MCRequests
    Procs = {p1, p2}
    Configs = {g1, g2, g3}
INVARIANTS TypeOK ConfigMatchesSchema
PROPERTY ImplementsSchemaStore
VIEW MCView
SYMMETRY MCSymmetry
