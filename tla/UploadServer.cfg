SPECIFICATION Spec
CONSTANTS
    k0 = k0  k1 = k1  k2 = k2  d = d  e = e  x = x  u1 = u1  u2 = u2
    Keys = {k0, k1, k2}
    ValidKeys = {k1, k2}
    Dirs = {d, e}
    DirOf <- MCDirOf
    Names = {"a", "s", "n"}
    Files = {"d/a.yang", "e/a.yang", "e/n"}
    Join <- MCJoin
    In <- MCIn
    Yang = {"d/a.yang", "e/a.yang"}
    NoName = NoName  Hole = Hole  None = None
    Chunks = {x}
    Inodes = {1, 2}
    Uploads = {u1, u2}
    Messages <- MCMessages
    MaxChunks = 2
    Faults = {"files", "store"}
SYMMETRY UploadSymmetry
CHECK_DEADLOCK FALSE
INVARIANTS TypeOK StoredWasVerified StoredFilesKept
