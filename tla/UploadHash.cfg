SPECIFICATION UploadSpec
CONSTANTS
    k1 = k1  d = d  x = x  y = y  u1 = u1  u2 = u2
    Keys = {k1}
    ValidKeys = {k1}
    Dirs = {d}
    DirOf <- MCDirOf
    Names = {"a", "b", "c"}
    Files = {"d/a.yang", "d/c.yang"}
    Join <- MCJoin
    In <- MCIn
    Yang = {"d/a.yang", "d/c.yang"}
    NoName = NoName  Hole = Hole  None = None  Unreadable = Unreadable
    Chunks = {x, y}
    Inodes = {1, 2, 3}
    Uploads = {u1}
    Messages <- MCMessages
    MaxChunks = 2
    Faults = {}
    KeyOf <- MCKeyOf
    Args <- TwoClients
    Local <- MCLocal
    HashMethod <- Sha256
    Window = 1
    Disconnects = {}
CHECK_DEADLOCK FALSE
INVARIANT HashAccepted
