SPECIFICATION AdmSpec
CONSTANTS
    Inst = {i1}
    Pid = {p1, p2}
    Inode = {n1, n2}
    NoPid = NoPid
    NoInode = NoInode
    NoInst = NoInst
    Strangers = {}
    Mode = {"run"}
    Faults = {}
    UserSignals = {"HUP"}
    Tool = "jsvc"
    Careful = TRUE
INVARIANT DownMeansDown
