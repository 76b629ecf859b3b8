SPECIFICATION AdmSpec
CONSTANTS
    Inst = {i1, i2}
    Pid = {p1, p2}
    Inode = {n1, n2}
    NoPid = NoPid
    NoInode = NoInode
    NoInst = NoInst
    Strangers = {}
    Mode = {"run"}
    Faults = {}
    UserSignals = {}
    Tool = "script"
    Careful = FALSE
INVARIANT AtMostOneService
CHECK_DEADLOCK FALSE
