SPECIFICATION AdmFairSpec
CONSTANTS
    Inst = {i1, i2}
    Pid = {p1, p2}
    Inode = {n1, n2}
    NoPid = NoPid
    NoInode = NoInode
    NoInst = NoInst
    Strangers = {}
    Mode = {"run"}
    Faults = {"fork", "stop"}
    UserSignals = {}
    Tool = "script"
    Careful = TRUE
INVARIANTS AtMostOneService UpIsNamed DownMeansDown
PROPERTIES StopCompletes ClaimCompletes

