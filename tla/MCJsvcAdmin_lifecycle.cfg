SPECIFICATION AdmFairSpec
CONSTANTS
    Inst = {i1}
    Pid = {p1, p2}
    Inode = {n1}
    NoPid = NoPid
    NoInode = NoInode
    NoInst = NoInst
    Strangers = {p2}
    Mode = {"run", "check"}
    Faults = {"fork", "open", "start", "stop", "controller"}
    UserSignals = {"TERM", "HUP"}
    Tool = "jsvc"
    Careful = FALSE

PROPERTIES Supervision ReadyMeansUp

