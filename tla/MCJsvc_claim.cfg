SPECIFICATION Spec
CONSTANTS
    Inst = {i1, i2}
    Pid = {p1, p2}
    Inode = {n1, n2}
    NoPid = NoPid
    NoInode = NoInode
    Strangers = {p1, p2}
    Mode = {"run", "check"}
    Faults = {"fork", "open", "start", "stop", "abort", "crash", "controller"}
    UserSignals = {"TERM"}
SYMMETRY Symmetry
VIEW View
INVARIANTS TypeOK ClaimInv SameFileExclusion
