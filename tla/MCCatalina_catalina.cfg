CONSTANTS
    Command = {a, b}
    Pid = {p1, p2}
    Sleep = 1
    KillSleep = 1
SPECIFICATION Spec
INVARIANTS CtTypeOK OneTomcat NamedWhenUp
PROPERTY ForcedStopEnds
