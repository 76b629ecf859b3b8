CONSTANTS
    Max = 2
    Servers <- NoTail
SPECIFICATION Spec
PROPERTIES ExistingKept
