CONSTANTS
    Command = {a, b}
    MaxPoint = 1
SPECIFICATION Spec
INVARIANTS SaTypeOK Configured
PROPERTIES UpdateWorks AddKeeps CommandsEnd
