CONSTANTS
    Max = 2
    Servers <- Asked
SPECIFICATION Spec
CONSTRAINT FewBroken
INVARIANTS DpTypeOK ServedFits
PROPERTIES MigratedFirst DeployedWhileDown LostOnlyUnlisted
