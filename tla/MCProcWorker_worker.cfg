CONSTANTS
    Stopper = {t1, t2}
    main = main
    t1 = t1
    Configs <- All
SPECIFICATION Spec
INVARIANTS PwTypeOK OutputRead CodeStored
PROPERTIES KilledLast EndsWithChild StopKills
\* The program ends.
CHECK_DEADLOCK FALSE
