SPECIFICATION HpSpec
CONSTANTS
    Stopper = {t1, t2}
    main = main
    nobody = nobody
    Faults = {"second", "start"}
INVARIANTS AliveWhenUsed Counted
PROPERTIES ClosesEnd
CHECK_DEADLOCK FALSE
