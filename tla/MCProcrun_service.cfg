SPECIFICATION PrFairSpec
CONSTANTS
    Stopper = {t1, t2}
    Console = {t2}
    Configs <- All
INVARIANTS PrTypeOK StoppedMeansEnded FailureVisible EventOpenWhenSet
PROPERTIES EndsWithWorker ServiceManagerView
CHECK_DEADLOCK FALSE
