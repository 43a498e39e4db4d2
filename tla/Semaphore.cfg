CONSTANTS
    NENV = 3
    IdSpan = 1
    RunsMod = 3
    SleepMax = 1
    MaxNrThread = 0
    RunsWrap = FALSE
    NR_SEM = 2
    Names = {a, b}
    a = a
    b = b
    MaxDebt = 1
    MaxVal = 2
    RootWaits = FALSE
SPECIFICATION MCSpec
SYMMETRY NameSymmetry
CHECK_DEADLOCK FALSE
INVARIANTS NoLostWakeup BlockListsOK SemTableOK
PROPERTIES OnlyDestroyStrands Implements
