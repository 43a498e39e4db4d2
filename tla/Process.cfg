CONSTANTS
    NENV = 3
    IdSpan = 3
    RunsMod = 4
    SleepMax = 1
    MaxNrThread = 1
    RunsWrap = FALSE
SPECIFICATION FairSpec
CHECK_DEADLOCK FALSE
INVARIANTS FreeListOK RunsInItsMemory ProcessIdsUnique
PROPERTIES RoundRobin OnlyLoaderLeftRunning RunnableRuns SleeperWakes
