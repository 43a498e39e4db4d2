CONSTANTS
    Slots = {1, 2}
    Calls = {3, 9, 10, 11, 15, 17, 26, 30}
    Results = {40}
    Addrs = {start, bad}
    start = start
    bad = bad
    Start = start
    Bad = bad
    Lines = {0, 7}
    Traps = {0, 14}
    MaxNest = 3
SPECIFICATION FairSpec
CHECK_DEADLOCK FALSE
INVARIANTS ProgramsUndisturbed NestsOnce
PROPERTIES InterruptsServed
