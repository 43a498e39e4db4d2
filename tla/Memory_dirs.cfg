SPECIFICATION MCSpec
CONSTANTS
    NENV = 3
    NPAGES = 12
    NENTRIES = 1
    RefMod = 13
    Layout <- OnePage
    Values = {0}
    SharedExit = FALSE
CHECK_DEADLOCK FALSE
INVARIANTS DirsCounted
