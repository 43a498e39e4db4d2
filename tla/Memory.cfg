SPECIFICATION MCSpec
CONSTANTS
    NENV = 3
    NPAGES = 15
    NENTRIES = 2
    RefMod = 16
    Layout <- TwoTables
    Values = {0, 1}
    SharedExit = TRUE
CHECK_DEADLOCK FALSE
INVARIANTS PagesOK MappedOnceApart
PROPERTIES ImplementsMemoryApart
