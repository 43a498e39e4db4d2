CONSTANTS
    Width = 8
    SECTSIZE = 2
    NPTENTRIES = 8
    PGSIZE = 4
    KERNPDX = 5
    IOPHYSMEM = 2
    EXTPHYSMEM = 3
    FIRSTFREE = 5
    npages = 24
    Memory <- MCMemory
    Disk <- MCDisk
    Addresses = {0, 1, 2, 3, 4, 5, 6, 7, 8, 9, 10, 11}
    FilePlaces = {0, 1, 2, 3, 4, 5}
    Sizes = {0, 1, 2, 3, 4}
    Counts = {0, 1, 2}
    Several = 2
    SCR_WIDTH = 24
    SCR_HEIGHT = 20
    Shifts = {3, 4}
SPECIFICATION Spec
INVARIANTS LibraryServes LoadedAsBuilt WindowWhole TablesAgree PicturesShown
CHECK_DEADLOCK FALSE
