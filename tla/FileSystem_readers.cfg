SPECIFICATION ForwardSpec
CONSTANTS
    NR_BLOCK = 5
    BLOCK_SZ = 1
    NR_OFFSET = 2
    NFCB = 2
    NR_FILE = 1
    Procs = {p1}
    NrFiles = 1
    FileBlocks = 1
    Bytes = {0, 1}
    SizeMod = 8
    Shared = TRUE
    CutInCall = FALSE
PROPERTIES ReadersDoNotWrite
