SPECIFICATION MCSpec
CONSTANTS
    NR_BLOCK = 7
    BLOCK_SZ = 1
    NR_OFFSET = 2
    NFCB = 2
    NR_FILE = 1
    Procs = {p1}
    NrFiles = 2
    FileBlocks = 1
    Bytes = {0, 1}
    SizeMod = 8
    Shared = TRUE
    CutInCall = TRUE
INVARIANTS FcbListOK SeekInFileForward DiskSoundOnce
PROPERTIES WriteIsLocalOnce FilesApartOnce
VIEW LiveView
