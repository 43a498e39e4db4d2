CONSTANTS
    Keys = {39}
    NFCB = 2
    Names = {"hello", "nofile"}
    Stored = {"hello"}
    MaxLine = 1
    MaxArgs = 1
    MaxRead = 1
SPECIFICATION FairSpec
INVARIANT DeniedMissing
