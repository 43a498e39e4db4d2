CONSTANTS
    Keys = {0, 39}
    NFCB = 2
    Names = {"hello", "nofile"}
    Stored = {"hello"}
    MaxLine = 1
    MaxArgs = 2
    MaxRead = 1
SPECIFICATION FairSpec
INVARIANTS NewlineEnds PromptClosed ListWhole
PROPERTIES OncePerPress KeyEntered CommandsEnd
