CONSTANTS
    SIZE = 3
    SCR_HEIGHT = 32
    SCR_WIDTH = 32
    table_length = 8
    PERIOD = 3
    UNIT = 10
    Speeds = {40, 75}
    ScoreMod = 3
SPECIFICATION FairSpec
INVARIANTS LettersListed EachCounted DrawnOnScreen
PROPERTY EachLands
