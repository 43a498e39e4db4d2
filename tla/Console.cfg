CONSTANTS
    ROWS = 2
    COLS = 8
    Backgrounds <- MCBackgrounds
    MaxFrames = 2
    MaxGlyphs = 1
SPECIFICATION MCSpec
INVARIANTS BlankAhead ScreenShowsFrame
