----------------------------- MODULE MCConsole -----------------------------
(***************************************************************************)
(* Console, either with text alone, in every pattern of glyphs and tabs, or *)
(* with pictures that fill the screen or leave it blank, and lines of at   *)
(* most MaxGlyphs glyphs between and inside them.                          *)
(***************************************************************************)
EXTENDS Console

CONSTANT MaxGlyphs

VARIABLE pictures  \* never changes: are there pictures?

mcVars == <<vars, pictures>>

MCBackgrounds == {Blank, [c \in Cells |-> 1]}

MCNext ==
    /\ IF pictures THEN Next /\ ~PrintTab /\ position_y' <= MaxGlyphs + 1
       ELSE PrintText
    /\ UNCHANGED pictures

MCInit == Init /\ pictures \in BOOLEAN
MCSpec == MCInit /\ [][MCNext]_mcVars

\* The cursor stays in the window, and as long as there are no pictures, what it
\* has still to reach is blank, after any number of tabs and of rolls: glyphs are
\* drawn over what is there without clearing it, so text over text would be
\* unreadable.
BlankAhead == TypeOK /\ (~pictures => \A c \in Ahead : screen[c] = 0)
=============================================================================
