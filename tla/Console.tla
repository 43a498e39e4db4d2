------------------------------ MODULE Console ------------------------------
(***************************************************************************)
(* What programs put on the screen: text, at a cursor that moves through a *)
(* window and rolls it up (kernel/src/monitor/screen.c), and frames, drawn  *)
(* into a buffer of which only what changed is copied to the screen         *)
(* (kernel/src/device/video.c).                                            *)
(*                                                                         *)
(* The screen is a grid of cells of 8 x 8 pixels, 25 x 40 of them; x counts *)
(* rows and y columns, as in the code.  A cell holds 0, blank, or something *)
(* drawn.  display_buffer compares and copies words of four pixels, here    *)
(* whole cells: that a cell with text printed past the buffer is redrawn in *)
(* part, in the words in which the frame changed, is idealised to all of it. *)
(***************************************************************************)
EXTENDS Integers

CONSTANTS
    ROWS,        \* rows of text (23), 1 .. ROWS
    COLS,        \* columns of text (38), 1 .. COLS
    Backgrounds, \* the pictures programs draw
    MaxFrames    \* bound: frames displayed

Cells == (0 .. ROWS + 1) \X (0 .. COLS + 1)

ASSUME ConsoleAssumption ==
    /\ ROWS \in Nat \ {0} /\ COLS \in Nat \ {0}
    /\ Backgrounds \subseteq [Cells -> {0, 1}]
    /\ MaxFrames \in Nat

VARIABLES
    position_x, position_y, \* the cursor
    buffered,   \* does vmem point to vbuf?
    screen,     \* the video memory at VMEM_ADDR
    vbuf,       \* the buffer frames are drawn in
    vref,       \* the frame before
    direct,     \* (history) cells of the screen drawn past the buffer, and not
                \* copied to since
    frames      \* (history) frames displayed

cursor == <<position_x, position_y>>
vars == <<position_x, position_y, buffered, screen, vbuf, vref, direct, frames>>

Blank == [c \in Cells |-> 0]
-----------------------------------------------------------------------------
(***************************************************************************)
(* vmem, the memory that is drawn in                                       *)
(***************************************************************************)

vmem == IF buffered THEN vbuf ELSE screen

Draw(grid) ==
    IF buffered
    THEN vbuf' = grid /\ UNCHANGED <<screen, direct>>
    ELSE /\ screen' = grid
         /\ direct' = direct \cup {c \in Cells : grid[c] # screen[c]}
         /\ UNCHANGED vbuf

\* Mutant of prepare_buffer: the frame before is not kept.
prepare_buffer_keeps_ref ==
    /\ ~buffered
    /\ buffered' = TRUE /\ vbuf' = Blank
    /\ UNCHANGED <<cursor, screen, vref, direct, frames>>

\* Nobody prepares a second frame before the first is displayed: a program that
\* draws one (game/src/draw.c) makes no call that gives up the processor.
prepare_buffer ==
    /\ ~buffered
    /\ vref' = vbuf
    /\ buffered' = TRUE /\ vbuf' = Blank
    /\ UNCHANGED <<cursor, screen, direct, frames>>

\* Only what differs from the frame before is copied (by words in the code, by cells
\* here).
display_buffer ==
    /\ frames < MaxFrames
    /\ buffered' = FALSE
    /\ LET changed == {c \in Cells : vbuf[c] # vref[c]} IN
          /\ screen' = [c \in Cells |-> IF c \in changed THEN vbuf[c] ELSE screen[c]]
          /\ direct' = direct \ changed
    /\ frames' = frames + 1
    /\ UNCHANGED <<cursor, vbuf, vref>>

draw_background(b) ==
    /\ Draw(b)
    /\ UNCHANGED <<cursor, buffered, vref, frames>>
-----------------------------------------------------------------------------
(***************************************************************************)
(* Text                                                                    *)
(***************************************************************************)

\* A grid rolled up by a row.
screen_roll_up(grid) ==
    [c \in Cells |-> IF c[1] = ROWS + 1 THEN 0 ELSE grid[<<c[1] + 1, c[2]>>]]

\* Mutant of screen_enter: at the end of the window only the cursor stays.
screen_enter_no_roll(grid) ==
    /\ position_x' = IF position_x < ROWS THEN position_x + 1 ELSE ROWS
    /\ position_y' = 1
    /\ Draw(grid)

\* The cursor moves to the next line, after grid has been drawn.
screen_enter(grid) ==
    /\ position_x' = IF position_x < ROWS THEN position_x + 1 ELSE ROWS
    /\ position_y' = 1
    /\ Draw(IF position_x < ROWS THEN grid ELSE screen_roll_up(grid))

\* C divides towards zero.
Quot(a, b) == IF a >= 0 THEN a \div b ELSE -((-a) \div b)

TabStop(y) == (Quot(y - 2, 6) + 1) * 6 + 1

PrintTab ==
    /\ IF TabStop(position_y) > COLS
       THEN screen_enter(vmem)
       ELSE /\ position_y' = TabStop(position_y)
            /\ UNCHANGED <<position_x, screen, vbuf, direct>>
    /\ UNCHANGED <<buffered, vref, frames>>

PrintNewline == screen_enter(vmem) /\ UNCHANGED <<buffered, vref, frames>>

LineFull == position_y >= COLS

\* draw_character sets the pixels of a glyph and clears none.
PrintChar ==
    /\ LET drawn == [vmem EXCEPT ![cursor] = 1] IN
       IF LineFull THEN screen_enter(drawn)
       ELSE /\ position_y' = position_y + 1
            /\ Draw(drawn)
            /\ UNCHANGED position_x
    /\ UNCHANGED <<buffered, vref, frames>>
-----------------------------------------------------------------------------
Init ==
    /\ position_x = 1 /\ position_y = 1
    /\ buffered = FALSE
    /\ screen = Blank /\ vbuf = Blank /\ vref = Blank
    /\ direct = {} /\ frames = 0

PrintText == PrintTab \/ PrintNewline \/ PrintChar

Next ==
    \/ PrintText
    \/ \E b \in Backgrounds : draw_background(b)
    \/ prepare_buffer \/ display_buffer

Spec == Init /\ [][Next]_vars
-----------------------------------------------------------------------------
(***************************************************************************)
(* Properties                                                              *)
(***************************************************************************)

\* The cursor is in the window, where a glyph fits: draw_character has no test,
\* and one column further its pixels would be on the next line.
CursorInWindow == position_x \in 1 .. ROWS /\ position_y \in 1 .. COLS

TypeOK ==
    /\ CursorInWindow
    /\ buffered \in BOOLEAN
    /\ {screen, vbuf, vref} \subseteq [Cells -> {0, 1}]
    /\ direct \subseteq Cells
    /\ frames \in Nat

\* What the cursor has still to reach.
Ahead == {c \in Cells : c[1] > position_x \/ (c[1] = position_x /\ c[2] >= position_y)}

\* When a frame has been displayed, each cell of the screen shows it, if nothing
\* has been drawn on that cell past the buffer; while the next is being drawn,
\* it still shows the frame before.
ScreenShowsFrame ==
    \A c \in Cells \ direct : screen[c] = IF buffered THEN vref[c] ELSE vbuf[c]
=============================================================================
