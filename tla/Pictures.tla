------------------------------ MODULE Pictures ------------------------------
(***************************************************************************)
(* Pixels: the colours (device/palette.c), the picture behind the game      *)
(* (device/video.c, whatever picture it is) and text, a glyph of 8 x 8      *)
(* pixels for each character (monitor/font.c, and copies of it in the       *)
(* programs), drawn by the kernel (monitor/screen.c), by the game           *)
(* (game/src/draw.c) and by the shell (my_shell/src/lib.c).  A picture is   *)
(* a function from offsets to colours.                                      *)
(***************************************************************************)
EXTENDS Integers, Sequences, FiniteSetsExt, TLC

CONSTANTS
    SCR_WIDTH, SCR_HEIGHT,  \* (320 and 200)
    Shifts                  \* SCR_WIDTH as draw_pixel multiplies by it (8 and 6)

ASSUME PicturesAssumption ==
    /\ SCR_WIDTH \in Nat \ {0} /\ SCR_WIDTH % 8 = 0 /\ SCR_HEIGHT \in Nat \ {0}
    /\ Shifts \subseteq Nat

SCR_SIZE == SCR_WIDTH * SCR_HEIGHT
Blank == [a \in 0 .. SCR_SIZE - 1 |-> 0]
-----------------------------------------------------------------------------
(***************************************************************************)
(* Colours                                                                 *)
(***************************************************************************)

\* Three bits of red and of green, two of blue.
Eighths == <<0, 36, 72, 109, 145, 182, 218, 255>>
Thirds  == <<0, 85, 170, 255>>

palette ==
    [i \in 0 .. 255 |->
        <<Eighths[i \div 32 + 1], Eighths[((i \div 4) % 8) + 1], Thirds[(i % 4) + 1]>>]

\* The bytes sent to the converter's data port, after the index 0.
write_palette == [k \in 0 .. 767 |-> palette[k \div 3][(k % 3) + 1] \div 4]

\* The converter takes six bits of each, and goes on to the next colour by itself.
Converter == [i \in 0 .. 255 |-> [c \in 1 .. 3 |-> write_palette[(3 * i) + c - 1] % 64]]
-----------------------------------------------------------------------------
(***************************************************************************)
(* Pixels                                                                  *)
(***************************************************************************)

Pixels == (0 .. SCR_HEIGHT - 1) \X (0 .. SCR_WIDTH - 1)

\* The offset of a pixel as write_screen is told it, and as draw_pixel finds it.
Written(x, y) == x * SCR_WIDTH + y
Offset(x, y) == y + MapThenSumSet(LAMBDA k : x * 2 ^ k, Shifts)

\* Pixel by pixel; none is drawn twice.
draw_background(mem, picture) ==
    [a \in DOMAIN mem |->
        LET drawn == {p \in Pixels : Offset(p[1], p[2]) = a} IN
        IF drawn = {} THEN mem[a]
        ELSE LET p == CHOOSE p \in drawn : TRUE IN picture[p[1] * SCR_WIDTH + p[2]]]
-----------------------------------------------------------------------------
(***************************************************************************)
(* Text                                                                    *)
(***************************************************************************)

\* Some of the glyphs, a byte for each row: "+", "1", ":", "H", "_", "e" and "s".
font8x8_basic ==
    (43  :> <<0, 12, 12, 63, 12, 12, 0, 0>>) @@
    (49  :> <<12, 14, 12, 12, 12, 12, 63, 0>>) @@
    (58  :> <<0, 12, 12, 0, 0, 12, 12, 0>>) @@
    (72  :> <<51, 51, 51, 63, 51, 51, 51, 0>>) @@
    (95  :> <<0, 0, 0, 0, 0, 0, 0, 255>>) @@
    (101 :> <<0, 0, 30, 51, 63, 3, 30, 0>>) @@
    (115 :> <<0, 0, 62, 3, 30, 48, 31, 0>>)

\* The game and the shell have copies of the table.
game_font  == font8x8_basic
shell_font == font8x8_basic

\* A char is signed, and the shift keeps the sign.
Bit(p, j) == ((IF p < 128 THEN p ELSE p - 256) \div 2 ^ j) % 2 = 1
Lit(font, ch) == {p \in (0 .. 7) \X (0 .. 7) : Bit(font[ch][p[1] + 1], p[2])}

\* What is drawn of a character is added to what is there.
screen_draw_character(mem, ch, x, y, color) ==
    LET lit == {Written(x + p[1], y + p[2]) : p \in Lit(font8x8_basic, ch)}
    IN [a \in DOMAIN mem |-> IF a \in lit THEN color ELSE mem[a]]

\* A program asks the kernel for each pixel.
draw_character(font, mem, ch, x, y, color) ==
    LET lit == {Offset(x + p[1], y + p[2]) : p \in Lit(font, ch)}
    IN [a \in DOMAIN mem |-> IF a \in lit THEN color ELSE mem[a]]

\* Mutant of Following: a line may have one character more.
FollowingLate(at) ==
    IF at[2] + 8 > SCR_WIDTH THEN <<at[1] + 8, 0>> ELSE <<at[1], at[2] + 8>>

\* Where the next character goes.
Following(at) ==
    IF at[2] + 8 >= SCR_WIDTH THEN <<at[1] + 8, 0>> ELSE <<at[1], at[2] + 8>>

\* The places of n characters from (x, y) on.
Places(n, x, y) ==
    LET at[k \in 1 .. n] == IF k = 1 THEN <<x, y>> ELSE Following(at[k - 1])
    IN [k \in 1 .. n |-> at[k]]

draw_string(font, mem, str, x, y, color) ==
    LET at == Places(Len(str), x, y)
        after[k \in 0 .. Len(str)] ==
            IF k = 0 THEN mem
            ELSE draw_character(font, after[k - 1], str[k], at[k][1], at[k][2], color)
    IN after[Len(str)]

\* The functions of the shell are the same two, with its own table.
shell_draw_string(mem, str, x, y, color) == draw_string(shell_font, mem, str, x, y, color)
=============================================================================
