---------------------------- MODULE Start_proofs ----------------------------
(***************************************************************************)
(* For a window of any size and any pictures: the cursor stays in it, the   *)
(* screen shows the frame it should, and text goes where nothing is yet.    *)
(* For page tables, memories and disks of any size: page_init maps the      *)
(* whole of the memory through what it has mapped already, and programs are *)
(* loaded as they were built.                                              *)
(***************************************************************************)
EXTENDS MCConsole, Start, Lists

Grids == [Cells -> {0, 1}]

\* The grids, which the type invariant has too.
GridsOK ==
    /\ buffered \in BOOLEAN
    /\ screen \in Grids /\ vbuf \in Grids /\ vref \in Grids
    /\ direct \subseteq Cells
    /\ frames \in Nat

LEMMA VmemGrid == GridsOK => vmem \in Grids
BY DEF GridsOK, vmem

LEMMA RolledGrid ==
    ASSUME NEW g \in Grids PROVE screen_roll_up(g) \in Grids
<1>1. ASSUME NEW c \in Cells, c[1] # ROWS + 1 PROVE <<c[1] + 1, c[2]>> \in Cells
  BY <1>1, ConsoleAssumption DEF Cells
<1>2. QED
  BY <1>1 DEF screen_roll_up, Grids

\* Whatever grid is drawn, in the buffer or on the screen, cells of the screen that
\* are not noted as drawn directly are as they were.
LEMMA DrawKeeps ==
    ASSUME GridsOK, ScreenShowsFrame, NEW g \in Grids, Draw(g),
           UNCHANGED <<buffered, vref, frames>>
    PROVE  GridsOK' /\ ScreenShowsFrame'
<1>1. CASE buffered
  BY <1>1 DEF Draw, GridsOK, ScreenShowsFrame
<1>2. CASE ~buffered
  <2>1. GridsOK'
    BY <1>2 DEF Draw, GridsOK
  <2>2. ScreenShowsFrame'
    BY <1>2 DEF Draw, GridsOK, ScreenShowsFrame, Grids
  <2>3. QED BY <2>1, <2>2
<1>3. QED BY <1>1, <1>2

LEMMA EnterKeeps ==
    ASSUME GridsOK, ScreenShowsFrame, CursorInWindow, NEW g \in Grids, screen_enter(g),
           UNCHANGED <<buffered, vref, frames>>
    PROVE  GridsOK' /\ ScreenShowsFrame' /\ CursorInWindow'
<1>1. GridsOK' /\ ScreenShowsFrame'
  BY DrawKeeps, RolledGrid DEF screen_enter
<1>2. CursorInWindow'
  BY ConsoleAssumption DEF screen_enter, CursorInWindow
<1>3. QED BY <1>1, <1>2

\* A tab stop is right of the first column.
LEMMA StopsRight == \A y \in Nat : y >= 1 => TabStop(y) \in Nat /\ TabStop(y) >= 1
BY DEF TabStop, Quot

ConsoleInv == GridsOK /\ CursorInWindow /\ ScreenShowsFrame

LEMMA ConsoleInit == Init => ConsoleInv
<1> SUFFICES ASSUME Init PROVE ConsoleInv
  OBVIOUS
<1>1. Blank \in Grids
  BY DEF Blank, Grids
<1>2. GridsOK
  BY <1>1 DEF Init, GridsOK
<1>3. CursorInWindow
  BY ConsoleAssumption DEF Init, CursorInWindow
<1>4. ScreenShowsFrame
  BY DEF Init, ScreenShowsFrame
<1>5. QED BY <1>2, <1>3, <1>4 DEF ConsoleInv

LEMMA ConsoleNext == ConsoleInv /\ [Next]_vars => ConsoleInv'
<1> SUFFICES ASSUME ConsoleInv, [Next]_vars PROVE ConsoleInv'
  OBVIOUS
<1> USE DEF ConsoleInv
<1>1. CASE PrintTab
  <2>1. CASE TabStop(position_y) > COLS
    BY <1>1, <2>1, EnterKeeps, VmemGrid DEF PrintTab
  <2>2. CASE ~(TabStop(position_y) > COLS)
    <3>1. position_y \in Nat /\ position_y >= 1 /\ COLS \in Nat
      BY ConsoleAssumption DEF CursorInWindow
    <3>2. TabStop(position_y) \in 1 .. COLS
      BY <2>2, <3>1, StopsRight
    <3>3. CursorInWindow'
      BY <1>1, <2>2, <3>2 DEF PrintTab, CursorInWindow
    <3>4. GridsOK' /\ ScreenShowsFrame'
      BY <1>1, <2>2 DEF PrintTab, GridsOK, ScreenShowsFrame
    <3>5. QED BY <3>3, <3>4
  <2>3. QED BY <2>1, <2>2
<1>2. CASE PrintNewline
  BY <1>2, EnterKeeps, VmemGrid DEF PrintNewline
<1>3. CASE PrintChar
  <2> DEFINE drawn == [vmem EXCEPT ![cursor] = 1]
  <2>1. drawn \in Grids
    BY VmemGrid DEF Grids
  <2>2. CASE LineFull
    <3>1. screen_enter(drawn) /\ UNCHANGED <<buffered, vref, frames>>
      BY <1>3, <2>2 DEF PrintChar
    <3>2. QED BY <2>1, <3>1, EnterKeeps
  <2>3. CASE ~LineFull
    <3>1. Draw(drawn) /\ UNCHANGED <<buffered, vref, frames>>
      BY <1>3, <2>3 DEF PrintChar
    <3>2. GridsOK' /\ ScreenShowsFrame'
      BY <2>1, <3>1, DrawKeeps
    <3>3. CursorInWindow'
      BY <1>3, <2>3, ConsoleAssumption DEF PrintChar, LineFull, CursorInWindow
    <3>4. QED BY <3>2, <3>3
  <2>4. QED BY <2>2, <2>3
<1>4. ASSUME NEW b \in Backgrounds, draw_background(b) PROVE ConsoleInv'
  <2>1. b \in Grids
    BY <1>4, ConsoleAssumption DEF Grids
  <2>2. GridsOK' /\ ScreenShowsFrame'
    BY <1>4, <2>1, DrawKeeps DEF draw_background
  <2>3. CursorInWindow'
    BY <1>4 DEF draw_background, cursor, CursorInWindow
  <2>4. QED BY <2>2, <2>3
<1>5. CASE prepare_buffer
  BY <1>5 DEF prepare_buffer, cursor, GridsOK, CursorInWindow, ScreenShowsFrame, Blank, Grids
<1>6. CASE display_buffer
  <2> DEFINE changed == {c \in Cells : vbuf[c] # vref[c]}
  <2>1. /\ buffered' = FALSE /\ frames' = frames + 1
        /\ screen' = [c \in Cells |-> IF c \in changed THEN vbuf[c] ELSE screen[c]]
        /\ direct' = direct \ changed
        /\ UNCHANGED <<position_x, position_y, vbuf, vref>>
    BY <1>6 DEF display_buffer, cursor
  <2>2. GridsOK' /\ CursorInWindow'
    <3>1. screen' \in Grids
      BY <2>1 DEF GridsOK, Grids
    <3>2. GridsOK'
      <4>1. buffered' \in BOOLEAN
        BY <2>1
      <4>2. vbuf' \in Grids /\ vref' \in Grids
        BY <2>1 DEF GridsOK
      <4>3. direct' \subseteq Cells
        BY <2>1 DEF GridsOK
      <4>4. frames' \in Nat
        BY <2>1 DEF GridsOK
      <4>5. QED BY <3>1, <4>1, <4>2, <4>3, <4>4 DEF GridsOK
    <3>3. CursorInWindow'
      BY <2>1 DEF CursorInWindow
    <3>4. QED BY <3>2, <3>3
  <2>3. ASSUME NEW c \in Cells \ direct' PROVE screen'[c] = vbuf'[c]
    <3>1. CASE c \in changed
      BY <2>1, <3>1
    <3>2. CASE c \notin changed
      <4>1. c \notin direct /\ vbuf[c] = vref[c]
        BY <2>1, <3>2
      <4>2. screen[c] = vbuf[c]
        BY <4>1 DEF ScreenShowsFrame
      <4>3. QED BY <2>1, <3>2, <4>2
    <3>3. QED BY <3>1, <3>2
  <2>4. ScreenShowsFrame'
    BY <2>1, <2>3 DEF ScreenShowsFrame
  <2>5. QED BY <2>2, <2>4
<1>7. CASE UNCHANGED vars
  BY <1>7 DEF vars, GridsOK, CursorInWindow, ScreenShowsFrame
<1>8. QED
  BY <1>1, <1>2, <1>3, <1>4, <1>5, <1>6, <1>7 DEF Next, PrintText

LEMMA ConsoleInvariant == Spec => []ConsoleInv
<1>1. QED BY ConsoleInit, ConsoleNext, PTL DEF Spec

\* Printing never leaves the window (screen.c), and nothing writes other colours
\* than are drawn: the types of the console.
THEOREM ConsoleTypeCorrect == Spec => []TypeOK
<1>1. ConsoleInv => TypeOK
  BY DEF ConsoleInv, GridsOK, TypeOK, Grids
<1>2. QED BY ConsoleInvariant, <1>1, PTL

\* What display_buffer leaves out because it has not changed is on the screen
\* already (video.c), for any frames and any text between and in them.
THEOREM ScreenShows == Spec => []ScreenShowsFrame
<1>1. ConsoleInv => ScreenShowsFrame
  BY DEF ConsoleInv
<1>2. QED BY ConsoleInvariant, <1>1, PTL
-----------------------------------------------------------------------------
(***************************************************************************)
(* What the cursor has still to reach                                      *)
(***************************************************************************)

\* While there is text alone, it goes to the screen itself, and never to where
\* something is.
Clean == ~pictures => ~buffered /\ \A c \in Ahead : screen[c] = 0

\* A tab does not go back.
LEMMA TabsForward == \A y \in Nat : y >= 1 => TabStop(y) >= y
BY DEF TabStop, Quot

\* A new line: its cells were blank, or are new ones that rolled in from the blank
\* margin below the window.
LEMMA EnterClean ==
    ASSUME ConsoleInv, ~buffered, NEW g \in Grids, screen_enter(g),
           \A c \in Cells : c[1] > position_x => g[c] = 0
    PROVE  \A c \in Ahead' : screen'[c] = 0
<1> SUFFICES ASSUME NEW c \in Ahead' PROVE screen'[c] = 0
  OBVIOUS
<1>1. /\ position_x \in 1 .. ROWS /\ position_y \in 1 .. COLS
      /\ ROWS \in Nat /\ COLS \in Nat
  BY ConsoleAssumption DEF ConsoleInv, CursorInWindow
<1>2. /\ c \in Cells /\ c[1] \in 0 .. ROWS + 1 /\ c[2] \in 0 .. COLS + 1
      /\ c = <<c[1], c[2]>> /\ c[1] >= position_x'
  <2>1. position_x' \in Int
    BY <1>1 DEF screen_enter
  <2>2. QED BY <1>1, <2>1 DEF Ahead, Cells
<1>3. CASE position_x < ROWS
  <2>1. position_x' = position_x + 1 /\ screen' = g
    BY <1>3 DEF screen_enter, Draw
  <2>2. c[1] > position_x
    BY <1>1, <1>2, <2>1
  <2>3. QED BY <1>2, <2>1, <2>2
<1>4. CASE ~(position_x < ROWS)
  <2>1. position_x = ROWS /\ position_x' = ROWS /\ screen' = screen_roll_up(g)
    BY <1>1, <1>4 DEF screen_enter, Draw
  <2>2. CASE c[1] = ROWS + 1
    BY <1>2, <2>1, <2>2 DEF screen_roll_up
  <2>3. CASE c[1] # ROWS + 1
    <3>1. c[1] = ROWS
      BY <1>1, <1>2, <2>1, <2>3
    <3>2. <<c[1] + 1, c[2]>> \in Cells
      BY <1>1, <1>2, <3>1 DEF Cells
    <3>3. g[<<c[1] + 1, c[2]>>] = 0
      BY <1>1, <2>1, <3>1, <3>2
    <3>4. QED BY <1>2, <2>1, <2>3, <3>3 DEF screen_roll_up
  <2>4. QED BY <2>2, <2>3
<1>5. QED BY <1>3, <1>4

LEMMA CleanStep == ConsoleInv /\ Clean /\ [MCNext]_mcVars => Clean'
<1> SUFFICES ASSUME ConsoleInv, Clean, [MCNext]_mcVars PROVE Clean'
  OBVIOUS
<1>1. CASE UNCHANGED mcVars
  BY <1>1 DEF mcVars, vars, Clean, Ahead
<1>2. CASE pictures /\ MCNext
  BY <1>2 DEF MCNext, Clean
<1>3. CASE ~pictures /\ MCNext
  <2>1. PrintText /\ ~buffered /\ vmem = screen /\ buffered' = buffered
    BY <1>3 DEF MCNext, Clean, vmem, PrintText, PrintTab, PrintNewline, PrintChar
  <2>2. /\ position_x \in 1 .. ROWS /\ position_y \in 1 .. COLS
        /\ ROWS \in Nat /\ COLS \in Nat
    BY ConsoleAssumption DEF ConsoleInv, CursorInWindow
  <2>3. vmem \in Grids /\ \A c \in Ahead : screen[c] = 0
    BY <1>3, VmemGrid DEF ConsoleInv, Clean
  <2>4. \A c \in Cells : c[1] > position_x => vmem[c] = 0
    BY <2>1, <2>3 DEF Ahead
  <2>5. CASE screen_enter(vmem)
    BY <2>1, <2>3, <2>4, <2>5, EnterClean DEF Clean
  <2>6. CASE PrintTab /\ ~screen_enter(vmem)
    <3>1. position_y' = TabStop(position_y) /\ UNCHANGED <<position_x, screen>>
      BY <2>6 DEF PrintTab
    <3>2. TabStop(position_y) \in Nat /\ TabStop(position_y) >= position_y
      BY <2>2, StopsRight, TabsForward
    <3>3. Ahead' \subseteq Ahead
      BY <2>2, <3>1, <3>2 DEF Ahead, Cells
    <3>4. QED BY <2>1, <2>3, <3>1, <3>3 DEF Clean
  <2>7. CASE PrintChar
    <3> DEFINE drawn == [vmem EXCEPT ![cursor] = 1]
    <3>1. drawn \in Grids /\ \A c \in Cells : c # cursor => drawn[c] = vmem[c]
      BY <2>3 DEF Grids
    <3>2. CASE LineFull
      <4>1. screen_enter(drawn)
        BY <2>7, <3>2 DEF PrintChar
      <4>2. \A c \in Cells : c[1] > position_x => c # cursor
        BY <2>2 DEF cursor
      <4>3. \A c \in Cells : c[1] > position_x => drawn[c] = 0
        BY <2>4, <3>1, <4>2
      <4> HIDE DEF drawn
      <4>4. QED BY <2>1, <3>1, <4>1, <4>3, EnterClean DEF Clean
    <3>3. CASE ~LineFull
      <4>1. /\ position_y' = position_y + 1 /\ position_x' = position_x
            /\ screen' = drawn
        BY <2>1, <2>7, <3>3 DEF PrintChar, Draw
      <4>2. Ahead' \subseteq Ahead /\ cursor \notin Ahead'
        BY <2>2, <4>1 DEF Ahead, Cells, cursor
      <4>3. \A c \in Ahead' : c \in Cells
        BY DEF Ahead
      <4>4. QED BY <2>1, <2>3, <3>1, <4>1, <4>2, <4>3 DEF Clean
    <3>4. QED BY <3>2, <3>3
  <2>8. QED BY <2>1, <2>5, <2>6, <2>7 DEF PrintText, PrintNewline
<1>4. QED BY <1>1, <1>2, <1>3

\* Glyphs are drawn over what is there, so text can be read only where the screen
\* was blank (screen.c): with text alone all the cursor has still to reach is, after
\* any sequence of glyphs, tabs, ends of lines and rolls of a window of any size.
THEOREM BlankAheadHolds == MCSpec => []BlankAhead
<1>1. MCInit => ConsoleInv /\ Clean
  <2>1. Init => Clean
    BY DEF Init, Clean, Blank, Ahead
  <2>2. QED BY <2>1, ConsoleInit DEF MCInit
<1>2. ConsoleInv /\ Clean /\ [MCNext]_mcVars => ConsoleInv' /\ Clean'
  <2>1. [MCNext]_mcVars => [Next]_vars
    BY DEF MCNext, mcVars, Next
  <2>2. QED BY <2>1, ConsoleNext, CleanStep
<1>3. ConsoleInv /\ Clean => BlankAhead
  BY DEF ConsoleInv, GridsOK, TypeOK, Grids, Clean, BlankAhead
<1>4. QED BY <1>1, <1>2, <1>3, PTL DEF MCSpec
-----------------------------------------------------------------------------
(***************************************************************************)
(* Quotients                                                               *)
(***************************************************************************)

\* Products keep the order.
LEMMA Longer ==
    ASSUME NEW d \in Nat, NEW x \in Int, NEW y \in Int, x <= y
    PROVE  x * d <= y * d
OBVIOUS

LEMMA Divided ==
    ASSUME NEW d \in Nat \ {0}, NEW a \in Int
    PROVE  a \div d \in Int /\ a % d \in 0 .. d - 1 /\ a = (a \div d) * d + (a % d)
<1> DEFINE q == a \div d
           m == a % d
<1>1. q \in Int /\ m \in 0 .. d - 1 /\ a = d * q + m
  OBVIOUS
<1> HIDE DEF q, m
<1>2. d * q = q * d
  BY <1>1
<1>3. q \in Int /\ m \in 0 .. d - 1 /\ a = q * d + m
  BY <1>1, <1>2
<1>4. QED BY <1>3 DEF q, m

\* A number has one quotient and one remainder.
LEMMA Once ==
    ASSUME NEW d \in Nat \ {0}, NEW q \in Int, NEW r \in 0 .. d - 1,
           NEW p \in Int, NEW m \in 0 .. d - 1, p * d + m = q * d + r
    PROVE  p = q /\ m = r
<1>1. /\ p * d \in Int /\ q * d \in Int /\ r - m < d /\ m - r < d /\ r \in Int /\ m \in Int
      /\ d \in Nat
  OBVIOUS
<1>2. ASSUME p - q >= 1 PROVE FALSE
  <2>1. (q + 1) * d <= p * d
    BY <1>2, Longer
  <2>2. (q + 1) * d = q * d + d
    OBVIOUS
  <2>3. QED BY <1>1, <2>1, <2>2
<1>3. ASSUME q - p >= 1 PROVE FALSE
  <2>1. (p + 1) * d <= q * d
    BY <1>3, Longer
  <2>2. (p + 1) * d = p * d + d
    OBVIOUS
  <2>3. QED BY <1>1, <2>1, <2>2
<1>4. p = q
  BY <1>2, <1>3
<1>5. QED BY <1>1, <1>4

LEMMA Quotient ==
    ASSUME NEW d \in Nat \ {0}, NEW a \in Int,
           NEW q \in Int, NEW r \in 0 .. d - 1, a = q * d + r
    PROVE  a \div d = q /\ a % d = r
<1>1. a \div d \in Int /\ a % d \in 0 .. d - 1 /\ a = (a \div d) * d + (a % d)
  BY Divided
<1> DEFINE p == a \div d
           m == a % d
<1>2. p \in Int /\ m \in 0 .. d - 1 /\ p * d + m = q * d + r
  BY <1>1
<1> HIDE DEF p, m
<1>3. p = q /\ m = r
  BY <1>2, Once
<1>4. QED BY <1>3 DEF p, m

\* The quotient of a number below n * d is below n; that of a larger one not smaller.
LEMMA Below ==
    ASSUME NEW d \in Nat \ {0}, NEW a \in Nat
    PROVE  /\ a \div d \in Nat
           /\ \A n \in Int : a < n * d <=> a \div d < n
<1> DEFINE q == a \div d
           m == a % d
<1>1. q \in Int /\ m \in 0 .. d - 1 /\ a = q * d + m
  BY Divided
<1> HIDE DEF q, m
<1>2. ASSUME NEW n \in Int PROVE a < n * d <=> q < n
  <2>1. q * d \in Int /\ n * d \in Int /\ (q + 1) * d = q * d + d
    BY <1>1
  <2>2. CASE q < n
    <3>1. (q + 1) * d <= n * d
      BY <1>1, <2>2, Longer
    <3>2. QED BY <1>1, <2>1, <2>2, <3>1
  <2>3. CASE ~(q < n)
    <3>1. n * d <= q * d
      BY <1>1, <2>3, Longer
    <3>2. QED BY <1>1, <2>1, <2>3, <3>1
  <2>4. QED BY <2>2, <2>3
<1>3. q >= 0
  <2>1. a < 0 * d <=> q < 0
    BY <1>2
  <2>2. 0 * d = 0
    OBVIOUS
  <2>3. QED BY <1>1, <2>1, <2>2
<1>4. q \in Nat
  BY <1>1, <1>3
<1>5. QED BY <1>2, <1>4 DEF q

LEMMA Small ==
    ASSUME NEW d \in Nat \ {0}, NEW a \in 0 .. d - 1
    PROVE  a \div d = 0 /\ a % d = a
<1>1. a \in Nat /\ a < 1 * d /\ 0 * d = 0
  OBVIOUS
<1>2. a \div d \in Nat /\ a \div d < 1
  BY <1>1, Below
<1>3. a \div d = 0
  BY <1>2
<1>4. a = (a \div d) * d + (a % d) /\ a % d \in 0 .. d - 1
  BY <1>1, Divided
<1>5. QED BY <1>1, <1>3, <1>4

-----------------------------------------------------------------------------
(***************************************************************************)
(* Linear addresses                                                        *)
(***************************************************************************)

LEMMA PagingConstants ==
    /\ NPTENTRIES \in Nat \ {0} /\ PGSIZE \in Nat \ {0} /\ PTSIZE \in Nat \ {0}
    /\ KERNPDX \in Index \ {0} /\ 0 \in Index
    /\ FIRSTFREE \in Nat /\ FIRSTFREE < NPTENTRIES
    /\ npages \in Nat /\ NPTENTRIES <= npages
    /\ DOMAIN KernelImage \subseteq 1 .. FIRSTFREE - 1
    /\ DOMAIN KernelImage = EXTPHYSMEM .. FIRSTFREE - 1
    /\ EXTPHYSMEM \in DOMAIN KernelImage
<1>1. PTSIZE \in Nat \ {0}
  <2>1. 1 * PGSIZE <= NPTENTRIES * PGSIZE /\ NPTENTRIES * PGSIZE \in Int
    BY PagingAssumption, Longer
  <2>2. QED BY <2>1, PagingAssumption DEF PTSIZE
<1>2. QED BY <1>1, PagingAssumption DEF Index, KernelImage

\* An address is taken apart as it was put together.
LEMMA TakenApart ==
    ASSUME NEW d \in Index, NEW t \in Index, NEW o \in 0 .. PGSIZE - 1
    PROVE  LET la == PGADDR(d, t, o)
           IN la \in Nat /\ PDX(la) = d /\ PTX(la) = t /\ PGOFF(la) = o
<1> DEFINE la == PGADDR(d, t, o)
           E == NPTENTRIES
           P == PGSIZE
<1>1. /\ E \in Nat \ {0} /\ P \in Nat \ {0} /\ PTSIZE = E * P /\ PTSIZE \in Nat \ {0}
      /\ d \in 0 .. E - 1 /\ t \in 0 .. E - 1 /\ d \in Nat /\ t \in Nat
  BY PagingConstants DEF Index, PTSIZE
<1> HIDE DEF E, P
<1>2. d * PTSIZE \in Nat /\ t * P \in Nat /\ E * P \in Nat /\ d * E \in Nat
  BY <1>1
<1>3. la = d * PTSIZE + (t * P + o) /\ la \in Nat
  BY <1>1, <1>2 DEF PGADDR, P
<1>4. t * P + o \in 0 .. PTSIZE - 1
  <2>1. (t + 1) * P <= E * P
    BY <1>1, Longer
  <2>2. (t + 1) * P = t * P + P
    BY <1>1
  <2>3. QED BY <1>1, <1>2, <2>1, <2>2 DEF P
<1>5. la \div PTSIZE = d
  <2> DEFINE x == t * P + o
  <2>1. x \in 0 .. PTSIZE - 1 /\ la = d * PTSIZE + x
    BY <1>3, <1>4
  <2> HIDE DEF x, la
  <2>2. QED BY <1>1, <1>3, <2>1, Quotient
<1>6. d % E = d /\ d \div E = 0
  BY <1>1, Small
<1>7. la = (d * E + t) * P + o
  <2>1. d * (E * P) = (d * E) * P
    BY <1>1
  <2>2. (d * E + t) * P = (d * E) * P + t * P
    BY <1>1, <1>2
  <2>3. QED BY <1>1, <1>2, <1>3, <2>1, <2>2
<1>8. d * E + t \in Nat /\ (d * E + t) % E = t
  <2> DEFINE x == d * E + t
  <2>1. x \in Nat /\ x = d * E + t
    BY <1>1, <1>2
  <2>2. E \in Nat \ {0} /\ d \in Int /\ t \in 0 .. E - 1
    BY <1>1
  <2> DEFINE p == x \div E
             m == x % E
  <2> HIDE DEF x
  <2>3. x \in Int /\ E \in Nat \ {0}
    BY <2>1, <2>2
  <2>4. p \in Int /\ m \in 0 .. E - 1 /\ x = p * E + m
    BY <2>3, Divided
  <2> HIDE DEF p, m
  <2>5. p = d /\ m = t
    BY <2>1, <2>2, <2>4, Once
  <2>6. QED BY <2>1, <2>5 DEF x, m
<1>9. la \div P = d * E + t /\ la % P = o
  <2> DEFINE x == d * E + t
  <2>1. x \in Nat /\ la = x * P + o /\ o \in 0 .. P - 1
    BY <1>7, <1>8 DEF P
  <2> HIDE DEF x, la
  <2>2. la \div P = x /\ la % P = o
    BY <1>1, <1>3, <2>1, Quotient
  <2>3. QED BY <2>2 DEF x
<1>10. QED
  BY <1>3, <1>5, <1>6, <1>8, <1>9 DEF PDX, PTX, PGOFF, E, P

\* Each address has its parts.
LEMMA PutTogether ==
    ASSUME NEW la \in 0 .. NPTENTRIES * PTSIZE - 1
    PROVE  \E d, t \in Index, o \in 0 .. PGSIZE - 1 : la = PGADDR(d, t, o)
<1> DEFINE d == la \div PTSIZE
           x == la % PTSIZE
           t == x \div PGSIZE
           o == x % PGSIZE
<1>1. NPTENTRIES * PTSIZE \in Int /\ la \in Nat /\ la < NPTENTRIES * PTSIZE
  BY PagingConstants
<1>2. d \in Nat /\ d < NPTENTRIES
  BY <1>1, PagingConstants, Below
<1>3. x \in 0 .. PTSIZE - 1 /\ la = d * PTSIZE + x
  <2>1. la \in Int /\ PTSIZE \in Nat \ {0}
    BY <1>1, PagingConstants
  <2>2. QED BY <2>1, Divided
<1> HIDE DEF d, x
<1>4. x \in Nat /\ x < NPTENTRIES * PGSIZE
  BY <1>3, PagingConstants DEF PTSIZE
<1>5. t \in Nat /\ t < NPTENTRIES
  BY <1>4, PagingConstants, Below
<1>6. o \in 0 .. PGSIZE - 1 /\ x = t * PGSIZE + o
  <2>1. x \in Int /\ PGSIZE \in Nat \ {0}
    BY <1>4, PagingConstants
  <2>2. QED BY <2>1, Divided
<1> HIDE DEF t, o
<1>7. d * PTSIZE \in Int /\ t * PGSIZE \in Int
  BY <1>2, <1>5, PagingConstants
<1>8. la = PGADDR(d, t, o)
  BY <1>3, <1>6, <1>7 DEF PGADDR
<1>9. QED BY <1>2, <1>5, <1>6, <1>8, PagingConstants DEF Index

\* Where KADDR says a page is.
LEMMA WindowAddress ==
    ASSUME NEW p \in 0 .. npages - 1, NEW o \in 0 .. PGSIZE - 1
    PROVE  LET d == KERNPDX + p \div NPTENTRIES
               t == p % NPTENTRIES
           IN d \in Index /\ t \in Index /\ KADDR(p * PGSIZE + o) = PGADDR(d, t, o)
<1> DEFINE q == p \div NPTENTRIES
           t == p % NPTENTRIES
           K == KERNPDX
           E == NPTENTRIES
           P == PGSIZE
<1>1. /\ E \in Nat \ {0} /\ P \in Nat \ {0} /\ K \in 1 .. E - 1 /\ PTSIZE = E * P
      /\ p \in Nat /\ p < (E - K) * E
  BY PagingAssumption DEF PTSIZE
<1>2. q \in Nat /\ q < E - K
  BY <1>1, Below
<1>3. t \in 0 .. E - 1 /\ p = q * E + t
  BY <1>1, Divided
<1> HIDE DEF q, t, E, P, K
<1>4. K + q \in Index /\ t \in Index
  BY <1>1, <1>2, <1>3 DEF Index, E
<1>5. p * P = (q * E) * P + t * P /\ (q * E) * P = q * (E * P)
  BY <1>1, <1>2, <1>3
<1>6. (K + q) * PTSIZE = K * PTSIZE + q * PTSIZE
  BY <1>1, <1>2
<1>7. K * PTSIZE \in Int /\ q * PTSIZE \in Int /\ t * P \in Int /\ p * P \in Int
  BY <1>1, <1>2, <1>3
<1>8. KADDR(p * P + o) = PGADDR(K + q, t, o)
  BY <1>1, <1>5, <1>6, <1>7 DEF KADDR, KERNBASE, PGADDR, K, P
<1>9. QED BY <1>4, <1>8 DEF q, t, K, P, E
-----------------------------------------------------------------------------
(***************************************************************************)
(* page_init                                                               *)
(***************************************************************************)

\* The memory after i pages have been mapped, with q tables beside the first.
Window(table, q, i) ==
    [dir |-> [d \in Index |-> IF d \in {0, KERNPDX} THEN table
                             ELSE IF d - KERNPDX \in 1 .. q THEN FIRSTFREE + (d - KERNPDX) - 1
                             ELSE Absent],
     tables |-> [t \in {table} \cup FIRSTFREE .. FIRSTFREE + q - 1 |->
                   [x \in Index |->
                      IF t = table THEN x
                      ELSE IF (t - FIRSTFREE + 1) * NPTENTRIES + x < i
                      THEN (t - FIRSTFREE + 1) * NPTENTRIES + x ELSE Absent]],
     free |-> [k \in 1 .. npages - FIRSTFREE - q |-> FIRSTFREE + q + k - 1],
     sound |-> TRUE]

\* A page that is mapped already, or that the constant table has, is where KADDR says.
LEMMA WindowReach ==
    ASSUME NEW table \in DOMAIN KernelImage, NEW q \in Nat, NEW i \in Nat,
           NEW p \in 0 .. npages - 1, NEW o \in 0 .. PGSIZE - 1,
           p < NPTENTRIES \/ (p < i /\ p \div NPTENTRIES <= q)
    PROVE  Translate(Window(table, q, i), KADDR(p * PGSIZE + o)) = p * PGSIZE + o
<1> DEFINE la == KADDR(p * PGSIZE + o)
           n == p \div NPTENTRIES
           t == p % NPTENTRIES
           m == Window(table, q, i)
<1>1. p \in Nat /\ NPTENTRIES \in Nat \ {0}
  BY PagingConstants
<1>2. /\ KERNPDX + n \in Index /\ t \in Index
      /\ la = PGADDR(KERNPDX + n, t, o)
  BY WindowAddress
<1>3. PDX(la) = KERNPDX + n /\ PTX(la) = t /\ PGOFF(la) = o
  BY <1>2, TakenApart
<1>4. n \in Nat /\ (p < 1 * NPTENTRIES <=> n < 1)
  BY <1>1, Below
<1>5. p = n * NPTENTRIES + t
  BY <1>1, Divided
<1> HIDE DEF la, n, t
<1>6. /\ KERNPDX \in Nat /\ KERNPDX # 0 /\ FIRSTFREE \in Nat
      /\ table \in Nat /\ table < FIRSTFREE /\ t \in Nat /\ Absent = -1
  BY <1>2, PagingConstants DEF Index, Absent
<1>7. CASE n = 0
  <2>1. p = t
    BY <1>1, <1>5, <1>6, <1>7
  <2>2. m.dir[KERNPDX + n] = table
    BY <1>2, <1>6, <1>7 DEF Window
  <2>3. m.tables[table][t] = t
    BY <1>2 DEF Window
  <2> HIDE DEF m
  <2>4. Translate(m, la) = t * PGSIZE + o
    BY <1>3, <1>6, <2>2, <2>3 DEF Translate
  <2>5. QED BY <2>1, <2>4 DEF la, m
<1>8. CASE n # 0
  <2>1. n \in 1 .. q /\ p < i
    BY <1>1, <1>4, <1>8 DEF n
  <2> DEFINE tb == FIRSTFREE + n - 1
  <2>2. m.dir[KERNPDX + n] = tb
    BY <1>2, <1>6, <2>1 DEF Window
  <2>3. tb \in FIRSTFREE .. FIRSTFREE + q - 1 /\ tb # table /\ tb - FIRSTFREE + 1 = n
    BY <1>6, <2>1
  <2> HIDE DEF tb
  <2>4. m.tables[tb][t] = p
    BY <1>2, <1>5, <2>1, <2>3 DEF Window
  <2> HIDE DEF m
  <2>5. tb # Absent /\ p # Absent
    BY <1>1, <1>6, <2>3
  <2>6. Translate(m, la) = p * PGSIZE + o
    BY <1>3, <2>2, <2>4, <2>5 DEF Translate
  <2>7. QED BY <2>6 DEF la, m
<1>9. QED BY <1>7, <1>8

\* Where the page i of the memory goes: the directory's entry, and the table's.
LEMMA Place ==
    ASSUME NEW i \in 0 .. npages - 1
    PROVE  LET va == KADDR(i * PGSIZE)
               n == i \div NPTENTRIES
               t == i % NPTENTRIES
           IN /\ PDX(va) = KERNPDX + n /\ PTX(va) = t
              /\ KERNPDX + n \in Index /\ t \in Index /\ n \in Nat
              /\ i = n * NPTENTRIES + t
<1> DEFINE n == i \div NPTENTRIES
           t == i % NPTENTRIES
<1>1. i \in Nat /\ NPTENTRIES \in Nat \ {0} /\ PGSIZE \in Nat \ {0} /\ 0 \in 0 .. PGSIZE - 1
  BY PagingConstants
<1>2. /\ KERNPDX + n \in Index /\ t \in Index
      /\ KADDR(i * PGSIZE + 0) = PGADDR(KERNPDX + n, t, 0)
  BY <1>1, WindowAddress
<1>3. i * PGSIZE + 0 = i * PGSIZE
  BY <1>1
<1>4. n \in Nat
  BY <1>1, Below
<1>5. i = n * NPTENTRIES + t
  BY <1>1, Divided
<1>6. /\ PDX(PGADDR(KERNPDX + n, t, 0)) = KERNPDX + n
      /\ PTX(PGADDR(KERNPDX + n, t, 0)) = t
  <2> HIDE DEF n, t
  <2>1. QED BY <1>1, <1>2, TakenApart
<1>7. QED BY <1>2, <1>3, <1>4, <1>5, <1>6

\* The table for a page is there, or was the next to be made.
LEMMA WalkFound ==
    ASSUME NEW table \in DOMAIN KernelImage, NEW q \in Nat, NEW i \in Nat,
           NEW p \in 0 .. npages - 1, p \div NPTENTRIES <= q
    PROVE  LET m == Window(table, q, i)
           IN /\ pgdir_walk(m, KADDR(p * PGSIZE)) = m
              /\ m.dir[PDX(KADDR(p * PGSIZE))] =
                    IF p < NPTENTRIES THEN table
                    ELSE FIRSTFREE + (p \div NPTENTRIES) - 1
<1> DEFINE va == KADDR(p * PGSIZE)
           n == p \div NPTENTRIES
           m == Window(table, q, i)
<1>1. PDX(va) = KERNPDX + n /\ KERNPDX + n \in Index /\ n \in Nat
  BY Place
<1>2. p < 1 * NPTENTRIES <=> n < 1
  BY PagingConstants, Below
<1>3. p < NPTENTRIES <=> n = 0
  BY <1>1, <1>2, PagingConstants
<1> HIDE DEF va, n
<1>4. n <= q
  BY DEF n
<1>5. /\ KERNPDX \in Nat /\ KERNPDX # 0 /\ FIRSTFREE \in Nat
      /\ table \in Nat /\ Absent = -1
  BY PagingConstants DEF Index, Absent
<1>6. m.dir[KERNPDX + n] = IF n = 0 THEN table ELSE FIRSTFREE + n - 1
  BY <1>1, <1>4, <1>5 DEF Window
<1> HIDE DEF m
<1>7. m.dir[PDX(va)] # Absent
  BY <1>1, <1>5, <1>6
<1>8. pgdir_walk(m, va) = m
  BY <1>7 DEF pgdir_walk
<1>9. QED BY <1>1, <1>3, <1>6, <1>8 DEF va, n, m

\* There are free pages for all tables, and they are mapped before they are tables.
LEMMA Enough ==
    ASSUME NEW p \in 0 .. npages - 1, p >= NPTENTRIES
    PROVE  /\ FIRSTFREE + (p \div NPTENTRIES) <= p
           /\ FIRSTFREE + (p \div NPTENTRIES) <= npages - 1
<1> DEFINE n == p \div NPTENTRIES
           E == NPTENTRIES
<1>1. p \in Nat /\ E \in Nat \ {0} /\ FIRSTFREE \in Nat /\ FIRSTFREE < E /\ npages \in Nat
  BY PagingConstants
<1>2. n \in Nat /\ (p < 1 * E <=> n < 1)
  BY <1>1, Below
<1>3. p = n * E + (p % E) /\ p % E \in 0 .. E - 1
  BY <1>1, Divided
<1> DEFINE t == p % E
<1> HIDE DEF n, t
<1>4. n >= 1
  BY <1>1, <1>2
<1>5. (n - 1) * 1 <= (n - 1) * E
  BY <1>1, <1>2, <1>4
<1>6. (n - 1) * E = n * E - E /\ n * E \in Int
  BY <1>1, <1>2
<1>7. FIRSTFREE + n <= p
  BY <1>1, <1>2, <1>3, <1>5, <1>6 DEF t
<1>8. QED BY <1>1, <1>2, <1>7 DEF n

LEMMA PageReached ==
    ASSUME NEW table \in DOMAIN KernelImage, NEW q \in Nat, NEW i \in Nat,
           NEW p \in 0 .. npages - 1,
           p < NPTENTRIES \/ (p < i /\ p \div NPTENTRIES <= q)
    PROVE  Reached(Window(table, q, i), p)
<1>1. 0 \in 0 .. PGSIZE - 1 /\ p * PGSIZE + 0 = p * PGSIZE
  BY PagingConstants
<1>2. Translate(Window(table, q, i), KADDR(p * PGSIZE + 0)) = p * PGSIZE + 0
  BY <1>1, WindowReach
<1>3. QED BY <1>1, <1>2 DEF Reached

LEMMA WalkNew ==
    ASSUME NEW table \in DOMAIN KernelImage, NEW q \in Nat, NEW i \in 0 .. npages - 1,
           i = (q + 1) * NPTENTRIES
    PROVE  pgdir_walk(Window(table, q, i), KADDR(i * PGSIZE)) = Window(table, q + 1, i)
<1> DEFINE m == Window(table, q, i)
           va == KADDR(i * PGSIZE)
           E == NPTENTRIES
           page == FIRSTFREE + q
           d == KERNPDX + q + 1
<1>1. /\ E \in Nat \ {0} /\ KERNPDX \in Nat /\ KERNPDX # 0 /\ FIRSTFREE \in Nat
      /\ FIRSTFREE < E /\ npages \in Nat /\ table \in Nat /\ table < FIRSTFREE
      /\ Absent = -1 /\ i \in Nat
  BY PagingConstants DEF Index, Absent
<1>2. i \div E = q + 1
  <2>1. 0 \in 0 .. E - 1 /\ q + 1 \in Int /\ i \in Int /\ (q + 1) * E \in Int
    BY <1>1
  <2>2. i = (q + 1) * E + 0
    BY <2>1
  <2>3. QED BY <1>1, <2>1, <2>2, Quotient
<1>3. PDX(va) = d /\ d \in Index
  <2>1. PDX(va) = KERNPDX + (i \div E) /\ KERNPDX + (i \div E) \in Index
    BY Place
  <2>2. KERNPDX + (q + 1) = d
    BY <1>1
  <2>3. QED BY <1>2, <2>1, <2>2
<1>4. i >= E /\ page + 1 <= i /\ page + 1 <= npages - 1
  <2>1. i < 1 * E <=> i \div E < 1
    BY <1>1, Below
  <2>2. i >= E
    BY <1>1, <1>2, <2>1
  <2>3. FIRSTFREE + (i \div E) <= i /\ FIRSTFREE + (i \div E) <= npages - 1
    BY <2>2, Enough
  <2>4. QED BY <1>1, <1>2, <2>2, <2>3
<1>5. Reached(m, page)
  <2>1. page \in Nat /\ page < (q + 1) * E /\ q + 1 \in Int
    BY <1>1, <1>4
  <2> HIDE DEF page
  <2>2. page \div E \in Nat /\ page \div E < q + 1
    BY <1>1, <2>1, Below
  <2>3. page \in 0 .. npages - 1 /\ page < i /\ page \div E <= q
    BY <1>1, <1>4, <2>1, <2>2
  <2>4. QED BY <1>1, <2>3, PageReached
<1>6. m.dir[d] = Absent
  BY <1>1, <1>3 DEF Window
<1>7. /\ m.free \in Seq(Nat) /\ Len(m.free) = npages - FIRSTFREE - q /\ m.free # << >>
      /\ Head(m.free) = page
      /\ Tail(m.free) = [k \in 1 .. npages - FIRSTFREE - (q + 1) |-> FIRSTFREE + (q + 1) + k - 1]
  <2> DEFINE n == npages - FIRSTFREE - q
             f == [k \in 1 .. n |-> FIRSTFREE + q + k - 1]
  <2>1. n \in Nat /\ n >= 1 /\ m.free = f /\ n - 1 = npages - FIRSTFREE - (q + 1)
    BY <1>1, <1>4 DEF Window
  <2> HIDE DEF n
  <2>2. f \in Seq(Nat) /\ Len(f) = n
    BY <1>1, <2>1
  <2>3. f # << >> /\ Head(f) = f[1] /\ f[1] = page
    BY <1>1, <2>1, <2>2
  <2>4. Tail(f) = [k \in 1 .. n - 1 |-> f[k + 1]]
    BY <2>1, <2>2
  <2>5. \A k \in 1 .. n - 1 : f[k + 1] = FIRSTFREE + (q + 1) + k - 1
    BY <1>1, <2>1
  <2>6. Tail(f) = [k \in 1 .. n - 1 |-> FIRSTFREE + (q + 1) + k - 1]
    BY <2>4, <2>5
  <2> HIDE DEF f
  <2>7. QED BY <2>1, <2>2, <2>3, <2>6 DEF n
<1>8. [m.dir EXCEPT ![d] = page] = Window(table, q + 1, i).dir
  <2> DEFINE due == Window(table, q + 1, i).dir
  <2>1. /\ m.dir = [x \in Index |-> m.dir[x]] /\ due = [x \in Index |-> due[x]]
        /\ due[d] = page
    BY <1>1, <1>3 DEF Window
  <2>2. \A x \in Index : x \in Int /\ (x # d => due[x] = m.dir[x])
    BY <1>1 DEF Window, Index
  <2> DEFINE old == m.dir
             new == [old EXCEPT ![d] = page]
  <2> HIDE DEF m, due, d, page
  <2>3. old = [x \in Index |-> old[x]]
    BY <2>1
  <2> HIDE DEF old
  <2>4. new = [x \in Index |-> new[x]] /\ \A x \in Index : new[x] = due[x]
    BY <1>3, <2>1, <2>2, <2>3 DEF old
  <2> HIDE DEF new
  <2>5. new = due
    BY <2>1, <2>4
  <2>6. QED BY <2>5 DEF new, old, due
<1>9. [t \in DOMAIN m.tables \cup {page} |->
          IF t = page THEN [x \in Index |-> Absent] ELSE m.tables[t]]
      = Window(table, q + 1, i).tables
  <2> DEFINE new == [t \in DOMAIN m.tables \cup {page} |->
                        IF t = page THEN [x \in Index |-> Absent] ELSE m.tables[t]]
             due == Window(table, q + 1, i).tables
  <2>1. DOMAIN m.tables = {table} \cup FIRSTFREE .. FIRSTFREE + q - 1
    BY DEF Window
  <2>2. DOMAIN due = {table} \cup FIRSTFREE .. FIRSTFREE + (q + 1) - 1
    BY DEF Window
  <2>3. DOMAIN new = DOMAIN due
    BY <1>1, <2>1, <2>2
  <2>4. \A t \in DOMAIN m.tables : t # page /\ m.tables[t] = due[t]
    BY <1>1, <2>1, <2>2 DEF Window
  <2>5. due[page] = [x \in Index |-> Absent]
    <3>1. \A x \in Index : ~(((page - FIRSTFREE + 1) * E) + x < i)
      <4>1. page - FIRSTFREE + 1 = q + 1
        BY <1>1
      <4>2. \A x \in Index : x \in Nat
        BY <1>1 DEF Index
      <4>3. QED BY <1>1, <4>1, <4>2
    <3>2. page \in DOMAIN due /\ page # table
      BY <1>1, <2>2
    <3>3. QED BY <1>1, <3>1, <3>2 DEF Window
  <2>6. \A t \in DOMAIN new : new[t] = due[t]
    BY <2>4, <2>5
  <2>7. QED BY <2>3, <2>6 DEF Window
<1>10. /\ m.sound = TRUE /\ Window(table, q + 1, i).sound = TRUE
       /\ Tail(m.free) = Window(table, q + 1, i).free
  BY <1>7 DEF Window
<1>11. pgdir_walk(m, va) =
         [dir |-> Window(table, q + 1, i).dir, tables |-> Window(table, q + 1, i).tables,
          free |-> Window(table, q + 1, i).free, sound |-> TRUE]
  <2> HIDE DEF m, va, d, page
  <2>1. QED BY <1>3, <1>5, <1>6, <1>7, <1>8, <1>9, <1>10 DEF pgdir_walk
<1>12. QED BY <1>11 DEF Window

\* The entry for page i is written, in a table that is reached.
LEMMA Written ==
    ASSUME NEW table \in DOMAIN KernelImage, NEW q \in Nat, NEW i \in 0 .. npages - 1,
           i \div NPTENTRIES <= q, NEW m,
           pgdir_walk(m, KADDR(i * PGSIZE)) = Window(table, q, i)
    PROVE  MapPage(m, KADDR(i * PGSIZE), i * PGSIZE) = Window(table, q, i + 1)
<1> DEFINE w == Window(table, q, i)
           va == KADDR(i * PGSIZE)
           E == NPTENTRIES
           n == i \div E
           t == i % E
           tb == w.dir[PDX(va)]
           due == Window(table, q, i + 1)
<1>1. /\ E \in Nat \ {0} /\ FIRSTFREE \in Nat /\ FIRSTFREE < E
      /\ npages \in Nat /\ E <= npages /\ table \in Nat /\ table < FIRSTFREE
      /\ Absent = -1 /\ i \in Nat /\ i < npages
  BY PagingConstants DEF Absent
<1>2. PTX(va) = t /\ t \in Index /\ n \in Nat /\ i = n * E + t
  BY Place
<1>3. tb = IF i < E THEN table ELSE FIRSTFREE + n - 1
  BY WalkFound
<1>4. i < 1 * E <=> n < 1
  BY <1>1, Below
<1>5. Reached(w, tb)
  <2>1. CASE i < E
    <3>1. table \in 0 .. npages - 1 /\ table < E
      BY <1>1
    <3>2. QED BY <1>1, <1>3, <2>1, <3>1, PageReached
  <2>2. CASE i >= E
    <3>1. FIRSTFREE + n <= i
      BY <2>2, Enough
    <3>2. i < (q + 1) * E
      <4>1. n < q + 1 /\ q + 1 \in Int
        BY <1>2
      <4> HIDE DEF n
      <4>2. QED BY <1>1, <4>1, Below DEF n
    <3>3. tb \in Nat /\ tb < i /\ tb < (q + 1) * E
      <4> HIDE DEF tb, n
      <4>1. n >= 1 /\ (q + 1) * E \in Int
        BY <1>1, <1>2, <1>4, <2>2
      <4>2. QED BY <1>1, <1>2, <1>3, <2>2, <3>1, <3>2, <4>1
    <3> HIDE DEF tb
    <3>4. tb \div E < q + 1 /\ tb \div E \in Nat
      <4>1. tb \in Nat /\ E \in Nat \ {0} /\ q + 1 \in Int
        BY <1>1, <3>3
      <4>2. QED BY <3>3, <4>1, Below
    <3>5. tb \in 0 .. npages - 1 /\ tb \div E <= q
      BY <1>1, <3>3, <3>4
    <3>6. QED BY <1>1, <3>3, <3>5, PageReached
  <2>3. QED BY <1>1, <2>1, <2>2
<1>6. (i * PGSIZE) \div PGSIZE = i
  <2>1. /\ 0 \in 0 .. PGSIZE - 1 /\ PGSIZE \in Nat \ {0} /\ i * PGSIZE \in Int
        /\ i * PGSIZE = i * PGSIZE + 0
    BY <1>1, PagingConstants
  <2>2. QED BY <1>1, <2>1, Quotient
<1>7. tb # Absent
  <2> HIDE DEF tb, n
  <2>1. QED BY <1>1, <1>2, <1>3, <1>4
<1>8. MapPage(m, va, i * PGSIZE) =
        [w EXCEPT !.tables[tb][t] = i, !.sound = @ /\ Reached(w, tb)]
  <2>1. pgdir_walk(m, va) = w
    OBVIOUS
  <2> HIDE DEF w, va, t, tb
  <2>2. w.dir[PDX(va)] = tb
    BY DEF tb
  <2>3. QED BY <1>2, <1>6, <1>7, <2>1, <2>2 DEF MapPage
<1>9. [w.tables EXCEPT ![tb][t] = i] = due.tables
  <2> DEFINE D == {table} \cup FIRSTFREE .. FIRSTFREE + q - 1
             old == w.tables
             at(u, x, j) == IF u = table THEN x
                            ELSE IF (u - FIRSTFREE + 1) * E + x < j
                            THEN (u - FIRSTFREE + 1) * E + x ELSE Absent
  <2>1. old = [u \in D |-> [x \in Index |-> at(u, x, i)]]
    BY DEF Window
  <2>2. due.tables = [u \in D |-> [x \in Index |-> at(u, x, i + 1)]]
    BY DEF Window
  <2>3. \A u \in D, x \in Index :
           at(u, x, i + 1) = IF u = tb /\ x = t THEN i ELSE at(u, x, i)
    <3> SUFFICES ASSUME NEW u \in D, NEW x \in Index
                 PROVE  at(u, x, i + 1) = IF u = tb /\ x = t THEN i ELSE at(u, x, i)
      OBVIOUS
    <3> HIDE DEF tb, n, t, w, va
    <3>1. x \in 0 .. E - 1 /\ x \in Int /\ t \in 0 .. E - 1 /\ u \in Int
      BY <1>1, <1>2 DEF Index
    <3>2. CASE u = table
      <4>1. ASSUME u = tb, x = t PROVE x = i
        <5>1. i < E
          BY <1>1, <1>2, <1>3, <1>4, <3>2, <4>1
        <5>2. n = 0
          BY <1>1, <1>2, <1>4, <5>1
        <5>3. QED BY <1>1, <1>2, <3>1, <4>1, <5>2
      <4>2. QED BY <3>2, <4>1
    <3>3. CASE u # table
      <4> DEFINE k == u - FIRSTFREE + 1
                 y == k * E + x
      <4>1. k \in Int /\ k >= 1 /\ y \in Int
        BY <1>1, <3>1, <3>3
      <4>2. u = tb <=> k = n
        BY <1>1, <1>2, <1>3, <1>4, <3>1, <3>3
      <4>3. ASSUME y = i PROVE k = n /\ x = t
        <5>1. k * E + x = n * E + t
          BY <1>2, <4>3
        <5> HIDE DEF k
        <5>2. QED BY <1>1, <1>2, <3>1, <4>1, <5>1, Once
      <4>4. ASSUME k = n, x = t PROVE y = i
        BY <1>2, <4>4
      <4> HIDE DEF y, k
      <4>5. y < i + 1 <=> y < i \/ y = i
        BY <1>1, <4>1
      <4>6. at(u, x, i) = (IF y < i THEN y ELSE Absent)
            /\ at(u, x, i + 1) = (IF y < i + 1 THEN y ELSE Absent)
        BY <3>3 DEF y, k
      <4> HIDE DEF at
      <4>7. QED BY <1>1, <4>2, <4>3, <4>4, <4>5, <4>6
    <3>4. QED BY <3>2, <3>3
  <2>4. tb \in D
    <3> HIDE DEF tb, n
    <3>1. n <= q
      BY DEF n
    <3>2. QED BY <1>1, <1>2, <1>3, <1>4, <3>1
  <2> HIDE DEF at, D, old, tb, w, t
  <2> DEFINE new == [old EXCEPT ![tb][t] = i]
  <2>5. new = [u \in D |-> [x \in Index |-> at(u, x, i + 1)]]
    BY <1>2, <2>1, <2>3, <2>4
  <2>6. QED BY <2>2, <2>5 DEF old
<1>10. /\ w = [dir |-> w.dir, tables |-> w.tables, free |-> w.free, sound |-> TRUE]
       /\ due = [dir |-> w.dir, tables |-> due.tables, free |-> w.free, sound |-> TRUE]
  BY DEF Window
<1>11. QED
  <2> DEFINE a == w.dir
             b == w.tables
             c == due.tables
             f == w.free
  <2>1. /\ w = [dir |-> a, tables |-> b, free |-> f, sound |-> TRUE]
        /\ due = [dir |-> a, tables |-> c, free |-> f, sound |-> TRUE]
        /\ [b EXCEPT ![tb][t] = i] = c
    BY <1>9, <1>10
  <2> HIDE DEF a, b, c, f, w, tb, t, va, due
  <2> DEFINE T == [dir : {a}, tables : {c}, free : {f}, sound : {TRUE}]
             x == [w EXCEPT !.tables = c]
  <2>2. w \in [dir : {a}, tables : {b}, free : {f}, sound : {TRUE}] /\ due \in T
    BY <2>1
  <2>3. x \in T /\ x = due
    <3>1. x = [dir |-> a, tables |-> c, free |-> f, sound |-> TRUE]
      BY <2>2
    <3> HIDE DEF x
    <3>2. x = due
      BY <2>1, <3>1
    <3>3. QED BY <2>2, <3>2
  <2>4. [w EXCEPT !.tables[tb][t] = i] = x
    BY <2>1, <2>2
  <2>5. w.sound = TRUE
    BY <2>1
  <2>6. MapPage(m, va, i * PGSIZE) = [w EXCEPT !.tables[tb][t] = i, !.sound = TRUE]
    BY <1>5, <1>8, <2>5
  <2>7. MapPage(m, va, i * PGSIZE) = [[w EXCEPT !.tables[tb][t] = i] EXCEPT !.sound = TRUE]
    BY <2>6
  <2> HIDE DEF x
  <2>8. [x EXCEPT !.sound = TRUE] = x
    BY <2>3
  <2> HIDE DEF T
  <2>9. MapPage(m, va, i * PGSIZE) = due
    BY <2>3, <2>4, <2>7, <2>8
  <2>10. QED BY <2>9 DEF due, va

\* Tables beside the first once i pages are mapped.
More(i) == IF i = 0 THEN 0 ELSE (i - 1) \div NPTENTRIES

LEMMA MoreNat == \A i \in Nat : More(i) \in Nat
<1> SUFFICES ASSUME NEW i \in Nat PROVE More(i) \in Nat
  OBVIOUS
<1>1. CASE i = 0
  BY <1>1 DEF More
<1>2. CASE i # 0
  <2>1. i - 1 \in Nat
    BY <1>2
  <2>2. (i - 1) \div NPTENTRIES \in Nat
    BY <2>1, PagingConstants, Below
  <2>3. QED BY <1>2, <2>2 DEF More
<1>3. QED BY <1>1, <1>2

\* The next page needs the tables there are, or is the first of one more.
LEMMA NextTable ==
    ASSUME NEW i \in Nat
    PROVE  \/ i \div NPTENTRIES = More(i)
           \/ i \div NPTENTRIES = More(i) + 1 /\ i = (More(i) + 1) * NPTENTRIES
<1> DEFINE E == NPTENTRIES
           q == (i - 1) \div E
           r == (i - 1) % E
<1>1. E \in Nat \ {0} /\ 0 \in 0 .. E - 1
  BY PagingConstants
<1>2. CASE i = 0
  BY <1>1, <1>2, Small DEF More
<1>3. CASE i # 0
  <2>1. i - 1 \in Nat /\ More(i) = q
    BY <1>3 DEF More
  <2>2. q \in Nat
    BY <1>1, <2>1, Below
  <2>3. i - 1 = q * E + r /\ r \in 0 .. E - 1
    BY <1>1, <2>1, Divided
  <2> HIDE DEF q, r
  <2>4. q * E \in Int /\ (q + 1) * E = q * E + E /\ q + 1 \in Int
    BY <1>1, <2>2
  <2>5. CASE r + 1 < E
    <3> DEFINE s == r + 1
    <3>1. s \in 0 .. E - 1 /\ i = q * E + s
      <4> DEFINE v == q * E
      <4>1. i - 1 = v + r /\ v \in Int /\ r \in 0 .. E - 1
        BY <2>3, <2>4
      <4> HIDE DEF v
      <4>2. s \in 0 .. E - 1 /\ i = v + s
        BY <1>1, <2>5, <4>1
      <4>3. QED BY <4>2 DEF v
    <3> HIDE DEF s
    <3>2. i \div E = q
      BY <1>1, <2>2, <3>1, Quotient
    <3>3. QED BY <2>1, <3>2
  <2>6. CASE ~(r + 1 < E)
    <3> DEFINE p == q + 1
    <3>1. p \in Int /\ i = p * E /\ i = p * E + 0
      BY <1>1, <2>3, <2>4, <2>6
    <3> HIDE DEF p
    <3>2. i \div E = p
      BY <1>1, <3>1, Quotient
    <3>3. QED BY <2>1, <3>1, <3>2 DEF p
  <2>7. QED BY <2>5, <2>6
<1>4. QED BY <1>2, <1>3

LEMMA WindowStep ==
    ASSUME NEW table \in DOMAIN KernelImage, NEW i \in 0 .. npages - 1
    PROVE  MapPage(Window(table, More(i), i), KADDR(i * PGSIZE), i * PGSIZE)
             = Window(table, More(i + 1), i + 1)
<1> DEFINE q == More(i)
           n == i \div NPTENTRIES
<1>1. i \in Nat /\ q \in Nat
  BY MoreNat
<1>2. More(i + 1) = n
  <2>1. i + 1 # 0 /\ (i + 1) - 1 = i
    BY <1>1
  <2>2. QED BY <2>1 DEF More
<1>3. CASE n = q
  <2>1. n <= q
    BY <1>1, <1>3
  <2> HIDE DEF q
  <2>2. pgdir_walk(Window(table, q, i), KADDR(i * PGSIZE)) = Window(table, q, i)
    BY <1>1, <2>1, WalkFound
  <2>3. MapPage(Window(table, q, i), KADDR(i * PGSIZE), i * PGSIZE) = Window(table, q, i + 1)
    BY <1>1, <2>1, <2>2, Written
  <2>4. QED BY <1>2, <1>3, <2>3 DEF q
<1>4. CASE n = q + 1 /\ i = (q + 1) * NPTENTRIES
  <2> HIDE DEF q
  <2>1. pgdir_walk(Window(table, q, i), KADDR(i * PGSIZE)) = Window(table, q + 1, i)
    BY <1>1, <1>4, WalkNew
  <2>2. q + 1 \in Nat /\ n <= q + 1
    BY <1>1, <1>4
  <2>3. MapPage(Window(table, q, i), KADDR(i * PGSIZE), i * PGSIZE)
          = Window(table, q + 1, i + 1)
    BY <2>1, <2>2, Written
  <2>4. QED BY <1>2, <1>4, <2>3 DEF q
<1>5. QED BY <1>1, <1>3, <1>4, NextTable

\* What page_init leaves.
LEMMA PageInit ==
    ASSUME NEW table \in DOMAIN KernelImage
    PROVE  page_init(Booted(table)) = Window(table, More(npages), npages)
<1> DEFINE m == Window(table, 0, 0)
           F(i, f) == IF i = 0 THEN m
                      ELSE MapPage(f[i - 1], KERNBASE + (i - 1) * PGSIZE, 0 + (i - 1) * PGSIZE)
           g == [i \in 0 .. npages |-> Window(table, More(i), i)]
           s == CHOOSE f : f = [i \in 0 .. npages |-> F(i, f)]
<1>1. npages \in Nat /\ PGSIZE \in Nat \ {0} /\ KERNBASE \in Int
  <2>1. KERNPDX \in Int /\ PTSIZE \in Int
    BY PagingConstants DEF Index
  <2>2. QED BY <2>1, PagingConstants DEF KERNBASE
<1>2. [Booted(table) EXCEPT !.free = [k \in 1 .. npages - FIRSTFREE |-> FIRSTFREE + k - 1]] = m
  <2> DEFINE free == [k \in 1 .. npages - FIRSTFREE |-> FIRSTFREE + k - 1]
             dir == entry_pgdir(table)
             tables == [t \in {table} |-> entry_pgtable]
  <2>1. /\ FIRSTFREE \in Nat /\ table \in Nat /\ KERNPDX \in Nat
        /\ \A x \in Index : x \in Nat
    BY PagingConstants DEF Index
  <2>2. dir = m.dir
    BY <2>1 DEF entry_pgdir, Window
  <2>3. tables = m.tables
    <3>1. entry_pgtable = [x \in Index |-> x]
      BY PagingAssumption DEF entry_pgtable, ConventionalMemory, IOHole, KernelImage,
                              FirstPages, Index
    <3>2. FIRSTFREE .. FIRSTFREE + 0 - 1 = {}
      BY <2>1
    <3>3. m.tables = [t \in {table} |-> [x \in Index |-> x]]
      BY <3>2 DEF Window
    <3>4. QED BY <3>1, <3>3
  <2>4. free = m.free
    BY <2>1, PagingConstants DEF Window
  <2>5. m = [dir |-> m.dir, tables |-> m.tables, free |-> m.free, sound |-> TRUE]
    BY DEF Window
  <2> DEFINE b == Booted(table)
             none == << >>
  <2>6. b = [dir |-> dir, tables |-> tables, free |-> none, sound |-> TRUE]
    BY DEF Booted
  <2> HIDE DEF free, dir, tables, m, b, none
  <2>7. b \in [dir : {dir}, tables : {tables}, free : {none}, sound : {TRUE}]
    BY <2>6
  <2>8. [b EXCEPT !.free = free] =
          [dir |-> dir, tables |-> tables, free |-> free, sound |-> TRUE]
    <3>1. b.dir = dir /\ b.tables = tables /\ b.sound = TRUE
      BY <2>6
    <3>2. [b EXCEPT !.free = free] =
            [dir |-> b.dir, tables |-> b.tables, free |-> free, sound |-> b.sound]
      BY <2>7
    <3>3. QED BY <3>1, <3>2
  <2>9. QED BY <2>2, <2>3, <2>4, <2>5, <2>8 DEF free, b
<1>3. page_init(Booted(table)) = s[npages]
  <2>1. (npages * PGSIZE) \div PGSIZE = npages
    <3>1. 0 \in 0 .. PGSIZE - 1 /\ npages * PGSIZE \in Int /\ npages * PGSIZE = npages * PGSIZE + 0
      BY <1>1
    <3>2. QED BY <1>1, <3>1, Quotient
  <2> HIDE DEF m
  <2>2. page_init(Booted(table)) = boot_map_region(m, KERNBASE, npages * PGSIZE, 0)
    BY <1>2 DEF page_init
  <2>3. boot_map_region(m, KERNBASE, npages * PGSIZE, 0) = s[npages]
    BY <2>1 DEF boot_map_region
  <2>4. QED BY <2>2, <2>3
<1>4. g = [i \in 0 .. npages |-> F(i, g)]
  <2>1. g[0] = m
    BY <1>1 DEF More
  <2>2. ASSUME NEW i \in 1 .. npages
        PROVE  g[i] = MapPage(g[i - 1], KERNBASE + (i - 1) * PGSIZE, 0 + (i - 1) * PGSIZE)
    <3> DEFINE j == i - 1
    <3>1. j \in 0 .. npages - 1 /\ j \in 0 .. npages /\ j + 1 = i /\ i \in 0 .. npages
      BY <1>1
    <3>2. j * PGSIZE \in Int
      BY <1>1, <3>1
    <3>3. KERNBASE + j * PGSIZE = KADDR(j * PGSIZE) /\ 0 + j * PGSIZE = j * PGSIZE
      BY <1>1, <3>2 DEF KADDR
    <3> HIDE DEF j
    <3>4. MapPage(Window(table, More(j), j), KADDR(j * PGSIZE), j * PGSIZE)
            = Window(table, More(j + 1), j + 1)
      BY <3>1, WindowStep
    <3>5. g[j] = Window(table, More(j), j) /\ g[i] = Window(table, More(i), i)
      BY <3>1
    <3>6. g[i] = MapPage(g[j], KERNBASE + j * PGSIZE, 0 + j * PGSIZE)
      BY <3>1, <3>3, <3>4, <3>5
    <3>7. QED BY <3>6 DEF j
  <2> HIDE DEF m
  <2>3. \A i \in 0 .. npages : i = 0 \/ i \in 1 .. npages
    BY <1>1
  <2>4. \A i \in 0 .. npages : g[i] = F(i, g)
    BY <2>1, <2>2, <2>3
  <2>5. g = [i \in 0 .. npages |-> g[i]]
    OBVIOUS
  <2> HIDE DEF g, F
  <2>6. QED BY <2>4, <2>5
<1>5. s = [i \in 0 .. npages |-> F(i, s)]
  <2> HIDE DEF F, g
  <2>1. QED BY <1>4
<1> DEFINE S == {i \in 0 .. npages : s[i] = g[i]}
<1>6. 0 \in S
  <2> HIDE DEF s, g, m
  <2>1. 0 \in 0 .. npages
    BY <1>1
  <2>2. QED BY <1>4, <1>5, <2>1
<1>7. \A i \in 1 .. npages : i - 1 \in S => i \in S
  <2> HIDE DEF s, g, m
  <2>1. \A i \in 1 .. npages : i # 0 /\ i \in 0 .. npages /\ i - 1 \in 0 .. npages
    BY <1>1
  <2>2. QED BY <1>4, <1>5, <2>1
<1> HIDE DEF S
<1>8. \A i \in 0 .. npages : i \in S
  BY <1>1, <1>6, <1>7, UpTo
<1>9. s[npages] = g[npages]
  <2> HIDE DEF s, g
  <2>1. npages \in 0 .. npages
    BY <1>1
  <2>2. QED BY <1>8, <2>1 DEF S
<1>10. g[npages] = Window(table, More(npages), npages)
  BY <1>1
<1>11. QED
  <2> HIDE DEF s, g
  <2>1. QED BY <1>3, <1>9, <1>10

\* The first part of memory is where it was, too.
LEMMA FirstPart ==
    ASSUME NEW table \in DOMAIN KernelImage, NEW m,
           m.dir[0] = table, m.tables[table] = [x \in Index |-> x],
           NEW la \in 0 .. PTSIZE - 1
    PROVE  Translate(m, la) = la
<1> DEFINE t == la \div PGSIZE
           o == la % PGSIZE
<1>1. /\ la \in Nat /\ PGSIZE \in Nat \ {0} /\ 0 \in Index /\ la < NPTENTRIES * PGSIZE
      /\ NPTENTRIES \in Nat /\ PTSIZE \in Nat
  BY PagingConstants DEF PTSIZE
<1>2. t \in Nat /\ t < NPTENTRIES
  BY <1>1, Below
<1>3. la = t * PGSIZE + o /\ o \in 0 .. PGSIZE - 1
  BY <1>1, Divided
<1> HIDE DEF t, o
<1>4. t \in Index
  BY <1>1, <1>2 DEF Index
<1>5. la = PGADDR(0, t, o)
  <2>1. 0 * PTSIZE = 0 /\ t * PGSIZE \in Int
    BY <1>1, <1>2
  <2>2. QED BY <1>3, <2>1 DEF PGADDR
<1>6. PDX(la) = 0 /\ PTX(la) = t /\ PGOFF(la) = o
  BY <1>1, <1>3, <1>4, <1>5, TakenApart
<1>7. table # Absent /\ t # Absent
  BY <1>2, PagingConstants DEF Absent
<1>8. QED BY <1>3, <1>4, <1>6, <1>7 DEF Translate

\* The constant directory, translated.
LEMMA TwiceThere ==
    ASSUME NEW la \in 0 .. NPTENTRIES * PTSIZE - 1
    PROVE  /\ PGADDR(PDX(la), PTX(la), PGOFF(la)) = la
           /\ Translate(Booted(EXTPHYSMEM), la) =
                 CASE la < PTSIZE -> la
                   [] la - KERNBASE \in 0 .. PTSIZE - 1 -> la - KERNBASE
                   [] OTHER -> Absent
<1> DEFINE m == Booted(EXTPHYSMEM)
<1>1. PICK d \in Index, t \in Index, o \in 0 .. PGSIZE - 1 : la = PGADDR(d, t, o)
  BY PutTogether
<1>2. PDX(la) = d /\ PTX(la) = t /\ PGOFF(la) = o
  BY <1>1, TakenApart
<1>3. /\ KERNPDX \in Index /\ KERNPDX # 0 /\ PTSIZE \in Nat /\ NPTENTRIES \in Nat
      /\ PGSIZE \in Nat \ {0} /\ d \in Nat /\ t \in Nat /\ EXTPHYSMEM \in Nat
      /\ EXTPHYSMEM # Absent /\ Absent = -1 /\ KERNPDX \in Nat
  BY PagingConstants DEF Index, Absent
<1> DEFINE x == t * PGSIZE + o
<1>4. x \in 0 .. PTSIZE - 1 /\ la = d * PTSIZE + x
  <2>1. (t + 1) * PGSIZE <= NPTENTRIES * PGSIZE
    BY <1>3, Longer DEF Index
  <2>2. (t + 1) * PGSIZE = t * PGSIZE + PGSIZE /\ t * PGSIZE \in Nat /\ d * PTSIZE \in Nat
    BY <1>3
  <2>3. PTSIZE = NPTENTRIES * PGSIZE
    BY DEF PTSIZE
  <2>4. QED BY <1>1, <1>3, <2>1, <2>2, <2>3 DEF PGADDR
<1>5. /\ m.dir = [i \in Index |-> IF i \in {0, KERNPDX} THEN EXTPHYSMEM ELSE Absent]
      /\ m.tables[EXTPHYSMEM] = [i \in Index |-> i]
  <2>1. entry_pgtable = [i \in Index |-> i]
    BY PagingAssumption DEF entry_pgtable, ConventionalMemory, IOHole, KernelImage,
                            FirstPages, Index
  <2>2. QED BY <2>1 DEF Booted, entry_pgdir
<1> HIDE DEF m
<1>6. Translate(m, la) = IF d \in {0, KERNPDX} THEN x ELSE Absent
  <2>1. CASE d \in {0, KERNPDX}
    <3>1. m.dir[d] = EXTPHYSMEM /\ m.tables[EXTPHYSMEM][t] = t /\ t # Absent
      BY <1>3, <1>5, <2>1
    <3>2. QED BY <1>2, <1>3, <2>1, <3>1 DEF Translate
  <2>2. CASE d \notin {0, KERNPDX}
    <3>1. m.dir[d] = Absent
      BY <1>5, <2>2
    <3>2. QED BY <1>2, <2>2, <3>1 DEF Translate
  <2>3. QED BY <2>1, <2>2
<1> HIDE DEF x
<1>7. ASSUME NEW e \in Nat
      PROVE  la - e * PTSIZE \in 0 .. PTSIZE - 1 <=> d = e
  <2>1. d * PTSIZE \in Nat /\ e * PTSIZE \in Nat /\ PTSIZE \in Nat \ {0}
    BY <1>3, PagingConstants
  <2>2. ASSUME la - e * PTSIZE \in 0 .. PTSIZE - 1 PROVE d = e
    <3> DEFINE y == la - e * PTSIZE
    <3>1. y \in 0 .. PTSIZE - 1 /\ e * PTSIZE + y = d * PTSIZE + x
      BY <1>4, <2>1, <2>2
    <3> HIDE DEF y
    <3>2. QED BY <1>3, <1>4, <2>1, <3>1, Once
  <2>3. ASSUME d = e PROVE la - e * PTSIZE = x
    BY <1>4, <2>1, <2>3
  <2>4. QED BY <1>4, <2>2, <2>3
<1>8. la < PTSIZE <=> d = 0
  <2>1. 0 * PTSIZE = 0 /\ la \in Nat
    BY <1>3, <1>4, PagingConstants
  <2>2. la - 0 * PTSIZE \in 0 .. PTSIZE - 1 <=> d = 0
    BY <1>7
  <2>3. QED BY <1>3, <2>1, <2>2
<1>9. la - KERNBASE \in 0 .. PTSIZE - 1 <=> d = KERNPDX
  BY <1>3, <1>7 DEF KERNBASE
<1>10. (d = 0 => la = x) /\ (d = KERNPDX => la - KERNBASE = x)
  <2>1. 0 * PTSIZE = 0 /\ KERNPDX * PTSIZE \in Int
    BY <1>3
  <2>2. QED BY <1>4, <2>1 DEF KERNBASE
<1>11. Translate(m, la) =
         CASE la < PTSIZE -> la
           [] la - KERNBASE \in 0 .. PTSIZE - 1 -> la - KERNBASE
           [] OTHER -> Absent
  BY <1>3, <1>6, <1>8, <1>9, <1>10
<1>12. QED BY <1>1, <1>2, <1>11 DEF m

\* What the kernel has after page_init.
LEMMA WholeWindow ==
    ASSUME NEW table \in DOMAIN KernelImage
    PROVE  LET m == page_init(Booted(table)) IN
           /\ m.sound
           /\ \A pa \in 0 .. npages * PGSIZE - 1 : Translate(m, KADDR(pa)) = pa
           /\ \A la \in 0 .. PTSIZE - 1 : Translate(m, la) = la
           /\ ToSet(m.free) = (FIRSTFREE .. npages - 1) \ DOMAIN m.tables
           /\ IsInjective(m.free)
           /\ \A i, j \in Index : i # j /\ m.dir[i] = m.dir[j] =>
                 m.dir[i] = Absent \/ {i, j} = {0, KERNPDX}
<1> DEFINE q == More(npages)
           m == Window(table, q, npages)
<1>1. page_init(Booted(table)) = m
  BY PageInit
<1>2. /\ npages \in Nat /\ npages >= 1 /\ PGSIZE \in Nat \ {0} /\ NPTENTRIES \in Nat \ {0}
      /\ FIRSTFREE \in Nat /\ table \in Nat /\ table < FIRSTFREE /\ FIRSTFREE < NPTENTRIES
      /\ NPTENTRIES <= npages /\ KERNPDX \in Nat /\ KERNPDX # 0
      /\ Absent = -1 /\ 0 \in Index
  BY PagingConstants DEF Index, Absent
<1>3. q \in Nat /\ q = (npages - 1) \div NPTENTRIES
  BY <1>2, MoreNat DEF More
<1>4. FIRSTFREE + q <= npages
  <2> DEFINE p == npages - 1
  <2>1. p \in 0 .. npages - 1 /\ p + 1 = npages
    BY <1>2
  <2>2. CASE p >= NPTENTRIES
    <3> HIDE DEF p
    <3>1. FIRSTFREE + (p \div NPTENTRIES) <= npages - 1
      BY <2>1, <2>2, Enough
    <3>2. QED BY <1>2, <1>3, <3>1 DEF p
  <2>3. CASE ~(p >= NPTENTRIES)
    <3>1. p \in 0 .. NPTENTRIES - 1
      BY <1>2, <2>1, <2>3
    <3> HIDE DEF p
    <3>2. p \div NPTENTRIES = 0
      BY <1>2, <3>1, Small
    <3>3. QED BY <1>2, <1>3, <3>2 DEF p
  <2>4. QED BY <2>2, <2>3
<1> HIDE DEF q
<1>5. m.sound
  BY DEF Window
<1>6. ASSUME NEW pa \in 0 .. npages * PGSIZE - 1 PROVE Translate(m, KADDR(pa)) = pa
  <2> DEFINE p == pa \div PGSIZE
             o == pa % PGSIZE
  <2>1. pa \in Nat /\ pa < npages * PGSIZE
    <3>1. npages * PGSIZE \in Int
      BY <1>2
    <3>2. QED BY <3>1
  <2>2. p \in Nat /\ p < npages
    BY <1>2, <2>1, Below
  <2>3. pa = p * PGSIZE + o /\ o \in 0 .. PGSIZE - 1
    BY <1>2, <2>1, Divided
  <2> HIDE DEF p, o
  <2>4. p \div NPTENTRIES <= q
    <3>1. npages - 1 < (q + 1) * NPTENTRIES
      <4> DEFINE n == npages - 1
      <4>1. n \in Nat /\ q + 1 \in Int /\ n \div NPTENTRIES < q + 1
        BY <1>2, <1>3
      <4> HIDE DEF n
      <4>2. n < (q + 1) * NPTENTRIES
        BY <1>2, <4>1, Below
      <4>3. QED BY <4>2 DEF n
    <3>2. p < (q + 1) * NPTENTRIES /\ q + 1 \in Int
      <4>1. (q + 1) * NPTENTRIES \in Int
        BY <1>2, <1>3
      <4>2. QED BY <1>2, <1>3, <2>2, <3>1, <4>1
    <3>3. p \div NPTENTRIES < q + 1 /\ p \div NPTENTRIES \in Nat
      BY <1>2, <2>2, <3>2, Below
    <3>4. QED BY <1>3, <3>3
  <2>5. p \in 0 .. npages - 1 /\ p < npages
    BY <1>2, <2>2
  <2>6. Translate(m, KADDR(p * PGSIZE + o)) = p * PGSIZE + o
    <3>1. npages \in Nat /\ q \in Nat
      BY <1>2, <1>3
    <3>2. p < NPTENTRIES \/ (p < npages /\ p \div NPTENTRIES <= q)
      BY <2>4, <2>5
    <3> HIDE DEF m
    <3>3. p \in 0 .. npages - 1 /\ o \in 0 .. PGSIZE - 1
      BY <2>3, <2>5
    <3>4. QED BY <3>1, <3>2, <3>3, WindowReach DEF m
  <2>7. QED BY <2>3, <2>6
<1>7. ASSUME NEW la \in 0 .. PTSIZE - 1 PROVE Translate(m, la) = la
  <2>1. m.dir[0] = table
    BY <1>2 DEF Window
  <2>2. m.tables[table] = [x \in Index |-> x]
    BY DEF Window
  <2> HIDE DEF m
  <2>3. QED BY <2>1, <2>2, FirstPart
<1> DEFINE n == npages - FIRSTFREE - q
           f == [k \in 1 .. n |-> FIRSTFREE + q + k - 1]
<1>8. m.free = f /\ n \in Nat
  BY <1>2, <1>3, <1>4 DEF Window
<1>9. ToSet(f) = (FIRSTFREE .. npages - 1) \ DOMAIN m.tables
  <2>1. DOMAIN m.tables = {table} \cup FIRSTFREE .. FIRSTFREE + q - 1
    BY DEF Window
  <2>2. ToSet(f) = {f[k] : k \in 1 .. n}
    BY DEF ToSet
  <2>3. {f[k] : k \in 1 .. n} = FIRSTFREE + q .. npages - 1
    <3>1. \A k \in 1 .. n : f[k] \in FIRSTFREE + q .. npages - 1
      BY <1>2, <1>3, <1>4
    <3>2. ASSUME NEW y \in FIRSTFREE + q .. npages - 1
          PROVE  \E k \in 1 .. n : f[k] = y
      <4> DEFINE k == y - FIRSTFREE - q + 1
      <4>1. /\ y \in Int /\ y >= FIRSTFREE + q /\ y <= npages - 1
            /\ q \in Nat /\ FIRSTFREE \in Nat /\ npages \in Nat
        BY <1>2, <1>3
      <4>2. k \in Int /\ k >= 1 /\ k <= n /\ n \in Int
        BY <4>1
      <4>3. k \in 1 .. n /\ FIRSTFREE + q + k - 1 = y
        BY <4>1, <4>2
      <4> HIDE DEF k, n
      <4>4. f[k] = y
        BY <4>3
      <4>5. QED BY <4>3, <4>4
    <3> HIDE DEF f, n
    <3>3. QED BY <3>1, <3>2
  <2>4. FIRSTFREE + q .. npages - 1 =
          (FIRSTFREE .. npages - 1) \ ({table} \cup FIRSTFREE .. FIRSTFREE + q - 1)
    BY <1>2, <1>3, <1>4
  <2> HIDE DEF f, m
  <2>5. QED BY <2>1, <2>2, <2>3, <2>4
<1>10. IsInjective(f)
  <2>1. \A j, k \in 1 .. n : f[j] = f[k] => j = k
    BY <1>2, <1>3, <1>8
  <2>2. DOMAIN f = 1 .. n
    OBVIOUS
  <2> HIDE DEF f, n
  <2>3. QED BY <2>1, <2>2 DEF IsInjective
<1>11. ASSUME NEW i \in Index, NEW j \in Index, i # j, m.dir[i] = m.dir[j]
       PROVE  m.dir[i] = Absent \/ {i, j} = {0, KERNPDX}
  <2>1. i \in Nat /\ j \in Nat
    BY <1>2 DEF Index
  <2>2. \A k \in {i, j} :
           \/ k \in {0, KERNPDX} /\ m.dir[k] = table
           \/ m.dir[k] = FIRSTFREE + (k - KERNPDX) - 1 /\ k - KERNPDX >= 1 /\ k # 0
           \/ m.dir[k] = Absent
    BY <1>2, <1>3, <2>1 DEF Window
  <2> HIDE DEF m
  <2>3. QED BY <1>2, <1>11, <2>1, <2>2
<1>12. QED
  <2> HIDE DEF m, f
  <2>1. QED BY <1>1, <1>5, <1>6, <1>7, <1>8, <1>9, <1>10, <1>11
-----------------------------------------------------------------------------
(***************************************************************************)
(* Whole sectors                                                           *)
(***************************************************************************)

LEMMA SectorConstants ==
    SECTSIZE \in Nat \ {0} /\ SECTSIZE >= 1
BY SectorAssumption

\* A number that is a multiple further leaves the same remainder.
LEMMA Further ==
    ASSUME NEW d \in Nat \ {0}, NEW w \in Int, NEW r \in Int, NEW a \in Int, a = w * d + r
    PROVE  a % d = r % d /\ a \div d = w + (r \div d)
<1> DEFINE p == r \div d
           m == r % d
<1>1. p \in Int /\ m \in 0 .. d - 1 /\ r = p * d + m
  BY Divided
<1> HIDE DEF p, m
<1> DEFINE q == w + p
<1>2. q * d = w * d + p * d /\ w * d \in Int /\ p * d \in Int /\ q \in Int
  BY <1>1
<1>3. a = q * d + m
  BY <1>1, <1>2
<1> HIDE DEF q
<1>4. a \div d = q /\ a % d = m
  BY <1>1, <1>2, <1>3, Quotient
<1>5. QED BY <1>4 DEF q, p, m

\* Pages are whole sectors.
LEMMA InPage ==
    ASSUME NEW d \in Nat \ {0}, NEW c \in Nat \ {0}, NEW a \in Int
    PROVE  a \div (c * d) = (a \div d) \div c
<1> DEFINE s == a \div d
           m == a % d
           p == s \div c
           w == s % c
<1>1. s \in Int /\ m \in 0 .. d - 1 /\ a = s * d + m
  BY Divided
<1> HIDE DEF s, m
<1>2. p \in Int /\ w \in 0 .. c - 1 /\ s = p * c + w
  BY <1>1, Divided
<1> HIDE DEF p, w
<1> DEFINE e == c * d
           x == w * d + m
<1>3. e \in Nat \ {0}
  <2>1. 1 * d <= c * d
    BY Longer
  <2>2. QED BY <2>1
<1>4. x \in 0 .. e - 1
  <2>1. (w + 1) * d <= c * d
    BY <1>2, Longer
  <2>2. (w + 1) * d = w * d + d /\ w * d \in Nat
    BY <1>2
  <2>3. QED BY <1>1, <2>1, <2>2
<1>5. a = p * e + x
  <2>1. (p * c) * d = p * (c * d)
    BY <1>1, <1>2
  <2>2. (p * c + w) * d = (p * c) * d + w * d
    BY <1>1, <1>2
  <2>3. p * e \in Int /\ w * d \in Int
    BY <1>2, <1>3
  <2>4. QED BY <1>1, <1>2, <2>1, <2>2, <2>3
<1> HIDE DEF e, x
<1>6. a \div e = p
  BY <1>2, <1>3, <1>4, <1>5, Quotient
<1>7. QED BY <1>6 DEF e, p, s

\* What is asked for is in sectors that are transferred.
LEMMA Covered ==
    ASSUME NEW pa \in Int, NEW count \in Nat, NEW offset \in Nat, NEW a \in Int,
           a - pa \in 0 .. count - 1
    PROVE  In(a - First(pa, offset), SectorsOf(pa, count, offset))
<1> DEFINE S == SECTSIZE
           r == offset % S
           b == a - First(pa, offset)
           k == b \div S
<1>1. S \in Nat \ {0} /\ S >= 1
  BY SectorConstants
<1>2. r \in 0 .. S - 1
  BY <1>1, Divided
<1>3. First(pa, offset) = pa - r
  BY DEF First
<1> HIDE DEF S, r
<1>4. b \in Nat /\ b = (a - pa) + r /\ b < count + S - 1
  BY <1>1, <1>2, <1>3
<1> HIDE DEF b
<1>5. k \in Nat
  BY <1>1, <1>4, Below
<1>6. b = k * S + (b % S) /\ b % S \in 0 .. S - 1
  <2>1. b \in Int /\ S \in Nat \ {0}
    BY <1>1, <1>4
  <2>2. QED BY <2>1, Divided
<1> HIDE DEF k
<1>7. k * S <= b /\ k * S \in Int
  BY <1>1, <1>4, <1>5, <1>6
<1>8. k <= count
  <2> SUFFICES ASSUME k >= count + 1 PROVE FALSE
    BY <1>5
  <2>1. (count + 1) * S <= k * S
    BY <1>1, <1>5, Longer
  <2>2. (count + 1) * S = count * S + S /\ count * S \in Int
    BY <1>1
  <2>3. count * S >= count * 1
    BY <1>1
  <2>4. QED BY <1>1, <1>4, <1>7, <2>1, <2>2, <2>3
<1>9. First(pa, offset) + k * S < pa + count
  <2>1. r \in Int /\ k * S <= (a - pa) + r /\ a - pa < count
    BY <1>2, <1>4, <1>7
  <2>2. QED BY <1>3, <1>7, <2>1
<1>10. k \in SectorsOf(pa, count, offset)
  BY <1>5, <1>8, <1>9 DEF SectorsOf, S
<1>11. QED BY <1>4, <1>10 DEF In, b, k, S

\* Where the sectors are.
LEMMA SectorPlace ==
    ASSUME NEW offset \in Nat
    PROVE  Sector(offset) * SECTSIZE = offset - (offset % SECTSIZE) + SECTSIZE
<1> DEFINE q == offset \div SECTSIZE
           r == offset % SECTSIZE
<1>1. q \in Int /\ r \in Int /\ offset = q * SECTSIZE + r
  BY SectorConstants, Divided
<1> HIDE DEF q, r
<1>2. (q + 1) * SECTSIZE = q * SECTSIZE + SECTSIZE /\ q * SECTSIZE \in Int
  BY <1>1, SectorConstants
<1>3. (q + 1) * SECTSIZE = offset - r + SECTSIZE
  BY <1>1, <1>2, SectorConstants
<1>4. QED BY <1>3 DEF Sector, q, r

\* The bytes of whole sectors alone.
LEMMA WholeSectors ==
    ASSUME NEW pa \in Nat, NEW n \in Nat, NEW o \in Nat
    PROVE  LET count == n * SECTSIZE  offset == o * SECTSIZE
           IN /\ First(pa, offset) = pa
              /\ Sector(offset) * SECTSIZE = (o + 1) * SECTSIZE
              /\ \A b \in Int : In(b, SectorsOf(pa, count, offset)) <=> b \in 0 .. count - 1
<1> DEFINE count == n * SECTSIZE
           offset == o * SECTSIZE
<1>1. SECTSIZE \in Nat \ {0} /\ count \in Nat /\ offset \in Nat /\ 0 \in 0 .. SECTSIZE - 1
      /\ offset = o * SECTSIZE + 0
  BY SectorConstants
<1> HIDE DEF count, offset
<1>2. offset \div SECTSIZE = o /\ offset % SECTSIZE = 0
  BY <1>1, Quotient
<1>3. First(pa, offset) = pa
  BY <1>2 DEF First
<1>4. Sector(offset) * SECTSIZE = (o + 1) * SECTSIZE
  BY <1>2 DEF Sector
<1>5. ASSUME NEW b \in Int PROVE In(b, SectorsOf(pa, count, offset)) <=> b \in 0 .. count - 1
  <2>1. ASSUME b \in 0 .. count - 1 PROVE In(b, SectorsOf(pa, count, offset))
    <3> DEFINE a == pa + b
    <3>1. a \in Int /\ a - pa \in 0 .. count - 1 /\ a - pa = b
      BY <1>1, <2>1
    <3> HIDE DEF a
    <3>2. In(a - First(pa, offset), SectorsOf(pa, count, offset))
      BY <1>1, <3>1, Covered
    <3>3. QED BY <1>3, <3>1, <3>2
  <2>2. ASSUME In(b, SectorsOf(pa, count, offset)) PROVE b \in 0 .. count - 1
    <3>1. b \in Nat /\ pa + (b \div SECTSIZE) * SECTSIZE < pa + count
      BY <1>3, <2>2 DEF In, SectorsOf
    <3> DEFINE k == b \div SECTSIZE
    <3>2. k \in Nat
      BY <1>1, <3>1, Below
    <3> HIDE DEF k
    <3>3. k * SECTSIZE < n * SECTSIZE
      <4>1. k * SECTSIZE \in Int
        BY <1>1, <3>2
      <4>2. QED BY <1>1, <3>1, <4>1 DEF count, k
    <3>4. k < n
      <4> SUFFICES ASSUME n <= k PROVE FALSE
        BY <3>2
      <4>1. n * SECTSIZE <= k * SECTSIZE
        BY <1>1, <3>2, Longer
      <4>2. n * SECTSIZE \in Int /\ k * SECTSIZE \in Int
        BY <1>1, <3>2
      <4>3. QED BY <3>3, <4>1, <4>2
    <3>5. b < n * SECTSIZE
      BY <1>1, <3>1, <3>4, Below DEF k
    <3>6. QED BY <1>1, <3>1, <3>5 DEF count
  <2>3. QED BY <2>1, <2>2
<1>6. QED BY <1>3, <1>4, <1>5 DEF count, offset

\* The memory and the disk with the bytes asked for.
Filled(pa, n, from) ==
    [a \in DOMAIN Memory |-> IF a - pa \in 0 .. n - 1 THEN Disk[from + a - pa] ELSE Memory[a]]
Stored(pa, n, from) ==
    [b \in DOMAIN Disk |-> IF b - from \in 0 .. n - 1 THEN Memory[pa + b - from] ELSE Disk[b]]

LEMMA SectorsTransferred ==
    ASSUME NEW pa \in Nat, NEW k \in Nat, NEW o \in Nat,
           NEW n, NEW offset, NEW from,
           n = k * SECTSIZE, offset = o * SECTSIZE, from = (o + 1) * SECTSIZE
    PROVE  /\ readseg(Memory, Disk, pa, n, offset) = Filled(pa, n, from)
           /\ writeseg(Memory, Disk, pa, n, offset) = Stored(pa, n, from)
<1> DEFINE R == SectorsOf(pa, n, offset)
<1>1. /\ First(pa, offset) = pa
      /\ Sector(offset) * SECTSIZE = from
      /\ \A b \in Int : In(b, R) <=> b \in 0 .. n - 1
  BY WholeSectors
<1>2. from \in Int /\ DOMAIN Memory \subseteq Int /\ DOMAIN Disk \subseteq Int
  BY SectorConstants, StartAssumption
<1>3. readseg(Memory, Disk, pa, n, offset) =
        [a \in DOMAIN Memory |-> IF In(a - pa, R) THEN Disk[from + a - pa] ELSE Memory[a]]
  BY <1>1 DEF readseg
<1>4. writeseg(Memory, Disk, pa, n, offset) =
        [b \in DOMAIN Disk |-> IF In(b - from, R) THEN Memory[pa + b - from] ELSE Disk[b]]
  BY <1>1 DEF writeseg
<1> HIDE DEF R
<1>5. \A a \in DOMAIN Memory : In(a - pa, R) <=> a - pa \in 0 .. n - 1
  BY <1>1, <1>2
<1>6. \A b \in DOMAIN Disk : In(b - from, R) <=> b - from \in 0 .. n - 1
  BY <1>1, <1>2
<1>7. QED BY <1>3, <1>4, <1>5, <1>6 DEF Filled, Stored
-----------------------------------------------------------------------------
(***************************************************************************)
(* Programs in memory                                                      *)
(***************************************************************************)

Values == {Memory[a] : a \in DOMAIN Memory} \cup {Disk[b] : b \in Int} \cup {0}
Memories == [DOMAIN Memory -> Values]

LEMMA SegmentType ==
    ASSUME NEW ph \in Segments
    PROVE  /\ ph.vaddr \in Nat /\ ph.off \in Nat /\ ph.filesz \in Nat
           /\ ph.memsz \in Nat \ {0} /\ ph.filesz <= ph.memsz
           /\ ph.vaddr % PGSIZE = ph.off % PGSIZE
           /\ \A k \in 0 .. ph.memsz - 1 : ph.vaddr + k \in DOMAIN Memory
<1>1. /\ ph.vaddr \in Addresses /\ ph.off \in FilePlaces /\ ph.filesz \in Sizes
      /\ ph.memsz \in Sizes \ {0} /\ ph.filesz <= ph.memsz
      /\ ph.vaddr % PGSIZE = ph.off % PGSIZE
  BY DEF Segments
<1>2. ph.vaddr \in Nat /\ ph.off \in Nat /\ ph.filesz \in Nat /\ ph.memsz \in Nat \ {0}
  BY <1>1, StartAssumption
<1>3. ph.vaddr .. ph.vaddr + ph.memsz - 1 \subseteq DOMAIN Memory
  BY <1>1, StartAssumption
<1>4. \A k \in 0 .. ph.memsz - 1 : ph.vaddr + k \in ph.vaddr .. ph.vaddr + ph.memsz - 1
  BY <1>2
<1>5. QED BY <1>1, <1>2, <1>3, <1>4

\* A page is some number of sectors.
LEMMA PageSectors == \E c \in Nat \ {0} : PGSIZE = c * SECTSIZE
<1> DEFINE c == PGSIZE \div SECTSIZE
<1>1. PGSIZE \in Nat \ {0} /\ SECTSIZE \in Nat \ {0} /\ PGSIZE % SECTSIZE = 0
  BY PagingConstants, SectorConstants, StartAssumption
<1>2. c \in Nat
  BY <1>1, Below
<1>3. PGSIZE = c * SECTSIZE + (PGSIZE % SECTSIZE)
  BY <1>1, Divided
<1> HIDE DEF c
<1>4. PGSIZE = c * SECTSIZE
  BY <1>1, <1>2, <1>3
<1>5. c # 0
  BY <1>1, <1>2, <1>4
<1>6. QED BY <1>2, <1>4, <1>5

\* The place in a page tells the place in a sector.
LEMMA InSector ==
    ASSUME NEW x \in Int
    PROVE  x % SECTSIZE = (x % PGSIZE) % SECTSIZE
<1>1. PICK c \in Nat \ {0} : PGSIZE = c * SECTSIZE
  BY PageSectors
<1>2. SECTSIZE \in Nat \ {0} /\ PGSIZE \in Nat \ {0}
  BY PagingConstants, SectorConstants
<1> DEFINE p == x \div PGSIZE
           r == x % PGSIZE
           w == p * c
<1>3. p \in Int /\ r \in Int /\ x = p * PGSIZE + r
  BY <1>2, Divided
<1> HIDE DEF p, r
<1>4. w \in Int /\ p * PGSIZE = w * SECTSIZE
  BY <1>1, <1>2, <1>3
<1> HIDE DEF w
<1>5. x = w * SECTSIZE + r
  BY <1>3, <1>4
<1>6. x % SECTSIZE = r % SECTSIZE
  <2>1. SECTSIZE \in Nat \ {0} /\ w \in Int /\ r \in Int
    BY <1>2, <1>3, <1>4
  <2>2. QED BY <2>1, <1>5, Further
<1>7. QED BY <1>6 DEF r

\* The first sector read for a segment is that with the segment's first byte.
LEMMA FirstSector ==
    ASSUME NEW start \in {0, SECTSIZE}, NEW ph \in Segments
    PROVE  /\ start + ph.off \in Nat
           /\ (start + ph.off) % SECTSIZE = ph.vaddr % SECTSIZE
           /\ First(ph.vaddr, start + ph.off) = (ph.vaddr \div SECTSIZE) * SECTSIZE
<1> DEFINE off == ph.off
           va == ph.vaddr
           x == start + off
           q == va \div SECTSIZE
           r == va % SECTSIZE
<1>1. va \in Nat /\ off \in Nat /\ va % PGSIZE = off % PGSIZE
  BY SegmentType
<1>2. SECTSIZE \in Nat \ {0}
  BY SectorConstants
<1>3. x \in Nat
  BY <1>1, <1>2
<1>4. x % SECTSIZE = off % SECTSIZE
  <2>1. \E w \in Int : x = w * SECTSIZE + off
    <3>1. x = 0 * SECTSIZE + off \/ x = 1 * SECTSIZE + off
      BY <1>1, <1>2
    <3> HIDE DEF x, off
    <3>2. QED BY <3>1
  <2>2. x \in Int /\ off \in Int
    BY <1>1, <1>3
  <2> HIDE DEF x, off
  <2>3. PICK w \in Int : x = w * SECTSIZE + off
    BY <2>1
  <2>4. x % SECTSIZE = off % SECTSIZE /\ x \div SECTSIZE = w + (off \div SECTSIZE)
    BY <1>2, <2>2, <2>3, Further
  <2>5. QED BY <2>4
<1>5. off % SECTSIZE = r
  <2>1. va \in Int /\ off \in Int
    BY <1>1
  <2> HIDE DEF va, off
  <2>2. off % SECTSIZE = (off % PGSIZE) % SECTSIZE /\ va % SECTSIZE = (va % PGSIZE) % SECTSIZE
    BY <2>1, InSector
  <2>3. QED BY <1>1, <2>2
<1>6. va = q * SECTSIZE + r /\ q \in Int /\ r \in Int
  <2>1. va \in Int
    BY <1>1
  <2> HIDE DEF va
  <2>2. QED BY <1>2, <2>1, Divided
<1> HIDE DEF x, q, r, va
<1>7. q * SECTSIZE \in Int
  BY <1>2, <1>6
<1>8. va - r = q * SECTSIZE
  BY <1>6, <1>7
<1>9. First(va, x) = q * SECTSIZE
  BY <1>4, <1>5, <1>8 DEF First
<1>10. QED BY <1>3, <1>4, <1>5, <1>9 DEF x, q, r, va

\* What is read for a segment is in the segment's pages.
LEMMA ReadInPages ==
    ASSUME NEW start \in {0, SECTSIZE}, NEW ph \in Segments, NEW a \in Int,
           In(a - First(ph.vaddr, start + ph.off),
              SectorsOf(ph.vaddr, ph.filesz, start + ph.off))
    PROVE  a \div PGSIZE \in Pages(ph)
<1> DEFINE va == ph.vaddr
           n == ph.filesz
           x == start + ph.off
           f == First(va, x)
           b == a - f
           k == b \div SECTSIZE
           q == va \div SECTSIZE
           s == q + k
           e == IF k = 0 THEN va ELSE s * SECTSIZE
<1>1. /\ va \in Nat /\ n \in Nat /\ ph.memsz \in Nat \ {0} /\ n <= ph.memsz
      /\ SECTSIZE \in Nat \ {0}
  BY SegmentType, SectorConstants
<1>2. q \in Int /\ f = q * SECTSIZE
  <2>1. f = q * SECTSIZE
    BY FirstSector
  <2>2. va \in Int
    BY <1>1
  <2> HIDE DEF va, f
  <2>3. q \in Int
    BY <1>1, <2>2, Divided
  <2>4. QED BY <2>1, <2>3
<1>3. va % SECTSIZE \in 0 .. SECTSIZE - 1 /\ va = q * SECTSIZE + (va % SECTSIZE)
  <2>1. va \in Int /\ SECTSIZE \in Nat \ {0}
    BY <1>1
  <2> HIDE DEF va
  <2>2. QED BY <2>1, Divided
<1> DEFINE r == va % SECTSIZE
<1> HIDE DEF q, r
<1>4. f \in Int /\ f <= va /\ va < f + SECTSIZE
  BY <1>1, <1>2, <1>3 DEF r
<1>5. b >= 0 /\ k \in SectorsOf(va, n, x)
  BY DEF In
<1> HIDE DEF f
<1>6. b \in Nat
  BY <1>4, <1>5
<1>7. k \in Nat /\ f + k * SECTSIZE < va + n
  BY <1>1, <1>5, <1>6 DEF SectorsOf, f
<1>8. b = k * SECTSIZE + (b % SECTSIZE) /\ b % SECTSIZE \in 0 .. SECTSIZE - 1
  <2> HIDE DEF b
  <2>1. b \in Int
    BY <1>6
  <2>2. QED BY <1>1, <2>1, Divided
<1> DEFINE m == b % SECTSIZE
<1>9. a = f + b
  BY <1>4
<1> HIDE DEF b, k, va, n, x, m
<1>10. s \in Int /\ s * SECTSIZE = f + k * SECTSIZE /\ k * SECTSIZE \in Int
  BY <1>1, <1>2, <1>7
<1> HIDE DEF s
<1>11. a \div SECTSIZE = s
  <2>1. a = s * SECTSIZE + m
    BY <1>4, <1>8, <1>9, <1>10 DEF m
  <2>2. m \in 0 .. SECTSIZE - 1
    BY <1>8 DEF m
  <2>3. QED BY <1>1, <1>10, <2>1, <2>2, Quotient
<1>12. e \in Int /\ e \div SECTSIZE = s
  <2>1. CASE k = 0
    <3>1. e = va /\ s = q
      BY <1>2, <2>1 DEF s
    <3>2. QED BY <1>1, <3>1 DEF q
  <2>2. CASE k # 0
    <3>1. e = s * SECTSIZE + 0 /\ e \in Int /\ 0 \in 0 .. SECTSIZE - 1
      BY <1>1, <1>4, <1>10, <2>2
    <3> HIDE DEF e
    <3>2. QED BY <1>1, <1>10, <3>1, Quotient
  <2>3. QED BY <2>1, <2>2
<1>13. e \in va .. va + ph.memsz - 1
  <2>1. CASE k = 0
    BY <1>1, <2>1
  <2>2. CASE k # 0
    <3>1. 1 * SECTSIZE <= k * SECTSIZE
      BY <1>1, <1>7, <2>2, Longer
    <3>2. e = f + k * SECTSIZE /\ e \in Int
      BY <1>4, <1>10, <2>2
    <3> HIDE DEF e
    <3>3. e >= va /\ e < va + n
      BY <1>1, <1>4, <1>7, <1>10, <3>1, <3>2
    <3>4. QED BY <1>1, <3>2, <3>3
  <2>3. QED BY <2>1, <2>2
<1> HIDE DEF e
<1>14. PICK c \in Nat \ {0} : PGSIZE = c * SECTSIZE
  BY PageSectors
<1>15. a \div PGSIZE = (a \div SECTSIZE) \div c /\ e \div PGSIZE = (e \div SECTSIZE) \div c
  BY <1>1, <1>12, <1>14, InPage
<1>16. a \div PGSIZE = e \div PGSIZE
  BY <1>11, <1>12, <1>15
<1>17. QED BY <1>13, <1>16 DEF Pages, va

\* A segment is loaded whole and leaves other pages as they were.
LEMMA SegmentLoaded ==
    ASSUME NEW start \in {0, SECTSIZE}, NEW ph \in Segments, NEW mem \in Memories
    PROVE  LET next == LoadSegment(mem, Disk, start, ph)
           IN /\ next \in Memories
              /\ \A k \in 0 .. ph.memsz - 1 :
                    next[ph.vaddr + k] =
                       IF k < ph.filesz THEN OnDisk(start + ph.off + k) ELSE 0
              /\ \A a \in DOMAIN Memory : a \div PGSIZE \notin Pages(ph) => next[a] = mem[a]
<1> DEFINE va == ph.vaddr
           n == ph.filesz
           x == start + ph.off
           f == First(va, x)
           R == SectorsOf(va, n, x)
           to == Sector(x) * SECTSIZE
           Zero(a) == a - va \in n .. ph.memsz - 1
           read == readseg(mem, Disk, va, n, x)
           next == LoadSegment(mem, Disk, start, ph)
<1>1. /\ va \in Nat /\ n \in Nat /\ ph.memsz \in Nat \ {0} /\ n <= ph.memsz
      /\ \A k \in 0 .. ph.memsz - 1 : va + k \in DOMAIN Memory
      /\ DOMAIN Memory \subseteq Int
  BY SegmentType, StartAssumption
<1>2. x \in Nat /\ SECTSIZE \in Nat \ {0} /\ x % SECTSIZE \in 0 .. SECTSIZE - 1
  <2>1. x \in Nat /\ x \in Int /\ SECTSIZE \in Nat \ {0}
    BY FirstSector, SectorConstants
  <2> HIDE DEF x
  <2>2. QED BY <2>1, Divided
<1>3. f = va - (x % SECTSIZE) /\ to = x - (x % SECTSIZE) + SECTSIZE
  BY <1>2, SectorPlace DEF First
<1>4. f \in Int /\ to \in Int /\ \A a \in Int : to + a - f = x + (a - va) + SECTSIZE
  <2> DEFINE r == x % SECTSIZE
  <2>1. r \in Int /\ f = va - r /\ to = x - r + SECTSIZE
    BY <1>2, <1>3
  <2> HIDE DEF r, f, to, va, x
  <2>2. QED BY <1>1, <1>2, <2>1 DEF va
<1>5. DOMAIN mem = DOMAIN Memory
  BY DEF Memories
<1>6. read = [a \in DOMAIN Memory |-> IF In(a - f, R) THEN Disk[to + a - f] ELSE mem[a]]
  BY <1>5 DEF readseg
<1>7. next = [a \in DOMAIN Memory |-> IF Zero(a) THEN 0 ELSE read[a]]
  BY <1>5 DEF LoadSegment
<1> HIDE DEF R, to, f, next, read
<1>8. \A a \in DOMAIN Memory :
         next[a] = IF Zero(a) THEN 0 ELSE IF In(a - f, R) THEN Disk[to + a - f] ELSE mem[a]
  BY <1>6, <1>7
<1>9. next \in Memories
  <2>1. ASSUME NEW a \in DOMAIN Memory PROVE next[a] \in Values
    <3>1. a \in Int /\ to + a - f \in Int
      BY <1>1, <1>4
    <3>2. 0 \in Values /\ Disk[to + a - f] \in Values
      BY <3>1 DEF Values
    <3>3. mem[a] \in Values
      BY DEF Memories
    <3> HIDE DEF Zero
    <3>4. QED BY <1>8, <3>2, <3>3
  <2>2. QED BY <1>7, <2>1 DEF Memories
<1>10. ASSUME NEW k \in 0 .. ph.memsz - 1
       PROVE  next[va + k] = IF k < n THEN OnDisk(x + k) ELSE 0
  <2> DEFINE a == va + k
  <2>1. a \in DOMAIN Memory /\ a \in Int /\ a - va = k /\ k \in Nat
    BY <1>1
  <2> HIDE DEF a
  <2>2. CASE k < n
    <3>1. ~ Zero(a) /\ k \in 0 .. n - 1
      BY <1>1, <2>1, <2>2
    <3>2. In(a - f, R)
      BY <1>1, <1>2, <2>1, <3>1, Covered DEF f, R
    <3>3. to + a - f = x + k + SECTSIZE
      BY <1>4, <2>1
    <3>4. next[a] = Disk[x + k + SECTSIZE]
      BY <1>8, <2>1, <3>1, <3>2, <3>3
    <3>5. QED BY <2>2, <3>4 DEF OnDisk, a
  <2>3. CASE ~ (k < n)
    <3>1. Zero(a)
      BY <1>1, <2>1, <2>3
    <3> HIDE DEF Zero
    <3>2. QED BY <1>8, <2>1, <2>3, <3>1 DEF a
  <2>4. QED BY <2>2, <2>3
<1>11. ASSUME NEW a \in DOMAIN Memory, a \div PGSIZE \notin Pages(ph)
       PROVE  next[a] = mem[a]
  <2>1. a \in Int
    BY <1>1
  <2>2. ~ Zero(a)
    <3> SUFFICES ASSUME Zero(a) PROVE FALSE
      OBVIOUS
    <3>1. a \in va .. va + ph.memsz - 1
      BY <1>1, <2>1
    <3>2. QED BY <1>11, <3>1 DEF Pages
  <2>3. ~ In(a - f, R)
    BY <1>11, <2>1, ReadInPages DEF f, R
  <2> HIDE DEF Zero
  <2>4. QED BY <1>8, <2>2, <2>3
<1>12. QED BY <1>9, <1>10, <1>11 DEF next

\* What load_icode's loop leaves after each segment.
LEMMA LoadRuns ==
    ASSUME NEW start \in {0, SECTSIZE}, NEW n \in Nat, NEW segments \in [1 .. n -> Segments]
    PROVE  \E g \in [0 .. n -> Memories] :
              /\ g[0] = Memory
              /\ \A k \in 1 .. n : g[k] = LoadSegment(g[k - 1], Disk, start, segments[k])
              /\ load_icode(Memory, Disk, start, segments) = g[n]
<1> DEFINE G == [k \in 1 .. n |->
                    [x \in Memories |-> LoadSegment(x, Disk, start, segments[k])]]
           F(k, f) == IF k = 0 THEN Memory
                      ELSE LoadSegment(f[k - 1], Disk, start, segments[k])
           s == CHOOSE f : f = [k \in 0 .. n |-> F(k, f)]
<1>1. Memory \in Memories
  BY StartAssumption DEF Memories, Values
<1>2. G \in [1 .. n -> [Memories -> Memories]]
  <2>1. \A k \in 1 .. n : segments[k] \in Segments
    OBVIOUS
  <2>2. \A k \in 1 .. n, x \in Memories :
           LoadSegment(x, Disk, start, segments[k]) \in Memories
    BY <2>1, SegmentLoaded
  <2>3. QED BY <2>2
<1>3. PICK g : Repeats(g, n, Memories, G, Memory)
  <2> HIDE DEF G
  <2>1. QED BY <1>1, <1>2, Repeated
<1>4. g \in [0 .. n -> Memories] /\ g[0] = Memory /\ \A k \in 1 .. n : g[k] = G[k][g[k - 1]]
  BY <1>3 DEF Repeats
<1>5. \A k \in 1 .. n : k - 1 \in 0 .. n /\ k # 0 /\ k \in 0 .. n /\ g[k - 1] \in Memories
  BY <1>4
<1>6. \A k \in 1 .. n : g[k] = LoadSegment(g[k - 1], Disk, start, segments[k])
  BY <1>4, <1>5
<1>7. g = [k \in 0 .. n |-> F(k, g)]
  <2>1. \A k \in 0 .. n : k = 0 \/ k \in 1 .. n
    OBVIOUS
  <2>2. \A k \in 0 .. n : g[k] = F(k, g)
    BY <1>4, <1>5, <1>6, <2>1
  <2> HIDE DEF F
  <2>3. QED BY <1>4, <2>2
<1>8. s = [k \in 0 .. n |-> F(k, s)]
  <2> HIDE DEF F
  <2>1. QED BY <1>7
<1>9. load_icode(Memory, Disk, start, segments) = s[n]
  <2>1. Len(segments) = n
    OBVIOUS
  <2>2. QED BY <2>1 DEF load_icode
<1> DEFINE T == {k \in 0 .. n : s[k] = g[k]}
<1> HIDE DEF s
<1>10. 0 \in T
  BY <1>4, <1>8
<1>11. ASSUME NEW k \in 1 .. n, k - 1 \in T PROVE k \in T
  <2>1. s[k - 1] = g[k - 1]
    BY <1>11
  <2>2. s[k] = F(k, s)
    BY <1>5, <1>8
  <2>3. s[k] = LoadSegment(s[k - 1], Disk, start, segments[k])
    BY <1>5, <2>2
  <2>4. QED BY <1>5, <1>6, <2>1, <2>3
<1> HIDE DEF T, F, G
<1>12. \A k \in 0 .. n : k \in T
  BY <1>10, <1>11, UpTo
<1>13. n \in 0 .. n
  OBVIOUS
<1>14. s[n] = g[n]
  BY <1>12, <1>13 DEF T
<1>15. QED BY <1>4, <1>6, <1>9, <1>14

\* Segments without a common page are all there after the last was loaded.
LEMMA ProgramLoaded ==
    ASSUME NEW start \in {0, SECTSIZE}, NEW segments \in Programs, NEW i \in 1 .. Several,
           NEW k \in 0 .. segments[i].memsz - 1
    PROVE  load_icode(Memory, Disk, start, segments)[segments[i].vaddr + k] =
              IF k < segments[i].filesz THEN OnDisk(start + segments[i].off + k) ELSE 0
<1> DEFINE n == Several
           a == segments[i].vaddr + k
           byte == IF k < segments[i].filesz THEN OnDisk(start + segments[i].off + k) ELSE 0
<1>1. /\ n \in Nat /\ segments \in [1 .. n -> Segments]
      /\ \A j \in 1 .. n : i # j => Pages(segments[i]) \cap Pages(segments[j]) = {}
  BY StartAssumption DEF Programs
<1>2. segments[i] \in Segments
  BY <1>1
<1>3. a \in DOMAIN Memory /\ a \div PGSIZE \in Pages(segments[i])
  <2> DEFINE va == segments[i].vaddr
             sz == segments[i].memsz
  <2>1. va \in Nat /\ sz \in Nat /\ va + k \in DOMAIN Memory
    BY <1>2, SegmentType
  <2>2. a \in va .. va + sz - 1
    BY <2>1
  <2>3. QED BY <2>1, <2>2 DEF Pages
<1>4. PICK g \in [0 .. n -> Memories] :
         /\ \A j \in 1 .. n : g[j] = LoadSegment(g[j - 1], Disk, start, segments[j])
         /\ load_icode(Memory, Disk, start, segments) = g[n]
  <2> HIDE DEF n
  <2>1. \E g \in [0 .. n -> Memories] :
           /\ g[0] = Memory
           /\ \A j \in 1 .. n : g[j] = LoadSegment(g[j - 1], Disk, start, segments[j])
           /\ load_icode(Memory, Disk, start, segments) = g[n]
    BY <1>1, LoadRuns
  <2>2. QED BY <2>1
<1> DEFINE T == {j \in 0 .. n : i <= j => g[j][a] = byte}
<1>5. 0 \in T
  BY <1>1
<1>6. ASSUME NEW j \in 1 .. n, j - 1 \in T PROVE j \in T
  <2> SUFFICES ASSUME i <= j PROVE g[j][a] = byte
    BY <1>1
  <2>1. /\ j - 1 \in 0 .. n /\ g[j - 1] \in Memories /\ segments[j] \in Segments
        /\ g[j] = LoadSegment(g[j - 1], Disk, start, segments[j])
    BY <1>1, <1>4
  <2>2. CASE i = j
    BY <2>1, <2>2, SegmentLoaded
  <2>3. CASE i # j
    <3>1. g[j - 1][a] = byte
      <4>1. i <= j - 1
        BY <1>1, <2>3
      <4>2. QED BY <1>6, <4>1
    <3>2. a \div PGSIZE \notin Pages(segments[j])
      BY <1>1, <1>3, <2>3
    <3> HIDE DEF a, byte
    <3>3. g[j][a] = g[j - 1][a]
      BY <1>3, <2>1, <3>2, SegmentLoaded
    <3>4. QED BY <3>1, <3>3
  <2>4. QED BY <2>2, <2>3
<1> HIDE DEF T
<1>7. \A j \in 0 .. n : j \in T
  BY <1>1, <1>5, <1>6, UpTo
<1>8. n \in 0 .. n /\ i <= n
  BY <1>1
<1>9. g[n][a] = byte
  BY <1>7, <1>8 DEF T
<1>10. QED BY <1>4, <1>9
-----------------------------------------------------------------------------
(***************************************************************************)
(* Files on the disk                                                       *)
(***************************************************************************)

\* The files before a new one lie as they did without it.
LEMMA NextInode ==
    ASSUME NEW n \in Nat, NEW sizes \in [1 .. n -> Sizes], NEW size \in Sizes
    PROVE  /\ InodeOf(sizes) \in Int
           /\ InodeOf(Append(sizes, size)) = InodeOf(sizes) + 1 + Blocks(size)
<1> DEFINE more == Append(sizes, size)
           G == [k \in 1 .. n + 1 |-> [x \in Int |-> x + 1 + Blocks(more[k])]]
           F(q, k, f) == IF k = 0 THEN 2 ELSE f[k - 1] + 1 + Blocks(q[k])
           s == CHOOSE f : f = [k \in 0 .. n |-> F(sizes, k, f)]
           t == CHOOSE f : f = [k \in 0 .. n + 1 |-> F(more, k, f)]
<1>1. /\ more \in [1 .. n + 1 -> Sizes] /\ Len(sizes) = n /\ Len(more) = n + 1
      /\ more[n + 1] = size /\ \A k \in 1 .. n : more[k] = sizes[k]
      /\ n + 1 \in Nat
  <2>1. sizes \in Seq(Sizes) /\ Len(sizes) = n
    OBVIOUS
  <2>2. /\ \A k \in 1 .. n : more[k] = sizes[k]
        /\ more[n + 1] = size
    BY <2>1
  <2>3. more \in Seq(Sizes) /\ Len(more) = n + 1
    BY <2>1
  <2> HIDE DEF more
  <2>4. QED BY <2>1, <2>2, <2>3
<1>2. \A x \in Sizes : Blocks(x) \in Int
  <2> SUFFICES ASSUME NEW x \in Sizes PROVE Blocks(x) \in Int
    OBVIOUS
  <2> DEFINE b == x + SECTSIZE - 1
  <2>1. b \in Int /\ SECTSIZE \in Nat \ {0}
    BY StartAssumption, SectorConstants
  <2> HIDE DEF b
  <2>2. b \div SECTSIZE \in Int
    BY <2>1, Divided
  <2>3. QED BY <2>2 DEF Blocks, b
<1> HIDE DEF more
<1>3. G \in [1 .. n + 1 -> [Int -> Int]]
  <2>1. \A k \in 1 .. n + 1 : Blocks(more[k]) \in Int
    BY <1>1, <1>2
  <2>2. QED BY <2>1
<1>4. PICK g : Repeats(g, n + 1, Int, G, 2)
  <2> DEFINE N == n + 1
  <2>1. N \in Nat /\ G \in [1 .. N -> [Int -> Int]] /\ 2 \in Int
    BY <1>1, <1>3
  <2> HIDE DEF G, N
  <2>2. \E g : Repeats(g, N, Int, G, 2)
    BY <2>1, Repeated
  <2>3. QED BY <2>2 DEF N
<1>5. /\ g \in [0 .. n + 1 -> Int] /\ g[0] = 2
      /\ \A k \in 1 .. n + 1 : g[k] = G[k][g[k - 1]]
  BY <1>4 DEF Repeats
<1>6. \A k \in 1 .. n + 1 : g[k] = g[k - 1] + 1 + Blocks(more[k])
  <2>1. \A k \in 1 .. n + 1 : k - 1 \in 0 .. n + 1
    BY <1>1
  <2>2. QED BY <1>5, <2>1
<1> HIDE DEF G
<1>7. ASSUME NEW m \in Nat, m <= n + 1, NEW q, \A k \in 1 .. m : q[k] = more[k]
      PROVE  LET u == CHOOSE f : f = [k \in 0 .. m |-> F(q, k, f)]
             IN u[m] = g[m]
  <2> DEFINE u == CHOOSE f : f = [k \in 0 .. m |-> F(q, k, f)]
             h == [k \in 0 .. m |-> g[k]]
             T == {k \in 0 .. m : u[k] = g[k]}
  <2>1. \A k \in 0 .. m : k = 0 \/ (k # 0 /\ k \in 1 .. m /\ k - 1 \in 0 .. m /\ k \in 1 .. n + 1)
    BY <1>1, <1>7
  <2>2. h = [k \in 0 .. m |-> F(q, k, h)]
    <3>1. \A k \in 0 .. m : h[k] = F(q, k, h)
      BY <1>5, <1>6, <1>7, <2>1
    <3> HIDE DEF F
    <3>2. h = [k \in 0 .. m |-> h[k]]
      OBVIOUS
    <3> HIDE DEF h
    <3>3. QED BY <3>1, <3>2
  <2>3. u = [k \in 0 .. m |-> F(q, k, u)]
    <3> HIDE DEF F, h
    <3>1. QED BY <2>2
  <2> HIDE DEF u
  <2>4. 0 \in T
    BY <1>5, <2>3
  <2>5. ASSUME NEW k \in 1 .. m, k - 1 \in T PROVE k \in T
    <3>1. k \in 0 .. m /\ k # 0 /\ k \in 1 .. n + 1 /\ u[k - 1] = g[k - 1]
      BY <1>1, <1>7, <2>1, <2>5
    <3>2. u[k] = F(q, k, u)
      BY <2>3, <3>1
    <3>3. u[k] = g[k - 1] + 1 + Blocks(more[k])
      BY <1>7, <3>1, <3>2
    <3>4. QED BY <1>6, <3>1, <3>3
  <2> HIDE DEF T, F
  <2>6. m \in T
    <3>1. \A k \in 0 .. m : k \in T
      BY <2>4, <2>5, UpTo
    <3>2. QED BY <3>1
  <2>7. QED BY <2>6 DEF T, u
<1>8. InodeOf(sizes) = s[n] /\ InodeOf(more) = t[n + 1]
  BY <1>1 DEF InodeOf
<1>9. s[n] = g[n]
  <2> HIDE DEF F
  <2>1. n <= n + 1
    OBVIOUS
  <2>2. QED BY <1>1, <1>7, <2>1
<1>10. t[n + 1] = g[n + 1]
  <2> HIDE DEF F
  <2>1. QED BY <1>1, <1>7
<1> HIDE DEF s, t
<1>11. g[n] \in Int /\ g[n + 1] = g[n] + 1 + Blocks(size)
  <2>1. n \in 0 .. n + 1 /\ n + 1 \in 1 .. n + 1 /\ (n + 1) - 1 = n
    OBVIOUS
  <2>2. QED BY <1>1, <1>5, <1>6, <2>1
<1>12. QED BY <1>8, <1>9, <1>10, <1>11 DEF more

\* From FrunStart on are the blocks the builder has put there, all of them.
LEMMA ProgramFound ==
    ASSUME NEW n \in Nat, NEW sizes \in [1 .. n -> Sizes], NEW size \in Sizes \ {0},
           NEW b \in 0 .. size - 1
    PROVE  LET at == (FrunStart(sizes) + b) \div SECTSIZE
           IN /\ at = data_block_offset(sizes, b \div SECTSIZE)
              /\ at < InodeOf(Append(sizes, size))
<1> DEFINE w == InodeOf(sizes) + 1 + 0
           k == b \div SECTSIZE
           a == w * SECTSIZE + b
<1>1. /\ InodeOf(sizes) \in Int
      /\ InodeOf(Append(sizes, size)) = InodeOf(sizes) + 1 + Blocks(size)
  BY NextInode
<1>2. SECTSIZE \in Nat \ {0} /\ size \in Nat /\ b \in Nat /\ b < size
  BY StartAssumption, SectorConstants
<1>3. w \in Int /\ w * SECTSIZE \in Int
  BY <1>1, <1>2
<1>4. FrunStart(sizes) + b = a
  BY DEF FrunStart, data_block_offset
<1> HIDE DEF w
<1>5. a \in Int /\ b \in Int
  BY <1>2, <1>3
<1>6. a \div SECTSIZE = w + k
  <2> HIDE DEF k
  <2>1. a = w * SECTSIZE + b
    OBVIOUS
  <2> HIDE DEF a
  <2>2. QED BY <1>2, <1>3, <1>5, <2>1, Further DEF k
<1>7. k \in Nat
  BY <1>2, Below
<1>8. k < Blocks(size)
  <2> DEFINE x == size + SECTSIZE - 1
             m == x \div SECTSIZE
  <2>1. x \in Nat
    BY <1>2
  <2>2. m \in Nat /\ x = m * SECTSIZE + (x % SECTSIZE) /\ x % SECTSIZE \in 0 .. SECTSIZE - 1
    <3>1. x \in Int
      BY <2>1
    <3> HIDE DEF x
    <3>2. QED BY <1>2, <2>1, <3>1, Below, Divided
  <2> DEFINE r == x % SECTSIZE
  <2>3. r \in 0 .. SECTSIZE - 1 /\ x = m * SECTSIZE + r
    BY <2>2
  <2> HIDE DEF m, r
  <2>4. m * SECTSIZE \in Int
    BY <1>2, <2>2
  <2>5. b < m * SECTSIZE
    BY <1>2, <2>3, <2>4
  <2>6. m \in Int
    BY <2>2
  <2>7. b \div SECTSIZE < m
    BY <1>2, <2>5, <2>6, Below
  <2>8. QED BY <2>7 DEF Blocks, m
<1>9. Blocks(size) \in Int
  <2> DEFINE x == size + SECTSIZE - 1
  <2>1. x \in Int
    BY <1>2
  <2> HIDE DEF x
  <2>2. x \div SECTSIZE \in Int
    BY <1>2, <2>1, Divided
  <2>3. QED BY <2>2 DEF Blocks, x
<1> HIDE DEF k, a
<1>10. a \div SECTSIZE = data_block_offset(sizes, k)
  BY <1>1, <1>6, <1>7 DEF data_block_offset, w
<1>11. a \div SECTSIZE < InodeOf(Append(sizes, size))
  BY <1>1, <1>6, <1>7, <1>8, <1>9 DEF w
<1>12. QED BY <1>4, <1>10, <1>11 DEF k
-----------------------------------------------------------------------------
(***************************************************************************)
(* The page tables of the start                                            *)
(***************************************************************************)

\* What a call has returned.
Returned == StartCall /\ result \in {NoResult, <<StartResult>>}

LEMMA AlwaysReturned == StartSpec => []Returned
<1>1. StartInit => Returned
  BY DEF StartInit, Returned
<1>2. Returned /\ [StartReturn]_<<op, arg, result>> => Returned'
  BY DEF Returned, StartReturn, StartCall, StartResult
<1>3. QED BY <1>1, <1>2, PTL DEF StartSpec

\* For page tables, pages and a memory of any size (pmap.c, entrypgdir.c): the
\* directory of the start has the memory at 0 and KERNBASE, and page_init maps all of
\* the memory at KERNBASE through no table it has not mapped before.
THEOREM WindowAlwaysWhole == StartSpec => []WindowWhole
<1>1. Returned => WindowWhole
  <2> SUFFICES ASSUME Returned PROVE WindowWhole
    OBVIOUS
  <2>1. ASSUME NEW o, Done(o) PROVE op = o /\ Res = StartResult
    BY <2>1 DEF Done, Returned, Res
  <2>2. MemoryTwice
    <3> SUFFICES ASSUME Done("translate")
                 PROVE  /\ PGADDR(PDX(arg), PTX(arg), PGOFF(arg)) = arg
                        /\ Res[1] = CASE arg < PTSIZE -> arg
                                      [] arg - KERNBASE \in 0 .. PTSIZE - 1 -> arg - KERNBASE
                                      [] OTHER -> Absent
      BY DEF MemoryTwice
    <3>1. op = "translate" /\ Res = StartResult
      BY <2>1
    <3>2. arg \in 0 .. NPTENTRIES * PTSIZE - 1
      BY <3>1 DEF Returned, StartCall
    <3>3. Res = <<Translate(Booted(EXTPHYSMEM), arg)>>
      BY <3>1 DEF StartResult
    <3>4. QED BY <3>2, <3>3, TwiceThere
  <2>3. KernelWindow
    <3> SUFFICES ASSUME Done("page_init")
                 PROVE  /\ Res.sound
                        /\ \A pa \in 0 .. npages * PGSIZE - 1 : Translate(Res, KADDR(pa)) = pa
                        /\ \A la \in 0 .. PTSIZE - 1 : Translate(Res, la) = la
                        /\ ToSet(Res.free) = (FIRSTFREE .. npages - 1) \ DOMAIN Res.tables
                        /\ IsInjective(Res.free)
                        /\ \A i, j \in Index : i # j /\ Res.dir[i] = Res.dir[j] =>
                              Res.dir[i] = Absent \/ {i, j} = {0, KERNPDX}
      BY DEF KernelWindow
    <3>1. op = "page_init" /\ Res = StartResult
      BY <2>1
    <3>2. arg \in DOMAIN KernelImage
      BY <3>1 DEF Returned, StartCall
    <3>3. Res = page_init(Booted(arg))
      BY <3>1 DEF StartResult
    <3>4. QED BY <3>2, <3>3, WholeWindow
  <2>4. QED BY <2>2, <2>3 DEF WindowWhole
<1>2. QED BY AlwaysReturned, <1>1, PTL

\* For programs and disks of any size (elf.c, env.c, boot/main.c, formatting.c):
\* whole sectors asked for are exactly those transferred, segments without a common
\* page are in memory as their file says, and a program is read from where it was put.
THEOREM LoadedAlwaysAsBuilt == StartSpec => []LoadedAsBuilt
<1>1. Returned => LoadedAsBuilt
  <2> SUFFICES ASSUME Returned PROVE LoadedAsBuilt
    OBVIOUS
  <2>1. ASSUME NEW o, Done(o) PROVE op = o /\ Res = StartResult
    BY <2>1 DEF Done, Returned, Res
  <2>2. SectorsExact
    <3> SUFFICES ASSUME Done("sectors") PROVE
          LET pa == arg[1]  n == arg[2] * SECTSIZE  from == (arg[3] + 1) * SECTSIZE
          IN /\ Res[1] = [a \in DOMAIN Memory |->
                            IF a - pa \in 0 .. n - 1 THEN Disk[from + a - pa] ELSE Memory[a]]
             /\ Res[2] = [b \in DOMAIN Disk |->
                            IF b - from \in 0 .. n - 1 THEN Memory[pa + b - from] ELSE Disk[b]]
      BY DEF SectorsExact
    <3>1. op = "sectors" /\ Res = StartResult
      BY <2>1
    <3>2. arg[1] \in Nat /\ arg[2] \in Nat /\ arg[3] \in Nat
      BY <3>1, StartAssumption DEF Returned, StartCall
    <3>3. Res = <<readseg(Memory, Disk, arg[1], arg[2] * SECTSIZE, arg[3] * SECTSIZE),
                  writeseg(Memory, Disk, arg[1], arg[2] * SECTSIZE, arg[3] * SECTSIZE)>>
      BY <3>1 DEF StartResult
    <3> DEFINE pa == arg[1]
               n == arg[2] * SECTSIZE
               offset == arg[3] * SECTSIZE
               from == (arg[3] + 1) * SECTSIZE
    <3>4. /\ Res[1] = readseg(Memory, Disk, pa, n, offset)
          /\ Res[2] = writeseg(Memory, Disk, pa, n, offset)
      BY <3>3
    <3>5. \E k, o \in Nat : n = k * SECTSIZE /\ offset = o * SECTSIZE
                            /\ from = (o + 1) * SECTSIZE
      BY <3>2
    <3>6. pa \in Nat
      BY <3>2
    <3> HIDE DEF pa, n, offset, from
    <3>7. PICK k \in Nat, o \in Nat :
             n = k * SECTSIZE /\ offset = o * SECTSIZE /\ from = (o + 1) * SECTSIZE
      BY <3>5
    <3>8. Res[1] = Filled(pa, n, from) /\ Res[2] = Stored(pa, n, from)
      BY <3>4, <3>6, <3>7, SectorsTransferred
    <3>9. QED BY <3>8 DEF Filled, Stored, pa, n, from
  <2>3. SegmentsLoaded
    <3> SUFFICES ASSUME NEW o \in {"load", "boot"}, Done(o), NEW i \in 1 .. Several,
                        NEW k \in 0 .. arg[i].memsz - 1
                 PROVE  LET start == IF o = "load" THEN SECTSIZE ELSE 0
                        IN Res[arg[i].vaddr + k] =
                              IF k < arg[i].filesz THEN OnDisk(start + arg[i].off + k) ELSE 0
      BY DEF SegmentsLoaded
    <3>1. op = o /\ Res = StartResult
      BY <2>1
    <3>2. arg \in Programs
      BY <3>1 DEF Returned, StartCall
    <3> DEFINE start == IF o = "load" THEN SECTSIZE ELSE 0
    <3>3. Res = load_icode(Memory, Disk, start, arg) /\ start \in {0, SECTSIZE}
      BY <3>1 DEF StartResult, bootmain
    <3> HIDE DEF start
    <3>4. Res[arg[i].vaddr + k] =
             IF k < arg[i].filesz THEN OnDisk(start + arg[i].off + k) ELSE 0
      BY <3>2, <3>3, ProgramLoaded
    <3>5. QED BY <3>4 DEF start
  <2>4. ProgramWhereBuilt
    <3> SUFFICES ASSUME Done("frun"), NEW b \in 0 .. arg[2] - 1
                 PROVE  /\ (Res + b) \div SECTSIZE = data_block_offset(arg[1], b \div SECTSIZE)
                        /\ (Res + b) \div SECTSIZE < InodeOf(Append(arg[1], arg[2]))
      BY DEF ProgramWhereBuilt
    <3>1. op = "frun" /\ Res = StartResult
      BY <2>1
    <3>2. arg[1] \in [1 .. Several -> Sizes] /\ arg[2] \in Sizes \ {0} /\ Several \in Nat
      BY <3>1, StartAssumption DEF Returned, StartCall
    <3>3. Res = FrunStart(arg[1])
      BY <3>1 DEF StartResult
    <3>4. QED BY <3>2, <3>3, ProgramFound
  <2>5. QED BY <2>2, <2>3, <2>4 DEF LoadedAsBuilt
<1>2. QED BY AlwaysReturned, <1>1, PTL
=============================================================================
