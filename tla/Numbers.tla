------------------------------ MODULE Numbers ------------------------------
(***************************************************************************)
(* Numbers to text and back: get_num of the print functions                *)
(* (kernel/src/lib/printk.c, and copies of it in the shell and the game),  *)
(* strtol (lib/string.c), and "ls": its options (my_shell/src/cmd_handler.c) *)
(* and what it lists (kernel/src/fs/fs.c).                                 *)
(* Text is a sequence of character codes; integers have Width bits.        *)
(***************************************************************************)
EXTENDS Integers, Sequences, SequencesExt

CONSTANT Width

ASSUME WidthAssumption == Width \in Nat \ {0}

Ints == -(2 ^ (Width - 1)) .. 2 ^ (Width - 1) - 1
Unsigned(n) == n % 2 ^ Width
Wrap(n) == IF Unsigned(n) \in Ints THEN Unsigned(n) ELSE Unsigned(n) - 2 ^ Width

Space == 32
Minus == 45
Zero == 48
Digit(d) == IF d < 10 THEN Zero + d ELSE 97 + d - 10

\* The digits of num, the last of which is taken off first.
Digits(num, base) ==
    LET digits[n \in 0 .. num] ==
            IF n = 0 THEN << >> ELSE Append(digits[n \div base], Digit(n % base))
    IN digits[num]

Signed(base, n) == base = 10 /\ n < 0

\* The number 2^Width - 1 of base 10 would be returned as nothing, but -n of no
\* negative n is that.
get_num(base, n) ==
    LET num == Unsigned(IF Signed(base, n) THEN Wrap(-n) ELSE n)
    IN IF n = 0 THEN <<Zero>>
       ELSE IF base = 10 /\ num = 2 ^ Width - 1 THEN << >>
       ELSE (IF Signed(base, n) THEN <<Minus>> ELSE << >>) \o Digits(num, base)

\* The digits of a number, at least one; of a number below 0 no caller asks.
itoa(a) == IF a = 0 THEN <<Zero>> ELSE Digits(a, 10)

\* The game has a copy of it.
libitoa(a) == itoa(a)

Percent == 37

\* What a directive prints of its argument, and any other: the percent sign.
Printed(c, a) ==
    CASE c = 100 -> get_num(10, a)   \* d
      [] c = 120 -> get_num(16, a)   \* x
      [] c = 115 -> a                \* s
      [] c = 99  -> <<a % 256>>      \* c
      [] OTHER   -> <<Percent>>

\* Is the character at k the second of a directive?
Directive(ctl, k) ==
    LET second[j \in 0 .. k] == j > 1 /\ ctl[j - 1] = Percent /\ ~second[j - 1]
    IN second[k]

\* vfprintf: every directive takes an argument, also one that is not known; a
\* percent sign at the end is printed.
vfprintf(ctl, args) ==
    LET used[k \in 0 .. Len(ctl)] ==
            IF k = 0 THEN 0 ELSE used[k - 1] + IF Directive(ctl, k) THEN 1 ELSE 0
        out[k \in 0 .. Len(ctl)] ==
            CASE k = 0 -> << >>
              [] k > 0 /\ Directive(ctl, k) ->
                    out[k - 1] \o Printed(ctl[k], args[used[k]])
              [] k > 0 /\ ~Directive(ctl, k) /\ ctl[k] = Percent /\ k < Len(ctl) ->
                    out[k - 1]
              [] OTHER -> Append(out[k - 1], ctl[k])
    IN out[Len(ctl)]

\* The value of a character, or more than any base.
Value(c) ==
    CASE c \in Zero .. Zero + 9 -> c - Zero
      [] c \in 97 .. 122 -> c - 97 + 10
      [] c \in 65 .. 90 -> c - 65 + 10
      [] OTHER -> 99

\* strtol of text without leading blanks or prefix: a sign, and digits up to the
\* first character that is none.  Sums wrap.
strtol(s, base) ==
    LET neg == s # << >> /\ s[1] = Minus
        val[k \in 0 .. Len(s)] ==  \* of the first k characters
            IF k = 0 \/ (k = 1 /\ neg) THEN 0
            ELSE Wrap(val[k - 1] * base + Value(s[k]))
        ends == {k \in DOMAIN s : ~(k = 1 /\ neg) /\ Value(s[k]) >= base}
        n == IF ends = {} THEN Len(s)
             ELSE (CHOOSE k \in ends : \A l \in ends : k <= l) - 1
    IN Wrap(IF neg THEN -val[n] ELSE val[n])
-----------------------------------------------------------------------------
(***************************************************************************)
(* ls                                                                      *)
(***************************************************************************)

Newline == 10

\* The letters of the options in cmd, what is typed after "ls" up to its newline:
\* cmd_ls goes on after each, and stops at whatever is no option.
cmd_ls(cmd) ==
    LET from[k \in DOMAIN cmd] ==
            CASE cmd[k] = Space -> from[k + 1]
              [] cmd[k] = Minus /\ cmd[k + 1] \in {97, 108} -> {cmd[k + 1]} \cup from[k + 2]
              [] OTHER -> {}
    IN from[1]

\* What follows a name of so many characters: the digits of the size up to the
\* place 19 - name, two blanks.
SizeField(name, size) ==
    LET j == 19 - name
        digits == Digits(size, 10)
    IN [k \in 1 .. j + 3 |->
           IF k \in j + 2 - Len(digits) .. j + 1
           THEN digits[k - (j + 1 - Len(digits))] ELSE Space]

TimeField(t) ==
    <<Zero + t \div 36000, Zero + ((t \div 3600) % 10), 58,
      Zero + ((t \div 60) % 60) \div 10, Zero + (((t \div 60) % 60) % 10), 58,
      Zero + (t % 60) \div 10, Zero + (t % 10)>>

\* The lines of the directory and the one above it, which are text in the code:
\* 4096 bytes, at 00:00:00.
DotLine(dots) ==
    dots \o [k \in 1 .. 16 - Len(dots) |-> Space] \o <<52, 48, 57, 54, Space, Space>>
         \o <<48, 48, 58, 48, 48, 58, 48, 48, Newline>>

\* The files of a directory that are not empty: their names, or a line for each.
sys_show_rootdir(ls_l, ls_a, entries) ==
    LET listed == SelectSeq(entries, LAMBDA e : e.size > 0)
        dot == <<46>>
    IN IF ls_l
       THEN (IF ls_a THEN DotLine(dot) \o DotLine(dot \o dot) ELSE << >>)
            \o FlattenSeq([i \in DOMAIN listed |->
                   listed[i].name \o SizeField(Len(listed[i].name), listed[i].size)
                   \o TimeField(listed[i].time) \o <<Newline>>])
       ELSE (IF ls_a THEN <<46, Space, Space, 46, 46, Space, Space>> ELSE << >>)
            \o FlattenSeq([i \in DOMAIN listed |-> listed[i].name \o <<Space, Space>>])
            \o <<Newline>>
=============================================================================
