----------------------------- MODULE MCLibrary -----------------------------
(***************************************************************************)
(* The calls of Start, and the functions of Strings, Numbers, Serial, Calls, *)
(* Descriptors and Pictures, each called with every argument of a small     *)
(* set, and what they return compared with what they are for.              *)
(***************************************************************************)
EXTENDS Start, Strings, Numbers, Serial, Calls, Descriptors, Pictures, FiniteSets

vars == <<op, arg, result>>

\* A memory of twelve different bytes to move in, and a disk and a memory for
\* programs, in which no byte is that of the other.
Bytes    == [a \in 0 .. 11 |-> a + 1]
MCDisk   == [b \in 0 .. 15 |-> 100 + b]
MCMemory == [a \in -8 .. 23 |-> 50 + a]

\* Three strings of at most two characters, one of them above 127.
Texts == [0 .. 1 -> {0, 1, 200}]
ThreeTexts(t, u, v) ==
    [a \in 0 .. 8 |-> IF a % 3 = 2 THEN 0
                      ELSE (CASE a \div 3 = 0 -> t [] a \div 3 = 1 -> u
                              [] OTHER -> v)[a % 3]]
Starts == {0, 3, 6}

\* Pieces of a message: what the format says, the argument, and what is to be read.
\* "a", "", -7 in decimal, 12 in hexadecimal, and the string "%d".
Pieces ==
    {[says |-> s, args |-> << >>, reads |-> s] : s \in {<<97>>, << >>}} \cup
    {[says |-> <<37, 100>>, args |-> << -7 >>, reads |-> <<45, 55>>],
     [says |-> <<37, 120>>, args |-> <<12>>, reads |-> <<99>>],
     [says |-> <<37, 115>>, args |-> << <<37, 100>> >>, reads |-> <<37, 100>>]}
\* A percent sign may end a message.
Ends == {[says |-> s, args |-> << >>, reads |-> s] : s \in {<<37>>, << >>}}

\* Directories of up to two entries, some of them empty, and what may be typed after
\* "ls": a blank, an option, or a letter that is none.
Entries == [name : {<<97>>, <<98, 99>>}, size : {0, 9, 65536}, time : {0, 359999}]
Directories == {<< >>} \cup {<<e>> : e \in Entries} \cup {<<e, f>> : e, f \in Entries}
Typed == {<<Space>>, <<Minus, 97>>, <<Minus, 108>>, <<97>>}
Options == UNION {[1 .. n -> Typed] : n \in 0 .. 4}

\* A picture of which no pixel is taken for another, with more than the screen has.
background == [a \in 0 .. SCR_SIZE + SCR_WIDTH |-> a]

\* What each of the programs' functions is to have done, and the registers it fills.
Asked(function, params, regs) == [call |-> <<function, params>>, regs |-> regs]
Requests ==
    {Asked("sys_fopen", <<"path", "mode">>, file_open("path", "mode")),
     Asked("sys_fread", <<"dst", "size", "index">>, file_read("dst", "size", "index")),
     Asked("sys_fwrite", <<"src", "size", "index">>, file_write("src", "size", "index")),
     Asked("sys_fseek", <<"index", "offset", "whence">>,
           file_seek("index", "offset", "whence")),
     Asked("sys_fclose", <<"index">>, file_close("index")),
     Asked("sys_fork", << >>, fork), Asked("sys_getpid", << >>, getpid),
     Asked("sys_sleep", <<"t">>, sleep("t")), Asked("sys_exit", <<"stat">>, exit("stat")),
     Asked("sys_create_thread", <<"entry">>, thread_create("entry")),
     Asked("sem_init", <<"name", "val", "type">>, sem_init("name", "val", "type")),
     Asked("sem_destory", <<"name">>, sem_destory("name")),
     Asked("sem_wait", <<"name">>, sem_wait("name")),
     Asked("sem_post", <<"name">>, sem_post("name")),
     Asked("serial_printc", <<"ch">>, serial_printc_u("ch")),
     Asked("draw_pixel", <<"x", "y", "color">>, draw_pixel_u("x", "y", "color")),
     Asked("query_key", <<"index">>, query_key_u("index")),
     Asked("draw_background", <<"picture">>, draw_bg_u("picture")),
     Asked("prepare_buffer", << >>, prepare_buffer_u),
     Asked("release_key", <<"index">>, release_key_u("index")),
     Asked("get_tick", << >>, get_tick_u),
     Asked("display_buffer", << >>, display_buffer_u),
     Asked("see_if_any_key_pressed", << >>, any_key_pressed),
     Asked("sys_show_rootdir", <<"ls_l", "ls_a">>, show_rootdir("ls_l", "ls_a")),
     Asked("screen_print_string", <<"str", "color">>, shell_print_string("str", "color")),
     Asked("sys_frun", <<"name">>, run_program("name")),
     Asked("sys_ftouch", <<"name">>, touch_file("name"))}

\* The calls whose result the kernel drops; the program takes the number for it.
Dropped == 13 .. 16

\* The vectors with handlers of their own.
Handled == 0 .. 14 \cup {32, 33, 46, 128}

\* Halves of addresses.
Halves == {0, 1, 255, 256, 49185, 65535}

\* Messages of up to three characters of the font, and where the nth character after
\* the first of a line at x is to go.
Messages == UNION {[1 .. n -> DOMAIN font8x8_basic] : n \in 1 .. 3}
Columns == SCR_WIDTH \div 8
Cell(n, x) == <<x + 8 * (n \div Columns), 8 * (n % Columns)>>
Fits(n, x, y) == Cell(y \div 8 + n - 1, x)[1] + 8 <= SCR_HEIGHT
-----------------------------------------------------------------------------
Init ==
    /\ result = NoResult
    /\ \/ StartCall
       \/ op = "memmove" /\ arg \in {x \in (0 .. 11) \X (0 .. 11) \X (0 .. 8) :
                                        x[1] + x[3] <= 12 /\ x[2] + x[3] <= 12}
       \/ op = "memset" /\ arg \in {x \in (0 .. 11) \X (0 .. 8) \X {-1, 0, 511} :
                                       x[1] + x[2] <= 12}
       \/ op = "strlcpy" /\ arg \in Texts \X (0 .. 3)
       \/ op = "strcmp" /\ arg \in Texts \X Texts \X Texts
       \/ op = "copies" /\ arg \in Texts \X Texts \X (0 .. 3)
       \/ op = "find" /\ arg \in Texts \X {0, 1, 200, 456} \X (0 .. 3)
       \/ op = "itoa" /\ arg \in Ints \cap Nat
       \/ op = "printf" /\ arg \in Pieces \X Pieces \X Ends
       \/ op = "call" /\ arg \in Requests
       \/ op = "frame" /\ arg \in Handled \X BOOLEAN
       \/ op = "get_num" /\ arg \in {10, 16} \X Ints
       \/ op = "vfprintf" /\ arg \in Pieces \X Pieces \X Pieces \X Ends
       \/ op = "ls" /\ arg \in (1 .. 11) \X {1, 9, 10, 512, 65536}
                                \X {0, 59, 60, 3599, 3600, 35999, 36000, 86399, 359999}
       \/ op = "options" /\ arg \in Options
       \/ op = "directory" /\ arg \in BOOLEAN \X BOOLEAN \X Directories
       \/ op = "segment" /\ arg \in Loads
       \/ op = "tss" /\ arg \in Halves \X Halves
       \/ op = "palette" /\ arg = << >>
       \/ op = "background" /\ arg = << >>
       \/ op = "text" /\ arg \in {x \in Messages \X {0, 3, 8} \X {0, 8, 16} :
                                        Fits(Len(x[1]), x[2], x[3])}
       \/ op = "gate" /\ arg \in (0 .. 255) \X Halves \X Halves

\* What the call leaves or returns.
Result ==
    CASE op = "memmove" -> memmove(Bytes, arg[1], arg[2], arg[3])
      [] op = "memset" -> memset(Bytes, arg[1], arg[3], arg[2])
      [] op = "strlcpy" ->
            strlcpy(ThreeTexts(arg[1], arg[1], arg[1]), 3, 0, arg[2])
      [] op = "strcmp" ->
            LET m == ThreeTexts(arg[1], arg[2], arg[3])
            IN [p \in Starts |-> [q \in Starts |-> strcmp(m, p, q)]]
      [] op = "copies" ->
            LET m == ThreeTexts(arg[1], arg[1], arg[2])
            IN [strcpy |-> strcpy(m, 0, 6), strcat |-> strcat(m, 0, 6),
                strncpy |-> strncpy(m, 0, 6, arg[3]), memcpy |-> memcpy(m, 0, 6, arg[3]),
                strncmp |-> strncmp(m, 0, 6, arg[3]), memcmp |-> memcmp(m, 0, 6, arg[3])]
      [] op = "find" ->
            LET m == ThreeTexts(arg[1], arg[1], arg[1])
            IN [strchr |-> strchr(m, 3, arg[2]), strfind |-> strfind(m, 3, arg[2]),
                memfind |-> memfind(m, 3, arg[2], arg[3]), strnlen |-> strnlen(m, 3, arg[3])]
      [] op = "itoa" -> libitoa(arg)
      [] op = "printf" ->
            LET ctl  == arg[1].says \o arg[2].says \o arg[3].says
                args == arg[1].args \o arg[2].args \o arg[3].args
                sent(calls) == Served(init_serial(PowerOn), calls)
            IN <<sent(printf(ctl, args)), sent(shell_printf(ctl, args)),
                 sent(testcase_printf(ctl, args))>>
      [] op = "call" -> do_syscall(arg.regs)
      [] op = "frame" -> Reverse(Arrival(arg[1], arg[2]) \o Stub(arg[1]) \o asm_do_irq)
      [] op = "get_num" -> get_num(arg[1], arg[2])
      [] op = "vfprintf" ->
            vfprintf(FlattenSeq([i \in 1 .. 4 |-> arg[i].says]),
                     FlattenSeq([i \in 1 .. 4 |-> arg[i].args]))
      [] op = "ls" -> <<SizeField(arg[1], arg[2]), TimeField(arg[3])>>
      [] op = "options" -> cmd_ls(FlattenSeq(arg) \o <<Newline>>)
      [] op = "directory" -> sys_show_rootdir(arg[1], arg[2], arg[3])
      [] op = "segment" -> (IF arg[1] = "boot" THEN boot_gdt ELSE gdt(<<0, 0>>))[arg[2] \div 8]
      [] op = "tss" -> gdt(arg)[SEG_TSS]
      [] op = "palette" -> Converter
      [] op = "background" -> draw_background(Blank, background)
      [] op = "text" ->
            LET at(k) == Cell(arg[3] \div 8 + k - 1, arg[2])
                kernel[k \in 0 .. Len(arg[1])] ==
                    IF k = 0 THEN Blank
                    ELSE screen_draw_character(kernel[k - 1], arg[1][k],
                                               at(k)[1], at(k)[2], 7)
            IN <<draw_string(game_font, Blank, arg[1], arg[2], arg[3], 7),
                 kernel[Len(arg[1])],
                 shell_draw_string(Blank, arg[1], arg[2], arg[3], 7)>>
      [] op = "gate" -> init_idt([v \in 0 .. 255 |-> <<arg[2], arg[3]>>])[arg[1]]
      [] OTHER -> StartResult

Return == result = NoResult /\ result' = <<Result>> /\ UNCHANGED <<op, arg>>
Next == Return
Spec == Init /\ [][Next]_vars

-----------------------------------------------------------------------------
\* Wherever the two areas lie, memmove leaves in one what was in the other, and
\* the rest as it was.
MoveCopies ==
    Done("memmove") =>
        Res = [a \in 0 .. 11 |->
            IF a - arg[1] \in 0 .. arg[3] - 1 THEN Bytes[a - arg[1] + arg[2]]
            ELSE Bytes[a]]

\* memset fills the bytes asked for and no more, by words or not, with the lowest
\* byte of what it is given.
SetFills ==
    Done("memset") =>
        Res = [a \in 0 .. 11 |-> IF a - arg[1] \in 0 .. arg[2] - 1 THEN arg[3] % 256
                                 ELSE Bytes[a]]

\* strlcpy writes no further than size bytes, and what it leaves is a string that
\* the source begins with, cut short only if there is no room.
CopyFits ==
    Done("strlcpy") =>
        LET m == ThreeTexts(arg[1], arg[1], arg[1])
            size == arg[2]
        IN /\ \A a \in DOMAIN m \ (3 .. 2 + size) : Res[a] = m[a]
           /\ size > 0 =>
                 /\ strlen(Res, 3) = IF strlen(m, 0) < size THEN strlen(m, 0) ELSE size - 1
                 /\ \A k \in DOMAIN Text(Res, 3) : Res[3 + k] = m[k]

\* strcmp is 0 for equal strings alone, as the names of files and semaphores need,
\* and orders strings, characters above 127 last.
CmpOrders ==
    Done("strcmp") =>
        LET m == ThreeTexts(arg[1], arg[2], arg[3]) IN
        \A p, q, r \in Starts :
            /\ Res[p][q] = 0 <=> Text(m, p) = Text(m, q)
            /\ Res[p][q] < 0 <=> Res[q][p] > 0
            /\ Res[p][q] < 0 /\ Res[q][r] < 0 => Res[p][r] < 0
            /\ m[p] = 1 /\ m[q] = 200 => Res[p][q] < 0

\* A copy is the string it was made of, two strings one after the other, or size
\* bytes of it with zeros; and nothing else changes.
CopiesRead ==
    Done("copies") =>
        LET m == ThreeTexts(arg[1], arg[1], arg[2])
            n == arg[3]  p == strlen(m, 0)  q == strlen(m, 6)
            Changed(name, last) == \A a \in DOMAIN m : Res[name][a] # m[a] => a <= last
        IN /\ Text(Res.strcpy, 0) = Text(m, 6) /\ Changed("strcpy", q)
           /\ Text(Res.strcat, 0) =
                 [k \in 0 .. p + q - 1 |-> IF k < p THEN m[k] ELSE m[6 + k - p]]
           /\ Changed("strcat", p + q)
           /\ \A k \in 0 .. n - 1 : Res.strncpy[k] = IF k < q THEN m[6 + k] ELSE 0
           /\ Changed("strncpy", n - 1)
           /\ memcmp(Res.memcpy, 0, 6, n) = 0 /\ Changed("memcpy", n - 1)

\* Comparing at most n bytes is comparing the strings cut off there, and bytes that
\* differ after the strings' ends make no difference but to memcmp.
CutsCompare ==
    Done("copies") =>
        LET m == ThreeTexts(arg[1], arg[1], arg[2])
            n == arg[3]
            cut(s) == [k \in 0 .. strnlen(m, s, n) - 1 |-> m[s + k]]
        IN /\ Res.strncmp = 0 <=> cut(0) = cut(6)
           /\ Res.strncmp # 0 => Res.strncmp = strcmp(m, 0, 6)
           /\ Res.memcmp = 0 <=> \A k \in 0 .. n - 1 : m[k] = m[6 + k]
           /\ Res.memcmp = 0 => Res.strncmp = 0

\* What is found is there, and nothing before it; what is not found ends the search
\* at the end.
FindsFirst ==
    Done("find") =>
        LET m == ThreeTexts(arg[1], arg[1], arg[1])
            c == arg[2] % 256  last == 3 + strlen(m, 3)
        IN /\ Res.strfind \in 3 .. last /\ (Res.strfind < last => m[Res.strfind] = c)
           /\ \A a \in 3 .. Res.strfind - 1 : m[a] # c
           /\ Res.strchr = IF Res.strfind < last THEN Res.strfind ELSE 0
           /\ Res.memfind \in 3 .. 3 + arg[3]
           /\ Res.memfind < 3 + arg[3] => m[Res.memfind] = c
           /\ \A a \in 3 .. Res.memfind - 1 : m[a] # c
           /\ Res.strnlen = IF strlen(m, 3) < arg[3] THEN strlen(m, 3) ELSE arg[3]

\* What a program prints, whichever of the three it is, is what the device sends, no
\* character lost or taken for anything else, eight bits each, at the highest rate.
SerialSpeaks ==
    Done("printf") =>
        \A program \in 1 .. 3 : LET device == Res[program] IN
            /\ device.sent = arg[1].reads \o arg[2].reads \o arg[3].reads
            /\ device.divisor = 1 /\ device.format = 3

\* Each function of the programs has the kernel do what it is for, with its parameters
\* in their places, and nothing else, but that a fork also sleeps.  It has the result
\* if it asks for one, the semaphores' functions excepted, and eax as it was if not.
CallsServed ==
    Done("call") =>
        LET regs == arg.regs IN
        /\ Head(Res.calls) = arg.call
        /\ Len(Res.calls) = 1 \/ arg.call[1] = "sys_fork"
        /\ Res.stores = (regs.output /\ regs.eax \notin Dropped)

\* What is printed of any integer, the least one included, is a number, and reads
\* back as the same.
NumberReadsBack ==
    /\ Done("get_num") => Res # << >> /\ Value(Res[Len(Res)]) < arg[1]
                          /\ strtol(Res, arg[1]) = arg[2]
    /\ Done("itoa") => Res # << >> /\ strtol(Res, 10) = arg

\* A message reads as its pieces one after the other, each directive with its own
\* argument, a string as it is though it has a percent sign, and a last one printed.
PrintsArguments ==
    Done("vfprintf") => Res = FlattenSeq([i \in 1 .. 4 |-> arg[i].reads])

\* The number that decimal digits say.
Decimal(s) ==
    LET val[k \in 0 .. Len(s)] == IF k = 0 THEN 0 ELSE val[k - 1] * 10 + Value(s[k])
    IN val[Len(s)]

\* The lines of "ls -l" end their sizes in the same column, whatever the length of
\* the name, and sizes and times read back.
ListingReadsBack ==
    Done("ls") =>
        LET name == arg[1]  size == Res[1]  time == Res[2]
            first == Cardinality({k \in 1 .. 20 - name : size[k] = Space}) + 1
            Two(n) == Decimal(SubSeq(time, n, n + 1))
        IN /\ name + Len(size) = 22
           /\ Decimal(SubSeq(size, first, 20 - name)) = arg[2]
           /\ Two(1) * 3600 + Two(4) * 60 + Two(7) = arg[3]

\* The options up to the first that is none count, in any order, blanks or not.
OptionsRead ==
    Done("options") =>
        Res = {c \in {97, 108} :
                  \E k \in DOMAIN arg :
                      arg[k] = <<Minus, c>> /\ \A i \in 1 .. k : arg[i] # <<97>>}

\* Each entry that is not empty is listed once, in their order, and nothing else but
\* the directories asked for; the lines of "ls -l" are all of one length, those of
\* the directories, which are written out in the code, too, with the name, size and
\* time each in its column.
DirectoryReadsBack ==
    Done("directory") =>
        LET there == SelectSeq(arg[3], LAMBDA e : e.size > 0)
            dots == IF arg[2] THEN <<[name |-> <<46>>, size |-> 4096, time |-> 0],
                                     [name |-> <<46, 46>>, size |-> 4096, time |-> 0]>>
                    ELSE << >>
            all == dots \o there
            line(i) == SubSeq(Res, 31 * (i - 1) + 1, 31 * i)
            words == SelectSeq(Res, LAMBDA c : c \notin {Space, Newline})
        IN IF arg[1]
           THEN /\ Len(Res) = 31 * Len(all)
                /\ \A i \in DOMAIN all : LET name == all[i].name IN
                      /\ SubSeq(line(i), 1, Len(name)) = name
                      /\ line(i)[Len(name) + 1] = Space /\ line(i)[31] = Newline
                      /\ Decimal(SelectSeq(SubSeq(line(i), Len(name) + 1, 20),
                                           LAMBDA c : c # Space)) = all[i].size
                      /\ SubSeq(line(i), 21, 22) = <<Space, Space>>
                      /\ Decimal(SubSeq(line(i), 23, 24)) * 3600
                           + Decimal(SubSeq(line(i), 26, 27)) * 60
                           + Decimal(SubSeq(line(i), 29, 30)) = all[i].time
           ELSE /\ words = FlattenSeq([i \in DOMAIN all |-> all[i].name])
                /\ Len(Res) = Len(words) + 2 * Len(all) + 1
                /\ Last(Res) = Newline

\* Every selector the boot block, the kernel, and the kernel for its programs put
\* into a segment register, numbered in one header and laid out in another, finds a
\* segment of its kind for that privilege that is all of the memory, in 32 bits; and
\* the processor finds the stack of the kernel in the task state, wherever it lies.
SegmentsServe ==
    /\ Done("segment") =>
          /\ (arg[2] \div 4) % 2 = 0 /\ arg[2] % 4 = arg[3]
          /\ Access(Res).present /\ Access(Res).segment /\ Access(Res).dpl = arg[3]
          /\ Access(Res).type = IF arg[4] THEN 10 ELSE 2
          /\ Segment(Res) = [base |-> <<0, 0>>, limit |-> 2 ^ 20 - 1, big |-> TRUE,
                             pages |-> TRUE]
    /\ Done("tss") =>
          /\ Access(Res) = [type |-> 9, segment |-> FALSE, dpl |-> 3, present |-> TRUE]
          /\ Segment(Res).base = arg /\ ~Segment(Res).pages
          /\ Segment(Res).limit >= 11  \* esp0 and ss0

\* Each vector has a gate that leads to its handler in the kernel's code; a program
\* can call 128 only, and only the devices' gates turn interrupts off.
GatesLead ==
    Done("gate") =>
        /\ Access(Res).present /\ ~Access(Res).segment
        /\ Word(Res, 2) = SEG_KERNEL_CODE * 8
        /\ GateOffset(Res) = <<arg[2], arg[3]>>
        /\ Access(Res).dpl = IF arg[1] = 128 THEN 3 ELSE 0
        /\ Access(Res).type = IF arg[1] \in {32, 33, 46} THEN 14 ELSE 15

\* What is sent to the converter gives each index a colour of its own, and for red,
\* green and blue a brighter colour of the table is brighter on the screen.
ColoursApart ==
    Done("palette") =>
        \A i, j \in 0 .. 255 :
            /\ Res[i] = Res[j] => i = j
            /\ \A c \in 1 .. 3 : palette[i][c] < palette[j][c] <=> Res[i][c] < Res[j][c]

\* The whole screen shows the picture, row by row as it is stored, though the one
\* loop multiplies and the other shifts.
PictureWhole == Done("background") => Res = [a \in DOMAIN Blank |-> background[a]]

\* Text can be read where it was meant to be: at each place the glyph of its
\* character, and of no other, whole, and nothing lit beside them; the game and
\* the shell draw the same pixels as the kernel.
TextReadable ==
    Done("text") =>
        LET cell(k) == Cell(arg[3] \div 8 + k - 1, arg[2])
            shown(k) == {p \in (0 .. 7) \X (0 .. 7) :
                            Res[1][Written(cell(k)[1] + p[1], cell(k)[2] + p[2])] # 0}
            cells == {Written(cell(k)[1] + i, cell(k)[2] + j) :
                         k \in DOMAIN arg[1], i \in 0 .. 7, j \in 0 .. 7}
        IN /\ \A k \in DOMAIN arg[1] : \A ch \in DOMAIN font8x8_basic :
                 shown(k) = Lit(font8x8_basic, ch) <=> ch = arg[1][k]
           /\ \A a \in DOMAIN Blank \ cells : Res[1][a] = 0
           /\ Res[2] = Res[1] /\ Res[3] = Res[1]

\* Whatever the exception or interrupt, and whether a program or the kernel was
\* interrupted, what is pushed by the processor, the handler and asm_do_irq is a frame
\* as the C code names its fields, and loads every register with its own value.
FramesFit ==
    Done("frame") =>
        /\ Res = SubSeq(TrapFrame, 1, IF arg[2] THEN 17 ELSE 15)
        /\ \A pair \in env_pop_tf(Res) : pair[1] = pair[2]
-----------------------------------------------------------------------------
(***************************************************************************)
(* What the runs check: the functions for strings, numbers and messages;   *)
(* the way of programs from the disk into memory; the page tables of the   *)
(* start; the tables, frames and registers the processor, the kernel and   *)
(* the programs must agree on; and pixels.                                 *)
(***************************************************************************)

\* Strings are moved, copied, compared and searched as asked, at every edge, and what
\* is printed reads back.
LibraryServes ==
    /\ MoveCopies /\ SetFills /\ CopyFits /\ CmpOrders
    /\ CopiesRead /\ CutsCompare /\ FindsFirst
    /\ NumberReadsBack /\ PrintsArguments /\ SerialSpeaks
    /\ ListingReadsBack /\ OptionsRead /\ DirectoryReadsBack

\* Segments, gates, frames and calls mean the same to those who make them and to
\* those who read them.
TablesAgree == SegmentsServe /\ GatesLead /\ FramesFit /\ CallsServed

\* Colours, pictures and text can be told apart on the screen.
PicturesShown == ColoursApart /\ PictureWhole /\ TextReadable
=============================================================================
