------------------------------- MODULE Calls -------------------------------
(***************************************************************************)
(* The system calls as the programs make them and as the kernel reads       *)
(* them: which registers a program's function fills, and whether it takes a *)
(* result (game/src, my_shell/src, testcase/src and hello.c, each with its  *)
(* own copies), and what do_syscall does with the registers                *)
(* (kernel/src/irq/do_syscall.c).  What the calls do is in the other        *)
(* modules.                                                                *)
(***************************************************************************)
EXTENDS Sequences, Integers

\* A register the function leaves as it was before.
Old == "old"

\* asm volatile("int $0x80"): the number and the parameters, and whether eax is taken
\* for the result.  Without that the compiler relies on eax to stay as it is.
Asm(number, params, output) ==
    LET param(n) == IF n \in DOMAIN params THEN params[n] ELSE Old
    IN [eax |-> number, ebx |-> param(1), ecx |-> param(2), edx |-> param(3),
        output |-> output]

Answered(number, params) == Asm(number, params, TRUE)
Unanswered(number, params) == Asm(number, params, FALSE)

\* Files: of the game and the shell.
file_open(path, mode) == Answered(18, <<path, mode>>)
file_read(dst, size, index) == Answered(19, <<dst, size, index>>)
file_write(src, size, index) == Answered(20, <<src, size, index>>)
file_seek(index, offset, whence) == Answered(22, <<index, offset, whence>>)
file_close(index) == Answered(21, <<index>>)

\* Processes and semaphores: of the test program.  hello.c leaves by exit, too.
fork == Answered(9, << >>)
sleep(t) == Unanswered(10, <<t>>)
exit(stat) == Unanswered(11, <<stat>>)
getpid == Answered(12, << >>)
thread_create(start_rtn) == Unanswered(17, <<start_rtn>>)
sem_init(name, val, type) == Answered(13, <<name, val, type>>)
sem_destory(name) == Answered(14, <<name>>)
sem_wait(name) == Answered(15, <<name>>)
sem_post(name) == Answered(16, <<name>>)

\* Screen, keyboard and time: of the game and the shell.
serial_printc_u(p) == Unanswered(1, <<p>>)
draw_pixel_u(x, y, color) == Unanswered(2, <<x, y, color>>)
query_key_u(index) == Answered(3, <<index>>)
draw_bg_u(background) == Unanswered(4, <<background>>)
prepare_buffer_u == Unanswered(5, << >>)
release_key_u(index) == Unanswered(6, <<index>>)
get_tick_u == Answered(7, << >>)
display_buffer_u == Unanswered(8, << >>)
any_key_pressed == Answered(23, << >>)

\* The shell's own.
show_rootdir(ls_l, ls_a) == Unanswered(24, <<ls_l, ls_a>>)
shell_print_string(str, color) == Unanswered(25, <<str, color>>)
run_program(new) == Unanswered(26, <<new>>)
touch_file(new) == Unanswered(27, <<new>>)

\* The function called for each number and how many of ebx, ecx, edx it is given.
Function ==
    << <<"serial_printc", 1>>, <<"draw_pixel", 3>>, <<"query_key", 1>>,
       <<"draw_background", 1>>, <<"prepare_buffer", 0>>, <<"release_key", 1>>,
       <<"get_tick", 0>>, <<"display_buffer", 0>>, <<"sys_fork", 0>>, <<"sys_sleep", 1>>,
       <<"sys_exit", 1>>, <<"sys_getpid", 0>>, <<"sem_init", 3>>, <<"sem_destory", 1>>,
       <<"sem_wait", 1>>, <<"sem_post", 1>>, <<"sys_create_thread", 1>>,
       <<"sys_fopen", 2>>, <<"sys_fread", 3>>, <<"sys_fwrite", 3>>, <<"sys_fclose", 1>>,
       <<"sys_fseek", 3>>, <<"see_if_any_key_pressed", 0>>, <<"sys_show_rootdir", 2>>,
       <<"screen_print_string", 2>>, <<"sys_frun", 1>>, <<"sys_ftouch", 1>> >>

\* Those whose result is stored into the caller's eax.
SetsEax == {3, 7, 9, 12} \cup 18 .. 23

\* What do_syscall calls, one after the other, and whether it stores the result of the
\* first in eax or leaves eax as it is.  A fork falls through to a sleep.
do_syscall(tf) ==
    LET call(n) == <<Function[n][1],
                     SubSeq(<<tf.ebx, tf.ecx, tf.edx>>, 1, Function[n][2])>>
    IN [calls |-> CASE tf.eax = 9 -> <<call(9), call(10)>>
                    [] tf.eax \in DOMAIN Function \ {9} -> <<call(tf.eax)>>
                    [] tf.eax = 4098 -> << >>
                    [] OTHER -> << <<"assert", << >> >> >>,
        stores |-> tf.eax \in SetsEax]
=============================================================================
