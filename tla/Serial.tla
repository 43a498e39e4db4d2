------------------------------- MODULE Serial -------------------------------
(***************************************************************************)
(* How a program prints: its printf asks the kernel to send each character  *)
(* by a system call, and the kernel's serial_printc sends it               *)
(* (kernel/src/device/serial.c).  The game, the shell and the test program  *)
(* have a printf each; the three are the same text, so one definition reads *)
(* them all.                                                               *)
(***************************************************************************)
EXTENDS Numbers

\* The serial device: while dlab is set, port 0 takes the divisor of the baud rate;
\* what it is given to send while it is sending is lost.
PowerOn == [dlab |-> FALSE, divisor |-> 12, format |-> 0, idle |-> TRUE, sent |-> << >>]

\* out_byte to a port of the device, from SERIAL_PORT on.  Ports 1, 2 and 4 switch
\* interrupts, buffers and the modem's lines, which make no difference here.
out_byte(u, port, b) ==
    CASE port = 3 -> [u EXCEPT !.dlab = b >= 128, !.format = b % 64]
      [] port = 0 /\ u.dlab  -> [u EXCEPT !.divisor = b]
      [] port = 0 /\ ~u.dlab ->
            [u EXCEPT !.sent = IF u.idle THEN Append(@, b % 256) ELSE @, !.idle = FALSE]
      [] OTHER -> u

OutAll(u, writes) ==
    LET after[k \in 0 .. Len(writes)] ==
            IF k = 0 THEN u ELSE out_byte(after[k - 1], writes[k][1], writes[k][2])
    IN after[Len(writes)]

init_serial(u) ==
    OutAll(u, << <<1, 0>>, <<3, 128>>, <<0, 1>>, <<1, 0>>, <<3, 3>>, <<2, 199>>, <<4, 11>> >>)

\* It waits until the device is idle.
serial_printc(u, ch) == out_byte([u EXCEPT !.idle = TRUE], 0, ch)

\* The system calls of printf, with their numbers: of the game's, and of the copies
\* in the shell and in the test program.
printf(ctl, args) == [k \in DOMAIN vfprintf(ctl, args) |-> <<1, vfprintf(ctl, args)[k]>>]
shell_printf(ctl, args) == printf(ctl, args)
testcase_printf(ctl, args) == printf(ctl, args)

\* The device after the calls, one after the other.
Served(u, calls) ==
    LET after[k \in 0 .. Len(calls)] ==
            IF k = 0 THEN u ELSE serial_printc(after[k - 1], calls[k][2])
    IN after[Len(calls)]
=============================================================================
