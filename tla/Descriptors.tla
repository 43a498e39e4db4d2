---------------------------- MODULE Descriptors ----------------------------
(***************************************************************************)
(* The tables the processor reads: the segments of the boot block          *)
(* (boot/start.S, asm.h) and of the kernel (kvm.c), the gates (idt.c), and *)
(* the selectors that are put into segment registers (env_alloc, set_tss,  *)
(* start.S).  An entry is eight bytes; fields are declared from the lowest *)
(* bit on.  A number of 32 bits is a pair of halves, the high one first.   *)
(***************************************************************************)
EXTENDS Integers, Sequences, SequencesExt

\* Fields <<width, value>> as bytes: the bits in order, eight to a byte.
Packed(fields) ==
    LET bits == FlattenSeq([f \in DOMAIN fields |->
                    [b \in 1 .. fields[f][1] |-> (fields[f][2] \div 2 ^ (b - 1)) % 2]])
        byte(n) == FoldFunction(+, 0, [b \in 1 .. 8 |-> bits[8 * n + b] * 2 ^ (b - 1)])
    IN [n \in 0 .. 7 |-> byte(n)]

DPL_KERNEL == 0
DPL_USER   == 3
SEG_KERNEL_CODE == 1
SEG_KERNEL_DATA == 2
SEG_USER_CODE   == 3
SEG_USER_DATA   == 4
SEG_TSS         == 5
-----------------------------------------------------------------------------
(***************************************************************************)
(* Segments                                                                *)
(***************************************************************************)

\* struct SegmentDescriptor: soft_use, operation_size, pad0 and granularity are the
\* bits 52 to 55.
SegDesc(limit, base, type, segment, dpl, flags) ==
    Packed(<< <<16, limit[2]>>, <<16, base[2]>>, <<8, base[1] % 256>>, <<4, type>>,
              <<1, segment>>, <<2, dpl>>, <<1, 1>>, <<4, limit[1]>>,
              <<1, flags[1]>>, <<1, flags[2]>>, <<1, flags[3]>>, <<1, flags[4]>>,
              <<8, base[1] \div 256>> >>)

set_segment(pl, type) ==
    SegDesc(<<15, 65535>>, <<0, 0>>, type, 1, pl, <<0, 0, 1, 1>>)

\* The task state of size bytes at base.
set_tss(base, size) == SegDesc(<<0, size - 1>>, base, 9, 0, DPL_USER, <<0, 0, 1, 0>>)

\* init_segment: types are executable and readable, or writable.
gdt(tss) ==
    [i \in 0 .. 9 |->
        CASE i = SEG_KERNEL_CODE -> set_segment(DPL_KERNEL, 8 + 2)
          [] i = SEG_KERNEL_DATA -> set_segment(DPL_KERNEL, 2)
          [] i = SEG_USER_CODE -> set_segment(DPL_USER, 8 + 2)
          [] i = SEG_USER_DATA -> set_segment(DPL_USER, 2)
          [] i = SEG_TSS -> set_tss(tss, 100)
          [] OTHER -> [n \in 0 .. 7 |-> 0]]

\* SEG_ASM with a limit in bytes, and SEG_ASM_U: the access byte begins with ring.
SEG_ASM(ring, type, base, lim) ==
    LET pages == (lim[1] * 16 + lim[2] \div 4096) % 65536 IN
    (0 :> pages % 256) @@ (1 :> pages \div 256) @@
    (2 :> base[2] % 256) @@ (3 :> base[2] \div 256) @@ (4 :> base[1] % 256) @@
    (5 :> ring + type) @@ (6 :> 192 + lim[1] \div 4096) @@ (7 :> base[1] \div 256)

All32 == <<65535, 65535>>
boot_gdt ==
    [i \in 0 .. 4 |->
        IF i = 0 THEN [n \in 0 .. 7 |-> 0]
        ELSE SEG_ASM(IF i <= 2 THEN 144 ELSE 240, IF i % 2 = 1 THEN 10 ELSE 2,
                     <<0, 0>>, All32)]

\* What is loaded: the table, the selector, the privilege it is used with, and
\* whether for code.
Loads ==
    {<<"boot", SEG_KERNEL_CODE * 8, 0, TRUE>>, <<"boot", SEG_KERNEL_DATA * 8, 0, FALSE>>,
     <<"kernel", SEG_KERNEL_CODE * 8, 0, TRUE>>,                 \* gates
     <<"kernel", SEG_KERNEL_DATA * 8 + DPL_KERNEL, 0, FALSE>>,   \* tss.ss0
     <<"kernel", 24 + DPL_USER, 3, TRUE>>,                       \* env_tf.cs
     <<"kernel", 32 + DPL_USER, 3, FALSE>>}                      \* ds, es, ss
-----------------------------------------------------------------------------
(***************************************************************************)
(* Gates                                                                   *)
(***************************************************************************)

GateDesc(selector, offset, type, dpl) ==
    Packed(<< <<16, offset[2]>>, <<16, selector * 8>>, <<8, 0>>, <<4, type>>,
              <<1, 0>>, <<2, dpl>>, <<1, 1>>, <<16, offset[1]>> >>)

set_intr(selector, offset, dpl) == GateDesc(selector, offset, 14, dpl)
set_trap(selector, offset, dpl) == GateDesc(selector, offset, 15, dpl)

\* Each vector with its handler, irq_empty if it has none of its own.
init_idt(handler) ==
    [v \in 0 .. 255 |->
        IF v \in {32, 33, 46} THEN set_intr(SEG_KERNEL_CODE, handler[v], DPL_KERNEL)
        ELSE set_trap(SEG_KERNEL_CODE, handler[v],
                      IF v = 128 THEN DPL_USER ELSE DPL_KERNEL)]
-----------------------------------------------------------------------------
(***************************************************************************)
(* Frames: what the handlers leave on the stack (irq/do_irq.S)             *)
(***************************************************************************)

\* The exceptions with which the processor pushes a code.
CodePushed == {8, 17} \cup 10 .. 14

\* What the processor pushes, first to last.
Arrival(v, user) ==
    (IF user THEN <<"ss", "esp">> ELSE << >>) \o <<"eflags", "cs", "eip">>
        \o (IF v \in CodePushed THEN <<"error_code">> ELSE << >>)

\* Mutant of Stub: every handler pushes a code.
StubAlike(v) == <<"error_code", "irq">>

\* What the handler of a vector pushes.
Stub(v) ==
    IF v \in {8} \cup 10 .. 14 THEN <<"irq">> ELSE <<"error_code", "irq">>

\* What asm_do_irq pushes, the last eight by pushal.
asm_do_irq ==
    <<"ds", "es", "eax", "ecx", "edx", "ebx", "xxx", "ebp", "esi", "edi">>

\* The fields of a frame as the C code names them, upwards.
TrapFrame ==
    <<"edi", "esi", "ebp", "xxx", "ebx", "edx", "ecx", "eax", "es", "ds", "irq",
      "error_code", "eip", "cs", "eflags", "esp", "ss">>

\* What env_pop_tf loads: popal, which leaves esp out, es, ds, and after eight
\* bytes what iret loads, esp and ss for a program alone.
env_pop_tf(frame) ==
    LET load == <<"edi", "esi", "ebp", "skip", "ebx", "edx", "ecx", "eax", "es", "ds",
                  "skip", "skip", "eip", "cs", "eflags", "esp", "ss">>
    IN {<<load[k], frame[k]>> : k \in {j \in DOMAIN frame : load[j] # "skip"}}
-----------------------------------------------------------------------------
(***************************************************************************)
(* The processor: what the eight bytes of an entry mean                    *)
(***************************************************************************)

Bits(byte, from, n) == (byte \div 2 ^ from) % 2 ^ n

Word(d, n) == d[n] + 256 * d[n + 1]

Access(d) == [type |-> Bits(d[5], 0, 4), segment |-> Bits(d[5], 4, 1) = 1,
              dpl |-> Bits(d[5], 5, 2), present |-> Bits(d[5], 7, 1) = 1]

Segment(d) ==
    [base |-> <<d[4] + 256 * d[7], Word(d, 2)>>,
     limit |-> Word(d, 0) + 65536 * Bits(d[6], 0, 4),
     big |-> Bits(d[6], 6, 1) = 1, pages |-> Bits(d[6], 7, 1) = 1]

GateOffset(d) == <<Word(d, 6), Word(d, 0)>>
=============================================================================
