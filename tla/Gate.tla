-------------------------------- MODULE Gate --------------------------------
(***************************************************************************)
(* The way into the kernel and back (kernel/src/irq, env_pop_tf): the      *)
(* gates, the frame asm_do_irq builds, its copy env_tf in the environment, *)
(* the dispatch by vector and by system call number, and the registers a   *)
(* program finds when it goes on.                                          *)
(*                                                                         *)
(* int 0x80 goes through a trap gate, which leaves interrupts on: one may  *)
(* come in before the cli that asm_do_irq begins with, and nests.  From the*)
(* cli to the iret the handler is one step.  env_pop_tf turns interrupts   *)
(* on by the instruction before its iret, which takes effect after it.     *)
(*                                                                         *)
(* What a call does to the system is left to the other modules: here it    *)
(* has a result, makes or ends environments, or gives the processor to any *)
(* of those that are there.                                                *)
(***************************************************************************)
EXTENDS Integers, Sequences, SequencesExt

CONSTANTS
    Slots,    \* environments
    Calls,    \* system call numbers the programs use
    Results,  \* what a call with a result may return
    Addrs,    \* addresses of instructions, Start and Bad among them
    Start,    \* where a program or thread begins
    Bad,      \* an instruction that touches a page the program does not have
    Lines,    \* lines of the interrupt controller that rise
    Traps,    \* exceptions that programs raise, by vector
    MaxNest   \* bound: frames on the kernel stack

ASSUME GateAssumption ==
    /\ Slots # {} /\ Calls \subseteq Nat /\ Results \subseteq Int
    /\ {Start, Bad} \subseteq Addrs
    /\ Lines \subseteq 0 .. 15 /\ Traps \subseteq 0 .. 14 /\ MaxNest \in Nat

VARIABLES
    mode,     \* "user"; "entry": in asm_do_irq, before cli; "stopped": assert(0)
    ints,     \* does the processor accept interrupts?
    regs,     \* eip, eax and ebx of the program
    frames,   \* the frames on the kernel stack, the outermost first
    pending,  \* lines that have risen and are not yet served
    curenv,   \* the environment whose program runs
    env_tf,   \* slot -> its saved frame
    alive,    \* slots in use
    due       \* slot -> (history) the registers its program must find

vars == <<mode, ints, regs, frames, pending, curenv, env_tf, alive, due>>

User == [eip : Addrs, eax : {0} \cup Calls \cup Results \cup Slots, ebx : {0, 1}]
-----------------------------------------------------------------------------
(***************************************************************************)
(* The descriptor table (init_idt) and the interrupt controller            *)
(***************************************************************************)

\* What asm_do_irq finds in irq for a vector.  Page faults, vector 14, go to
\* vec13; a vector without a handler of its own goes to irq_empty, which says -1.
Irq(v) ==
    CASE v = 14            -> 13
      [] v \in 0 .. 13     -> v
      [] v = 128           -> 128
      [] v \in {32, 33, 46} -> 968 + v
      [] OTHER             -> -1

\* Mutant of InterruptGate: the timer comes through a trap gate.
InterruptGateNotTimer(v) == v \in {33, 46}

\* An interrupt gate turns interrupts off, a trap gate does not.
InterruptGate(v) == v \in {32, 33, 46}

\* init_intr: line l raises vector 32 + l.  No line is masked.
Vector(l) == 32 + l

\* The processor goes through the gate of vector v, with r in its registers.
Enter(v, r) ==
    /\ frames' = Append(frames, [user |-> mode = "user", irq |-> Irq(v),
                                 ints |-> ints, regs |-> r])
    /\ regs' = r
    /\ mode' = "entry"
    /\ ints' = (ints /\ ~InterruptGate(v))
-----------------------------------------------------------------------------
(***************************************************************************)
(* Programs and devices                                                    *)
(***************************************************************************)

\* A program computes.
Compute(r) ==
    /\ mode = "user" /\ regs.eip # Bad
    /\ regs' = r
    /\ due' = [due EXCEPT ![curenv] = r]
    /\ UNCHANGED <<mode, ints, frames, pending, curenv, env_tf, alive>>

\* int 0x80 with number n in eax.
Call(n) ==
    /\ mode = "user" /\ regs.eip # Bad
    /\ Enter(128, [regs EXCEPT !.eax = n])
    /\ due' = [due EXCEPT ![curenv] = [regs EXCEPT !.eax = n]]
    /\ UNCHANGED <<pending, curenv, env_tf, alive>>

\* The program raises an exception, a page fault where it is Bad.
Trap(v) ==
    /\ mode = "user"
    /\ v = 14 <=> regs.eip = Bad
    /\ Enter(v, regs)
    /\ UNCHANGED <<pending, curenv, env_tf, alive, due>>

Rise(l) ==
    /\ l \notin pending
    /\ pending' = pending \cup {l}
    /\ UNCHANGED <<mode, ints, regs, frames, curenv, env_tf, alive, due>>

\* The processor takes an interrupt, in a program or before the cli.
Interrupt(l) ==
    /\ mode # "stopped" /\ ints /\ l \in pending
    /\ Len(frames) < MaxNest
    /\ Enter(Vector(l), regs)
    /\ pending' = pending \ {l}
    /\ UNCHANGED <<curenv, env_tf, alive, due>>
-----------------------------------------------------------------------------
(***************************************************************************)
(* Ways out of irq_handle: tf is the frame on the stack, saved the table   *)
(* of the env_tf and there the environments, as the handler leaves them.   *)
(***************************************************************************)

\* popal, iret: back to where tf was pushed.
Return(tf, saved, there) ==
    /\ regs' = tf.regs
    /\ ints' = tf.ints
    /\ mode' = IF tf.user THEN "user" ELSE "entry"
    /\ frames' = Front(frames)
    /\ env_tf' = saved
    /\ alive' = there
    /\ UNCHANGED curenv

\* abort: interrupts off, for ever.
Stop(saved, there) ==
    /\ mode' = "stopped"
    /\ ints' = FALSE
    /\ env_tf' = saved
    /\ alive' = there
    /\ UNCHANGED <<regs, frames, curenv>>

\* schedule_process and env_pop_tf: one of them goes on from its saved frame,
\* and what is on the kernel stack is dropped.
Switch(saved, there) ==
    \/ there = {} /\ Stop(saved, there)
    \/ \E e \in there :
          /\ curenv' = e
          /\ regs' = saved[e].regs
          /\ ints' = saved[e].ints
          /\ mode' = IF saved[e].user THEN "user" ELSE "entry"
          /\ frames' = <<>>
          /\ env_tf' = saved
          /\ alive' = there

\* sys_sleep: no time to sleep, no switch.
sys_sleep(tf, saved, there) ==
    IF tf.regs.ebx > 0 THEN Switch(saved, there) ELSE Return(tf, saved, there)
-----------------------------------------------------------------------------
(***************************************************************************)
(* irq_handle and do_syscall                                               *)
(***************************************************************************)

\* Mutant of NewFrame: a program starts with interrupts off.
NewFrameNoInterrupts == [user |-> TRUE, irq |-> 0, ints |-> FALSE,
             regs |-> [eip |-> Start, eax |-> 0, ebx |-> 0]]

\* A frame as env_alloc makes it and load_icode completes it.
NewFrame == [user |-> TRUE, irq |-> 0, ints |-> TRUE,
             regs |-> [eip |-> Start, eax |-> 0, ebx |-> 0]]

\* sys_fork of the environment c: env_tf of the child and of the parent, which
\* may go on from there if it sleeps.
ForkFrames(saved, c) ==
    [saved EXCEPT ![c] = [saved[curenv] EXCEPT !.regs.eax = 0],
                  ![curenv].regs.eax = c]

\* The calls with a result, in eax; those that may give the processor away; and
\* those whose results, if any, are dropped.
HasResult == {3, 7, 12, 23} \cup 18 .. 22
HasNone   == {1, 2, 4, 5, 6, 8, 13, 14, 15, 16, 24, 25, 27, 4098}

\* sem_wait, sys_exit, sys_create_thread and sys_frun switch or return as
\* Process and Semaphore say.  New environments are in slots not in use; without
\* one the kernel stops.
do_syscall(tf, saved) ==
    LET n == tf.regs.eax
        free == Slots \ alive
    IN \/ /\ n \in HasResult
          /\ \E r \in Results :
                /\ Return([tf EXCEPT !.regs.eax = r], saved, alive)
                /\ due' = [due EXCEPT ![curenv].eax = r]
       \/ n \in HasNone /\ Return(tf, saved, alive) /\ UNCHANGED due
       \/ n = 15 /\ Switch(saved, alive) /\ UNCHANGED due
       \/ /\ n = 9
          /\ \E c \in free :
                /\ sys_sleep([tf EXCEPT !.regs.eax = c], ForkFrames(saved, c),
                             alive \cup {c})
                /\ due' = [due EXCEPT ![curenv].eax = c,
                                      ![c] = [tf.regs EXCEPT !.eax = 0]]
       \/ n = 10 /\ sys_sleep(tf, saved, alive) /\ UNCHANGED due
       \/ n = 11 /\ Switch(saved, alive \ {curenv}) /\ UNCHANGED due
       \/ /\ n = 17
          /\ \E c \in free :
                /\ Return(tf, [saved EXCEPT ![c] =
                                  [saved[curenv] EXCEPT !.regs.eip = Start]],
                          alive \cup {c})
                /\ due' = [due EXCEPT ![c] = [tf.regs EXCEPT !.eip = Start]]
       \/ /\ n = 26
          /\ \/ \E c \in free :
                   /\ Switch([saved EXCEPT ![c] = NewFrame], alive \cup {c})
                   /\ due' = [due EXCEPT ![c] = NewFrame.regs]
             \/ Return(tf, saved, alive) /\ UNCHANGED due   \* no such file
       \/ n \in {9, 17, 26} /\ free = {} /\ Stop(saved, alive) /\ UNCHANGED due
       \/ /\ n \notin HasResult \cup HasNone \cup {9, 10, 11, 17, 26}
          /\ Stop(saved, alive) /\ UNCHANGED due

\* Mutant of device_event: the preemption in timer_event is no comment.
device_event_preempts(tf, saved) ==
    IF tf.irq = 1000 THEN Switch(saved, alive) ELSE Return(tf, saved, alive)

\* timer_event and keyboard_event change their own state only; the disk's
\* interrupt and irq 13, which page faults have too, are let pass.
device_event(tf, saved) == Return(tf, saved, alive)

Handled == {13, 128, 1000, 1001, 1014}

\* cli and the rest: the frame is copied to env_tf, whatever it is that was
\* interrupted, and dispatched by irq.
irq_handle ==
    /\ mode = "entry"
    /\ LET tf    == Last(frames)
           saved == [env_tf EXCEPT ![curenv] = tf]
       IN IF tf.irq = 128 THEN do_syscall(tf, saved)
          ELSE /\ IF tf.irq \in Handled THEN device_event(tf, saved)
                  ELSE Stop(saved, alive)
               /\ UNCHANGED due
    /\ UNCHANGED pending
-----------------------------------------------------------------------------
\* main has loaded the first program and schedule_process runs it: the first iret.
Init ==
    /\ curenv \in Slots
    /\ mode = "user" /\ ints = TRUE /\ frames = <<>>
    /\ regs = NewFrame.regs
    /\ pending = {}
    /\ env_tf = [e \in Slots |-> NewFrame]
    /\ alive = {curenv}
    /\ due = [e \in Slots |-> NewFrame.regs]

Next ==
    \/ \E a \in Addrs, b \in {0, 1} : Compute([eip |-> a, eax |-> 0, ebx |-> b])
    \/ \E n \in Calls : Call(n)
    \/ \E v \in Traps : Trap(v)
    \/ \E l \in Lines : Rise(l) \/ Interrupt(l)
    \/ irq_handle

\* The processor goes on and takes what is pending; devices leave it time to get
\* past the cli.
Spec == Init /\ [][Next]_vars
FairSpec == /\ Spec
            /\ SF_vars(irq_handle /\ Len(frames) = 1)
            /\ WF_vars(irq_handle)
            /\ \A l \in Lines : SF_vars(Interrupt(l))
-----------------------------------------------------------------------------
(***************************************************************************)
(* Safety                                                                  *)
(***************************************************************************)

Frames == [user : BOOLEAN, ints : BOOLEAN, regs : User,
           irq : -1 .. 14 \cup {128, 1000, 1001, 1014}]
TypeOK ==
    /\ mode \in {"user", "entry", "stopped"}
    /\ ints \in BOOLEAN /\ regs \in User /\ frames \in Seq(Frames)
    /\ pending \in SUBSET Lines /\ curenv \in Slots /\ alive \in SUBSET Slots
    /\ env_tf \in [Slots -> Frames] /\ due \in [Slots -> User]

\* Whatever interrupts a program or the way into a call, and wherever it goes on
\* from, the stack or the saved frame: it finds the registers it had, with the
\* result of its own call, the parent the child's number and the child 0.
ProgramsUndisturbed ==
    /\ mode = "user" => regs = due[curenv]
    /\ mode = "entry" => frames # <<>>
    /\ mode # "stopped" =>
          \A e \in alive \ {curenv} : env_tf[e].user /\ env_tf[e].regs = due[e]

\* At most one interrupt is on the stack on top of a call or an exception: the
\* kernel stack is bounded however fast the devices are.  Only lines without a
\* handler, which come through trap gates and stop the kernel, could pile up.
NestsOnce ==
    \/ Len(frames) <= 2
    \/ \E i \in DOMAIN frames : frames[i].irq = -1
-----------------------------------------------------------------------------
(***************************************************************************)
(* Liveness                                                                *)
(***************************************************************************)

\* An interrupt that is pending is served, unless the kernel has stopped: no
\* program and no call runs with interrupts off for ever.
InterruptsServed ==
    \A l \in Lines : l \in pending ~> l \notin pending \/ mode = "stopped"
=============================================================================
