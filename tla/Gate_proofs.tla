---------------------------- MODULE Gate_proofs ----------------------------
(***************************************************************************)
(* For any number of environments, any calls and any devices: programs     *)
(* find the registers they are due, and the kernel stack is bounded.       *)
(***************************************************************************)
EXTENDS Gate, TLAPS, SequenceTheorems

\* The outermost frame is the program's; those on top of it are of the kernel and
\* never of a system call.
StackOf(fs, curenvDue) ==
    \A i \in 1 .. Len(fs) :
        IF i = 1 THEN fs[i].user /\ fs[i].regs = curenvDue
        ELSE ~fs[i].user /\ fs[i].irq # 128

\* What a program finds in a frame that is saved for it.
Saved(saved, there, regsDue) ==
    \A e \in there : saved[e].user /\ saved[e].regs = regsDue[e]

Placed ==
    mode # "stopped" =>
        /\ curenv \in alive
        /\ mode = "user" => frames = <<>> /\ regs = due[curenv]
        /\ mode = "entry" => frames # <<>>
        /\ StackOf(frames, due[curenv])
        /\ Saved(env_tf, alive \ {curenv}, due)

\* An interrupt that nests has turned interrupts off.
Nesting ==
    mode # "stopped" =>
        \/ \E i \in 1 .. Len(frames) : frames[i].irq = -1
        \/ Len(frames) <= 2 /\ (Len(frames) = 2 => ~ints)

Inv == TypeOK /\ Placed /\ Nesting /\ NestsOnce
-----------------------------------------------------------------------------
LEMMA Fields ==
    /\ \A r \in User : r.eip \in Addrs /\ r.ebx \in {0, 1}
                       /\ r.eax \in {0} \cup Calls \cup Results \cup Slots
    /\ \A f \in Frames : f.user \in BOOLEAN /\ f.ints \in BOOLEAN /\ f.regs \in User
                         /\ f.irq \in -1 .. 14 \cup {128, 1000, 1001, 1014}
BY DEF User, Frames

LEMMA NewFrameType == NewFrame \in Frames
BY GateAssumption DEF NewFrame, Frames, User

\* What taking the last element off leaves.
LEMMA FrontLast ==
    ASSUME NEW S, NEW s \in Seq(S), s # <<>>
    PROVE  /\ Last(s) \in S /\ Front(s) \in Seq(S)
           /\ Len(s) \in Nat /\ Len(s) >= 1 /\ Last(s) = s[Len(s)]
           /\ Len(Front(s)) = Len(s) - 1
           /\ \A i \in 1 .. Len(s) - 1 : Front(s)[i] = s[i]
<1>1. Len(s) \in Nat /\ Len(s) >= 1
  BY EmptySeq, LenProperties
<1>2. Last(s) \in S
  BY <1>1, ElementOfSeq DEF Last
<1>3. \A i \in 1 .. Len(s) - 1 : s[i] \in S
  BY <1>1, ElementOfSeq
<1>4. Front(s) \in Seq(S) /\ Len(Front(s)) = Len(s) - 1
      /\ \A i \in 1 .. Len(s) - 1 : Front(s)[i] = s[i]
  <2> DEFINE n == Len(s) - 1
  <2>1. 1 \in Int /\ n \in Int /\ n >= 0
    BY <1>1
  <2>2. \A i \in 1 .. n : s[i] \in S
    BY <1>3
  <2> HIDE DEF n
  <2>3. /\ SubSeq(s, 1, n) \in Seq(S)
        /\ Len(SubSeq(s, 1, n)) = IF 1 <= n THEN n - 1 + 1 ELSE 0
        /\ \A i \in 1 .. n - 1 + 1 : SubSeq(s, 1, n)[i] = s[1 + i - 1]
    BY <2>1, <2>2, SubSeqProperties
  <2>4. Len(SubSeq(s, 1, n)) = n /\ \A i \in 1 .. n : SubSeq(s, 1, n)[i] = s[i]
    BY <2>1, <2>3
  <2>5. QED BY <2>3, <2>4 DEF Front, n
<1>5. QED BY <1>1, <1>2, <1>4 DEF Last

LEMMA GateInit == Init => Inv
<1> SUFFICES ASSUME Init PROVE Inv
  OBVIOUS
<1>1. NewFrame.regs \in User /\ NewFrame.user
  BY NewFrameType, Fields DEF NewFrame
<1>2. TypeOK
  BY <1>1, NewFrameType, EmptySeq DEF Init, TypeOK
<1>3. Placed /\ Nesting /\ NestsOnce
  BY <1>1 DEF Init, Placed, Nesting, NestsOnce, StackOf, Saved
<1>4. QED BY <1>2, <1>3 DEF Inv
-----------------------------------------------------------------------------
(***************************************************************************)
(* Into the kernel                                                         *)
(***************************************************************************)

\* What the processor pushes.
LEMMA EnterFrame ==
    ASSUME TypeOK, NEW v \in 0 .. 255, NEW r \in User, Enter(v, r)
    PROVE  /\ Len(frames) \in Nat
           /\ frames' \in Seq(Frames) /\ frames' # <<>>
           /\ Len(frames') = Len(frames) + 1
           /\ \A i \in 1 .. Len(frames) : frames'[i] = frames[i]
           /\ frames'[Len(frames) + 1].user <=> mode = "user"
           /\ frames'[Len(frames) + 1].irq = Irq(v)
           /\ frames'[Len(frames) + 1].regs = r
           /\ mode' = "entry" /\ regs' = r /\ ints' \in BOOLEAN
<1> DEFINE f == [user |-> mode = "user", irq |-> Irq(v), ints |-> ints, regs |-> r]
<1>1. frames \in Seq(Frames) /\ ints \in BOOLEAN
  BY DEF TypeOK
<1>2. f \in Frames
  BY <1>1 DEF Frames, Irq
<1>3. frames' = Append(frames, f)
  BY DEF Enter
<1>4. (f.user <=> mode = "user") /\ f.irq = Irq(v) /\ f.regs = r
  OBVIOUS
<1> HIDE DEF f
<1>5. /\ Append(frames, f) \in Seq(Frames) /\ Append(frames, f) # <<>>
      /\ Len(frames) \in Nat
      /\ Len(Append(frames, f)) = Len(frames) + 1
      /\ \A i \in 1 .. Len(frames) : Append(frames, f)[i] = frames[i]
      /\ Append(frames, f)[Len(frames) + 1] = f
  BY <1>1, <1>2, AppendProperties, LenProperties
<1>6. QED BY <1>1, <1>3, <1>4, <1>5 DEF Enter

LEMMA FirstFrame ==
    ASSUME TypeOK, NEW v \in 0 .. 255, NEW r \in User, Enter(v, r),
           mode = "user", frames = <<>>
    PROVE  /\ frames' \in Seq(Frames) /\ Len(frames') = 1 /\ frames' # <<>>
           /\ mode' = "entry" /\ regs' = r /\ ints' \in BOOLEAN
           /\ frames'[1].user /\ frames'[1].regs = r
<1>1. Len(frames) = 0
  BY EmptySeq
<1>2. /\ frames' \in Seq(Frames) /\ frames' # <<>>
      /\ Len(frames') = Len(frames) + 1
      /\ frames'[Len(frames) + 1].user <=> mode = "user"
      /\ frames'[Len(frames) + 1].regs = r
      /\ mode' = "entry" /\ regs' = r /\ ints' \in BOOLEAN
  BY EnterFrame
<1>3. Len(frames) + 1 = 1
  BY <1>1
<1>4. QED BY <1>2, <1>3

\* Whatever enters the kernel from a program.
LEMMA FromProgram ==
    ASSUME Inv, mode = "user", NEW v \in 0 .. 255, NEW r \in User, Enter(v, r),
           due' = [due EXCEPT ![curenv] = r], UNCHANGED <<pending, curenv, env_tf, alive>>
    PROVE  Inv'
<1>1. frames = <<>> /\ Len(frames) = 0 /\ curenv \in alive
      /\ Saved(env_tf, alive \ {curenv}, due)
  BY EmptySeq DEF Inv, Placed
<1>2. /\ frames' \in Seq(Frames) /\ Len(frames') = 1 /\ frames' # <<>>
      /\ mode' = "entry" /\ regs' = r /\ ints' \in BOOLEAN
      /\ frames'[1].user /\ frames'[1].regs = r
  BY <1>1, FirstFrame DEF Inv
<1>8. TypeOK'
  BY <1>2 DEF Inv, TypeOK
<1>3. due'[curenv] = r /\ Saved(env_tf, alive \ {curenv}, due')
  BY <1>1 DEF Inv, TypeOK, Saved
<1>4. StackOf(frames', due'[curenv])
  BY <1>2, <1>3 DEF StackOf
<1>5. Placed'
  BY <1>1, <1>2, <1>3, <1>4 DEF Placed
<1>6. Nesting' /\ NestsOnce'
  BY <1>2 DEF Nesting, NestsOnce
<1>7. QED BY <1>5, <1>6, <1>8 DEF Inv

LEMMA ComputeKeeps == ASSUME Inv, NEW r \in User, Compute(r) PROVE Inv'
<1>1. frames = <<>> /\ Len(frames) = 0
  BY EmptySeq DEF Inv, Placed, Compute
<1>2. TypeOK'
  BY DEF Inv, TypeOK, Compute
<1>3. Placed'
  BY <1>1 DEF Inv, TypeOK, Placed, Compute, StackOf, Saved
<1>4. Nesting' /\ NestsOnce'
  BY <1>1 DEF Inv, Compute, Nesting, NestsOnce
<1>5. QED BY <1>2, <1>3, <1>4 DEF Inv

LEMMA CallKeeps == ASSUME Inv, NEW n \in Calls, Call(n) PROVE Inv'
<1> DEFINE r == [regs EXCEPT !.eax = n]
<1>1. r \in User /\ 128 \in 0 .. 255
  BY DEF Inv, TypeOK, User
<1>2. /\ mode = "user" /\ Enter(128, r) /\ due' = [due EXCEPT ![curenv] = r]
      /\ UNCHANGED <<pending, curenv, env_tf, alive>>
  BY DEF Call
<1> HIDE DEF r
<1>3. QED BY <1>1, <1>2, FromProgram

LEMMA TrapKeeps == ASSUME Inv, NEW v \in Traps, Trap(v) PROVE Inv'
<1>1. v \in 0 .. 255 /\ regs \in User
  BY GateAssumption DEF Inv, TypeOK
<1>2. due' = [due EXCEPT ![curenv] = regs]
  BY DEF Trap, Inv, TypeOK, Placed
<1>3. QED BY <1>1, <1>2, FromProgram DEF Trap

LEMMA InterruptKeeps == ASSUME Inv, NEW l \in Lines, Interrupt(l) PROVE Inv'
<1> DEFINE v == Vector(l)
<1>1. l \in 0 .. 15 /\ v \in 32 .. 47 /\ regs \in User /\ v \in 0 .. 255
  BY GateAssumption DEF Inv, TypeOK, Vector
<1>2. Enter(v, regs) /\ ints /\ UNCHANGED <<curenv, env_tf, alive, due>>
      /\ pending' = pending \ {l} /\ mode # "stopped"
  BY DEF Interrupt
<1>3. Irq(v) # 128 /\ (InterruptGate(v) \/ Irq(v) = -1)
  BY <1>1 DEF Irq, InterruptGate
<1> HIDE DEF v
<1>4. CASE mode = "user"
  <2>1. due' = [due EXCEPT ![curenv] = regs]
    BY <1>2, <1>4 DEF Inv, TypeOK, Placed
  <2>2. TypeOK'
    BY <1>1, <1>2, EnterFrame DEF Inv, TypeOK
  <2>3. frames = <<>> /\ Len(frames) = 0 /\ curenv \in alive
        /\ Saved(env_tf, alive \ {curenv}, due) /\ regs = due[curenv]
    BY <1>4, EmptySeq DEF Inv, Placed
  <2>4. Len(frames') = 1 /\ frames' # <<>> /\ mode' = "entry" /\ frames'[1].user
        /\ frames'[1].regs = regs
    BY <1>1, <1>2, <1>4, <2>3, FirstFrame DEF Inv
  <2>5. Placed'
    BY <1>2, <2>3, <2>4 DEF Placed, StackOf
  <2>6. Nesting' /\ NestsOnce'
    BY <2>4 DEF Nesting, NestsOnce
  <2>7. QED BY <2>2, <2>5, <2>6 DEF Inv
<1>5. CASE mode = "entry"
  <2>1. TypeOK'
    BY <1>1, <1>2, EnterFrame DEF Inv, TypeOK
  <2>2. frames # <<>> /\ Len(frames) \in Nat /\ Len(frames) >= 1
    BY <1>5, FrontLast DEF Inv, TypeOK, Placed
  <2>3. /\ Len(frames') = Len(frames) + 1 /\ frames' # <<>> /\ mode' = "entry"
        /\ \A i \in 1 .. Len(frames) : frames'[i] = frames[i]
        /\ ~frames'[Len(frames) + 1].user /\ frames'[Len(frames) + 1].irq = Irq(v)
    BY <1>1, <1>2, <1>5, EnterFrame DEF Inv
  <2>4. StackOf(frames', due[curenv])
    BY <1>2, <1>3, <1>5, <2>2, <2>3 DEF Inv, Placed, StackOf
  <2>5. Placed'
    BY <1>2, <2>3, <2>4 DEF Inv, Placed
  <2>6. Nesting'
    <3>1. CASE Irq(v) = -1
      BY <2>2, <2>3, <3>1 DEF Nesting
    <3>2. CASE \E i \in 1 .. Len(frames) : frames[i].irq = -1
      BY <2>2, <2>3, <3>2 DEF Nesting
    <3>3. CASE InterruptGate(v) /\ Len(frames) <= 2 /\ (Len(frames) = 2 => ~ints)
      <4>1. ~ints'
        BY <1>2, <3>3 DEF Enter
      <4>2. Len(frames) # 2 /\ Len(frames) <= 2
        BY <1>2, <3>3, Zenon
      <4>3. Len(frames') = Len(frames) + 1 /\ Len(frames) \in Nat /\ Len(frames) >= 1
        BY <2>2, <2>3, Zenon
      <4>4. Len(frames') <= 2
        <5> DEFINE n == Len(frames)
        <5>1. n \in Nat /\ n >= 1 /\ n # 2 /\ n <= 2 /\ Len(frames') = n + 1
          BY <4>2, <4>3
        <5> HIDE DEF n
        <5>2. n = 1 /\ 1 + 1 <= 2
          BY <5>1
        <5>3. QED BY <5>1, <5>2
      <4>5. QED BY <4>1, <4>4 DEF Nesting
    <3>4. QED BY <1>2, <1>3, <3>1, <3>2, <3>3 DEF Inv, Nesting
  <2>7. NestsOnce'
    BY <2>1, <2>3, <2>6, LenProperties DEF Nesting, NestsOnce, TypeOK
  <2>8. QED BY <2>1, <2>5, <2>6, <2>7 DEF Inv
<1>6. QED BY <1>2, <1>4, <1>5 DEF Inv, TypeOK
-----------------------------------------------------------------------------
(***************************************************************************)
(* And out of it                                                           *)
(***************************************************************************)

\* The tables a handler leaves.
Tables(saved, there) ==
    /\ saved \in [Slots -> Frames] /\ there \in SUBSET Slots
    /\ due' \in [Slots -> User] /\ pending' = pending

LEMMA StopKeeps ==
    ASSUME Inv, NEW saved, NEW there, Tables(saved, there), Stop(saved, there)
    PROVE  Inv'
<1>1. TypeOK'
  BY DEF Inv, TypeOK, Tables, Stop
<1>2. Placed' /\ Nesting' /\ NestsOnce'
  BY DEF Inv, Stop, Placed, Nesting, NestsOnce
<1>3. QED BY <1>1, <1>2 DEF Inv

LEMMA SwitchKeeps ==
    ASSUME Inv, NEW saved, NEW there, Tables(saved, there), Switch(saved, there),
           Saved(saved, there, due')
    PROVE  Inv'
<1>1. CASE Stop(saved, there)
  BY <1>1, StopKeeps
<1>2. CASE \E e \in there :
             /\ curenv' = e /\ regs' = saved[e].regs /\ ints' = saved[e].ints
             /\ mode' = (IF saved[e].user THEN "user" ELSE "entry")
             /\ frames' = <<>> /\ env_tf' = saved /\ alive' = there
  <2>1. PICK e \in there :
             /\ curenv' = e /\ regs' = saved[e].regs /\ ints' = saved[e].ints
             /\ mode' = (IF saved[e].user THEN "user" ELSE "entry")
             /\ frames' = <<>> /\ env_tf' = saved /\ alive' = there
    BY <1>2
  <2>2. saved[e] \in Frames /\ saved[e].user /\ saved[e].regs = due'[e]
    BY DEF Tables, Saved
  <2>3. mode' = "user" /\ Len(frames') = 0 /\ frames' \in Seq(Frames)
    BY <2>1, <2>2, EmptySeq
  <2>4. TypeOK'
    BY <2>1, <2>2, <2>3, Fields DEF Inv, TypeOK, Tables
  <2>5. Placed' /\ Nesting' /\ NestsOnce'
    BY <2>1, <2>2, <2>3 DEF Placed, Nesting, NestsOnce, StackOf, Saved
  <2>6. QED BY <2>4, <2>5 DEF Inv
<1>3. QED BY <1>1, <1>2 DEF Switch

\* What taking one frame off leaves of the stack.
LEMMA OneLess ==
    ASSUME Inv, mode = "entry"
    PROVE  /\ Last(frames) \in Frames /\ Front(frames) \in Seq(Frames)
           /\ Len(frames) \in Nat /\ Len(frames) >= 1
           /\ Last(frames) = frames[Len(frames)]
           /\ Len(Front(frames)) = Len(frames) - 1
           /\ \A i \in 1 .. Len(frames) - 1 : Front(frames)[i] = frames[i]
<1>1. frames \in Seq(Frames) /\ frames # <<>>
  BY DEF Inv, TypeOK, Placed
<1>2. QED BY <1>1, FrontLast

LEMMA ReturnToProgram ==
    ASSUME Inv, mode = "entry", Len(frames) = 1, NEW saved, NEW there,
           Tables(saved, there), NEW tf \in Frames, tf.user, Return(tf, saved, there),
           curenv \in there, tf.regs = due'[curenv],
           Saved(saved, there \ {curenv}, due')
    PROVE  Inv'
<1>1. /\ frames' \in Seq(Frames) /\ Len(frames') = 0 /\ mode' = "user"
      /\ regs' = tf.regs /\ ints' = tf.ints /\ env_tf' = saved /\ alive' = there
      /\ curenv' = curenv
  BY OneLess DEF Return
<1>2. frames' = <<>>
  BY <1>1, EmptySeq
<1>3. TypeOK'
  BY <1>1, Fields DEF Inv, TypeOK, Tables
<1>4. Placed' /\ Nesting' /\ NestsOnce'
  BY <1>1, <1>2 DEF Placed, Nesting, NestsOnce, StackOf
<1>5. QED BY <1>3, <1>4 DEF Inv

\* A device is let pass on the way into a call, or on another's.
LEMMA ReturnIntoKernel ==
    ASSUME Inv, mode = "entry", Len(frames) # 1, Last(frames).irq # -1,
           Return(Last(frames), [env_tf EXCEPT ![curenv] = Last(frames)], alive),
           UNCHANGED <<due, pending>>
    PROVE  Inv'
<1> DEFINE tf == Last(frames)
           n == Len(frames)
           saved == [env_tf EXCEPT ![curenv] = tf]
<1>1. /\ tf \in Frames /\ n \in Nat /\ n >= 2 /\ tf = frames[n] /\ ~tf.user
      /\ tf.irq # -1
  <2>1. /\ tf \in Frames /\ n \in Nat /\ n >= 1 /\ n # 1 /\ tf = frames[n]
        /\ tf.irq # -1
    BY OneLess
  <2>2. n >= 2 /\ n \in 1 .. Len(frames)
    BY <2>1
  <2>3. StackOf(frames, due[curenv])
    BY DEF Inv, Placed
  <2>4. ~frames[n].user
    BY <2>1, <2>2, <2>3 DEF StackOf
  <2>5. QED BY <2>1, <2>2, <2>4
<1>2. /\ regs' = tf.regs /\ ints' = tf.ints /\ mode' = "entry" /\ env_tf' = saved
      /\ alive' = alive /\ curenv' = curenv /\ due' = due /\ pending' = pending
      /\ frames' = Front(frames)
  BY <1>1 DEF Return
<1>3. /\ frames' \in Seq(Frames) /\ Len(frames') = n - 1
      /\ \A i \in 1 .. n - 1 : frames'[i] = frames[i]
  BY <1>2, OneLess
<1>4. TypeOK'
  BY <1>1, <1>2, <1>3, Fields DEF Inv, TypeOK
<1>5. frames' # <<>>
  BY <1>1, <1>3, EmptySeq
<1>6. StackOf(frames', due[curenv])
  BY <1>1, <1>3 DEF Inv, Placed, StackOf
<1>7. Saved(saved, alive \ {curenv}, due)
  BY DEF Inv, TypeOK, Placed, Saved
<1>8. Placed'
  BY <1>2, <1>5, <1>6, <1>7 DEF Inv, Placed
<1>9. Nesting'
  <2>1. CASE \E i \in 1 .. n : frames[i].irq = -1
    BY <1>1, <1>3, <2>1 DEF Nesting
  <2>2. CASE n <= 2
    BY <1>1, <1>3, <2>2 DEF Nesting
  <2>3. QED BY <2>1, <2>2 DEF Inv, Nesting
<1>10. NestsOnce'
  BY <1>2, <1>4, <1>9, LenProperties DEF Nesting, NestsOnce, TypeOK
<1>11. QED BY <1>4, <1>8, <1>9, <1>10 DEF Inv
-----------------------------------------------------------------------------
(***************************************************************************)
(* irq_handle                                                              *)
(***************************************************************************)

\* sys_sleep, whether it switches or not.
LEMMA SleepKeeps ==
    ASSUME Inv, mode = "entry", Len(frames) = 1, NEW saved, NEW there,
           Tables(saved, there), NEW tf \in Frames, tf.user,
           sys_sleep(tf, saved, there), curenv \in there, tf.regs = due'[curenv],
           Saved(saved, there, due')
    PROVE  Inv'
<1>1. CASE Switch(saved, there)
  BY <1>1, SwitchKeeps
<1>2. CASE Return(tf, saved, there)
  <2>1. Saved(saved, there \ {curenv}, due')
    BY DEF Saved
  <2>2. QED BY <1>2, <2>1, ReturnToProgram
<1>3. QED BY <1>1, <1>2 DEF sys_sleep

\* The frame a system call has: the program's, which is saved.
InCall(tf, saved) ==
    /\ tf \in Frames /\ tf.user /\ tf.regs = due[curenv]
    /\ saved \in [Slots -> Frames] /\ saved[curenv] = tf
    /\ Saved(saved, alive, due)

LEMMA CallFrame ==
    ASSUME Inv, mode = "entry", Len(frames) = 1
    PROVE  InCall(Last(frames), [env_tf EXCEPT ![curenv] = Last(frames)])
<1> DEFINE tf == Last(frames)
<1>1. tf \in Frames /\ tf = frames[1]
  BY OneLess
<1>2. StackOf(frames, due[curenv]) /\ Saved(env_tf, alive \ {curenv}, due)
  BY DEF Inv, Placed
<1>3. tf.user /\ tf.regs = due[curenv]
  BY <1>1, <1>2 DEF StackOf
<1> HIDE DEF tf
<1>4. QED BY <1>1, <1>2, <1>3 DEF Inv, TypeOK, InCall, Saved, tf

\* A call that changes neither the program's registers nor the environments.
LEMMA NothingNew ==
    ASSUME Inv, mode = "entry", Len(frames) = 1, NEW tf, NEW saved, InCall(tf, saved),
           UNCHANGED <<due, pending>>
    PROVE  /\ Return(tf, saved, alive) => Inv'
           /\ Switch(saved, alive) => Inv'
           /\ sys_sleep(tf, saved, alive) => Inv'
           /\ Stop(saved, alive) => Inv'
<1>1. Tables(saved, alive) /\ curenv \in alive /\ tf \in Frames /\ tf.user
      /\ tf.regs = due'[curenv]
  BY DEF Inv, TypeOK, Placed, Tables, InCall
<1>2. Saved(saved, alive, due') /\ Saved(saved, alive \ {curenv}, due')
  BY DEF InCall, Saved
<1>3. QED BY <1>1, <1>2, ReturnToProgram, SwitchKeeps, SleepKeeps, StopKeeps

\* A call with a result.
LEMMA ResultKeeps ==
    ASSUME Inv, mode = "entry", Len(frames) = 1, NEW tf, NEW saved, InCall(tf, saved),
           NEW r \in Results, Return([tf EXCEPT !.regs.eax = r], saved, alive),
           due' = [due EXCEPT ![curenv].eax = r], pending' = pending
    PROVE  Inv'
<1> DEFINE result == [tf EXCEPT !.regs.eax = r]
<1>1. tf \in Frames /\ tf.user /\ tf.regs = due[curenv] /\ tf.regs \in User
      /\ curenv \in alive /\ curenv \in Slots /\ due \in [Slots -> User]
  BY Fields DEF Inv, TypeOK, Placed, InCall
<1>2. result \in Frames /\ result.user
  BY <1>1 DEF Frames, User
<1>3. due' \in [Slots -> User] /\ result.regs = due'[curenv]
  BY <1>1 DEF Frames, User
<1>4. Tables(saved, alive)
  BY <1>3 DEF Inv, TypeOK, Tables, InCall
<1>5. Saved(saved, alive \ {curenv}, due')
  BY <1>1 DEF Saved, InCall, Inv, TypeOK
<1>6. Return(result, saved, alive)
  OBVIOUS
<1> HIDE DEF result
<1>7. QED BY <1>1, <1>2, <1>3, <1>4, <1>5, <1>6, ReturnToProgram

\* fork: the child goes on with 0, the parent with the child's number.
LEMMA ForkKeeps ==
    ASSUME Inv, mode = "entry", Len(frames) = 1, NEW tf, NEW saved, InCall(tf, saved),
           NEW c \in Slots \ alive,
           sys_sleep([tf EXCEPT !.regs.eax = c], ForkFrames(saved, c), alive \cup {c}),
           due' = [due EXCEPT ![curenv].eax = c, ![c] = [tf.regs EXCEPT !.eax = 0]],
           pending' = pending
    PROVE  Inv'
<1> DEFINE parent == [tf EXCEPT !.regs.eax = c]
           child == [tf EXCEPT !.regs.eax = 0]
           forked == ForkFrames(saved, c)
           there == alive \cup {c}
<1>1. tf \in Frames /\ tf.user /\ tf.regs = due[curenv] /\ tf.regs \in User
      /\ curenv \in alive /\ curenv \in Slots /\ due \in [Slots -> User]
      /\ c # curenv /\ saved \in [Slots -> Frames] /\ saved[curenv] = tf
      /\ alive \in SUBSET Slots /\ Saved(saved, alive, due)
  BY Fields DEF Inv, TypeOK, Placed, InCall
<1>2. parent \in Frames /\ child \in Frames /\ parent.user /\ child.user
      /\ parent.regs = [tf.regs EXCEPT !.eax = c]
      /\ child.regs = [tf.regs EXCEPT !.eax = 0]
  BY <1>1 DEF Frames, User
<1>3. forked = [saved EXCEPT ![c] = child, ![curenv] = parent]
  BY <1>1 DEF ForkFrames
<1>4. due' = [due EXCEPT ![curenv] = parent.regs, ![c] = child.regs]
  BY <1>1, <1>2
<1>5. sys_sleep(parent, forked, there)
  OBVIOUS
<1> HIDE DEF parent, child, forked
<1>6. Tables(forked, there)
  BY <1>1, <1>2, <1>3, <1>4, Fields DEF Tables
<1>7. parent.regs = due'[curenv]
  BY <1>1, <1>4
<1>8. Saved(forked, there, due')
  BY <1>1, <1>2, <1>3, <1>4 DEF Saved
<1>9. curenv \in there
  BY <1>1
<1> HIDE DEF there
<1>10. QED BY <1>2, <1>5, <1>6, <1>7, <1>8, <1>9, SleepKeeps

\* A thread goes on from its function, with the registers of its creator.
LEMMA ThreadKeeps ==
    ASSUME Inv, mode = "entry", Len(frames) = 1, NEW tf, NEW saved, InCall(tf, saved),
           NEW c \in Slots \ alive,
           Return(tf, [saved EXCEPT ![c] = [saved[curenv] EXCEPT !.regs.eip = Start]],
                  alive \cup {c}),
           due' = [due EXCEPT ![c] = [tf.regs EXCEPT !.eip = Start]], pending' = pending
    PROVE  Inv'
<1> DEFINE thread == [tf EXCEPT !.regs.eip = Start]
           created == [saved EXCEPT ![c] = thread]
           there == alive \cup {c}
<1>1. tf \in Frames /\ tf.user /\ tf.regs = due[curenv] /\ tf.regs \in User
      /\ curenv \in alive /\ curenv \in Slots /\ due \in [Slots -> User]
      /\ c # curenv /\ saved \in [Slots -> Frames] /\ saved[curenv] = tf
      /\ alive \in SUBSET Slots /\ Saved(saved, alive, due)
  BY Fields DEF Inv, TypeOK, Placed, InCall
<1>2. thread \in Frames /\ thread.user /\ thread.regs = [tf.regs EXCEPT !.eip = Start]
  BY <1>1, GateAssumption DEF Frames, User
<1>3. due' = [due EXCEPT ![c] = thread.regs]
  BY <1>2
<1>4. Return(tf, created, there)
  BY <1>1
<1> HIDE DEF thread, created
<1>5. Tables(created, there)
  BY <1>1, <1>2, <1>3, Fields DEF Tables, created
<1>6. Saved(created, there \ {curenv}, due')
  BY <1>1, <1>2, <1>3 DEF Saved, created
<1>7. tf.regs = due'[curenv] /\ curenv \in there
  BY <1>1, <1>3
<1> HIDE DEF there
<1>8. QED BY <1>1, <1>4, <1>5, <1>6, <1>7, ReturnToProgram

\* sys_frun: a program in a new environment begins where its file says.
LEMMA LoadKeeps ==
    ASSUME Inv, mode = "entry", Len(frames) = 1, NEW tf, NEW saved, InCall(tf, saved),
           NEW c \in Slots \ alive,
           Switch([saved EXCEPT ![c] = NewFrame], alive \cup {c}),
           due' = [due EXCEPT ![c] = NewFrame.regs], pending' = pending
    PROVE  Inv'
<1> DEFINE loaded == [saved EXCEPT ![c] = NewFrame]
           there == alive \cup {c}
<1>1. due \in [Slots -> User] /\ saved \in [Slots -> Frames]
      /\ alive \in SUBSET Slots /\ Saved(saved, alive, due)
  BY DEF Inv, TypeOK, InCall
<1>2. NewFrame \in Frames /\ NewFrame.user /\ NewFrame.regs \in User
  BY NewFrameType, Fields DEF NewFrame
<1>3. Tables(loaded, there)
  BY <1>1, <1>2 DEF Tables
<1>4. Saved(loaded, there, due')
  BY <1>1, <1>2 DEF Saved
<1>5. Switch(loaded, there)
  OBVIOUS
<1> HIDE DEF loaded, there
<1>6. QED BY <1>3, <1>4, <1>5, SwitchKeeps

LEMMA ExitKeeps ==
    ASSUME Inv, mode = "entry", Len(frames) = 1, NEW tf, NEW saved, InCall(tf, saved),
           Switch(saved, alive \ {curenv}), UNCHANGED <<due, pending>>
    PROVE  Inv'
<1>1. Tables(saved, alive \ {curenv})
  BY DEF Inv, TypeOK, Tables, InCall
<1>2. Saved(saved, alive \ {curenv}, due')
  BY DEF InCall, Saved
<1>3. QED BY <1>1, <1>2, SwitchKeeps

LEMMA SyscallKeeps ==
    ASSUME Inv, mode = "entry", Len(frames) = 1, NEW tf, NEW saved, InCall(tf, saved),
           do_syscall(tf, saved), pending' = pending
    PROVE  Inv'
<1> DEFINE free == Slots \ alive
<1>1. CASE \E r \in Results :
              /\ Return([tf EXCEPT !.regs.eax = r], saved, alive)
              /\ due' = [due EXCEPT ![curenv].eax = r]
  BY <1>1, ResultKeeps
<1>2. CASE (Return(tf, saved, alive) \/ Switch(saved, alive)
            \/ sys_sleep(tf, saved, alive) \/ Stop(saved, alive)) /\ UNCHANGED due
  BY <1>2, NothingNew
<1>3. CASE \E c \in free :
              /\ sys_sleep([tf EXCEPT !.regs.eax = c], ForkFrames(saved, c),
                           alive \cup {c})
              /\ due' = [due EXCEPT ![curenv].eax = c,
                                    ![c] = [tf.regs EXCEPT !.eax = 0]]
  BY <1>3, ForkKeeps
<1>4. CASE Switch(saved, alive \ {curenv}) /\ UNCHANGED due
  BY <1>4, ExitKeeps
<1>5. CASE \E c \in free :
              /\ Return(tf, [saved EXCEPT ![c] =
                                [saved[curenv] EXCEPT !.regs.eip = Start]],
                        alive \cup {c})
              /\ due' = [due EXCEPT ![c] = [tf.regs EXCEPT !.eip = Start]]
  BY <1>5, ThreadKeeps
<1>6. CASE \E c \in free :
              /\ Switch([saved EXCEPT ![c] = NewFrame], alive \cup {c})
              /\ due' = [due EXCEPT ![c] = NewFrame.regs]
  BY <1>6, LoadKeeps
<1>7. QED BY <1>1, <1>2, <1>3, <1>4, <1>5, <1>6 DEF do_syscall

LEMMA HandleKeeps == ASSUME Inv, irq_handle PROVE Inv'
<1> DEFINE tf == Last(frames)
           saved == [env_tf EXCEPT ![curenv] = tf]
<1>1. mode = "entry" /\ pending' = pending
  BY DEF irq_handle
<1>2. tf \in Frames /\ Len(frames) \in Nat /\ Len(frames) >= 1
      /\ tf = frames[Len(frames)]
  BY <1>1, OneLess
<1>3. CASE tf.irq = 128
  <2>1. do_syscall(tf, saved)
    BY <1>3 DEF irq_handle
  <2>2. Len(frames) = 1
    <3>1. StackOf(frames, due[curenv])
      BY <1>1 DEF Inv, Placed
    <3>2. Len(frames) \in 1 .. Len(frames) /\ frames[Len(frames)].irq = 128
      BY <1>2, <1>3
    <3>3. QED BY <3>1, <3>2 DEF StackOf
  <2>3. InCall(tf, saved)
    BY <1>1, <2>2, CallFrame
  <2> HIDE DEF tf, saved
  <2>4. QED BY <1>1, <2>1, <2>2, <2>3, SyscallKeeps
<1>4. CASE tf.irq # 128 /\ tf.irq \in Handled
  <2>1. Return(tf, saved, alive) /\ UNCHANGED due /\ tf.irq # -1
    BY <1>4 DEF irq_handle, device_event, Handled
  <2>2. CASE Len(frames) = 1
    <3>1. InCall(tf, saved)
      BY <1>1, <2>2, CallFrame
    <3> HIDE DEF tf, saved
    <3>2. QED BY <1>1, <2>1, <2>2, <3>1, NothingNew
  <2>3. CASE Len(frames) # 1
    BY <1>1, <2>1, <2>3, ReturnIntoKernel
  <2>4. QED BY <2>2, <2>3
<1>5. CASE tf.irq # 128 /\ tf.irq \notin Handled
  <2>1. Stop(saved, alive) /\ UNCHANGED due
    BY <1>5 DEF irq_handle
  <2>2. Tables(saved, alive)
    BY <1>1, <1>2, <2>1 DEF Inv, TypeOK, Tables
  <2> HIDE DEF saved
  <2>3. QED BY <2>1, <2>2, StopKeeps
<1>6. QED BY <1>3, <1>4, <1>5
-----------------------------------------------------------------------------
LEMMA GateStep == Inv /\ [Next]_vars => Inv'
<1> SUFFICES ASSUME Inv, [Next]_vars PROVE Inv'
  OBVIOUS
<1>1. ASSUME NEW a \in Addrs, NEW b \in {0, 1}, Compute([eip |-> a, eax |-> 0, ebx |-> b])
      PROVE  Inv'
  <2>1. [eip |-> a, eax |-> 0, ebx |-> b] \in User
    BY DEF User
  <2>2. QED BY <1>1, <2>1, ComputeKeeps
<1>2. ASSUME NEW n \in Calls, Call(n) PROVE Inv'
  BY <1>2, CallKeeps
<1>3. ASSUME NEW v \in Traps, Trap(v) PROVE Inv'
  BY <1>3, TrapKeeps
<1>4. ASSUME NEW l \in Lines, Rise(l) PROVE Inv'
  <2>1. TypeOK'
    BY <1>4 DEF Inv, TypeOK, Rise
  <2>2. Placed' /\ Nesting' /\ NestsOnce'
    BY <1>4 DEF Inv, Rise, Placed, Nesting, NestsOnce
  <2>3. QED BY <2>1, <2>2 DEF Inv
<1>5. ASSUME NEW l \in Lines, Interrupt(l) PROVE Inv'
  BY <1>5, InterruptKeeps
<1>6. CASE irq_handle
  BY <1>6, HandleKeeps
<1>7. CASE UNCHANGED vars
  <2>1. TypeOK'
    BY <1>7 DEF Inv, TypeOK, vars
  <2>2. Placed' /\ Nesting' /\ NestsOnce'
    BY <1>7 DEF Inv, vars, Placed, Nesting, NestsOnce
  <2>3. QED BY <2>1, <2>2 DEF Inv
<1>8. QED BY <1>1, <1>2, <1>3, <1>4, <1>5, <1>6, <1>7 DEF Next

\* The stack of frames and the saved frames are as Inv says in every state: the
\* program's own frame is the outermost one, and holds what the program is due.
THEOREM GateInvariance == Spec => []Inv
BY GateInit, GateStep, PTL DEF Spec

\* The frames, on the kernel stack and saved, have the types the gates give them.
THEOREM GateTypeCorrect == Spec => []TypeOK
<1>1. Inv => TypeOK
  BY DEF Inv
<1>2. QED BY <1>1, GateInvariance, PTL

\* Whatever interrupts a program, or the way into its call, it goes on with the
\* registers it is due.
THEOREM Undisturbed == Spec => []ProgramsUndisturbed
<1>1. Inv => ProgramsUndisturbed
  BY DEF Inv, TypeOK, Placed, Saved, ProgramsUndisturbed
<1>2. QED BY <1>1, GateInvariance, PTL

\* No bound on the frames is needed for the kernel stack to have at most two, as
\* long as only lines with a handler rise.
THEOREM NestsOnceHolds == Spec => []NestsOnce
<1>1. Inv => NestsOnce
  BY DEF Inv
<1>2. QED BY <1>1, GateInvariance, PTL
=============================================================================
