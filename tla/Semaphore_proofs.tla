-------------------------- MODULE Semaphore_proofs --------------------------
(***************************************************************************)
(* What is proved of the process table, for every number of slots, every   *)
(* width of env_runs and every length of sleep; and of the semaphores, for *)
(* every number of semaphores, of environments and of names: the table and *)
(* the lists of those blocked stay sound, nobody blocked is lost, and the  *)
(* kernel implements SemaphoreSpec.                                        *)
(***************************************************************************)
EXTENDS Semaphore

(***************************************************************************)
(* The scheduler                                                           *)
(***************************************************************************)

LEMMA BumpType == \A r \in Runs : Bump(r) \in Runs
BY ProcessAssumption DEF Bump, Runs, AwakeMax

LEMMA ConstantTypes ==
    /\ 0 \in Envs /\ Nil \notin Envs
    /\ 0 \in Runs
    /\ \A t \in 1 .. SleepMax : RunsMod - t \in Runs /\ RunsMod - t > AwakeMax
BY ProcessAssumption DEF Envs, Nil, Runs, AwakeMax

\* What the callers need of schedule_process: it keeps the types, somebody
\* runs, and every other slot keeps its status or was asleep and wakes up.
LEMMA ScheduleEffect ==
    ASSUME NEW idx \in Envs, NEW st \in [Envs -> Status],
           NEW rn \in [Envs -> Runs], NEW pg \in [Envs -> BOOLEAN],
           Schedule(idx, st, rn, pg)
    PROVE  /\ env_status' \in [Envs -> Status]
           /\ env_runs' \in [Envs -> Runs]
           /\ curenv' \in Envs
           /\ kernel' = IF pg[curenv'] THEN "up" ELSE "no_vm"
           /\ env_status'[curenv'] = "RUNNING"
           /\ curenv' = 0 \/ st[curenv'] = "RUNNABLE"
           /\ Picks(st, idx, curenv')
           /\ \A y \in Envs \ {curenv'} :
                 \/ env_status'[y] = st[y]
                 \/ st[y] = "NOT_RUNNABLE" /\ env_status'[y] = "RUNNABLE"
<1>1. PICK x \in Envs :
        /\ Picks(st, idx, x)
        /\ LET rn1 == [y \in Envs |-> IF Ticked(st, idx, x, y)
                                      THEN Bump(rn[y]) ELSE rn[y]]
           IN /\ env_runs' = [rn1 EXCEPT ![x] = Bump(@)]
              /\ env_status' = [y \in Envs |->
                    IF y = x THEN "RUNNING"
                    ELSE IF Ticked(st, idx, x, y) /\ rn1[y] = 0
                         THEN "RUNNABLE" ELSE st[y]]
        /\ env_run(x, pg)
  BY DEF Schedule
<1> DEFINE rn1 == [y \in Envs |-> IF Ticked(st, idx, x, y)
                                 THEN Bump(rn[y]) ELSE rn[y]]
<1>2. rn1 \in [Envs -> Runs]
  BY BumpType
<1>3. env_runs' \in [Envs -> Runs]
  BY <1>1, <1>2, BumpType
<1>4. \A y \in Envs : env_status'[y] \in Status
  BY <1>1 DEF Status
<1>5. env_status' \in [Envs -> Status]
  BY <1>1, <1>4
<1>6. curenv' = x /\ kernel' = IF pg[x] THEN "up" ELSE "no_vm"
  BY <1>1 DEF env_run
<1>7. x = 0 \/ st[x] = "RUNNABLE"
  BY <1>1 DEF Picks
<1>8. \A y \in Envs \ {x} :
         \/ env_status'[y] = st[y]
         \/ st[y] = "NOT_RUNNABLE" /\ env_status'[y] = "RUNNABLE"
  BY <1>1 DEF Ticked
<1> QED
  BY <1>1, <1>3, <1>5, <1>6, <1>7, <1>8
-----------------------------------------------------------------------------
(***************************************************************************)
(* Type correctness                                                        *)
(***************************************************************************)

\* env_alloc keeps the types of what it sets.
LEMMA AllocType ==
    ASSUME TypeOK, NEW e \in Envs, NEW id \in Int, NEW parent \in Int,
           NEW nrThread \in [Envs -> Nat], Alloc(e, id, parent, nrThread)
    PROVE  /\ env_free_list' \in Envs \cup {Nil}
           /\ env_link' \in [Envs -> Envs \cup {Nil}]
           /\ env_id' \in [Envs -> Int]
           /\ env_parent_id' \in [Envs -> Int]
           /\ env_nr_thread' \in [Envs -> Nat]
           /\ env_pgdir' = [env_pgdir EXCEPT ![e] = TRUE]
           /\ env_pgdir' \in [Envs -> BOOLEAN]
BY DEF TypeOK, Alloc

LEMMA FreshType ==
    ASSUME NEW st \in [Envs -> Status], NEW e \in Envs,
           env_runs \in [Envs -> Runs]
    PROVE  /\ Fresh(st, e) \in [Envs -> Status]
           /\ FreshRuns(e) \in [Envs -> Runs]
BY ConstantTypes DEF Fresh, FreshRuns, Status

LEMMA CrashType ==
    ASSUME TypeOK, NEW r \in KernelState, Crash(r) PROVE TypeOK'
BY DEF TypeOK, Crash, linkVars, idVars

LEMMA ProcStepType ==
    ASSUME TypeOK, ProcNext PROVE TypeOK'
<1> USE DEF KernelState
<1>a. IdSpan \in Nat /\ NoEnv \in Int /\ \A e \in Envs : e \in Int /\ e * IdSpan \in Int
  BY ProcessAssumption DEF Envs, NoEnv
<1>b. ASSUME InCall PROVE curenv \in Envs /\ env_id[curenv] \in Int
  BY <1>b DEF InCall, TypeOK
<1>c. ASSUME NEW s \in Status, NEW e \in Envs
      PROVE  [env_status EXCEPT ![e] = s] \in [Envs -> Status]
  BY DEF TypeOK
<1>d. "FREE" \in Status /\ "NOT_RUNNABLE" \in Status
  BY DEF Status
<1>1. CASE Boot
  <2>1. PICK e \in Envs :
           /\ Alloc(e, e * IdSpan, NoEnv, env_nr_thread)
           /\ Schedule(0, Fresh(env_status, e), FreshRuns(e),
                       [env_pgdir EXCEPT ![e] = TRUE])
    BY <1>1 DEF Boot, env_create
  <2>2. [env_pgdir EXCEPT ![e] = TRUE] \in [Envs -> BOOLEAN]
    BY DEF TypeOK
  <2> QED
    BY <1>a, <2>1, <2>2, AllocType, FreshType, ScheduleEffect, ConstantTypes
       DEF TypeOK
<1>2. ASSUME NEW t \in 1 .. SleepMax, SysSleep(t) PROVE TypeOK'
  <2>1. [env_runs EXCEPT ![curenv] = RunsMod - t] \in [Envs -> Runs]
    BY ConstantTypes DEF TypeOK
  <2> QED
    BY <1>2, <1>b, <1>c, <1>d, <2>1, ScheduleEffect
       DEF TypeOK, SysSleep, linkVars, idVars
<1>3. CASE SysExit
  <2>1. [env_pgdir EXCEPT ![curenv] = FALSE] \in [Envs -> BOOLEAN]
    BY DEF TypeOK
  <2> QED
    BY <1>3, <1>b, <1>c, <1>d, <2>1, ScheduleEffect
       DEF TypeOK, SysExit, env_free, idVars
<1>4. ASSUME NEW t \in 0 .. SleepMax, SysFork(t) PROVE TypeOK'
  <2>1. CASE AllocFails
    BY <2>1, CrashType DEF AllocFails
  <2>2. ASSUME NEW e \in Envs,
               Alloc(e, e * IdSpan, env_id[curenv], env_nr_thread)
        PROVE  /\ env_free_list' \in Envs \cup {Nil}
               /\ env_link' \in [Envs -> Envs \cup {Nil}]
               /\ env_id' \in [Envs -> Int]
               /\ env_parent_id' \in [Envs -> Int]
               /\ env_nr_thread' \in [Envs -> Nat]
               /\ env_pgdir' \in [Envs -> BOOLEAN]
               /\ [env_pgdir EXCEPT ![e] = TRUE] \in [Envs -> BOOLEAN]
    BY <1>4, <1>a, <1>b, <2>2, AllocType DEF TypeOK, SysFork
  <2>3. ASSUME NEW e \in Envs,
               Alloc(e, e * IdSpan, env_id[curenv], env_nr_thread), t = 0,
               env_status' = Fresh(env_status, e), env_runs' = FreshRuns(e),
               UNCHANGED <<curenv, kernel>>
        PROVE  TypeOK'
    BY <2>2, <2>3, FreshType DEF TypeOK
  <2>4. ASSUME NEW e \in Envs,
               Alloc(e, e * IdSpan, env_id[curenv], env_nr_thread), t # 0,
               Schedule(curenv,
                        Fresh([env_status EXCEPT ![curenv] = "NOT_RUNNABLE"], e),
                        [FreshRuns(e) EXCEPT ![curenv] = RunsMod - t],
                        [env_pgdir EXCEPT ![e] = TRUE])
        PROVE  TypeOK'
    <3>1. /\ Fresh([env_status EXCEPT ![curenv] = "NOT_RUNNABLE"], e)
                \in [Envs -> Status]
          /\ FreshRuns(e) \in [Envs -> Runs]
      BY <1>4, <1>b, <1>c, <1>d, FreshType DEF TypeOK, SysFork
    <3>2. [FreshRuns(e) EXCEPT ![curenv] = RunsMod - t] \in [Envs -> Runs]
      <4>1. t \in 1 .. SleepMax
        BY <2>4, ProcessAssumption
      <4>2. RunsMod - t \in Runs
        BY <4>1, ConstantTypes
      <4> QED
        BY <3>1, <4>2
    <3> QED
      BY <1>4, <1>b, <2>2, <2>4, <3>1, <3>2, ScheduleEffect DEF TypeOK, SysFork
  <2> QED
    BY <1>4, <2>1, <2>3, <2>4 DEF SysFork
<1>5. CASE SysFrun
  <2>1. CASE AllocFails
    BY <2>1, CrashType DEF AllocFails
  <2>2. ASSUME NEW e \in Envs, Alloc(e, e * IdSpan, NoEnv, env_nr_thread),
               Schedule(curenv, Fresh(env_status, e), FreshRuns(e),
                        [env_pgdir EXCEPT ![e] = TRUE])
        PROVE  TypeOK'
    <3>1. [env_pgdir EXCEPT ![e] = TRUE] \in [Envs -> BOOLEAN]
      BY DEF TypeOK
    <3> QED
      BY <1>5, <1>a, <1>b, <2>2, <3>1, AllocType, FreshType, ScheduleEffect
         DEF TypeOK, SysFrun
  <2> QED
    BY <1>5, <2>1, <2>2 DEF SysFrun, env_create
<1>6. CASE SysCreateThread
  <2>1. CASE AllocFails \/ Crash("no_root")
    BY <2>1, CrashType DEF AllocFails
  <2>2. ASSUME NEW root \in Envs, NEW e \in Envs,
               Alloc(e,
                     env_id[curenv] - (env_id[curenv] % IdSpan)
                         + env_nr_thread[root],
                     env_id[curenv],
                     [env_nr_thread EXCEPT ![root] = @ + 1]),
               env_status' = Fresh(env_status, e),
               env_runs' = FreshRuns(e),
               UNCHANGED <<curenv, kernel>>
        PROVE  TypeOK'
    <3>1. [env_nr_thread EXCEPT ![root] = @ + 1] \in [Envs -> Nat]
      BY DEF TypeOK
    <3>2. env_id[curenv] % IdSpan \in Int
      BY <1>6, <1>b, ProcessAssumption DEF SysCreateThread
    <3>3. env_id[curenv] - (env_id[curenv] % IdSpan) + env_nr_thread[root] \in Int
      BY <1>6, <1>b, <3>2 DEF TypeOK, SysCreateThread
    <3> QED
      BY <1>6, <1>b, <2>2, <3>1, <3>3, AllocType, FreshType
         DEF TypeOK, SysCreateThread
  <2> QED
    BY <1>6, <2>1, <2>2 DEF SysCreateThread
<1> QED
  BY <1>1, <1>2, <1>3, <1>4, <1>5, <1>6 DEF ProcNext

LEMMA InitType == Init => TypeOK
BY ProcessAssumption, ConstantTypes
   DEF Init, TypeOK, Status, KernelState, Envs, Nil

\* The table of environments keeps its types: the links, the free list and
\* curenv name slots of envs[] or nothing.
THEOREM ProcessTypeCorrect == Spec => []TypeOK
<1>1. TypeOK /\ UNCHANGED procVars => TypeOK'
  BY DEF TypeOK, procVars
<1> QED
  BY <1>1, InitType, ProcStepType, PTL DEF Spec
-----------------------------------------------------------------------------
(***************************************************************************)
(* The free list and the page directories                                  *)
(***************************************************************************)

\* Neither half is inductive alone: that env_alloc takes a FREE slot follows
\* from the list, and that a FREE slot gets its page directory, which the
\* fallback of the scheduler needs, from env_alloc.
TableInv == TypeOK /\ RunsInItsMemory /\ FreeListOK

\* After the scheduler: only slot 0 can be resumed without memory, and unless
\* it was, the free slots are those of the table it was given.
LEMMA ScheduleTable ==
    ASSUME NEW idx \in Envs, NEW st \in [Envs -> Status],
           NEW rn \in [Envs -> Runs], NEW pg \in [Envs -> BOOLEAN],
           Schedule(idx, st, rn, pg), env_pgdir' = pg,
           \A y \in Envs : pg[y] <=> st[y] # "FREE"
    PROVE  /\ RunsInItsMemory'
           /\ kernel' = "up" => Free' = {y \in Envs : st[y] = "FREE"}
<1>1. /\ curenv' \in Envs
      /\ kernel' = IF pg[curenv'] THEN "up" ELSE "no_vm"
      /\ env_status'[curenv'] = "RUNNING"
      /\ curenv' = 0 \/ st[curenv'] = "RUNNABLE"
      /\ \A y \in Envs \ {curenv'} :
            \/ env_status'[y] = st[y]
            \/ st[y] = "NOT_RUNNABLE" /\ env_status'[y] = "RUNNABLE"
  BY ScheduleEffect
<1>2. kernel' = "no_vm" => curenv' = 0
  BY <1>1
<1>3. ASSUME kernel' = "up"
      PROVE  \A y \in Envs : env_status'[y] = "FREE" <=> st[y] = "FREE"
  BY <1>1, <1>3
<1> QED
  BY <1>1, <1>2, <1>3 DEF RunsInItsMemory, Free

\* env_alloc takes a free slot and leaves the list of the others.
LEMMA AllocTable ==
    ASSUME TableInv, kernel = "up", NEW e \in Envs,
           NEW id, NEW parent, NEW nrThread, Alloc(e, id, parent, nrThread)
    PROVE  /\ env_status[e] = "FREE"
           /\ IsList(env_link', env_free_list', Free \ {e})
           /\ env_pgdir' = [env_pgdir EXCEPT ![e] = TRUE]
<1>1. IsList(env_link, env_free_list, Free) /\ Free \in SUBSET Envs
  BY DEF TableInv, FreeListOK, Free
<1>2. e = env_free_list /\ e # Nil /\ env_free_list' = env_link[e]
      /\ env_link' = env_link
  BY DEF Alloc
<1>3. e \in Free /\ IsList(env_link, env_link[e], Free \ {e})
  BY <1>1, <1>2, ListPop
<1> QED
  BY <1>2, <1>3 DEF Alloc, Free

\* A call that allocates e and then schedules over a table st in which e is
\* runnable and the slots without memory are FREE.
LEMMA AllocSchedule ==
    ASSUME TableInv, kernel = "up", NEW e \in Envs,
           NEW id, NEW parent, NEW nrThread, Alloc(e, id, parent, nrThread),
           NEW idx \in Envs, NEW st \in [Envs -> Status],
           NEW rn \in [Envs -> Runs],
           Schedule(idx, st, rn, [env_pgdir EXCEPT ![e] = TRUE]),
           \A y \in Envs : st[y] = "FREE" <=> y # e /\ env_status[y] = "FREE"
    PROVE  RunsInItsMemory' /\ FreeListOK'
<1> DEFINE pg == [env_pgdir EXCEPT ![e] = TRUE]
<1>1. /\ IsList(env_link', env_free_list', Free \ {e})
      /\ env_pgdir' = pg
  BY AllocTable
<1>2. pg \in [Envs -> BOOLEAN] /\ \A y \in Envs : pg[y] <=> st[y] # "FREE"
  BY DEF TableInv, TypeOK, RunsInItsMemory
<1>3. /\ RunsInItsMemory'
      /\ kernel' = "up" => Free' = {y \in Envs : st[y] = "FREE"}
  BY <1>1, <1>2, ScheduleTable
<1>4. {y \in Envs : st[y] = "FREE"} = Free \ {e}
  BY DEF Free
<1> QED
  BY <1>1, <1>3, <1>4 DEF FreeListOK

\* A call that allocates e, makes it runnable and returns.
LEMMA AllocReturn ==
    ASSUME TableInv, InCall, NEW e \in Envs,
           NEW id, NEW parent, NEW nrThread, Alloc(e, id, parent, nrThread),
           env_status' = Fresh(env_status, e), UNCHANGED <<curenv, kernel>>
    PROVE  RunsInItsMemory' /\ FreeListOK'
<1>1. /\ env_status[e] = "FREE"
      /\ IsList(env_link', env_free_list', Free \ {e})
      /\ env_pgdir' = [env_pgdir EXCEPT ![e] = TRUE]
  BY AllocTable DEF InCall
<1>2. Free' = Free \ {e}
  BY DEF Free, Fresh, TableInv, TypeOK
<1>3. RunsInItsMemory'
  BY <1>1 DEF TableInv, TypeOK, RunsInItsMemory, Fresh, InCall
<1> QED
  BY <1>1, <1>2, <1>3 DEF FreeListOK

LEMMA CrashTable ==
    ASSUME NEW r \in {"no_env", "no_root"}, Crash(r)
    PROVE  RunsInItsMemory' /\ FreeListOK'
BY DEF Crash, RunsInItsMemory, FreeListOK

LEMMA TableStep ==
    ASSUME TableInv, ProcNext PROVE RunsInItsMemory' /\ FreeListOK'
<1>a. ASSUME InCall
      PROVE  /\ curenv \in Envs /\ kernel = "up"
             /\ env_status[curenv] = "RUNNING"
             /\ \A y \in Envs : env_pgdir[y] <=> env_status[y] # "FREE"
  BY <1>a DEF InCall, TableInv, TypeOK, RunsInItsMemory
<1>b. /\ env_status \in [Envs -> Status] /\ env_runs \in [Envs -> Runs]
      /\ env_pgdir \in [Envs -> BOOLEAN]
      /\ env_link \in [Envs -> Envs \cup {Nil}]
  BY DEF TableInv, TypeOK
<1>c. ASSUME NEW s \in Status, NEW e \in Envs
      PROVE  [env_status EXCEPT ![e] = s] \in [Envs -> Status]
  BY <1>b
<1>d. "FREE" \in Status /\ "NOT_RUNNABLE" \in Status
  BY DEF Status
<1>e. ASSUME AllocFails PROVE RunsInItsMemory' /\ FreeListOK'
  BY <1>e, CrashTable DEF AllocFails
<1>1. CASE Boot
  <2>1. PICK e \in Envs :
           /\ Alloc(e, e * IdSpan, NoEnv, env_nr_thread)
           /\ Schedule(0, Fresh(env_status, e), FreshRuns(e),
                       [env_pgdir EXCEPT ![e] = TRUE])
    BY <1>1 DEF Boot, env_create
  <2>2. Fresh(env_status, e) \in [Envs -> Status] /\ FreshRuns(e) \in [Envs -> Runs]
    BY <1>b, FreshType
  <2>3. \A y \in Envs :
           Fresh(env_status, e)[y] = "FREE" <=> y # e /\ env_status[y] = "FREE"
    BY <1>b DEF Fresh
  <2> QED
    BY <1>1, <2>1, <2>2, <2>3, AllocSchedule, ConstantTypes DEF Boot
<1>2. ASSUME NEW t \in 1 .. SleepMax, SysSleep(t)
      PROVE  RunsInItsMemory' /\ FreeListOK'
  <2> DEFINE st == [env_status EXCEPT ![curenv] = "NOT_RUNNABLE"]
             rn == [env_runs EXCEPT ![curenv] = RunsMod - t]
  <2>1. st \in [Envs -> Status] /\ rn \in [Envs -> Runs]
    BY <1>2, <1>a, <1>b, <1>c, <1>d, ConstantTypes DEF SysSleep
  <2>2. \A y \in Envs : env_pgdir[y] <=> st[y] # "FREE"
    BY <1>2, <1>a, <1>b DEF SysSleep
  <2>3. /\ RunsInItsMemory'
        /\ kernel' = "up" => Free' = {y \in Envs : st[y] = "FREE"}
    BY <1>2, <1>a, <1>b, <2>1, <2>2, ScheduleTable DEF SysSleep
  <2>4. {y \in Envs : st[y] = "FREE"} = Free
    BY <1>2, <1>a, <1>b DEF Free, SysSleep
  <2> QED
    BY <1>2, <2>3, <2>4 DEF SysSleep, InCall, linkVars, TableInv, FreeListOK
<1>3. CASE SysExit
  <2> DEFINE st == [env_status EXCEPT ![curenv] = "FREE"]
             pg == [env_pgdir EXCEPT ![curenv] = FALSE]
  <2>0. curenv \in Envs /\ curenv \notin Free /\ Free \in SUBSET Envs
    BY <1>3, <1>a DEF SysExit, Free
  <2>1. st \in [Envs -> Status] /\ pg \in [Envs -> BOOLEAN]
    BY <1>b, <1>c, <1>d, <2>0
  <2>2. \A y \in Envs : pg[y] <=> st[y] # "FREE"
    BY <1>3, <1>a, <1>b DEF SysExit
  <2>3. /\ RunsInItsMemory'
        /\ kernel' = "up" => Free' = {y \in Envs : st[y] = "FREE"}
    BY <1>3, <1>b, <2>0, <2>1, <2>2, ScheduleTable DEF SysExit, env_free
  <2>4. {y \in Envs : st[y] = "FREE"} = Free \cup {curenv}
    BY <1>b, <2>0 DEF Free
  <2>5. IsList(env_link, env_free_list, Free)
    BY <1>3 DEF SysExit, InCall, TableInv, FreeListOK
  <2>6. IsList(env_link', env_free_list', Free \cup {curenv})
    BY <1>3, <1>b, <2>0, <2>5, ListPush, ConstantTypes DEF SysExit, env_free
  <2> QED
    BY <2>3, <2>4, <2>6 DEF FreeListOK
<1>4. ASSUME NEW t \in 0 .. SleepMax, SysFork(t)
      PROVE  RunsInItsMemory' /\ FreeListOK'
  <2>1. ASSUME NEW e \in Envs,
               Alloc(e, e * IdSpan, env_id[curenv], env_nr_thread), t = 0,
               env_status' = Fresh(env_status, e), UNCHANGED <<curenv, kernel>>
        PROVE  RunsInItsMemory' /\ FreeListOK'
    BY <1>4, <2>1, AllocReturn DEF SysFork
  <2>2. ASSUME NEW e \in Envs,
               Alloc(e, e * IdSpan, env_id[curenv], env_nr_thread), t # 0,
               Schedule(curenv,
                        Fresh([env_status EXCEPT ![curenv] = "NOT_RUNNABLE"], e),
                        [FreshRuns(e) EXCEPT ![curenv] = RunsMod - t],
                        [env_pgdir EXCEPT ![e] = TRUE])
        PROVE  RunsInItsMemory' /\ FreeListOK'
    <3> DEFINE st == Fresh([env_status EXCEPT ![curenv] = "NOT_RUNNABLE"], e)
               rn == [FreshRuns(e) EXCEPT ![curenv] = RunsMod - t]
    <3>1. t \in 1 .. SleepMax
      BY <2>2, ProcessAssumption
    <3>2. RunsMod - t \in Runs
      BY <3>1, ConstantTypes
    <3>3. FreshRuns(e) \in [Envs -> Runs] /\ st \in [Envs -> Status]
      BY <1>4, <1>a, <1>b, <1>c, <1>d, FreshType DEF SysFork
    <3>4. rn \in [Envs -> Runs]
      BY <3>2, <3>3
    <3>5. env_status[e] = "FREE"
      BY <1>4, <1>a, <2>2, AllocTable DEF SysFork
    <3>6. \A y \in Envs : st[y] = "FREE" <=> y # e /\ env_status[y] = "FREE"
      BY <1>4, <1>a, <1>b, <3>5 DEF Fresh, SysFork
    <3> QED
      BY <1>4, <1>a, <2>2, <3>3, <3>4, <3>6, AllocSchedule DEF SysFork
  <2> QED
    BY <1>4, <1>e, <2>1, <2>2 DEF SysFork
<1>5. CASE SysFrun
  <2>1. ASSUME NEW e \in Envs, Alloc(e, e * IdSpan, NoEnv, env_nr_thread),
               Schedule(curenv, Fresh(env_status, e), FreshRuns(e),
                        [env_pgdir EXCEPT ![e] = TRUE])
        PROVE  RunsInItsMemory' /\ FreeListOK'
    <3>1. Fresh(env_status, e) \in [Envs -> Status] /\ FreshRuns(e) \in [Envs -> Runs]
      BY <1>b, FreshType
    <3>2. \A y \in Envs :
             Fresh(env_status, e)[y] = "FREE" <=> y # e /\ env_status[y] = "FREE"
      BY <1>b DEF Fresh
    <3> QED
      BY <1>5, <1>a, <2>1, <3>1, <3>2, AllocSchedule DEF SysFrun
  <2> QED
    BY <1>5, <1>e, <2>1 DEF SysFrun, env_create
<1>6. CASE SysCreateThread
  <2>1. ASSUME NEW e \in Envs, NEW id, NEW nrThread,
               Alloc(e, id, env_id[curenv], nrThread),
               env_status' = Fresh(env_status, e), UNCHANGED <<curenv, kernel>>
        PROVE  RunsInItsMemory' /\ FreeListOK'
    BY <1>6, <2>1, AllocReturn DEF SysCreateThread
  <2>2. ASSUME Crash("no_root") PROVE RunsInItsMemory' /\ FreeListOK'
    BY <2>2, CrashTable
  <2> QED
    BY <1>6, <1>e, <2>1, <2>2 DEF SysCreateThread
<1> QED
  BY <1>1, <1>2, <1>3, <1>4, <1>5, <1>6 DEF ProcNext

\* The list env_init builds goes up through all the slots.
LEMMA InitTable == Init => RunsInItsMemory /\ FreeListOK
<1> SUFFICES ASSUME Init PROVE RunsInItsMemory /\ FreeListOK
  OBVIOUS
<1>1. RunsInItsMemory
  BY DEF Init, RunsInItsMemory
<1>2. Free = Envs
  BY DEF Init, Free
<1>3. IsList(env_link, 0, Envs)
  BY ProcessAssumption, InitialList DEF Init, Envs
<1> QED
  BY <1>1, <1>2, <1>3 DEF Init, FreeListOK

LEMMA TableInvariant == Spec => []TableInv
<1>1. Init => TableInv
  BY InitType, InitTable DEF TableInv
<1>2. TableInv /\ [ProcNext]_procVars => TableInv'
  <2>1. TableInv /\ UNCHANGED procVars => TableInv'
    BY DEF TableInv, TypeOK, RunsInItsMemory, FreeListOK, Free, procVars
  <2> QED
    BY <2>1, ProcStepType, TableStep DEF TableInv
<1> QED
  BY <1>1, <1>2, PTL DEF Spec

\* env_free_list always is the list of the FREE slots, each of them once.
THEOREM FreeListCorrect == Spec => []FreeListOK
BY TableInvariant, PTL DEF TableInv

\* Whoever is resumed has a page directory, unless it is the fallback slot 0.
THEOREM ResumedWithMemory == Spec => []RunsInItsMemory
BY TableInvariant, PTL DEF TableInv
-----------------------------------------------------------------------------
(***************************************************************************)
(* Round robin                                                             *)
(***************************************************************************)

\* A scan comes closer to each runnable slot it does not pick.
LEMMA ScheduleCloser ==
    ASSUME NEW idx \in Envs, NEW st \in [Envs -> Status],
           NEW rn \in [Envs -> Runs], NEW pg \in [Envs -> BOOLEAN],
           Schedule(idx, st, rn, pg),
           NEW e \in Envs \ {0}, st[e] = "RUNNABLE",
           env_status'[e] = "RUNNABLE"
    PROVE  Dist(curenv', e) < Dist(idx, e)
<1>1. /\ curenv' \in Envs /\ Picks(st, idx, curenv')
      /\ env_status'[curenv'] = "RUNNING"
  BY ScheduleEffect
<1>2. curenv' # e /\ curenv' # 0 /\ Dist(idx, curenv') <= Dist(idx, e)
  BY <1>1 DEF Picks
<1>3. \A x, y \in Envs :
         x # y /\ Dist(idx, x) <= Dist(idx, y) => Dist(x, y) < Dist(idx, y)
  BY ProcessAssumption DEF Dist, Envs
<1> QED
  BY <1>1, <1>2, <1>3

\* A runnable environment other than slot 0 is never passed over by a switch
\* that does not bring the scan closer to it: after at most NENV switches it
\* runs, however many environments there are.
THEOREM RoundRobinHolds == Spec => RoundRobin
<1> DEFINE Closer ==
      \A e \in Envs \ {0} :
          /\ curenv # Nil /\ curenv' # curenv
          /\ env_status[e] = "RUNNABLE" /\ env_status'[e] = "RUNNABLE"
          => Dist(curenv', e) < Dist(curenv, e)
<1>1. TableInv /\ [ProcNext]_procVars => [Closer]_procVars
  <2> SUFFICES ASSUME TableInv, ProcNext,
                      NEW e \in Envs \ {0}, curenv # Nil, curenv' # curenv,
                      env_status[e] = "RUNNABLE", env_status'[e] = "RUNNABLE"
               PROVE  Dist(curenv', e) < Dist(curenv, e)
    OBVIOUS
  <2>a. ASSUME InCall PROVE curenv \in Envs /\ curenv # e
    BY <2>a DEF InCall, TableInv, TypeOK, RunsInItsMemory
  <2>b. /\ env_status \in [Envs -> Status] /\ env_runs \in [Envs -> Runs]
        /\ env_pgdir \in [Envs -> BOOLEAN]
    BY DEF TableInv, TypeOK
  <2>c. \A s \in {"FREE", "NOT_RUNNABLE"} :
           [env_status EXCEPT ![curenv] = s] \in [Envs -> Status]
    BY <2>b DEF Status
  <2>d. \A f \in Envs : [env_pgdir EXCEPT ![f] = TRUE] \in [Envs -> BOOLEAN]
    BY <2>b
  <2>1. ASSUME NEW t \in 1 .. SleepMax, SysSleep(t)
        PROVE  Dist(curenv', e) < Dist(curenv, e)
    <3>1. [env_runs EXCEPT ![curenv] = RunsMod - t] \in [Envs -> Runs]
      BY <2>b, ConstantTypes
    <3>2. [env_status EXCEPT ![curenv] = "NOT_RUNNABLE"][e] = "RUNNABLE"
      BY <2>1, <2>a, <2>b DEF SysSleep
    <3> QED
      BY <2>1, <2>a, <2>b, <2>c, <3>1, <3>2, ScheduleCloser DEF SysSleep
  <2>2. CASE SysExit
    <3>1. [env_pgdir EXCEPT ![curenv] = FALSE] \in [Envs -> BOOLEAN]
      BY <2>b
    <3>2. [env_status EXCEPT ![curenv] = "FREE"][e] = "RUNNABLE"
      BY <2>2, <2>a, <2>b DEF SysExit
    <3> QED
      BY <2>2, <2>a, <2>b, <2>c, <3>1, <3>2, ScheduleCloser DEF SysExit
  <2>3. ASSUME NEW t \in 0 .. SleepMax, SysFork(t)
        PROVE  Dist(curenv', e) < Dist(curenv, e)
    <3>1. PICK f \in Envs :
             /\ t # 0
             /\ Schedule(curenv,
                   Fresh([env_status EXCEPT ![curenv] = "NOT_RUNNABLE"], f),
                   [FreshRuns(f) EXCEPT ![curenv] = RunsMod - t],
                   [env_pgdir EXCEPT ![f] = TRUE])
      BY <2>3 DEF SysFork, AllocFails, Crash
    <3> DEFINE st == Fresh([env_status EXCEPT ![curenv] = "NOT_RUNNABLE"], f)
               rn == [FreshRuns(f) EXCEPT ![curenv] = RunsMod - t]
    <3>2. st \in [Envs -> Status] /\ FreshRuns(f) \in [Envs -> Runs]
      BY <2>b, <2>c, FreshType
    <3>3. t \in 1 .. SleepMax
      BY <3>1, ProcessAssumption
    <3>4. RunsMod - t \in Runs
      BY <3>3, ConstantTypes
    <3>5. rn \in [Envs -> Runs]
      BY <3>2, <3>4
    <3>6. st[e] = "RUNNABLE"
      BY <2>3, <2>a, <2>b DEF SysFork, Fresh
    <3> QED
      BY <2>3, <2>a, <2>d, <3>1, <3>2, <3>5, <3>6, ScheduleCloser DEF SysFork
  <2>4. CASE SysFrun
    <3>1. PICK f \in Envs :
             Schedule(curenv, Fresh(env_status, f), FreshRuns(f),
                      [env_pgdir EXCEPT ![f] = TRUE])
      BY <2>4 DEF SysFrun, AllocFails, Crash
    <3>2. /\ Fresh(env_status, f) \in [Envs -> Status]
          /\ FreshRuns(f) \in [Envs -> Runs]
          /\ Fresh(env_status, f)[e] = "RUNNABLE"
      BY <2>b, FreshType DEF Fresh
    <3> QED
      BY <2>4, <2>a, <2>d, <3>1, <3>2, ScheduleCloser DEF SysFrun
  <2>5. ~ Boot
    BY DEF Boot
  <2>6. ~ SysCreateThread
    BY DEF SysCreateThread, AllocFails, Crash
  <2> QED
    BY <2>1, <2>2, <2>3, <2>4, <2>5, <2>6 DEF ProcNext
<1> QED
  BY <1>1, TableInvariant, PTL DEF Spec, RoundRobin
-----------------------------------------------------------------------------
(***************************************************************************)
(* Who is left RUNNING                                                     *)
(***************************************************************************)

\* A switch leaves its caller RUNNING only in the call that loads a program, into a
\* slot that was free; sleep, exit and fork never do.
THEOREM OnlyLoaderLeftRunningHolds == Spec => OnlyLoaderLeftRunning
<1> DEFINE Loads ==
      /\ curenv # Nil /\ curenv' # curenv /\ env_status'[curenv] = "RUNNING"
      => \E e \in Envs \ {curenv} :
             env_status[e] = "FREE" /\ env_parent_id'[e] = NoEnv
<1>1. TableInv /\ [ProcNext]_procVars => [Loads]_procVars
  <2> SUFFICES ASSUME TableInv, ProcNext,
                      curenv # Nil, curenv' # curenv, env_status'[curenv] = "RUNNING"
               PROVE  \E e \in Envs \ {curenv} :
                         env_status[e] = "FREE" /\ env_parent_id'[e] = NoEnv
    OBVIOUS
  <2>a. InCall => curenv \in Envs /\ env_status[curenv] = "RUNNING" /\ kernel = "up"
    BY DEF InCall, TableInv, TypeOK, RunsInItsMemory
  <2>b. /\ env_status \in [Envs -> Status] /\ env_runs \in [Envs -> Runs]
        /\ env_pgdir \in [Envs -> BOOLEAN] /\ env_parent_id \in [Envs -> Int]
    BY DEF TableInv, TypeOK
  <2>c. \A s \in {"FREE", "NOT_RUNNABLE"} :
           [env_status EXCEPT ![curenv] = s] \in [Envs -> Status]
    BY <2>b DEF Status
  <2>d. \A f \in Envs, b \in BOOLEAN : [env_pgdir EXCEPT ![f] = b] \in [Envs -> BOOLEAN]
    BY <2>b
  <2>1. ASSUME NEW t \in 1 .. SleepMax, SysSleep(t) PROVE FALSE
    <3>1. [env_runs EXCEPT ![curenv] = RunsMod - t] \in [Envs -> Runs]
      BY <2>b, ConstantTypes
    <3>2. [env_status EXCEPT ![curenv] = "NOT_RUNNABLE"][curenv] = "NOT_RUNNABLE"
      BY <2>1, <2>a, <2>b DEF SysSleep
    <3> QED
      BY <2>1, <2>a, <2>b, <2>c, <3>1, <3>2, ScheduleEffect DEF SysSleep
  <2>2. CASE SysExit
    <3>1. [env_status EXCEPT ![curenv] = "FREE"][curenv] = "FREE"
      BY <2>2, <2>a, <2>b DEF SysExit
    <3> QED
      BY <2>2, <2>a, <2>b, <2>c, <2>d, <3>1, ScheduleEffect DEF SysExit
  <2>3. ASSUME NEW t \in 0 .. SleepMax, SysFork(t) PROVE FALSE
    <3>1. PICK f \in Envs :
             /\ t # 0
             /\ Alloc(f, f * IdSpan, env_id[curenv], env_nr_thread)
             /\ Schedule(curenv,
                   Fresh([env_status EXCEPT ![curenv] = "NOT_RUNNABLE"], f),
                   [FreshRuns(f) EXCEPT ![curenv] = RunsMod - t],
                   [env_pgdir EXCEPT ![f] = TRUE])
      BY <2>3 DEF SysFork, AllocFails, Crash
    <3> DEFINE st == Fresh([env_status EXCEPT ![curenv] = "NOT_RUNNABLE"], f)
               rn == [FreshRuns(f) EXCEPT ![curenv] = RunsMod - t]
    <3>2. st \in [Envs -> Status] /\ FreshRuns(f) \in [Envs -> Runs]
      BY <2>b, <2>c, FreshType
    <3>3. t \in 1 .. SleepMax
      BY <3>1, ProcessAssumption
    <3>4. RunsMod - t \in Runs
      BY <3>3, ConstantTypes
    <3>5. rn \in [Envs -> Runs]
      BY <3>2, <3>4
    <3>6. env_status[f] = "FREE"
      BY <2>3, <2>a, <3>1, AllocTable DEF SysFork
    <3>7. st[curenv] = "NOT_RUNNABLE"
      BY <2>3, <2>a, <2>b, <3>6 DEF SysFork, Fresh
    <3> DEFINE pg == [env_pgdir EXCEPT ![f] = TRUE]
    <3>8. pg \in [Envs -> BOOLEAN] /\ Schedule(curenv, st, rn, pg)
      BY <2>d, <3>1
    <3> HIDE DEF st, rn, pg
    <3>9. \A y \in Envs \ {curenv'} :
             \/ env_status'[y] = st[y]
             \/ st[y] = "NOT_RUNNABLE" /\ env_status'[y] = "RUNNABLE"
      BY <2>3, <2>a, <3>2, <3>5, <3>8, ScheduleEffect DEF SysFork
    <3> QED
      BY <2>3, <2>a, <3>7, <3>9 DEF SysFork
  <2>4. CASE SysFrun
    <3>1. PICK f \in Envs : Alloc(f, f * IdSpan, NoEnv, env_nr_thread)
      BY <2>4 DEF SysFrun, env_create, AllocFails, Crash
    <3>2. env_status[f] = "FREE" /\ f # curenv
      BY <2>4, <2>a, <3>1, AllocTable DEF SysFrun
    <3>3. env_parent_id'[f] = NoEnv
      BY <2>b, <3>1 DEF Alloc
    <3> QED
      BY <3>2, <3>3
  <2>5. ~ Boot
    BY DEF Boot
  <2>6. ~ SysCreateThread
    BY DEF SysCreateThread, AllocFails, Crash
  <2> QED
    BY <2>1, <2>2, <2>3, <2>4, <2>5, <2>6 DEF ProcNext
<1> QED
  BY <1>1, TableInvariant, PTL DEF Spec, OnlyLoaderLeftRunning
-----------------------------------------------------------------------------
(***************************************************************************)
(* The ids of processes                                                    *)
(***************************************************************************)

\* A set of slots has a lowest one.
LEMMA LowestSlot ==
    ASSUME NEW T \in SUBSET Envs, T # {} PROVE \E e \in T : \A f \in T : e <= f
<1> DEFINE R == OpToRel(<, Nat)
<1>1. T \subseteq Nat
  BY DEF Envs
<1>2. PICK x \in T : \A y \in T : ~ (<<y, x>> \in R)
  BY <1>1, WFMin, NatLessThanWellFounded, Zenon
<1>3. \A y \in T : x \in Nat /\ y \in Nat /\ ~ (y < x)
  BY <1>1, <1>2 DEF OpToRel
<1>4. QED BY <1>3

Live == Envs \ Free

\* envid2env of an id finds a live environment or none.
LEMMA NamedIsLive ==
    ASSUME NEW id, id # NoEnv PROVE envid2env(id) \in Live \cup {Nil}
<1> DEFINE T == {e \in Envs : IsNamed(id, e)}
<1>1. T \subseteq Live
  BY DEF IsNamed, Live, Free
<1>2. CASE id \div IdSpan \in Envs /\ IsNamed(id, id \div IdSpan)
  BY <1>1, <1>2 DEF envid2env
<1>3. CASE ~ (id \div IdSpan \in Envs /\ IsNamed(id, id \div IdSpan)) /\ T # {}
  <2>1. \E e \in Envs : IsNamed(id, e) /\ \A f \in Envs : IsNamed(id, f) => e <= f
    BY <1>3, LowestSlot
  <2>2. (CHOOSE e \in Envs : IsNamed(id, e) /\ \A f \in Envs : IsNamed(id, f) => e <= f) \in T
    BY <2>1
  <2>3. \E e \in Envs : IsNamed(id, e)
    BY <1>3
  <2>4. envid2env(id) = CHOOSE e \in Envs : IsNamed(id, e) /\ \A f \in Envs : IsNamed(id, f) => e <= f
    BY <1>3, <2>3 DEF envid2env
  <2>5. QED BY <1>1, <2>2, <2>4
<1>4. CASE ~ (id \div IdSpan \in Envs /\ IsNamed(id, id \div IdSpan)) /\ T = {}
  BY <1>4 DEF envid2env
<1>5. QED BY <1>2, <1>3, <1>4

\* The root find_thread_root arrives at is live, whatever has become of the
\* environments whose ids it followed.
LEMMA RootIsLive ==
    ASSUME NEW e \in Live PROVE ThreadRoot(e) \in Live \cup {Nil}
<1> DEFINE D == Live \cup {Nil}
           Step(f) == IF f = Nil THEN Nil
                      ELSE IF IsRoot(f) THEN f ELSE envid2env(env_parent_id[f])
           G == [m \in 1 .. NENV |-> [f \in D |-> Step(f)]]
           up == CHOOSE g : g = [n \in 0 .. NENV |->
                                   IF n = 0 THEN e ELSE Step(g[n - 1])]
<1>1. \A f \in D : Step(f) \in D
  BY NamedIsLive DEF IsRoot
<1>2. NENV \in Nat
  BY ProcessAssumption
<1>3. ThreadRoot(e) = up[NENV]
  BY DEF ThreadRoot
<1> HIDE DEF Step
<1>4. /\ G \in [1 .. NENV -> [D -> D]] /\ e \in D
      /\ \A m \in 1 .. NENV, f \in D : G[m][f] = Step(f)
  BY <1>1
<1> HIDE DEF D, G
<1>5. PICK g \in [0 .. NENV -> D] : g[0] = e /\ \A m \in 1 .. NENV : g[m] = G[m][g[m - 1]]
  <2>1. \E g : Repeats(g, NENV, D, G, e)
    BY <1>2, <1>4, Repeated
  <2>2. QED BY <2>1 DEF Repeats
<1>6. \A m \in 0 .. NENV : g[m] = IF m = 0 THEN e ELSE Step(g[m - 1])
  <2>1. \A m \in 1 .. NENV : m - 1 \in 0 .. NENV
    BY <1>2
  <2>2. QED BY <1>4, <1>5, <2>1
<1>7. g = [m \in 0 .. NENV |-> IF m = 0 THEN e ELSE Step(g[m - 1])]
  BY <1>6
<1>8. up = [m \in 0 .. NENV |-> IF m = 0 THEN e ELSE Step(up[m - 1])]
  BY <1>7
<1> HIDE DEF up
<1>9. up[0] = e /\ \A m \in 1 .. NENV : up[m] = Step(up[m - 1])
  BY <1>2, <1>8
<1> DEFINE S == {m \in 0 .. NENV : up[m] \in D}
<1>10. 0 \in S /\ \A m \in 1 .. NENV : m - 1 \in S => m \in S
  BY <1>1, <1>2, <1>4, <1>9
<1> HIDE DEF S
<1>11. NENV \in S
  BY <1>2, <1>10, UpTo
<1>12. QED BY <1>3, <1>11 DEF S, D

\* A slot's id that is that of a process is the slot's own: it is one that
\* env_alloc has given the slot, or a thread would have the number 0.
IdInv ==
    \A e \in Envs : /\ env_pgdir[e] => env_nr_thread[e] >= 1
                    /\ env_id[e] % IdSpan = 0 => env_id[e] = e * IdSpan

LEMMA OwnIds == \A e, f \in Envs : e * IdSpan = f * IdSpan => e = f
<1>1. IdSpan \in Nat /\ IdSpan >= 1
  BY ProcessAssumption
<1>2. ASSUME NEW e \in Envs, NEW f \in Envs, e < f PROVE e * IdSpan < f * IdSpan
  <2>1. e \in Nat /\ f - e \in Nat /\ f - e >= 1 /\ f = e + (f - e)
    BY <1>2 DEF Envs
  <2>2. \A d \in Nat : d >= 1 => (e + d) * IdSpan = e * IdSpan + d * IdSpan /\ d * IdSpan >= 1
    BY <1>1, <2>1
  <2>3. e * IdSpan \in Nat /\ (f - e) * IdSpan \in Nat
    BY <1>1, <2>1
  <2>4. QED BY <2>1, <2>2, <2>3
<1>3. \A e \in Envs : e \in Nat /\ e * IdSpan \in Int
  BY <1>1 DEF Envs
<1>4. QED BY <1>2, <1>3

LEMMA ThreadIds ==
    \A a \in Int, r \in 1 .. IdSpan - 1 : (a - (a % IdSpan) + r) % IdSpan = r
<1> SUFFICES ASSUME NEW a \in Int, NEW r \in 1 .. IdSpan - 1
             PROVE  (a - (a % IdSpan) + r) % IdSpan = r
  OBVIOUS
<1>1. IdSpan \in Nat /\ IdSpan >= 1
  BY ProcessAssumption
<1> DEFINE q == a \div IdSpan
<1>2. q \in Int /\ a = IdSpan * q + (a % IdSpan)
  BY <1>1
<1> HIDE DEF q
<1>3. a % IdSpan \in Int /\ IdSpan * q \in Int
  BY <1>1, <1>2
<1>4. a - (a % IdSpan) + r = IdSpan * q + r
  BY <1>2, <1>3
<1>5. (IdSpan * q + r) % IdSpan = r
  BY <1>1, <1>2
<1>6. QED BY <1>4, <1>5

LEMMA AllocIds ==
    ASSUME TypeOK, IdInv, NEW e \in Envs, NEW id \in Int, NEW parent,
           NEW nrThread \in [Envs -> Nat], \A f \in Envs : nrThread[f] >= env_nr_thread[f],
           Alloc(e, id, parent, nrThread), id % IdSpan = 0 => id = e * IdSpan
    PROVE  IdInv'
<1>1. /\ env_id' = [env_id EXCEPT ![e] = id] /\ env_nr_thread' = [nrThread EXCEPT ![e] = 1]
      /\ env_pgdir' = [env_pgdir EXCEPT ![e] = TRUE]
  BY DEF Alloc
<1> SUFFICES ASSUME NEW f \in Envs
             PROVE  /\ env_pgdir'[f] => env_nr_thread'[f] >= 1
                    /\ env_id'[f] % IdSpan = 0 => env_id'[f] = f * IdSpan
  BY DEF IdInv
<1>2. CASE f = e
  BY <1>1, <1>2 DEF TypeOK
<1>3. CASE f # e
  <2>1. env_id'[f] = env_id[f] /\ env_pgdir'[f] = env_pgdir[f] /\ env_nr_thread'[f] = nrThread[f]
    BY <1>1, <1>3 DEF TypeOK
  <2>2. env_nr_thread[f] \in Nat /\ nrThread[f] \in Nat /\ nrThread[f] >= env_nr_thread[f]
    BY DEF TypeOK
  <2>3. QED BY <2>1, <2>2 DEF IdInv
<1>4. QED BY <1>2, <1>3

LEMMA IdStep ==
    ASSUME MaxNrThread \in 1 .. IdSpan - 1, TableInv, IdInv, ProcNext PROVE IdInv'
<1>a. TypeOK /\ IdSpan \in Nat /\ IdSpan >= 1 /\ NoEnv \in Int
  BY ProcessAssumption DEF TableInv, NoEnv
<1>b. ASSUME NEW e \in Envs, NEW parent, Alloc(e, e * IdSpan, parent, env_nr_thread)
      PROVE  IdInv'
  <2>1. e * IdSpan \in Int
    BY <1>a DEF Envs
  <2>2. env_nr_thread \in [Envs -> Nat] /\ \A f \in Envs : env_nr_thread[f] >= env_nr_thread[f]
    BY <1>a DEF TypeOK
  <2>3. QED BY <1>a, <1>b, <2>1, <2>2, AllocIds
<1>c. ASSUME UNCHANGED idVars, \A e \in Envs : env_pgdir'[e] => env_pgdir[e] PROVE IdInv'
  BY <1>c DEF IdInv, idVars
<1>d. ASSUME NEW r, Crash(r) PROVE IdInv'
  BY <1>c, <1>d DEF Crash
<1>1. CASE Boot
  BY <1>1, <1>b DEF Boot, env_create
<1>2. ASSUME NEW t \in 1 .. SleepMax, SysSleep(t) PROVE IdInv'
  BY <1>2, <1>c DEF SysSleep
<1>3. CASE SysExit
  BY <1>3, <1>a, <1>c DEF SysExit, env_free, TypeOK
<1>4. ASSUME NEW t \in 0 .. SleepMax, SysFork(t) PROVE IdInv'
  BY <1>4, <1>b, <1>d DEF SysFork, AllocFails
<1>5. CASE SysFrun
  BY <1>5, <1>b, <1>d DEF SysFrun, env_create, AllocFails
<1>6. CASE SysCreateThread
  <2> DEFINE root == ThreadRoot(curenv)
             nrThread == [env_nr_thread EXCEPT ![root] = @ + 1]
             id == env_id[curenv] - (env_id[curenv] % IdSpan) + env_nr_thread[root]
  <2>1. CASE root \in Envs /\ env_nr_thread[root] <= MaxNrThread
             /\ \E e \in Envs : Alloc(e, id, env_id[curenv], nrThread)
    <3>1. curenv \in Live
      BY <1>6 DEF SysCreateThread, InCall, TableInv, TypeOK, RunsInItsMemory, Live, Free
    <3>2. root \in Live
      <4>1. root \in Live \cup {Nil}
        BY <3>1, RootIsLive
      <4>2. QED BY <2>1, <4>1, ConstantTypes
    <3>3. env_pgdir[root]
      BY <1>6, <3>2 DEF SysCreateThread, InCall, TableInv, RunsInItsMemory, Live, Free
    <3> HIDE DEF root
    <3>4. env_nr_thread[root] \in 1 .. IdSpan - 1
      BY <1>a, <2>1, <3>3, ProcessAssumption DEF IdInv, TypeOK
    <3>5. env_id[curenv] \in Int
      BY <1>a, <3>1 DEF TypeOK, Live
    <3>6. id % IdSpan = env_nr_thread[root] /\ id \in Int
      <4>1. env_id[curenv] % IdSpan \in Int
        BY <1>a, <3>5
      <4>2. QED BY <3>4, <3>5, <4>1, ThreadIds
    <3>7. id % IdSpan # 0
      BY <3>4, <3>6
    <3> HIDE DEF id
    <3>8. nrThread \in [Envs -> Nat] /\ \A f \in Envs : nrThread[f] >= env_nr_thread[f]
      BY <1>a, <2>1 DEF TypeOK
    <3> HIDE DEF nrThread
    <3>9. PICK e \in Envs : Alloc(e, id, env_id[curenv], nrThread)
      BY <2>1
    <3>10. QED BY <1>a, <3>6, <3>7, <3>8, <3>9, AllocIds
  <2>2. CASE AllocFails \/ Crash("no_root")
    BY <1>d, <2>2 DEF AllocFails
  <2>3. QED BY <1>6, <2>1, <2>2 DEF SysCreateThread
<1>7. QED BY <1>1, <1>2, <1>3, <1>4, <1>5, <1>6 DEF ProcNext

\* No live environment has the id of a live process, however often slots and ids
\* are used again, as long as no process makes more threads than there are numbers
\* between two ids of slots (255, MaxNrThread < IdSpan): the one after is a process
\* by its id.
THEOREM ProcessIdsUniqueHolds ==
    ASSUME MaxNrThread \in 1 .. IdSpan - 1 PROVE Spec => []ProcessIdsUnique
<1>1. Init => IdInv
  <2>1. IdSpan \in Nat /\ IdSpan >= 2
    BY ProcessAssumption
  <2>2. (-1) % IdSpan # 0
    BY <2>1
  <2>3. QED BY <2>2 DEF Init, IdInv
<1>2. TableInv /\ IdInv /\ [ProcNext]_procVars => IdInv'
  <2>1. IdInv /\ UNCHANGED procVars => IdInv'
    BY DEF IdInv, procVars
  <2>2. QED BY <2>1, IdStep
<1>3. IdInv => ProcessIdsUnique
  BY OwnIds DEF IdInv, ProcessIdsUnique
<1>4. QED BY <1>1, <1>2, <1>3, TableInvariant, PTL DEF Spec
-----------------------------------------------------------------------------
(***************************************************************************)
(* The semaphores                                                          *)
(***************************************************************************)

LEMMA SemConstants ==
    /\ 0 \in Sems /\ Nil \notin Sems
    /\ Sems = 0 .. NR_SEM - 1
    /\ 0 \in Vals
    /\ \A v \in Vals : v \in Int
    /\ \A v \in Vals : v < MaxVal => v + 1 \in Vals
    /\ \A v \in Vals : v > 0 => v - 1 \in Vals
BY SemaphoreAssumption DEF Sems, Nil, Vals

-----------------------------------------------------------------------------
(***************************************************************************)
(* Type correctness                                                        *)
(***************************************************************************)

LEMMA BlockType ==
    ASSUME SemTypeOK, InCall, NEW i \in Sems, Block(i)
    PROVE  TypeOK' /\ sem_blocklist' \in [Sems -> Envs \cup {Nil}]
<1> DEFINE st == [env_status EXCEPT ![curenv] = "NOT_RUNNABLE"]
<1>1. curenv \in Envs
  BY DEF InCall, SemTypeOK, TypeOK
<1>2. st \in [Envs -> Status]
  BY DEF SemTypeOK, TypeOK, Status
<1>3. env_status' \in [Envs -> Status] /\ env_runs' \in [Envs -> Runs]
      /\ curenv' \in Envs /\ kernel' \in KernelState
  BY <1>1, <1>2, ScheduleEffect DEF Block, SemTypeOK, TypeOK, KernelState
<1>4. env_link' \in [Envs -> Envs \cup {Nil}]
      /\ sem_blocklist' \in [Sems -> Envs \cup {Nil}]
  BY <1>1 DEF Block, SemTypeOK, TypeOK
<1> QED
  BY <1>3, <1>4 DEF Block, SemTypeOK, TypeOK, idVars

LEMMA WakeType ==
    ASSUME SemTypeOK, NEW i \in Sems, sem_blocklist[i] # Nil, Wake(i)
    PROVE  TypeOK' /\ sem_blocklist' \in [Sems -> Envs \cup {Nil}]
<1>1. sem_blocklist[i] \in Envs
  BY DEF SemTypeOK
<1>2. env_status' \in [Envs -> Status]
  BY DEF Wake, SemTypeOK, TypeOK, Status
<1>3. sem_blocklist' \in [Sems -> Envs \cup {Nil}]
  BY <1>1 DEF Wake, SemTypeOK, TypeOK
<1> QED
  BY <1>2, <1>3 DEF Wake, SemTypeOK, TypeOK, linkVars, idVars

LEMMA SemStepType ==
    ASSUME SemTypeOK, SemStep PROVE SemTypeOK'
<1>0. UNCHANGED procVars => TypeOK'
  BY DEF SemTypeOK, TypeOK, procVars
<1>1. ASSUME NEW n \in Names, NEW v \in Vals, NEW type \in SemType,
             SemInit(n, v, type)
      PROVE  SemTypeOK'
  BY <1>0, <1>1 DEF SemInit, Loses, SemTypeOK
<1>2. ASSUME NEW n \in Names, SemDestroy(n) PROVE SemTypeOK'
  <2>1. PICK i \in Open :
          /\ sem_type' = [sem_type EXCEPT ![i] = "FREE"]
          /\ sem_next' = [sem_next EXCEPT ![i] = sem_free_list]
          /\ sem_free_list' = i
    BY <1>2 DEF SemDestroy
  <2>2. i \in Sems /\ TypeOK'
    BY <1>0, <1>2 DEF SemDestroy, Open
  <2>3. sem_type' \in [Sems -> SemType] /\ sem_next' \in [Sems -> Sems \cup {Nil}]
    BY <2>1, <2>2 DEF SemTypeOK, SemType
  <2> QED
    BY <1>2, <2>1, <2>2, <2>3 DEF SemDestroy, SemTypeOK
<1>3. ASSUME NEW n \in Names, SemWait(n) PROVE SemTypeOK'
  <2>1. PICK i \in Open :
          \/ /\ sem_val[i] > 0
             /\ sem_val' = [sem_val EXCEPT ![i] = @ - 1]
             /\ UNCHANGED sem_blocklist
             /\ UNCHANGED procVars
          \/ /\ ~(sem_val[i] > 0)
             /\ Block(i)
    BY <1>3 DEF SemWait
  <2>2. i \in Sems
    BY DEF Open
  <2>3. UNCHANGED <<sem_name, sem_type, sem_next, sem_free_list, sem_lost>>
    BY <1>3 DEF SemWait
  <2>4. CASE Block(i)
    BY <1>3, <2>2, <2>3, <2>4, BlockType DEF Block, SemTypeOK, SemWait
  <2>5. CASE /\ sem_val[i] > 0
             /\ sem_val' = [sem_val EXCEPT ![i] = @ - 1]
             /\ UNCHANGED sem_blocklist
             /\ UNCHANGED procVars
    <3>1. sem_val' \in [Sems -> Vals]
      BY <2>2, <2>5, SemConstants DEF SemTypeOK
    <3> QED
      BY <1>0, <2>3, <2>5, <3>1 DEF SemTypeOK
  <2> QED
    BY <2>1, <2>4, <2>5
<1>4. ASSUME NEW n \in Names, SemPost(n) PROVE SemTypeOK'
  <2>1. PICK i \in Open :
          \/ /\ sem_val[i] < MaxVal
             /\ sem_val' = [sem_val EXCEPT ![i] = @ + 1]
             /\ UNCHANGED sem_blocklist
             /\ UNCHANGED procVars
          \/ sem_blocklist[i] # Nil /\ Wake(i)
    BY <1>4 DEF SemPost
  <2>2. i \in Sems
    BY DEF Open
  <2>3. UNCHANGED <<sem_name, sem_type, sem_next, sem_free_list, sem_lost>>
    BY <1>4 DEF SemPost
  <2>4. CASE sem_blocklist[i] # Nil /\ Wake(i)
    BY <2>2, <2>3, <2>4, WakeType DEF Wake, SemTypeOK
  <2>5. CASE /\ sem_val[i] < MaxVal
             /\ sem_val' = [sem_val EXCEPT ![i] = @ + 1]
             /\ UNCHANGED sem_blocklist
             /\ UNCHANGED procVars
    <3>1. sem_val' \in [Sems -> Vals]
      BY <2>2, <2>5, SemConstants DEF SemTypeOK
    <3> QED
      BY <1>0, <2>3, <2>5, <3>1 DEF SemTypeOK
  <2> QED
    BY <2>1, <2>4, <2>5
<1> QED
  BY <1>1, <1>2, <1>3, <1>4 DEF SemStep

LEMMA SemInitType == SInit => SemTypeOK
<1> SUFFICES ASSUME SInit PROVE SemTypeOK
  OBVIOUS
<1>1. TypeOK
  BY InitType DEF SInit
<1>2. \A i \in Sems : (IF i = NR_SEM - 1 THEN Nil ELSE i + 1) \in Sems \cup {Nil}
  BY SemaphoreAssumption DEF Sems
<1>3. sem_next \in [Sems -> Sems \cup {Nil}]
  BY <1>2 DEF SInit, SemTableInit
<1> QED
  BY <1>1, <1>3, SemConstants DEF SInit, SemTableInit, SemTypeOK, SemType

LEMMA SemTypeStep == SemTypeOK /\ [SNext]_vars => SemTypeOK'
<1>1. ASSUME SemTypeOK, ProcNext, UNCHANGED semVars PROVE SemTypeOK'
  BY <1>1, ProcStepType DEF SemTypeOK, semVars
<1>2. ASSUME SemTypeOK, UNCHANGED vars PROVE SemTypeOK'
  BY <1>2 DEF SemTypeOK, TypeOK, vars, procVars, semVars
<1> QED
  BY <1>1, <1>2, SemStepType DEF SNext

\* The table of semaphores keeps its types: the links, the free list and the
\* block lists name entries of their tables or nothing, and no value falls below
\* the least one asked for, whoever waits.
THEOREM SemTypeCorrect == SSpec => []SemTypeOK
BY SemInitType, SemTypeStep, PTL DEF SSpec

-----------------------------------------------------------------------------
(***************************************************************************)
(* The units and the table of semaphores                                   *)
(***************************************************************************)

LEMMA NoLostWakeupStep ==
    ASSUME SemTypeOK, NoLostWakeup, SemStep PROVE NoLostWakeup'
<1>1. ASSUME NEW n \in Names, NEW v \in Vals, NEW type \in SemType,
             SemInit(n, v, type)
      PROVE  NoLostWakeup'
  BY <1>1 DEF SemInit, SemTypeOK, NoLostWakeup, Open
<1>2. ASSUME NEW n \in Names, SemDestroy(n) PROVE NoLostWakeup'
  BY <1>2 DEF SemDestroy, SemTypeOK, NoLostWakeup, Open
<1>3. ASSUME NEW n \in Names, SemWait(n) PROVE NoLostWakeup'
  <2>1. PICK i \in Open :
          \/ /\ sem_val[i] > 0
             /\ sem_val' = [sem_val EXCEPT ![i] = @ - 1]
             /\ UNCHANGED sem_blocklist
          \/ /\ ~(sem_val[i] > 0)
             /\ sem_blocklist' = [sem_blocklist EXCEPT ![i] = curenv]
             /\ UNCHANGED sem_val
    BY <1>3 DEF SemWait, Block
  <2> QED
    BY <1>3, <2>1 DEF SemWait, SemTypeOK, NoLostWakeup, Open
<1>4. ASSUME NEW n \in Names, SemPost(n) PROVE NoLostWakeup'
  <2>1. PICK i \in Open :
          \/ /\ sem_val[i] > 0 \/ sem_blocklist[i] = Nil
             /\ sem_val' = [sem_val EXCEPT ![i] = @ + 1]
             /\ UNCHANGED sem_blocklist
          \/ /\ ~(sem_val[i] > 0)
             /\ UNCHANGED sem_val
             /\ \E h \in Envs \cup {Nil} :
                   sem_blocklist' = [sem_blocklist EXCEPT ![i] = h]
    <3>1. PICK i \in Open :
            \/ /\ \/ sem_val[i] > 0 /\ sem_type[i] = "GENERAL"
                  \/ ~(sem_val[i] > 0) /\ sem_blocklist[i] = Nil
               /\ sem_val' = [sem_val EXCEPT ![i] = @ + 1]
               /\ UNCHANGED sem_blocklist
            \/ ~(sem_val[i] > 0) /\ sem_blocklist[i] # Nil /\ Wake(i)
      BY <1>4 DEF SemPost
    <3>2. i \in Sems
      BY DEF Open
    <3>3. CASE ~(sem_val[i] > 0) /\ sem_blocklist[i] # Nil /\ Wake(i)
      <4>1. sem_blocklist[i] \in Envs
        BY <3>2, <3>3 DEF SemTypeOK
      <4>2. env_link[sem_blocklist[i]] \in Envs \cup {Nil}
        BY <4>1 DEF SemTypeOK, TypeOK
      <4> QED
        BY <3>3, <4>2 DEF Wake
    <3> QED
      BY <3>1, <3>3
  <2> QED
    BY <1>4, <2>1 DEF SemPost, SemTypeOK, NoLostWakeup, Open
<1> QED
  BY <1>1, <1>2, <1>3, <1>4 DEF SemStep

\* No semaphore has a unit left while an environment is blocked on it.
THEOREM NoLostWakeupHolds == SSpec => []NoLostWakeup
<1>1. SInit => NoLostWakeup
  BY DEF SInit, SemTableInit, NoLostWakeup, Open
<1>2. SemTypeOK /\ NoLostWakeup /\ [SNext]_vars => NoLostWakeup'
  <2>1. ASSUME NoLostWakeup, UNCHANGED semVars PROVE NoLostWakeup'
    BY <2>1 DEF NoLostWakeup, Open, semVars
  <2> QED
    BY <2>1, NoLostWakeupStep DEF SNext, vars
<1> QED
  BY <1>1, <1>2, SemTypeCorrect, PTL DEF SSpec

\* The semaphores that are on the free list.
OnFreeList == Sems \ (Open \cup sem_lost)

LEMMA SemTableStep ==
    ASSUME SemTypeOK, SemTableOK, SemStep PROVE SemTableOK'
<1>a. /\ OnFreeList \in SUBSET Sems /\ Nil \notin Sems
      /\ IsList(sem_next, sem_free_list, OnFreeList)
      /\ sem_lost \cap Open = {} /\ sem_lost \in SUBSET Sems /\ Open \in SUBSET Sems
  BY SemConstants DEF OnFreeList, SemTableOK, SemTypeOK, Open
<1>1. ASSUME NEW n \in Names, NEW v \in Vals, NEW type \in SemType,
             SemInit(n, v, type)
      PROVE  SemTableOK'
  <2> DEFINE i == sem_free_list
  <2>1. /\ i \in OnFreeList
        /\ IsList(sem_next, sem_next[i], OnFreeList \ {i})
    BY <1>1, <1>a, ListPop DEF SemInit
  <2>2. /\ sem_type' = [sem_type EXCEPT ![i] = type]
        /\ sem_name' = [sem_name EXCEPT ![i] = n]
        /\ sem_next' = sem_next /\ sem_free_list' = sem_next[i]
        /\ sem_lost' = IF type = "FREE" THEN sem_lost \cup {i} ELSE sem_lost
        /\ \A j \in Open : sem_name[j] # n
    BY <1>1 DEF SemInit, Loses
  <2>3. i \in Sems /\ i \notin Open /\ i \notin sem_lost
    BY <2>1 DEF OnFreeList
  <2>4. Open' = IF type = "FREE" THEN Open ELSE Open \cup {i}
    BY <2>2, <2>3 DEF Open, SemTypeOK
  <2>5. OnFreeList' = OnFreeList \ {i} /\ sem_lost' \cap Open' = {}
    BY <1>a, <2>2, <2>3, <2>4 DEF OnFreeList
  <2>6. IsList(sem_next', sem_free_list', OnFreeList')
    BY <2>1, <2>2, <2>5
  <2>7. \A j, k \in Open' : sem_name'[j] = sem_name'[k] => j = k
    <3>1. sem_name \in [Sems -> Names \cup {""}]
      BY DEF SemTypeOK
    <3>2. sem_name'[i] = n /\ \A j \in Open : sem_name'[j] = sem_name[j] /\ j # i
      BY <1>a, <2>2, <2>3, <3>1
    <3>3. \A j, k \in Open : sem_name[j] = sem_name[k] => j = k
      BY DEF SemTableOK
    <3>4. Open' \subseteq Open \cup {i}
      BY <2>4
    <3> HIDE DEF i
    <3> QED
      BY <2>2, <3>2, <3>3, <3>4
  <2> QED
    BY <2>5, <2>6, <2>7 DEF SemTableOK, OnFreeList
<1>2. ASSUME NEW n \in Names, SemDestroy(n) PROVE SemTableOK'
  <2>1. PICK i \in Open :
          /\ sem_type' = [sem_type EXCEPT ![i] = "FREE"]
          /\ sem_next' = [sem_next EXCEPT ![i] = sem_free_list]
          /\ sem_free_list' = i
    BY <1>2 DEF SemDestroy
  <2>2. /\ i \in Sems /\ i \notin OnFreeList /\ i \notin sem_lost
        /\ UNCHANGED <<sem_lost, sem_name>>
    BY <1>2, <1>a DEF OnFreeList, SemDestroy
  <2>3. Open' = Open \ {i}
    BY <2>1, <2>2 DEF Open, SemTypeOK
  <2>4. OnFreeList' = OnFreeList \cup {i}
    BY <2>2, <2>3 DEF OnFreeList
  <2>5. IsList([sem_next EXCEPT ![i] = sem_free_list], i, OnFreeList \cup {i})
    <3>1. sem_next \in [Sems -> Sems \cup {Nil}]
      BY DEF SemTypeOK
    <3> HIDE DEF Sems
    <3> QED
      BY <1>a, <2>2, <3>1, ListPush
  <2>6. IsList(sem_next', sem_free_list', OnFreeList')
    BY <2>1, <2>4, <2>5
  <2>7. /\ sem_lost' \cap Open' = {}
        /\ \A j, k \in Open' : sem_name'[j] = sem_name'[k] => j = k
    BY <1>a, <2>2, <2>3 DEF SemTableOK
  <2> QED
    BY <2>6, <2>7 DEF SemTableOK, OnFreeList
<1>3. ASSUME UNCHANGED <<sem_name, sem_type, sem_next, sem_free_list, sem_lost>>
      PROVE  SemTableOK'
  BY <1>3 DEF SemTableOK, Open, IsList
<1> QED
  BY <1>1, <1>2, <1>3 DEF SemStep, SemWait, SemPost

LEMMA SemTableInitial == SInit => SemTableOK
<1> SUFFICES ASSUME SInit PROVE SemTableOK
  OBVIOUS
<1>1. Open = {} /\ sem_lost = {}
  BY DEF SInit, SemTableInit, Open
<1>2. IsList(sem_next, 0, Sems)
  BY SemaphoreAssumption, InitialList DEF SInit, SemTableInit, Sems
<1> QED
  BY <1>1, <1>2 DEF SInit, SemTableInit, SemTableOK

\* The semaphores that are neither open nor lost are one list, whatever is created
\* and destroyed, those lost to a creation as free stay lost and are the only ones,
\* and a name belongs to one open semaphore.
THEOREM SemTableCorrect == SSpec => []SemTableOK
<1>1. SemTypeOK /\ SemTableOK /\ [SNext]_vars => SemTableOK'
  <2>1. ASSUME SemTableOK, UNCHANGED semVars PROVE SemTableOK'
    BY <2>1 DEF SemTableOK, Open, semVars, IsList
  <2> QED
    BY <2>1, SemTableStep DEF SNext, vars
<1> QED
  BY <1>1, SemTableInitial, SemTypeCorrect, PTL DEF SSpec

-----------------------------------------------------------------------------
(***************************************************************************)
(* The block lists                                                         *)
(*                                                                         *)
(* Two things keep the scheduler from waking a blocked environment by      *)
(* itself, and both are assumed: it counts from an env_runs that is not a  *)
(* sleeper's (~RunsWrap), and the program in slot 0, which the scheduler   *)
(* falls back on whatever its status, does not block (~RootWaits).         *)
(***************************************************************************)

\* Blocked, and the scheduler will leave it so.
Quiet(e) == /\ e # 0
            /\ env_status[e] = "NOT_RUNNABLE"
            /\ env_runs[e] <= AwakeMax

\* Who may run does not count like a sleeper, and so will not if it blocks.
Awake == \A e \in Envs \ {0} :
            env_status[e] \in {"RUNNABLE", "RUNNING"} => env_runs[e] <= AwakeMax

QuietLists(W) == Blocked(W) /\ \A i \in Open : \A e \in W[i] : Quiet(e)

\* BlockListsOK as it is kept from step to step.
ListInv ==
    /\ SemTypeOK /\ TableInv
    /\ kernel = "up" => /\ Awake
                        /\ \E W \in [Sems -> SUBSET Envs] : QuietLists(W)

LEMMA BumpAwake ==
    ASSUME ~RunsWrap
    PROVE  \A r \in Runs : r <= AwakeMax => Bump(r) <= AwakeMax /\ Bump(r) # 0
BY ProcessAssumption DEF Bump, Runs, AwakeMax

LEMMA ScheduleQuiet ==
    ASSUME ~RunsWrap, NEW idx \in Envs, NEW st \in [Envs -> Status],
           NEW rn \in [Envs -> Runs], NEW pg \in [Envs -> BOOLEAN],
           Schedule(idx, st, rn, pg),
           \A e \in Envs \ {0} :
              st[e] \in {"RUNNABLE", "RUNNING"} => rn[e] <= AwakeMax
    PROVE  /\ Awake'
           /\ \A e \in Envs \ {0} :
                 st[e] = "NOT_RUNNABLE" /\ rn[e] <= AwakeMax => Quiet(e)'
<1>1. PICK x \in Envs :
        /\ Picks(st, idx, x)
        /\ LET rn1 == [y \in Envs |-> IF Ticked(st, idx, x, y)
                                      THEN Bump(rn[y]) ELSE rn[y]]
           IN /\ env_runs' = [rn1 EXCEPT ![x] = Bump(@)]
              /\ env_status' = [y \in Envs |->
                    IF y = x THEN "RUNNING"
                    ELSE IF Ticked(st, idx, x, y) /\ rn1[y] = 0
                         THEN "RUNNABLE" ELSE st[y]]
  BY DEF Schedule
<1> DEFINE rn1 == [y \in Envs |-> IF Ticked(st, idx, x, y)
                                 THEN Bump(rn[y]) ELSE rn[y]]
<1>2. /\ x = 0 \/ st[x] = "RUNNABLE"
      /\ 0 <= AwakeMax
  BY <1>1, ProcessAssumption DEF Picks, AwakeMax
<1>3. rn1 \in [Envs -> Runs]
  BY BumpType
<1>4. ASSUME NEW e \in Envs, e # 0, st[e] = "NOT_RUNNABLE", rn[e] <= AwakeMax
      PROVE  Quiet(e)'
  <2>1. e # x
    BY <1>2, <1>4
  <2>2. rn1[e] <= AwakeMax /\ (Ticked(st, idx, x, e) => rn1[e] # 0)
    BY <1>4, BumpAwake
  <2>3. env_runs'[e] = rn1[e] /\ env_status'[e] = "NOT_RUNNABLE"
    BY <1>1, <1>3, <1>4, <2>1, <2>2
  <2> QED
    BY <1>4, <2>2, <2>3 DEF Quiet, AwakeMax
<1>5. ASSUME NEW e \in Envs \ {0}, env_status'[e] \in {"RUNNABLE", "RUNNING"}
      PROVE  env_runs'[e] <= AwakeMax
  <2>1. CASE e = x
    <3>1. st[e] = "RUNNABLE" /\ rn1[e] = rn[e]
      BY <1>2, <2>1 DEF Ticked
    <3>2. env_runs'[e] = Bump(rn[e])
      BY <1>1, <1>3, <2>1, <3>1
    <3> QED
      BY <3>1, <3>2, BumpAwake
  <2>2. CASE e # x /\ Ticked(st, idx, x, e) /\ rn1[e] = 0
    BY <1>1, <1>2, <1>3, <2>2
  <2>3. CASE e # x /\ ~(Ticked(st, idx, x, e) /\ rn1[e] = 0)
    <3>1. env_status'[e] = st[e] /\ env_runs'[e] = rn1[e]
      BY <1>1, <1>3, <2>3
    <3>2. rn1[e] = rn[e]
      BY <1>5, <3>1 DEF Ticked
    <3> QED
      BY <1>5, <3>1, <3>2
  <2> QED
    BY <2>1, <2>2, <2>3
<1> QED
  BY <1>4, <1>5 DEF Awake, AwakeMax

\* A call of the process table leaves the blocked environments to themselves:
\* they stay asleep, and their links are neither allocated nor freed.
LEMMA ProcQuiet ==
    ASSUME ~RunsWrap, TableInv, Awake, ProcNext
    PROVE  kernel' = "up" =>
              /\ Awake'
              /\ \A e \in Envs : Quiet(e) => Quiet(e)' /\ env_link'[e] = env_link[e]
<1>a. /\ env_status \in [Envs -> Status] /\ env_runs \in [Envs -> Runs]
      /\ env_pgdir \in [Envs -> BOOLEAN]
      /\ env_link \in [Envs -> Envs \cup {Nil}]
      /\ 0 <= AwakeMax
  BY ProcessAssumption DEF TableInv, TypeOK, AwakeMax
<1>b. ASSUME InCall
      PROVE  /\ curenv \in Envs /\ kernel = "up"
             /\ env_status[curenv] = "RUNNING"
  BY <1>b DEF InCall, TableInv, TypeOK, RunsInItsMemory
<1>c. ASSUME NEW e \in Envs, NEW pg \in [Envs -> BOOLEAN]
      PROVE  \A v \in BOOLEAN : [pg EXCEPT ![e] = v] \in [Envs -> BOOLEAN]
  OBVIOUS
<1>d. ASSUME NEW s \in Status, NEW e \in Envs
      PROVE  [env_status EXCEPT ![e] = s] \in [Envs -> Status]
  BY <1>a
<1>e. "FREE" \in Status /\ "NOT_RUNNABLE" \in Status
  BY DEF Status
<1>1. CASE Boot
  <2>1. PICK e \in Envs :
           /\ Alloc(e, e * IdSpan, NoEnv, env_nr_thread)
           /\ Schedule(0, Fresh(env_status, e), FreshRuns(e),
                       [env_pgdir EXCEPT ![e] = TRUE])
    BY <1>1 DEF Boot, env_create
  <2>2. env_status[e] = "FREE" /\ env_link' = env_link
    BY <1>1, <2>1, AllocTable DEF Boot, Alloc
  <2>3. /\ Awake'
        /\ \A f \in Envs \ {0} :
              Fresh(env_status, e)[f] = "NOT_RUNNABLE" /\ FreshRuns(e)[f] <= AwakeMax
                 => Quiet(f)'
    <3>1. \A f \in Envs \ {0} : Fresh(env_status, e)[f] \in {"RUNNABLE", "RUNNING"}
              => FreshRuns(e)[f] <= AwakeMax
      BY <1>a DEF Awake, Fresh, FreshRuns
    <3> QED
      BY <1>a, <1>c, <2>1, <3>1, FreshType, ScheduleQuiet, ConstantTypes
  <2> QED
    BY <1>a, <2>2, <2>3 DEF Quiet, Fresh, FreshRuns
<1>2. ASSUME NEW t \in 1 .. SleepMax, SysSleep(t)
      PROVE  Awake' /\ \A e \in Envs : Quiet(e) => Quiet(e)' /\ env_link'[e] = env_link[e]
  <2> DEFINE st == [env_status EXCEPT ![curenv] = "NOT_RUNNABLE"]
             rn == [env_runs EXCEPT ![curenv] = RunsMod - t]
  <2>0. InCall /\ Schedule(curenv, st, rn, env_pgdir) /\ env_link' = env_link
    BY <1>2 DEF SysSleep, linkVars
  <2>1. st \in [Envs -> Status] /\ rn \in [Envs -> Runs]
    BY <1>a, <1>b, <1>d, <1>e, <2>0, ConstantTypes
  <2>2. \A e \in Envs \ {0} : st[e] \in {"RUNNABLE", "RUNNING"} => rn[e] <= AwakeMax
    BY <1>a, <1>b, <2>0 DEF Awake
  <2>3. /\ Awake'
        /\ \A f \in Envs \ {0} :
              st[f] = "NOT_RUNNABLE" /\ rn[f] <= AwakeMax => Quiet(f)'
    <3> HIDE DEF st, rn
    <3> QED
      BY <1>a, <1>b, <2>0, <2>1, <2>2, ScheduleQuiet
  <2> QED
    BY <1>a, <1>b, <2>0, <2>3 DEF Quiet
<1>3. ASSUME SysExit
      PROVE  Awake' /\ \A e \in Envs : Quiet(e) => Quiet(e)' /\ env_link'[e] = env_link[e]
  <2> DEFINE st == [env_status EXCEPT ![curenv] = "FREE"]
             pg == [env_pgdir EXCEPT ![curenv] = FALSE]
  <2>0. /\ InCall /\ Schedule(curenv, st, env_runs, pg)
        /\ env_link' = [env_link EXCEPT ![curenv] = env_free_list]
    BY <1>3 DEF SysExit, env_free
  <2>1. st \in [Envs -> Status] /\ pg \in [Envs -> BOOLEAN]
    BY <1>a, <1>b, <1>c, <1>d, <1>e, <2>0
  <2>2. \A e \in Envs \ {0} :
           st[e] \in {"RUNNABLE", "RUNNING"} => env_runs[e] <= AwakeMax
    BY <1>a, <1>b, <2>0 DEF Awake
  <2>3. /\ Awake'
        /\ \A f \in Envs \ {0} :
              st[f] = "NOT_RUNNABLE" /\ env_runs[f] <= AwakeMax => Quiet(f)'
    <3> HIDE DEF st, pg
    <3> QED
      BY <1>a, <1>b, <2>0, <2>1, <2>2, ScheduleQuiet
  <2> QED
    BY <1>a, <1>b, <2>0, <2>3 DEF Quiet
<1>4. ASSUME InCall, NEW e \in Envs, NEW id, NEW parent, NEW nrThread,
             Alloc(e, id, parent, nrThread),
             env_status' = Fresh(env_status, e), env_runs' = FreshRuns(e)
      PROVE  Awake' /\ \A f \in Envs : Quiet(f) => Quiet(f)' /\ env_link'[f] = env_link[f]
  <2>1. env_status[e] = "FREE" /\ env_link' = env_link
    BY <1>b, <1>4, AllocTable DEF Alloc
  <2>2. /\ \A f \in Envs \ {e} : env_status'[f] = env_status[f]
                              /\ env_runs'[f] = env_runs[f]
        /\ env_runs'[e] = 0
    BY <1>a, <1>4 DEF Fresh, FreshRuns
  <2> QED
    BY <1>a, <2>1, <2>2 DEF Awake, Quiet, AwakeMax
<1>5. ASSUME NEW t \in 0 .. SleepMax, SysFork(t), kernel' = "up"
      PROVE  Awake' /\ \A e \in Envs : Quiet(e) => Quiet(e)' /\ env_link'[e] = env_link[e]
  <2>1. PICK e \in Envs :
           /\ Alloc(e, e * IdSpan, env_id[curenv], env_nr_thread)
           /\ IF t = 0
              THEN /\ env_status' = Fresh(env_status, e)
                   /\ env_runs' = FreshRuns(e)
                   /\ UNCHANGED <<curenv, kernel>>
              ELSE Schedule(curenv,
                      Fresh([env_status EXCEPT ![curenv] = "NOT_RUNNABLE"], e),
                      [FreshRuns(e) EXCEPT ![curenv] = RunsMod - t],
                      [env_pgdir EXCEPT ![e] = TRUE])
    BY <1>5 DEF SysFork, AllocFails, Crash
  <2>2. InCall
    BY <1>5 DEF SysFork
  <2>3. CASE t = 0
    BY <1>4, <2>1, <2>2, <2>3
  <2>4. CASE t # 0
    <3> DEFINE st == Fresh([env_status EXCEPT ![curenv] = "NOT_RUNNABLE"], e)
               rn == [FreshRuns(e) EXCEPT ![curenv] = RunsMod - t]
               pg == [env_pgdir EXCEPT ![e] = TRUE]
    <3>1. /\ Schedule(curenv, st, rn, pg) /\ env_link' = env_link
          /\ env_status[e] = "FREE"
      BY <1>b, <2>1, <2>2, <2>4, AllocTable DEF Alloc
    <3>2. t \in 1 .. SleepMax
      BY <2>4, ProcessAssumption
    <3>3. /\ st \in [Envs -> Status] /\ FreshRuns(e) \in [Envs -> Runs]
          /\ pg \in [Envs -> BOOLEAN]
      BY <1>a, <1>b, <1>c, <1>d, <1>e, <2>2, FreshType
    <3>4. rn \in [Envs -> Runs]
      BY <3>2, <3>3, ConstantTypes
    <3>5. e # curenv
      BY <1>b, <2>2, <3>1
    <3>6. \A f \in Envs \ {e, curenv} : st[f] = env_status[f] /\ rn[f] = env_runs[f]
      BY <1>a, <1>b, <2>2 DEF Fresh, FreshRuns
    <3>7. rn[e] = 0 /\ st[curenv] = "NOT_RUNNABLE"
      BY <1>a, <1>b, <2>2, <3>5 DEF Fresh, FreshRuns
    <3>8. \A f \in Envs \ {0} : st[f] \in {"RUNNABLE", "RUNNING"} => rn[f] <= AwakeMax
      <4> HIDE DEF st, rn
      <4> QED
        BY <1>a, <3>6, <3>7 DEF Awake
    <3>9. /\ Awake'
          /\ \A f \in Envs \ {0} :
                st[f] = "NOT_RUNNABLE" /\ rn[f] <= AwakeMax => Quiet(f)'
      <4> HIDE DEF st, rn, pg
      <4> QED
        BY <1>b, <2>2, <3>1, <3>3, <3>4, <3>8, ScheduleQuiet
    <3> HIDE DEF st, rn
    <3> QED
      BY <1>b, <2>2, <3>1, <3>6, <3>9 DEF Quiet
  <2> QED
    BY <2>3, <2>4
<1>6. ASSUME SysFrun, kernel' = "up"
      PROVE  Awake' /\ \A e \in Envs : Quiet(e) => Quiet(e)' /\ env_link'[e] = env_link[e]
  <2>1. PICK e \in Envs :
           /\ Alloc(e, e * IdSpan, NoEnv, env_nr_thread)
           /\ Schedule(curenv, Fresh(env_status, e), FreshRuns(e),
                       [env_pgdir EXCEPT ![e] = TRUE])
    BY <1>6 DEF SysFrun, env_create, AllocFails, Crash
  <2>2. InCall
    BY <1>6 DEF SysFrun
  <2>3. env_status[e] = "FREE" /\ env_link' = env_link
    BY <1>b, <2>1, <2>2, AllocTable DEF Alloc
  <2>4. /\ Awake'
        /\ \A f \in Envs \ {0} :
              Fresh(env_status, e)[f] = "NOT_RUNNABLE" /\ FreshRuns(e)[f] <= AwakeMax
                 => Quiet(f)'
    <3>1. \A f \in Envs \ {0} : Fresh(env_status, e)[f] \in {"RUNNABLE", "RUNNING"}
              => FreshRuns(e)[f] <= AwakeMax
      BY <1>a DEF Awake, Fresh, FreshRuns
    <3> QED
      BY <1>a, <1>b, <1>c, <2>1, <2>2, <3>1, FreshType, ScheduleQuiet
  <2> QED
    BY <1>a, <2>3, <2>4 DEF Quiet, Fresh, FreshRuns
<1>7. ASSUME SysCreateThread, kernel' = "up"
      PROVE  Awake' /\ \A e \in Envs : Quiet(e) => Quiet(e)' /\ env_link'[e] = env_link[e]
  <2>1. PICK root \in Envs, e \in Envs :
           /\ Alloc(e,
                    env_id[curenv] - (env_id[curenv] % IdSpan)
                        + env_nr_thread[root],
                    env_id[curenv],
                    [env_nr_thread EXCEPT ![root] = @ + 1])
           /\ env_status' = Fresh(env_status, e)
           /\ env_runs' = FreshRuns(e)
    BY <1>7 DEF SysCreateThread, AllocFails, Crash
  <2>2. InCall
    BY <1>7 DEF SysCreateThread
  <2> QED
    BY <1>4, <2>1, <2>2
<1> QED
  BY <1>1, <1>2, <1>3, <1>5, <1>6, <1>7 DEF ProcNext

\* Block: the current environment goes in front of the list of i.
LEMMA BlockLists ==
    ASSUME ~RunsWrap, ~RootWaits, ListInv, InCall, NEW i \in Open, Block(i),
           UNCHANGED sem_type
    PROVE  /\ RunsInItsMemory' /\ FreeListOK'
           /\ kernel' = "up" => /\ Awake'
                                /\ \E W \in [Sems -> SUBSET Envs] : QuietLists(W)'
<1>0. PICK c \in Envs : c = curenv
  BY DEF ListInv, SemTypeOK, TypeOK, InCall
<1> DEFINE st == [env_status EXCEPT ![c] = "NOT_RUNNABLE"]
<1>1. /\ c # 0 /\ kernel = "up"
      /\ env_status[c] = "RUNNING"
      /\ \A y \in Envs : env_pgdir[y] <=> env_status[y] # "FREE"
      /\ Awake
  BY <1>0 DEF ListInv, TableInv, TypeOK, RunsInItsMemory, InCall, Block
<1>2. /\ env_status \in [Envs -> Status] /\ env_runs \in [Envs -> Runs]
      /\ env_pgdir \in [Envs -> BOOLEAN]
      /\ env_link \in [Envs -> Envs \cup {Nil}]
      /\ sem_blocklist \in [Sems -> Envs \cup {Nil}]
  BY DEF ListInv, SemTypeOK, TypeOK
<1>3. /\ Schedule(c, st, env_runs, env_pgdir)
      /\ env_link' = [env_link EXCEPT ![c] = sem_blocklist[i]]
      /\ sem_blocklist' = [sem_blocklist EXCEPT ![i] = c]
      /\ UNCHANGED <<env_pgdir, env_free_list>>
  BY <1>0 DEF Block
<1>4. st \in [Envs -> Status]
  BY <1>1, <1>2 DEF Status
<1>5. \A y \in Envs : env_pgdir[y] <=> st[y] # "FREE"
  BY <1>1, <1>2
<1>6. /\ RunsInItsMemory'
      /\ kernel' = "up" => Free' = Free
  <2>1. /\ RunsInItsMemory'
        /\ kernel' = "up" => Free' = {y \in Envs : st[y] = "FREE"}
    <3> HIDE DEF st
    <3> QED
      BY <1>1, <1>2, <1>3, <1>4, <1>5, ScheduleTable
  <2>2. {y \in Envs : st[y] = "FREE"} = Free
    BY <1>1, <1>2 DEF Free
  <2> QED
    BY <2>1, <2>2
<1>7. FreeListOK'
  <2>1. IsList(env_link, env_free_list, Free) /\ c \notin Free
    BY <1>1 DEF ListInv, TableInv, FreeListOK, Free
  <2>2. \A e \in Free : env_link'[e] = env_link[e]
    BY <1>2, <1>3, <2>1 DEF Free
  <2>3. IsList(env_link', env_free_list, Free)
    BY <2>1, <2>2, ListFrame
  <2> QED
    BY <1>3, <1>6, <2>3 DEF FreeListOK
<1>8. /\ Awake'
      /\ \A e \in Envs : Quiet(e) => Quiet(e)'
      /\ Quiet(c)'
  <2>1. \A e \in Envs \ {0} :
           st[e] \in {"RUNNABLE", "RUNNING"} => env_runs[e] <= AwakeMax
    BY <1>1, <1>2 DEF Awake
  <2>2. /\ Awake'
        /\ \A e \in Envs \ {0} :
              st[e] = "NOT_RUNNABLE" /\ env_runs[e] <= AwakeMax => Quiet(e)'
    <3> HIDE DEF st
    <3> QED
      BY <1>1, <1>2, <1>3, <1>4, <2>1, ScheduleQuiet
  <2>3. env_runs[c] <= AwakeMax
    BY <1>1 DEF Awake
  <2> QED
    BY <1>1, <1>2, <2>2, <2>3 DEF Quiet
<1>9. \E W \in [Sems -> SUBSET Envs] : QuietLists(W)'
  <2>1. PICK W \in [Sems -> SUBSET Envs] : QuietLists(W)
    BY <1>1 DEF ListInv
  <2> DEFINE V == [W EXCEPT ![i] = @ \cup {c}]
  <2>2. i \in Sems /\ Open \in SUBSET Sems /\ Open' = Open
    BY DEF Open
  <2>3. V \in [Sems -> SUBSET Envs]
    BY <1>1, <2>2
  <2>4. \A j \in Open : c \notin W[j]
    BY <1>1, <2>1 DEF QuietLists, Blocked
  <2>5. \A j \in Open : IsList(env_link', sem_blocklist'[j], V[j])
    <3>1. ASSUME NEW j \in Open, j # i
          PROVE  IsList(env_link', sem_blocklist'[j], V[j])
      <4>1. IsList(env_link, sem_blocklist[j], W[j])
        BY <2>1 DEF QuietLists, Blocked
      <4>2. \A e \in W[j] : env_link'[e] = env_link[e]
        BY <1>2, <1>3, <2>2, <2>4
      <4>3. IsList(env_link', sem_blocklist[j], W[j])
        BY <4>1, <4>2, ListFrame
      <4> QED
        BY <1>2, <1>3, <2>2, <3>1, <4>3
    <3>2. IsList(env_link', sem_blocklist'[i], V[i])
      <4>1. IsList(env_link, sem_blocklist[i], W[i]) /\ W[i] \in SUBSET Envs
        BY <2>1, <2>2 DEF QuietLists, Blocked
      <4>2. IsList([env_link EXCEPT ![c] = sem_blocklist[i]], c, W[i] \cup {c})
        BY <1>1, <1>2, <2>4, <4>1, ListPush, ConstantTypes
      <4> QED
        BY <1>2, <1>3, <2>2, <4>2
    <3> QED
      BY <3>1, <3>2
  <2>6. \A j \in Open : \A e \in V[j] : Quiet(e)'
    BY <1>8, <2>1, <2>2 DEF QuietLists
  <2>7. \A j, k \in Open : j # k => V[j] \cap V[k] = {}
    BY <2>1, <2>2, <2>4 DEF QuietLists, Blocked
  <2>8. QuietLists(V)'
    BY <2>2, <2>5, <2>6, <2>7 DEF QuietLists, Blocked, Quiet
  <2> QED
    BY <2>3, <2>8
<1> QED
  BY <1>6, <1>7, <1>8, <1>9

\* Wake: the environment in front of the list of i leaves it.
LEMMA WakeLists ==
    ASSUME ListInv, InCall, NEW i \in Open, sem_blocklist[i] # Nil, Wake(i),
           UNCHANGED sem_type
    PROVE  /\ RunsInItsMemory' /\ FreeListOK'
           /\ Awake' /\ \E W \in [Sems -> SUBSET Envs] : QuietLists(W)'
<1>1. PICK W \in [Sems -> SUBSET Envs] : QuietLists(W)
  BY DEF ListInv, InCall
<1>2. i \in Sems /\ Open \in SUBSET Sems /\ Open' = Open
  BY DEF Open
<1>3. PICK e \in W[i] : e = sem_blocklist[i]
  BY <1>1 DEF QuietLists, Blocked, IsList
<1>4. /\ e \in Envs /\ Quiet(e)
      /\ IsList(env_link, env_link[e], W[i] \ {e})
  BY <1>1, <1>2, <1>3, ListPop DEF QuietLists, Blocked
<1>5. /\ env_status \in [Envs -> Status] /\ env_runs \in [Envs -> Runs]
      /\ sem_blocklist \in [Sems -> Envs \cup {Nil}]
  BY DEF ListInv, SemTypeOK, TypeOK
<1>6. /\ env_status' = [env_status EXCEPT ![e] = "RUNNABLE"]
      /\ sem_blocklist' = [sem_blocklist EXCEPT ![i] = env_link[e]]
      /\ UNCHANGED <<env_runs, env_pgdir, curenv, kernel, env_link, env_free_list>>
  BY <1>3 DEF Wake, linkVars
<1>7. Free' = Free
  BY <1>4, <1>5, <1>6 DEF Free, Quiet
<1>8. FreeListOK'
  BY <1>6, <1>7 DEF ListInv, TableInv, FreeListOK
<1>9. RunsInItsMemory'
  BY <1>4, <1>5, <1>6 DEF ListInv, TableInv, TypeOK, RunsInItsMemory, Quiet, InCall
<1>10. Awake'
  <2>1. Awake
    BY DEF ListInv, InCall
  <2> QED
    BY <1>4, <1>5, <1>6, <2>1 DEF Awake, Quiet, AwakeMax
<1> DEFINE V == [W EXCEPT ![i] = @ \ {e}]
<1>11. V \in [Sems -> SUBSET Envs]
  BY <1>2
<1>12. \A j \in Open : IsList(env_link', sem_blocklist'[j], V[j])
  BY <1>1, <1>2, <1>4, <1>5, <1>6 DEF QuietLists, Blocked
<1>13. \A j \in Open : \A f \in V[j] : f # e /\ f \in Envs /\ Quiet(f)
  BY <1>1, <1>2, <1>3 DEF QuietLists, Blocked
<1>14. \A j \in Open : \A f \in V[j] : Quiet(f)'
  BY <1>5, <1>6, <1>13 DEF Quiet, AwakeMax
<1>15. \A j, k \in Open : j # k => V[j] \cap V[k] = {}
  BY <1>1, <1>2 DEF QuietLists, Blocked
<1>16. QuietLists(V)'
  BY <1>2, <1>12, <1>14, <1>15 DEF QuietLists, Blocked, Quiet
<1> QED
  BY <1>8, <1>9, <1>10, <1>11, <1>16

LEMMA SemStepLists ==
    ASSUME ~RunsWrap, ~RootWaits, ListInv, SemStep PROVE ListInv'
<1>a. SemTypeOK'
  BY SemStepType DEF ListInv
<1>b. ASSUME UNCHANGED procVars, NEW W \in [Sems -> SUBSET Envs], QuietLists(W),
             kernel = "up", Awake,
             NEW V \in [Sems -> SUBSET Envs],
             \A j \in Open' : \/ V[j] = {} /\ sem_blocklist'[j] = Nil
                              \/ /\ j \in Open /\ V[j] = W[j]
                                 /\ sem_blocklist'[j] = sem_blocklist[j]
      PROVE  ListInv'
  <2>1. TableInv' /\ Awake'
    BY <1>b DEF ListInv, TableInv, TypeOK, RunsInItsMemory, FreeListOK, Free,
                Awake, IsList, procVars
  <2>2. \A j \in Open' : IsList(env_link', sem_blocklist'[j], V[j])
    <3>1. IsList(env_link, Nil, {})
      BY DEF IsList
    <3> QED
      BY <1>b, <3>1 DEF QuietLists, Blocked, procVars
  <2>3. \A j \in Open' : \A e \in V[j] : Quiet(e)'
    BY <1>b DEF QuietLists, Quiet, procVars
  <2>4. \A j, k \in Open' : j # k => V[j] \cap V[k] = {}
    BY <1>b DEF QuietLists, Blocked
  <2>5. QuietLists(V)'
    BY <2>2, <2>3, <2>4 DEF QuietLists, Blocked, Quiet
  <2> QED
    BY <1>a, <1>b, <2>1, <2>5 DEF ListInv
<1>c. ASSUME InCall
      PROVE  kernel = "up" /\ Awake /\ \E W \in [Sems -> SUBSET Envs] : QuietLists(W)
  BY <1>c DEF InCall, ListInv
<1>1. ASSUME NEW n \in Names, NEW v \in Vals, NEW type \in SemType,
             SemInit(n, v, type)
      PROVE  ListInv'
  <2>1. PICK W \in [Sems -> SUBSET Envs] : QuietLists(W)
    BY <1>1, <1>c DEF SemInit
  <2>2. PICK i \in Sems : i = sem_free_list
    BY <1>1 DEF SemInit, ListInv, SemTypeOK
  <2> DEFINE V == [W EXCEPT ![i] = {}]
  <2>3. V \in [Sems -> SUBSET Envs]
    OBVIOUS
  <2>4. \A j \in Open' : \/ V[j] = {} /\ sem_blocklist'[j] = Nil
                         \/ /\ j \in Open /\ V[j] = W[j]
                            /\ sem_blocklist'[j] = sem_blocklist[j]
    BY <1>1, <2>2 DEF SemInit, ListInv, SemTypeOK, Open
  <2>5. kernel = "up" /\ Awake /\ UNCHANGED procVars
    BY <1>1, <1>c DEF SemInit
  <2> HIDE DEF V
  <2> QED
    BY <1>b, <2>1, <2>3, <2>4, <2>5
<1>2. ASSUME UNCHANGED procVars, UNCHANGED sem_blocklist, Open' \subseteq Open, InCall
      PROVE  ListInv'
  <2>1. PICK W \in [Sems -> SUBSET Envs] : QuietLists(W)
    BY <1>2, <1>c
  <2>2. kernel = "up" /\ Awake
    BY <1>2, <1>c
  <2> QED
    BY <1>2, <1>b, <2>1, <2>2
<1>3. ASSUME NEW n \in Names, SemDestroy(n) PROVE ListInv'
  <2>1. Open' \subseteq Open
    BY <1>3 DEF SemDestroy, ListInv, SemTypeOK, Open
  <2> QED
    BY <1>2, <1>3, <2>1 DEF SemDestroy
<1>4. ASSUME NEW n \in Names, SemWait(n) PROVE ListInv'
  <2>1. PICK i \in Open : \/ UNCHANGED sem_blocklist /\ UNCHANGED procVars
                          \/ Block(i)
    BY <1>4 DEF SemWait
  <2>2. InCall /\ UNCHANGED sem_type /\ Open' \subseteq Open
    BY <1>4 DEF SemWait, Open
  <2>3. CASE Block(i)
    BY <1>a, <2>2, <2>3, BlockLists DEF ListInv, TableInv, SemTypeOK
  <2> QED
    BY <1>2, <2>1, <2>2, <2>3
<1>5. ASSUME NEW n \in Names, SemPost(n) PROVE ListInv'
  <2>1. PICK i \in Open : \/ UNCHANGED sem_blocklist /\ UNCHANGED procVars
                          \/ sem_blocklist[i] # Nil /\ Wake(i)
    BY <1>5 DEF SemPost
  <2>2. InCall /\ UNCHANGED sem_type /\ Open' \subseteq Open
    BY <1>5 DEF SemPost, Open
  <2>3. CASE sem_blocklist[i] # Nil /\ Wake(i)
    BY <1>a, <2>2, <2>3, WakeLists DEF ListInv, TableInv, SemTypeOK
  <2> QED
    BY <1>2, <2>1, <2>2, <2>3
<1> QED
  BY <1>1, <1>3, <1>4, <1>5 DEF SemStep

LEMMA ProcStepLists ==
    ASSUME ~RunsWrap, ListInv, ProcNext, UNCHANGED semVars PROVE ListInv'
<1>1. TableInv' /\ SemTypeOK'
  BY TableStep, ProcStepType DEF ListInv, TableInv, SemTypeOK, semVars
<1>2. kernel = "up"
  BY DEF ProcNext, Boot, SysSleep, SysExit, SysFork, SysFrun, SysCreateThread, InCall
<1>3. kernel' = "up" =>
         /\ Awake'
         /\ \A e \in Envs : Quiet(e) => Quiet(e)' /\ env_link'[e] = env_link[e]
  BY <1>2, ProcQuiet DEF ListInv
<1>4. PICK W \in [Sems -> SUBSET Envs] : QuietLists(W)
  BY <1>2 DEF ListInv
<1>5. Open' = Open /\ Open \in SUBSET Sems /\ UNCHANGED sem_blocklist
  BY DEF Open, semVars
<1>6. ASSUME kernel' = "up" PROVE QuietLists(W)'
  <2>1. \A j \in Open : \A e \in W[j] : Quiet(e)' /\ env_link'[e] = env_link[e]
    BY <1>3, <1>4, <1>5, <1>6 DEF QuietLists
  <2>2. \A j \in Open : IsList(env_link', sem_blocklist[j], W[j])
    BY <1>4, <2>1, ListFrame DEF QuietLists, Blocked
  <2> QED
    BY <1>4, <1>5, <2>1, <2>2 DEF QuietLists, Blocked, Quiet
<1> QED
  BY <1>1, <1>3, <1>6 DEF ListInv

LEMMA ListInitial == SInit => ListInv
<1> SUFFICES ASSUME SInit PROVE ListInv
  OBVIOUS
<1>1. SemTypeOK /\ TableInv
  BY SemInitType, InitType, InitTable DEF SInit, TableInv
<1>2. Open = {} /\ Awake
  BY DEF SInit, SemTableInit, Init, Open, Awake
<1>3. QuietLists([i \in Sems |-> {}])
  BY <1>2 DEF QuietLists, Blocked
<1>4. [i \in Sems |-> {}] \in [Sems -> SUBSET Envs]
  OBVIOUS
<1> QED
  BY <1>1, <1>2, <1>3, <1>4 DEF ListInv

LEMMA ListInvariant ==
    ASSUME ~RunsWrap, ~RootWaits PROVE SSpec => []ListInv
<1>1. ListInv /\ [SNext]_vars => ListInv'
  <2>1. ASSUME ListInv, UNCHANGED vars PROVE ListInv'
    <3>1. SemTypeOK' /\ TableInv'
      <4>1. SemTypeOK'
        BY <2>1, SemTypeStep DEF ListInv
      <4>2. UNCHANGED procVars
        BY <2>1 DEF vars
      <4>3. TypeOK'
        BY <4>1 DEF SemTypeOK
      <4>4. RunsInItsMemory' /\ FreeListOK'
        BY <2>1, <4>2 DEF ListInv, TableInv, RunsInItsMemory, FreeListOK, Free,
                          IsList, procVars
      <4>5. QED BY <4>1, <4>3, <4>4 DEF TableInv
    <3>2. ASSUME NEW W, QuietLists(W) PROVE QuietLists(W)'
      BY <2>1, <3>2 DEF QuietLists, Blocked, Quiet, Open, IsList,
                        vars, procVars, semVars
    <3>3. Awake => Awake'
      BY <2>1 DEF Awake, vars, procVars
    <3>4. kernel' = kernel
      BY <2>1 DEF vars, procVars
    <3> QED
      BY <2>1, <3>1, <3>2, <3>3, <3>4 DEF ListInv
  <2> QED
    BY <2>1, ProcStepLists, SemStepLists DEF SNext
<1>2. QED BY <1>1, ListInitial, PTL DEF SSpec

\* The lists of blocked environments stay lists, apart from each other and from
\* the free list they share env_link with, and all on them stay blocked, as
\* long as no counter passes the values of a sleeper and slot 0 does not block.
THEOREM BlockListsCorrect ==
    ASSUME ~RunsWrap, ~RootWaits
    PROVE  SSpec => []BlockListsOK
<1>1. ListInv => BlockListsOK
  BY DEF ListInv, QuietLists, BlockListsOK
<1>2. SSpec => []ListInv
  BY ListInvariant
<1>3. QED BY <1>1, <1>2, PTL
-----------------------------------------------------------------------------
(***************************************************************************)
(* Waiting follows a block list along env_link: what it finds is the       *)
(* list's entries.                                                         *)
(***************************************************************************)

\* Waiting(i) is the list of i.
LEMMA WaitingIsList ==
    \A i \in Sems, S \in SUBSET Envs :
        IsList(env_link, sem_blocklist[i], S) => Waiting(i) = S
<1> SUFFICES ASSUME NEW i \in Sems, NEW S \in SUBSET Envs,
                    IsList(env_link, sem_blocklist[i], S)
             PROVE  Waiting(i) = S
  OBVIOUS
<1> DEFINE D == S \cup {Nil}
           G == [m \in 1 .. NENV |-> [f \in D |-> IF f = Nil THEN Nil ELSE env_link[f]]]
           hop == CHOOSE g : g = [k \in 0 .. NENV |->
                     IF k = 0 THEN sem_blocklist[i]
                     ELSE IF g[k - 1] = Nil THEN Nil ELSE env_link[g[k - 1]]]
<1>1. NENV \in Nat
  BY ProcessAssumption
<1>2. Waiting(i) = {hop[k] : k \in 0 .. NENV} \ {Nil}
  BY DEF Waiting
<1>3. /\ G \in [1 .. NENV -> [D -> D]] /\ sem_blocklist[i] \in D
      /\ \A m \in 1 .. NENV, f \in D : G[m][f] = IF f = Nil THEN Nil ELSE env_link[f]
  BY DEF IsList
<1> HIDE DEF D, G
<1>4. PICK g : Repeats(g, NENV, D, G, sem_blocklist[i])
  BY <1>1, <1>3, Repeated
<1>5. g \in [0 .. NENV -> D] /\ \A k \in 0 .. NENV : g[k] =
          IF k = 0 THEN sem_blocklist[i]
          ELSE IF g[k - 1] = Nil THEN Nil ELSE env_link[g[k - 1]]
  <2>1. \A k \in 1 .. NENV : k - 1 \in 0 .. NENV
    BY <1>1
  <2>2. \A k \in 1 .. NENV : g[k] = IF g[k - 1] = Nil THEN Nil ELSE env_link[g[k - 1]]
    BY <1>3, <1>4, <2>1 DEF Repeats
  <2>3. QED BY <1>1, <1>4, <2>2 DEF Repeats
<1>6. g = [k \in 0 .. NENV |->
                     IF k = 0 THEN sem_blocklist[i]
                     ELSE IF g[k - 1] = Nil THEN Nil ELSE env_link[g[k - 1]]]
  BY <1>5
<1>7. hop = [k \in 0 .. NENV |->
                     IF k = 0 THEN sem_blocklist[i]
                     ELSE IF hop[k - 1] = Nil THEN Nil ELSE env_link[hop[k - 1]]]
  BY <1>6
<1> HIDE DEF hop
<1>8. \A k \in 0 .. NENV : hop[k] =
          IF k = 0 THEN sem_blocklist[i]
          ELSE IF hop[k - 1] = Nil THEN Nil ELSE env_link[hop[k - 1]]
  BY <1>7
<1>9. 0 \in 0 .. NENV /\ \A k \in 1 .. NENV : k \in 0 .. NENV /\ k # 0
  BY <1>1
<1>10. Hops(hop, NENV, env_link, sem_blocklist[i])
  BY <1>8, <1>9 DEF Hops
<1>11. S \in SUBSET (0 .. NENV - 1)
  BY DEF Envs
<1>12. HopSet(hop, NENV) = S
  BY <1>1, <1>10, <1>11, HopsReach
<1>13. QED BY <1>2, <1>12 DEF HopSet

\* Next to one another, the lists of the open semaphores.
LEMMA WaitingLists ==
    ASSUME ListInv, kernel = "up"
    PROVE  \A j \in Open :
              /\ j \in Sems /\ Waiting(j) \in SUBSET Envs
              /\ IsList(env_link, sem_blocklist[j], Waiting(j))
              /\ \A e \in Waiting(j) : Quiet(e)
              /\ \A k \in Open : j # k => Waiting(j) \cap Waiting(k) = {}
<1>1. PICK W \in [Sems -> SUBSET Envs] : QuietLists(W)
  BY DEF ListInv
<1>2. \A j \in Open : j \in Sems /\ W[j] \in SUBSET Envs /\ IsList(env_link, sem_blocklist[j], W[j])
  BY <1>1 DEF QuietLists, Blocked, Open
<1>3. \A j \in Open : Waiting(j) = W[j]
  BY <1>2, WaitingIsList
<1>4. QED BY <1>1, <1>2, <1>3 DEF QuietLists, Blocked

LEMMA WaitingNext ==
    \A i \in Sems, S \in SUBSET Envs :
        IsList(env_link', sem_blocklist'[i], S) => Waiting(i)' = S
<1>1. (\A i \in Sems, S \in SUBSET Envs :
        IsList(env_link, sem_blocklist[i], S) => Waiting(i) = S)'
  BY WaitingIsList, PTL
<1>2. QED BY <1>1

\* Only the links of environments that are not blocked are changed.
LEMMA ProcWaiting ==
    ASSUME ListInv, ProcNext, UNCHANGED semVars
    PROVE  \A j \in Open : Waiting(j)' = Waiting(j)
<1>1. kernel = "up"
  BY DEF ProcNext, Boot, SysSleep, SysExit, SysFork, SysFrun, SysCreateThread, InCall
<1>2. \A e \in Envs : Quiet(e) => env_link'[e] = env_link[e]
  <2>1. \/ env_link' = env_link
        \/ InCall /\ env_link' = [env_link EXCEPT ![curenv] = env_free_list]
    BY DEF ProcNext, Boot, SysSleep, SysExit, SysFork, SysFrun, SysCreateThread,
           env_create, env_free, Alloc, AllocFails, Crash, linkVars
  <2>2. InCall => curenv \in Envs /\ ~Quiet(curenv)
    BY DEF InCall, ListInv, TableInv, TypeOK, RunsInItsMemory, Quiet
  <2>3. env_link \in [Envs -> Envs \cup {Nil}]
    BY DEF ListInv, SemTypeOK, TypeOK
  <2>4. QED BY <2>1, <2>2, <2>3
<1> SUFFICES ASSUME NEW j \in Open PROVE Waiting(j)' = Waiting(j)
  OBVIOUS
<1>3. /\ j \in Sems /\ Waiting(j) \in SUBSET Envs
      /\ IsList(env_link, sem_blocklist[j], Waiting(j)) /\ \A e \in Waiting(j) : Quiet(e)
  BY <1>1, WaitingLists
<1>4. IsList(env_link', sem_blocklist'[j], Waiting(j))
  <2>1. sem_blocklist' = sem_blocklist
    BY DEF semVars
  <2>2. \A e \in Waiting(j) : env_link'[e] = env_link[e]
    BY <1>2, <1>3
  <2>3. QED BY <1>3, <2>1, <2>2, ListFrame
<1>5. QED BY <1>3, <1>4, WaitingNext

LEMMA BlockWaiting ==
    ASSUME ListInv, InCall, NEW i \in Open, Block(i)
    PROVE  /\ \A j \in Open : curenv \notin Waiting(j)
           /\ \A j \in Open : Waiting(j)' = IF j = i THEN Waiting(j) \cup {curenv} ELSE Waiting(j)
<1>1. /\ kernel = "up" /\ curenv \in Envs /\ ~Quiet(curenv)
      /\ env_link \in [Envs -> Envs \cup {Nil}]
      /\ sem_blocklist \in [Sems -> Envs \cup {Nil}]
  BY DEF InCall, ListInv, SemTypeOK, TableInv, TypeOK, RunsInItsMemory, Quiet
<1>2. /\ env_link' = [env_link EXCEPT ![curenv] = sem_blocklist[i]]
      /\ sem_blocklist' = [sem_blocklist EXCEPT ![i] = curenv]
  BY DEF Block
<1>3. \A j \in Open : /\ j \in Sems /\ Waiting(j) \in SUBSET Envs /\ curenv \notin Waiting(j)
                      /\ IsList(env_link, sem_blocklist[j], Waiting(j))
  BY <1>1, WaitingLists
<1>4. ASSUME NEW j \in Open
      PROVE  Waiting(j)' = IF j = i THEN Waiting(j) \cup {curenv} ELSE Waiting(j)
  <2>1. CASE j = i
    <3>1. IsList([env_link EXCEPT ![curenv] = sem_blocklist[i]], curenv, Waiting(i) \cup {curenv})
      BY <1>1, <1>3, ListPush, ConstantTypes
    <3>2. IsList(env_link', sem_blocklist'[i], Waiting(i) \cup {curenv})
      BY <1>1, <1>2, <1>3, <3>1
    <3>3. Waiting(i) \cup {curenv} \in SUBSET Envs
      BY <1>1, <1>3
    <3>4. QED BY <1>3, <2>1, <3>2, <3>3, WaitingNext
  <2>2. CASE j # i
    <3>1. \A e \in Waiting(j) : env_link'[e] = env_link[e]
      BY <1>1, <1>2, <1>3
    <3>2. IsList(env_link', sem_blocklist[j], Waiting(j))
      BY <1>3, <3>1, ListFrame
    <3>3. sem_blocklist'[j] = sem_blocklist[j]
      BY <1>1, <1>2, <1>3, <2>2
    <3>4. QED BY <1>3, <2>2, <3>2, <3>3, WaitingNext
  <2>3. QED BY <2>1, <2>2
<1>5. QED BY <1>3, <1>4

LEMMA WakeWaiting ==
    ASSUME ListInv, InCall, NEW i \in Open, sem_blocklist[i] # Nil, Wake(i)
    PROVE  /\ sem_blocklist[i] \in Waiting(i)
           /\ \A j \in Open : Waiting(j)' = IF j = i THEN Waiting(j) \ {sem_blocklist[i]} ELSE Waiting(j)
<1>1. kernel = "up" /\ sem_blocklist \in [Sems -> Envs \cup {Nil}]
  BY DEF InCall, ListInv, SemTypeOK
<1>2. env_link' = env_link /\ sem_blocklist' = [sem_blocklist EXCEPT ![i] = env_link[sem_blocklist[i]]]
  BY DEF Wake, linkVars
<1>3. \A j \in Open : /\ j \in Sems /\ Waiting(j) \in SUBSET Envs
                      /\ IsList(env_link, sem_blocklist[j], Waiting(j))
  BY <1>1, WaitingLists
<1>4. sem_blocklist[i] \in Waiting(i)
      /\ IsList(env_link, env_link[sem_blocklist[i]], Waiting(i) \ {sem_blocklist[i]})
  BY <1>3, ListPop
<1>5. ASSUME NEW j \in Open
      PROVE  Waiting(j)' = IF j = i THEN Waiting(j) \ {sem_blocklist[i]} ELSE Waiting(j)
  <2>1. CASE j = i
    <3>1. IsList(env_link', sem_blocklist'[i], Waiting(i) \ {sem_blocklist[i]})
      BY <1>1, <1>2, <1>3, <1>4
    <3>2. Waiting(i) \ {sem_blocklist[i]} \in SUBSET Envs
      BY <1>3
    <3>3. QED BY <1>3, <2>1, <3>1, <3>2, WaitingNext
  <2>2. CASE j # i
    <3>1. IsList(env_link', sem_blocklist'[j], Waiting(j))
      BY <1>1, <1>2, <1>3, <2>2
    <3>2. QED BY <1>3, <2>2, <3>1, WaitingNext
  <2>3. QED BY <2>1, <2>2
<1>6. QED BY <1>4, <1>5

LEMMA SameWaiting ==
    ASSUME ListInv, kernel = "up", env_link' = env_link,
           NEW j \in Open, sem_blocklist'[j] = sem_blocklist[j]
    PROVE  Waiting(j)' = Waiting(j)
<1>1. /\ j \in Sems /\ Waiting(j) \in SUBSET Envs
      /\ IsList(env_link, sem_blocklist[j], Waiting(j))
  BY WaitingLists
<1>2. IsList(env_link', sem_blocklist'[j], Waiting(j))
  BY <1>1
<1>3. QED BY <1>1, <1>2, WaitingNext
-----------------------------------------------------------------------------
(***************************************************************************)
(* Who is stranded                                                         *)
(***************************************************************************)

\* Whom the scheduler leaves asleep without a sleeper's count was so before.
LEMMA ScheduleSleepers ==
    ASSUME NEW idx \in Envs, NEW st \in [Envs -> Status],
           NEW rn \in [Envs -> Runs], NEW pg, Schedule(idx, st, rn, pg)
    PROVE  \A e \in Envs :
              env_status'[e] = "NOT_RUNNABLE" /\ env_runs'[e] <= AwakeMax
                  => st[e] = "NOT_RUNNABLE" /\ rn[e] <= AwakeMax
<1>1. PICK x \in Envs :
        LET rn1 == [y \in Envs |-> IF Ticked(st, idx, x, y)
                                      THEN Bump(rn[y]) ELSE rn[y]]
        IN /\ env_runs' = [rn1 EXCEPT ![x] = Bump(@)]
           /\ env_status' = [y \in Envs |->
                    IF y = x THEN "RUNNING"
                    ELSE IF Ticked(st, idx, x, y) /\ rn1[y] = 0
                         THEN "RUNNABLE" ELSE st[y]]
  BY DEF Schedule
<1> SUFFICES ASSUME NEW e \in Envs, env_status'[e] = "NOT_RUNNABLE", env_runs'[e] <= AwakeMax
             PROVE  st[e] = "NOT_RUNNABLE" /\ rn[e] <= AwakeMax
  OBVIOUS
<1>2. e # x /\ st[e] = "NOT_RUNNABLE"
  BY <1>1
<1>3. env_runs'[e] = IF Ticked(st, idx, x, e) THEN Bump(rn[e]) ELSE rn[e]
  BY <1>1, <1>2
<1>4. Ticked(st, idx, x, e) => Bump(rn[e]) # 0
  BY <1>1, <1>2
<1>5. rn[e] \in Runs /\ (Bump(rn[e]) # 0 /\ Bump(rn[e]) <= AwakeMax => rn[e] <= AwakeMax)
  BY ProcessAssumption DEF Bump, Runs, AwakeMax
<1>6. QED BY <1>2, <1>3, <1>4, <1>5

\* Not runnable, and not counted up to the end of a sleep.
Idle(e) == env_status[e] = "NOT_RUNNABLE" /\ env_runs[e] <= AwakeMax

\* The calls of the process table make nobody idle.
LEMMA ProcIdle ==
    ASSUME TypeOK, ProcNext PROVE \A e \in Envs : Idle(e)' => Idle(e)
<1>a. /\ env_status \in [Envs -> Status] /\ env_runs \in [Envs -> Runs]
      /\ InCall => curenv \in Envs
  BY DEF TypeOK, InCall
<1>b. \A s \in {"FREE", "NOT_RUNNABLE"} :
         [env_status EXCEPT ![curenv] = s] \in [Envs -> Status]
  BY <1>a DEF Status
<1>c. ASSUME NEW t \in 1 .. SleepMax, NEW rn \in [Envs -> Runs]
      PROVE  [rn EXCEPT ![curenv] = RunsMod - t] \in [Envs -> Runs]
  <2>1. RunsMod - t \in Runs
    BY ConstantTypes
  <2>2. QED BY <2>1
<1>d. ASSUME NEW r, Crash(r) PROVE \A e \in Envs : Idle(e)' => Idle(e)
  BY <1>d DEF Crash, Idle
<1>1. CASE Boot
  <2>1. PICK f \in Envs :
           Schedule(0, Fresh(env_status, f), FreshRuns(f), [env_pgdir EXCEPT ![f] = TRUE])
    BY <1>1 DEF Boot
  <2>2. Fresh(env_status, f) \in [Envs -> Status] /\ FreshRuns(f) \in [Envs -> Runs]
    BY <1>a, FreshType
  <2>3. \A e \in Envs : Fresh(env_status, f)[e] = "NOT_RUNNABLE" /\ FreshRuns(f)[e] <= AwakeMax => Idle(e)
    BY <1>a DEF Fresh, FreshRuns, Idle
  <2>4. QED BY <2>1, <2>2, <2>3, ScheduleSleepers, ConstantTypes DEF Idle
<1>2. ASSUME NEW t \in 1 .. SleepMax, SysSleep(t) PROVE \A e \in Envs : Idle(e)' => Idle(e)
  <2> DEFINE st == [env_status EXCEPT ![curenv] = "NOT_RUNNABLE"]
             rn == [env_runs EXCEPT ![curenv] = RunsMod - t]
  <2>1. curenv \in Envs /\ Schedule(curenv, st, rn, env_pgdir)
    BY <1>2, <1>a DEF SysSleep
  <2>2. st \in [Envs -> Status] /\ rn \in [Envs -> Runs]
    BY <1>a, <1>b, <1>c
  <2>3. \A e \in Envs : st[e] = "NOT_RUNNABLE" /\ rn[e] <= AwakeMax => Idle(e)
    <3>1. rn[curenv] > AwakeMax
      BY <1>a, <2>1, ConstantTypes
    <3>2. \A e \in Envs : e # curenv => st[e] = env_status[e] /\ rn[e] = env_runs[e]
      BY <1>a
    <3>3. \A e \in Envs : rn[e] \in Int
      BY <2>2 DEF Runs
    <3> HIDE DEF st, rn
    <3>4. QED BY <2>1, <3>1, <3>2, <3>3, ProcessAssumption DEF Idle, AwakeMax
  <2> HIDE DEF st, rn
  <2>4. QED BY <2>1, <2>2, <2>3, ScheduleSleepers DEF Idle
<1>3. CASE SysExit
  <2> DEFINE st == [env_status EXCEPT ![curenv] = "FREE"]
             pg == [env_pgdir EXCEPT ![curenv] = FALSE]
  <2>1. curenv \in Envs /\ Schedule(curenv, st, env_runs, pg)
    BY <1>3, <1>a DEF SysExit
  <2>2. \A e \in Envs : st[e] = "NOT_RUNNABLE" /\ env_runs[e] <= AwakeMax => Idle(e)
    BY <1>a, <2>1 DEF Idle
  <2>3. st \in [Envs -> Status]
    BY <1>b
  <2> HIDE DEF st, pg
  <2>4. QED BY <1>a, <2>1, <2>2, <2>3, ScheduleSleepers DEF Idle
<1>4. ASSUME NEW t \in 0 .. SleepMax, SysFork(t) PROVE \A e \in Envs : Idle(e)' => Idle(e)
  <2>1. CASE AllocFails
    BY <1>d, <2>1 DEF AllocFails
  <2>2. ASSUME NEW f \in Envs, env_status' = Fresh(env_status, f), env_runs' = FreshRuns(f)
        PROVE  \A e \in Envs : Idle(e)' => Idle(e)
    BY <1>a, <2>2 DEF Idle, Fresh, FreshRuns
  <2>3. ASSUME NEW f \in Envs, t # 0,
               Schedule(curenv,
                        Fresh([env_status EXCEPT ![curenv] = "NOT_RUNNABLE"], f),
                        [FreshRuns(f) EXCEPT ![curenv] = RunsMod - t],
                        [env_pgdir EXCEPT ![f] = TRUE])
        PROVE  \A e \in Envs : Idle(e)' => Idle(e)
    <3> DEFINE st == Fresh([env_status EXCEPT ![curenv] = "NOT_RUNNABLE"], f)
               rn == [FreshRuns(f) EXCEPT ![curenv] = RunsMod - t]
               pg == [env_pgdir EXCEPT ![f] = TRUE]
    <3>1. t \in 1 .. SleepMax /\ curenv \in Envs
      BY <1>4, <1>a, <2>3, ProcessAssumption DEF SysFork
    <3>2. st \in [Envs -> Status] /\ FreshRuns(f) \in [Envs -> Runs]
      BY <1>a, <1>b, FreshType
    <3>3. rn \in [Envs -> Runs]
      BY <1>c, <3>1, <3>2
    <3>4. \A e \in Envs : st[e] = "NOT_RUNNABLE" /\ rn[e] <= AwakeMax => Idle(e)
      <4>1. rn[curenv] > AwakeMax
        BY <3>1, <3>2, ConstantTypes
      <4>2. ASSUME NEW e \in Envs, e # curenv, st[e] = "NOT_RUNNABLE"
            PROVE  env_status[e] = "NOT_RUNNABLE" /\ rn[e] = env_runs[e]
        BY <1>a, <4>2 DEF Fresh, FreshRuns
      <4>3. \A e \in Envs : rn[e] \in Int
        BY <3>3 DEF Runs
      <4> HIDE DEF st, rn
      <4>4. QED BY <3>1, <4>1, <4>2, <4>3, ProcessAssumption DEF Idle, AwakeMax
    <3>5. Schedule(curenv, st, rn, pg)
      BY <2>3
    <3> HIDE DEF st, rn, pg
    <3>6. QED BY <3>1, <3>2, <3>3, <3>4, <3>5, ScheduleSleepers DEF Idle
  <2>4. QED BY <1>4, <2>1, <2>2, <2>3 DEF SysFork
<1>5. CASE SysFrun
  <2>1. CASE AllocFails
    BY <1>d, <2>1 DEF AllocFails
  <2>2. ASSUME NEW f \in Envs,
               Schedule(curenv, Fresh(env_status, f), FreshRuns(f), [env_pgdir EXCEPT ![f] = TRUE])
        PROVE  \A e \in Envs : Idle(e)' => Idle(e)
    <3>1. curenv \in Envs
      BY <1>5, <1>a DEF SysFrun
    <3>2. Fresh(env_status, f) \in [Envs -> Status] /\ FreshRuns(f) \in [Envs -> Runs]
      BY <1>a, FreshType
    <3>3. \A e \in Envs : Fresh(env_status, f)[e] = "NOT_RUNNABLE" /\ FreshRuns(f)[e] <= AwakeMax => Idle(e)
      BY <1>a DEF Fresh, FreshRuns, Idle
    <3>4. QED BY <2>2, <3>1, <3>2, <3>3, ScheduleSleepers DEF Idle
  <2>3. QED BY <1>5, <2>1, <2>2 DEF SysFrun
<1>6. CASE SysCreateThread
  <2>1. PICK f : \/ f \in Envs /\ env_status' = Fresh(env_status, f) /\ env_runs' = FreshRuns(f)
                 \/ AllocFails \/ Crash("no_root")
    BY <1>6 DEF SysCreateThread
  <2>2. QED BY <1>a, <1>d, <2>1 DEF AllocFails, Idle, Fresh, FreshRuns
<1>7. QED BY <1>1, <1>2, <1>3, <1>4, <1>5, <1>6 DEF ProcNext

\* The semaphores make idle nobody but those they block.
LEMMA BlockIdle ==
    ASSUME ListInv, InCall, NEW i \in Open, Block(i)
    PROVE  \A e \in Envs \ {curenv} : Idle(e)' => Idle(e)
<1> DEFINE st == [env_status EXCEPT ![curenv] = "NOT_RUNNABLE"]
<1>1. /\ env_status \in [Envs -> Status] /\ env_runs \in [Envs -> Runs] /\ curenv \in Envs
  BY DEF ListInv, SemTypeOK, TypeOK, InCall
<1>2. st \in [Envs -> Status] /\ Schedule(curenv, st, env_runs, env_pgdir)
  BY <1>1 DEF Status, Block
<1>3. \A e \in Envs \ {curenv} : st[e] = env_status[e]
  BY <1>1
<1> HIDE DEF st
<1>4. QED BY <1>1, <1>2, <1>3, ScheduleSleepers DEF Idle

\* Of all steps only a sem_destory strands environments, and only those blocked on
\* what it destroys: of any other, who is idle afterwards and in nobody's list was
\* so before.
LEMMA StrandStep ==
    ASSUME ListInv, SemTableOK, SNext, NEW e \in Envs, Idle(e)',
           \A i \in Open' : e \notin Waiting(i)',
           \A i \in Open \ Open' : e \notin Waiting(i)
    PROVE  Idle(e) /\ \A i \in Open : e \notin Waiting(i)
<1>0. /\ TypeOK /\ Open \in SUBSET Sems /\ sem_blocklist \in [Sems -> Envs \cup {Nil}]
      /\ InCall => kernel = "up" /\ curenv \in Envs
  BY DEF ListInv, SemTypeOK, TypeOK, Open, InCall
<1>a. ASSUME InCall, UNCHANGED procVars, \A j \in Open : sem_blocklist'[j] = sem_blocklist[j]
      PROVE  Idle(e) /\ \A i \in Open : e \notin Waiting(i)
  <2>1. env_link' = env_link /\ Idle(e)
    BY <1>a DEF procVars, Idle
  <2>2. \A j \in Open : Waiting(j)' = Waiting(j)
    BY <1>0, <1>a, <2>1, SameWaiting
  <2>3. QED BY <2>1, <2>2
<1>1. CASE ProcNext /\ UNCHANGED semVars
  <2>1. Idle(e) /\ Open' = Open
    BY <1>0, <1>1, ProcIdle DEF Open, semVars
  <2>2. QED BY <1>1, <2>1, ProcWaiting
<1>2. ASSUME NEW n \in Names, NEW v \in Vals, NEW type \in SemType,
             SemInit(n, v, type)
      PROVE  Idle(e) /\ \A i \in Open : e \notin Waiting(i)
  <2>1. sem_free_list \in Sems \ Open
    <3>1. sem_free_list \in Sems \ (Open \cup sem_lost)
      BY <1>2 DEF SemInit, SemTableOK, IsList
    <3>2. QED BY <3>1
  <2>2. \A j \in Open : sem_blocklist'[j] = sem_blocklist[j]
    BY <1>0, <1>2, <2>1 DEF SemInit
  <2>3. QED BY <1>2, <1>a, <2>2 DEF SemInit
<1>3. ASSUME NEW n \in Names, SemDestroy(n)
      PROVE  Idle(e) /\ \A i \in Open : e \notin Waiting(i)
  BY <1>3, <1>a DEF SemDestroy
<1>4. ASSUME NEW n \in Names, SemWait(n)
      PROVE  Idle(e) /\ \A i \in Open : e \notin Waiting(i)
  <2>1. PICK i \in Open : \/ UNCHANGED sem_blocklist /\ UNCHANGED procVars
                          \/ Block(i)
    BY <1>4 DEF SemWait
  <2>2. InCall /\ Open' = Open
    BY <1>4 DEF SemWait, Open
  <2>3. CASE Block(i)
    <3>1. \A j \in Open : Waiting(j)' = IF j = i THEN Waiting(j) \cup {curenv} ELSE Waiting(j)
      BY <2>2, <2>3, BlockWaiting
    <3>2. e # curenv
      BY <2>2, <3>1
    <3>3. Idle(e)
      BY <2>2, <2>3, <3>2, BlockIdle
    <3>4. QED BY <2>2, <3>1, <3>3
  <2>4. QED BY <1>a, <2>1, <2>2, <2>3
<1>5. ASSUME NEW n \in Names, SemPost(n)
      PROVE  Idle(e) /\ \A i \in Open : e \notin Waiting(i)
  <2>1. PICK i \in Open : \/ UNCHANGED sem_blocklist /\ UNCHANGED procVars
                          \/ sem_blocklist[i] # Nil /\ Wake(i)
    BY <1>5 DEF SemPost
  <2>2. InCall /\ Open' = Open
    BY <1>5 DEF SemPost, Open
  <2>3. CASE sem_blocklist[i] # Nil /\ Wake(i)
    <3>1. \A j \in Open : Waiting(j)' = IF j = i THEN Waiting(j) \ {sem_blocklist[i]} ELSE Waiting(j)
      BY <2>2, <2>3, WakeWaiting
    <3>2. e # sem_blocklist[i] /\ Idle(e)
      BY <1>0, <2>3 DEF Wake, Idle, TypeOK
    <3>3. QED BY <2>2, <3>1, <3>2
  <2>4. QED BY <1>a, <2>1, <2>2, <2>3
<1>6. QED BY <1>1, <1>2, <1>3, <1>4, <1>5 DEF SNext, SemStep

\* Whoever cannot be woken any more was blocked on a semaphore that was destroyed:
\* no wait, post, fork, exit or other call loses a blocked environment, under the
\* conditions that keep the lists.
THEOREM OnlyDestroyStrandsHolds ==
    ASSUME ~RunsWrap, ~RootWaits
    PROVE  SSpec => OnlyDestroyStrands
<1> DEFINE Destroyed == {j \in Open : sem_type'[j] = "FREE"}
           Keeps == kernel' = "up" =>
                       Stranded' \subseteq Stranded \cup UNION {Waiting(i) : i \in Destroyed}
<1>1. ListInv /\ SemTableOK /\ [SNext]_vars => [Keeps]_vars
  <2> SUFFICES ASSUME ListInv, SemTableOK, SNext, NEW e \in Stranded',
                      \A i \in Destroyed : e \notin Waiting(i)
               PROVE  e \in Stranded
    OBVIOUS
  <2>1. e \in Envs /\ Idle(e)' /\ \A i \in Open' : e \notin Waiting(i)'
    BY DEF Stranded, Idle
  <2>2. Destroyed = Open \ Open'
    BY DEF Open
  <2>3. Idle(e) /\ \A i \in Open : e \notin Waiting(i)
    BY <2>1, <2>2, StrandStep
  <2>4. QED BY <2>1, <2>3 DEF Stranded, Idle
<1>2. SSpec => []ListInv
  BY ListInvariant
<1>3. QED BY <1>1, <1>2, SemTableCorrect, PTL DEF SSpec, OnlyDestroyStrands
-----------------------------------------------------------------------------
(***************************************************************************)
(* The semaphores implement SemaphoreSpec                                  *)
(***************************************************************************)

\* What the abstract semaphores are: under an open name, the value and the list
\* of the one semaphore of that name; under another name, nothing.
LEMMA AbsAt ==
    SemTypeOK /\ SemTableOK =>
      /\ AbsValue = [n \in Names |-> AbsValue[n]]
      /\ AbsWaiting = [n \in Names |-> AbsWaiting[n]]
      /\ \A i \in Open : sem_name[i] \in AbsOpen
      /\ \A n \in AbsOpen : \E i \in Open : sem_name[i] = n
      /\ \A i \in Open : sem_name[i] \in Names =>
            /\ AbsValue[sem_name[i]] = sem_val[i]
            /\ AbsWaiting[sem_name[i]] = Waiting(i)
      /\ \A n \in Names \ AbsOpen : AbsValue[n] = 0 /\ AbsWaiting[n] = {}
<1> SUFFICES ASSUME SemTypeOK, SemTableOK
             PROVE  /\ \A i \in Open : sem_name[i] \in Names =>
                          /\ AbsValue[sem_name[i]] = sem_val[i]
                          /\ AbsWaiting[sem_name[i]] = Waiting(i)
                    /\ \A n \in Names \ AbsOpen : AbsValue[n] = 0 /\ AbsWaiting[n] = {}
  BY DEF AbsOpen, AbsValue, AbsWaiting
<1>1. \A i, j \in Open : IsIndex(sem_name[i], j) <=> i = j
  BY SemConstants DEF SemTableOK, IsIndex, Open
<1>2. \A n \in Names \ AbsOpen, j \in Sems : ~IsIndex(n, j)
  BY DEF IsIndex, AbsOpen
<1>3. ASSUME NEW i \in Open, sem_name[i] \in Names
      PROVE  AbsValue[sem_name[i]] = sem_val[i] /\ AbsWaiting[sem_name[i]] = Waiting(i)
  <2>1. (CHOOSE j \in Open : IsIndex(sem_name[i], j)) = i
    BY <1>1
  <2>2. {j \in Open : IsIndex(sem_name[i], j)} = {i}
    BY <1>1
  <2>3. AbsValue[sem_name[i]] = sem_val[i]
    BY <1>1, <1>3, <2>1 DEF AbsValue
  <2>4. UNION {Waiting(k) : k \in {i}} = Waiting(i)
    OBVIOUS
  <2>5. QED BY <1>3, <2>2, <2>3, <2>4 DEF AbsWaiting
<1>4. ASSUME NEW n \in Names \ AbsOpen PROVE AbsValue[n] = 0 /\ AbsWaiting[n] = {}
  <2>1. {j \in Open : IsIndex(n, j)} = {}
    BY <1>2 DEF Open
  <2>2. UNION {Waiting(k) : k \in {}} = {}
    OBVIOUS
  <2>3. QED BY <2>1, <2>2 DEF AbsValue, AbsWaiting
<1>5. QED BY <1>3, <1>4

LEMMA AbsAtNext ==
    SemTypeOK' /\ SemTableOK' =>
      /\ AbsValue' = [n \in Names |-> AbsValue'[n]]
      /\ AbsWaiting' = [n \in Names |-> AbsWaiting'[n]]
      /\ \A i \in Open' : sem_name'[i] \in AbsOpen'
      /\ \A n \in AbsOpen' : \E i \in Open' : sem_name'[i] = n
      /\ \A i \in Open' : sem_name'[i] \in Names =>
            /\ AbsValue'[sem_name'[i]] = sem_val'[i]
            /\ AbsWaiting'[sem_name'[i]] = Waiting(i)'
      /\ \A n \in Names \ AbsOpen' : AbsValue'[n] = 0 /\ AbsWaiting'[n] = {}
<1>1. (SemTypeOK /\ SemTableOK =>
      /\ AbsValue = [n \in Names |-> AbsValue[n]]
      /\ AbsWaiting = [n \in Names |-> AbsWaiting[n]]
      /\ \A i \in Open : sem_name[i] \in AbsOpen
      /\ \A n \in AbsOpen : \E i \in Open : sem_name[i] = n
      /\ \A i \in Open : sem_name[i] \in Names =>
            /\ AbsValue[sem_name[i]] = sem_val[i]
            /\ AbsWaiting[sem_name[i]] = Waiting(i)
      /\ \A n \in Names \ AbsOpen : AbsValue[n] = 0 /\ AbsWaiting[n] = {})'
  BY AbsAt, PTL
<1>2. QED BY <1>1

\* Where a step leaves the semaphores open and their names, and changes the
\* value and the list of i only, the abstract one of that name changes.
LEMMA AbsChange ==
    ASSUME SemTypeOK, SemTableOK, SemTypeOK', SemTableOK',
           Open' = Open, sem_name' = sem_name,
           NEW i \in Open, sem_name[i] \in Names, NEW v, NEW w,
           \A j \in Open : sem_val'[j] = IF j = i THEN v ELSE sem_val[j],
           \A j \in Open : Waiting(j)' = IF j = i THEN w ELSE Waiting(j)
    PROVE  /\ AbsOpen' = AbsOpen
           /\ AbsValue' = [AbsValue EXCEPT ![sem_name[i]] = v]
           /\ AbsWaiting' = [AbsWaiting EXCEPT ![sem_name[i]] = w]
<1>1. AbsOpen' = AbsOpen
  BY DEF AbsOpen
<1>2. ASSUME NEW m \in Names
      PROVE  /\ AbsValue'[m] = IF m = sem_name[i] THEN v ELSE AbsValue[m]
             /\ AbsWaiting'[m] = IF m = sem_name[i] THEN w ELSE AbsWaiting[m]
  <2>1. CASE m \in AbsOpen
    <3>1. PICK j \in Open : sem_name[j] = m
      BY <2>1, AbsAt
    <3>2. j = i <=> m = sem_name[i]
      BY <3>1 DEF SemTableOK
    <3>3. AbsValue[m] = sem_val[j] /\ AbsWaiting[m] = Waiting(j)
      BY <3>1, AbsAt
    <3>4. AbsValue'[m] = sem_val'[j] /\ AbsWaiting'[m] = Waiting(j)'
      BY <3>1, AbsAtNext
    <3>5. QED BY <3>2, <3>3, <3>4
  <2>2. CASE m \notin AbsOpen
    <3>1. m # sem_name[i]
      BY <2>2, AbsAt
    <3>2. QED BY <1>1, <2>2, <3>1, AbsAt, AbsAtNext
  <2>3. QED BY <2>1, <2>2
<1>3. QED BY <1>1, <1>2, AbsAt, AbsAtNext

\* A step of the process table is none of the semaphores' business.
LEMMA ProcRefines ==
    ASSUME ListInv, ProcNext, UNCHANGED semVars
    PROVE  AbsOpen' = AbsOpen /\ AbsValue' = AbsValue /\ AbsWaiting' = AbsWaiting
<1>1. Open' = Open /\ sem_name' = sem_name /\ sem_val' = sem_val
  BY DEF semVars, Open
<1>2. \A j \in Open : Waiting(j)' = Waiting(j)
  BY ProcWaiting
<1>3. \A n \in Names : {j \in Open : IsIndex(n, j)}' = {j \in Open : IsIndex(n, j)}
  BY <1>1 DEF IsIndex
<1>4. \A n \in Names : (\E i \in Open : IsIndex(n, i))' <=> \E i \in Open : IsIndex(n, i)
  BY <1>1 DEF IsIndex
<1>5. AbsOpen' = AbsOpen /\ AbsValue' = AbsValue
  BY <1>1 DEF AbsOpen, AbsValue, IsIndex
<1>6. AbsWaiting' = AbsWaiting
  BY <1>1, <1>2 DEF AbsWaiting, IsIndex
<1>7. QED BY <1>5, <1>6

LEMMA InitRefines ==
    ASSUME ListInv, SemTableOK, SemTypeOK', SemTableOK', NEW n \in Names,
           NEW v \in Vals, NEW type \in SemType \ {"FREE"}, SemInit(n, v, type)
    PROVE  A!OpenSem(n)
<1>1. PICK i \in Sems \ Open : i = sem_free_list
  <2>1. sem_free_list \in Sems \ (Open \cup sem_lost)
    BY DEF SemInit, SemTableOK, IsList
  <2>2. QED BY <2>1
<1>2. SemTypeOK
  BY DEF ListInv
<1>3. /\ kernel = "up"
      /\ env_link' = env_link /\ sem_name \in [Sems -> Names \cup {""}]
      /\ sem_val \in [Sems -> Vals] /\ sem_type \in [Sems -> SemType]
      /\ sem_blocklist \in [Sems -> Envs \cup {Nil}]
  BY DEF SemInit, InCall, ListInv, SemTypeOK, procVars, linkVars
<1>4. /\ sem_name' = [sem_name EXCEPT ![i] = n]
      /\ sem_val' = [sem_val EXCEPT ![i] = v]
      /\ sem_type' = [sem_type EXCEPT ![i] = type]
      /\ sem_blocklist' = [sem_blocklist EXCEPT ![i] = Nil]
      /\ \A j \in Open : sem_name[j] # n
  BY <1>1 DEF SemInit
<1>5. Open \subseteq Sems /\ Open' = Open \cup {i}
  BY <1>3, <1>4 DEF Open
<1>6. ASSUME NEW j \in Open
      PROVE  /\ sem_name'[j] = sem_name[j] /\ sem_val'[j] = sem_val[j]
             /\ Waiting(j)' = Waiting(j)
  <2>1. sem_blocklist'[j] = sem_blocklist[j]
    BY <1>3, <1>4, <1>5
  <2>2. QED BY <1>3, <1>4, <1>5, <2>1, SameWaiting
<1>7. Waiting(i)' = {}
  <2>1. IsList(env_link', sem_blocklist'[i], {})
    BY <1>3, <1>4, ConstantTypes DEF IsList
  <2>2. QED BY <1>3, <2>1, WaitingNext
<1>8. sem_name'[i] = n /\ sem_val'[i] = v /\ v \in Int
  <2>1. sem_name'[i] = n
    BY <1>3, <1>4
  <2>2. sem_val'[i] = v
    BY <1>3, <1>4
  <2>3. QED BY <2>1, <2>2, SemConstants
<1>9. n \notin AbsOpen /\ AbsOpen' = AbsOpen \cup {n}
  BY <1>4, <1>5, <1>6, <1>8 DEF AbsOpen
<1>10. AbsValue'[n] = v /\ AbsWaiting'[n] = {} /\ AbsWaiting[n] = {}
  BY <1>2, <1>5, <1>7, <1>8, <1>9, AbsAt, AbsAtNext
<1>11. ASSUME NEW m \in Names, m # n
      PROVE  AbsValue'[m] = AbsValue[m] /\ AbsWaiting'[m] = AbsWaiting[m]
  <2>1. CASE m \in AbsOpen
    <3>1. PICK j \in Open : sem_name[j] = m
      BY <1>2, <2>1, AbsAt
    <3>2. j \in Open' /\ sem_name'[j] = m
      BY <1>5, <1>6, <3>1
    <3>3. AbsValue[m] = sem_val[j] /\ AbsWaiting[m] = Waiting(j)
      BY <1>2, <3>1, AbsAt
    <3>4. AbsValue'[m] = sem_val'[j] /\ AbsWaiting'[m] = Waiting(j)'
      BY <3>2, AbsAtNext
    <3>5. QED BY <1>6, <3>3, <3>4
  <2>2. CASE m \notin AbsOpen
    BY <1>2, <1>9, <1>11, <2>2, AbsAt, AbsAtNext
  <2>3. QED BY <2>1, <2>2
<1>12. /\ AbsValue = [m \in Names |-> AbsValue[m]] /\ AbsWaiting = [m \in Names |-> AbsWaiting[m]]
       /\ AbsValue' = [m \in Names |-> AbsValue'[m]] /\ AbsWaiting' = [m \in Names |-> AbsWaiting'[m]]
  BY <1>2, AbsAt, AbsAtNext
<1>13. AbsValue' = [AbsValue EXCEPT ![n] = AbsValue'[n]] /\ AbsWaiting' = AbsWaiting
  <2>1. \A m \in Names : AbsWaiting'[m] = AbsWaiting[m]
    BY <1>10, <1>11
  <2>2. AbsWaiting' = AbsWaiting
    BY <1>12, <2>1
  <2>3. AbsValue' = [AbsValue EXCEPT ![n] = v]
    BY <1>10, <1>11, <1>12
  <2>4. QED BY <1>10, <2>2, <2>3
<1>14. QED BY <1>8, <1>9, <1>10, <1>13 DEF A!OpenSem

\* A semaphore created as free is no semaphore to anybody.
LEMMA LostRefines ==
    ASSUME ListInv, SemTableOK, NEW n \in Names, NEW v \in Vals, SemInit(n, v, "FREE")
    PROVE  AbsOpen' = AbsOpen /\ AbsValue' = AbsValue /\ AbsWaiting' = AbsWaiting
<1>1. PICK i \in Sems \ Open : i = sem_free_list
  <2>1. sem_free_list \in Sems \ (Open \cup sem_lost)
    BY DEF SemInit, SemTableOK, IsList
  <2>2. QED BY <2>1
<1>2. /\ kernel = "up" /\ env_link' = env_link
      /\ sem_name \in [Sems -> Names \cup {""}]
      /\ sem_val \in [Sems -> Vals] /\ sem_type \in [Sems -> SemType]
      /\ sem_blocklist \in [Sems -> Envs \cup {Nil}]
  BY DEF SemInit, InCall, ListInv, SemTypeOK, procVars, linkVars
<1>3. /\ sem_name' = [sem_name EXCEPT ![i] = n]
      /\ sem_val' = [sem_val EXCEPT ![i] = v]
      /\ sem_type' = [sem_type EXCEPT ![i] = "FREE"]
      /\ sem_blocklist' = [sem_blocklist EXCEPT ![i] = Nil]
  BY <1>1 DEF SemInit
<1>4. Open \subseteq Sems /\ Open' = Open
  BY <1>2, <1>3 DEF Open
<1>5. \A j \in Open : /\ sem_name'[j] = sem_name[j] /\ sem_val'[j] = sem_val[j]
                      /\ sem_blocklist'[j] = sem_blocklist[j]
  BY <1>2, <1>3, <1>4
<1>6. \A j \in Open : Waiting(j)' = Waiting(j)
  BY <1>2, <1>5, SameWaiting
<1>7. \A m \in Names : \A j \in Open : IsIndex(m, j)' <=> IsIndex(m, j)
  BY <1>4, <1>5 DEF IsIndex
<1>8. \A m \in Names : {j \in Open : IsIndex(m, j)}' = {j \in Open : IsIndex(m, j)}
  BY <1>4, <1>7
<1>9. AbsOpen' = AbsOpen
  BY <1>4, <1>5 DEF AbsOpen
<1>10. AbsWaiting' = AbsWaiting
  BY <1>6, <1>8 DEF AbsWaiting
<1>11. AbsValue' = AbsValue
  <2>1. SemTypeOK' /\ SemTableOK'
    BY SemStepType, SemTableStep DEF ListInv, SemStep, SemType
  <2>2. ASSUME NEW m \in Names PROVE AbsValue'[m] = AbsValue[m]
    <3>1. CASE m \in AbsOpen
      <4>1. PICK j \in Open : sem_name[j] = m
        BY <3>1, AbsAt DEF ListInv
      <4>2. AbsValue[m] = sem_val[j]
        BY <4>1, AbsAt DEF ListInv
      <4>3. j \in Open' /\ sem_name'[j] = m
        BY <1>4, <1>5, <4>1
      <4>4. AbsValue'[m] = sem_val'[j]
        BY <2>1, <4>3, AbsAtNext
      <4>5. QED BY <1>5, <4>1, <4>2, <4>4
    <3>2. CASE m \notin AbsOpen
      BY <1>9, <2>1, <3>2, AbsAt, AbsAtNext DEF ListInv
    <3>3. QED BY <3>1, <3>2
  <2>3. AbsValue = [m \in Names |-> AbsValue[m]] /\ AbsValue' = [m \in Names |-> AbsValue'[m]]
    BY <2>1, AbsAt, AbsAtNext DEF ListInv
  <2>4. QED BY <2>2, <2>3
<1>12. QED BY <1>9, <1>10, <1>11

LEMMA DestroyRefines ==
    ASSUME ListInv, SemTableOK, SemTypeOK', SemTableOK', NEW n \in Names, SemDestroy(n)
    PROVE  A!CloseSem(n)
<1>1. PICK i \in Open : IsIndex(n, i) /\ sem_type' = [sem_type EXCEPT ![i] = "FREE"]
  BY DEF SemDestroy
<1>2. /\ SemTypeOK /\ kernel = "up" /\ env_link' = env_link
      /\ sem_name' = sem_name /\ sem_val' = sem_val /\ sem_blocklist' = sem_blocklist
      /\ sem_type \in [Sems -> SemType]
  BY DEF SemDestroy, InCall, ListInv, SemTypeOK, procVars, linkVars
<1>3. Open' = Open \ {i} /\ sem_name[i] = n
  BY <1>1, <1>2 DEF Open, IsIndex
<1>4. \A j \in Open : Waiting(j)' = Waiting(j)
  BY <1>2, SameWaiting
<1>5. n \in AbsOpen /\ AbsOpen' = AbsOpen \ {n}
  BY <1>2, <1>3 DEF AbsOpen, SemTableOK
<1>6. AbsValue'[n] = 0 /\ AbsWaiting'[n] = {}
  BY <1>5, AbsAtNext
<1>7. ASSUME NEW m \in Names, m # n
      PROVE  AbsValue'[m] = AbsValue[m] /\ AbsWaiting'[m] = AbsWaiting[m]
  <2>1. CASE m \in AbsOpen
    <3>1. PICK j \in Open : sem_name[j] = m
      BY <1>2, <2>1, AbsAt
    <3>2. j \in Open' /\ sem_name'[j] = m
      BY <1>2, <1>3, <1>7, <3>1
    <3>3. QED BY <1>2, <1>4, <3>1, <3>2, AbsAt, AbsAtNext
  <2>2. CASE m \notin AbsOpen
    BY <1>2, <1>5, <2>2, AbsAt, AbsAtNext
  <2>3. QED BY <2>1, <2>2
<1>8. AbsValue' = [AbsValue EXCEPT ![n] = 0] /\ AbsWaiting' = [AbsWaiting EXCEPT ![n] = {}]
  BY <1>2, <1>6, <1>7, AbsAt, AbsAtNext
<1>9. QED BY <1>5, <1>8 DEF A!CloseSem

LEMMA WaitRefines ==
    ASSUME ListInv, SemTableOK, SemTypeOK', SemTableOK', NEW n \in Names, SemWait(n)
    PROVE  A!Take(n) \/ A!StartWaiting(n)
<1>1. PICK i \in Open :
         /\ IsIndex(n, i)
         /\ \/ /\ sem_val[i] > 0
               /\ sem_val' = [sem_val EXCEPT ![i] = @ - 1]
               /\ UNCHANGED <<sem_blocklist, procVars>>
            \/ /\ ~(sem_val[i] > 0)
               /\ Block(i)
  BY DEF SemWait
<1>2. /\ SemTypeOK /\ InCall /\ kernel = "up" /\ curenv \in Envs
      /\ Open' = Open /\ sem_name' = sem_name /\ sem_name[i] = n
      /\ sem_val \in [Sems -> Vals] /\ Open \subseteq Sems
  BY <1>1 DEF SemWait, InCall, ListInv, SemTypeOK, TypeOK, Open, IsIndex
<1>3. n \in AbsOpen /\ AbsValue[n] = sem_val[i] /\ AbsWaiting[n] = Waiting(i)
  BY <1>2, AbsAt
<1>4. CASE /\ sem_val[i] > 0 /\ sem_val' = [sem_val EXCEPT ![i] = @ - 1]
           /\ UNCHANGED <<sem_blocklist, procVars>>
  <2>1. \A j \in Open : sem_val'[j] = IF j = i THEN sem_val[i] - 1 ELSE sem_val[j]
    BY <1>2, <1>4
  <2>2. \A j \in Open : Waiting(j)' = IF j = i THEN Waiting(i) ELSE Waiting(j)
    BY <1>2, <1>4, SameWaiting DEF procVars, linkVars
  <2>3. /\ AbsOpen' = AbsOpen
        /\ AbsValue' = [AbsValue EXCEPT ![n] = sem_val[i] - 1]
        /\ AbsWaiting' = [AbsWaiting EXCEPT ![n] = Waiting(i)]
    BY <1>2, <2>1, <2>2, AbsChange
  <2>4. AbsWaiting' = AbsWaiting
    BY <1>2, <1>3, <2>3, AbsAt
  <2>5. A!Take(n)
    BY <1>3, <1>4, <2>3, <2>4 DEF A!Take
  <2>6. QED BY <2>5
<1>5. CASE ~(sem_val[i] > 0) /\ Block(i)
  <2>1. sem_val' = sem_val
    BY <1>5 DEF Block
  <2>2. /\ \A j \in Open : curenv \notin Waiting(j)
        /\ \A j \in Open : Waiting(j)' = IF j = i THEN Waiting(i) \cup {curenv} ELSE Waiting(j)
    BY <1>2, <1>5, BlockWaiting
  <2>3. \A j \in Open : sem_val'[j] = IF j = i THEN sem_val[i] ELSE sem_val[j]
    BY <2>1
  <2>4. /\ AbsOpen' = AbsOpen
        /\ AbsValue' = [AbsValue EXCEPT ![n] = sem_val[i]]
        /\ AbsWaiting' = [AbsWaiting EXCEPT ![n] = Waiting(i) \cup {curenv}]
    BY <1>2, <2>2, <2>3, AbsChange
  <2>5. AbsValue' = AbsValue
    BY <1>2, <1>3, <2>4, AbsAt
  <2>6. AbsValue[n] <= 0
    BY <1>2, <1>3, <1>5, SemConstants
  <2>7. ASSUME NEW m \in Names PROVE curenv \notin AbsWaiting[m]
    <3>1. CASE m \in AbsOpen
      <4>1. PICK j \in Open : sem_name[j] = m
        BY <1>2, <3>1, AbsAt
      <4>2. QED BY <1>2, <2>2, <4>1, AbsAt
    <3>2. CASE m \notin AbsOpen
      BY <1>2, <3>2, AbsAt
    <3>3. QED BY <3>1, <3>2
  <2>8. A!StartWaiting(n)
    BY <1>2, <1>3, <2>4, <2>5, <2>6, <2>7 DEF A!StartWaiting
  <2>9. QED BY <2>8
<1>6. QED BY <1>1, <1>4, <1>5

LEMMA PostRefines ==
    ASSUME ListInv, SemTableOK, NoLostWakeup, SemTypeOK', SemTableOK',
           NEW n \in Names, SemPost(n)
    PROVE  A!Put(n) \/ A!Give(n)
<1>1. PICK i \in Open :
         /\ IsIndex(n, i)
         /\ \/ /\ \/ sem_val[i] > 0
                  \/ sem_blocklist[i] = Nil
               /\ sem_val' = [sem_val EXCEPT ![i] = @ + 1]
               /\ UNCHANGED <<sem_blocklist, procVars>>
            \/ /\ sem_blocklist[i] # Nil
               /\ Wake(i)
  BY DEF SemPost
<1>2. /\ SemTypeOK /\ InCall /\ kernel = "up"
      /\ Open' = Open /\ sem_name' = sem_name /\ sem_name[i] = n
      /\ sem_val \in [Sems -> Vals] /\ Open \subseteq Sems
  BY <1>1 DEF SemPost, InCall, ListInv, SemTypeOK, Open, IsIndex
<1>3. n \in AbsOpen /\ AbsValue[n] = sem_val[i] /\ AbsWaiting[n] = Waiting(i)
  BY <1>2, AbsAt
<1>4. CASE /\ sem_val[i] > 0 \/ sem_blocklist[i] = Nil
           /\ sem_val' = [sem_val EXCEPT ![i] = @ + 1]
           /\ UNCHANGED <<sem_blocklist, procVars>>
  <2>1. Waiting(i) = {}
    BY <1>2, <1>4, WaitingLists, ConstantTypes DEF NoLostWakeup, IsList
  <2>2. \A j \in Open : sem_val'[j] = IF j = i THEN sem_val[i] + 1 ELSE sem_val[j]
    BY <1>2, <1>4
  <2>3. \A j \in Open : Waiting(j)' = IF j = i THEN Waiting(i) ELSE Waiting(j)
    BY <1>2, <1>4, SameWaiting DEF procVars, linkVars
  <2>4. /\ AbsOpen' = AbsOpen
        /\ AbsValue' = [AbsValue EXCEPT ![n] = sem_val[i] + 1]
        /\ AbsWaiting' = [AbsWaiting EXCEPT ![n] = Waiting(i)]
    BY <1>2, <2>2, <2>3, AbsChange
  <2>5. AbsWaiting' = AbsWaiting
    BY <1>2, <1>3, <2>4, AbsAt
  <2>6. A!Put(n)
    BY <1>3, <2>1, <2>4, <2>5 DEF A!Put
  <2>7. QED BY <2>6
<1>5. CASE sem_blocklist[i] # Nil /\ Wake(i)
  <2>1. sem_val' = sem_val
    BY <1>5 DEF Wake
  <2>2. /\ sem_blocklist[i] \in Waiting(i)
        /\ \A j \in Open : Waiting(j)' = IF j = i THEN Waiting(i) \ {sem_blocklist[i]} ELSE Waiting(j)
    BY <1>2, <1>5, WakeWaiting
  <2>3. \A j \in Open : sem_val'[j] = IF j = i THEN sem_val[i] ELSE sem_val[j]
    BY <2>1
  <2>4. /\ AbsOpen' = AbsOpen
        /\ AbsValue' = [AbsValue EXCEPT ![n] = sem_val[i]]
        /\ AbsWaiting' = [AbsWaiting EXCEPT ![n] = Waiting(i) \ {sem_blocklist[i]}]
    BY <1>2, <2>2, <2>3, AbsChange
  <2>5. AbsValue' = AbsValue
    BY <1>2, <1>3, <2>4, AbsAt
  <2>6. A!Give(n)
    BY <1>3, <2>2, <2>4, <2>5 DEF A!Give
  <2>7. QED BY <2>6
<1>6. QED BY <1>1, <1>4, <1>5

\* The kernel's semaphores are counting semaphores: each of its steps opens or
\* closes one, takes a unit, waits, hands a unit over, keeps it, or does nothing
\* to them - no unit and no waiting process is lost or counted twice.
THEOREM ImplementsHolds ==
    ASSUME ~RunsWrap, ~RootWaits
    PROVE  SSpec => Implements
<1>1. SInit => A!AbsInit
  <2> SUFFICES ASSUME SInit PROVE A!AbsInit
    OBVIOUS
  <2>1. SemTypeOK /\ SemTableOK /\ AbsOpen = {}
    BY SemInitType, SemTableInitial DEF SInit, SemTableInit, AbsOpen, Open
  <2>2. QED BY <2>1, AbsAt DEF A!AbsInit
<1> DEFINE Inv == ListInv /\ SemTableOK /\ NoLostWakeup
<1>2. Inv /\ Inv' /\ [SNext]_vars => [A!AbsNext]_(A!absVars)
  <2> SUFFICES ASSUME Inv, Inv', [SNext]_vars
               PROVE  A!AbsNext \/ UNCHANGED A!absVars
    OBVIOUS
  <2>0. SemTypeOK' /\ SemTableOK'
    BY DEF ListInv
  <2>1. CASE ProcNext /\ UNCHANGED semVars
    BY <2>1, ProcRefines DEF A!absVars
  <2>2. CASE SemStep
    <3>1. PICK n \in Names :
             \/ \E v \in Vals, type \in SemType : SemInit(n, v, type)
             \/ SemDestroy(n)
             \/ SemWait(n)
             \/ SemPost(n)
      BY <2>2 DEF SemStep
    <3>2. CASE \E v \in Vals : SemInit(n, v, "FREE")
      BY <3>2, LostRefines DEF A!absVars
    <3>3. CASE \/ \E v \in Vals, type \in SemType \ {"FREE"} : SemInit(n, v, type)
               \/ SemDestroy(n) \/ SemWait(n) \/ SemPost(n)
      <4>1. \/ A!OpenSem(n) \/ A!CloseSem(n) \/ A!Take(n)
            \/ A!StartWaiting(n) \/ A!Give(n) \/ A!Put(n)
        BY <2>0, <3>3, InitRefines, DestroyRefines, WaitRefines, PostRefines
      <4>2. QED BY <4>1 DEF A!AbsNext
    <3>4. QED BY <3>1, <3>2, <3>3
  <2>3. CASE UNCHANGED vars
    <3>1. AbsOpen' = AbsOpen /\ AbsValue' = AbsValue /\ AbsWaiting' = AbsWaiting
      BY <2>3 DEF vars, procVars, linkVars, semVars, AbsOpen, AbsValue, AbsWaiting,
                  Open, IsIndex, Waiting
    <3>2. QED BY <3>1 DEF A!absVars
  <2>4. QED BY <2>1, <2>2, <2>3 DEF SNext
<1>3. SSpec => []Inv
  BY ListInvariant, SemTableCorrect, NoLostWakeupHolds, PTL
<1> HIDE DEF Inv
<1>4. QED BY <1>1, <1>2, <1>3, PTL DEF SSpec, Implements, A!AbsSpec
=============================================================================
