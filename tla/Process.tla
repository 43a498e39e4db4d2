------------------------------ MODULE Process ------------------------------
(***************************************************************************)
(* The process table of the kernel (kernel/src/process) and the system     *)
(* calls that change it: the environments envs[NENV], their free list, the *)
(* cooperative scheduler schedule_process, sys_sleep, sys_exit, sys_fork,  *)
(* sys_create_thread and sys_frun.                                         *)
(*                                                                         *)
(* One processor runs the kernel with interrupts off from the gate of      *)
(* int 0x80 to iret, and no interrupt handler switches environments, so a  *)
(* system call of the current environment is one step.  A handler that     *)
(* reaches schedule_process does not return: the step ends when env_run    *)
(* has installed the environment that runs next.                           *)
(*                                                                         *)
(* Memory is seen only as a resource that may run out (an allocation may   *)
(* always fail) and as the question whether an environment has a page      *)
(* directory to run in.  Where the code goes on after an error it did not  *)
(* test, it dereferences a pointer that was never set: `kernel' then names *)
(* the error and nothing is modelled afterwards.                           *)
(***************************************************************************)
EXTENDS Integers, Lists

CONSTANTS
    NENV,         \* number of slots of envs[] (32)
    IdSpan,       \* ids of one slot: env_alloc shifts the slot by 8 bits (256)
    RunsMod,      \* env_runs is a uint32_t (2^32)
    SleepMax,     \* bound: the longest sleep asked for
    MaxNrThread,  \* bound: thread numbers given out by one process
    RunsWrap      \* bound when FALSE: env_runs of a running or blocked
                  \* environment stops short of the values of a sleeper

ASSUME ProcessAssumption ==
    /\ NENV \in Nat /\ NENV >= 2
    /\ IdSpan \in Nat /\ IdSpan >= 1
    /\ SleepMax \in Nat /\ SleepMax >= 1
    /\ RunsMod \in Nat /\ RunsMod >= SleepMax + 2
    /\ MaxNrThread \in Nat
    /\ RunsWrap \in BOOLEAN

VARIABLES
    env_status,     \* slot -> FREE, RUNNABLE, RUNNING, NOT_RUNNABLE
    env_runs,       \* slot -> how often it ran, or minus the passes to sleep
    env_link,       \* slot -> next slot of the list it is on, or Nil
    env_id,         \* slot -> id, -1 before the first use
    env_parent_id,  \* slot -> id of the creator, -1 for a loaded program
    env_nr_thread,  \* slot -> number the next thread of this process gets
    env_pgdir,      \* slot -> does it have a page directory?
    env_free_list,  \* head of the list of free slots, or Nil
    curenv,         \* the slot whose program runs, Nil before the first
    kernel          \* "up", or the error the kernel could not survive

linkVars == <<env_link, env_free_list>>
idVars   == <<env_id, env_parent_id, env_nr_thread>>
procVars == <<env_status, env_runs, env_link, env_id, env_parent_id,
              env_nr_thread, env_pgdir, env_free_list, curenv, kernel>>

Envs   == 0 .. NENV - 1
NoEnv  == -1          \* envid -1: the parent of a program loaded from disk
Status == {"FREE", "RUNNABLE", "RUNNING", "NOT_RUNNABLE"}
\* "no_env": env_alloc failed and its result was used nevertheless;
\* "no_root": find_thread_root followed an id that is gone;
\* "no_vm": env_run loaded the page directory of an environment without one.
KernelState == {"up", "no_env", "no_root", "no_vm"}

\* The largest env_runs that cannot be taken for a sleeper's.
AwakeMax == RunsMod - SleepMax - 1

Runs == 0 .. RunsMod - 1
Bump(r) == IF r = RunsMod - 1 THEN 0
           ELSE IF ~RunsWrap /\ r = AwakeMax THEN r
           ELSE r + 1
-----------------------------------------------------------------------------
(***************************************************************************)
(* schedule_process and env_run                                            *)
(***************************************************************************)

\* The step i of the scan from slot idx at which it visits slot x:
\* x = (idx + i) % NENV with i in 1 .. NENV.
Dist(idx, x) == IF x > idx THEN x - idx ELSE x - idx + NENV

\* Mutants of Picks: the scan runs downwards, or never reaches the last slot.
PicksDownwards(st, idx, x) ==
    \/ /\ x # 0
       /\ st[x] = "RUNNABLE"
       /\ \A y \in Envs \ {0} :
             st[y] = "RUNNABLE" => Dist(idx, x) >= Dist(idx, y)
    \/ /\ x = 0
       /\ \A y \in Envs \ {0} : st[y] # "RUNNABLE"
PicksNotLast(st, idx, x) ==
    LET E == 1 .. NENV - 2
    IN \/ /\ x \in E
          /\ st[x] = "RUNNABLE"
          /\ \A y \in E : st[y] = "RUNNABLE" => Dist(idx, x) <= Dist(idx, y)
       \/ /\ x = 0
          /\ \A y \in E : st[y] # "RUNNABLE"

\* The scan stops at the first runnable slot other than 0; when there is none
\* it ends at slot 0, whatever the status of slot 0.
Picks(st, idx, x) ==
    \/ /\ x # 0
       /\ st[x] = "RUNNABLE"
       /\ \A y \in Envs \ {0} :
             st[y] = "RUNNABLE" => Dist(idx, x) <= Dist(idx, y)
    \/ /\ x = 0
       /\ \A y \in Envs \ {0} : st[y] # "RUNNABLE"
\* Mutant of Ticked: a scan that falls back on slot 0 counts no sleeper down.
TickedNotOnFallback(st, idx, x, y) ==
    /\ st[y] = "NOT_RUNNABLE"
    /\ x # 0 /\ Dist(idx, y) < Dist(idx, x)

\* Slot y is visited and found not runnable before the scan stops at x.
Ticked(st, idx, x, y) ==
    /\ st[y] = "NOT_RUNNABLE"
    /\ x = 0 \/ Dist(idx, y) < Dist(idx, x)
\* env_run(x): x becomes the current environment and its page directory is
\* loaded.  That the status is set to RUNNING is part of Schedule.
env_run(x, pg) ==
    /\ curenv' = x
    /\ kernel' = IF pg[x] THEN "up" ELSE "no_vm"

\* schedule_process from slot idx over the table (st, rn, pg), and the env_run
\* it ends with.  Sets env_status', env_runs', curenv' and kernel'.
Schedule(idx, st, rn, pg) ==
    \E x \in Envs :
        /\ Picks(st, idx, x)
        /\ LET rn1 == [y \in Envs |-> IF Ticked(st, idx, x, y)
                                      THEN Bump(rn[y]) ELSE rn[y]]
           IN /\ env_runs' = [rn1 EXCEPT ![x] = Bump(@)]
              /\ env_status' = [y \in Envs |->
                    IF y = x THEN "RUNNING"
                    ELSE IF Ticked(st, idx, x, y) /\ rn1[y] = 0
                         THEN "RUNNABLE" ELSE st[y]]
        /\ env_run(x, pg)

\* The current environment is in a system call.
InCall == kernel = "up" /\ curenv # Nil

\* The call met an error the code does not survive.
Crash(reason) ==
    /\ kernel' = reason
    /\ UNCHANGED <<env_status, env_runs, env_pgdir, curenv>>
    /\ UNCHANGED linkVars
    /\ UNCHANGED idVars
-----------------------------------------------------------------------------
(***************************************************************************)
(* env_alloc and env_free                                                  *)
(***************************************************************************)

\* Mutant of Alloc: env_setup_vm leaves env_pgdir as the last owner had it.
AllocNoPgdir(e, id, parent, nrThread) ==
    /\ e = env_free_list /\ e # Nil
    /\ env_free_list' = env_link[e]
    /\ env_id' = [env_id EXCEPT ![e] = id]
    /\ env_parent_id' = [env_parent_id EXCEPT ![e] = parent]
    /\ env_nr_thread' = [nrThread EXCEPT ![e] = 1]
    /\ UNCHANGED <<env_pgdir, env_link>>

\* The entry e as env_alloc leaves it; pg is the table of page directories.
Alloc(e, id, parent, nrThread) ==
    /\ e = env_free_list /\ e # Nil
    /\ env_free_list' = env_link[e]
    /\ env_id' = [env_id EXCEPT ![e] = id]
    /\ env_parent_id' = [env_parent_id EXCEPT ![e] = parent]
    /\ env_nr_thread' = [nrThread EXCEPT ![e] = 1]
    /\ env_pgdir' = [env_pgdir EXCEPT ![e] = TRUE]
    /\ UNCHANGED env_link

\* The table with entry e made runnable, never run.
Fresh(st, e) == [st EXCEPT ![e] = "RUNNABLE"]
FreshRuns(e) == [env_runs EXCEPT ![e] = 0]

\* Mutant of env_free: the slot keeps the link of the list it was last on.
env_free_keeps_link(e) ==
    /\ env_pgdir' = [env_pgdir EXCEPT ![e] = FALSE]
    /\ env_free_list' = e
    /\ UNCHANGED env_link

\* What env_free(e) does beside making the status FREE.
env_free(e) ==
    /\ env_pgdir' = [env_pgdir EXCEPT ![e] = FALSE]
    /\ env_link' = [env_link EXCEPT ![e] = env_free_list]
    /\ env_free_list' = e

\* env_create(e): a program loaded from the disk.  load_icode fills its memory
\* and the registers, which the table does not show.
env_create(e) == Alloc(e, e * IdSpan, NoEnv, env_nr_thread)

\* env_alloc fails for want of a slot or of a page, and no caller looks.
AllocFails == Crash("no_env")
-----------------------------------------------------------------------------
(***************************************************************************)
(* The system calls                                                        *)
(***************************************************************************)

\* Mutant of SysSleep: a sleeper stays RUNNING.
SysSleepStaysRunning(t) ==
    /\ InCall
    /\ Schedule(curenv, env_status,
                [env_runs EXCEPT ![curenv] = RunsMod - t], env_pgdir)
    /\ UNCHANGED env_pgdir
    /\ UNCHANGED linkVars
    /\ UNCHANGED idVars

\* sys_sleep(t); t <= 0 returns at once and is no step.
SysSleep(t) ==
    /\ InCall
    /\ Schedule(curenv, [env_status EXCEPT ![curenv] = "NOT_RUNNABLE"],
                [env_runs EXCEPT ![curenv] = RunsMod - t], env_pgdir)
    /\ UNCHANGED env_pgdir
    /\ UNCHANGED linkVars
    /\ UNCHANGED idVars

\* sys_exit: env_free(curenv) and the scheduler, from the slot just freed.
SysExit ==
    /\ InCall
    /\ env_free(curenv)
    /\ Schedule(curenv, [env_status EXCEPT ![curenv] = "FREE"], env_runs,
                [env_pgdir EXCEPT ![curenv] = FALSE])
    /\ UNCHANGED idVars

\* sys_fork, called with t in ebx.  The case of do_syscall has no break: the
\* parent goes on into sys_sleep(t), which returns at once for t <= 0 (here 0).
SysFork(t) ==
    /\ InCall
    /\ \/ /\ \E e \in Envs :
             /\ Alloc(e, e * IdSpan, env_id[curenv], env_nr_thread)
             /\ IF t = 0
                THEN /\ env_status' = Fresh(env_status, e)
                     /\ env_runs' = FreshRuns(e)
                     /\ UNCHANGED <<curenv, kernel>>
                ELSE Schedule(curenv,
                        Fresh([env_status EXCEPT ![curenv] = "NOT_RUNNABLE"], e),
                        [FreshRuns(e) EXCEPT ![curenv] = RunsMod - t],
                        [env_pgdir EXCEPT ![e] = TRUE])
       \/ AllocFails

\* sys_frun of a program on the disk: env_create, then the scheduler.  The
\* caller stays RUNNING in the table.
SysFrun ==
    /\ InCall
    /\ \/ \E e \in Envs :
             /\ env_create(e)
             /\ Schedule(curenv, Fresh(env_status, e), FreshRuns(e),
                         [env_pgdir EXCEPT ![e] = TRUE])
       \/ AllocFails
-----------------------------------------------------------------------------
(***************************************************************************)
(* Threads                                                                 *)
(***************************************************************************)

\* envid2env(id, &e, false): the live slot of that id, the id's own slot
\* before the others, then the lowest; Nil on error and curenv for -1.
IsNamed(id, e) == env_id[e] = id /\ env_status[e] # "FREE"
envid2env(id) ==
    IF id = NoEnv THEN curenv
    ELSE IF id \div IdSpan \in Envs /\ IsNamed(id, id \div IdSpan)
         THEN id \div IdSpan
    ELSE IF \E e \in Envs : IsNamed(id, e)
         THEN CHOOSE e \in Envs :
                /\ IsNamed(id, e)
                /\ \A f \in Envs : IsNamed(id, f) => e <= f
    ELSE Nil

\* find_thread_root stops at the first environment that is no thread of the
\* process of its parent.
IsRoot(e) == \/ env_parent_id[e] = NoEnv
             \/ env_parent_id[e] \div IdSpan # env_id[e] \div IdSpan

\* The environment n calls up from e, Nil once an id was gone.  NENV calls
\* reach the root or never will.
ThreadRoot(e) ==
    LET up[n \in 0 .. NENV] ==
            IF n = 0 THEN e
            ELSE LET f == up[n - 1]
                 IN IF f = Nil THEN Nil
                    ELSE IF IsRoot(f) THEN f ELSE envid2env(env_parent_id[f])
    IN up[NENV]

\* Mutant of SysCreateThread: the numbers of threads start from 0.
SysCreateThreadFromZero ==
    /\ InCall
    /\ LET root == ThreadRoot(curenv)
       IN IF root \in Envs /\ IsRoot(root)
          THEN \/ /\ env_nr_thread[root] <= MaxNrThread
                  /\ \E e \in Envs :
                       /\ Alloc(e,
                            env_id[curenv] - (env_id[curenv] % IdSpan)
                                + env_nr_thread[root] - 1,
                            env_id[curenv],
                            [env_nr_thread EXCEPT ![root] = @ + 1])
                       /\ env_status' = Fresh(env_status, e)
                       /\ env_runs' = FreshRuns(e)
                  /\ UNCHANGED <<curenv, kernel>>
               \/ AllocFails
          ELSE Crash("no_root")

\* sys_create_thread: a new slot that shares the page directory of the caller
\* and takes the next number of the process.
SysCreateThread ==
    /\ InCall
    /\ LET root == ThreadRoot(curenv)
       IN IF root \in Envs /\ IsRoot(root)
          THEN \/ /\ env_nr_thread[root] <= MaxNrThread
                  /\ \E e \in Envs :
                       /\ Alloc(e,
                            env_id[curenv] - (env_id[curenv] % IdSpan)
                                + env_nr_thread[root],
                            env_id[curenv],
                            [env_nr_thread EXCEPT ![root] = @ + 1])
                       /\ env_status' = Fresh(env_status, e)
                       /\ env_runs' = FreshRuns(e)
                  /\ UNCHANGED <<curenv, kernel>>
               \/ AllocFails
          ELSE Crash("no_root")
-----------------------------------------------------------------------------
(***************************************************************************)
(* Start-up and the specification                                          *)
(***************************************************************************)

\* The table after env_init.
Init ==
    /\ env_status = [e \in Envs |-> "FREE"]
    /\ env_runs = [e \in Envs |-> 0]
    /\ env_link = [e \in Envs |-> IF e = NENV - 1 THEN Nil ELSE e + 1]
    /\ env_id = [e \in Envs |-> -1]
    /\ env_parent_id = [e \in Envs |-> 0]
    /\ env_nr_thread = [e \in Envs |-> 0]
    /\ env_pgdir = [e \in Envs |-> FALSE]
    /\ env_free_list = 0
    /\ curenv = Nil
    /\ kernel = "up"

\* The end of main: env_create of the first program on the disk and the first
\* call of the scheduler, which starts at slot 0 while there is no curenv.
Boot ==
    /\ kernel = "up" /\ curenv = Nil
    /\ \E e \in Envs :
          /\ env_create(e)
          /\ Schedule(0, Fresh(env_status, e), FreshRuns(e),
                      [env_pgdir EXCEPT ![e] = TRUE])

ProcNext ==
    \/ Boot
    \/ \E t \in 1 .. SleepMax : SysSleep(t)
    \/ SysExit
    \/ \E t \in 0 .. SleepMax : SysFork(t)
    \/ SysFrun
    \/ SysCreateThread

Spec == Init /\ [][ProcNext]_procVars

\* Nothing takes the processor from a program (the preemption in timer_event
\* is commented out), so progress rests on the programs: this assumes that
\* every program that runs comes back to sleep or to exit.
Cooperative == WF_procVars(Boot)
               /\ WF_procVars(SysExit \/ \E t \in 1 .. SleepMax : SysSleep(t))
FairSpec == Spec /\ Cooperative
-----------------------------------------------------------------------------
(***************************************************************************)
(* Safety                                                                  *)
(***************************************************************************)

TypeOK ==
    /\ env_status \in [Envs -> Status]
    /\ env_runs \in [Envs -> Runs]
    /\ env_link \in [Envs -> Envs \cup {Nil}]
    /\ env_id \in [Envs -> Int]
    /\ env_parent_id \in [Envs -> Int]
    /\ env_nr_thread \in [Envs -> Nat]
    /\ env_pgdir \in [Envs -> BOOLEAN]
    /\ env_free_list \in Envs \cup {Nil}
    /\ curenv \in Envs \cup {Nil}
    /\ kernel \in KernelState

Free == {e \in Envs : env_status[e] = "FREE"}

\* env_free_list reaches exactly the FREE slots, once each, through the same
\* links the lists of blocked environments use: no live environment is handed
\* out by env_alloc and no free one is lost, in whatever order programs exit.
FreeListOK == kernel = "up" => IsList(env_link, env_free_list, Free)

\* The environment env_run resumes has a page directory, unless it is slot 0:
\* the kernel can crash in lcr3 only by falling back on a slot 0 whose program
\* has exited.  While the kernel is up exactly the live slots have one.
RunsInItsMemory ==
    /\ kernel = "no_vm" => curenv = 0
    /\ kernel = "up" =>
          /\ \A e \in Envs : env_pgdir[e] <=> env_status[e] # "FREE"
          /\ curenv # Nil => env_status[curenv] = "RUNNING"

\* Ids are reused (the generation part is commented out), but a live process
\* shares its id with no live environment: only threads may be confused.
ProcessIdsUnique ==
    \A e, f \in Envs \ Free :
        e # f /\ env_id[e] = env_id[f] => env_id[e] % IdSpan # 0
-----------------------------------------------------------------------------
(***************************************************************************)
(* What a step may never do                                                *)
(***************************************************************************)

\* Every switch brings the scan closer to each runnable environment it passes
\* over, slot 0 excepted: NENV switches at most until that one runs.
RoundRobin ==
    [][\A e \in Envs \ {0} :
          /\ curenv # Nil /\ curenv' # curenv
          /\ env_status[e] = "RUNNABLE" /\ env_status'[e] = "RUNNABLE"
          => Dist(curenv', e) < Dist(curenv, e)]_procVars

\* An environment that is switched out keeps the status RUNNING only when it has
\* loaded a program (sys_frun): it is then neither current nor on any list nor
\* ever run again, unless it is slot 0.  No other call may lose its caller so.
OnlyLoaderLeftRunning ==
    [][/\ curenv # Nil /\ curenv' # curenv /\ env_status'[curenv] = "RUNNING"
       => \E e \in Envs \ {curenv} :
             env_status[e] = "FREE" /\ env_parent_id'[e] = NoEnv]_procVars
-----------------------------------------------------------------------------
(***************************************************************************)
(* Liveness, of cooperative programs                                       *)
(***************************************************************************)

\* A runnable environment other than slot 0 is run.
RunnableRuns ==
    \A e \in Envs \ {0} :
        env_status[e] = "RUNNABLE"
            ~> env_status[e] = "RUNNING" \/ kernel # "up"

\* A sleeper wakes up, slot 0 included.
SleeperWakes ==
    \A e \in Envs :
        env_status[e] = "NOT_RUNNABLE"
            ~> env_status[e] # "NOT_RUNNABLE" \/ kernel # "up"
=============================================================================
