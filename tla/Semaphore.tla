----------------------------- MODULE Semaphore -----------------------------
(***************************************************************************)
(* The named semaphores of the kernel (kernel/src/process/semaphore.c),    *)
(* composed with the process table.  A blocked environment is chained into *)
(* sem_blocklist through env_link, the field that also links the free list *)
(* of environments, and is NOT_RUNNABLE, the status of a sleeper too: the  *)
(* scheduler counts its env_runs up like a sleeper's.                      *)
(*                                                                         *)
(* A call that fails (a name in use or not found, no semaphore left)       *)
(* changes nothing: do_syscall drops the result, so it is not even seen by *)
(* the program.  Such calls are stuttering steps.                          *)
(***************************************************************************)
EXTENDS Process

CONSTANTS
    NR_SEM,     \* number of semaphores (32)
    Names,      \* the names programs use
    MaxDebt,    \* bound: how far below 0 a semaphore may start
    MaxVal,     \* bound: the largest value of a semaphore
    RootWaits   \* may the program in slot 0 block on a semaphore?  It is the
                \* shell, which uses none: FALSE where a run relies on that.

ASSUME SemaphoreAssumption ==
    /\ NR_SEM \in Nat /\ NR_SEM >= 1
    /\ MaxDebt \in Nat
    /\ MaxVal \in Nat /\ MaxVal >= 1
    /\ RootWaits \in BOOLEAN
ASSUME NamesAssumption == "" \notin Names

VARIABLES
    sem_name,       \* index -> name, "" before the first use
    sem_val,        \* index -> value
    sem_type,       \* index -> FREE, GENERAL or BINARY
    sem_blocklist,  \* index -> the environment that blocked last, or Nil
    sem_next,       \* index -> next free semaphore, or Nil
    sem_free_list,  \* first free semaphore, or Nil
    sem_lost        \* history: taken off the free list by a sem_init whose
                    \* type is SEM_TYPE_FREE; no action looks at it

semVars == <<sem_name, sem_val, sem_type, sem_blocklist, sem_next,
             sem_free_list, sem_lost>>
vars    == <<procVars, semVars>>

Sems == 0 .. NR_SEM - 1
Vals == -MaxDebt .. MaxVal

\* A program may ask for any number: every one but SEM_TYPE_FREE and
\* SEM_TYPE_GENERAL acts as SEM_TYPE_BINARY does.
SemType == {"FREE", "GENERAL", "BINARY"}

\* init_sem
SemTableInit ==
    /\ sem_name = [i \in Sems |-> ""]
    /\ sem_val = [i \in Sems |-> 0]
    /\ sem_type = [i \in Sems |-> "FREE"]
    /\ sem_blocklist = [i \in Sems |-> Nil]
    /\ sem_next = [i \in Sems |-> IF i = NR_SEM - 1 THEN Nil ELSE i + 1]
    /\ sem_free_list = 0
    /\ sem_lost = {}

Open == {i \in Sems : sem_type[i] # "FREE"}

\* sem_name2index finds i: the first open semaphore of that name.
IsIndex(n, i) ==
    /\ i \in Open /\ sem_name[i] = n
    /\ \A j \in Open : sem_name[j] = n => i <= j
-----------------------------------------------------------------------------
(***************************************************************************)
(* The operations                                                          *)
(***************************************************************************)

\* What a creation notes in the history.
Loses(i, type) == sem_lost' = IF type = "FREE" THEN sem_lost \cup {i} ELSE sem_lost

\* Mutant of SemInit: no look whether the name is in use.
SemInitAnyName(n, v, type) ==
    /\ InCall
    /\ sem_free_list # Nil
    /\ LET i == sem_free_list
       IN /\ sem_name' = [sem_name EXCEPT ![i] = n]
          /\ sem_val' = [sem_val EXCEPT ![i] = v]
          /\ sem_type' = [sem_type EXCEPT ![i] = type]
          /\ sem_blocklist' = [sem_blocklist EXCEPT ![i] = Nil]
          /\ sem_free_list' = sem_next[i]
          /\ Loses(i, type)
    /\ UNCHANGED sem_next
    /\ UNCHANGED procVars

\* Mutant of SemInit: the block list of the last owner stays.
SemInitKeepsWaiters(n, v, type) ==
    /\ InCall
    /\ \A j \in Open : sem_name[j] # n
    /\ sem_free_list # Nil
    /\ LET i == sem_free_list
       IN /\ sem_name' = [sem_name EXCEPT ![i] = n]
          /\ sem_val' = [sem_val EXCEPT ![i] = v]
          /\ sem_type' = [sem_type EXCEPT ![i] = type]
          /\ sem_free_list' = sem_next[i]
          /\ Loses(i, type)
    /\ UNCHANGED <<sem_blocklist, sem_next>>
    /\ UNCHANGED procVars

\* sem_init.  Neither val nor type is looked at: a semaphore made with
\* SEM_TYPE_FREE is off the free list but never open, so nobody finds it again,
\* while its name stays free.
SemInit(n, v, type) ==
    /\ InCall
    /\ \A j \in Open : sem_name[j] # n
    /\ sem_free_list # Nil
    /\ LET i == sem_free_list
       IN /\ sem_name' = [sem_name EXCEPT ![i] = n]
          /\ sem_val' = [sem_val EXCEPT ![i] = v]
          /\ sem_type' = [sem_type EXCEPT ![i] = type]
          /\ sem_blocklist' = [sem_blocklist EXCEPT ![i] = Nil]
          /\ sem_free_list' = sem_next[i]
          /\ Loses(i, type)
    /\ UNCHANGED sem_next
    /\ UNCHANGED procVars

\* sem_destory: whoever is blocked on the semaphore stays blocked.
SemDestroy(n) ==
    /\ InCall
    /\ \E i \in Open :
          /\ IsIndex(n, i)
          /\ sem_type' = [sem_type EXCEPT ![i] = "FREE"]
          /\ sem_next' = [sem_next EXCEPT ![i] = sem_free_list]
          /\ sem_free_list' = i
    /\ UNCHANGED <<sem_name, sem_val, sem_blocklist, sem_lost>>
    /\ UNCHANGED procVars

\* Mutant of Block: the rest of the block list is not linked behind.
BlockForgetsRest(i) ==
    /\ RootWaits \/ curenv # 0
    /\ sem_blocklist' = [sem_blocklist EXCEPT ![i] = curenv]
    /\ Schedule(curenv, [env_status EXCEPT ![curenv] = "NOT_RUNNABLE"],
                env_runs, env_pgdir)
    /\ UNCHANGED <<sem_val, env_link, env_pgdir, env_free_list>>
    /\ UNCHANGED idVars

\* The current environment is pushed on the block list of i and another runs.
Block(i) ==
    /\ RootWaits \/ curenv # 0
    /\ env_link' = [env_link EXCEPT ![curenv] = sem_blocklist[i]]
    /\ sem_blocklist' = [sem_blocklist EXCEPT ![i] = curenv]
    /\ Schedule(curenv, [env_status EXCEPT ![curenv] = "NOT_RUNNABLE"],
                env_runs, env_pgdir)
    /\ UNCHANGED <<sem_val, env_pgdir, env_free_list>>
    /\ UNCHANGED idVars

\* sem_wait
SemWait(n) ==
    /\ InCall
    /\ \E i \in Open :
          /\ IsIndex(n, i)
          /\ \/ /\ sem_val[i] > 0
                /\ sem_val' = [sem_val EXCEPT ![i] = @ - 1]
                /\ UNCHANGED sem_blocklist
                /\ UNCHANGED procVars
             \/ /\ ~(sem_val[i] > 0)
                /\ Block(i)
    /\ UNCHANGED <<sem_name, sem_type, sem_next, sem_free_list, sem_lost>>

\* Mutant of Wake: the value is raised as well as handed over.
WakeAndRaise(i) ==
    LET e == sem_blocklist[i]
    IN /\ env_status' = [env_status EXCEPT ![e] = "RUNNABLE"]
       /\ sem_blocklist' = [sem_blocklist EXCEPT ![i] = env_link[e]]
       /\ sem_val' = [sem_val EXCEPT ![i] = @ + 1]
       /\ UNCHANGED <<env_runs, env_pgdir, curenv, kernel>>
       /\ UNCHANGED linkVars
       /\ UNCHANGED idVars

\* Mutant of Wake: the list is emptied, not popped.
WakeDropsRest(i) ==
    LET e == sem_blocklist[i]
    IN /\ env_status' = [env_status EXCEPT ![e] = "RUNNABLE"]
       /\ sem_blocklist' = [sem_blocklist EXCEPT ![i] = Nil]
       /\ UNCHANGED <<sem_val, env_runs, env_pgdir, curenv, kernel>>
       /\ UNCHANGED linkVars
       /\ UNCHANGED idVars

\* The environment blocked last is made runnable; the value stays: the unit
\* is handed over, not put back.
Wake(i) ==
    LET e == sem_blocklist[i]
    IN /\ env_status' = [env_status EXCEPT ![e] = "RUNNABLE"]
       /\ sem_blocklist' = [sem_blocklist EXCEPT ![i] = env_link[e]]
       /\ UNCHANGED <<sem_val, env_runs, env_pgdir, curenv, kernel>>
       /\ UNCHANGED linkVars
       /\ UNCHANGED idVars

\* sem_post; of a binary semaphore that is not taken it does nothing.
SemPost(n) ==
    /\ InCall
    /\ \E i \in Open :
          /\ IsIndex(n, i)
          /\ \/ /\ \/ sem_val[i] > 0 /\ sem_type[i] = "GENERAL"
                   \/ ~(sem_val[i] > 0) /\ sem_blocklist[i] = Nil
                /\ sem_val[i] < MaxVal
                /\ sem_val' = [sem_val EXCEPT ![i] = @ + 1]
                /\ UNCHANGED sem_blocklist
                /\ UNCHANGED procVars
             \/ /\ ~(sem_val[i] > 0) /\ sem_blocklist[i] # Nil
                /\ Wake(i)
    /\ UNCHANGED <<sem_name, sem_type, sem_next, sem_free_list, sem_lost>>
-----------------------------------------------------------------------------
SemStep ==
    \E n \in Names :
        \/ \E v \in Vals, type \in SemType : SemInit(n, v, type)
        \/ SemDestroy(n)
        \/ SemWait(n)
        \/ SemPost(n)

SInit == Init /\ SemTableInit
SNext == \/ ProcNext /\ UNCHANGED semVars
         \/ SemStep
SSpec == SInit /\ [][SNext]_vars
-----------------------------------------------------------------------------
(***************************************************************************)
(* Safety                                                                  *)
(***************************************************************************)

SemTypeOK ==
    /\ TypeOK
    /\ sem_name \in [Sems -> Names \cup {""}]
    /\ sem_val \in [Sems -> Vals]
    /\ sem_type \in [Sems -> SemType]
    /\ sem_blocklist \in [Sems -> Envs \cup {Nil}]
    /\ sem_next \in [Sems -> Sems \cup {Nil}]
    /\ sem_free_list \in Sems \cup {Nil}
    /\ sem_lost \in SUBSET Sems

\* A semaphore with units left has nobody blocked on it: a post hands its unit
\* to a blocked environment if there is one, and a wait blocks only when none is
\* left.
NoLostWakeup == \A i \in Open : sem_val[i] > 0 => sem_blocklist[i] = Nil

\* Every semaphore is open, on the list sem_free_list, or was lost by a creation
\* as free: none is opened twice, none is lost by any other call, and a lost one
\* never comes back.  No two open semaphores have one name.
SemTableOK ==
    /\ IsList(sem_next, sem_free_list, Sems \ (Open \cup sem_lost))
    /\ sem_lost \cap Open = {}
    /\ \A i, j \in Open : sem_name[i] = sem_name[j] => i = j

\* The environments blocked on open semaphores: W[i] is the list of i.  They
\* are not runnable and on no other list, though all the lists and the free
\* list share env_link: a post wakes an environment that waits for it.
Blocked(W) ==
    \A i \in Open :
        /\ IsList(env_link, sem_blocklist[i], W[i])
        /\ \A e \in W[i] : env_status[e] = "NOT_RUNNABLE"
        /\ \A j \in Open : i # j => W[i] \cap W[j] = {}
BlockListsOK == kernel = "up" => \E W \in [Sems -> SUBSET Envs] : Blocked(W)
-----------------------------------------------------------------------------
(***************************************************************************)
(* What a step may never do                                                *)
(***************************************************************************)

\* The environments on the block list of i, followed along env_link.
Waiting(i) ==
    LET hop[k \in 0 .. NENV] ==
            IF k = 0 THEN sem_blocklist[i]
            ELSE IF hop[k - 1] = Nil THEN Nil ELSE env_link[hop[k - 1]]
    IN {hop[k] : k \in 0 .. NENV} \ {Nil}

\* Not runnable, but neither asleep nor on the list of an open semaphore:
\* nothing will ever wake it.
Stranded ==
    {e \in Envs : /\ env_status[e] = "NOT_RUNNABLE"
                  /\ env_runs[e] <= AwakeMax
                  /\ \A i \in Open : e \notin Waiting(i)}

\* Only a sem_destory may strand environments, those blocked on the semaphore
\* it destroys; every other step leaves a way to wake each blocked one.
OnlyDestroyStrands ==
    [][kernel' = "up" =>
          Stranded' \subseteq Stranded \cup
              UNION {Waiting(i) : i \in {j \in Open : sem_type'[j] = "FREE"}}]_vars
-----------------------------------------------------------------------------
(***************************************************************************)
(* The semaphores implement SemaphoreSpec                                  *)
(***************************************************************************)

AbsOpen == {sem_name[i] : i \in Open}
AbsValue == [n \in Names |-> IF \E i \in Open : IsIndex(n, i)
                            THEN sem_val[CHOOSE i \in Open : IsIndex(n, i)]
                            ELSE 0]
AbsWaiting == [n \in Names |-> UNION {Waiting(i) : i \in {j \in Open : IsIndex(n, j)}}]

A == INSTANCE SemaphoreSpec
        WITH Clients <- Envs, SemNames <- Names,
             open <- AbsOpen, value <- AbsValue, waiting <- AbsWaiting

\* Every step of the kernel opens or closes a semaphore, takes or adds a unit,
\* lets one environment wait, hands a unit to one waiting, or is none of the
\* semaphores' business: no wait or post is lost or counted twice.
Implements == A!AbsSpec
=============================================================================
