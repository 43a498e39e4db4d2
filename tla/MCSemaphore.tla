---------------------------- MODULE MCSemaphore ----------------------------
(***************************************************************************)
(* Small instances of Semaphore for TLC, one for each set of names and,    *)
(* with one name, for programs that create semaphores in every way.        *)
(***************************************************************************)
EXTENDS Semaphore, TLC

VARIABLES
    used,   \* the names the programs of a behaviour use: never changed
    tidy    \* do they create semaphores of a type of their own with 0 units or
            \* 1, and keep to these values? never changed

\* The names are interchangeable.
NameSymmetry == Permutations(Names)

\* With one name and tidy programs the semaphore lives among all process calls;
\* with two names, or with one and untidy programs, only among those that change
\* who may wait: nobody sleeps, no thread is created.
OneName == \E n \in Names : used = {n}
FewCalls == Boot \/ SysFork(0) \/ SysExit
Calls == (OneName /\ tidy /\ ProcNext) \/ FewCalls
Tidy == sem_lost = {} /\ sem_val \in [Sems -> 0 .. 1]

MCInit == /\ SInit
          /\ used \in (SUBSET Names) \ {{}}
          /\ tidy \in {TRUE, ~OneName}
MCNext == /\ SemStep \/ (Calls /\ UNCHANGED semVars)
          /\ AbsOpen' \subseteq used
          /\ tidy => Tidy'
          /\ UNCHANGED <<used, tidy>>
MCSpec == MCInit /\ [][MCNext]_<<vars, used, tidy>>
=============================================================================
