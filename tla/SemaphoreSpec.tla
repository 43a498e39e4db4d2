--------------------------- MODULE SemaphoreSpec ---------------------------
(***************************************************************************)
(* What the named semaphores promise their users, without tables, lists or *)
(* a scheduler: a semaphore counts units, a wait takes one or waits, and a *)
(* post gives its unit to one of those waiting, or keeps it.  Who of them  *)
(* gets it is left open.  Closing a semaphore forgets those waiting for it.*)
(***************************************************************************)
EXTENDS Integers

CONSTANTS Clients, SemNames

VARIABLES open,      \* the names of the open semaphores
          value,     \* name -> units left, 0 when closed; may start below 0
          waiting    \* name -> the clients waiting for a unit

absVars == <<open, value, waiting>>

AbsTypeOK ==
    /\ open \in SUBSET SemNames
    /\ value \in [SemNames -> Int]
    /\ waiting \in [SemNames -> SUBSET Clients]

AbsInit ==
    /\ open = {}
    /\ value = [n \in SemNames |-> 0]
    /\ waiting = [n \in SemNames |-> {}]

OpenSem(n) ==
    /\ n \notin open
    /\ open' = open \cup {n}
    /\ value'[n] \in Int
    /\ value' = [value EXCEPT ![n] = value'[n]]
    /\ UNCHANGED waiting

CloseSem(n) ==
    /\ n \in open
    /\ open' = open \ {n}
    /\ value' = [value EXCEPT ![n] = 0]
    /\ waiting' = [waiting EXCEPT ![n] = {}]

Take(n) ==
    /\ n \in open /\ value[n] > 0
    /\ value' = [value EXCEPT ![n] = @ - 1]
    /\ UNCHANGED <<open, waiting>>

StartWaiting(n) ==
    /\ n \in open /\ value[n] <= 0
    /\ \E c \in Clients :
          /\ \A m \in SemNames : c \notin waiting[m]
          /\ waiting' = [waiting EXCEPT ![n] = @ \cup {c}]
    /\ UNCHANGED <<open, value>>

Give(n) ==
    /\ n \in open
    /\ \E c \in waiting[n] : waiting' = [waiting EXCEPT ![n] = @ \ {c}]
    /\ UNCHANGED <<open, value>>

Put(n) ==
    /\ n \in open /\ waiting[n] = {}
    /\ value' = [value EXCEPT ![n] = @ + 1]
    /\ UNCHANGED <<open, waiting>>

AbsNext == \E n \in SemNames : \/ OpenSem(n)
                               \/ CloseSem(n)
                               \/ Take(n)
                               \/ StartWaiting(n)
                               \/ Give(n)
                               \/ Put(n)

AbsSpec == AbsInit /\ [][AbsNext]_absVars
=============================================================================
