----------------------------- MODULE MemorySpec -----------------------------
(***************************************************************************)
(* What programs may expect of their memory, without pages and tables: a   *)
(* program that is loaded gets memory of its own, a child a copy of its    *)
(* parent's, and a thread shares that of its creator.  A write is seen by  *)
(* those who share the memory written, and by nobody else.                 *)
(***************************************************************************)
CONSTANTS Programs, Ids, Addrs, Vals, None,
          Start   \* address -> what a program finds there when it is loaded

VARIABLES space,   \* program -> the name of its memory, or None
          view     \* program -> address -> value, or None where nothing is

memVars == <<space, view>>

Nothing == [a \in Addrs |-> None]

Absent == {p \in Programs : space[p] = None}
Taken  == {space[p] : p \in Programs \ Absent}

MemInit ==
    /\ space = [p \in Programs |-> None]
    /\ view = [p \in Programs |-> Nothing]

Gets(p, id, v) ==
    /\ space' = [space EXCEPT ![p] = id]
    /\ view' = [view EXCEPT ![p] = v]

Appear(p) ==
    /\ p \in Absent
    /\ \E id \in Ids \ Taken : Gets(p, id, Start)

Copy(p, q) ==
    /\ p \notin Absent /\ q \in Absent
    /\ \E id \in Ids \ Taken : Gets(q, id, view[p])

Share(p, q) ==
    /\ p \notin Absent /\ q \in Absent
    /\ Gets(q, space[p], view[p])

Vanish(p) ==
    /\ p \notin Absent
    /\ Gets(p, None, Nothing)

Store(p, a, v) ==
    /\ p \notin Absent /\ view[p][a] # None
    /\ view' = [q \in Programs |->
                  IF space[q] = space[p] THEN [view[q] EXCEPT ![a] = v] ELSE view[q]]
    /\ UNCHANGED space

MemNext ==
    \/ \E p \in Programs : Appear(p) \/ Vanish(p)
    \/ \E p, q \in Programs : Copy(p, q) \/ Share(p, q)
    \/ \E p \in Programs, a \in Addrs, v \in Vals : Store(p, a, v)

MemSpec == MemInit /\ [][MemNext]_memVars
=============================================================================
