--------------------------- MODULE MCAddressSpace ---------------------------
(***************************************************************************)
(* AddressSpace for TLC.                                                   *)
(***************************************************************************)
EXTENDS AddressSpace

\* Two tables; the second page is mapped twice, as by two segments on a page.
TwoTables == << [at |-> <<1, 1>>, holds |-> 0],
                [at |-> <<0, 0>>, holds |-> 0], [at |-> <<0, 0>>, holds |-> 1] >>
OnePage == << [at |-> <<0, 0>>, holds |-> 0] >>

\* Is this a behaviour in which nobody exits who shares its directory?
VARIABLE apart

ExitsAlone ==
    \A e \in Alive : env_pgdir'[e] = Nil =>
        \A f \in Alive \ {e} : env_pgdir[f] # env_pgdir[e]

\* Where threads do, what programs write makes no difference to the pages.
Writes == env_pgdir' = env_pgdir /\ data' # data

MCInit == Init /\ apart \in {b \in BOOLEAN : b \/ SharedExit}
MCNext == /\ Next
          /\ IF apart THEN ExitsAlone ELSE ~Writes
          /\ UNCHANGED apart
MCSpec == MCInit /\ [][MCNext]_<<vars, apart>>

\* The free pages are a list, whatever threads do, and everything has its type: also
\* a count that is counted down from 0.
PagesOK == TypeOK /\ PageListOK

\* MappedOnce of AddressSpace, while no thread exits from under another.
MappedOnceApart == apart => MappedOnce

\* ImplementsMemory of AddressSpace, while no thread exits from under another.
ImplementsMemoryApart ==
    /\ apart => Private!MemInit
    /\ [][apart => [Private!MemNext]_(Private!memVars)]_<<vars, apart>>
=============================================================================
