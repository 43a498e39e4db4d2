---------------------------- MODULE AddressSpace ----------------------------
(***************************************************************************)
(* The memory of the programs (kernel/src/memory/pmap.c and the parts of   *)
(* process/ that use it): the physical pages with their reference counts   *)
(* and their free list, and the page directories and tables in them, as    *)
(* programs are loaded, fork, create threads, write to memory and exit.    *)
(*                                                                         *)
(* Left out are the kernel's own entries, the same in every directory, and *)
(* the process table: a slot is in use if it has a directory, any slot     *)
(* that is not may be given out, and any program may run next.  (Process   *)
(* says which.)  A system call is one step.                                *)
(*                                                                         *)
(* A page that cannot be allocated is used nevertheless: the kernel writes *)
(* to address 0, and nothing is modelled afterwards; nor is it when a      *)
(* program faults, for it repeats the instruction for ever (see Gate).     *)
(*                                                                         *)
(* A page has entries or data.  A directory that was freed and is now a    *)
(* page of a program has no entries: who still runs in it faults.          *)
(***************************************************************************)
EXTENDS Integers, Sequences, FiniteSets, Lists

CONSTANTS
    NENV,        \* slots of envs[] (32)
    NPAGES,      \* pages for programs (2^15 - 0x280, less the kernel's tables)
    NENTRIES,    \* entries of a directory and of a table (1024)
    RefMod,      \* pp_ref is a uint16_t (2^16)
    Layout,      \* the pages of a program in the order the loader maps them, the
                 \* stack first: the address, and what the loader reads into it
    Values,      \* what a page of a program may hold, among it 0, all zeros
    SharedExit   \* bound when FALSE: who shares its directory does not exit

Envs  == 0 .. NENV - 1
Pages == 0 .. NPAGES - 1
Index == 0 .. NENTRIES - 1
Addresses == Index \X Index    \* PDX and PTX; the offset is left out

ASSUME MemoryAssumption ==
    /\ NENV \in Nat /\ NENV >= 1
    /\ NPAGES \in Nat /\ NPAGES >= 1
    /\ NENTRIES \in Nat /\ NENTRIES >= 1
    /\ RefMod \in Nat /\ RefMod > NPAGES /\ RefMod >= 3
    /\ Layout \in Seq([at : Addresses, holds : Values]) /\ Layout # <<>>
    /\ 0 \in Values /\ Nil \notin Values
    /\ SharedExit \in BOOLEAN

VARIABLES
    pp_ref,          \* page -> reference count
    pp_link,         \* page -> next free page, or Nil
    page_free_list,  \* first free page, or Nil
    entry,           \* page -> its entries, when it is a directory or a table:
                     \* the page of a table or of a program, Nil if not present
    data,            \* page -> what it holds, when it is a page of a program
    env_pgdir,       \* slot -> page of its directory, Nil when it is free
    kernel           \* "up", or why it stopped

pageVars == <<pp_ref, pp_link, page_free_list, entry, data>>
vars == <<pageVars, env_pgdir, kernel>>

\* "no_env": the result of a failed env_alloc was used; "no_page": that of a
\* failed page_alloc; "fault": a program touched a page it does not have.
KernelState == {"up", "no_env", "no_page", "fault"}

Empty == [i \in Index |-> Nil]
Alive == {e \in Envs : env_pgdir[e] # Nil}

\* page_init
Init ==
    /\ pp_ref = [p \in Pages |-> 0]
    /\ pp_link = [p \in Pages |-> IF p = NPAGES - 1 THEN Nil ELSE p + 1]
    /\ page_free_list = 0
    /\ entry = [p \in Pages |-> Empty]
    /\ data = [p \in Pages |-> 0]
    /\ env_pgdir = [e \in Envs |-> Nil]
    /\ kernel = "up"
-----------------------------------------------------------------------------
(***************************************************************************)
(* Pages (pmap.c).  The operators take and return the state m of the pages;*)
(* m.ok is FALSE once a page was missing.                                  *)
(***************************************************************************)

Mem == [ref |-> pp_ref, link |-> pp_link, free |-> page_free_list,
        entry |-> entry, data |-> data, ok |-> TRUE]

Failed(m) == [m EXCEPT !.ok = FALSE]

Up(r)   == (r + 1) % RefMod
Down(r) == (r + RefMod - 1) % RefMod

\* The page is m.free.
page_alloc(m) ==
    [m EXCEPT !.free = m.link[m.free],
              !.entry[m.free] = Empty, !.data[m.free] = 0]

page_free(m, p) == [m EXCEPT !.link[p] = m.free, !.free = p]

\* Mutant of page_decref: the count is not looked at.
page_decref_always(m, p) == page_free([m EXCEPT !.ref[p] = Down(@)], p)

page_decref(m, p) ==
    LET n == [m EXCEPT !.ref[p] = Down(@)]
    IN IF n.ref[p] = 0 THEN page_free(n, p) ELSE n

\* Afterwards directory d has a table for addresses with index i.
pgdir_walk(m, d, i) ==
    IF m.entry[d][i] # Nil THEN m
    ELSE IF m.free = Nil THEN Failed(m)
    ELSE [page_alloc(m) EXCEPT !.ref[m.free] = Up(@), !.entry[d][i] = m.free]

page_remove(m, t, j) ==
    IF m.entry[t][j] = Nil THEN m
    ELSE [page_decref(m, m.entry[t][j]) EXCEPT !.entry[t][j] = Nil]

\* Page p is mapped at address a.
page_insert(m, d, p, a) ==
    LET w == pgdir_walk(m, d, a[1])
        t == w.entry[d][a[1]]
    IN IF ~w.ok THEN w
       ELSE [page_remove([w EXCEPT !.ref[p] = Up(@)], t, a[2])
                EXCEPT !.entry[t][a[2]] = p]

\* mm_malloc of one page.
mm_malloc(m, d, a) ==
    LET w == pgdir_walk(m, d, a[1])
    IN IF ~w.ok \/ w.free = Nil THEN Failed(m)
       ELSE page_insert(page_alloc(w), d, w.free, a)

\* env_setup_vm: the directory is page m.free.
env_setup_vm(m) == [page_alloc(m) EXCEPT !.ref[m.free] = Up(@)]

\* A page of the program is mapped into directory d and read from the disk.
LoadPage(m, d, page) ==
    LET n == mm_malloc(m, d, page.at)
    IN IF ~n.ok THEN n
       ELSE [n EXCEPT !.data[n.entry[n.entry[d][page.at[1]]][page.at[2]]] = page.holds]

\* load_icode into directory d: after k pages of the program.
load_icode(m, d) ==
    LET s[k \in 0 .. Len(Layout)] ==
            IF k = 0 THEN m
            ELSE IF ~s[k - 1].ok THEN s[k - 1] ELSE LoadPage(s[k - 1], d, Layout[k])
    IN s[Len(Layout)]

\* Mutants of CopyPage: the page is mapped, not copied; it is not filled.
CopyPageShares(m, table, c, a) == page_insert(m, c, m.entry[table][a[2]], a)
CopyPageNoCopy(m, table, c, a) ==
    IF m.free = Nil THEN Failed(m)
    ELSE page_insert([page_alloc(m) EXCEPT !.ref[m.free] = 1], c, m.free, a)

\* What fork_store_pgdir does with the page at address a: table is the parent's.
CopyPage(m, table, c, a) ==
    IF m.free = Nil THEN Failed(m)
    ELSE LET n == page_insert([page_alloc(m) EXCEPT !.ref[m.free] = 1], c, m.free, a)
         IN IF ~n.ok THEN n
            ELSE [n EXCEPT !.data[m.free] = n.data[n.entry[table][a[2]]]]

\* What it does with entry i: the table is copied page by page, unless the child
\* has a table there by now.
CopyTable(m, p, c, i) ==
    LET table == m.entry[p][i]
        s[j \in 0 .. NENTRIES] ==
            IF j = 0 THEN m
            ELSE IF s[j - 1].ok /\ s[j - 1].entry[table][j - 1] # Nil
                 THEN CopyPage(s[j - 1], table, c, <<i, j - 1>>)
                 ELSE s[j - 1]
    IN IF m.ok /\ table # Nil /\ m.entry[c][i] = Nil THEN s[NENTRIES] ELSE m

\* fork_store_pgdir from directory p to c.
fork_store_pgdir(m, p, c) ==
    LET s[i \in 0 .. NENTRIES] ==
            IF i = 0 THEN m ELSE CopyTable(s[i - 1], p, c, i - 1)
    IN s[NENTRIES]
-----------------------------------------------------------------------------
(***************************************************************************)
(* The programs                                                            *)
(***************************************************************************)

\* The page of address a in directory d, as the processor finds it, or Nil.
Lookup(d, a) ==
    IF entry[d][a[1]] = Nil THEN Nil ELSE entry[entry[d][a[1]]][a[2]]

\* A program that finds its pages can run; another faults at once.
CanRun(e) ==
    /\ e \in Alive
    /\ \A k \in DOMAIN Layout : Lookup(env_pgdir[e], Layout[k].at) # Nil

Stops(why) == kernel' = why /\ UNCHANGED <<pageVars, env_pgdir>>

\* The pages are as in m, and slot e has directory d.
Becomes(m, e, d) ==
    IF ~m.ok THEN Stops("no_page")
    ELSE /\ pp_ref' = m.ref /\ pp_link' = m.link /\ page_free_list' = m.free
         /\ entry' = m.entry /\ data' = m.data
         /\ env_pgdir' = [env_pgdir EXCEPT ![e] = d]
         /\ UNCHANGED kernel

\* env_alloc has no slot or no page for a directory, and its caller goes on.
AllocFails ==
    /\ kernel = "up"
    /\ Alive = Envs \/ page_free_list = Nil
    /\ Alive = {} \/ \E e \in Envs : CanRun(e)
    /\ Stops("no_env")

\* env_create, from main (nothing runs yet) or from sys_frun.
Load(c) ==
    /\ kernel = "up" /\ page_free_list # Nil
    /\ Alive = {} \/ \E e \in Envs : CanRun(e)
    /\ c \notin Alive
    /\ Becomes(load_icode(env_setup_vm(Mem), page_free_list), c, page_free_list)

\* sys_fork by e, and c is the child.
Fork(e, c) ==
    /\ kernel = "up" /\ page_free_list # Nil
    /\ CanRun(e) /\ c \notin Alive
    /\ Becomes(fork_store_pgdir(env_setup_vm(Mem), env_pgdir[e], page_free_list),
               c, page_free_list)

\* sys_create_thread by e, and c is the thread: the directory env_alloc has made
\* for it is dropped.
CreateThread(e, c) ==
    /\ kernel = "up" /\ page_free_list # Nil
    /\ CanRun(e) /\ c \notin Alive
    /\ Becomes(env_setup_vm(Mem), c, env_pgdir[e])

\* sys_exit by e: env_free returns the directory, but none of the pages in it.
Exit(e) ==
    /\ kernel = "up"
    /\ CanRun(e)
    /\ SharedExit \/ \A f \in Alive \ {e} : env_pgdir[f] # env_pgdir[e]
    /\ Becomes(page_decref(Mem, env_pgdir[e]), e, Nil)

\* A program writes to a page it has.
Write(e, a, v) ==
    /\ kernel = "up"
    /\ CanRun(e) /\ Lookup(env_pgdir[e], a) # Nil
    /\ data' = [data EXCEPT ![Lookup(env_pgdir[e], a)] = v]
    /\ UNCHANGED <<pp_ref, pp_link, page_free_list, entry, env_pgdir, kernel>>

\* irq_handle lets page faults pass, the program repeats the instruction for ever
\* and, since nothing takes the processor from it, no other one runs.
Fault(e) ==
    /\ kernel = "up"
    /\ e \in Alive /\ ~CanRun(e)
    /\ Stops("fault")

Next ==
    \/ AllocFails
    \/ \E c \in Envs : Load(c)
    \/ \E e, c \in Envs : Fork(e, c)
    \/ \E e, c \in Envs : CreateThread(e, c)
    \/ \E e \in Envs : Exit(e)
    \/ \E e \in Envs, a \in Addresses, v \in Values : Write(e, a, v)
    \/ \E e \in Envs : Fault(e)

Spec == Init /\ [][Next]_vars
-----------------------------------------------------------------------------
(***************************************************************************)
(* Safety                                                                  *)
(***************************************************************************)

TypeOK ==
    /\ pp_ref \in [Pages -> 0 .. RefMod - 1]
    /\ pp_link \in [Pages -> Pages \cup {Nil}]
    /\ page_free_list \in Pages \cup {Nil}
    /\ entry \in [Pages -> [Index -> Pages \cup {Nil}]]
    /\ data \in [Pages -> Values]
    /\ env_pgdir \in [Envs -> Pages \cup {Nil}]
    /\ kernel \in KernelState

\* The k-th free page, Nil from the end of the list on.
NthFree ==
    LET n[k \in 0 .. NPAGES] ==
            IF k = 0 THEN page_free_list
            ELSE IF n[k - 1] = Nil THEN Nil ELSE pp_link[n[k - 1]]
    IN n
FreePages == {NthFree[k] : k \in 0 .. NPAGES} \ {Nil}

\* The list of free pages ends: no page is freed that is free already, though
\* threads free their common directory and go on using it, and it is given to
\* others meanwhile.
PageListOK == NthFree[NPAGES] = Nil

\* Where a page is used: the directory d, its table i, or the page at <<i, j>>.
Dirs == {env_pgdir[e] : e \in Alive}
Uses == {<<d>> : d \in Dirs} \cup
        {<<d, i>> : d \in Dirs, i \in Index} \cup
        {<<d, i, j>> : d \in Dirs, i \in Index, j \in Index}
UsedPage(u) ==
    CASE Len(u) = 1 -> u[1]
      [] Len(u) = 2 -> entry[u[1]][u[2]]
      [] Len(u) = 3 -> Lookup(u[1], <<u[2], u[3]>>)

\* As long as no one of several threads exits: a page has one use, in one
\* address space, and no free page has one.
MappedOnce ==
    \A u \in Uses : UsedPage(u) # Nil =>
        /\ UsedPage(u) \notin FreePages
        /\ \A w \in Uses : UsedPage(w) = UsedPage(u) => w = u

\* "env_pgdir is an exception -- you need to increment env_pgdir's pp_ref for
\* env_free to work correctly": the count of a directory is that of those who
\* have it.
DirsCounted ==
    \A d \in Dirs : pp_ref[d] = Cardinality({e \in Alive : env_pgdir[e] = d})
-----------------------------------------------------------------------------
(***************************************************************************)
(* Programs have memory of their own                                       *)
(***************************************************************************)

Views == [e \in Envs |->
            [a \in Addresses |->
                IF e \notin Alive THEN Nil
                ELSE IF Lookup(env_pgdir[e], a) = Nil THEN Nil
                ELSE data[Lookup(env_pgdir[e], a)]]]

\* What a program finds at an address when it starts: the last page mapped there.
Image ==
    [a \in Addresses |->
        LET mapped == {k \in DOMAIN Layout : Layout[k].at = a}
        IN IF mapped = {} THEN Nil
           ELSE Layout[CHOOSE k \in mapped : \A l \in mapped : l <= k].holds]

Private == INSTANCE MemorySpec
    WITH Programs <- Envs, Ids <- Pages, Addrs <- Addresses, Vals <- Values,
         None <- Nil, Start <- Image, space <- env_pgdir, view <- Views

\* The pages and tables give every program the memory of MemorySpec, as long as
\* no one of several threads exits.
ImplementsMemory == Private!MemSpec
=============================================================================
