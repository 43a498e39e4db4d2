------------------------------- MODULE Paging -------------------------------
(***************************************************************************)
(* Linear addresses (include/mmu.h), the constant page directory that the  *)
(* kernel starts in (memory/entrypgdir.c), and page_init, which gives the   *)
(* rest of the memory out and maps all of it at KERNBASE (memory/pmap.c)    *)
(* through the very tables it is about to write.                           *)
(***************************************************************************)
EXTENDS Integers, Sequences

CONSTANTS
    NPTENTRIES,  \* entries of a table and of a directory (1024)
    PGSIZE,      \* bytes of a page (4096)
    KERNPDX,     \* the directory entry of KERNBASE (768)
    IOPHYSMEM, EXTPHYSMEM,  \* the first page of the hole for I/O, and the first
                            \* after it, where the kernel is (160 and 256)
    FIRSTFREE,   \* the first page that is given out (640)
    npages       \* pages of memory (2^15)

ASSUME PagingAssumption ==
    /\ NPTENTRIES \in Nat \ {0} /\ PGSIZE \in Nat \ {0}
    /\ KERNPDX \in 1 .. NPTENTRIES - 1
    /\ IOPHYSMEM \in Nat \ {0} /\ EXTPHYSMEM \in Nat /\ FIRSTFREE \in Nat /\ npages \in Nat
    /\ IOPHYSMEM < EXTPHYSMEM /\ EXTPHYSMEM < FIRSTFREE /\ FIRSTFREE < NPTENTRIES
    /\ NPTENTRIES <= npages /\ npages <= (NPTENTRIES - KERNPDX) * NPTENTRIES

Index  == 0 .. NPTENTRIES - 1
PTSIZE == NPTENTRIES * PGSIZE
KERNBASE == KERNPDX * PTSIZE

PDX(la) == (la \div PTSIZE) % NPTENTRIES
PTX(la) == (la \div PGSIZE) % NPTENTRIES
PGOFF(la) == la % PGSIZE
PGADDR(d, t, o) == d * PTSIZE + t * PGSIZE + o

Absent == -1
-----------------------------------------------------------------------------
(***************************************************************************)
(* The constant table: each entry is the physical page of its index        *)
(***************************************************************************)

\* Memory nobody gives out: the boot block and its stack were there.
ConventionalMemory == [i \in 0 .. IOPHYSMEM - 1 |-> i]
\* The screen is written here.
IOHole == [i \in IOPHYSMEM .. EXTPHYSMEM - 1 |-> i]
\* The kernel, with this table in it.
KernelImage == [i \in EXTPHYSMEM .. FIRSTFREE - 1 |-> i]
\* The first of the pages that are given out.
FirstPages == [i \in FIRSTFREE .. NPTENTRIES - 1 |-> i]

entry_pgtable ==
    [i \in Index |->
        CASE i \in DOMAIN ConventionalMemory -> ConventionalMemory[i]
          [] i \in DOMAIN IOHole -> IOHole[i]
          [] i \in DOMAIN KernelImage -> KernelImage[i]
          [] OTHER -> FirstPages[i]]

entry_pgdir(table) == [i \in Index |-> IF i \in {0, KERNPDX} THEN table ELSE Absent]

\* The memory as the kernel's first C code finds it: the directory, with pages that
\* hold tables; the tables; free pages, first to last; and whether all that has
\* been read and written by the kernel was there, at KERNBASE.
Booted(table) ==
    [dir |-> entry_pgdir(table), tables |-> [t \in {table} |-> entry_pgtable],
     free |-> << >>, sound |-> TRUE]

\* The physical address the processor finds.
Translate(m, la) ==
    LET table == m.dir[PDX(la)] IN
    IF table = Absent \/ m.tables[table][PTX(la)] = Absent THEN Absent
    ELSE m.tables[table][PTX(la)] * PGSIZE + PGOFF(la)
-----------------------------------------------------------------------------
(***************************************************************************)
(* page_init                                                               *)
(***************************************************************************)

KADDR(pa) == pa + KERNBASE

\* Is a page where KADDR says?
Reached(m, page) == Translate(m, KADDR(page * PGSIZE)) = page * PGSIZE

\* A table for va, if there is none, is the first free page, cleared where KADDR
\* says it is before the directory has it.
pgdir_walk(m, va) ==
    IF m.dir[PDX(va)] # Absent THEN m
    ELSE IF m.free = << >> THEN [m EXCEPT !.sound = FALSE]
    ELSE LET page == Head(m.free) IN
         [dir |-> [m.dir EXCEPT ![PDX(va)] = page],
          tables |-> [t \in DOMAIN m.tables \cup {page} |->
                         IF t = page THEN [i \in Index |-> Absent] ELSE m.tables[t]],
          free |-> Tail(m.free),
          sound |-> m.sound /\ Reached(m, page)]

\* The entry for va is written, in the table where KADDR says it is.
MapPage(m, va, pa) ==
    LET walked == pgdir_walk(m, va)
        table == walked.dir[PDX(va)]
    IN IF table = Absent THEN walked
       ELSE [walked EXCEPT !.tables[table][PTX(va)] = pa \div PGSIZE,
                           !.sound = @ /\ Reached(walked, table)]

boot_map_region(m, va, size, pa) ==
    LET after[i \in 0 .. size \div PGSIZE] ==
            IF i = 0 THEN m
            ELSE MapPage(after[i - 1], va + (i - 1) * PGSIZE, pa + (i - 1) * PGSIZE)
    IN after[size \div PGSIZE]

\* Mutant of page_init: the free list is built from the first page to the last.
page_init_upwards(m) ==
    boot_map_region([m EXCEPT !.free = [k \in 1 .. npages - FIRSTFREE |-> npages - k]],
                    KERNBASE, npages * PGSIZE, 0)

\* The list is built from the last page to the first.
page_init(m) ==
    boot_map_region([m EXCEPT !.free = [k \in 1 .. npages - FIRSTFREE |-> FIRSTFREE + k - 1]],
                    KERNBASE, npages * PGSIZE, 0)
=============================================================================
