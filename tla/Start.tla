------------------------------- MODULE Start -------------------------------
(***************************************************************************)
(* What the machine starts with: sectors and programs are loaded, programs *)
(* are found on the disk, addresses are translated by the constant         *)
(* directory, and page_init extends it.  A behaviour is one call of one of *)
(* these functions of Loader and Paging, and what it is for.               *)
(***************************************************************************)
EXTENDS Loader, Paging, SequencesExt

CONSTANTS
    Memory, Disk,  \* the bytes in memory and on the disk before a call
    Addresses,     \* where in memory something is to go
    FilePlaces,    \* where in its file a segment is
    Sizes,         \* lengths in bytes of segments and files
    Counts,        \* lengths and offsets in sectors
    Several        \* segments of a program, and files before it on the disk

ASSUME StartAssumption ==
    /\ Addresses \subseteq Nat /\ FilePlaces \subseteq Nat
    /\ Sizes \subseteq Nat /\ Counts \subseteq Nat /\ Several \in Nat
    /\ PGSIZE % SECTSIZE = 0
    /\ Memory = [a \in DOMAIN Memory |-> Memory[a]] /\ DOMAIN Memory \subseteq Int
    /\ DOMAIN Disk \subseteq Int
    /\ \A va \in Addresses, n \in Sizes : va .. va + n - 1 \subseteq DOMAIN Memory

VARIABLES op, arg, result

NoResult == << >>

\* What the file system's offsets count starts after the boot block.
OnDisk(offset) == Disk[offset + SECTSIZE]

\* Segments as linkers make them: they lie in memory as they do in the file, as far
\* as places in a page go.
Segments ==
    {ph \in [vaddr : Addresses, off : FilePlaces, filesz : Sizes, memsz : Sizes \ {0}] :
        /\ ph.filesz <= ph.memsz
        /\ ph.vaddr % PGSIZE = ph.off % PGSIZE}

Pages(ph) == {va \div PGSIZE : va \in ph.vaddr .. ph.vaddr + ph.memsz - 1}

\* Their segments have no page in common.
Programs ==
    {s \in [1 .. Several -> Segments] :
        \A i, j \in 1 .. Several : i # j => Pages(s[i]) \cap Pages(s[j]) = {}}

StartCall ==
    \/ op = "sectors" /\ arg \in Addresses \X Counts \X Counts
    \/ op \in {"load", "boot"} /\ arg \in Programs
    \/ op = "frun" /\ arg \in [1 .. Several -> Sizes] \X (Sizes \ {0})
    \/ op = "translate" /\ arg \in 0 .. NPTENTRIES * PTSIZE - 1
    \/ op = "page_init" /\ arg \in DOMAIN KernelImage

\* What the call leaves or returns.
StartResult ==
    CASE op = "sectors" ->
            LET n == arg[2] * SECTSIZE  offset == arg[3] * SECTSIZE
            IN <<readseg(Memory, Disk, arg[1], n, offset),
                 writeseg(Memory, Disk, arg[1], n, offset)>>
      [] op = "load" -> load_icode(Memory, Disk, SECTSIZE, arg)
      [] op = "boot" -> bootmain(Memory, Disk, arg)
      [] op = "frun" -> FrunStart(arg[1])
      [] op = "translate" -> <<Translate(Booted(EXTPHYSMEM), arg)>>
      [] op = "page_init" -> page_init(Booted(arg))

StartInit == result = NoResult /\ StartCall
StartReturn == result = NoResult /\ result' = <<StartResult>> /\ UNCHANGED <<op, arg>>
StartSpec == StartInit /\ [][StartReturn]_<<op, arg, result>>

Done(o) == op = o /\ result # NoResult
Res == result[1]
-----------------------------------------------------------------------------
\* With offsets and counts of whole sectors, as the file system uses them, exactly
\* the bytes asked for are read, or written, and nothing beside them changes.
SectorsExact ==
    Done("sectors") =>
        LET pa == arg[1]  n == arg[2] * SECTSIZE  from == (arg[3] + 1) * SECTSIZE
        IN /\ Res[1] = [a \in DOMAIN Memory |->
                          IF a - pa \in 0 .. n - 1 THEN Disk[from + a - pa] ELSE Memory[a]]
           /\ Res[2] = [b \in DOMAIN Disk |->
                          IF b - from \in 0 .. n - 1 THEN Memory[pa + b - from] ELSE Disk[b]]

\* A program of segments that have no page in common is in memory as its file says,
\* though whole sectors are read, also where only a part of one was meant: no
\* segment's bytes or zeros are overwritten by another.
SegmentsLoaded ==
    \A o \in {"load", "boot"} : Done(o) =>
        LET start == IF o = "load" THEN SECTSIZE ELSE 0 IN
        \A i \in 1 .. Several : LET ph == arg[i] IN
            \A k \in 0 .. ph.memsz - 1 :
                Res[ph.vaddr + k] =
                    IF k < ph.filesz THEN OnDisk(start + ph.off + k) ELSE 0

\* Where sys_frun looks for a program is where the builder put its first block, and
\* the blocks that follow are the program's, up to the inode of the next file.
ProgramWhereBuilt ==
    Done("frun") =>
        \A b \in 0 .. arg[2] - 1 :
            /\ (Res + b) \div SECTSIZE = data_block_offset(arg[1], b \div SECTSIZE)
            /\ (Res + b) \div SECTSIZE < InodeOf(Append(arg[1], arg[2]))

\* A program is in memory as its file says, though it is read in whole sectors, and
\* from where it was put on the disk.
LoadedAsBuilt == SectorsExact /\ SegmentsLoaded /\ ProgramWhereBuilt
-----------------------------------------------------------------------------
\* The page directory the kernel starts in has the memory twice, at 0 and at
\* KERNBASE, and nothing else, however an address is taken apart.
MemoryTwice ==
    Done("translate") =>
        /\ PGADDR(PDX(arg), PTX(arg), PGOFF(arg)) = arg
        /\ Res[1] = CASE arg < PTSIZE -> arg
                      [] arg - KERNBASE \in 0 .. PTSIZE - 1 -> arg - KERNBASE
                      [] OTHER -> Absent

\* Once page_init is done all of the memory is at KERNBASE, and what was at 0 still
\* is.  On the way there no table is cleared or written that was not in the part
\* mapped already: the free list begins with the lowest pages.  No table is given
\* out again, nor the memory the kernel is in.
KernelWindow ==
    Done("page_init") =>
        /\ Res.sound
        /\ \A pa \in 0 .. npages * PGSIZE - 1 : Translate(Res, KADDR(pa)) = pa
        /\ \A la \in 0 .. PTSIZE - 1 : Translate(Res, la) = la
        /\ ToSet(Res.free) = (FIRSTFREE .. npages - 1) \ DOMAIN Res.tables
        /\ IsInjective(Res.free)
        /\ \A i, j \in Index : i # j /\ Res.dir[i] = Res.dir[j] =>
              Res.dir[i] = Absent \/ {i, j} = {0, KERNPDX}

\* The page tables have the memory where the kernel looks for it, on the way to the
\* whole of it and then.
WindowWhole == MemoryTwice /\ KernelWindow
=============================================================================
