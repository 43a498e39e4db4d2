------------------------------- MODULE Loader -------------------------------
(***************************************************************************)
(* Between disk and memory: readseg and writeseg, which transfer whole     *)
(* sectors (kernel/src/elf/elf.c, and boot/main.c), how the segments of a  *)
(* program are loaded (load_icode in kernel/src/process/env.c, bootmain),   *)
(* where the image builder put the program (formatting.c) and where        *)
(* sys_frun looks for it.                                                  *)
(*                                                                         *)
(* A memory is a function from addresses to bytes.  The disk is one too,   *)
(* by what sector and byte the controller is told; the boot block is its   *)
(* first sector, which offsets do not count.                               *)
(***************************************************************************)
EXTENDS Integers, Sequences

CONSTANT SECTSIZE  \* (512)

ASSUME SectorAssumption == SECTSIZE \in Nat \ {0}

\* The sectors that hold count bytes from offset on, by their place after the
\* first, and where the first is put for the byte of offset to be put at pa.
First(pa, offset) == pa - (offset % SECTSIZE)

SectorsOf(pa, count, offset) ==
    {k \in 0 .. count : First(pa, offset) + k * SECTSIZE < pa + count}

\* Bytes from a on of which each belongs to a sector of S.
In(a, S) == a >= 0 /\ a \div SECTSIZE \in S

Sector(offset) == offset \div SECTSIZE + 1

readseg(mem, disk, pa, count, offset) ==
    LET first == First(pa, offset) IN
    [a \in DOMAIN mem |->
        IF In(a - first, SectorsOf(pa, count, offset))
        THEN disk[Sector(offset) * SECTSIZE + a - first] ELSE mem[a]]

writeseg(mem, disk, pa, count, offset) ==
    LET start == Sector(offset) * SECTSIZE IN
    [b \in DOMAIN disk |->
        IF In(b - start, SectorsOf(pa, count, offset))
        THEN mem[First(pa, offset) + b - start] ELSE disk[b]]
-----------------------------------------------------------------------------
(***************************************************************************)
(* Programs: a segment says where in the file it is, and where in memory   *)
(***************************************************************************)

\* Mutant of LoadSegment: memory is cleared before the file is read.
LoadSegmentClearedFirst(mem, disk, start, ph) ==
    readseg([a \in DOMAIN mem |->
                IF a - ph.vaddr \in ph.filesz .. ph.memsz - 1 THEN 0 ELSE mem[a]],
            disk, ph.vaddr, ph.filesz, start + ph.off)

\* The file's bytes, then zeros.
LoadSegment(mem, disk, start, ph) ==
    LET read == readseg(mem, disk, ph.vaddr, ph.filesz, start + ph.off)
    IN [a \in DOMAIN mem |->
           IF a - ph.vaddr \in ph.filesz .. ph.memsz - 1 THEN 0 ELSE read[a]]

\* The segments one after the other.
load_icode(mem, disk, start, segments) ==
    LET after[k \in 0 .. Len(segments)] ==
            IF k = 0 THEN mem
            ELSE LoadSegment(after[k - 1], disk, start, segments[k])
    IN after[Len(segments)]

\* The boot block loads the kernel so too, from the start of the disk.
bootmain(mem, disk, segments) == load_icode(mem, disk, 0, segments)
-----------------------------------------------------------------------------
(***************************************************************************)
(* Files: the builder gives each the next free blocks, its inode first.    *)
(* Blocks are sectors; the bitmap and the directory take the first two.    *)
(***************************************************************************)

Blocks(size) == (size + SECTSIZE - 1) \div SECTSIZE

\* The inode of the file that follows files of these sizes.
InodeOf(sizes) ==
    LET next[k \in 0 .. Len(sizes)] ==
            IF k = 0 THEN 2 ELSE next[k - 1] + 1 + Blocks(sizes[k])
    IN next[Len(sizes)]

\* Its data: block n of the file.
data_block_offset(sizes, n) == InodeOf(sizes) + 1 + n

\* sys_frun reads the program from the first block on, and not by its inode.
FrunStart(sizes) == data_block_offset(sizes, 0) * SECTSIZE
=============================================================================
