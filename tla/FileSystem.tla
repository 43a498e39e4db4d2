----------------------------- MODULE FileSystem -----------------------------
(***************************************************************************)
(* The files of the kernel (kernel/src/fs): the disk with its bitmap, its  *)
(* one directory, the inodes and the data blocks; the copies of the bitmap *)
(* and of the directory in memory; and the file control blocks fcbs[NFCB], *)
(* each with a copy of the inode and a buffer for one block.               *)
(*                                                                         *)
(* A system call is one step (see Process), but the power may fail in the  *)
(* middle of one, between two of its writes to the disk.  What survives is *)
(* the disk; the next start reads it again (init_fs, fcb_init).            *)
(*                                                                         *)
(* No call creates or removes a file, so a file is its inode_offset, the   *)
(* block of its inode, which also stands for its name.  An index passed to *)
(* a call is taken to be one that sys_fopen returned and that is not       *)
(* closed yet, since the calls do not check it (the shell also closes -1:  *)
(* see Shell).  A call that fails returns -1 and changes nothing: a        *)
(* stuttering step.                                                        *)
(*                                                                         *)
(* Sizes are unsigned, so a length below 0 gets through the test of        *)
(* sys_fwrite, and may set a size that is smaller than the position, or    *)
(* none a file can have.  No program here passes one: ForwardSpec has none *)
(* and Spec has them (NegativeCall).  Where such a size would let a call   *)
(* get to positions behind all that an inode can name, which is memory     *)
(* behind the control block, the model stops: see FRead, FWrite and FSeek. *)
(***************************************************************************)
EXTENDS Integers, FiniteSets, Lists

CONSTANTS
    NR_BLOCK,    \* blocks of the disk (4096)
    BLOCK_SZ,    \* bytes of a block (512)
    NR_OFFSET,   \* block offsets in an inode (BLOCK_SZ / 4)
    NFCB,        \* file control blocks (32)
    NR_FILE,     \* files the kernel notes of one process (16)
    Procs,       \* the processes that use files
    NrFiles,     \* files the disk is formatted with
    FileBlocks,  \* data blocks each of them starts with
    Bytes,       \* the values of a byte, among them 0
    SizeMod,     \* a size is a number below it (2^32)
    Shared,      \* bound when FALSE: an open file is not opened again
    CutInCall    \* bound when FALSE: the power fails between calls only

ASSUME FileAssumption ==
    /\ BLOCK_SZ \in Nat /\ BLOCK_SZ >= 1
    /\ NR_OFFSET \in Nat /\ NR_OFFSET >= 1
    /\ NFCB \in Nat /\ NFCB >= 1
    /\ NR_FILE \in Nat /\ NR_FILE >= 1
    /\ NrFiles \in Nat /\ NrFiles >= 1
    /\ FileBlocks \in 1 .. NR_OFFSET
    /\ NR_BLOCK \in Nat /\ NR_BLOCK >= 2 + NrFiles * (1 + FileBlocks)
    /\ SizeMod \in Nat /\ SizeMod > 2 * (BLOCK_SZ * NR_OFFSET)
    /\ Shared \in BOOLEAN /\ CutInCall \in BOOLEAN
ASSUME BytesAssumption == 0 \in Bytes

VARIABLES
    disk_bitmap,        \* on the disk: the blocks in use
    disk_size,          \* inode_offset -> size of the file, in the directory
    disk_inode,         \* inode_offset -> inode
    disk_data,          \* block -> its bytes
    bitmap,             \* blocks in use, as known in memory
    file_size,          \* inode_offset -> size in rootdir in memory
    fcb_inode_offset,   \* fcb -> its file, -1 or 0 when it is not open
    fcb_inode,          \* fcb -> copy of the inode
    fcb_mode,           \* fcb -> "r", "w", or "" before the first use
    fcb_seek,           \* fcb -> position
    fcb_file_sz,        \* fcb -> size of the file as this fcb knows it
    fcb_buf_block,      \* fcb -> which block of the file is in the buffer
    fcb_buffer,         \* fcb -> the buffer
    fcb_link,           \* fcb -> next free fcb, or Nil
    fcb_free_list,      \* first free fcb, or Nil
    env_fcb_index       \* process -> the fcbs noted as its own, -1 if none

listVars == <<fcb_link, fcb_free_list>>
bufVars  == <<fcb_inode, fcb_buf_block, fcb_buffer>>
diskVars == <<disk_bitmap, disk_size, disk_inode, disk_data>>
vars == <<diskVars, bitmap, file_size, fcb_inode_offset, fcb_mode, fcb_seek,
          fcb_file_sz, bufVars, listVars, env_fcb_index>>

Blocks  == 0 .. NR_BLOCK - 1
NoBlock == -1    \* data_block_offsets[i] of a block the file does not have;
                 \* used all the same it is the sector before the bitmap
Offsets == 0 .. NR_OFFSET - 1
InBlock == 0 .. BLOCK_SZ - 1
Fcbs    == 0 .. NFCB - 1
MAX_FILE_SZ == BLOCK_SZ * NR_OFFSET

\* A number as an unsigned size.
Unsigned(i) == i % SizeMod

\* Where formatting.c puts the inode of file k: block 0 holds the bitmap, block
\* 1 the directory, then follow the files, each inode before its data.
InodeBlock(k) == 2 + k * (1 + FileBlocks)
Files == {InodeBlock(k) : k \in 0 .. NrFiles - 1}

OpenFcbs == {x \in Fcbs : fcb_inode_offset[x] \in Files}
OpenOn(f) == {x \in Fcbs : fcb_inode_offset[x] = f}
-----------------------------------------------------------------------------
(***************************************************************************)
(* Start-up                                                                *)
(***************************************************************************)

\* The inodes as formatting.c leaves them.
FormattedInode ==
    [f \in Files |-> [i \in Offsets |-> IF i < FileBlocks THEN f + 1 + i ELSE NoBlock]]

\* init_fs and fcb_init, from a disk with this bitmap, these sizes, inodes and
\* data blocks; the environments start without files.
Start(used, size, inode, data) ==
    /\ disk_bitmap' = used /\ bitmap' = used
    /\ disk_size' = size /\ file_size' = size
    /\ disk_inode' = inode /\ disk_data' = data
    /\ fcb_inode_offset' = [x \in Fcbs |-> -1]
    /\ fcb_inode' = [x \in Fcbs |-> [i \in Offsets |-> 0]]
    /\ fcb_mode' = [x \in Fcbs |-> ""]
    /\ fcb_seek' = [x \in Fcbs |-> 0]
    /\ fcb_file_sz' = [x \in Fcbs |-> 0]
    /\ fcb_buf_block' = [x \in Fcbs |-> 0]
    /\ fcb_buffer' = [x \in Fcbs |-> [i \in InBlock |-> 0]]
    /\ fcb_link' = [x \in Fcbs |-> IF x = NFCB - 1 THEN Nil ELSE x + 1]
    /\ fcb_free_list' = 0
    /\ env_fcb_index' = [p \in Procs |-> [i \in 0 .. NR_FILE - 1 |-> -1]]

\* The image formatting.c writes, and the first start.  The last block of a file
\* need not be full.
Init ==
    /\ bitmap = 0 .. InodeBlock(NrFiles) - 1 /\ disk_bitmap = bitmap
    /\ file_size \in [Files -> (FileBlocks - 1) * BLOCK_SZ + 1 .. FileBlocks * BLOCK_SZ]
    /\ disk_size = file_size
    /\ disk_inode = FormattedInode
    /\ disk_data = [b \in Blocks \cup {NoBlock} |-> [i \in InBlock |-> 0]]
    /\ fcb_inode_offset = [x \in Fcbs |-> -1]
    /\ fcb_inode = [x \in Fcbs |-> [i \in Offsets |-> 0]]
    /\ fcb_mode = [x \in Fcbs |-> ""]
    /\ fcb_seek = [x \in Fcbs |-> 0]
    /\ fcb_file_sz = [x \in Fcbs |-> 0]
    /\ fcb_buf_block = [x \in Fcbs |-> 0]
    /\ fcb_buffer = [x \in Fcbs |-> [i \in InBlock |-> 0]]
    /\ fcb_link = [x \in Fcbs |-> IF x = NFCB - 1 THEN Nil ELSE x + 1]
    /\ fcb_free_list = 0
    /\ env_fcb_index = [p \in Procs |-> [i \in 0 .. NR_FILE - 1 |-> -1]]
-----------------------------------------------------------------------------
(***************************************************************************)
(* Blocks and buffers                                                      *)
(***************************************************************************)

\* The lowest block that is free in the bitmap, or NoBlock.
block_alloc(used) ==
    IF Blocks \subseteq used THEN NoBlock
    ELSE CHOOSE b \in Blocks \ used : \A c \in Blocks \ used : b <= c

\* What the loops of a call on x change: inodes and data blocks on the disk, the
\* bitmap in memory, and of x its inode and its buffer.
State(x) == [inodes |-> disk_inode, data |-> disk_data, bitmap |-> bitmap,
             inode |-> fcb_inode[x], block |-> fcb_buf_block[x],
             buffer |-> fcb_buffer[x]]

\* fcb_update: the buffer goes back to the block it came from, read or written.
fcb_update(s) == [s EXCEPT !.data[s.inode[s.block]] = s.buffer]

\* Block i of file f comes into the buffer.  A block the file does not have yet
\* is entered in the copy of the inode, and all of that copy is written to the
\* disk, for writeseg writes sectors.
Fetch(s, f, i) ==
    IF s.inode[i] # NoBlock
    THEN [s EXCEPT !.block = i, !.buffer = s.data[s.inode[i]]]
    ELSE LET b     == block_alloc(s.bitmap)
             inode == [s.inode EXCEPT ![i] = b]
         IN [s EXCEPT !.inode = inode, !.inodes[f] = inode,
                      !.bitmap = @ \cup ({b} \cap Blocks),
                      !.block = i, !.buffer = s.data[b]]

\* Mutants of fcb_switch_buf: what is in the buffer is forgotten; or the new block
\* is not marked in the bitmap.
fcb_switch_buf_forgets(s, f, i) == Fetch(s, f, i)
fcb_switch_buf_no_mark(s, f, i) ==
    [Fetch(fcb_update(s), f, i) EXCEPT !.bitmap = s.bitmap]

\* fcb_switch_buf of file f to its block i: the old block is written back first.
fcb_switch_buf(s, f, i) == Fetch(fcb_update(s), f, i)

\* The buffer holds the block of position p.
AtPosition(s, f, p) ==
    IF p \div BLOCK_SZ # s.block THEN fcb_switch_buf(s, f, p \div BLOCK_SZ) ELSE s

\* The loops of sys_fread and sys_fwrite over n bytes, byte by byte: Reading
\* (x, n)[k] and Writing(x, n, v)[k] are what k bytes have come to.
Reading(x, n) ==
    LET s[k \in 0 .. n] ==
            IF k = 0 THEN State(x)
            ELSE AtPosition(s[k - 1], fcb_inode_offset[x], fcb_seek[x] + k - 1)
    IN s
Writing(x, n, v) ==
    LET s[k \in 0 .. n] ==
            IF k = 0 THEN State(x)
            ELSE LET p == fcb_seek[x] + k - 1
                 IN [AtPosition(s[k - 1], fcb_inode_offset[x], p)
                        EXCEPT !.buffer[p % BLOCK_SZ] = v]
    IN s

\* The disk, the bitmap and x are what s says.
Becomes(x, s) ==
    /\ disk_inode' = s.inodes
    /\ disk_data' = s.data
    /\ bitmap' = s.bitmap
    /\ fcb_inode' = [fcb_inode EXCEPT ![x] = s.inode]
    /\ fcb_buf_block' = [fcb_buf_block EXCEPT ![x] = s.block]
    /\ fcb_buffer' = [fcb_buffer EXCEPT ![x] = s.buffer]
-----------------------------------------------------------------------------
(***************************************************************************)
(* The system calls                                                        *)
(***************************************************************************)

\* fcb_alloc: x, the first free control block, becomes one of file f, with the
\* inode and the first block of it from the disk.
fcb_alloc(x, f, mode) ==
    /\ fcb_free_list' = fcb_link[x]
    /\ fcb_inode_offset' = [fcb_inode_offset EXCEPT ![x] = f]
    /\ fcb_inode' = [fcb_inode EXCEPT ![x] = disk_inode[f]]
    /\ fcb_mode' = [fcb_mode EXCEPT ![x] = mode]
    /\ fcb_seek' = [fcb_seek EXCEPT ![x] = 0]
    /\ fcb_buf_block' = [fcb_buf_block EXCEPT ![x] = 0]
    /\ fcb_buffer' = [fcb_buffer EXCEPT ![x] = disk_data[disk_inode[f][0]]]
    /\ UNCHANGED fcb_link

\* Mutant of fcb_free: the control block keeps the link it had in the list.
fcb_free_keeps_link(x) ==
    /\ fcb_inode_offset' = [fcb_inode_offset EXCEPT ![x] = 0]
    /\ fcb_free_list' = x
    /\ UNCHANGED <<fcb_link, fcb_mode, fcb_seek, fcb_file_sz>>
    /\ UNCHANGED bufVars

\* fcb_free clears as many bytes as a pointer has, which is fcb_inode_offset,
\* and writes nothing back to the disk.
fcb_free(x) ==
    /\ fcb_inode_offset' = [fcb_inode_offset EXCEPT ![x] = 0]
    /\ fcb_link' = [fcb_link EXCEPT ![x] = fcb_free_list]
    /\ fcb_free_list' = x
    /\ UNCHANGED <<fcb_mode, fcb_seek, fcb_file_sz>>
    /\ UNCHANGED bufVars

\* Mutant of FOpen: the first block is fetched by fcb_switch_buf, which writes
\* back what the control block was last used for.
FOpenWritesBack(p, f, mode) ==
    /\ Shared \/ OpenOn(f) = {}
    /\ fcb_free_list # Nil
    /\ LET x == fcb_free_list
       IN /\ fcb_free_list' = fcb_link[x]
          /\ disk_data' = fcb_update(State(x)).data
          /\ fcb_inode_offset' = [fcb_inode_offset EXCEPT ![x] = f]
          /\ fcb_inode' = [fcb_inode EXCEPT ![x] = disk_inode[f]]
          /\ fcb_mode' = [fcb_mode EXCEPT ![x] = mode]
          /\ fcb_seek' = [fcb_seek EXCEPT ![x] = 0]
          /\ fcb_file_sz' = [fcb_file_sz EXCEPT ![x] = file_size[f]]
          /\ fcb_buf_block' = [fcb_buf_block EXCEPT ![x] = 0]
          /\ fcb_buffer' = [fcb_buffer EXCEPT ![x] = disk_data'[disk_inode[f][0]]]
    /\ UNCHANGED <<disk_bitmap, disk_size, disk_inode, bitmap, file_size, fcb_link,
                   env_fcb_index>>

\* sys_fopen(path of f, mode) by p.  The test of env_nr_fcb against NR_FILE
\* never holds, because nothing counts env_nr_fcb up.
FOpen(p, f, mode) ==
    /\ Shared \/ OpenOn(f) = {}
    /\ fcb_free_list # Nil
    /\ LET x == fcb_free_list
       IN /\ fcb_alloc(x, f, mode)
          /\ fcb_file_sz' = [fcb_file_sz EXCEPT ![x] = file_size[f]]
          /\ LET free == {i \in 0 .. NR_FILE - 1 : env_fcb_index[p][i] = -1}
             IN IF free = {} THEN UNCHANGED env_fcb_index
                ELSE \E i \in free :
                        /\ \A j \in free : i <= j
                        /\ env_fcb_index' = [env_fcb_index EXCEPT ![p][i] = x]
    /\ UNCHANGED <<diskVars, bitmap, file_size>>

\* sys_fread(n bytes) through x.  A length below 0 is taken for a large one, and
\* changes nothing where what is left is below 0 too.
FRead(x, n) ==
    /\ x \in OpenFcbs /\ fcb_mode[x] = "r"
    /\ LET left == Unsigned(fcb_file_sz[x] - fcb_seek[x])
           size == IF n < left THEN n ELSE left
           s    == Reading(x, size)[size]
       IN /\ fcb_seek[x] + size <= MAX_FILE_SZ
          /\ Becomes(x, s)
          /\ fcb_seek' = [fcb_seek EXCEPT ![x] = @ + size]
    /\ UNCHANGED <<disk_bitmap, disk_size, file_size, fcb_inode_offset, fcb_mode,
                   fcb_file_sz, env_fcb_index>>
    /\ UNCHANGED listVars

\* sys_fwrite(n bytes v) through x.  The file is cut behind the last byte
\* written if src[size - 1] is 0.  That is not one of the n bytes, for src has
\* moved on when it is read: it may be 0 or not.  If n is below 0 no byte is
\* written, but the file may be cut in front of the position.
FWrite(x, n, v) ==
    /\ x \in OpenFcbs /\ fcb_mode[x] = "w"
    /\ Unsigned(fcb_file_sz[x] + n) <= MAX_FILE_SZ
    /\ LET moved == IF n > 0 THEN n ELSE 0
           s     == Writing(x, moved, v)[moved]
           end   == Unsigned(fcb_seek[x] + n)
       IN /\ fcb_seek[x] + moved <= MAX_FILE_SZ
          /\ Becomes(x, s)
          /\ disk_bitmap' = s.bitmap
          /\ fcb_seek' = [fcb_seek EXCEPT ![x] = @ + moved]
          /\ \E cut \in BOOLEAN :
                IF cut \/ end > fcb_file_sz[x]
                THEN /\ fcb_file_sz' = [fcb_file_sz EXCEPT ![x] = end]
                     /\ file_size' = [file_size EXCEPT ![fcb_inode_offset[x]] = end]
                     /\ disk_size' = file_size'
                ELSE UNCHANGED <<fcb_file_sz, file_size, disk_size>>
    /\ UNCHANGED <<fcb_inode_offset, fcb_mode, env_fcb_index>>
    /\ UNCHANGED listVars

\* Mutant of FSeek: the bound is the size a file may have, not has.
FSeekAnywhere(x, end) ==
    /\ x \in OpenFcbs
    /\ end >= 0 /\ end <= MAX_FILE_SZ
    /\ fcb_seek' = [fcb_seek EXCEPT ![x] = end]
    /\ UNCHANGED <<diskVars, bitmap, file_size, fcb_inode_offset, fcb_mode,
                   fcb_file_sz, env_fcb_index>>
    /\ UNCHANGED bufVars
    /\ UNCHANGED listVars

\* sys_fseek to position end, from wherever it was counted.  (Call has only the
\* positions an inode can name: a larger size than a file can have would allow
\* more.)
FSeek(x, end) ==
    /\ x \in OpenFcbs
    /\ end >= 0 /\ end <= fcb_file_sz[x]
    /\ fcb_seek' = [fcb_seek EXCEPT ![x] = end]
    /\ UNCHANGED <<diskVars, bitmap, file_size, fcb_inode_offset, fcb_mode,
                   fcb_file_sz, env_fcb_index>>
    /\ UNCHANGED bufVars
    /\ UNCHANGED listVars

\* sys_fclose by p.
FClose(p, x) ==
    /\ x \in OpenFcbs
    /\ LET noted == {i \in 0 .. NR_FILE - 1 : env_fcb_index[p][i] = x}
       IN IF noted = {} THEN UNCHANGED env_fcb_index
          ELSE \E i \in noted :
                  /\ \A j \in noted : i <= j
                  /\ env_fcb_index' = [env_fcb_index EXCEPT ![p][i] = -1]
    /\ fcb_free(x)
    /\ UNCHANGED <<diskVars, bitmap, file_size>>

\* The program of p exits and env_alloc gives its slot to another: what it had
\* open stays open.
NewProgram(p) ==
    /\ env_fcb_index' = [env_fcb_index EXCEPT ![p] = [i \in 0 .. NR_FILE - 1 |-> -1]]
    /\ UNCHANGED <<diskVars, bitmap, file_size, fcb_inode_offset, fcb_mode,
                   fcb_seek, fcb_file_sz>>
    /\ UNCHANGED bufVars
    /\ UNCHANGED listVars
-----------------------------------------------------------------------------
(***************************************************************************)
(* The power fails                                                         *)
(***************************************************************************)

\* How far a cut may let the n bytes moved as in s get: to some byte, or to that
\* and the buffer written back but not yet the inode.
CutAt(x, s, n) ==
    {s[k] : k \in 0 .. n} \cup
    {fcb_update(s[k]) : k \in {j \in 0 .. n - 1 :
        (fcb_seek[x] + j) \div BLOCK_SZ # s[j].block}}

PowerCut == Start(disk_bitmap, disk_size, disk_inode, disk_data)

PowerCutInRead(x, n) ==
    /\ CutInCall
    /\ x \in OpenFcbs /\ fcb_mode[x] = "r"
    /\ fcb_seek[x] + n <= fcb_file_sz[x] /\ fcb_seek[x] + n <= MAX_FILE_SZ
    /\ \E c \in CutAt(x, Reading(x, n), n) :
          Start(disk_bitmap, disk_size, c.inodes, c.data)

\* After the data comes the bitmap, then the directory.
PowerCutInWrite(x, n, v) ==
    /\ CutInCall
    /\ x \in OpenFcbs /\ fcb_mode[x] = "w"
    /\ Unsigned(fcb_file_sz[x] + n) <= MAX_FILE_SZ
    /\ LET moved == IF n > 0 THEN n ELSE 0
           s     == Writing(x, moved, v)
       IN /\ fcb_seek[x] + moved <= MAX_FILE_SZ
          /\ \/ \E c \in CutAt(x, s, moved) :
                   Start(disk_bitmap, disk_size, c.inodes, c.data)
             \/ Start(s[moved].bitmap, disk_size, s[moved].inodes, s[moved].data)

PowerCutInCall ==
    \/ \E x \in Fcbs, n \in 0 .. MAX_FILE_SZ : PowerCutInRead(x, n)
    \/ \E x \in Fcbs, n \in 0 .. MAX_FILE_SZ, v \in Bytes : PowerCutInWrite(x, n, v)
-----------------------------------------------------------------------------
\* A longer length is refused by sys_fwrite, and sys_fread takes it for what is
\* left of the file.
Call ==
    \/ \E p \in Procs, f \in Files, mode \in {"r", "w"} : FOpen(p, f, mode)
    \/ \E x \in Fcbs, n \in 0 .. MAX_FILE_SZ : FRead(x, n)
    \/ \E x \in Fcbs, n \in 0 .. MAX_FILE_SZ, v \in Bytes : FWrite(x, n, v)
    \/ \E x \in Fcbs, end \in 0 .. MAX_FILE_SZ : FSeek(x, end)
    \/ \E p \in Procs, x \in Fcbs : FClose(p, x)
    \/ \E p \in Procs : NewProgram(p)

\* A write of length -n: which byte it would write is all the same.
NegativeCall ==
    \E x \in Fcbs, n \in 1 .. MAX_FILE_SZ : FWrite(x, -n, 0) \/ PowerCutInWrite(x, -n, 0)

Forward == Call \/ PowerCut \/ PowerCutInCall
Next == Forward \/ NegativeCall

Spec == Init /\ [][Next]_vars
ForwardSpec == Init /\ [][Forward]_vars
-----------------------------------------------------------------------------
(***************************************************************************)
(* Safety                                                                  *)
(***************************************************************************)

InodeType  == [Offsets -> Blocks \cup {NoBlock}]
BufferType == [InBlock -> Bytes]
SizeType   == [Files -> 0 .. SizeMod - 1]

TypeOK ==
    /\ disk_bitmap \in SUBSET Blocks /\ disk_size \in SizeType
    /\ disk_inode \in [Files -> InodeType]
    /\ disk_data \in [Blocks \cup {NoBlock} -> BufferType]
    /\ bitmap \in SUBSET Blocks
    /\ file_size \in SizeType
    /\ fcb_inode_offset \in [Fcbs -> Files \cup {-1, 0}]
    /\ fcb_inode \in [Fcbs -> InodeType]
    /\ fcb_mode \in [Fcbs -> {"r", "w", ""}]
    /\ fcb_seek \in [Fcbs -> 0 .. MAX_FILE_SZ]
    /\ fcb_file_sz \in [Fcbs -> 0 .. SizeMod - 1]
    /\ fcb_buf_block \in [Fcbs -> Offsets]
    /\ fcb_buffer \in [Fcbs -> BufferType]
    /\ fcb_link \in [Fcbs -> Fcbs \cup {Nil}]
    /\ fcb_free_list \in Fcbs \cup {Nil}
    /\ env_fcb_index \in [Procs -> [0 .. NR_FILE - 1 -> Fcbs \cup {-1}]]

\* The free control blocks are the list fcb_free_list, whatever is opened and
\* closed in whatever order: none is handed out while it is open, none is lost.
FcbListOK == IsList(fcb_link, fcb_free_list, Fcbs \ OpenFcbs)

\* No position is behind the end of the file, as its control block knows it,
\* though a write may cut the file: so no read or write leaves the inode.  That
\* is so while no length is below 0: a write of such a length cuts the file in
\* front of the position.
SeekInFile ==
    \A x \in OpenFcbs : fcb_seek[x] <= fcb_file_sz[x] /\ fcb_file_sz[x] <= MAX_FILE_SZ

\* The files with their inodes, on the disk and in the control blocks.
Inodes == {<<f, disk_inode[f]>> : f \in Files} \cup
          {<<fcb_inode_offset[x], fcb_inode[x]>> : x \in OpenFcbs}

\* No block belongs to two files, or to two places of one, also not by a stale
\* copy of an inode; and the blocks of files are in use in the bitmap.
BlocksApart ==
    \A a, b \in Inodes : \A i, j \in Offsets :
        a[2][i] # NoBlock =>
            /\ a[2][i] = b[2][j] => a[1] = b[1] /\ i = j
            /\ a[2][i] \in bitmap \ (Files \cup {0, 1})

\* Between two calls the disk alone is as good as the memory: the bitmap on it
\* has the blocks of all inodes on it.
BitmapOnDisk ==
    \A f \in Files, i \in Offsets :
        disk_inode[f][i] # NoBlock => disk_inode[f][i] \in disk_bitmap

\* A file on the disk has the blocks its size asks for, unless it grew when the
\* disk was full: the size is written after the inode, also if power fails.
SizeHasBlocks ==
    \A f \in Files, i \in Offsets :
        i * BLOCK_SZ < disk_size[f] =>
            disk_inode[f][i] # NoBlock \/ disk_bitmap = Blocks

\* A control block and the disk agree on the inode, if nobody else has the file
\* open: nothing is read or written through a stale copy.
InodeCurrent ==
    \A x \in OpenFcbs :
        OpenOn(fcb_inode_offset[x]) = {x} =>
            fcb_inode[x] = disk_inode[fcb_inode_offset[x]]
-----------------------------------------------------------------------------
(***************************************************************************)
(* What a step may never do                                                *)
(***************************************************************************)

\* Byte p of the file as the holder of x sees it: in the buffer or on the disk.
Seen(x, p) ==
    LET i == p \div BLOCK_SZ
    IN IF i = fcb_buf_block[x] THEN fcb_buffer[x][p % BLOCK_SZ]
       ELSE disk_data[fcb_inode[x][i]][p % BLOCK_SZ]

\* Byte p of file f on the disk.
Stored(f, p) == disk_data[disk_inode[f][p \div BLOCK_SZ]][p % BLOCK_SZ]

\* What is seen through a control block changes only where it is written: not
\* by switching the buffer, not in blocks it shares with nobody, not by calls
\* on other files.  (Bytes without a block are all in one place.)
WriteIsLocalStep ==
    \A x \in OpenFcbs \cap OpenFcbs' :
       fcb_inode_offset'[x] = fcb_inode_offset[x] =>
       \A p \in 0 .. fcb_file_sz[x] - 1 :
           \/ p >= fcb_seek[x] /\ p < fcb_seek'[x] /\ fcb_mode[x] = "w"
           \/ fcb_inode[x][p \div BLOCK_SZ] = NoBlock
           \/ Seen(x, p)' = Seen(x, p)
WriteIsLocal == [][WriteIsLocalStep]_vars

\* The bytes of a file on the disk change only by a call on the file.
FilesApartStep ==
    \A f \in Files : \A p \in 0 .. disk_size[f] - 1 :
       \/ disk_inode[f][p \div BLOCK_SZ] = NoBlock
       \/ \E x \in OpenOn(f) : fcb_seek'[x] # fcb_seek[x]
       \/ disk_inode'[f] = disk_inode[f] /\ Stored(f, p)' = Stored(f, p)
FilesApart == [][FilesApartStep]_vars

\* sys_fwrite refuses who did not open for writing, "Error: file write
\* permission declined": what only readers have open keeps its bytes on the disk.
ReadersDoNotWrite ==
    [][\A f \in Files :
          (\A x \in OpenOn(f) : fcb_mode[x] = "r") =>
          \A p \in 0 .. disk_size[f] - 1 : Stored(f, p)' = Stored(f, p)]_vars
=============================================================================
