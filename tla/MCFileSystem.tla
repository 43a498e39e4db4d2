---------------------------- MODULE MCFileSystem ----------------------------
(***************************************************************************)
(* FileSystem for TLC, in four kinds of behaviours.                        *)
(***************************************************************************)
EXTENDS FileSystem

\* "data": every file open at most once, all bytes, power cut between calls;
\* "cut": every file open at most once, power cut anywhere;
\* "shared": files open as often as there are control blocks, power cut between
\* calls; and "negative": every file open at most once, power cut between and in
\* calls that write a length below 0, which the other kinds do not have.  What
\* the bytes are matters to the first kind only.
VARIABLE kind

mcvars == <<vars, kind>>

OpenOnce == \A f \in Files : Cardinality(OpenOn(f)) <= 1

Zeros == \A b \in Blocks, i \in InBlock : disk_data[b][i] = 0
ZeroBuffers == \A x \in OpenFcbs, i \in InBlock : fcb_buffer[x][i] = 0

MCInit == Init /\ kind \in {"data", "cut", "shared", "negative"}
MCNext ==
    /\ \/ Call \/ PowerCut
       \/ kind = "cut" /\ PowerCutInCall
       \/ kind = "negative" /\ NegativeCall
    /\ kind # "data" => (Zeros /\ ZeroBuffers)'
    /\ kind # "shared" => OpenOnce'
    /\ UNCHANGED kind
MCSpec == MCInit /\ [][MCNext]_mcvars

\* States that differ only in what closed control blocks have left over count
\* once: sys_fopen sets all of it before anything reads it.  So do states that
\* differ in env_fcb_index, which no call reads but to find its own entry.
Live(field) == [x \in OpenFcbs |-> field[x]]
LiveView == <<kind, diskVars, bitmap, file_size, fcb_inode_offset, Live(fcb_mode),
              Live(fcb_seek), Live(fcb_file_sz), Live(fcb_inode),
              Live(fcb_buf_block), Live(fcb_buffer), listVars>>
-----------------------------------------------------------------------------
(***************************************************************************)
(* Properties of FileSystem in the behaviours they hold in.                *)
(***************************************************************************)

\* SeekInFile of FileSystem: no position gets behind the end of the file, however
\* files are shared and cut, while no write has a length below 0.
SeekInFileForward == kind # "negative" => SeekInFile

\* BlocksApart of FileSystem: no block has two places, while nobody else has the
\* file open and power is cut between calls.
BlocksApartOnce == kind = "data" => BlocksApart

\* BitmapOnDisk of FileSystem: the disk's bitmap has the blocks of its inodes,
\* under the same conditions.
BitmapOnDiskOnce == kind = "data" => BitmapOnDisk

\* WriteIsLocal of FileSystem: a holder sees change only what it writes, under
\* the same conditions.
WriteIsLocalOnce == [][kind = "data" => WriteIsLocalStep]_mcvars

\* FilesApart of FileSystem: calls on one file leave the others alone, under the
\* same conditions.
FilesApartOnce == [][kind = "data" => FilesApartStep]_mcvars

\* SizeHasBlocks of FileSystem: a size on the disk never gets ahead of the
\* blocks, also if power is cut within a call.
SizeHasBlocksOnce == kind \in {"data", "cut"} => SizeHasBlocks

\* InodeCurrent of FileSystem: no call works through a stale inode, unless the
\* file was opened a second time or cut in front of a position.
InodeCurrentOnce == kind \in {"data", "cut"} => InodeCurrent

\* In every kind of behaviour, what it can be asked of the disk and the control
\* blocks holds, and everything has its type.
DiskSoundOnce ==
    /\ TypeOK
    /\ BlocksApartOnce /\ BitmapOnDiskOnce
    /\ SizeHasBlocksOnce /\ InodeCurrentOnce
=============================================================================
