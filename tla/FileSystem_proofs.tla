-------------------------- MODULE FileSystem_proofs --------------------------
(***************************************************************************)
(* What is proved of the files, for every size of disk, blocks and files:  *)
(* the list of free control blocks and the positions, with the power       *)
(* failing anywhere; then, through the loops of sys_fread and sys_fwrite,  *)
(* which block has which place and what of a file may change, in the four  *)
(* kinds of behaviours of MCFileSystem.                                    *)
(***************************************************************************)
EXTENDS MCFileSystem

LEMMA FileConstants ==
    /\ MAX_FILE_SZ \in Nat
    /\ (FileBlocks - 1) * BLOCK_SZ + 1 .. FileBlocks * BLOCK_SZ \subseteq 0 .. MAX_FILE_SZ
    /\ -1 \notin Files /\ 0 \notin Files
    /\ Nil \notin Fcbs
    /\ NFCB \in Nat /\ NFCB >= 1
<1>1. FileBlocks \in Nat /\ FileBlocks <= NR_OFFSET
      /\ BLOCK_SZ \in Nat /\ NR_OFFSET \in Nat
  BY FileAssumption
<1>2. /\ FileBlocks * BLOCK_SZ <= BLOCK_SZ * NR_OFFSET
      /\ FileBlocks * BLOCK_SZ \in Nat /\ BLOCK_SZ * NR_OFFSET \in Nat
  BY <1>1
<1>4. (FileBlocks - 1) * BLOCK_SZ \in Nat
  <2>1. FileBlocks - 1 \in Nat
    BY FileAssumption
  <2> QED
    BY <1>1, <2>1
<1>3. ASSUME NEW k \in 0 .. NrFiles - 1 PROVE InodeBlock(k) >= 2
  <2>1. k \in Nat
    BY FileAssumption
  <2>2. k * (1 + FileBlocks) >= 0
    BY <1>1, <2>1
  <2> QED
    BY <1>1, <2>1, <2>2 DEF InodeBlock
<1> QED
  BY <1>1, <1>2, <1>3, <1>4, FileAssumption DEF MAX_FILE_SZ, Files, Fcbs, Nil

-----------------------------------------------------------------------------
(***************************************************************************)
(* The list of free control blocks                                         *)
(***************************************************************************)

ListType ==
    /\ fcb_inode_offset \in [Fcbs -> Files \cup {-1, 0}]
    /\ fcb_link \in [Fcbs -> Fcbs \cup {Nil}]
    /\ fcb_free_list \in Fcbs \cup {Nil}

\* After a start nothing is open and the list goes up through all the blocks.
LEMMA StartList ==
    ASSUME NEW offset, NEW link, NEW head,
           offset = [x \in Fcbs |-> -1], head = 0,
           link = [x \in Fcbs |-> IF x = NFCB - 1 THEN Nil ELSE x + 1]
    PROVE  /\ offset \in [Fcbs -> Files \cup {-1, 0}]
           /\ link \in [Fcbs -> Fcbs \cup {Nil}]
           /\ head \in Fcbs \cup {Nil}
           /\ {x \in Fcbs : offset[x] \in Files} = {}
           /\ IsList(link, head, Fcbs)
<1>1. Fcbs = 0 .. NFCB - 1 /\ 0 \in Fcbs
  BY FileConstants DEF Fcbs
<1>2. \A x \in Fcbs : (IF x = NFCB - 1 THEN Nil ELSE x + 1) \in Fcbs \cup {Nil}
  BY FileConstants DEF Fcbs
<1>3. IsList(link, 0, 0 .. NFCB - 1)
  BY <1>1, FileConstants, InitialList
<1> QED
  BY <1>1, <1>2, <1>3, FileConstants

LEMMA StartListInv ==
    ASSUME NEW used, NEW size, NEW inode, NEW data, Start(used, size, inode, data)
    PROVE  ListType' /\ FcbListOK'
<1>1. /\ fcb_inode_offset' = [x \in Fcbs |-> -1]
      /\ fcb_link' = [x \in Fcbs |-> IF x = NFCB - 1 THEN Nil ELSE x + 1]
      /\ fcb_free_list' = 0
  BY DEF Start
<1>2. /\ fcb_inode_offset' \in [Fcbs -> Files \cup {-1, 0}]
      /\ fcb_link' \in [Fcbs -> Fcbs \cup {Nil}]
      /\ fcb_free_list' \in Fcbs \cup {Nil}
      /\ {x \in Fcbs : fcb_inode_offset'[x] \in Files} = {}
      /\ IsList(fcb_link', fcb_free_list', Fcbs)
  BY <1>1, StartList, Zenon
<1>3. OpenFcbs' = {}
  BY <1>2 DEF OpenFcbs
<1>4. Fcbs \ OpenFcbs' = Fcbs
  BY <1>3
<1> QED
  BY <1>2, <1>4 DEF ListType, FcbListOK

LEMMA ListStep ==
    ASSUME ListType, FcbListOK, [Next]_vars PROVE ListType' /\ FcbListOK'
<1>a. ASSUME UNCHANGED fcb_inode_offset, UNCHANGED listVars
      PROVE  ListType' /\ FcbListOK'
  BY <1>a DEF ListType, FcbListOK, OpenFcbs, IsList, listVars
<1>1. ASSUME NEW p \in Procs, NEW f \in Files, NEW mode, FOpen(p, f, mode)
      PROVE  ListType' /\ FcbListOK'
  <2>1. PICK x \in Fcbs : x = fcb_free_list
    BY <1>1 DEF FOpen, ListType
  <2>2. /\ fcb_free_list' = fcb_link[x]
        /\ fcb_inode_offset' = [fcb_inode_offset EXCEPT ![x] = f]
        /\ fcb_link' = fcb_link
    BY <1>1, <2>1 DEF FOpen, fcb_alloc
  <2>3. /\ x \in Fcbs \ OpenFcbs
        /\ IsList(fcb_link, fcb_link[x], (Fcbs \ OpenFcbs) \ {x})
    BY <2>1, FileConstants, ListPop DEF FcbListOK
  <2>4. OpenFcbs' = OpenFcbs \cup {x}
    BY <2>1, <2>2 DEF OpenFcbs, ListType
  <2>5. (Fcbs \ OpenFcbs)' = (Fcbs \ OpenFcbs) \ {x}
    BY <2>4
  <2>6. ListType'
    BY <2>1, <2>2 DEF ListType
  <2> QED
    BY <2>2, <2>3, <2>5, <2>6 DEF FcbListOK
<1>2. ASSUME NEW p \in Procs, NEW x \in Fcbs, FClose(p, x)
      PROVE  ListType' /\ FcbListOK'
  <2>1. /\ x \in OpenFcbs
        /\ fcb_inode_offset' = [fcb_inode_offset EXCEPT ![x] = 0]
        /\ fcb_link' = [fcb_link EXCEPT ![x] = fcb_free_list]
        /\ fcb_free_list' = x
    BY <1>2 DEF FClose, fcb_free
  <2>2. OpenFcbs' = OpenFcbs \ {x}
    BY <2>1, FileConstants DEF OpenFcbs, ListType
  <2>3. (Fcbs \ OpenFcbs)' = (Fcbs \ OpenFcbs) \cup {x}
    BY <2>1, <2>2
  <2>4. IsList([fcb_link EXCEPT ![x] = fcb_free_list], x, (Fcbs \ OpenFcbs) \cup {x})
    <3>1. /\ Fcbs \ OpenFcbs \in SUBSET Fcbs /\ x \notin Fcbs \ OpenFcbs
          /\ fcb_link \in [Fcbs -> Fcbs \cup {Nil}]
          /\ IsList(fcb_link, fcb_free_list, Fcbs \ OpenFcbs)
      BY <2>1 DEF ListType, FcbListOK
    <3> QED
      BY <3>1, FileConstants, ListPush
  <2>5. ListType'
    BY <2>1 DEF ListType
  <2> QED
    BY <2>1, <2>3, <2>4, <2>5 DEF FcbListOK
<1>3. ASSUME NEW x, NEW n, FRead(x, n) PROVE ListType' /\ FcbListOK'
  BY <1>a, <1>3 DEF FRead
<1>4. ASSUME NEW x, NEW n, NEW v, FWrite(x, n, v) PROVE ListType' /\ FcbListOK'
  BY <1>a, <1>4 DEF FWrite
<1>5. ASSUME NEW x, NEW end, FSeek(x, end) PROVE ListType' /\ FcbListOK'
  BY <1>a, <1>5 DEF FSeek
<1>6. ASSUME NEW p \in Procs, NewProgram(p) PROVE ListType' /\ FcbListOK'
  BY <1>a, <1>6 DEF NewProgram
<1>7. CASE PowerCut
  BY <1>7, StartListInv DEF PowerCut
<1>8. ASSUME NEW x, NEW n, PowerCutInRead(x, n) PROVE ListType' /\ FcbListOK'
  BY <1>8, StartListInv DEF PowerCutInRead
<1>9. ASSUME NEW x, NEW n, NEW v, PowerCutInWrite(x, n, v)
      PROVE  ListType' /\ FcbListOK'
  BY <1>9, StartListInv DEF PowerCutInWrite
<1>10. CASE UNCHANGED vars
  BY <1>a, <1>10 DEF vars
<1>11. CASE NegativeCall
  BY <1>4, <1>9, <1>11 DEF NegativeCall
<1> QED
  BY <1>1, <1>2, <1>3, <1>4, <1>5, <1>6, <1>7, <1>8, <1>9, <1>10, <1>11
     DEF Next, Forward, Call, PowerCutInCall

\* In whatever order files are opened and closed, by however many processes,
\* the control blocks that are not open are the list fcb_free_list.
THEOREM FcbListCorrect == Spec => []FcbListOK
<1>1. ASSUME Init PROVE ListType /\ FcbListOK
  <2>1. /\ fcb_inode_offset = [x \in Fcbs |-> -1]
        /\ fcb_link = [x \in Fcbs |-> IF x = NFCB - 1 THEN Nil ELSE x + 1]
        /\ fcb_free_list = 0
    BY <1>1 DEF Init
  <2>2. /\ fcb_inode_offset \in [Fcbs -> Files \cup {-1, 0}]
        /\ fcb_link \in [Fcbs -> Fcbs \cup {Nil}]
        /\ fcb_free_list \in Fcbs \cup {Nil}
        /\ {x \in Fcbs : fcb_inode_offset[x] \in Files} = {}
        /\ IsList(fcb_link, fcb_free_list, Fcbs)
    BY <2>1, StartList, Zenon
  <2>3. Fcbs \ OpenFcbs = Fcbs
    BY <2>2 DEF OpenFcbs
  <2> QED
    BY <2>2, <2>3 DEF ListType, FcbListOK
<1> QED
  BY <1>1, ListStep, PTL DEF Spec

-----------------------------------------------------------------------------
(***************************************************************************)
(* Positions and sizes                                                     *)
(***************************************************************************)

PositionType ==
    /\ fcb_inode_offset \in [Fcbs -> Files \cup {-1, 0}]
    /\ disk_size \in SizeType /\ file_size \in SizeType
    /\ fcb_seek \in [Fcbs -> 0 .. MAX_FILE_SZ]
    /\ fcb_file_sz \in [Fcbs -> 0 .. SizeMod - 1]

\* SeekInFile, and the files have sizes a file can have.
InSize ==
    /\ SeekInFile
    /\ \A f \in Files : disk_size[f] <= MAX_FILE_SZ /\ file_size[f] <= MAX_FILE_SZ

\* Any number is an unsigned size, and that of a file is itself.
LEMMA UnsignedSize ==
    /\ SizeMod \in Nat /\ MAX_FILE_SZ \in 0 .. SizeMod - 1
    /\ \A i \in Int : Unsigned(i) \in 0 .. SizeMod - 1
    /\ \A i \in 0 .. 2 * MAX_FILE_SZ : Unsigned(i) = i
<1>1. /\ SizeMod \in Nat /\ MAX_FILE_SZ \in Nat /\ SizeMod > 2 * MAX_FILE_SZ
  BY FileAssumption, FileConstants DEF MAX_FILE_SZ
<1>2. ASSUME NEW i \in Int PROVE (i % SizeMod) \in 0 .. SizeMod - 1
  BY <1>1
<1>3. ASSUME NEW i \in 0 .. 2 * MAX_FILE_SZ PROVE (i % SizeMod) = i
  BY <1>1
<1> QED
  BY <1>1, <1>2, <1>3 DEF Unsigned

\* After a start the sizes are those on the disk, and nothing is open.
LEMMA StartPositions ==
    ASSUME NEW used, NEW inode, NEW data, Start(used, disk_size, inode, data),
           PositionType
    PROVE  PositionType' /\ (InSize => InSize')
<1>1. /\ disk_size' = disk_size /\ file_size' = disk_size
      /\ fcb_inode_offset' = [x \in Fcbs |-> -1]
      /\ fcb_seek' = [x \in Fcbs |-> 0]
      /\ fcb_file_sz' = [x \in Fcbs |-> 0]
  BY DEF Start
<1>2. OpenFcbs' = {}
  BY <1>1, FileConstants DEF OpenFcbs
<1>3. 0 \in 0 .. MAX_FILE_SZ /\ 0 \in 0 .. SizeMod - 1
  BY FileConstants, UnsignedSize
<1>4. PositionType'
  BY <1>1, <1>3 DEF PositionType, SizeType
<1>5. InSize => InSize'
  BY <1>1, <1>2 DEF InSize, SeekInFile
<1> QED
  BY <1>4, <1>5

LEMMA OpenPosition ==
    ASSUME PositionType, NEW x \in OpenFcbs
    PROVE  /\ x \in Fcbs /\ fcb_inode_offset[x] \in Files /\ MAX_FILE_SZ \in Nat
           /\ fcb_seek[x] \in 0 .. MAX_FILE_SZ /\ fcb_file_sz[x] \in 0 .. SizeMod - 1
           /\ InSize => /\ fcb_seek[x] <= fcb_file_sz[x]
                        /\ fcb_file_sz[x] \in 0 .. MAX_FILE_SZ
<1>1. x \in Fcbs /\ fcb_inode_offset[x] \in Files
  BY DEF OpenFcbs
<1>2. fcb_seek[x] \in 0 .. MAX_FILE_SZ /\ fcb_file_sz[x] \in 0 .. SizeMod - 1
  BY <1>1 DEF PositionType
<1>3. InSize => fcb_seek[x] <= fcb_file_sz[x] /\ fcb_file_sz[x] <= MAX_FILE_SZ
  BY DEF InSize, SeekInFile
<1> QED
  BY <1>1, <1>2, <1>3, FileConstants, UnsignedSize

\* How far a read or a write gets: not behind what an inode can name, and a read
\* of a file with such a size not behind its end.
LEMMA ReadSize ==
    ASSUME PositionType, NEW x, NEW n \in 0 .. MAX_FILE_SZ, FRead(x, n)
    PROVE  LET left == Unsigned(fcb_file_sz[x] - fcb_seek[x])
               size == IF n < left THEN n ELSE left
           IN /\ size \in Nat /\ fcb_seek[x] + size \in 0 .. MAX_FILE_SZ
              /\ InSize => fcb_seek[x] + size <= fcb_file_sz[x]
<1> DEFINE left == Unsigned(fcb_file_sz[x] - fcb_seek[x])
           size == IF n < left THEN n ELSE left
<1>1. x \in OpenFcbs /\ fcb_seek[x] + size <= MAX_FILE_SZ
  BY DEF FRead
<1>2. /\ fcb_seek[x] \in 0 .. MAX_FILE_SZ /\ fcb_file_sz[x] \in 0 .. SizeMod - 1
      /\ n \in Nat /\ MAX_FILE_SZ \in Nat /\ SizeMod \in Nat
  BY <1>1, OpenPosition, UnsignedSize
<1>3. left \in Nat
  <2>1. fcb_file_sz[x] - fcb_seek[x] \in Int
    BY <1>2
  <2>2. left \in 0 .. SizeMod - 1
    BY <2>1, UnsignedSize
  <2> QED
    BY <1>2, <2>2
<1>4. ASSUME InSize PROVE left = fcb_file_sz[x] - fcb_seek[x]
  <2>1. fcb_file_sz[x] - fcb_seek[x] \in 0 .. 2 * MAX_FILE_SZ
    BY <1>1, <1>2, <1>4, OpenPosition
  <2> QED
    BY <2>1, UnsignedSize
<1> HIDE DEF left
<1>5. size \in Nat
  BY <1>2, <1>3
<1>6. InSize => fcb_seek[x] + size <= fcb_file_sz[x]
  BY <1>2, <1>3, <1>4, UnsignedSize
<1> HIDE DEF size
<1> QED
  BY <1>1, <1>2, <1>5, <1>6 DEF size, left

LEMMA WriteParts ==
    ASSUME PositionType, NEW x, NEW n \in Int, NEW v, FWrite(x, n, v)
    PROVE  LET moved == IF n > 0 THEN n ELSE 0
               end   == Unsigned(fcb_seek[x] + n)
               f     == fcb_inode_offset[x]
               s     == Writing(x, moved, v)[moved]
           IN /\ x \in OpenFcbs /\ fcb_mode[x] = "w"
              /\ moved \in Nat /\ fcb_seek[x] + moved \in 0 .. MAX_FILE_SZ
              /\ Becomes(x, s) /\ disk_bitmap' = s.bitmap
              /\ fcb_seek' = [fcb_seek EXCEPT ![x] = fcb_seek[x] + moved]
              /\ UNCHANGED <<fcb_inode_offset, fcb_mode, env_fcb_index>>
              /\ end \in 0 .. SizeMod - 1
              /\ \/ /\ fcb_file_sz' = [fcb_file_sz EXCEPT ![x] = end]
                    /\ file_size' = [file_size EXCEPT ![f] = end]
                    /\ disk_size' = file_size'
                 \/ /\ ~ (end > fcb_file_sz[x])
                    /\ UNCHANGED <<fcb_file_sz, file_size, disk_size>>
<1> DEFINE moved == IF n > 0 THEN n ELSE 0
           end   == Unsigned(fcb_seek[x] + n)
           f     == fcb_inode_offset[x]
           s     == Writing(x, moved, v)[moved]
<1>1. /\ x \in OpenFcbs /\ fcb_mode[x] = "w"
      /\ fcb_seek[x] + moved <= MAX_FILE_SZ
      /\ Becomes(x, s) /\ disk_bitmap' = s.bitmap
      /\ UNCHANGED <<fcb_inode_offset, fcb_mode, env_fcb_index>>
  BY DEF FWrite
<1>2. fcb_seek' = [fcb_seek EXCEPT ![x] = fcb_seek[x] + moved]
  BY DEF FWrite
<1>3. \/ /\ fcb_file_sz' = [fcb_file_sz EXCEPT ![x] = end]
         /\ file_size' = [file_size EXCEPT ![f] = end]
         /\ disk_size' = file_size'
      \/ /\ ~ (end > fcb_file_sz[x])
         /\ UNCHANGED <<fcb_file_sz, file_size, disk_size>>
  BY Zenon DEF FWrite
<1> HIDE DEF s
<1>4. fcb_seek[x] \in Nat /\ moved \in Nat /\ MAX_FILE_SZ \in Nat
  BY <1>1, OpenPosition
<1>5. end \in 0 .. SizeMod - 1
  BY <1>4, UnsignedSize
<1>6. fcb_seek[x] + moved \in 0 .. MAX_FILE_SZ
  BY <1>1, <1>4
<1> HIDE DEF moved, end
<1> QED
  BY <1>1, <1>2, <1>3, <1>4, <1>5, <1>6 DEF moved, end, s

\* Without lengths below 0, in a file with a size a file can have, a write moves
\* what it is asked to.
LEMMA ForwardWrite ==
    ASSUME PositionType, InSize, NEW x \in OpenFcbs, NEW n \in 0 .. MAX_FILE_SZ,
           Unsigned(fcb_file_sz[x] + n) <= MAX_FILE_SZ
    PROVE  /\ n \in Nat /\ (IF n > 0 THEN n ELSE 0) = n
           /\ fcb_seek[x] + n \in 0 .. MAX_FILE_SZ
           /\ Unsigned(fcb_seek[x] + n) = fcb_seek[x] + n
           /\ fcb_file_sz[x] + n <= MAX_FILE_SZ
<1>1. /\ fcb_seek[x] \in 0 .. MAX_FILE_SZ /\ fcb_file_sz[x] \in 0 .. MAX_FILE_SZ
      /\ fcb_seek[x] <= fcb_file_sz[x] /\ n \in Nat /\ MAX_FILE_SZ \in Nat
  BY OpenPosition
<1>2. /\ fcb_file_sz[x] + n \in 0 .. 2 * MAX_FILE_SZ
      /\ fcb_seek[x] + n \in 0 .. 2 * MAX_FILE_SZ
  BY <1>1
<1>3. /\ Unsigned(fcb_file_sz[x] + n) = fcb_file_sz[x] + n
      /\ Unsigned(fcb_seek[x] + n) = fcb_seek[x] + n
  BY <1>2, UnsignedSize
<1> QED
  BY <1>1, <1>3

LEMMA PositionTypes == ASSUME PositionType, [Next]_vars PROVE PositionType'
<1>a. ASSUME UNCHANGED <<fcb_inode_offset, disk_size, file_size, fcb_seek, fcb_file_sz>>
      PROVE  PositionType'
  BY <1>a DEF PositionType, SizeType
<1>b. MAX_FILE_SZ \in Nat /\ 0 \in 0 .. MAX_FILE_SZ
  BY FileConstants
<1>1. ASSUME NEW p \in Procs, NEW f \in Files, NEW mode, FOpen(p, f, mode)
      PROVE  PositionType'
  <2> DEFINE x == fcb_free_list
  <2>1. /\ fcb_inode_offset' = [fcb_inode_offset EXCEPT ![x] = f]
        /\ fcb_seek' = [fcb_seek EXCEPT ![x] = 0]
        /\ fcb_file_sz' = [fcb_file_sz EXCEPT ![x] = file_size[f]]
        /\ disk_size' = disk_size /\ file_size' = file_size
    BY <1>1 DEF FOpen, fcb_alloc, diskVars
  <2>2. file_size[f] \in 0 .. SizeMod - 1
    BY DEF PositionType, SizeType
  <2> HIDE DEF x
  <2> QED
    BY <2>1, <2>2, <1>b DEF PositionType, SizeType
<1>2. ASSUME NEW p \in Procs, NEW x \in Fcbs, FClose(p, x) PROVE PositionType'
  BY <1>2 DEF FClose, fcb_free, diskVars, PositionType, SizeType
<1>3. ASSUME NEW x, NEW n \in 0 .. MAX_FILE_SZ, FRead(x, n) PROVE PositionType'
  <2> DEFINE left == Unsigned(fcb_file_sz[x] - fcb_seek[x])
             size == IF n < left THEN n ELSE left
  <2>1. /\ fcb_seek' = [fcb_seek EXCEPT ![x] = fcb_seek[x] + size]
        /\ UNCHANGED <<disk_size, file_size, fcb_inode_offset, fcb_file_sz>>
    BY <1>3 DEF FRead
  <2>2. fcb_seek[x] + size \in 0 .. MAX_FILE_SZ
    BY <1>3, ReadSize
  <2> HIDE DEF size
  <2> QED
    BY <2>1, <2>2 DEF PositionType, SizeType
<1>4. ASSUME NEW x, NEW n \in Int, NEW v, FWrite(x, n, v) PROVE PositionType'
  <2> DEFINE moved == IF n > 0 THEN n ELSE 0
             end   == Unsigned(fcb_seek[x] + n)
             f     == fcb_inode_offset[x]
  <2>1. /\ fcb_seek[x] + moved \in 0 .. MAX_FILE_SZ
        /\ fcb_seek' = [fcb_seek EXCEPT ![x] = fcb_seek[x] + moved]
        /\ fcb_inode_offset' = fcb_inode_offset /\ end \in 0 .. SizeMod - 1
        /\ \/ /\ fcb_file_sz' = [fcb_file_sz EXCEPT ![x] = end]
              /\ file_size' = [file_size EXCEPT ![f] = end]
              /\ disk_size' = file_size'
           \/ UNCHANGED <<fcb_file_sz, file_size, disk_size>>
    BY <1>4, WriteParts
  <2> HIDE DEF moved, end, f
  <2> QED
    BY <2>1 DEF PositionType, SizeType
<1>5. ASSUME NEW x, NEW end \in 0 .. MAX_FILE_SZ, FSeek(x, end) PROVE PositionType'
  BY <1>5 DEF FSeek, diskVars, PositionType, SizeType
<1>6. ASSUME NEW p \in Procs, NewProgram(p) PROVE PositionType'
  BY <1>a, <1>6 DEF NewProgram, diskVars
<1>7. CASE PowerCut
  BY <1>7, StartPositions DEF PowerCut
<1>8. ASSUME NEW x, NEW n, PowerCutInRead(x, n) PROVE PositionType'
  BY <1>8, StartPositions DEF PowerCutInRead
<1>9. ASSUME NEW x, NEW n, NEW v, PowerCutInWrite(x, n, v) PROVE PositionType'
  BY <1>9, StartPositions DEF PowerCutInWrite
<1>10. CASE UNCHANGED vars
  BY <1>a, <1>10 DEF vars, diskVars
<1>11. CASE NegativeCall
  <2>1. PICK x \in Fcbs, n \in 1 .. MAX_FILE_SZ : FWrite(x, -n, 0) \/ PowerCutInWrite(x, -n, 0)
    BY <1>11 DEF NegativeCall
  <2>2. -n \in Int
    BY <1>b
  <2> QED
    BY <2>1, <2>2, <1>4, <1>9
<1>12. 0 .. MAX_FILE_SZ \subseteq Int
  BY <1>b
<1> QED
  BY <1>1, <1>2, <1>3, <1>4, <1>5, <1>6, <1>7, <1>8, <1>9, <1>10, <1>11, <1>12
     DEF Next, Forward, Call, PowerCutInCall

LEMMA PositionStep ==
    ASSUME PositionType, InSize, [Forward]_vars PROVE InSize'
<1>a. ASSUME UNCHANGED <<fcb_inode_offset, disk_size, file_size, fcb_seek, fcb_file_sz>>
      PROVE  InSize'
  BY <1>a DEF InSize, SeekInFile, OpenFcbs
<1>b. MAX_FILE_SZ \in Nat
  BY FileConstants
<1>c. \A f \in Files : disk_size[f] <= MAX_FILE_SZ /\ file_size[f] <= MAX_FILE_SZ
  BY DEF InSize
<1>1. ASSUME NEW p \in Procs, NEW f \in Files, NEW mode, FOpen(p, f, mode)
      PROVE  InSize'
  <2> DEFINE x == fcb_free_list
  <2>1. /\ fcb_inode_offset' = [fcb_inode_offset EXCEPT ![x] = f]
        /\ fcb_seek' = [fcb_seek EXCEPT ![x] = 0]
        /\ fcb_file_sz' = [fcb_file_sz EXCEPT ![x] = file_size[f]]
        /\ disk_size' = disk_size /\ file_size' = file_size
    BY <1>1 DEF FOpen, fcb_alloc, diskVars
  <2>2. file_size[f] \in 0 .. SizeMod - 1 /\ file_size[f] <= MAX_FILE_SZ /\ 0 <= file_size[f]
    BY <1>c, UnsignedSize DEF PositionType, SizeType
  <2>3. ASSUME NEW y \in OpenFcbs'
        PROVE  fcb_seek'[y] <= fcb_file_sz'[y] /\ fcb_file_sz'[y] <= MAX_FILE_SZ
    <3>1. y \in Fcbs /\ fcb_inode_offset'[y] \in Files
      BY DEF OpenFcbs
    <3>2. CASE y = x
      <4>1. fcb_seek'[y] = 0 /\ fcb_file_sz'[y] = file_size[f]
        BY <2>1, <3>1, <3>2 DEF PositionType
      <4> QED
        BY <2>2, <4>1
    <3>3. CASE y # x
      BY <2>1, <3>1, <3>3 DEF PositionType, InSize, SeekInFile, OpenFcbs
    <3> QED
      BY <3>2, <3>3
  <2> QED
    BY <2>1, <2>3, <1>c DEF InSize, SeekInFile
<1>2. ASSUME NEW p \in Procs, NEW x \in Fcbs, FClose(p, x) PROVE InSize'
  <2>1. /\ fcb_inode_offset' = [fcb_inode_offset EXCEPT ![x] = 0]
        /\ UNCHANGED <<disk_size, file_size, fcb_seek, fcb_file_sz>>
    BY <1>2 DEF FClose, fcb_free, diskVars
  <2>2. OpenFcbs' \subseteq OpenFcbs
    BY <2>1, FileConstants DEF OpenFcbs, PositionType
  <2> QED
    BY <2>1, <2>2 DEF InSize, SeekInFile
<1>3. ASSUME NEW x, NEW n \in 0 .. MAX_FILE_SZ, FRead(x, n) PROVE InSize'
  <2> DEFINE left == Unsigned(fcb_file_sz[x] - fcb_seek[x])
             size == IF n < left THEN n ELSE left
  <2>1. /\ x \in OpenFcbs
        /\ fcb_seek' = [fcb_seek EXCEPT ![x] = fcb_seek[x] + size]
        /\ UNCHANGED <<disk_size, file_size, fcb_inode_offset, fcb_file_sz>>
    BY <1>3 DEF FRead
  <2>2. fcb_seek[x] + size <= fcb_file_sz[x]
    BY <1>3, ReadSize
  <2> HIDE DEF size
  <2> QED
    BY <2>1, <2>2, <1>c DEF PositionType, InSize, SeekInFile, OpenFcbs
<1>4. ASSUME NEW x, NEW n \in 0 .. MAX_FILE_SZ, NEW v, FWrite(x, n, v) PROVE InSize'
  <2> DEFINE end == fcb_seek[x] + n
             f   == fcb_inode_offset[x]
  <2>0. x \in OpenFcbs /\ Unsigned(fcb_file_sz[x] + n) <= MAX_FILE_SZ /\ n \in Int
    BY <1>4, <1>b DEF FWrite
  <2>1. /\ (IF n > 0 THEN n ELSE 0) = n /\ end \in 0 .. MAX_FILE_SZ
        /\ Unsigned(end) = end
    BY <2>0, ForwardWrite
  <2>2. /\ fcb_seek' = [fcb_seek EXCEPT ![x] = end]
        /\ fcb_inode_offset' = fcb_inode_offset
        /\ \/ /\ fcb_file_sz' = [fcb_file_sz EXCEPT ![x] = end]
              /\ file_size' = [file_size EXCEPT ![f] = end]
              /\ disk_size' = file_size'
           \/ ~ (end > fcb_file_sz[x]) /\ UNCHANGED <<fcb_file_sz, file_size, disk_size>>
    BY <1>4, <2>0, <2>1, WriteParts
  <2>3. /\ x \in Fcbs /\ f \in Files
        /\ fcb_file_sz[x] \in 0 .. MAX_FILE_SZ /\ fcb_seek[x] \in 0 .. MAX_FILE_SZ
    BY <2>0, OpenPosition
  <2> HIDE DEF end, f
  <2>4. CASE /\ fcb_file_sz' = [fcb_file_sz EXCEPT ![x] = end]
             /\ file_size' = [file_size EXCEPT ![f] = end]
             /\ disk_size' = file_size'
    <3>1. \A g \in Files : disk_size'[g] <= MAX_FILE_SZ /\ file_size'[g] <= MAX_FILE_SZ
      BY <2>1, <2>3, <2>4, <1>b, <1>c DEF PositionType, SizeType
    <3>2. SeekInFile'
      BY <2>1, <2>2, <2>3, <2>4, <1>b DEF PositionType, InSize, SeekInFile, OpenFcbs
    <3> QED
      BY <3>1, <3>2 DEF InSize
  <2>5. CASE ~ (end > fcb_file_sz[x]) /\ UNCHANGED <<fcb_file_sz, file_size, disk_size>>
    <3>1. SeekInFile'
      BY <2>1, <2>2, <2>3, <2>5, <1>b DEF PositionType, InSize, SeekInFile, OpenFcbs
    <3> QED
      BY <2>5, <3>1, <1>c DEF InSize
  <2> QED
    BY <2>2, <2>4, <2>5
<1>5. ASSUME NEW x, NEW end \in 0 .. MAX_FILE_SZ, FSeek(x, end) PROVE InSize'
  <2>1. /\ x \in OpenFcbs /\ x \in Fcbs /\ end <= fcb_file_sz[x]
        /\ fcb_seek' = [fcb_seek EXCEPT ![x] = end]
        /\ UNCHANGED <<disk_size, file_size, fcb_inode_offset, fcb_file_sz>>
    BY <1>5 DEF FSeek, OpenFcbs, diskVars
  <2> QED
    BY <2>1, <1>c DEF PositionType, InSize, SeekInFile, OpenFcbs
<1>6. ASSUME NEW p \in Procs, NewProgram(p) PROVE InSize'
  BY <1>a, <1>6 DEF NewProgram, diskVars
<1>7. CASE PowerCut
  BY <1>7, StartPositions DEF PowerCut
<1>8. ASSUME NEW x, NEW n, PowerCutInRead(x, n) PROVE InSize'
  BY <1>8, StartPositions DEF PowerCutInRead
<1>9. ASSUME NEW x, NEW n, NEW v, PowerCutInWrite(x, n, v) PROVE InSize'
  BY <1>9, StartPositions DEF PowerCutInWrite
<1>10. CASE UNCHANGED vars
  BY <1>a, <1>10 DEF vars, diskVars
<1> QED
  BY <1>1, <1>2, <1>3, <1>4, <1>5, <1>6, <1>7, <1>8, <1>9, <1>10
     DEF Forward, Call, PowerCutInCall

LEMMA PositionInit == ASSUME Init PROVE PositionType /\ InSize
<1>1. /\ disk_size = file_size
      /\ file_size \in
           [Files -> (FileBlocks - 1) * BLOCK_SZ + 1 .. FileBlocks * BLOCK_SZ]
      /\ fcb_inode_offset = [x \in Fcbs |-> -1]
      /\ fcb_seek = [x \in Fcbs |-> 0]
      /\ fcb_file_sz = [x \in Fcbs |-> 0]
  BY DEF Init
<1>2. OpenFcbs = {}
  BY <1>1, FileConstants DEF OpenFcbs
<1>3. 0 \in 0 .. MAX_FILE_SZ /\ 0 \in 0 .. SizeMod - 1
  BY FileConstants, UnsignedSize
<1>4. file_size \in [Files -> 0 .. MAX_FILE_SZ]
  BY <1>1, FileConstants
<1>5. 0 .. MAX_FILE_SZ \subseteq 0 .. SizeMod - 1
  BY UnsignedSize
<1>6. file_size \in SizeType /\ disk_size \in SizeType
  BY <1>1, <1>4, <1>5 DEF SizeType
<1>7. \A f \in Files : disk_size[f] <= MAX_FILE_SZ /\ file_size[f] <= MAX_FILE_SZ
  BY <1>1, <1>4, FileConstants
<1> QED
  BY <1>1, <1>2, <1>3, <1>6, <1>7 DEF PositionType, InSize, SeekInFile

\* Whoever else reads, writes and cuts the file, as long as no length is below 0:
\* no position gets behind the end of the file as its control block knows it, and
\* no end behind the last block an inode can name.
THEOREM PositionsCorrect == ForwardSpec => []SeekInFile
<1>1. Init => PositionType /\ InSize
  BY PositionInit
<1>2. ASSUME PositionType, InSize, [Forward]_vars PROVE PositionType' /\ InSize'
  BY <1>2, PositionTypes, PositionStep DEF Next
<1>3. InSize => SeekInFile
  BY DEF InSize
<1> QED
  BY <1>1, <1>2, <1>3, PTL DEF ForwardSpec

\* The same where only behaviours of one kind have such lengths, the others not.
THEOREM PositionsForward == MCSpec => []SeekInFileForward
<1> DEFINE Inv == PositionType /\ (kind # "negative" => InSize)
<1>1. MCInit => Inv
  BY PositionInit DEF MCInit
<1>2. ASSUME Inv, [MCNext]_mcvars PROVE Inv'
  <2>1. [Next]_vars /\ kind' = kind /\ (kind # "negative" => [Forward]_vars)
    BY <1>2 DEF MCNext, mcvars, Next, Forward
  <2> QED
    BY <1>2, <2>1, PositionTypes, PositionStep
<1>3. Inv => SeekInFileForward
  BY DEF InSize, SeekInFileForward
<1> HIDE DEF Inv
<1> QED
  BY <1>1, <1>2, <1>3, PTL DEF MCSpec
-----------------------------------------------------------------------------
(***************************************************************************)
(* The loops of sys_fread and sys_fwrite: their types                      *)
(***************************************************************************)

LoopType ==
    [inodes : [Files -> InodeType], data : [Blocks \cup {NoBlock} -> BufferType],
     bitmap : SUBSET Blocks, inode : InodeType, block : Offsets, buffer : BufferType]

\* A position in a file is in a block that an inode can name.
LEMMA PositionBlock ==
    ASSUME NEW p \in 0 .. MAX_FILE_SZ - 1
    PROVE  /\ p \div BLOCK_SZ \in Offsets /\ p % BLOCK_SZ \in InBlock
           /\ p = (p \div BLOCK_SZ) * BLOCK_SZ + (p % BLOCK_SZ)
<1> DEFINE q == p \div BLOCK_SZ
           r == p % BLOCK_SZ
<1>1. /\ BLOCK_SZ \in Nat /\ BLOCK_SZ >= 1 /\ NR_OFFSET \in Nat
      /\ p \in Nat /\ p < BLOCK_SZ * NR_OFFSET
  BY FileConstants, FileAssumption DEF MAX_FILE_SZ
<1>2. q \in Int /\ r \in 0 .. BLOCK_SZ - 1 /\ p = q * BLOCK_SZ + r
  BY <1>1
<1> HIDE DEF q, r
<1>3. q >= 0
  <2> SUFFICES ASSUME q <= -1 PROVE FALSE
    BY <1>2
  <2>1. q * BLOCK_SZ <= -1 * BLOCK_SZ
    BY <1>1, <1>2
  <2>2. QED BY <1>1, <1>2, <2>1
<1>4. q < NR_OFFSET
  <2> SUFFICES ASSUME q >= NR_OFFSET PROVE FALSE
    BY <1>1, <1>2
  <2>1. q * BLOCK_SZ >= NR_OFFSET * BLOCK_SZ
    BY <1>1, <1>2
  <2>2. NR_OFFSET * BLOCK_SZ = BLOCK_SZ * NR_OFFSET
    BY <1>1
  <2>3. QED BY <1>1, <1>2, <2>1, <2>2
<1>5. q \in Offsets /\ r \in InBlock
  BY <1>1, <1>2, <1>3, <1>4 DEF Offsets, InBlock
<1>6. QED BY <1>2, <1>5 DEF q, r

\* Two positions in one block and at one place in it are one.
LEMMA BlockPosition ==
    ASSUME NEW i \in Offsets, NEW r \in InBlock
    PROVE  LET p == i * BLOCK_SZ + r IN
           p \in Nat /\ p \div BLOCK_SZ = i /\ p % BLOCK_SZ = r
<1>1. BLOCK_SZ \in Nat /\ BLOCK_SZ >= 1 /\ i \in Nat /\ r \in 0 .. BLOCK_SZ - 1
  BY FileAssumption DEF Offsets, InBlock
<1>2. i * BLOCK_SZ \in Nat
  BY <1>1
<1> DEFINE p == i * BLOCK_SZ + r
           q == p \div BLOCK_SZ
           m == p % BLOCK_SZ
<1>3. p \in Nat
  BY <1>1, <1>2
<1>4. q \in Int /\ m \in 0 .. BLOCK_SZ - 1 /\ p = q * BLOCK_SZ + m
  <2> HIDE DEF p
  <2>1. QED BY <1>1, <1>3
<1>5. p = i * BLOCK_SZ + r
  OBVIOUS
<1> HIDE DEF p, q, m
<1>6. q = i
  <2>1. (q - i) * BLOCK_SZ = r - m
    BY <1>1, <1>4, <1>5
  <2>2. ASSUME q - i >= 1 PROVE FALSE
    <3>1. (q - i) * BLOCK_SZ >= BLOCK_SZ
      BY <1>1, <1>4, <2>2
    <3>2. QED BY <1>1, <1>4, <2>1, <3>1
  <2>3. ASSUME q - i <= -1 PROVE FALSE
    <3>1. (q - i) * BLOCK_SZ <= -BLOCK_SZ
      BY <1>1, <1>4, <2>3
    <3>2. QED BY <1>1, <1>4, <2>1, <3>1
  <2>4. QED BY <1>1, <1>4, <2>2, <2>3
<1>7. m = r
  BY <1>1, <1>2, <1>4, <1>5, <1>6
<1>8. QED BY <1>3, <1>6, <1>7 DEF p, q, m

\* block_alloc finds a block that is free, if there is one.
LEMMA AllocFree ==
    ASSUME NEW used
    PROVE  \/ block_alloc(used) = NoBlock /\ Blocks \subseteq used
           \/ block_alloc(used) \in Blocks \ used
<1>1. CASE Blocks \subseteq used
  BY <1>1 DEF block_alloc
<1>2. CASE ~(Blocks \subseteq used)
  <2> DEFINE R == OpToRel(<, Nat)
             U == Blocks \ used
  <2>1. U \subseteq Nat /\ U # {}
    BY <1>2 DEF Blocks
  <2>2. PICK b \in U : \A c \in U : ~ (<<c, b>> \in R)
    BY <2>1, WFMin, NatLessThanWellFounded, Zenon
  <2>3. \A c \in U : b <= c
    <3>1. \A c \in U : ~ (c < b)
      BY <2>1, <2>2 DEF OpToRel
    <3>2. QED BY <2>1, <3>1
  <2>4. block_alloc(used) = CHOOSE x \in U : \A c \in U : x <= c
    BY <1>2 DEF block_alloc
  <2>5. block_alloc(used) \in U
    BY <2>3, <2>4
  <2>6. QED BY <2>5
<1>3. QED BY <1>1, <1>2

LEMMA StateType ==
    ASSUME TypeOK, NEW x \in Fcbs PROVE State(x) \in LoopType
BY DEF TypeOK, State, LoopType

LEMMA NoBlockOut == NoBlock \notin Blocks /\ 0 \in Offsets
BY FileAssumption DEF NoBlock, Blocks, Offsets

\* What fcb_update and Fetch change.
LEMMA UpdateFields ==
    ASSUME NEW s \in LoopType
    PROVE  LET u == fcb_update(s) IN
           /\ u \in LoopType
           /\ u.data = [s.data EXCEPT ![s.inode[s.block]] = s.buffer]
           /\ u.inodes = s.inodes /\ u.bitmap = s.bitmap /\ u.inode = s.inode
           /\ u.block = s.block /\ u.buffer = s.buffer
BY DEF fcb_update, LoopType

Fetched(s, f, i, t) ==
    /\ t \in LoopType /\ t.block = i /\ t.data = s.data
    /\ \/ /\ s.inode[i] # NoBlock
          /\ t.inode = s.inode /\ t.inodes = s.inodes /\ t.bitmap = s.bitmap
          /\ t.buffer = s.data[s.inode[i]]
       \/ /\ s.inode[i] = NoBlock
          /\ \E b : /\ (b = NoBlock /\ Blocks \subseteq s.bitmap) \/ b \in Blocks \ s.bitmap
                    /\ t.inode = [s.inode EXCEPT ![i] = b]
                    /\ t.inodes = [s.inodes EXCEPT ![f] = t.inode]
                    /\ t.bitmap = s.bitmap \cup ({b} \cap Blocks)
                    /\ t.buffer = s.data[b]

LEMMA FetchFields ==
    ASSUME NEW s \in LoopType, NEW f \in Files, NEW i \in Offsets
    PROVE  Fetched(s, f, i, Fetch(s, f, i))
<1> DEFINE t == Fetch(s, f, i)
<1>0. s.inode \in InodeType /\ s.inode[i] \in Blocks \cup {NoBlock}
  BY DEF LoopType, InodeType
<1>1. CASE s.inode[i] # NoBlock
  <2>1. t = [s EXCEPT !.block = i, !.buffer = s.data[s.inode[i]]]
    BY <1>1 DEF Fetch
  <2>2. s.data[s.inode[i]] \in BufferType
    BY <1>0 DEF LoopType
  <2> HIDE DEF t
  <2>3. /\ t \in LoopType /\ t.block = i /\ t.data = s.data
        /\ t.inode = s.inode /\ t.inodes = s.inodes /\ t.bitmap = s.bitmap
        /\ t.buffer = s.data[s.inode[i]]
    BY <2>1, <2>2 DEF LoopType
  <2>4. QED BY <1>1, <2>3 DEF Fetched, t
<1>2. CASE s.inode[i] = NoBlock
  <2> DEFINE b     == block_alloc(s.bitmap)
             inode == [s.inode EXCEPT ![i] = b]
             used  == s.bitmap \cup ({b} \cap Blocks)
  <2>1. t = [s EXCEPT !.inode = inode, !.inodes[f] = inode, !.bitmap = @ \cup ({b} \cap Blocks),
                      !.block = i, !.buffer = s.data[b]]
    BY <1>2 DEF Fetch
  <2>2. (b = NoBlock /\ Blocks \subseteq s.bitmap) \/ b \in Blocks \ s.bitmap
    BY AllocFree
  <2>3. inode \in InodeType /\ s.data[b] \in BufferType /\ used \in SUBSET Blocks
    BY <1>0, <2>2 DEF LoopType, InodeType
  <2> HIDE DEF t, b, inode
  <2>4. /\ t.block = i /\ t.data = s.data
        /\ t.inode = inode /\ t.inodes = [s.inodes EXCEPT ![f] = inode]
        /\ t.bitmap = used /\ t.buffer = s.data[b]
    BY <2>1 DEF LoopType
  <2>5. t \in LoopType
    BY <2>1, <2>3 DEF LoopType
  <2>6. QED BY <1>2, <2>2, <2>4, <2>5 DEF Fetched, inode, t
<1>3. QED BY <1>1, <1>2

LEMMA AtPositionType ==
    ASSUME NEW s \in LoopType, NEW f \in Files, NEW p \in 0 .. MAX_FILE_SZ - 1
    PROVE  AtPosition(s, f, p) \in LoopType /\ AtPosition(s, f, p).block = p \div BLOCK_SZ
<1>1. p \div BLOCK_SZ \in Offsets
  BY PositionBlock
<1>2. CASE p \div BLOCK_SZ = s.block
  BY <1>2 DEF AtPosition
<1>3. CASE p \div BLOCK_SZ # s.block
  <2> DEFINE i == p \div BLOCK_SZ
             u == fcb_update(s)
  <2>1. u \in LoopType
    BY UpdateFields
  <2>2. AtPosition(s, f, p) = Fetch(u, f, i)
    BY <1>3 DEF AtPosition, fcb_switch_buf
  <2> HIDE DEF u, i
  <2>3. i \in Offsets
    BY <1>1 DEF i
  <2>4. Fetched(u, f, i, Fetch(u, f, i))
    BY <2>1, <2>3, FetchFields
  <2>5. QED BY <2>2, <2>4 DEF Fetched, i
<1>4. QED BY <1>2, <1>3

\* A byte v put into the buffer.
Put(s, p, v) == [s EXCEPT !.buffer[p % BLOCK_SZ] = v]

LEMMA PutFields ==
    ASSUME NEW s \in LoopType, NEW p \in 0 .. MAX_FILE_SZ - 1, NEW v \in Bytes
    PROVE  /\ Put(s, p, v) \in LoopType
           /\ Put(s, p, v).buffer = [s.buffer EXCEPT ![p % BLOCK_SZ] = v]
           /\ Put(s, p, v).inodes = s.inodes /\ Put(s, p, v).data = s.data
           /\ Put(s, p, v).bitmap = s.bitmap /\ Put(s, p, v).inode = s.inode
           /\ Put(s, p, v).block = s.block
<1>1. p % BLOCK_SZ \in InBlock
  BY PositionBlock
<1> DEFINE r == p % BLOCK_SZ
           t == [s EXCEPT !.buffer[r] = v]
<1>2. r \in InBlock /\ t = Put(s, p, v)
  BY <1>1 DEF Put
<1> HIDE DEF r
<1>3. [s.buffer EXCEPT ![r] = v] \in BufferType
  BY <1>2 DEF LoopType, BufferType
<1>4. /\ t \in LoopType /\ t.buffer = [s.buffer EXCEPT ![r] = v]
      /\ t.inodes = s.inodes /\ t.data = s.data /\ t.bitmap = s.bitmap
      /\ t.inode = s.inode /\ t.block = s.block
  BY <1>3 DEF LoopType
<1> HIDE DEF t
<1>5. QED BY <1>2, <1>4 DEF r

\* The loops are what their bodies come to, one after the other.
Loops(r, n, x, G) ==
    /\ r \in [0 .. n -> LoopType] /\ r[0] = State(x)
    /\ \A k \in 1 .. n : r[k] = G[k][r[k - 1]]

Reader(x, n) ==
    [k \in 1 .. n |-> [s \in LoopType |->
        AtPosition(s, fcb_inode_offset[x], fcb_seek[x] + k - 1)]]
Writer(x, n, v) ==
    [k \in 1 .. n |-> [s \in LoopType |->
        Put(AtPosition(s, fcb_inode_offset[x], fcb_seek[x] + k - 1), fcb_seek[x] + k - 1, v)]]

\* Positions that lie in a file.
Within(x, n) ==
    /\ x \in OpenFcbs /\ n \in Nat
    /\ \A k \in 1 .. n : fcb_seek[x] + k - 1 \in 0 .. MAX_FILE_SZ - 1

LEMMA ReadingRuns ==
    ASSUME TypeOK, NEW x, NEW n, Within(x, n)
    PROVE  Loops(Reading(x, n), n, x, Reader(x, n))
<1> DEFINE f == fcb_inode_offset[x]
           G == Reader(x, n)
           H(k, s) == IF k = 0 THEN State(x) ELSE AtPosition(s[k - 1], f, fcb_seek[x] + k - 1)
<1>1. x \in Fcbs /\ f \in Files /\ n \in Nat
  BY DEF Within, OpenFcbs
<1>2. State(x) \in LoopType
  BY <1>1, StateType
<1>3. /\ G \in [1 .. n -> [LoopType -> LoopType]]
      /\ \A k \in 1 .. n, s \in LoopType : G[k][s] = AtPosition(s, f, fcb_seek[x] + k - 1)
  BY <1>1, AtPositionType DEF Within, Reader
<1> HIDE DEF G, f
<1>4. PICK g : Repeats(g, n, LoopType, G, State(x))
  BY <1>1, <1>2, <1>3, Repeated
<1>5. /\ g \in [0 .. n -> LoopType] /\ g[0] = State(x)
      /\ \A k \in 1 .. n : g[k] = G[k][g[k - 1]]
  BY <1>4 DEF Repeats
<1>6. g = [k \in 0 .. n |-> H(k, g)]
  <2>1. ASSUME NEW k \in 0 .. n PROVE g[k] = H(k, g)
    <3>1. k # 0 => k \in 1 .. n /\ k - 1 \in 0 .. n
      BY <1>1
    <3>2. QED BY <1>3, <1>5, <3>1
  <2> HIDE DEF H
  <2>2. QED BY <1>5, <2>1
<1>7. PICK r : r = Reading(x, n) /\ r = [k \in 0 .. n |-> H(k, r)]
  <2> HIDE DEF H
  <2>1. Reading(x, n) = CHOOSE s : s = [k \in 0 .. n |-> H(k, s)]
    BY DEF Reading, H, f
  <2>2. QED BY <1>6, <2>1
<1>8. r[0] = State(x) /\ \A k \in 1 .. n : r[k] = AtPosition(r[k - 1], f, fcb_seek[x] + k - 1)
  <2>1. 0 \in 0 .. n /\ \A k \in 1 .. n : k \in 0 .. n /\ k # 0
    BY <1>1
  <2>2. QED BY <1>7, <2>1
<1> DEFINE S == {k \in 0 .. n : r[k] \in LoopType}
<1>9. 0 \in S /\ \A k \in 1 .. n : k - 1 \in S => k \in S
  <2>1. 0 \in S
    BY <1>1, <1>2, <1>8
  <2>2. ASSUME NEW k \in 1 .. n, k - 1 \in S PROVE k \in S
    <3>1. fcb_seek[x] + k - 1 \in 0 .. MAX_FILE_SZ - 1
      BY DEF Within
    <3>2. f \in Files
      BY <1>1
    <3>3. AtPosition(r[k - 1], f, fcb_seek[x] + k - 1) \in LoopType
      BY <2>2, <3>1, <3>2, AtPositionType
    <3>4. QED BY <1>8, <3>3
  <2>3. QED BY <2>1, <2>2
<1> HIDE DEF S
<1>10. \A k \in 0 .. n : k \in S
  BY <1>1, <1>9, UpTo
<1>11. \A k \in 0 .. n : r[k] \in LoopType
  BY <1>10 DEF S
<1>12. r \in [0 .. n -> LoopType]
  <2> HIDE DEF H
  <2>1. QED BY <1>7, <1>11
<1>13. \A k \in 1 .. n : r[k] = G[k][r[k - 1]]
  BY <1>1, <1>3, <1>8, <1>11
<1>14. QED BY <1>7, <1>8, <1>12, <1>13 DEF Loops, G

LEMMA WritingRuns ==
    ASSUME TypeOK, NEW x, NEW n, NEW v \in Bytes, Within(x, n)
    PROVE  Loops(Writing(x, n, v), n, x, Writer(x, n, v))
<1> DEFINE f == fcb_inode_offset[x]
           G == Writer(x, n, v)
           B(k, s) == LET p == fcb_seek[x] + k - 1 IN
                      [AtPosition(s, f, p) EXCEPT !.buffer[p % BLOCK_SZ] = v]
           H(k, s) == IF k = 0 THEN State(x) ELSE B(k, s[k - 1])
<1>1. x \in Fcbs /\ f \in Files /\ n \in Nat
  BY DEF Within, OpenFcbs
<1>2. State(x) \in LoopType
  BY <1>1, StateType
<1>3. ASSUME NEW k \in 1 .. n, NEW s \in LoopType
      PROVE  B(k, s) \in LoopType /\ G[k][s] = B(k, s)
  <2> DEFINE p == fcb_seek[x] + k - 1
             t == AtPosition(s, f, p)
  <2>1. p \in 0 .. MAX_FILE_SZ - 1
    BY DEF Within
  <2>2. B(k, s) = Put(t, p, v)
    BY DEF Put
  <2>3. G[k][s] = Put(t, p, v)
    BY DEF Writer
  <2> HIDE DEF p
  <2>4. t \in LoopType
    BY <1>1, <2>1, AtPositionType
  <2> HIDE DEF B, G, t
  <2>5. Put(t, p, v) \in LoopType
    BY <2>1, <2>4, PutFields
  <2>6. QED BY <2>2, <2>3, <2>5
<1>4. G \in [1 .. n -> [LoopType -> LoopType]]
  <2>1. G = [k \in 1 .. n |-> [s \in LoopType |-> G[k][s]]]
    BY DEF Writer
  <2> HIDE DEF G, B
  <2>2. QED BY <1>3, <2>1
<1> HIDE DEF G, B, f
<1>5. PICK g : Repeats(g, n, LoopType, G, State(x))
  BY <1>1, <1>2, <1>4, Repeated
<1>6. /\ g \in [0 .. n -> LoopType] /\ g[0] = State(x)
      /\ \A k \in 1 .. n : g[k] = G[k][g[k - 1]]
  BY <1>5 DEF Repeats
<1>7. g = [k \in 0 .. n |-> H(k, g)]
  <2>1. ASSUME NEW k \in 0 .. n PROVE g[k] = H(k, g)
    <3>1. k # 0 => k \in 1 .. n /\ k - 1 \in 0 .. n
      BY <1>1
    <3>2. QED BY <1>3, <1>6, <3>1
  <2> HIDE DEF H
  <2>2. QED BY <1>6, <2>1
<1>8. PICK r : r = Writing(x, n, v) /\ r = [k \in 0 .. n |-> H(k, r)]
  <2> HIDE DEF H
  <2>1. Writing(x, n, v) = CHOOSE s : s = [k \in 0 .. n |-> H(k, s)]
    BY DEF Writing, H, B, f
  <2>2. QED BY <1>7, <2>1
<1>9. r[0] = State(x) /\ \A k \in 1 .. n : r[k] = B(k, r[k - 1])
  <2>1. 0 \in 0 .. n /\ \A k \in 1 .. n : k \in 0 .. n /\ k # 0
    BY <1>1
  <2>2. QED BY <1>8, <2>1
<1> DEFINE S == {k \in 0 .. n : r[k] \in LoopType}
<1>10. 0 \in S /\ \A k \in 1 .. n : k - 1 \in S => k \in S
  BY <1>1, <1>2, <1>3, <1>9
<1> HIDE DEF S
<1>11. \A k \in 0 .. n : k \in S
  BY <1>1, <1>10, UpTo
<1>12. \A k \in 0 .. n : r[k] \in LoopType
  BY <1>11 DEF S
<1>13. r \in [0 .. n -> LoopType]
  <2> HIDE DEF H
  <2>1. QED BY <1>8, <1>12
<1>14. \A k \in 1 .. n : r[k] = G[k][r[k - 1]]
  BY <1>1, <1>3, <1>9, <1>12
<1>15. QED BY <1>8, <1>9, <1>13, <1>14 DEF Loops, G
-----------------------------------------------------------------------------
(***************************************************************************)
(* What the loops do to inodes, blocks and bytes                           *)
(***************************************************************************)

Full(used) == Blocks \subseteq used

\* A loop on file f: the inode on the disk is the copy, and the buffer has a block
\* unless the disk is full.
Going(s, f) ==
    /\ s \in LoopType /\ s.inode = s.inodes[f]
    /\ s.inode[s.block] # NoBlock \/ Full(s.bitmap)

\* Inodes and bitmaps only get more blocks, and no inode but that of f does.
Grown(s, t, f) ==
    /\ \A g \in Files \ {f} : t.inodes[g] = s.inodes[g]
    /\ \A i \in Offsets : s.inode[i] # NoBlock => t.inode[i] = s.inode[i]
    /\ s.bitmap \subseteq t.bitmap

SameBlocks(s, t) == t.inodes = s.inodes /\ t.inode = s.inode /\ t.bitmap = s.bitmap

\* Each block has one place, and is in use; so are the blocks of no file.
Apart(inodes, used) ==
    /\ Files \cup {0, 1} \subseteq used
    /\ \A f, g \in Files : \A i, j \in Offsets :
          inodes[f][i] # NoBlock =>
              /\ inodes[f][i] = inodes[g][j] => f = g /\ i = j
              /\ inodes[f][i] \in used \ (Files \cup {0, 1})

\* Block i of the file as the loop sees it.
View(s, i) == IF i = s.block THEN s.buffer ELSE s.data[s.inode[i]]

\* Blocks of files but f are as they were.
OthersKept(s, t, f) ==
    \A g \in Files \ {f}, j \in Offsets :
        s.inodes[g][j] # NoBlock => t.data[s.inodes[g][j]] = s.data[s.inodes[g][j]]

\* One pass of a loop, at position p; w says whether it writes.
Advances(s, t, f, p, w) ==
    /\ Going(t, f) /\ Grown(s, t, f) /\ t.block = p \div BLOCK_SZ
    /\ s.inode[p \div BLOCK_SZ] # NoBlock \/ Full(s.bitmap) => SameBlocks(s, t)
    /\ Apart(s.inodes, s.bitmap) =>
          /\ Apart(t.inodes, t.bitmap)
          /\ OthersKept(s, t, f)
          /\ \A i \in Offsets, q \in InBlock :
                s.inode[i] # NoBlock =>
                    \/ View(t, i)[q] = View(s, i)[q]
                    \/ w /\ i = p \div BLOCK_SZ /\ q = p % BLOCK_SZ

LEMMA SwitchAdvances ==
    ASSUME NEW s, NEW f \in Files, Going(s, f), NEW i \in Offsets, i # s.block,
           NEW t, t = fcb_switch_buf(s, f, i)
    PROVE  /\ Going(t, f) /\ Grown(s, t, f) /\ t.block = i
           /\ s.inode[i] # NoBlock \/ Full(s.bitmap) => SameBlocks(s, t)
           /\ Apart(s.inodes, s.bitmap) =>
                 /\ Apart(t.inodes, t.bitmap) /\ OthersKept(s, t, f)
                 /\ \A j \in Offsets : s.inode[j] # NoBlock => View(t, j) = View(s, j)
<1> DEFINE u == fcb_update(s)
           old == s.inode[s.block]
<1>1. /\ s \in LoopType /\ s.inode \in InodeType /\ s.inodes \in [Files -> InodeType]
      /\ s.bitmap \in SUBSET Blocks /\ s.block \in Offsets /\ s.inode = s.inodes[f]
      /\ s.data \in [Blocks \cup {NoBlock} -> BufferType]
  BY DEF Going, LoopType
<1>2. \A j \in Offsets : s.inode[j] \in Blocks \cup {NoBlock}
  BY <1>1 DEF InodeType
<1>3. /\ u \in LoopType /\ u.data = [s.data EXCEPT ![old] = s.buffer]
      /\ u.inodes = s.inodes /\ u.bitmap = s.bitmap /\ u.inode = s.inode
      /\ u.block = s.block /\ u.buffer = s.buffer
  BY <1>1, UpdateFields
<1> HIDE DEF u
<1>4. t = Fetch(u, f, i)
  BY DEF fcb_switch_buf, u
<1>5. Fetched(u, f, i, t)
  BY <1>3, <1>4, FetchFields
<1>6. /\ t \in LoopType /\ t.block = i
      /\ t.data = [s.data EXCEPT ![old] = s.buffer]
  BY <1>3, <1>5 DEF Fetched
<1>7. /\ t.data[old] = s.buffer
      /\ \A b \in Blocks \cup {NoBlock} : b # old => t.data[b] = s.data[b]
  BY <1>1, <1>2, <1>6
<1>8. ASSUME Apart(s.inodes, s.bitmap) PROVE OthersKept(s, t, f)
  <2> SUFFICES ASSUME NEW g \in Files \ {f}, NEW j \in Offsets, s.inodes[g][j] # NoBlock
               PROVE  t.data[s.inodes[g][j]] = s.data[s.inodes[g][j]]
    BY DEF OthersKept
  <2>1. s.inodes[g][j] # old
    BY <1>1, <1>8 DEF Apart
  <2>2. s.inodes[g][j] \in Blocks \cup {NoBlock}
    BY <1>1 DEF InodeType
  <2>3. QED BY <1>7, <2>1, <2>2
<1>9. ASSUME Apart(s.inodes, s.bitmap), NEW j \in Offsets, s.inode[j] # NoBlock, j # s.block
      PROVE  t.data[s.inode[j]] = s.data[s.inode[j]]
  <2>1. s.inode[j] # old
    BY <1>1, <1>9 DEF Apart
  <2>2. QED BY <1>2, <1>7, <2>1
<1>10. CASE s.inode[i] # NoBlock
  <2>1. /\ t.inode = s.inode /\ t.inodes = s.inodes /\ t.bitmap = s.bitmap
        /\ t.buffer = t.data[s.inode[i]]
    BY <1>3, <1>5, <1>6, <1>10 DEF Fetched
  <2>2. Going(t, f) /\ Grown(s, t, f) /\ SameBlocks(s, t)
    BY <1>1, <1>6, <1>10, <2>1 DEF Going, Grown, SameBlocks
  <2>3. ASSUME Apart(s.inodes, s.bitmap), NEW j \in Offsets, s.inode[j] # NoBlock
        PROVE  View(t, j) = View(s, j)
    <3>1. CASE j = i
      BY <1>6, <1>9, <2>1, <2>3, <3>1 DEF View
    <3>2. CASE j = s.block
      BY <1>6, <1>7, <2>1, <3>2 DEF View
    <3>3. CASE j # i /\ j # s.block
      BY <1>6, <1>9, <2>1, <2>3, <3>3 DEF View
    <3>4. QED BY <3>1, <3>2, <3>3
  <2>4. QED BY <1>6, <1>8, <2>1, <2>2, <2>3
<1>11. CASE s.inode[i] = NoBlock
  <2>1. PICK b :
           /\ (b = NoBlock /\ Blocks \subseteq s.bitmap) \/ b \in Blocks \ s.bitmap
           /\ t.inode = [s.inode EXCEPT ![i] = b]
           /\ t.inodes = [s.inodes EXCEPT ![f] = t.inode]
           /\ t.bitmap = s.bitmap \cup ({b} \cap Blocks)
           /\ t.buffer = t.data[b]
    BY <1>3, <1>5, <1>6, <1>11 DEF Fetched
  <2>2. /\ t.inode[i] = b /\ t.inodes[f] = t.inode
        /\ \A j \in Offsets : j # i => t.inode[j] = s.inode[j]
        /\ \A g \in Files : g # f => t.inodes[g] = s.inodes[g]
    BY <1>1, <2>1 DEF InodeType
  <2>3. Going(t, f)
    BY <1>6, <2>1, <2>2, NoBlockOut DEF Going, Full
  <2>4. Grown(s, t, f)
    BY <1>11, <2>1, <2>2 DEF Grown
  <2>5. ASSUME Full(s.bitmap) PROVE SameBlocks(s, t)
    <3>1. b = NoBlock
      BY <2>1, <2>5 DEF Full
    <3>2. t.inode = s.inode
      BY <1>1, <1>11, <2>1, <3>1 DEF InodeType
    <3>3. t.inodes = s.inodes
      BY <1>1, <2>1, <3>2
    <3>4. t.bitmap = s.bitmap
      BY <2>1, <3>1, NoBlockOut
    <3>5. QED BY <3>2, <3>3, <3>4 DEF SameBlocks
  <2>6. ASSUME Apart(s.inodes, s.bitmap) PROVE Apart(t.inodes, t.bitmap)
    <3>1. ASSUME NEW g \in Files, NEW h \in Files, NEW j \in Offsets, NEW k \in Offsets,
                 t.inodes[g][j] # NoBlock
          PROVE  /\ t.inodes[g][j] = t.inodes[h][k] => g = h /\ j = k
                 /\ t.inodes[g][j] \in t.bitmap \ (Files \cup {0, 1})
      <4>1. \A e \in Files, l \in Offsets :
               \/ e = f /\ l = i /\ t.inodes[e][l] = b
               \/ ~(e = f /\ l = i) /\ t.inodes[e][l] = s.inodes[e][l]
        BY <1>1, <2>2
      <4>2. \A e \in Files, l \in Offsets :
               s.inodes[e][l] # NoBlock => s.inodes[e][l] \in s.bitmap \ (Files \cup {0, 1})
        BY <2>6 DEF Apart
      <4>3. b # NoBlock => b \notin s.bitmap /\ b \in t.bitmap \ (Files \cup {0, 1})
        BY <2>1, <2>6 DEF Apart
      <4>4. s.bitmap \subseteq t.bitmap
        BY <2>1
      <4>5. t.inodes[g][j] \in t.bitmap \ (Files \cup {0, 1})
        BY <3>1, <4>1, <4>2, <4>3, <4>4
      <4>6. ASSUME t.inodes[g][j] = t.inodes[h][k] PROVE g = h /\ j = k
        <5>1. CASE g = f /\ j = i
          BY <3>1, <4>1, <4>2, <4>3, <4>6, <5>1
        <5>2. CASE h = f /\ k = i
          BY <3>1, <4>1, <4>2, <4>3, <4>6, <5>2
        <5>3. CASE ~(g = f /\ j = i) /\ ~(h = f /\ k = i)
          BY <2>6, <3>1, <4>1, <4>6, <5>3 DEF Apart
        <5>4. QED BY <5>1, <5>2, <5>3
      <4>7. QED BY <4>5, <4>6
    <3>2. Files \cup {0, 1} \subseteq t.bitmap
      BY <2>1, <2>6 DEF Apart
    <3>3. QED BY <3>1, <3>2 DEF Apart
  <2>7. ASSUME Apart(s.inodes, s.bitmap), NEW j \in Offsets, s.inode[j] # NoBlock
        PROVE  View(t, j) = View(s, j)
    <3>1. j # i /\ t.inode[j] = s.inode[j]
      BY <1>11, <2>2, <2>7
    <3>2. CASE j = s.block
      BY <1>6, <1>7, <3>1, <3>2 DEF View
    <3>3. CASE j # s.block
      BY <1>6, <1>9, <2>7, <3>1, <3>3 DEF View
    <3>4. QED BY <3>2, <3>3
  <2>8. QED BY <1>6, <1>8, <1>11, <2>3, <2>4, <2>5, <2>6, <2>7
<1>12. QED BY <1>10, <1>11

LEMMA AtPositionAdvances ==
    ASSUME NEW s, NEW f \in Files, Going(s, f), NEW p \in 0 .. MAX_FILE_SZ - 1, NEW w
    PROVE  Advances(s, AtPosition(s, f, p), f, p, w)
<1> DEFINE i == p \div BLOCK_SZ
           t == AtPosition(s, f, p)
<1>1. i \in Offsets
  BY PositionBlock
<1>2. CASE i = s.block
  <2>1. t = s
    BY <1>2 DEF AtPosition
  <2> HIDE DEF t
  <2>2. QED BY <1>2, <2>1 DEF Advances, Grown, SameBlocks, OthersKept, t
<1>3. CASE i # s.block
  <2>1. t = fcb_switch_buf(s, f, i)
    BY <1>3 DEF AtPosition
  <2> HIDE DEF t, i
  <2>2. /\ Going(t, f) /\ Grown(s, t, f) /\ t.block = i
        /\ s.inode[i] # NoBlock \/ Full(s.bitmap) => SameBlocks(s, t)
        /\ Apart(s.inodes, s.bitmap) =>
              /\ Apart(t.inodes, t.bitmap) /\ OthersKept(s, t, f)
              /\ \A j \in Offsets : s.inode[j] # NoBlock => View(t, j) = View(s, j)
    BY <1>1, <1>3, <2>1, SwitchAdvances
  <2>3. QED BY <2>2 DEF Advances, i, t
<1>4. QED BY <1>2, <1>3

LEMMA PutAdvances ==
    ASSUME NEW s, NEW f \in Files, Going(s, f), NEW p \in 0 .. MAX_FILE_SZ - 1,
           NEW v \in Bytes
    PROVE  Advances(s, Put(AtPosition(s, f, p), p, v), f, p, TRUE)
<1> DEFINE m == AtPosition(s, f, p)
           t == Put(m, p, v)
<1>1. Advances(s, m, f, p, TRUE)
  BY AtPositionAdvances
<1>2. Advances(s, m, f, p, FALSE)
  BY AtPositionAdvances
<1> HIDE DEF m
<1>3. m \in LoopType /\ m.block = p \div BLOCK_SZ
  BY <1>1 DEF Advances, Going
<1>4. /\ t \in LoopType /\ t.buffer = [m.buffer EXCEPT ![p % BLOCK_SZ] = v]
      /\ t.inodes = m.inodes /\ t.data = m.data /\ t.bitmap = m.bitmap
      /\ t.inode = m.inode /\ t.block = m.block
  BY <1>3, PutFields
<1> HIDE DEF t
<1>5. Going(t, f) /\ Grown(s, t, f)
  BY <1>1, <1>4 DEF Advances, Going, Grown
<1>6. (s.inode[p \div BLOCK_SZ] # NoBlock \/ Full(s.bitmap)) => SameBlocks(s, t)
  BY <1>1, <1>4 DEF Advances, SameBlocks
<1>7. ASSUME Apart(s.inodes, s.bitmap) PROVE Apart(t.inodes, t.bitmap) /\ OthersKept(s, t, f)
  BY <1>1, <1>4, <1>7 DEF Advances, OthersKept
<1>8. ASSUME Apart(s.inodes, s.bitmap), NEW i \in Offsets, NEW q \in InBlock,
             s.inode[i] # NoBlock
      PROVE  \/ View(t, i)[q] = View(s, i)[q]
             \/ i = p \div BLOCK_SZ /\ q = p % BLOCK_SZ
  <2>1. View(m, i)[q] = View(s, i)[q]
    BY <1>2, <1>8 DEF Advances
  <2>2. m.buffer \in [InBlock -> Bytes]
    BY <1>3 DEF LoopType, BufferType
  <2>3. q # p % BLOCK_SZ => t.buffer[q] = m.buffer[q]
    BY <1>4, <2>2
  <2>4. CASE i = p \div BLOCK_SZ
    BY <1>3, <1>4, <2>1, <2>3, <2>4 DEF View
  <2>5. CASE i # p \div BLOCK_SZ
    BY <1>3, <1>4, <2>1, <2>5 DEF View
  <2>6. QED BY <2>4, <2>5
<1>9. QED BY <1>3, <1>4, <1>5, <1>6, <1>7, <1>8 DEF Advances, m, t
-----------------------------------------------------------------------------
(***************************************************************************)
(* The whole loop                                                          *)
(***************************************************************************)

\* The loop r of n passes, on file f from position p on.
Looping(r, n, f, p, w) ==
    /\ n \in Nat /\ p \in Nat /\ f \in Files
    /\ r \in [0 .. n -> LoopType]
    /\ \A k \in 1 .. n : Going(r[k - 1], f) => Advances(r[k - 1], r[k], f, p + k - 1, w)

\* What k passes have made of s.
Passed(s, t, k, f, p, w) ==
    /\ Going(t, f) /\ Grown(s, t, f)
    /\ \A j \in 1 .. k : t.inode[(p + j - 1) \div BLOCK_SZ] # NoBlock \/ Full(t.bitmap)
    /\ (\A j \in 1 .. k : s.inode[(p + j - 1) \div BLOCK_SZ] # NoBlock \/ Full(s.bitmap))
          => SameBlocks(s, t)
    /\ Apart(s.inodes, s.bitmap) =>
          /\ Apart(t.inodes, t.bitmap)
          /\ OthersKept(s, t, f)
          /\ \A i \in Offsets, q \in InBlock :
                s.inode[i] # NoBlock =>
                    \/ View(t, i)[q] = View(s, i)[q]
                    \/ w /\ \E j \in 1 .. k : /\ i = (p + j - 1) \div BLOCK_SZ
                                              /\ q = (p + j - 1) % BLOCK_SZ

LEMMA OnePass ==
    ASSUME NEW s, NEW t, NEW u, NEW k \in Nat, NEW f \in Files, NEW p \in Nat, NEW w,
           p + k \in 0 .. MAX_FILE_SZ - 1,
           s \in LoopType, Passed(s, t, k, f, p, w), Advances(t, u, f, p + k, w)
    PROVE  Passed(s, u, k + 1, f, p, w)
<1> DEFINE b == (p + k) \div BLOCK_SZ
           c == (p + k) % BLOCK_SZ
           at(j) == (p + j - 1) \div BLOCK_SZ
<1>1. b \in Offsets /\ at(k + 1) = b /\ (p + (k + 1) - 1) % BLOCK_SZ = c
  BY PositionBlock
<1>2. \A j \in 1 .. k + 1 : j \in 1 .. k \/ j = k + 1
  OBVIOUS
<1>3. \A j \in 1 .. k : j \in 1 .. k + 1
  OBVIOUS
<1>4. /\ Going(t, f) /\ Grown(s, t, f)
      /\ \A j \in 1 .. k : t.inode[at(j)] # NoBlock \/ Full(t.bitmap)
      /\ (\A j \in 1 .. k : s.inode[at(j)] # NoBlock \/ Full(s.bitmap)) => SameBlocks(s, t)
  BY DEF Passed
<1>5. /\ Going(u, f) /\ Grown(t, u, f) /\ u.block = b
      /\ t.inode[b] # NoBlock \/ Full(t.bitmap) => SameBlocks(t, u)
  BY DEF Advances
<1>6. ASSUME NEW j \in 1 .. k PROVE at(j) \in Offsets
  <2>1. p + j - 1 \in 0 .. MAX_FILE_SZ - 1
    BY FileConstants
  <2>2. QED BY <2>1, PositionBlock
<1> HIDE DEF b, c
<1>7. Grown(s, u, f)
  <2>1. \A i \in Offsets : s.inode[i] # NoBlock => u.inode[i] = s.inode[i]
    BY <1>4, <1>5 DEF Grown
  <2>2. \A g \in Files \ {f} : u.inodes[g] = s.inodes[g]
    BY <1>4, <1>5 DEF Grown
  <2>3. QED BY <1>4, <1>5, <2>1, <2>2 DEF Grown
<1>8. \A j \in 1 .. k + 1 : u.inode[at(j)] # NoBlock \/ Full(u.bitmap)
  <2>1. u.inode[at(k + 1)] # NoBlock \/ Full(u.bitmap)
    BY <1>1, <1>5 DEF Going
  <2>2. ASSUME NEW j \in 1 .. k PROVE u.inode[at(j)] # NoBlock \/ Full(u.bitmap)
    BY <1>4, <1>5, <1>6 DEF Grown, Full
  <2>3. QED BY <1>2, <2>1, <2>2
<1>9. ASSUME \A j \in 1 .. k + 1 : s.inode[at(j)] # NoBlock \/ Full(s.bitmap)
      PROVE  SameBlocks(s, u)
  <2>1. \A j \in 1 .. k : s.inode[at(j)] # NoBlock \/ Full(s.bitmap)
    BY <1>3, <1>9
  <2>2. SameBlocks(s, t)
    BY <1>4, <2>1
  <2>3. k + 1 \in 1 .. k + 1
    OBVIOUS
  <2>4. s.inode[b] # NoBlock \/ Full(s.bitmap)
    BY <1>1, <1>9, <2>3
  <2>5. QED BY <1>5, <2>2, <2>4 DEF SameBlocks
<1>10. ASSUME Apart(s.inodes, s.bitmap)
       PROVE  Apart(u.inodes, u.bitmap) /\ OthersKept(s, u, f)
  <2>1. Apart(t.inodes, t.bitmap) /\ OthersKept(s, t, f)
    BY <1>10 DEF Passed
  <2>2. Apart(u.inodes, u.bitmap) /\ OthersKept(t, u, f)
    BY <2>1 DEF Advances
  <2>3. QED BY <1>4, <2>1, <2>2 DEF OthersKept, Grown
<1>11. ASSUME Apart(s.inodes, s.bitmap), NEW i \in Offsets, NEW q \in InBlock,
              s.inode[i] # NoBlock
       PROVE  \/ View(u, i)[q] = View(s, i)[q]
              \/ w /\ \E j \in 1 .. k + 1 : i = at(j) /\ q = (p + j - 1) % BLOCK_SZ
  <2>1. \/ View(t, i)[q] = View(s, i)[q]
        \/ w /\ \E j \in 1 .. k : i = at(j) /\ q = (p + j - 1) % BLOCK_SZ
    BY <1>11 DEF Passed
  <2>2. Apart(t.inodes, t.bitmap) /\ t.inode[i] # NoBlock
    BY <1>4, <1>11 DEF Passed, Grown
  <2>3. View(u, i)[q] = View(t, i)[q] \/ (w /\ i = b /\ q = c)
    BY <2>2 DEF Advances, b, c
  <2>4. k + 1 \in 1 .. k + 1
    OBVIOUS
  <2> HIDE DEF at
  <2>5. CASE w /\ \E j \in 1 .. k : i = at(j) /\ q = (p + j - 1) % BLOCK_SZ
    BY <1>3, <2>5
  <2>6. CASE w /\ i = b /\ q = c
    BY <1>1, <2>4, <2>6
  <2>7. CASE View(t, i)[q] = View(s, i)[q] /\ View(u, i)[q] = View(t, i)[q]
    BY <2>7
  <2>8. QED BY <2>1, <2>3, <2>5, <2>6, <2>7
<1>12. QED BY <1>5, <1>7, <1>8, <1>9, <1>10, <1>11 DEF Passed

LEMMA AllPasses ==
    ASSUME NEW r, NEW n, NEW f, NEW p, NEW w, Looping(r, n, f, p, w),
           n > 0 => p + n <= MAX_FILE_SZ, Going(r[0], f)
    PROVE  \A k \in 0 .. n : Passed(r[0], r[k], k, f, p, w)
<1> DEFINE S == {k \in 0 .. n : Passed(r[0], r[k], k, f, p, w)}
<1>1. n \in Nat /\ p \in Nat /\ f \in Files /\ MAX_FILE_SZ \in Nat
  BY FileConstants DEF Looping
<1>2. 0 \in S
  <2>1. Passed(r[0], r[0], 0, f, p, w)
    BY DEF Passed, Grown, SameBlocks, OthersKept
  <2>2. QED BY <1>1, <2>1
<1>3. ASSUME NEW k \in 1 .. n, k - 1 \in S PROVE k \in S
  <2>1. Passed(r[0], r[k - 1], k - 1, f, p, w)
    BY <1>3
  <2>2. Going(r[k - 1], f)
    BY <2>1 DEF Passed
  <2>3. Advances(r[k - 1], r[k], f, p + k - 1, w)
    BY <2>2 DEF Looping
  <2>4. /\ k - 1 \in Nat /\ (k - 1) + 1 = k /\ p + (k - 1) = p + k - 1
        /\ p + (k - 1) \in 0 .. MAX_FILE_SZ - 1
    BY <1>1
  <2>5. r[0] \in LoopType
    BY DEF Going
  <2> HIDE DEF S
  <2>6. Passed(r[0], r[k], (k - 1) + 1, f, p, w)
    BY <1>1, <2>1, <2>3, <2>4, <2>5, OnePass
  <2>7. QED BY <2>4, <2>6 DEF S
<1> HIDE DEF S
<1>4. \A k \in 0 .. n : k \in S
  BY <1>1, <1>2, <1>3, UpTo
<1>5. QED BY <1>4 DEF S

LEMMA InFile ==
    ASSUME TypeOK, NEW x \in OpenFcbs, NEW n \in Nat, n > 0 => fcb_seek[x] + n <= MAX_FILE_SZ
    PROVE  Within(x, n) /\ fcb_seek[x] \in Nat /\ x \in Fcbs /\ fcb_inode_offset[x] \in Files
<1>1. x \in Fcbs /\ fcb_seek[x] \in 0 .. MAX_FILE_SZ /\ MAX_FILE_SZ \in Nat
  BY FileConstants DEF TypeOK, OpenFcbs
<1>2. QED BY <1>1 DEF Within, OpenFcbs

LEMMA ReadLoops ==
    ASSUME TypeOK, NEW x \in OpenFcbs, NEW n \in Nat, n > 0 => fcb_seek[x] + n <= MAX_FILE_SZ
    PROVE  /\ Looping(Reading(x, n), n, fcb_inode_offset[x], fcb_seek[x], FALSE)
           /\ Reading(x, n)[0] = State(x)
<1> DEFINE f == fcb_inode_offset[x]
           r == Reading(x, n)
           p == fcb_seek[x]
<1>1. Within(x, n) /\ p \in Nat /\ f \in Files
  BY InFile
<1>2. Loops(r, n, x, Reader(x, n))
  BY <1>1, ReadingRuns
<1> HIDE DEF r
<1>3. /\ r \in [0 .. n -> LoopType] /\ r[0] = State(x)
      /\ \A k \in 1 .. n : r[k] = Reader(x, n)[k][r[k - 1]]
  BY <1>2 DEF Loops
<1>4. ASSUME NEW k \in 1 .. n, Going(r[k - 1], f)
      PROVE  Advances(r[k - 1], r[k], f, p + k - 1, FALSE)
  <2>1. p + k - 1 \in 0 .. MAX_FILE_SZ - 1
    BY <1>1 DEF Within
  <2>2. r[k - 1] \in LoopType
    BY <1>4 DEF Going
  <2>3. r[k] = AtPosition(r[k - 1], f, p + k - 1)
    BY <1>3, <2>2 DEF Reader
  <2> HIDE DEF f, p
  <2>4. QED BY <1>1, <1>4, <2>1, <2>3, AtPositionAdvances
<1>5. QED BY <1>1, <1>3, <1>4 DEF Looping, r

LEMMA WriteLoops ==
    ASSUME TypeOK, NEW x \in OpenFcbs, NEW n \in Nat, NEW v \in Bytes,
           n > 0 => fcb_seek[x] + n <= MAX_FILE_SZ
    PROVE  /\ Looping(Writing(x, n, v), n, fcb_inode_offset[x], fcb_seek[x], TRUE)
           /\ Writing(x, n, v)[0] = State(x)
<1> DEFINE f == fcb_inode_offset[x]
           r == Writing(x, n, v)
           p == fcb_seek[x]
<1>1. Within(x, n) /\ p \in Nat /\ f \in Files
  BY InFile
<1>2. Loops(r, n, x, Writer(x, n, v))
  BY <1>1, WritingRuns
<1> HIDE DEF r
<1>3. /\ r \in [0 .. n -> LoopType] /\ r[0] = State(x)
      /\ \A k \in 1 .. n : r[k] = Writer(x, n, v)[k][r[k - 1]]
  BY <1>2 DEF Loops
<1>4. ASSUME NEW k \in 1 .. n, Going(r[k - 1], f)
      PROVE  Advances(r[k - 1], r[k], f, p + k - 1, TRUE)
  <2>1. p + k - 1 \in 0 .. MAX_FILE_SZ - 1
    BY <1>1 DEF Within
  <2>2. r[k - 1] \in LoopType
    BY <1>4 DEF Going
  <2>3. r[k] = Put(AtPosition(r[k - 1], f, p + k - 1), p + k - 1, v)
    BY <1>3, <2>2 DEF Writer
  <2> HIDE DEF f, p
  <2>4. QED BY <1>1, <1>4, <2>1, <2>3, PutAdvances
<1>5. QED BY <1>1, <1>3, <1>4 DEF Looping, r
-----------------------------------------------------------------------------
(***************************************************************************)
(* Types                                                                   *)
(***************************************************************************)

\* What a cut may leave of a loop has its type, and the inodes of one pass.
LEMMA CutType ==
    ASSUME NEW x, NEW n \in Nat, NEW r \in [0 .. n -> LoopType], NEW c \in CutAt(x, r, n)
    PROVE  c \in LoopType /\ \E k \in 0 .. n : c.inodes = r[k].inodes
<1>1. \/ \E k \in 0 .. n : c = r[k]
      \/ \E k \in 0 .. n - 1 : c = fcb_update(r[k])
  BY DEF CutAt
<1>2. CASE \E k \in 0 .. n : c = r[k]
  BY <1>2
<1>3. ASSUME NEW k \in 0 .. n - 1, c = fcb_update(r[k])
      PROVE  c \in LoopType /\ \E l \in 0 .. n : c.inodes = r[l].inodes
  <2>1. k \in 0 .. n /\ r[k] \in LoopType
    OBVIOUS
  <2>2. c \in LoopType /\ c.inodes = r[k].inodes
    BY <1>3, <2>1, UpdateFields
  <2>3. QED BY <2>1, <2>2
<1>4. QED BY <1>1, <1>2, <1>3

LEMMA StartTypes ==
    ASSUME NEW used \in SUBSET Blocks, NEW size \in SizeType,
           NEW inode \in [Files -> InodeType], NEW data \in [Blocks \cup {NoBlock} -> BufferType],
           Start(used, size, inode, data)
    PROVE  TypeOK' /\ OpenFcbs' = {}
<1>1. /\ disk_bitmap' = used /\ bitmap' = used /\ disk_size' = size /\ file_size' = size
      /\ disk_inode' = inode /\ disk_data' = data
      /\ fcb_inode_offset' = [x \in Fcbs |-> -1]
      /\ fcb_inode' = [x \in Fcbs |-> [i \in Offsets |-> 0]]
      /\ fcb_mode' = [x \in Fcbs |-> ""]
      /\ fcb_seek' = [x \in Fcbs |-> 0]
      /\ fcb_file_sz' = [x \in Fcbs |-> 0]
      /\ fcb_buf_block' = [x \in Fcbs |-> 0]
      /\ fcb_buffer' = [x \in Fcbs |-> [i \in InBlock |-> 0]]
      /\ fcb_link' = [x \in Fcbs |-> IF x = NFCB - 1 THEN Nil ELSE x + 1]
      /\ fcb_free_list' = 0
      /\ env_fcb_index' = [p \in Procs |-> [i \in 0 .. NR_FILE - 1 |-> -1]]
  BY DEF Start
<1>2. /\ fcb_inode_offset' \in [Fcbs -> Files \cup {-1, 0}]
      /\ fcb_link' \in [Fcbs -> Fcbs \cup {Nil}]
      /\ fcb_free_list' \in Fcbs \cup {Nil}
      /\ OpenFcbs' = {}
  BY <1>1, StartList, Zenon DEF OpenFcbs
<1>3. /\ 0 \in 0 .. MAX_FILE_SZ /\ 0 \in 0 .. SizeMod - 1
      /\ 0 \in Offsets /\ 0 \in Bytes /\ 0 \in Blocks
  BY FileConstants, UnsignedSize, FileAssumption, BytesAssumption DEF Offsets, Blocks
<1>4. /\ fcb_inode' \in [Fcbs -> InodeType] /\ fcb_buffer' \in [Fcbs -> BufferType]
      /\ fcb_buf_block' \in [Fcbs -> Offsets]
  BY <1>1, <1>3 DEF InodeType, BufferType
<1>5. env_fcb_index' \in [Procs -> [0 .. NR_FILE - 1 -> Fcbs \cup {-1}]]
  BY <1>1
<1>6. QED BY <1>1, <1>2, <1>3, <1>4, <1>5 DEF TypeOK

\* Where formatting.c puts the files: a file and its blocks follow each other, and
\* no two places are one.
LEMMA FilePlaces ==
    /\ \A k \in 0 .. NrFiles - 1, i \in 0 .. FileBlocks :
          /\ InodeBlock(k) + i \in Blocks \ {0, 1}
          /\ InodeBlock(k) + i < InodeBlock(NrFiles)
          /\ InodeBlock(k) \in Nat
    /\ \A k, l \in 0 .. NrFiles - 1 : \A i, j \in 0 .. FileBlocks :
          InodeBlock(k) + i = InodeBlock(l) + j => k = l /\ i = j
    /\ InodeBlock(NrFiles) \in Nat /\ InodeBlock(NrFiles) >= 2
    /\ InodeBlock(NrFiles) <= NR_BLOCK
<1> DEFINE w == 1 + FileBlocks
<1>1. /\ FileBlocks \in Nat /\ NrFiles \in Nat /\ NR_BLOCK \in Nat
      /\ NR_BLOCK >= 2 + NrFiles * w
  BY FileAssumption
<1>2. w \in Nat /\ w >= 1 /\ FileBlocks = w - 1
  BY <1>1
<1> HIDE DEF w
<1>3. \A k : InodeBlock(k) = 2 + k * w
  BY DEF InodeBlock, w
<1>4. ASSUME NEW k \in 0 .. NrFiles - 1, NEW i \in 0 .. FileBlocks
      PROVE  /\ InodeBlock(k) + i \in Blocks \ {0, 1}
             /\ InodeBlock(k) + i < InodeBlock(NrFiles)
             /\ InodeBlock(k) \in Nat
  <2>1. k \in Nat /\ k * w \in Nat /\ k + 1 <= NrFiles /\ NrFiles - (k + 1) \in Nat
    BY <1>1, <1>2
  <2>2. (NrFiles - (k + 1)) * w >= 0
    BY <1>2, <2>1
  <2>3. (NrFiles - (k + 1)) * w = NrFiles * w - k * w - w
    BY <1>1, <1>2, <2>1
  <2>4. NrFiles * w \in Nat
    BY <1>1, <1>2
  <2>5. QED BY <1>1, <1>2, <1>3, <2>1, <2>2, <2>3, <2>4 DEF Blocks
<1>5. ASSUME NEW k \in 0 .. NrFiles - 1, NEW l \in 0 .. NrFiles - 1,
             NEW i \in 0 .. FileBlocks, NEW j \in 0 .. FileBlocks,
             InodeBlock(k) + i = InodeBlock(l) + j
      PROVE  k = l /\ i = j
  <2>1. k \in Nat /\ l \in Nat /\ k * w \in Nat /\ l * w \in Nat
    BY <1>1, <1>2
  <2>2. (k - l) * w = j - i
    BY <1>2, <1>3, <1>5, <2>1
  <2>3. ASSUME k - l >= 1 PROVE FALSE
    <3>1. (k - l) * w >= w
      BY <1>2, <2>1, <2>3
    <3>2. QED BY <1>2, <2>2, <3>1
  <2>4. ASSUME k - l <= -1 PROVE FALSE
    <3>1. (k - l) * w <= -w
      BY <1>2, <2>1, <2>4
    <3>2. QED BY <1>2, <2>2, <3>1
  <2>5. k = l
    BY <2>1, <2>3, <2>4
  <2>6. QED BY <1>2, <1>3, <1>5, <2>1, <2>5
<1>6. NrFiles * w \in Nat
  BY <1>1, <1>2
<1>7. QED BY <1>1, <1>3, <1>4, <1>5, <1>6

\* The image has its files apart, each with a first block.
LEMMA FormattedApart ==
    /\ FormattedInode \in [Files -> InodeType]
    /\ \A f \in Files, i \in Offsets : FormattedInode[f][i] # NoBlock <=> i < FileBlocks
    /\ 0 .. InodeBlock(NrFiles) - 1 \subseteq Blocks
    /\ Apart(FormattedInode, 0 .. InodeBlock(NrFiles) - 1)
<1> DEFINE used == 0 .. InodeBlock(NrFiles) - 1
<1>0. FileBlocks \in Nat /\ FileBlocks >= 1 /\ FileBlocks <= NR_OFFSET /\ NR_OFFSET \in Nat
  BY FileAssumption
<1>1. ASSUME NEW f \in Files PROVE \E k \in 0 .. NrFiles - 1 : f = InodeBlock(k)
  BY DEF Files
<1>a. ASSUME NEW f \in Files PROVE f \in Nat
  <2>1. PICK k \in 0 .. NrFiles - 1 : f = InodeBlock(k)
    BY <1>1
  <2>2. 0 \in 0 .. FileBlocks
    BY <1>0
  <2>3. QED BY <2>1, <2>2, FilePlaces
<1>2. ASSUME NEW f \in Files, NEW i \in Offsets
      PROVE  /\ i < FileBlocks => FormattedInode[f][i] = f + (i + 1) /\ i + 1 \in 0 .. FileBlocks
             /\ ~(i < FileBlocks) => FormattedInode[f][i] = NoBlock
  <2>1. i \in Nat
    BY DEF Offsets
  <2>2. f \in Nat
    BY <1>a
  <2>3. FormattedInode[f][i] = IF i < FileBlocks THEN f + 1 + i ELSE NoBlock
    BY DEF FormattedInode
  <2>4. f + 1 + i = f + (i + 1) /\ (i < FileBlocks => i + 1 \in 0 .. FileBlocks)
    BY <1>0, <2>1, <2>2
  <2>5. CASE i < FileBlocks
    BY <2>3, <2>4, <2>5
  <2>6. CASE ~(i < FileBlocks)
    BY <2>3, <2>6
  <2>7. QED BY <2>5, <2>6
<1>3. ASSUME NEW f \in Files, NEW i \in 0 .. FileBlocks
      PROVE  f + i \in Blocks \ {0, 1} /\ f + i \in used
  <2>1. PICK k \in 0 .. NrFiles - 1 : f = InodeBlock(k)
    BY <1>1
  <2>2. f + i \in Blocks \ {0, 1} /\ f + i < InodeBlock(NrFiles)
    BY <2>1, FilePlaces
  <2>3. QED BY <2>2, FilePlaces DEF Blocks
<1>4. ASSUME NEW f \in Files, NEW g \in Files, NEW i \in 0 .. FileBlocks,
             NEW j \in 0 .. FileBlocks, f + i = g + j
      PROVE  f = g /\ i = j
  <2>1. PICK k \in 0 .. NrFiles - 1 : f = InodeBlock(k)
    BY <1>1
  <2>2. PICK l \in 0 .. NrFiles - 1 : g = InodeBlock(l)
    BY <1>1
  <2>3. k = l /\ i = j
    BY <1>4, <2>1, <2>2, FilePlaces
  <2>4. QED BY <2>1, <2>2, <2>3
<1>5. \A f \in Files : f + 0 = f /\ 0 \in 0 .. FileBlocks
  BY <1>0, <1>a
<1>6. ASSUME NEW f \in Files, NEW i \in Offsets
      PROVE  /\ FormattedInode[f][i] \in Blocks \cup {NoBlock}
             /\ FormattedInode[f][i] # NoBlock <=> i < FileBlocks
  BY <1>2, <1>3, NoBlockOut
<1>7. FormattedInode \in [Files -> InodeType]
  BY <1>6 DEF FormattedInode, InodeType
<1>8. used \subseteq Blocks
  BY FilePlaces, FileAssumption DEF Blocks
<1>9. Files \cup {0, 1} \subseteq used
  <2>1. {0, 1} \subseteq used
    BY FilePlaces
  <2>2. ASSUME NEW f \in Files PROVE f \in used
    <3>1. f + 0 \in used
      BY <1>3, <1>5
    <3>2. QED BY <1>5, <3>1
  <2>3. QED BY <2>1, <2>2
<1> HIDE DEF used
<1>10. ASSUME NEW f \in Files, NEW g \in Files, NEW i \in Offsets, NEW j \in Offsets,
              FormattedInode[f][i] # NoBlock
       PROVE  /\ FormattedInode[f][i] = FormattedInode[g][j] => f = g /\ i = j
              /\ FormattedInode[f][i] \in used \ (Files \cup {0, 1})
  <2>1. i < FileBlocks /\ i + 1 \in 0 .. FileBlocks /\ FormattedInode[f][i] = f + (i + 1)
    BY <1>2, <1>6, <1>10
  <2>2. i \in Nat /\ j \in Nat
    BY DEF Offsets
  <2>3. FormattedInode[f][i] \in used \ {0, 1}
    BY <1>3, <2>1
  <2>4. ASSUME FormattedInode[f][i] \in Files PROVE FALSE
    <3>1. PICK h \in Files : f + (i + 1) = h + 0 /\ 0 \in 0 .. FileBlocks
      BY <1>5, <2>1, <2>4
    <3>2. i + 1 = 0
      BY <1>4, <2>1, <3>1
    <3>3. QED BY <2>2, <3>2
  <2>5. ASSUME FormattedInode[f][i] = FormattedInode[g][j] PROVE f = g /\ i = j
    <3>1. j < FileBlocks /\ j + 1 \in 0 .. FileBlocks /\ FormattedInode[g][j] = g + (j + 1)
      BY <1>2, <1>6, <1>10, <2>5
    <3>2. f = g /\ i + 1 = j + 1
      BY <1>4, <2>1, <2>5, <3>1
    <3>3. QED BY <2>2, <3>2
  <2>6. QED BY <2>3, <2>4, <2>5
<1>11. Apart(FormattedInode, used)
  BY <1>9, <1>10 DEF Apart
<1>12. QED BY <1>6, <1>7, <1>8, <1>11 DEF used

LEMMA InitTypes ==
    ASSUME Init
    PROVE  /\ TypeOK /\ OpenFcbs = {}
           /\ bitmap = disk_bitmap /\ file_size = disk_size
           /\ Apart(disk_inode, bitmap) /\ SizeHasBlocks
           /\ \A f \in Files : disk_inode[f][0] # NoBlock
<1>1. /\ bitmap = 0 .. InodeBlock(NrFiles) - 1 /\ disk_bitmap = bitmap
      /\ file_size \in [Files -> (FileBlocks - 1) * BLOCK_SZ + 1 .. FileBlocks * BLOCK_SZ]
      /\ disk_size = file_size
      /\ disk_inode = FormattedInode
      /\ disk_data = [b \in Blocks \cup {NoBlock} |-> [i \in InBlock |-> 0]]
      /\ fcb_inode_offset = [x \in Fcbs |-> -1]
      /\ fcb_inode = [x \in Fcbs |-> [i \in Offsets |-> 0]]
      /\ fcb_mode = [x \in Fcbs |-> ""]
      /\ fcb_seek = [x \in Fcbs |-> 0]
      /\ fcb_file_sz = [x \in Fcbs |-> 0]
      /\ fcb_buf_block = [x \in Fcbs |-> 0]
      /\ fcb_buffer = [x \in Fcbs |-> [i \in InBlock |-> 0]]
      /\ fcb_link = [x \in Fcbs |-> IF x = NFCB - 1 THEN Nil ELSE x + 1]
      /\ fcb_free_list = 0
      /\ env_fcb_index = [p \in Procs |-> [i \in 0 .. NR_FILE - 1 |-> -1]]
  BY DEF Init
<1>2. /\ fcb_inode_offset \in [Fcbs -> Files \cup {-1, 0}]
      /\ fcb_link \in [Fcbs -> Fcbs \cup {Nil}]
      /\ fcb_free_list \in Fcbs \cup {Nil}
      /\ OpenFcbs = {}
  BY <1>1, StartList, Zenon DEF OpenFcbs
<1>3. /\ 0 \in 0 .. MAX_FILE_SZ /\ 0 \in 0 .. SizeMod - 1
      /\ 0 \in Offsets /\ 0 \in Bytes /\ 0 \in Blocks
  BY FileConstants, UnsignedSize, FileAssumption, BytesAssumption DEF Offsets, Blocks
<1>4. /\ fcb_inode \in [Fcbs -> InodeType] /\ fcb_buffer \in [Fcbs -> BufferType]
      /\ fcb_buf_block \in [Fcbs -> Offsets]
      /\ disk_data \in [Blocks \cup {NoBlock} -> BufferType]
  BY <1>1, <1>3 DEF InodeType, BufferType
<1>5. env_fcb_index \in [Procs -> [0 .. NR_FILE - 1 -> Fcbs \cup {-1}]]
  BY <1>1
<1>6. file_size \in SizeType
  BY PositionInit DEF PositionType
<1>7. disk_inode \in [Files -> InodeType] /\ bitmap \in SUBSET Blocks /\ Apart(disk_inode, bitmap)
  BY <1>1, FormattedApart
<1>8. TypeOK
  BY <1>1, <1>2, <1>3, <1>4, <1>5, <1>6, <1>7 DEF TypeOK
<1>9. SizeHasBlocks
  <2> SUFFICES ASSUME NEW f \in Files, NEW i \in Offsets, i * BLOCK_SZ < disk_size[f]
               PROVE  disk_inode[f][i] # NoBlock
    BY DEF SizeHasBlocks
  <2>1. /\ i \in Nat /\ BLOCK_SZ \in Nat /\ BLOCK_SZ >= 1 /\ FileBlocks \in Nat
        /\ i * BLOCK_SZ \in Nat /\ FileBlocks * BLOCK_SZ \in Nat
    BY FileAssumption DEF Offsets
  <2>2. disk_size[f] \in Nat /\ disk_size[f] <= FileBlocks * BLOCK_SZ
    <3>1. disk_size[f] \in (FileBlocks - 1) * BLOCK_SZ + 1 .. FileBlocks * BLOCK_SZ
      BY <1>1
    <3>2. disk_size[f] \in 0 .. MAX_FILE_SZ
      BY <3>1, FileConstants
    <3>3. (FileBlocks - 1) * BLOCK_SZ \in Int
      BY <2>1
    <3>4. QED BY <2>1, <3>1, <3>2, <3>3, FileConstants
  <2>3. ASSUME i >= FileBlocks PROVE FALSE
    <3>1. (i - FileBlocks) * BLOCK_SZ >= 0
      BY <2>1, <2>3
    <3>2. (i - FileBlocks) * BLOCK_SZ = i * BLOCK_SZ - FileBlocks * BLOCK_SZ
      BY <2>1
    <3>3. QED BY <2>1, <2>2, <3>1, <3>2
  <2>4. i < FileBlocks
    BY <2>1, <2>3
  <2>5. QED BY <1>1, <2>4, FormattedApart
<1>10. \A f \in Files : disk_inode[f][0] # NoBlock
  <2>1. 0 < FileBlocks
    BY FileAssumption
  <2>2. QED BY <1>1, <1>3, <2>1, FormattedApart
<1>11. QED BY <1>1, <1>2, <1>7, <1>8, <1>9, <1>10

\* A call leaves its types to what its loop comes to.
LEMMA BecomesType ==
    ASSUME TypeOK, NEW x \in Fcbs, NEW s \in LoopType, Becomes(x, s)
    PROVE  /\ disk_inode' \in [Files -> InodeType]
           /\ disk_data' \in [Blocks \cup {NoBlock} -> BufferType]
           /\ bitmap' \in SUBSET Blocks
           /\ fcb_inode' \in [Fcbs -> InodeType]
           /\ fcb_buf_block' \in [Fcbs -> Offsets]
           /\ fcb_buffer' \in [Fcbs -> BufferType]
BY DEF TypeOK, LoopType, Becomes

LEMMA EntrySize ==
    ASSUME TypeOK, InSize, NEW x, NEW n \in 0 .. MAX_FILE_SZ, FRead(x, n)
    PROVE  LET left == Unsigned(fcb_file_sz[x] - fcb_seek[x])
               size == IF n < left THEN n ELSE left
           IN /\ size \in Nat /\ fcb_seek[x] + size <= fcb_file_sz[x]
              /\ fcb_seek[x] + size <= MAX_FILE_SZ
<1>1. PositionType /\ MAX_FILE_SZ \in Nat
  BY FileConstants DEF TypeOK, PositionType
<1>2. QED BY <1>1, ReadSize

\* A write of a length that is not below 0 moves as much; first what the blocks of
\* the disk depend on.
LEMMA WriteGoes ==
    ASSUME TypeOK, InSize, NEW x, NEW n \in 0 .. MAX_FILE_SZ, NEW v, FWrite(x, n, v)
    PROVE  /\ x \in OpenFcbs /\ x \in Fcbs /\ fcb_inode_offset[x] \in Files
           /\ n \in Nat /\ fcb_seek[x] + n \in 0 .. MAX_FILE_SZ
           /\ Becomes(x, Writing(x, n, v)[n])
           /\ disk_bitmap' = Writing(x, n, v)[n].bitmap
           /\ fcb_inode_offset' = fcb_inode_offset
<1> DEFINE moved == IF n > 0 THEN n ELSE 0
<1>1. PositionType
  BY DEF TypeOK, PositionType
<1>2. /\ x \in OpenFcbs /\ x \in Fcbs /\ fcb_inode_offset[x] \in Files
      /\ Unsigned(fcb_file_sz[x] + n) <= MAX_FILE_SZ
  BY DEF FWrite, OpenFcbs
<1>3. n \in Nat /\ moved = n /\ fcb_seek[x] + n \in 0 .. MAX_FILE_SZ
  BY <1>1, <1>2, ForwardWrite
<1>4. /\ Becomes(x, Writing(x, moved, v)[moved])
      /\ disk_bitmap' = Writing(x, moved, v)[moved].bitmap
      /\ fcb_inode_offset' = fcb_inode_offset
  BY DEF FWrite
<1> HIDE DEF moved
<1>5. QED BY <1>2, <1>3, <1>4

LEMMA WriteMoves ==
    ASSUME TypeOK, InSize, NEW x, NEW n \in 0 .. MAX_FILE_SZ, NEW v, FWrite(x, n, v)
    PROVE  /\ x \in OpenFcbs /\ x \in Fcbs /\ fcb_inode_offset[x] \in Files
           /\ fcb_mode[x] = "w"
           /\ n \in Nat /\ fcb_seek[x] + n \in 0 .. MAX_FILE_SZ
           /\ Becomes(x, Writing(x, n, v)[n])
           /\ disk_bitmap' = Writing(x, n, v)[n].bitmap
           /\ fcb_seek' = [fcb_seek EXCEPT ![x] = fcb_seek[x] + n]
           /\ fcb_inode_offset' = fcb_inode_offset
           /\ \/ /\ fcb_file_sz' = [fcb_file_sz EXCEPT ![x] = fcb_seek[x] + n]
                 /\ file_size' = [file_size EXCEPT
                                    ![fcb_inode_offset[x]] = fcb_seek[x] + n]
                 /\ disk_size' = file_size'
              \/ UNCHANGED <<fcb_file_sz, file_size, disk_size>>
<1> DEFINE moved == IF n > 0 THEN n ELSE 0
<1>1. PositionType
  BY DEF TypeOK, PositionType
<1>2. /\ x \in OpenFcbs /\ x \in Fcbs /\ fcb_inode_offset[x] \in Files
      /\ Unsigned(fcb_file_sz[x] + n) <= MAX_FILE_SZ
  BY DEF FWrite, OpenFcbs
<1>3. /\ n \in Nat /\ moved = n /\ fcb_seek[x] + n \in 0 .. MAX_FILE_SZ
      /\ Unsigned(fcb_seek[x] + n) = fcb_seek[x] + n
  BY <1>1, <1>2, ForwardWrite
<1>4. n \in Int
  BY <1>3
<1>5. /\ fcb_mode[x] = "w"
      /\ Becomes(x, Writing(x, moved, v)[moved])
      /\ disk_bitmap' = Writing(x, moved, v)[moved].bitmap
      /\ fcb_seek' = [fcb_seek EXCEPT ![x] = fcb_seek[x] + moved]
      /\ fcb_inode_offset' = fcb_inode_offset
      /\ \/ /\ fcb_file_sz' = [fcb_file_sz EXCEPT ![x] = Unsigned(fcb_seek[x] + n)]
            /\ file_size' = [file_size EXCEPT ![fcb_inode_offset[x]] = Unsigned(fcb_seek[x] + n)]
            /\ disk_size' = file_size'
         \/ UNCHANGED <<fcb_file_sz, file_size, disk_size>>
  BY <1>1, <1>4, WriteParts
<1> HIDE DEF moved
<1>6. QED BY <1>2, <1>3, <1>5

\* What a cut in a call leaves of the disk: what some pass of its loop has made of
\* it, and the bitmap only when all is done.
Cut(x, n, r, k, w) ==
    /\ x \in OpenFcbs /\ n \in Nat /\ k \in 0 .. n
    /\ Looping(r, n, fcb_inode_offset[x], fcb_seek[x], w) /\ r[0] = State(x)
    /\ n > 0 => fcb_seek[x] + n <= MAX_FILE_SZ
    /\ disk_inode' = r[k].inodes
    /\ disk_bitmap' = disk_bitmap \/ (k = n /\ disk_bitmap' = r[n].bitmap)

LEMMA CutTypes ==
    ASSUME TypeOK, PowerCutInCall \/ \E x \in Fcbs, n \in Int : PowerCutInWrite(x, n, 0)
    PROVE  /\ TypeOK' /\ OpenFcbs' = {} /\ bitmap' = disk_bitmap'
           /\ disk_size' = disk_size /\ file_size' = disk_size'
           /\ \E x, n, r, k, w : Cut(x, n, r, k, w)
<1> DEFINE Leaves == /\ TypeOK' /\ OpenFcbs' = {} /\ bitmap' = disk_bitmap'
                     /\ disk_size' = disk_size /\ file_size' = disk_size'
           Cutting == \E x, n, r, k, w : Cut(x, n, r, k, w)
<1>a. disk_bitmap \in SUBSET Blocks /\ disk_size \in SizeType
  BY DEF TypeOK
<1>b. ASSUME NEW used \in SUBSET Blocks, NEW c \in LoopType,
             Start(used, disk_size, c.inodes, c.data)
      PROVE  Leaves /\ disk_bitmap' = used /\ disk_inode' = c.inodes
  <2>1. c.inodes \in [Files -> InodeType] /\ c.data \in [Blocks \cup {NoBlock} -> BufferType]
    BY DEF LoopType
  <2>2. TypeOK' /\ OpenFcbs' = {}
    BY <1>a, <1>b, <2>1, StartTypes
  <2>3. QED BY <1>b, <2>2 DEF Start
<1>c. ASSUME NEW x \in OpenFcbs, NEW n \in Nat, NEW r, NEW w,
             Looping(r, n, fcb_inode_offset[x], fcb_seek[x], w), r[0] = State(x),
             n > 0 => fcb_seek[x] + n <= MAX_FILE_SZ,
             NEW c \in CutAt(x, r, n), Start(disk_bitmap, disk_size, c.inodes, c.data)
      PROVE  Leaves /\ Cutting
  <2>1. r \in [0 .. n -> LoopType]
    BY <1>c DEF Looping
  <2>2. PICK k \in 0 .. n : c.inodes = r[k].inodes
    BY <2>1, CutType
  <2>3. c \in LoopType
    BY <2>1, CutType
  <2>4. Leaves /\ disk_bitmap' = disk_bitmap /\ disk_inode' = c.inodes
    BY <1>a, <1>b, <1>c, <2>3
  <2>5. Cut(x, n, r, k, w)
    BY <1>c, <2>2, <2>4 DEF Cut
  <2>6. QED BY <2>4, <2>5
<1> HIDE DEF Leaves, Cutting
<1>1. ASSUME NEW x \in Fcbs, NEW n \in 0 .. MAX_FILE_SZ, PowerCutInRead(x, n)
      PROVE  Leaves /\ Cutting
  <2>1. x \in OpenFcbs
    BY <1>1 DEF PowerCutInRead
  <2>2. n \in Nat /\ fcb_seek[x] + n <= MAX_FILE_SZ
    BY <1>1, FileConstants DEF PowerCutInRead
  <2>3. Looping(Reading(x, n), n, fcb_inode_offset[x], fcb_seek[x], FALSE)
        /\ Reading(x, n)[0] = State(x)
    BY <2>1, <2>2, ReadLoops
  <2>4. PICK c \in CutAt(x, Reading(x, n), n) : Start(disk_bitmap, disk_size, c.inodes, c.data)
    BY <1>1 DEF PowerCutInRead
  <2>5. QED BY <1>c, <2>1, <2>2, <2>3, <2>4
<1>2. ASSUME NEW x \in Fcbs, NEW m \in Int, NEW v \in Bytes, PowerCutInWrite(x, m, v)
      PROVE  Leaves /\ Cutting
  <2> DEFINE n == IF m > 0 THEN m ELSE 0
             r == Writing(x, n, v)
  <2>1. x \in OpenFcbs
    BY <1>2 DEF PowerCutInWrite
  <2>2. n \in Nat /\ fcb_seek[x] + n <= MAX_FILE_SZ
    BY <1>2 DEF PowerCutInWrite
  <2>4. \/ \E c \in CutAt(x, r, n) : Start(disk_bitmap, disk_size, c.inodes, c.data)
        \/ Start(r[n].bitmap, disk_size, r[n].inodes, r[n].data)
    BY <1>2 DEF PowerCutInWrite
  <2> HIDE DEF n
  <2>3. Looping(r, n, fcb_inode_offset[x], fcb_seek[x], TRUE) /\ r[0] = State(x)
    BY <2>1, <2>2, WriteLoops
  <2> HIDE DEF r
  <2>5. CASE \E c \in CutAt(x, r, n) : Start(disk_bitmap, disk_size, c.inodes, c.data)
    BY <1>c, <2>1, <2>2, <2>3, <2>5
  <2>6. CASE Start(r[n].bitmap, disk_size, r[n].inodes, r[n].data)
    <3>1. n \in 0 .. n /\ r[n] \in LoopType /\ r[n].bitmap \in SUBSET Blocks
      <4>1. n \in 0 .. n
        BY <2>2
      <4>2. r[n] \in LoopType
        BY <2>3, <4>1 DEF Looping
      <4>3. QED BY <4>1, <4>2 DEF LoopType
    <3>2. Leaves /\ disk_bitmap' = r[n].bitmap /\ disk_inode' = r[n].inodes
      BY <1>b, <2>6, <3>1
    <3>3. Cut(x, n, r, n, TRUE)
      BY <2>1, <2>2, <2>3, <3>1, <3>2 DEF Cut
    <3>4. QED BY <3>2, <3>3 DEF Cutting
  <2>7. QED BY <2>4, <2>5, <2>6
<1>3. 0 .. MAX_FILE_SZ \subseteq Int /\ 0 \in Bytes
  BY FileConstants, BytesAssumption
<1>4. QED BY <1>1, <1>2, <1>3 DEF PowerCutInCall, Leaves, Cutting

LEMMA NoteType ==
    ASSUME NEW notes \in [Procs -> [0 .. NR_FILE - 1 -> Fcbs \cup {-1}]],
           NEW p \in Procs, NEW i \in 0 .. NR_FILE - 1, NEW x \in Fcbs \cup {-1}
    PROVE  [notes EXCEPT ![p][i] = x] \in [Procs -> [0 .. NR_FILE - 1 -> Fcbs \cup {-1}]]
<1> DEFINE N == [0 .. NR_FILE - 1 -> Fcbs \cup {-1}]
           m == [notes[p] EXCEPT ![i] = x]
<1>1. m \in N
  OBVIOUS
<1>2. [notes EXCEPT ![p][i] = x] = [notes EXCEPT ![p] = m]
  OBVIOUS
<1> HIDE DEF N, m
<1>3. [notes EXCEPT ![p] = m] \in [Procs -> N]
  BY <1>1 DEF N
<1>4. QED BY <1>2, <1>3 DEF N

LEMMA TypeStep == ASSUME TypeOK, [Next]_vars PROVE TypeOK'
<1>a. PositionType
  BY DEF TypeOK, PositionType
<1>b. PositionType'
  BY <1>a, PositionTypes
<1>c. /\ fcb_inode_offset' \in [Fcbs -> Files \cup {-1, 0}]
      /\ disk_size' \in SizeType /\ file_size' \in SizeType
      /\ fcb_seek' \in [Fcbs -> 0 .. MAX_FILE_SZ]
      /\ fcb_file_sz' \in [Fcbs -> 0 .. SizeMod - 1]
  BY <1>b DEF PositionType
<1>1. ASSUME NEW p \in Procs, NEW f \in Files, NEW mode \in {"r", "w"}, FOpen(p, f, mode)
      PROVE  TypeOK'
  <2>1. PICK x \in Fcbs : x = fcb_free_list
    BY <1>1 DEF FOpen, TypeOK
  <2>2. /\ fcb_alloc(x, f, mode)
        /\ \/ UNCHANGED env_fcb_index
           \/ \E i \in 0 .. NR_FILE - 1 : env_fcb_index' = [env_fcb_index EXCEPT ![p][i] = x]
        /\ UNCHANGED <<diskVars, bitmap>>
    BY <1>1, <2>1 DEF FOpen
  <2>3. env_fcb_index' \in [Procs -> [0 .. NR_FILE - 1 -> Fcbs \cup {-1}]]
    <3>1. env_fcb_index \in [Procs -> [0 .. NR_FILE - 1 -> Fcbs \cup {-1}]]
      BY DEF TypeOK
    <3>2. CASE UNCHANGED env_fcb_index
      BY <3>1, <3>2
    <3>3. ASSUME NEW i \in 0 .. NR_FILE - 1,
                 env_fcb_index' = [env_fcb_index EXCEPT ![p][i] = x]
          PROVE  env_fcb_index' \in [Procs -> [0 .. NR_FILE - 1 -> Fcbs \cup {-1}]]
      <4>1. x \in Fcbs \cup {-1}
        OBVIOUS
      <4>2. QED BY <3>1, <3>3, <4>1, NoteType
    <3>4. QED BY <2>2, <3>2, <3>3
  <2>4. /\ disk_inode[f] \in InodeType
        /\ disk_data[disk_inode[f][0]] \in BufferType
    <3>1. disk_inode[f] \in InodeType
      BY DEF TypeOK
    <3>2. disk_inode[f][0] \in Blocks \cup {NoBlock}
      BY <3>1, NoBlockOut DEF InodeType
    <3>3. QED BY <3>1, <3>2 DEF TypeOK
  <2>5. /\ fcb_inode' \in [Fcbs -> InodeType] /\ fcb_mode' \in [Fcbs -> {"r", "w", ""}]
        /\ fcb_buf_block' \in [Fcbs -> Offsets] /\ fcb_buffer' \in [Fcbs -> BufferType]
    BY <2>2, <2>4, NoBlockOut DEF TypeOK, fcb_alloc
  <2>6. /\ fcb_link' \in [Fcbs -> Fcbs \cup {Nil}] /\ fcb_free_list' \in Fcbs \cup {Nil}
    BY <2>1, <2>2 DEF TypeOK, fcb_alloc
  <2>7. QED BY <1>c, <2>2, <2>3, <2>5, <2>6 DEF TypeOK, diskVars
<1>2. ASSUME NEW x \in Fcbs, NEW n \in 0 .. MAX_FILE_SZ, FRead(x, n) PROVE TypeOK'
  <2> DEFINE left == Unsigned(fcb_file_sz[x] - fcb_seek[x])
             size == IF n < left THEN n ELSE left
             s    == Reading(x, size)[size]
  <2>1. x \in OpenFcbs
    BY <1>2 DEF FRead
  <2>2. size \in Nat /\ fcb_seek[x] + size <= MAX_FILE_SZ
    BY <1>2, <1>a, ReadSize, FileConstants
  <2>3. Becomes(x, s) /\ UNCHANGED <<disk_bitmap, disk_size, file_size, fcb_mode, env_fcb_index>>
        /\ UNCHANGED listVars
    BY <1>2 DEF FRead
  <2> HIDE DEF size
  <2>4. Looping(Reading(x, size), size, fcb_inode_offset[x], fcb_seek[x], FALSE)
    BY <2>1, <2>2, ReadLoops
  <2>5. s \in LoopType
    <3>1. size \in 0 .. size
      BY <2>2
    <3>2. QED BY <2>4, <3>1 DEF Looping
  <2> HIDE DEF s
  <2>6. QED BY <1>c, <2>3, <2>5, BecomesType DEF TypeOK, listVars
<1>3. ASSUME NEW x \in Fcbs, NEW m \in Int, NEW v \in Bytes, FWrite(x, m, v)
      PROVE  TypeOK'
  <2> DEFINE n == IF m > 0 THEN m ELSE 0
             s == Writing(x, n, v)[n]
  <2>1. x \in OpenFcbs /\ n \in Nat /\ fcb_seek[x] + n \in 0 .. MAX_FILE_SZ
        /\ Becomes(x, s) /\ disk_bitmap' = s.bitmap
        /\ UNCHANGED <<fcb_mode, env_fcb_index>>
    BY <1>3, <1>a, WriteParts
  <2>2. fcb_seek[x] + n <= MAX_FILE_SZ
    BY <2>1, FileConstants
  <2>3. UNCHANGED listVars
    BY <1>3 DEF FWrite
  <2> HIDE DEF n
  <2>4. Looping(Writing(x, n, v), n, fcb_inode_offset[x], fcb_seek[x], TRUE)
    BY <2>1, <2>2, WriteLoops
  <2>5. s \in LoopType
    <3>1. n \in 0 .. n
      BY <2>1
    <3>2. QED BY <2>4, <3>1 DEF Looping
  <2> HIDE DEF s
  <2>6. disk_bitmap' \in SUBSET Blocks
    BY <2>1, <2>5 DEF LoopType
  <2>7. QED BY <1>c, <2>1, <2>3, <2>5, <2>6, BecomesType DEF TypeOK, listVars
<1>4. ASSUME NEW x, NEW end, FSeek(x, end) PROVE TypeOK'
  BY <1>4, <1>c DEF FSeek, TypeOK, bufVars, listVars, diskVars
<1>5. ASSUME NEW p \in Procs, NEW x \in Fcbs, FClose(p, x) PROVE TypeOK'
  <2>1. /\ fcb_free(x)
        /\ \/ UNCHANGED env_fcb_index
           \/ \E i \in 0 .. NR_FILE - 1 : env_fcb_index' = [env_fcb_index EXCEPT ![p][i] = -1]
        /\ UNCHANGED <<diskVars, bitmap>>
    BY <1>5 DEF FClose
  <2>2. env_fcb_index' \in [Procs -> [0 .. NR_FILE - 1 -> Fcbs \cup {-1}]]
    <3>1. env_fcb_index \in [Procs -> [0 .. NR_FILE - 1 -> Fcbs \cup {-1}]]
      BY DEF TypeOK
    <3>2. CASE UNCHANGED env_fcb_index
      BY <3>1, <3>2
    <3>3. ASSUME NEW i \in 0 .. NR_FILE - 1,
                 env_fcb_index' = [env_fcb_index EXCEPT ![p][i] = -1]
          PROVE  env_fcb_index' \in [Procs -> [0 .. NR_FILE - 1 -> Fcbs \cup {-1}]]
      <4>1. -1 \in Fcbs \cup {-1}
        OBVIOUS
      <4>2. QED BY <3>1, <3>3, <4>1, NoteType
    <3>4. QED BY <2>1, <3>2, <3>3
  <2>3. /\ fcb_link' \in [Fcbs -> Fcbs \cup {Nil}] /\ fcb_free_list' \in Fcbs \cup {Nil}
    BY <2>1 DEF TypeOK, fcb_free
  <2>4. QED BY <1>c, <2>1, <2>2, <2>3 DEF TypeOK, fcb_free, diskVars, bufVars
<1>6. ASSUME NEW p \in Procs, NewProgram(p) PROVE TypeOK'
  <2>1. env_fcb_index' \in [Procs -> [0 .. NR_FILE - 1 -> Fcbs \cup {-1}]]
    BY <1>6 DEF NewProgram, TypeOK
  <2>2. QED BY <1>6, <1>c, <2>1 DEF NewProgram, TypeOK, diskVars, bufVars, listVars
<1>7. CASE PowerCut
  BY <1>7, StartTypes DEF PowerCut, TypeOK
<1>8. CASE PowerCutInCall
  BY <1>8, CutTypes
<1>9. CASE UNCHANGED vars
  BY <1>9 DEF vars, diskVars, bufVars, listVars, TypeOK
<1>10. CASE NegativeCall
  <2>1. PICK x \in Fcbs, n \in 1 .. MAX_FILE_SZ : FWrite(x, -n, 0) \/ PowerCutInWrite(x, -n, 0)
    BY <1>10 DEF NegativeCall
  <2>2. -n \in Int /\ 0 \in Bytes
    BY FileConstants, BytesAssumption
  <2>3. QED BY <2>1, <2>2, <1>3, CutTypes
<1>11. 0 .. MAX_FILE_SZ \subseteq Int
  BY FileConstants
<1>12. QED BY <1>1, <1>2, <1>3, <1>4, <1>5, <1>6, <1>7, <1>8, <1>9, <1>10, <1>11
           DEF Next, Forward, Call
-----------------------------------------------------------------------------
(***************************************************************************)
(* Files open at most once                                                 *)
(***************************************************************************)

Sole ==
    \A x, y \in OpenFcbs : fcb_inode_offset[x] = fcb_inode_offset[y] => x = y

\* Between two calls: the memory agrees with the disk, a control block with both,
\* and what it has in the buffer has a block, unless the disk is full.
Held ==
    /\ Sole
    /\ bitmap = disk_bitmap /\ file_size = disk_size
    /\ \A f \in Files : disk_inode[f][0] # NoBlock
    /\ \A x \in OpenFcbs :
          /\ fcb_inode[x] = disk_inode[fcb_inode_offset[x]]
          /\ fcb_file_sz[x] = file_size[fcb_inode_offset[x]]
          /\ fcb_inode[x][fcb_buf_block[x]] # NoBlock \/ Full(bitmap)
    /\ SizeHasBlocks

\* What holds in the four kinds of behaviours.
FileInv ==
    /\ TypeOK
    /\ kind # "negative" => InSize
    /\ kind \in {"data", "cut"} => Held
    /\ kind = "data" => Apart(disk_inode, bitmap)

LEMMA OnceSole ==
    ASSUME NEW offset, \A f \in Files : Cardinality({x \in Fcbs : offset[x] = f}) <= 1,
           NEW x \in Fcbs, NEW y \in Fcbs, offset[x] \in Files, offset[x] = offset[y]
    PROVE  x = y
<1> DEFINE S == {z \in Fcbs : offset[z] = offset[x]}
<1>1. IsFiniteSet(Fcbs)
  BY FileConstants, FS_Interval DEF Fcbs
<1>2. IsFiniteSet(S) /\ {x, y} \subseteq S
  BY <1>1, FS_Subset
<1>3. Cardinality({x, y}) <= Cardinality(S) /\ Cardinality({x, y}) \in Nat
      /\ Cardinality(S) \in Nat
  BY <1>2, FS_Subset, FS_CardinalityType
<1>4. Cardinality(S) <= 1
  OBVIOUS
<1>5. x # y => Cardinality({x, y}) = 2
  <2>1. IsFiniteSet({x}) /\ Cardinality({x}) = 1
    BY FS_Singleton
  <2>2. ASSUME x # y PROVE Cardinality({x} \cup {y}) = 2
    BY <2>1, <2>2, FS_AddElement
  <2>3. {x} \cup {y} = {x, y}
    OBVIOUS
  <2>4. QED BY <2>2, <2>3
<1>6. QED BY <1>3, <1>4, <1>5

LEMMA HeldGoing ==
    ASSUME TypeOK, Held, NEW x \in OpenFcbs
    PROVE  /\ Going(State(x), fcb_inode_offset[x])
           /\ fcb_inode_offset[x] \in Files /\ x \in Fcbs
           /\ State(x).inodes = disk_inode /\ State(x).inode = fcb_inode[x]
           /\ State(x).bitmap = bitmap /\ State(x).data = disk_data
           /\ State(x).block = fcb_buf_block[x] /\ State(x).buffer = fcb_buffer[x]
<1>1. x \in Fcbs /\ fcb_inode_offset[x] \in Files
  BY DEF OpenFcbs
<1>2. State(x) \in LoopType
  BY <1>1, StateType
<1>3. /\ State(x).inodes = disk_inode /\ State(x).inode = fcb_inode[x]
      /\ State(x).bitmap = bitmap /\ State(x).data = disk_data
      /\ State(x).block = fcb_buf_block[x] /\ State(x).buffer = fcb_buffer[x]
  BY DEF State
<1>4. QED BY <1>1, <1>2, <1>3 DEF Held, Going

\* What a loop through x comes to.
LEMMA LoopPassed ==
    ASSUME TypeOK, Held, NEW x \in OpenFcbs, NEW n, NEW r, NEW w,
           Looping(r, n, fcb_inode_offset[x], fcb_seek[x], w), r[0] = State(x),
           n > 0 => fcb_seek[x] + n <= MAX_FILE_SZ
    PROVE  /\ \A k \in 0 .. n : Passed(State(x), r[k], k, fcb_inode_offset[x], fcb_seek[x], w)
           /\ n \in 0 .. n
<1> DEFINE f == fcb_inode_offset[x]
           p == fcb_seek[x]
<1>1. Going(r[0], f) /\ n \in Nat
  BY HeldGoing DEF Looping
<1> HIDE DEF f, p
<1>2. Looping(r, n, f, p, w) /\ (n > 0 => p + n <= MAX_FILE_SZ)
  BY DEF f, p
<1>3. \A k \in 0 .. n : Passed(r[0], r[k], k, f, p, w)
  BY <1>1, <1>2, AllPasses
<1>4. QED BY <1>1, <1>3 DEF f, p

\* A read allocates nothing: what lies within the size has its blocks.
LEMMA ReadPassed ==
    ASSUME TypeOK, InSize, Held, NEW x \in OpenFcbs, NEW n \in Nat,
           fcb_seek[x] + n <= fcb_file_sz[x],
           NEW t, t = Reading(x, n)[n]
    PROVE  /\ Passed(State(x), t, n, fcb_inode_offset[x], fcb_seek[x], FALSE)
           /\ SameBlocks(State(x), t)
<1> DEFINE f == fcb_inode_offset[x]
           p == fcb_seek[x]
<1>1. /\ x \in Fcbs /\ f \in Files /\ p \in Nat /\ MAX_FILE_SZ \in Nat
      /\ fcb_file_sz[x] \in 0 .. MAX_FILE_SZ /\ fcb_file_sz[x] = disk_size[f]
  <2>1. x \in Fcbs /\ f \in Files /\ MAX_FILE_SZ \in Nat
    BY FileConstants DEF OpenFcbs
  <2>2. fcb_file_sz[x] \in 0 .. MAX_FILE_SZ /\ p \in 0 .. MAX_FILE_SZ
    <3>1. PositionType
      BY DEF TypeOK, PositionType
    <3>2. QED BY <3>1, OpenPosition
  <2>3. fcb_file_sz[x] = disk_size[f]
    BY DEF Held
  <2>4. QED BY <2>1, <2>2, <2>3
<1>2. p + n <= MAX_FILE_SZ
  BY <1>1
<1>3. Looping(Reading(x, n), n, f, p, FALSE) /\ Reading(x, n)[0] = State(x)
  BY <1>2, ReadLoops
<1>4. Passed(State(x), t, n, f, p, FALSE)
  BY <1>2, <1>3, LoopPassed
<1>5. ASSUME NEW j \in 1 .. n
      PROVE  State(x).inode[(p + j - 1) \div BLOCK_SZ] # NoBlock \/ Full(State(x).bitmap)
  <2> DEFINE q == p + j - 1
             i == q \div BLOCK_SZ
  <2>1. q \in 0 .. MAX_FILE_SZ - 1 /\ q < disk_size[f]
    BY <1>1, <1>2
  <2>2. i \in Offsets /\ q % BLOCK_SZ \in InBlock /\ q = i * BLOCK_SZ + (q % BLOCK_SZ)
    BY <2>1, PositionBlock
  <2> HIDE DEF i
  <2>3. i * BLOCK_SZ < disk_size[f]
    <3>1. i \in Nat /\ BLOCK_SZ \in Nat /\ i * BLOCK_SZ \in Nat /\ q % BLOCK_SZ >= 0
          /\ q % BLOCK_SZ \in Nat /\ q \in Nat /\ disk_size[f] \in Nat
      BY <1>1, <2>1, <2>2, FileAssumption DEF Offsets, InBlock
    <3> HIDE DEF q
    <3>2. QED BY <2>1, <2>2, <3>1
  <2>4. disk_inode[f][i] # NoBlock \/ disk_bitmap = Blocks
    BY <1>1, <2>2, <2>3 DEF Held, SizeHasBlocks
  <2>5. State(x).inode = disk_inode[f] /\ State(x).bitmap = disk_bitmap
    BY HeldGoing DEF Held
  <2>6. QED BY <2>4, <2>5 DEF Full, i
<1>6. QED BY <1>4, <1>5 DEF Passed

LEMMA HeldRead ==
    ASSUME TypeOK, InSize, Held, NEW x, NEW n \in 0 .. MAX_FILE_SZ, FRead(x, n)
    PROVE  Held' /\ disk_inode' = disk_inode /\ bitmap' = bitmap
<1> DEFINE left == Unsigned(fcb_file_sz[x] - fcb_seek[x])
           size == IF n < left THEN n ELSE left
           t    == Reading(x, size)[size]
           f    == fcb_inode_offset[x]
<1>1. x \in OpenFcbs /\ x \in Fcbs
  BY DEF FRead, OpenFcbs
<1>2. size \in Nat /\ fcb_seek[x] + size <= fcb_file_sz[x]
  BY EntrySize
<1>3. /\ Becomes(x, t)
      /\ UNCHANGED <<disk_bitmap, disk_size, file_size, fcb_inode_offset, fcb_file_sz>>
  BY DEF FRead
<1> HIDE DEF size
<1>4. Passed(State(x), t, size, f, fcb_seek[x], FALSE) /\ SameBlocks(State(x), t)
  BY <1>1, <1>2, ReadPassed
<1> HIDE DEF t
<1>5. /\ disk_inode' = disk_inode /\ bitmap' = bitmap
      /\ t.inode = fcb_inode[x]
      /\ t.inode[t.block] # NoBlock \/ Full(t.bitmap)
  BY <1>1, <1>3, <1>4, HeldGoing DEF SameBlocks, Passed, Going, Becomes
<1>6. OpenFcbs' = OpenFcbs
  BY <1>3 DEF OpenFcbs
<1>7. fcb_inode' = fcb_inode
  BY <1>1, <1>3, <1>5 DEF TypeOK, Becomes
<1>8. ASSUME NEW y \in OpenFcbs
      PROVE  fcb_inode'[y][fcb_buf_block'[y]] # NoBlock \/ Full(bitmap')
  <2>1. y \in Fcbs
    BY DEF OpenFcbs
  <2>2. CASE y = x
    <3>1. fcb_buf_block'[y] = t.block
      BY <1>1, <1>3, <2>2 DEF TypeOK, Becomes
    <3>2. t.bitmap = bitmap'
      BY <1>3 DEF Becomes
    <3>3. QED BY <1>5, <1>7, <2>2, <3>1, <3>2
  <2>3. CASE y # x
    <3>1. fcb_buf_block'[y] = fcb_buf_block[y]
      BY <1>3, <2>1, <2>3 DEF TypeOK, Becomes
    <3>2. QED BY <1>5, <1>7, <3>1 DEF Held
  <2>4. QED BY <2>2, <2>3
<1>9. Sole' /\ SizeHasBlocks'
  BY <1>3, <1>5, <1>6 DEF Held, Sole, SizeHasBlocks
<1>10. QED BY <1>3, <1>5, <1>6, <1>7, <1>8, <1>9 DEF Held

\* Inodes that only get more blocks, and sizes that do not grow, or to what has
\* its blocks.
LEMMA StillBlocks ==
    ASSUME TypeOK, Held, NEW x \in OpenFcbs, NEW t, NEW k, NEW w,
           Passed(State(x), t, k, fcb_inode_offset[x], fcb_seek[x], w),
           NEW g \in Files, NEW i \in Offsets, disk_inode[g][i] # NoBlock
    PROVE  t.inodes[g][i] = disk_inode[g][i]
<1>1. /\ Going(t, fcb_inode_offset[x]) /\ Grown(State(x), t, fcb_inode_offset[x])
      /\ State(x).inodes = disk_inode /\ State(x).inode = disk_inode[fcb_inode_offset[x]]
  BY HeldGoing DEF Passed, Held
<1>2. QED BY <1>1 DEF Going, Grown

LEMMA WritePassed ==
    ASSUME TypeOK, Held, NEW x \in OpenFcbs, NEW n \in Nat, NEW v \in Bytes,
           fcb_seek[x] + n \in 0 .. MAX_FILE_SZ,
           NEW t, t = Writing(x, n, v)[n]
    PROVE  /\ Passed(State(x), t, n, fcb_inode_offset[x], fcb_seek[x], TRUE)
           /\ t \in LoopType
<1>1. n \in Nat /\ fcb_seek[x] + n \in 0 .. MAX_FILE_SZ
  OBVIOUS
<1>2. fcb_seek[x] + n <= MAX_FILE_SZ
  BY <1>1, FileConstants
<1>3. Looping(Writing(x, n, v), n, fcb_inode_offset[x], fcb_seek[x], TRUE)
      /\ Writing(x, n, v)[0] = State(x)
  BY <1>1, <1>2, WriteLoops
<1>4. Passed(State(x), t, n, fcb_inode_offset[x], fcb_seek[x], TRUE)
  BY <1>1, <1>2, <1>3, LoopPassed
<1>5. QED BY <1>1, <1>4 DEF Passed, Going

LEMMA HeldWrite ==
    ASSUME TypeOK, InSize, Held, NEW x, NEW n \in 0 .. MAX_FILE_SZ, NEW v \in Bytes,
           FWrite(x, n, v)
    PROVE  Held'
<1> DEFINE t   == Writing(x, n, v)[n]
           f   == fcb_inode_offset[x]
           p   == fcb_seek[x]
           end == p + n
<1>1. /\ x \in OpenFcbs /\ x \in Fcbs /\ f \in Files
      /\ n \in Nat /\ end \in 0 .. MAX_FILE_SZ
      /\ Becomes(x, t) /\ disk_bitmap' = t.bitmap
      /\ fcb_inode_offset' = fcb_inode_offset
  BY WriteGoes
<1>2. \/ /\ fcb_file_sz' = [fcb_file_sz EXCEPT ![x] = end]
         /\ file_size' = [file_size EXCEPT ![f] = end]
         /\ disk_size' = file_size'
      \/ UNCHANGED <<fcb_file_sz, file_size, disk_size>>
  BY WriteMoves
<1>3. /\ Passed(State(x), t, n, f, p, TRUE)
      /\ t \in LoopType /\ n \in Nat /\ end \in 0 .. MAX_FILE_SZ
  BY <1>1, WritePassed
<1> HIDE DEF t
<1>4. /\ Going(t, f) /\ Grown(State(x), t, f)
      /\ \A j \in 1 .. n : t.inode[(p + j - 1) \div BLOCK_SZ] # NoBlock \/ Full(t.bitmap)
      /\ State(x).inodes = disk_inode /\ State(x).bitmap = bitmap
      /\ State(x).inode = fcb_inode[x]
  BY <1>1, <1>3, HeldGoing DEF Passed
<1>5. /\ disk_inode' = t.inodes /\ bitmap' = t.bitmap /\ disk_bitmap' = t.bitmap
      /\ fcb_inode' = [fcb_inode EXCEPT ![x] = t.inode]
      /\ fcb_buf_block' = [fcb_buf_block EXCEPT ![x] = t.block]
  BY <1>1 DEF Becomes
<1>6. OpenFcbs' = OpenFcbs
  BY <1>1 DEF OpenFcbs
<1>7. /\ \A g \in Files, i \in Offsets :
            disk_inode[g][i] # NoBlock => t.inodes[g][i] = disk_inode[g][i]
      /\ bitmap \subseteq t.bitmap
  <2>1. ASSUME NEW g \in Files, NEW i \in Offsets, disk_inode[g][i] # NoBlock
        PROVE  t.inodes[g][i] = disk_inode[g][i]
    BY <1>1, <1>3, <2>1, StillBlocks
  <2>2. QED BY <1>4, <2>1 DEF Grown
<1>8. file_size' = disk_size' /\ \A g \in Files : disk_inode'[g][0] # NoBlock
  BY <1>2, <1>5, <1>7, NoBlockOut DEF Held
<1>9. ASSUME NEW y \in OpenFcbs
      PROVE  /\ fcb_inode'[y] = disk_inode'[fcb_inode_offset'[y]]
             /\ fcb_file_sz'[y] = file_size'[fcb_inode_offset'[y]]
             /\ fcb_inode'[y][fcb_buf_block'[y]] # NoBlock \/ Full(bitmap')
  <2>1. y \in Fcbs /\ fcb_inode_offset[y] \in Files
    BY DEF OpenFcbs
  <2>2. CASE y = x
    <3>1. fcb_inode'[y] = t.inode /\ fcb_buf_block'[y] = t.block
      BY <1>1, <1>5, <2>2 DEF TypeOK
    <3>2. t.inode = t.inodes[f] /\ (t.inode[t.block] # NoBlock \/ Full(t.bitmap))
      BY <1>4 DEF Going
    <3>3. fcb_file_sz'[y] = file_size'[f]
      BY <1>1, <1>2, <2>2 DEF TypeOK, SizeType, Held
    <3>4. QED BY <1>1, <1>5, <2>2, <3>1, <3>2, <3>3
  <2>3. CASE y # x
    <3>1. fcb_inode_offset[y] # f
      BY <1>1, <2>3 DEF Held, Sole
    <3>2. fcb_inode'[y] = fcb_inode[y] /\ fcb_buf_block'[y] = fcb_buf_block[y]
      BY <1>5, <2>1, <2>3 DEF TypeOK
    <3>3. disk_inode'[fcb_inode_offset[y]] = disk_inode[fcb_inode_offset[y]]
      BY <1>4, <1>5, <2>1, <3>1 DEF Grown
    <3>4. fcb_file_sz'[y] = fcb_file_sz[y]
          /\ file_size'[fcb_inode_offset[y]] = file_size[fcb_inode_offset[y]]
      <4> HIDE DEF f, end
      <4>1. QED BY <1>2, <2>1, <2>3, <3>1 DEF TypeOK, SizeType
    <3>5. Full(bitmap) => Full(bitmap')
      BY <1>5, <1>7 DEF Full
    <3>6. QED BY <1>1, <3>2, <3>3, <3>4, <3>5 DEF Held
  <2>4. QED BY <2>2, <2>3
<1>10. Full(t.bitmap) => disk_bitmap' = Blocks
  BY <1>3, <1>5 DEF Full, LoopType
<1>11. SizeHasBlocks'
  <2> SUFFICES ASSUME NEW g \in Files, NEW i \in Offsets, i * BLOCK_SZ < disk_size'[g]
               PROVE  disk_inode'[g][i] # NoBlock \/ disk_bitmap' = Blocks
    BY DEF SizeHasBlocks
  <2>1. CASE i * BLOCK_SZ < disk_size[g]
    <3>1. disk_inode[g][i] # NoBlock \/ disk_bitmap = Blocks
      BY <2>1 DEF Held, SizeHasBlocks
    <3>2. disk_bitmap = Blocks => disk_bitmap' = Blocks
      BY <1>7, <1>10 DEF Held, Full
    <3>3. QED BY <1>5, <1>7, <3>1, <3>2
  <2>2. CASE ~(i * BLOCK_SZ < disk_size[g])
    <3> DEFINE q == i * BLOCK_SZ
    <3>1. g = f /\ disk_size'[g] = end
      <4>1. /\ disk_size = file_size /\ disk_size \in [Files -> 0 .. SizeMod - 1]
        BY DEF Held, TypeOK, SizeType
      <4>2. disk_size'[g] # disk_size[g]
        BY <2>2
      <4>3. disk_size' = [disk_size EXCEPT ![f] = end]
        BY <1>2, <4>1, <4>2
      <4> HIDE DEF f, end
      <4>4. QED BY <4>1, <4>2, <4>3
    <3>2. 0 \in InBlock
      BY FileAssumption DEF InBlock
    <3>3. q + 0 \in Nat /\ (q + 0) \div BLOCK_SZ = i
      BY <3>2, BlockPosition
    <3>4. q \in Int
      BY FileAssumption DEF Offsets
    <3>5. q \in Nat /\ q \div BLOCK_SZ = i /\ q + 0 = q
      <4> HIDE DEF q
      <4>1. q + 0 = q
        BY <3>4
      <4>2. QED BY <3>3, <4>1
    <3>6. p \in Nat /\ p <= disk_size[f] /\ disk_size[f] \in Nat
      <4>1. p \in 0 .. MAX_FILE_SZ /\ disk_size[f] \in 0 .. SizeMod - 1
        BY <1>1 DEF TypeOK, SizeType
      <4>2. fcb_file_sz[x] = disk_size[f] /\ p <= fcb_file_sz[x]
        BY <1>1 DEF Held, InSize, SeekInFile
      <4>3. QED BY <4>1, <4>2, UnsignedSize, FileConstants
    <3> HIDE DEF q
    <3>7. q >= p /\ q < end
      <4>1. q < end
        BY <3>1 DEF q
      <4>2. ~(q < disk_size[f])
        BY <2>2, <3>1 DEF q
      <4> HIDE DEF p, f, end
      <4>3. QED BY <3>5, <3>6, <4>1, <4>2
    <3>8. q - p + 1 \in 1 .. n /\ p + (q - p + 1) - 1 = q
      BY <1>3, <3>5, <3>6, <3>7
    <3>9. t.inode[i] # NoBlock \/ Full(t.bitmap)
      BY <1>4, <3>5, <3>8
    <3>10. disk_inode'[g] = t.inode
      BY <1>4, <1>5, <3>1 DEF Going
    <3>11. QED BY <1>10, <3>9, <3>10
  <2>3. QED BY <2>1, <2>2
<1>12. Sole'
  BY <1>1, <1>6 DEF Held, Sole
<1>13. QED BY <1>1, <1>5, <1>6, <1>8, <1>9, <1>11, <1>12 DEF Held

\* Opening needs no block, and takes the inode as it is on the disk.
LEMMA HeldOpen ==
    ASSUME TypeOK, Held, NEW p, NEW f \in Files, NEW mode, FOpen(p, f, mode), OpenOnce'
    PROVE  Held'
<1>1. PICK x \in Fcbs : x = fcb_free_list
  BY DEF FOpen, TypeOK
<1>2. /\ fcb_alloc(x, f, mode)
      /\ fcb_file_sz' = [fcb_file_sz EXCEPT ![x] = file_size[f]]
      /\ UNCHANGED <<disk_bitmap, disk_size, disk_inode, disk_data, bitmap, file_size>>
  BY <1>1 DEF FOpen, diskVars
<1>3. /\ fcb_inode_offset' = [fcb_inode_offset EXCEPT ![x] = f]
      /\ fcb_inode' = [fcb_inode EXCEPT ![x] = disk_inode[f]]
      /\ fcb_buf_block' = [fcb_buf_block EXCEPT ![x] = 0]
  BY <1>2 DEF fcb_alloc
<1>4. Sole'
  <2> SUFFICES ASSUME NEW y \in OpenFcbs', NEW z \in OpenFcbs',
                      fcb_inode_offset'[y] = fcb_inode_offset'[z]
               PROVE  y = z
    BY DEF Sole
  <2>1. \A g \in Files : Cardinality({w \in Fcbs : fcb_inode_offset'[w] = g}) <= 1
    BY DEF OpenOnce, OpenOn
  <2>2. y \in Fcbs /\ z \in Fcbs /\ fcb_inode_offset'[y] \in Files
    BY DEF OpenFcbs
  <2>3. QED BY <2>1, <2>2, OnceSole
<1>5. ASSUME NEW y \in OpenFcbs'
      PROVE  /\ fcb_inode'[y] = disk_inode'[fcb_inode_offset'[y]]
             /\ fcb_file_sz'[y] = file_size'[fcb_inode_offset'[y]]
             /\ fcb_inode'[y][fcb_buf_block'[y]] # NoBlock \/ Full(bitmap')
  <2>1. y \in Fcbs /\ fcb_inode_offset'[y] \in Files
    BY DEF OpenFcbs
  <2>2. CASE y = x
    BY <1>2, <1>3, <2>1, <2>2 DEF TypeOK, Held
  <2>3. CASE y # x
    <3>1. /\ fcb_inode_offset'[y] = fcb_inode_offset[y] /\ fcb_inode'[y] = fcb_inode[y]
          /\ fcb_file_sz'[y] = fcb_file_sz[y] /\ fcb_buf_block'[y] = fcb_buf_block[y]
      BY <1>2, <1>3, <2>1, <2>3 DEF TypeOK
    <3>2. y \in OpenFcbs
      BY <2>1, <3>1 DEF OpenFcbs
    <3>3. QED BY <1>2, <3>1, <3>2 DEF Held
  <2>4. QED BY <2>2, <2>3
<1>6. SizeHasBlocks' /\ bitmap' = disk_bitmap' /\ file_size' = disk_size'
      /\ \A g \in Files : disk_inode'[g][0] # NoBlock
  BY <1>2 DEF Held, SizeHasBlocks
<1>7. QED BY <1>4, <1>5, <1>6 DEF Held

LEMMA HeldClose ==
    ASSUME TypeOK, Held, NEW p, NEW x, FClose(p, x) PROVE Held'
<1>1. /\ fcb_inode_offset' = [fcb_inode_offset EXCEPT ![x] = 0]
      /\ UNCHANGED <<disk_bitmap, disk_size, disk_inode, disk_data, bitmap, file_size,
                     fcb_inode, fcb_buf_block, fcb_file_sz>>
  BY DEF FClose, fcb_free, diskVars, bufVars
<1>2. ASSUME NEW y \in OpenFcbs'
      PROVE  y \in OpenFcbs /\ fcb_inode_offset'[y] = fcb_inode_offset[y]
  BY <1>1, FileConstants DEF OpenFcbs, TypeOK
<1>3. Sole' /\ SizeHasBlocks'
  BY <1>1, <1>2 DEF Held, Sole, SizeHasBlocks
<1>4. QED BY <1>1, <1>2, <1>3 DEF Held

\* After a cut nothing is open, and the disk is as some pass of a loop left it.
LEMMA HeldCut ==
    ASSUME TypeOK, InSize, Held, PowerCutInCall PROVE Held'
<1>1. PICK x, n, r, k, w : Cut(x, n, r, k, w)
  BY CutTypes
<1>2. /\ x \in OpenFcbs /\ n \in Nat /\ k \in 0 .. n
      /\ Looping(r, n, fcb_inode_offset[x], fcb_seek[x], w) /\ r[0] = State(x)
      /\ n > 0 => fcb_seek[x] + n <= MAX_FILE_SZ
      /\ disk_inode' = r[k].inodes
      /\ disk_bitmap' = disk_bitmap \/ (k = n /\ disk_bitmap' = r[n].bitmap)
  BY <1>1 DEF Cut
<1>3. /\ OpenFcbs' = {} /\ bitmap' = disk_bitmap' /\ disk_size' = disk_size
      /\ file_size' = disk_size' /\ disk_bitmap' \in SUBSET Blocks
  BY CutTypes DEF TypeOK
<1>4. Passed(State(x), r[k], k, fcb_inode_offset[x], fcb_seek[x], w)
  BY <1>2, LoopPassed
<1>5. ASSUME NEW g \in Files, NEW i \in Offsets, disk_inode[g][i] # NoBlock
      PROVE  disk_inode'[g][i] = disk_inode[g][i]
  BY <1>2, <1>4, <1>5, StillBlocks
<1>6. disk_bitmap \subseteq disk_bitmap'
  <2>1. State(x).bitmap = disk_bitmap
    BY <1>2, HeldGoing DEF Held
  <2>2. disk_bitmap \subseteq r[k].bitmap
    BY <1>4, <2>1 DEF Passed, Grown
  <2>3. QED BY <1>2, <2>2
<1>7. SizeHasBlocks'
  <2> SUFFICES ASSUME NEW g \in Files, NEW i \in Offsets, i * BLOCK_SZ < disk_size'[g]
               PROVE  disk_inode'[g][i] # NoBlock \/ disk_bitmap' = Blocks
    BY DEF SizeHasBlocks
  <2>1. disk_inode[g][i] # NoBlock \/ disk_bitmap = Blocks
    BY <1>3 DEF Held, SizeHasBlocks
  <2>2. disk_bitmap = Blocks => disk_bitmap' = Blocks
    BY <1>3, <1>6
  <2>3. QED BY <1>5, <2>1, <2>2
<1>8. \A g \in Files : disk_inode'[g][0] # NoBlock
  BY <1>5, NoBlockOut DEF Held
<1>9. Sole'
  BY <1>3 DEF Sole
<1>10. QED BY <1>3, <1>7, <1>8, <1>9 DEF Held

LEMMA HeldStep ==
    ASSUME TypeOK, InSize, Held, Call \/ PowerCut \/ PowerCutInCall, OpenOnce'
    PROVE  Held'
<1>1. ASSUME NEW p, NEW f \in Files, NEW mode, FOpen(p, f, mode) PROVE Held'
  BY <1>1, HeldOpen
<1>2. ASSUME NEW x, NEW n \in 0 .. MAX_FILE_SZ, FRead(x, n) PROVE Held'
  BY <1>2, HeldRead
<1>3. ASSUME NEW x, NEW n \in 0 .. MAX_FILE_SZ, NEW v \in Bytes, FWrite(x, n, v) PROVE Held'
  BY <1>3, HeldWrite
<1>4. ASSUME UNCHANGED <<diskVars, bitmap, file_size, fcb_inode_offset, fcb_file_sz, bufVars>>
      PROVE  Held'
  BY <1>4 DEF diskVars, bufVars, Held, Sole, OpenFcbs, SizeHasBlocks
<1>5. ASSUME NEW x, NEW end, FSeek(x, end) PROVE Held'
  BY <1>4, <1>5 DEF FSeek
<1>6. ASSUME NEW p, NEW x, FClose(p, x) PROVE Held'
  BY <1>6, HeldClose
<1>7. ASSUME NEW p, NewProgram(p) PROVE Held'
  BY <1>4, <1>7 DEF NewProgram
<1>8. CASE PowerCut
  <2>1. /\ OpenFcbs' = {}
    BY <1>8, StartTypes DEF PowerCut, TypeOK
  <2>2. /\ bitmap' = disk_bitmap' /\ file_size' = disk_size'
        /\ UNCHANGED <<disk_bitmap, disk_size, disk_inode>>
    BY <1>8 DEF PowerCut, Start
  <2>3. QED BY <2>1, <2>2 DEF Held, Sole, SizeHasBlocks
<1>9. CASE PowerCutInCall
  BY <1>9, HeldCut
<1>10. QED BY <1>1, <1>2, <1>3, <1>5, <1>6, <1>7, <1>8, <1>9 DEF Call

\* No block gets a second place.
LEMMA ApartStep ==
    ASSUME TypeOK, InSize, Held, Apart(disk_inode, bitmap), Call \/ PowerCut
    PROVE  Apart(disk_inode, bitmap)'
<1>1. ASSUME UNCHANGED <<disk_inode, bitmap>> PROVE Apart(disk_inode, bitmap)'
  BY <1>1
<1>2. ASSUME NEW p, NEW f, NEW mode, FOpen(p, f, mode) PROVE Apart(disk_inode, bitmap)'
  BY <1>1, <1>2 DEF FOpen, diskVars
<1>3. ASSUME NEW x, NEW n \in 0 .. MAX_FILE_SZ, FRead(x, n) PROVE Apart(disk_inode, bitmap)'
  BY <1>1, <1>3, HeldRead
<1>4. ASSUME NEW x, NEW n \in 0 .. MAX_FILE_SZ, NEW v \in Bytes, FWrite(x, n, v)
      PROVE  Apart(disk_inode, bitmap)'
  <2> DEFINE t == Writing(x, n, v)[n]
  <2>1. /\ x \in OpenFcbs /\ n \in Nat /\ fcb_seek[x] + n \in 0 .. MAX_FILE_SZ
        /\ disk_inode' = t.inodes /\ bitmap' = t.bitmap
    BY <1>4, WriteMoves DEF Becomes
  <2>2. Passed(State(x), t, n, fcb_inode_offset[x], fcb_seek[x], TRUE)
    BY <2>1, WritePassed
  <2> HIDE DEF t
  <2>3. Apart(State(x).inodes, State(x).bitmap)
    BY <2>1, HeldGoing
  <2>4. Apart(t.inodes, t.bitmap)
    BY <2>2, <2>3 DEF Passed
  <2>5. QED BY <2>1, <2>4
<1>5. ASSUME NEW x, NEW end, FSeek(x, end) PROVE Apart(disk_inode, bitmap)'
  BY <1>1, <1>5 DEF FSeek, diskVars
<1>6. ASSUME NEW p, NEW x, FClose(p, x) PROVE Apart(disk_inode, bitmap)'
  BY <1>1, <1>6 DEF FClose, diskVars
<1>7. ASSUME NEW p, NewProgram(p) PROVE Apart(disk_inode, bitmap)'
  BY <1>1, <1>7 DEF NewProgram, diskVars
<1>8. CASE PowerCut
  BY <1>1, <1>8 DEF PowerCut, Start, Held
<1>9. QED BY <1>2, <1>3, <1>4, <1>5, <1>6, <1>7, <1>8 DEF Call

LEMMA FileInit == ASSUME MCInit PROVE FileInv
<1>1. TypeOK /\ OpenFcbs = {} /\ bitmap = disk_bitmap /\ file_size = disk_size
      /\ Apart(disk_inode, bitmap) /\ SizeHasBlocks
      /\ \A f \in Files : disk_inode[f][0] # NoBlock
  BY InitTypes DEF MCInit
<1>2. InSize
  BY PositionInit DEF MCInit
<1>3. QED BY <1>1, <1>2 DEF FileInv, Held, Sole

LEMMA FileStep == ASSUME FileInv, [MCNext]_mcvars PROVE FileInv'
<1>1. CASE MCNext
  <2>1. Next /\ kind' = kind
    BY <1>1 DEF MCNext, Next, Forward
  <2>2. TypeOK' /\ (kind # "negative" => InSize')
    <3>1. TypeOK'
      BY <2>1, TypeStep DEF FileInv
    <3>2. PositionType
      BY DEF FileInv, TypeOK, PositionType
    <3>3. kind # "negative" => Forward
      BY <1>1 DEF MCNext, Forward
    <3>4. QED BY <3>1, <3>2, <3>3, PositionStep DEF FileInv
  <2>3. ASSUME kind \in {"data", "cut"} PROVE Held'
    <3>1. OpenOnce' /\ (Call \/ PowerCut \/ PowerCutInCall)
      BY <1>1, <2>3 DEF MCNext
    <3>2. TypeOK /\ InSize /\ Held
      BY <2>3 DEF FileInv
    <3>3. QED BY <3>1, <3>2, HeldStep
  <2>4. ASSUME kind = "data" PROVE Apart(disk_inode, bitmap)'
    <3>1. Call \/ PowerCut
      BY <1>1, <2>4 DEF MCNext
    <3>2. TypeOK /\ InSize /\ Held /\ Apart(disk_inode, bitmap)
      BY <2>4 DEF FileInv
    <3>3. QED BY <3>1, <3>2, ApartStep
  <2>5. QED BY <2>1, <2>2, <2>3, <2>4 DEF FileInv
<1>2. CASE UNCHANGED mcvars
  <2>1. UNCHANGED vars /\ UNCHANGED kind
    BY <1>2 DEF mcvars
  <2>2. TypeOK' /\ (InSize => InSize')
    <3>1. TypeOK'
      BY <2>1, TypeStep DEF FileInv
    <3>2. QED BY <2>1, <3>1 DEF vars, diskVars, InSize, SeekInFile, OpenFcbs
  <2>3. Held => Held'
    BY <2>1 DEF vars, diskVars, bufVars, Held, Sole, OpenFcbs, SizeHasBlocks
  <2>4. UNCHANGED <<disk_inode, bitmap>>
    BY <2>1 DEF vars, diskVars
  <2>5. QED BY <2>1, <2>2, <2>3, <2>4 DEF FileInv
<1>3. QED BY <1>1, <1>2

\* The inodes are apart, and those in the control blocks are those on the disk.
LEMMA FileInvSound == ASSUME FileInv PROVE DiskSoundOnce
<1>1. ASSUME kind = "data" PROVE BlocksApart /\ BitmapOnDisk
  <2>1. Held /\ Apart(disk_inode, bitmap)
    BY <1>1 DEF FileInv
  <2>2. ASSUME NEW a \in Inodes PROVE a[1] \in Files /\ a[2] = disk_inode[a[1]]
    BY <2>1 DEF Inodes, Held, OpenFcbs
  <2>3. BlocksApart
    <3> SUFFICES ASSUME NEW a \in Inodes, NEW b \in Inodes, NEW i \in Offsets, NEW j \in Offsets,
                        a[2][i] # NoBlock
                 PROVE  /\ a[2][i] = b[2][j] => a[1] = b[1] /\ i = j
                        /\ a[2][i] \in bitmap \ (Files \cup {0, 1})
      BY DEF BlocksApart
    <3>1. /\ a[1] \in Files /\ a[2] = disk_inode[a[1]]
          /\ b[1] \in Files /\ b[2] = disk_inode[b[1]]
      BY <2>2
    <3>2. QED BY <2>1, <3>1 DEF Apart
  <2>4. BitmapOnDisk
    BY <2>1 DEF Apart, Held, BitmapOnDisk
  <2>5. QED BY <2>3, <2>4
<1>2. ASSUME kind \in {"data", "cut"} PROVE SizeHasBlocks /\ InodeCurrent
  BY <1>2 DEF FileInv, Held, InodeCurrent
<1>3. TypeOK
  BY DEF FileInv
<1>4. QED BY <1>1, <1>2, <1>3
          DEF DiskSoundOnce, BlocksApartOnce, BitmapOnDiskOnce, SizeHasBlocksOnce, InodeCurrentOnce

\* Whatever is opened, read, written, cut and closed in whatever order: while a
\* file is open at most once, no block has two places and the bitmap on the disk
\* has them all; wherever power fails, no size gets ahead of its blocks unless
\* the disk is full, and no call works through a stale inode.
THEOREM DiskSoundOnceHolds == MCSpec => []DiskSoundOnce
<1>1. FileInv /\ [MCNext]_mcvars => FileInv'
  BY FileStep
<1>2. QED BY FileInit, FileInvSound, <1>1, PTL DEF MCSpec
-----------------------------------------------------------------------------
(***************************************************************************)
(* What a step may never do                                                *)
(***************************************************************************)

\* A loop through x changes, of what is seen through any control block y, only
\* what it writes through x.
LEMMA LoopSeen ==
    ASSUME TypeOK, Held, Apart(disk_inode, bitmap), NEW x \in OpenFcbs, NEW y \in OpenFcbs,
           NEW n \in Nat, NEW t, NEW w,
           Passed(State(x), t, n, fcb_inode_offset[x], fcb_seek[x], w), Becomes(x, t),
           n > 0 => fcb_seek[x] + n <= MAX_FILE_SZ,
           NEW p \in 0 .. MAX_FILE_SZ - 1, fcb_inode[y][p \div BLOCK_SZ] # NoBlock
    PROVE  \/ Seen(y, p)' = Seen(y, p)
           \/ y = x /\ w /\ p >= fcb_seek[x] /\ p < fcb_seek[x] + n
<1> DEFINE f == fcb_inode_offset[x]
           s == State(x)
           i == p \div BLOCK_SZ
           q == p % BLOCK_SZ
<1>1. /\ s.inodes = disk_inode /\ s.inode = fcb_inode[x] /\ s.bitmap = bitmap
      /\ s.data = disk_data /\ s.block = fcb_buf_block[x] /\ s.buffer = fcb_buffer[x]
      /\ x \in Fcbs /\ y \in Fcbs /\ f \in Files
  BY HeldGoing DEF OpenFcbs
<1>2. i \in Offsets /\ q \in InBlock /\ p = i * BLOCK_SZ + q
  BY PositionBlock
<1>3. /\ OthersKept(s, t, f)
      /\ \A b \in Offsets, c \in InBlock :
            s.inode[b] # NoBlock =>
               \/ View(t, b)[c] = View(s, b)[c]
               \/ w /\ \E j \in 1 .. n : /\ b = (fcb_seek[x] + j - 1) \div BLOCK_SZ
                                         /\ c = (fcb_seek[x] + j - 1) % BLOCK_SZ
  BY <1>1 DEF Passed
<1>4. /\ disk_data' = t.data
      /\ fcb_inode' = [fcb_inode EXCEPT ![x] = t.inode]
      /\ fcb_buf_block' = [fcb_buf_block EXCEPT ![x] = t.block]
      /\ fcb_buffer' = [fcb_buffer EXCEPT ![x] = t.buffer]
  BY DEF Becomes
<1>5. /\ Seen(y, p) = (IF i = fcb_buf_block[y] THEN fcb_buffer[y][q]
                       ELSE disk_data[fcb_inode[y][i]][q])
      /\ Seen(y, p)' = (IF i = fcb_buf_block'[y] THEN fcb_buffer'[y][q]
                        ELSE disk_data'[fcb_inode'[y][i]][q])
  BY DEF Seen
<1> HIDE DEF s
<1>6. CASE y = x
  <2>1. /\ fcb_inode'[y] = t.inode /\ fcb_buf_block'[y] = t.block /\ fcb_buffer'[y] = t.buffer
    BY <1>1, <1>4, <1>6 DEF TypeOK
  <2> HIDE DEF i, q
  <2>2. Seen(y, p) = View(s, i)[q] /\ Seen(y, p)' = View(t, i)[q]
    BY <1>1, <1>4, <1>5, <1>6, <2>1 DEF View
  <2>3. s.inode[i] # NoBlock
    BY <1>1, <1>6 DEF i
  <2>4. ASSUME NEW j \in 1 .. n, i = (fcb_seek[x] + j - 1) \div BLOCK_SZ,
               q = (fcb_seek[x] + j - 1) % BLOCK_SZ
        PROVE  p >= fcb_seek[x] /\ p < fcb_seek[x] + n
    <3> DEFINE z == fcb_seek[x] + j - 1
    <3>1. fcb_seek[x] \in Nat /\ MAX_FILE_SZ \in Nat
      <4>1. MAX_FILE_SZ \in Nat
        BY FileConstants
      <4>2. fcb_seek[x] \in 0 .. MAX_FILE_SZ
        BY <1>1 DEF TypeOK
      <4>3. QED BY <4>1, <4>2
    <3>2. z \in 0 .. MAX_FILE_SZ - 1
      BY <3>1
    <3>3. z = (z \div BLOCK_SZ) * BLOCK_SZ + (z % BLOCK_SZ)
      BY <3>2, PositionBlock
    <3>4. z = p
      BY <1>2, <2>4, <3>3
    <3>5. QED BY <3>1, <3>4
  <2>5. QED BY <1>2, <1>3, <1>6, <2>2, <2>3, <2>4
<1>7. CASE y # x
  <2> DEFINE g == fcb_inode_offset[y]
  <2>1. g \in Files /\ g # f /\ fcb_inode[y] = disk_inode[g]
    BY <1>7 DEF Held, Sole, OpenFcbs
  <2>2. /\ fcb_inode'[y] = fcb_inode[y] /\ fcb_buf_block'[y] = fcb_buf_block[y]
        /\ fcb_buffer'[y] = fcb_buffer[y]
    BY <1>1, <1>4, <1>7 DEF TypeOK
  <2>3. disk_data'[disk_inode[g][i]] = disk_data[disk_inode[g][i]]
    <3> HIDE DEF i, g, f
    <3>1. disk_inode[g][i] # NoBlock
      BY <2>1 DEF i
    <3>2. QED BY <1>1, <1>2, <1>3, <1>4, <2>1, <3>1 DEF OthersKept
  <2>4. QED BY <1>5, <2>1, <2>2, <2>3
<1>8. QED BY <1>6, <1>7

\* Files but that of x are on the disk as they were.
LEMMA LoopStored ==
    ASSUME TypeOK, Held, Apart(disk_inode, bitmap), NEW x \in OpenFcbs,
           NEW n, NEW t, NEW w,
           Passed(State(x), t, n, fcb_inode_offset[x], fcb_seek[x], w), Becomes(x, t),
           NEW g \in Files, g # fcb_inode_offset[x],
           NEW p \in 0 .. MAX_FILE_SZ - 1, disk_inode[g][p \div BLOCK_SZ] # NoBlock
    PROVE  disk_inode'[g] = disk_inode[g] /\ Stored(g, p)' = Stored(g, p)
<1> DEFINE f == fcb_inode_offset[x]
           s == State(x)
           i == p \div BLOCK_SZ
           q == p % BLOCK_SZ
<1>1. s.inodes = disk_inode /\ s.bitmap = bitmap /\ s.data = disk_data
  BY HeldGoing
<1>2. i \in Offsets
  BY PositionBlock
<1>3. OthersKept(s, t, f) /\ Grown(s, t, f)
  BY <1>1 DEF Passed
<1>4. disk_data' = t.data /\ disk_inode' = t.inodes
  BY DEF Becomes
<1>5. Stored(g, p) = disk_data[disk_inode[g][i]][q]
      /\ Stored(g, p)' = disk_data'[disk_inode'[g][i]][q]
  BY DEF Stored
<1>6. disk_inode[g][i] # NoBlock
  BY DEF i
<1> HIDE DEF s, i, q, f
<1>7. g \in Files \ {f}
  BY DEF f
<1>8. disk_inode'[g] = disk_inode[g]
  BY <1>1, <1>3, <1>4, <1>7 DEF Grown
<1>9. disk_data'[disk_inode[g][i]] = disk_data[disk_inode[g][i]]
  BY <1>1, <1>2, <1>3, <1>4, <1>6, <1>7 DEF OthersKept
<1>10. QED BY <1>5, <1>8, <1>9

LEMMA LocalStep ==
    ASSUME FileInv, FcbListOK, kind = "data", MCNext PROVE WriteIsLocalStep
<1>1. TypeOK /\ InSize /\ Held /\ Apart(disk_inode, bitmap) /\ (Call \/ PowerCut)
  BY DEF FileInv, MCNext
<1> SUFFICES ASSUME NEW y \in OpenFcbs, y \in OpenFcbs',
                    fcb_inode_offset'[y] = fcb_inode_offset[y],
                    NEW p \in 0 .. fcb_file_sz[y] - 1,
                    fcb_inode[y][p \div BLOCK_SZ] # NoBlock
             PROVE  \/ p >= fcb_seek[y] /\ p < fcb_seek'[y] /\ fcb_mode[y] = "w"
                    \/ Seen(y, p)' = Seen(y, p)
  BY Zenon DEF WriteIsLocalStep
<1>2. p \in 0 .. MAX_FILE_SZ - 1 /\ y \in Fcbs
  <2>1. y \in Fcbs /\ MAX_FILE_SZ \in Nat
    BY FileConstants DEF OpenFcbs
  <2>2. fcb_file_sz[y] \in 0 .. MAX_FILE_SZ
    <3>1. PositionType
      BY <1>1 DEF TypeOK, PositionType
    <3>2. QED BY <1>1, <3>1, OpenPosition
  <2>3. QED BY <2>1, <2>2
<1>a. ASSUME /\ fcb_inode'[y] = fcb_inode[y] /\ fcb_buf_block'[y] = fcb_buf_block[y]
             /\ fcb_buffer'[y] = fcb_buffer[y] /\ disk_data' = disk_data
      PROVE  Seen(y, p)' = Seen(y, p)
  BY <1>a DEF Seen
<1>3. ASSUME NEW q, NEW f, NEW mode, FOpen(q, f, mode) PROVE Seen(y, p)' = Seen(y, p)
  <2>1. PICK x \in Fcbs : x = fcb_free_list
    BY <1>1, <1>3 DEF FOpen, TypeOK
  <2>2. fcb_link \in [Fcbs -> Fcbs \cup {Nil}]
    BY <1>1 DEF TypeOK
  <2>3. x \in Fcbs \ OpenFcbs
    BY <2>1, <2>2, FileConstants, ListPop DEF FcbListOK
  <2>4. fcb_alloc(x, f, mode) /\ disk_data' = disk_data
    BY <1>3, <2>1 DEF FOpen, diskVars
  <2>5. /\ fcb_inode'[y] = fcb_inode[y] /\ fcb_buf_block'[y] = fcb_buf_block[y]
        /\ fcb_buffer'[y] = fcb_buffer[y]
    BY <1>1, <1>2, <2>3, <2>4 DEF fcb_alloc, TypeOK
  <2>6. QED BY <1>a, <2>4, <2>5
<1>4. ASSUME NEW x, NEW n \in 0 .. MAX_FILE_SZ, FRead(x, n) PROVE Seen(y, p)' = Seen(y, p)
  <2> DEFINE left == Unsigned(fcb_file_sz[x] - fcb_seek[x])
             size == IF n < left THEN n ELSE left
             t    == Reading(x, size)[size]
  <2>1. x \in OpenFcbs /\ Becomes(x, t)
    BY <1>4 DEF FRead
  <2>2. /\ size \in Nat /\ fcb_seek[x] + size <= fcb_file_sz[x]
        /\ fcb_seek[x] + size <= MAX_FILE_SZ
    BY <1>1, <1>4, EntrySize
  <2> HIDE DEF size
  <2>3. Passed(State(x), t, size, fcb_inode_offset[x], fcb_seek[x], FALSE)
    BY <1>1, <2>1, <2>2, ReadPassed
  <2> HIDE DEF t
  <2>4. QED BY <1>1, <1>2, <2>1, <2>2, <2>3, LoopSeen
<1>5. ASSUME NEW x, NEW n \in 0 .. MAX_FILE_SZ, NEW v \in Bytes, FWrite(x, n, v)
      PROVE  \/ p >= fcb_seek[y] /\ p < fcb_seek'[y] /\ fcb_mode[y] = "w"
             \/ Seen(y, p)' = Seen(y, p)
  <2> DEFINE t == Writing(x, n, v)[n]
  <2>1. /\ x \in OpenFcbs /\ fcb_mode[x] = "w"
        /\ n \in Nat /\ fcb_seek[x] + n \in 0 .. MAX_FILE_SZ
        /\ Becomes(x, t) /\ fcb_seek' = [fcb_seek EXCEPT ![x] = fcb_seek[x] + n]
    BY <1>1, <1>5, WriteMoves
  <2>2. Passed(State(x), t, n, fcb_inode_offset[x], fcb_seek[x], TRUE)
    BY <1>1, <2>1, WritePassed
  <2>3. fcb_seek[x] + n <= MAX_FILE_SZ
    BY <2>1, FileConstants
  <2> HIDE DEF t
  <2>4. \/ Seen(y, p)' = Seen(y, p)
        \/ y = x /\ p >= fcb_seek[x] /\ p < fcb_seek[x] + n
    BY <1>1, <1>2, <2>1, <2>2, <2>3, LoopSeen
  <2>5. CASE y = x
    <3>1. fcb_seek'[y] = fcb_seek[x] + n
      BY <1>1, <1>2, <2>1, <2>5 DEF TypeOK
    <3>2. QED BY <2>1, <2>4, <2>5, <3>1
  <2>6. QED BY <2>4, <2>5
<1>6. ASSUME NEW x, NEW end, FSeek(x, end) PROVE Seen(y, p)' = Seen(y, p)
  BY <1>a, <1>6 DEF FSeek, diskVars, bufVars
<1>7. ASSUME NEW q, NEW x, FClose(q, x) PROVE Seen(y, p)' = Seen(y, p)
  BY <1>a, <1>7 DEF FClose, fcb_free, diskVars, bufVars
<1>8. ASSUME NEW q, NewProgram(q) PROVE Seen(y, p)' = Seen(y, p)
  BY <1>a, <1>8 DEF NewProgram, diskVars, bufVars
<1>9. CASE PowerCut
  <2>1. OpenFcbs' = {}
    BY <1>1, <1>9, StartTypes DEF PowerCut, TypeOK
  <2>2. QED BY <2>1
<1>10. QED BY <1>1, <1>3, <1>4, <1>5, <1>6, <1>7, <1>8, <1>9 DEF Call

LEMMA FilesStep ==
    ASSUME FileInv, kind = "data", MCNext PROVE FilesApartStep
<1>1. TypeOK /\ InSize /\ Held /\ Apart(disk_inode, bitmap) /\ (Call \/ PowerCut)
  BY DEF FileInv, MCNext
<1> SUFFICES ASSUME NEW g \in Files, NEW p \in 0 .. disk_size[g] - 1,
                    disk_inode[g][p \div BLOCK_SZ] # NoBlock,
                    \A x \in OpenOn(g) : fcb_seek'[x] = fcb_seek[x]
             PROVE  disk_inode'[g] = disk_inode[g] /\ Stored(g, p)' = Stored(g, p)
  BY Zenon DEF FilesApartStep
<1>2. p \in 0 .. MAX_FILE_SZ - 1
  <2>1. /\ disk_size[g] \in 0 .. SizeMod - 1 /\ disk_size[g] <= MAX_FILE_SZ
        /\ MAX_FILE_SZ \in Nat /\ SizeMod \in Nat
    BY <1>1, FileConstants, UnsignedSize DEF TypeOK, SizeType, InSize
  <2>2. QED BY <2>1
<1>a. ASSUME disk_inode' = disk_inode, disk_data' = disk_data
      PROVE  disk_inode'[g] = disk_inode[g] /\ Stored(g, p)' = Stored(g, p)
  BY <1>a DEF Stored
<1>b. ASSUME NEW x \in OpenFcbs, NEW n \in Nat, NEW t, NEW w,
             Passed(State(x), t, n, fcb_inode_offset[x], fcb_seek[x], w), Becomes(x, t),
             fcb_seek' = [fcb_seek EXCEPT ![x] = fcb_seek[x] + n],
             n = 0 => t = State(x)
      PROVE  disk_inode'[g] = disk_inode[g] /\ Stored(g, p)' = Stored(g, p)
  <2>1. x \in Fcbs /\ fcb_seek[x] \in 0 .. MAX_FILE_SZ /\ MAX_FILE_SZ \in Nat
    BY <1>1, FileConstants DEF OpenFcbs, TypeOK
  <2>2. CASE g = fcb_inode_offset[x]
    <3>1. x \in OpenOn(g)
      BY <2>1, <2>2 DEF OpenOn
    <3>2. fcb_seek'[x] = fcb_seek[x] /\ fcb_seek'[x] = fcb_seek[x] + n
      BY <1>1, <1>b, <2>1, <3>1 DEF TypeOK
    <3>3. n = 0
      BY <2>1, <3>2
    <3>4. disk_inode' = disk_inode /\ disk_data' = disk_data
      BY <1>1, <1>b, <3>3, HeldGoing DEF Becomes
    <3>5. QED BY <1>a, <3>4
  <2>3. CASE g # fcb_inode_offset[x]
    BY <1>1, <1>2, <1>b, <2>3, LoopStored
  <2>4. QED BY <2>2, <2>3
<1>3. ASSUME NEW q, NEW f, NEW mode, FOpen(q, f, mode)
      PROVE  disk_inode' = disk_inode /\ disk_data' = disk_data
  BY <1>3 DEF FOpen, diskVars
<1>4. ASSUME NEW x, NEW n \in 0 .. MAX_FILE_SZ, FRead(x, n)
      PROVE  disk_inode'[g] = disk_inode[g] /\ Stored(g, p)' = Stored(g, p)
  <2> DEFINE left == Unsigned(fcb_file_sz[x] - fcb_seek[x])
             size == IF n < left THEN n ELSE left
             t    == Reading(x, size)[size]
  <2>1. x \in OpenFcbs /\ Becomes(x, t)
        /\ fcb_seek' = [fcb_seek EXCEPT ![x] = fcb_seek[x] + size]
    BY <1>4 DEF FRead
  <2>2. /\ size \in Nat /\ fcb_seek[x] + size <= fcb_file_sz[x]
        /\ fcb_seek[x] + size <= MAX_FILE_SZ
    BY <1>1, <1>4, EntrySize
  <2> HIDE DEF size
  <2>3. Passed(State(x), t, size, fcb_inode_offset[x], fcb_seek[x], FALSE)
    BY <1>1, <2>1, <2>2, ReadPassed
  <2>4. Reading(x, size)[0] = State(x)
    BY <1>1, <2>1, <2>2, ReadLoops
  <2>5. size = 0 => t = State(x)
    BY <2>4
  <2> HIDE DEF t
  <2>6. QED BY <1>b, <2>1, <2>2, <2>3, <2>5
<1>5. ASSUME NEW x, NEW n \in 0 .. MAX_FILE_SZ, NEW v \in Bytes, FWrite(x, n, v)
      PROVE  disk_inode'[g] = disk_inode[g] /\ Stored(g, p)' = Stored(g, p)
  <2> DEFINE t == Writing(x, n, v)[n]
  <2>1. /\ x \in OpenFcbs /\ n \in Nat /\ fcb_seek[x] + n \in 0 .. MAX_FILE_SZ
        /\ Becomes(x, t) /\ fcb_seek' = [fcb_seek EXCEPT ![x] = fcb_seek[x] + n]
    BY <1>1, <1>5, WriteMoves
  <2>2. Passed(State(x), t, n, fcb_inode_offset[x], fcb_seek[x], TRUE)
    BY <1>1, <2>1, WritePassed
  <2>3. fcb_seek[x] + n <= MAX_FILE_SZ
    BY <2>1, FileConstants
  <2>4. Writing(x, n, v)[0] = State(x)
    BY <1>1, <2>1, <2>2, <2>3, WriteLoops
  <2>5. n = 0 => t = State(x)
    BY <2>4
  <2> HIDE DEF t
  <2>6. QED BY <1>b, <2>1, <2>2, <2>5
<1>6. ASSUME NEW x, NEW end, FSeek(x, end)
      PROVE  disk_inode' = disk_inode /\ disk_data' = disk_data
  BY <1>6 DEF FSeek, diskVars
<1>7. ASSUME NEW q, NEW x, FClose(q, x)
      PROVE  disk_inode' = disk_inode /\ disk_data' = disk_data
  BY <1>7 DEF FClose, diskVars
<1>8. ASSUME NEW q, NewProgram(q)
      PROVE  disk_inode' = disk_inode /\ disk_data' = disk_data
  BY <1>8 DEF NewProgram, diskVars
<1>9. CASE PowerCut
  BY <1>a, <1>9 DEF PowerCut, Start
<1>10. QED BY <1>1, <1>a, <1>3, <1>4, <1>5, <1>6, <1>7, <1>8, <1>9 DEF Call

LEMMA ListInv == MCSpec => []FcbListOK
<1>1. ASSUME MCInit PROVE ListType /\ FcbListOK
  <2>1. ListType
    BY <1>1, InitTypes DEF MCInit, TypeOK, ListType
  <2>2. /\ fcb_inode_offset = [x \in Fcbs |-> -1]
        /\ fcb_link = [x \in Fcbs |-> IF x = NFCB - 1 THEN Nil ELSE x + 1]
        /\ fcb_free_list = 0
    BY <1>1 DEF MCInit, Init
  <2>3. /\ {x \in Fcbs : fcb_inode_offset[x] \in Files} = {}
        /\ IsList(fcb_link, fcb_free_list, Fcbs)
    BY <2>2, StartList, Zenon
  <2>4. Fcbs \ OpenFcbs = Fcbs
    BY <2>3 DEF OpenFcbs
  <2>5. QED BY <2>1, <2>3, <2>4 DEF FcbListOK
<1>2. [MCNext]_mcvars => [Next]_vars
  BY DEF MCNext, Next, Forward, mcvars
<1>3. QED BY <1>1, <1>2, ListStep, PTL DEF MCSpec

\* While a file is open at most once: what its holder sees of it, in the buffer
\* or on the disk, changes only where the holder itself writes, however blocks
\* are switched, allotted and written back, by whatever calls on other files.
THEOREM WriteIsLocalOnceHolds == MCSpec => WriteIsLocalOnce
<1>1. FileInv /\ [MCNext]_mcvars => FileInv'
  BY FileStep
<1>2. ASSUME FileInv, FcbListOK, [MCNext]_mcvars PROVE [kind = "data" => WriteIsLocalStep]_mcvars
  BY <1>2, LocalStep
<1>3. QED BY FileInit, ListInv, <1>1, <1>2, PTL DEF MCSpec, WriteIsLocalOnce

\* Under the same condition: a file is on the disk as it was, inode and bytes,
\* unless a call moved a position in it.
THEOREM FilesApartOnceHolds == MCSpec => FilesApartOnce
<1>1. FileInv /\ [MCNext]_mcvars => FileInv'
  BY FileStep
<1>2. ASSUME FileInv, [MCNext]_mcvars PROVE [kind = "data" => FilesApartStep]_mcvars
  BY <1>2, FilesStep
<1>3. QED BY FileInit, <1>1, <1>2, PTL DEF MCSpec, FilesApartOnce
=============================================================================
