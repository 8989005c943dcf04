---------------------------- MODULE FatFsProofs ----------------------------
(***************************************************************************)
(* Theorems about FatFs, for every number of names, directory entries,     *)
(* descriptors and blocks, every block size and every bound on the calls.  *)
(***************************************************************************)
EXTENDS FatFs, FiniteSetTheorems, TLAPS

(* The bounds of Calls are there for TLC.  The library takes any offset    *)
(* and any count, and the lemmas below are about the steps it makes then.  *)
AnyCalls ==
  \/ \E name \in Names : fs_create(name) \/ fs_delete(name) \/ fs_open(name)
  \/ \E fd \in Fds : fs_close(fd)
  \/ \E fd \in Fds, offset \in Nat : fs_lseek(fd, offset)
  \/ \E fd \in Fds, count \in Nat : fs_read(fd, count) \/ fs_write(fd, count)
  \/ UmountFat

AnyNext == fs_mount \/ AnyCalls \/ Running \/ Crash

LEMMA CallsAreAnyCalls == Calls => AnyCalls
<1>1. 0..MaxSize \subseteq Nat /\ Counts \subseteq Nat
  BY BoundsAssumption
<1> QED
  BY <1>1 DEF Calls, AnyCalls

LEMMA NextIsAnyNext == [Next]_vars => [AnyNext]_vars
BY CallsAreAnyCalls DEF Next, AnyNext

(***************************************************************************)
(* Part 1: types.  TypeOK is inductive only together with what the locals  *)
(* of a call in progress look like.                                        *)
(***************************************************************************)
CallOK ==
  /\ call # Idle =>
       call.pc # "idle" /\ call.op # "none" /\ phase = "mounted" /\ IsOpen(call.fd)
  /\ call.pc = "hop" => call.hops > 0
  /\ call.block = FAT_EOC => call.op = "read" /\ call.pc # "hop"

Typed == TypeOK /\ CallOK

(* An index of a block is never mistaken for one of the marks.             *)
LEMMA BlocksFacts ==
  /\ 0 \in Blocks
  /\ Blocks \subseteq Nat
  /\ FAT_EOC \notin Blocks /\ NoBlock \notin Blocks /\ FAT_EOC # NoBlock /\ FAT_EOC # 0
BY GeometryAssumption DEF Blocks, FAT_EOC, NoBlock

(* The number of links get_block_of_offset follows is a number.            *)
LEMMA HopsFacts ==
  ASSUME NEW offset \in Nat
  PROVE  num_fat_blocks_to_traverse(offset) - 1 \in Nat
<1>1. offset \div BLOCK_SIZE \in Nat
  BY GeometryAssumption
<1> QED
  BY <1>1 DEF num_fat_blocks_to_traverse

LEMMA FrameFacts ==
  ASSUME NEW op \in {"read", "write"}, NEW fd \in Fds, NEW left \in Nat,
         NEW block \in Blocks \union {NoBlock}, NEW hops \in Nat
  PROVE  LET F == Frame(op, fd, left, block, hops) IN
         /\ F \in Frames
         /\ F.op = op /\ F.fd = fd /\ F.block = block /\ F.hops = hops
         /\ F.done = 0 /\ F.left = left
         /\ F.pc \in {"hop", "block", "return"}
         /\ F.pc = "hop" => hops > 0
         /\ F.pc = "return" => left = 0
BY BlocksFacts DEF Frame, Frames

LEMMA MovedFacts ==
  ASSUME Typed, call.pc = "block"
  PROVE  /\ Moved \in Nat /\ Moved <= call.left
         /\ call.done + Moved \in Nat /\ call.left - Moved \in Nat
<1>1. call.left \in Nat /\ call.fd \in Fds /\ call.done \in Nat
  BY DEF Typed, TypeOK, Frames
<1>2. open_files[call.fd].offset \in Nat
  BY <1>1 DEF Typed, TypeOK
<1>3. open_files[call.fd].offset % BLOCK_SIZE \in 0..(BLOCK_SIZE - 1)
  BY <1>2, GeometryAssumption
<1>4. offset_in_current_block \in 0..(BLOCK_SIZE - 1)
  BY <1>3, GeometryAssumption DEF offset_in_current_block
<1> QED
  BY <1>1, <1>4, GeometryAssumption DEF Moved, MinOf

(* Updates of the locals of a call keep their type.                        *)
LEMMA FrameUpdates ==
  ASSUME call \in Frames, NEW block \in Blocks \union {NoBlock, FAT_EOC},
         NEW hops \in Nat, NEW done \in Nat, NEW left \in Nat,
         NEW pc \in {"idle", "hop", "block", "return"}
  PROVE  /\ [call EXCEPT !.block = block, !.hops = hops, !.pc = pc] \in Frames
         /\ [call EXCEPT !.block = block, !.done = done, !.left = left] \in Frames
         /\ [call EXCEPT !.pc = pc] \in Frames
         /\ [call EXCEPT !.pc = pc, !.done = done, !.left = left] \in Frames
BY DEF Frames

(* The four things get_next_fat can do: nothing, for the block before the  *)
(* first one; follow a link; allocate and link; or fail on a full disk.    *)
LEMMA NextFatCases ==
  ASSUME fat \in FatArray, NEW b \in Blocks \union {NoBlock},
         NEW nxt \in Blocks \union {NoBlock}, get_next_fat(b, nxt)
  PROVE  \/ b = NoBlock /\ nxt = 0 /\ fat' = fat
         \/ b \in Blocks /\ fat[b] # FAT_EOC /\ nxt = fat[b] /\ fat' = fat
         \/ /\ b \in Blocks /\ fat[b] = FAT_EOC /\ nxt \in FreeBlocks
            /\ fat' = [fat EXCEPT ![nxt] = FAT_EOC, ![b] = nxt]
         \/ b \in Blocks /\ fat[b] = FAT_EOC /\ nxt = NoBlock /\ FreeBlocks = {} /\ fat' = fat
BY BlocksFacts DEF get_next_fat, get_fat_at_index, allocate_new_fat, IsFirst

LEMMA NextFatTyped ==
  ASSUME fat \in FatArray, NEW b \in Blocks \union {NoBlock},
         NEW nxt \in Blocks \union {NoBlock}, get_next_fat(b, nxt)
  PROVE  fat' \in FatArray
<1>1. FreeBlocks \subseteq Blocks
  BY DEF FreeBlocks
<1> QED
  BY <1>1, NextFatCases, BlocksFacts DEF FatArray

(* The four ways from the entry of a call to its first block.              *)
LEMMA EnterTyped ==
  ASSUME Typed, Ready, NEW op \in {"read", "write"}, NEW fd \in Fds, IsOpen(fd),
         NEW left \in Int, Enter(op, fd, left), UNCHANGED <<open_files, phase>>
  PROVE  fat' \in FatArray /\ root_dir' \in RootDir /\ call' \in Frames /\ CallOK'
<1> DEFINE i    == open_files[fd].index_in_rootdir
           hops == num_fat_blocks_to_traverse(open_files[fd].offset) - 1
<1>1. open_files[fd].offset \in Nat /\ i \in Slots
  BY DEF Typed, TypeOK
<1>2. hops \in Nat
  BY <1>1, HopsFacts
<1>3. fat \in FatArray /\ root_dir \in RootDir
  BY DEF Typed, TypeOK
<1>4. \A n \in Nat, blk \in Blocks \union {NoBlock}, h \in Nat :
        call' = Frame(op, fd, n, blk, h) => call' \in Frames /\ CallOK'
  <2> SUFFICES ASSUME NEW n \in Nat, NEW blk \in Blocks \union {NoBlock}, NEW h \in Nat,
                      call' = Frame(op, fd, n, blk, h)
               PROVE  call' \in Frames /\ CallOK'
    OBVIOUS
  <2> QED
    BY FrameFacts, BlocksFacts DEF CallOK, Ready, IsOpen
<1>5. CASE left <= 0
  BY <1>2, <1>3, <1>4, <1>5 DEF Enter
<1>6. CASE left > 0 /\ root_dir[i].data_index # FAT_EOC
  <2>1. root_dir[i].data_index \in Blocks
    BY <1>1, <1>3, <1>6 DEF RootDir
  <2> QED
    BY <1>2, <1>3, <1>4, <1>6, <2>1 DEF Enter
<1>7. CASE left > 0 /\ root_dir[i].data_index = FAT_EOC
  <2>1. CASE FreeBlocks = {}
    BY <1>2, <1>3, <1>4, <1>7, <2>1 DEF Enter, allocate_new_fat, IsFirst
  <2>2. CASE FreeBlocks # {}
    <3>1. PICK b \in Blocks :
            /\ fat' = [fat EXCEPT ![b] = FAT_EOC]
            /\ root_dir' = [root_dir EXCEPT ![i].data_index = b]
            /\ call' = Frame(op, fd, left, b, hops)
      <4>1. ~(left <= 0)
        BY <1>7
      <4> QED
        BY <1>7, <2>2, <4>1 DEF Enter
    <3> QED
      <4>1. fat' \in FatArray
        BY <1>3, <3>1 DEF FatArray
      <4>2. root_dir' \in RootDir
        <5> HIDE DEF i
        <5> QED
          BY <1>1, <1>3, <3>1 DEF RootDir
      <4> QED
        BY <1>2, <1>4, <1>7, <3>1, <4>1, <4>2
  <2> QED
    BY <2>1, <2>2
<1> QED
  BY <1>5, <1>6, <1>7

LEMMA InitTyped == Init => Typed
BY BlocksFacts, TableAssumption, NamesAssumption
   DEF Init, Formatted, Typed, TypeOK, CallOK, FatArray, RootDir, FreeEntry, NewFile,
       AllClosed, ClosedFile, Idle, Frames, Slots, Fds, NoBlock, FAT_EOC

LEMMA NextTyped == Typed /\ [AnyNext]_vars => Typed'
<1> SUFFICES ASSUME Typed, [AnyNext]_vars
             PROVE  Typed'
  OBVIOUS
<1> USE DEF Typed
<1>0. call \in Frames /\ call.fd \in Fds
  BY DEF TypeOK, Frames
<1>1. ASSUME NEW name \in Names, fs_create(name)
      PROVE  Typed'
  BY <1>1, BlocksFacts
     DEF fs_create, CreatesAt, TypeOK, CallOK, RootDir, NewFile, disk, IsOpen
<1>2. ASSUME NEW name \in Names, fs_delete(name)
      PROVE  Typed'
  BY <1>2, BlocksFacts, NamesAssumption
     DEF fs_delete, TypeOK, CallOK, RootDir, FreeEntry, NewFile, disk, IsOpen
<1>3. ASSUME NEW name \in Names, fs_open(name)
      PROVE  Typed'
  BY <1>3 DEF fs_open, TypeOK, CallOK, Ready, Idle, disk, IsOpen
<1>4. ASSUME NEW fd \in Fds, fs_close(fd)
      PROVE  Typed'
  BY <1>4, TableAssumption DEF fs_close, TypeOK, CallOK, Ready, ClosedFile, Slots, disk, IsOpen
<1>5. ASSUME NEW fd \in Fds, NEW offset \in Nat, fs_lseek(fd, offset)
      PROVE  Typed'
  <2> DEFINE i == open_files[fd].index_in_rootdir
  <2>1. offset \in Nat /\ i \in Slots
    BY BoundsAssumption DEF TypeOK
  <2>2. open_files' = [open_files EXCEPT ![fd].offset = offset]
    BY <1>5 DEF fs_lseek
  <2>3. root_dir' = root_dir \/ root_dir' = [root_dir EXCEPT ![i].size = @ + 1]
    BY <1>5 DEF fs_lseek
  <2>4. UNCHANGED <<fat, disk_fat, disk_root, phase, call>>
    BY <1>5 DEF fs_lseek, disk
  <2> HIDE DEF i
  <2>5. root_dir' \in RootDir
    <3>1. root_dir[i].size + 1 \in Nat
      BY <2>1 DEF TypeOK, RootDir
    <3>2. root_dir \in RootDir
      BY DEF TypeOK
    <3>3. CASE root_dir' = [root_dir EXCEPT ![i].size = @ + 1]
      <4>1. [root_dir[i] EXCEPT !.size = @ + 1]
              \in [filename : Names, size : Nat, data_index : Blocks \union {FAT_EOC}]
        BY <2>1, <3>1, <3>2 DEF RootDir
      <4> QED
        BY <3>2, <3>3, <4>1 DEF RootDir
    <3> QED
      BY <2>3, <3>2, <3>3
  <2>6. open_files' \in [Fds -> [empty : BOOLEAN, index_in_rootdir : Slots, offset : Nat]]
    BY <2>1, <2>2 DEF TypeOK
  <2>7. \A g \in Fds : open_files'[g].empty = open_files[g].empty
    BY <2>2 DEF TypeOK
  <2> QED
    BY <2>4, <2>5, <2>6, <2>7 DEF TypeOK, CallOK, IsOpen
<1>6. ASSUME NEW fd \in Fds, NEW count \in Nat, fs_read(fd, count)
      PROVE  Typed'
  <2>1. MinOf(count, fs_stat(fd) - open_files[fd].offset) \in Int
    BY BoundsAssumption DEF MinOf, fs_stat, TypeOK, RootDir
  <2> QED
    BY <1>6, <2>1, EnterTyped DEF fs_read, TypeOK, disk
<1>7. ASSUME NEW fd \in Fds, NEW count \in Nat, fs_write(fd, count)
      PROVE  Typed'
  <2>1. count \in Int
    BY BoundsAssumption
  <2> QED
    BY <1>7, <2>1, EnterTyped DEF fs_write, TypeOK, disk
<1>8. CASE UmountFat
  BY <1>8 DEF UmountFat, TypeOK, CallOK, Ready, memory
<1>9. CASE Hop
  <2>1. PICK nxt \in Blocks \union {NoBlock} :
          /\ get_next_fat(call.block, nxt)
          /\ call' = [call EXCEPT !.block = nxt, !.hops = @ - 1,
                                  !.pc = IF call.hops = 1 THEN "block" ELSE "hop"]
    BY <1>9 DEF Hop
  <2>2. call.block \in Blocks \union {NoBlock} /\ call.hops \in Nat /\ call.hops > 0
    BY <1>0, <1>9 DEF Hop, CallOK, Frames
  <2>3. fat' \in FatArray
    BY <2>1, <2>2, NextFatTyped DEF TypeOK
  <2>4. call' \in Frames
    <3>1. call.hops - 1 \in Nat
      BY <2>2
    <3> QED
      BY <1>0, <2>1, <3>1, FrameUpdates DEF Frames
  <2>5. CallOK'
    BY <1>0, <1>9, <2>1, <2>2, BlocksFacts DEF CallOK, Hop, Frames, Idle, IsOpen
  <2> QED
    BY <1>9, <2>3, <2>4, <2>5 DEF Hop, TypeOK, disk
<1>10. CASE WriteBlock
  <2>1. call.done + Moved \in Nat /\ call.left - Moved \in Nat
    BY <1>10, MovedFacts DEF WriteBlock
  <2>2. fat' \in FatArray /\ call' \in Frames /\ CallOK'
    <3>1. CASE call.block = NoBlock
      BY <1>0, <1>10, <3>1, BlocksFacts
         DEF WriteBlock, TypeOK, CallOK, Frames, Idle, IsOpen
    <3>2. CASE call.block # NoBlock /\ call.left = Moved
      <4>1. call' = [call EXCEPT !.pc = "return", !.done = @ + Moved, !.left = 0]
        BY <1>10, <3>2 DEF WriteBlock
      <4>2. call' \in Frames
        BY <1>0, <2>1, <4>1, FrameUpdates
      <4> QED
        BY <1>0, <1>10, <3>2, <4>1, <4>2 DEF WriteBlock, TypeOK, CallOK, Frames, Idle, IsOpen
    <3>3. CASE call.block # NoBlock /\ call.left # Moved
      <4>1. PICK nxt \in Blocks \union {NoBlock} :
              /\ get_next_fat(call.block, nxt)
              /\ call' = [call EXCEPT !.block = nxt, !.done = @ + Moved, !.left = @ - Moved]
        BY <1>10, <3>3 DEF WriteBlock
      <4>2. call.block \in Blocks
        BY <1>0, <1>10, <3>3 DEF WriteBlock, CallOK, Frames
      <4>3. fat' \in FatArray
        BY <4>1, <4>2, NextFatTyped DEF TypeOK
      <4>4. call' \in Frames
        BY <1>0, <2>1, <4>1, FrameUpdates
      <4>5. CallOK'
        <5>1. /\ call'.pc = "block" /\ call'.op = "write" /\ call'.fd = call.fd
              /\ call'.block # FAT_EOC
          BY <1>0, <1>10, <4>1, BlocksFacts DEF WriteBlock, Frames
        <5>2. UNCHANGED <<open_files, phase>> /\ call # Idle
          <6>1. UNCHANGED <<open_files, phase>> /\ call.pc = "block"
            BY <1>10 DEF WriteBlock
          <6> QED
            BY <6>1 DEF Idle
        <5> QED
          BY <1>0, <5>1, <5>2 DEF CallOK, IsOpen
      <4> QED
        BY <4>3, <4>4, <4>5
    <3> QED
      BY <3>1, <3>2, <3>3
  <2> QED
    BY <1>10, <2>2 DEF WriteBlock, TypeOK, disk
<1>11. CASE ReadBlock
  <2>1. call.done + Moved \in Nat /\ call.left - Moved \in Nat
    BY <1>11, MovedFacts DEF ReadBlock
  <2>2. call.block \in Blocks => get_fat_at_index(call.block) \in Blocks \union {FAT_EOC}
    BY BlocksFacts DEF get_fat_at_index, TypeOK, FatArray
  <2>3. call' \in Frames
    <3>1. CASE call.block \in {NoBlock, FAT_EOC}
      BY <1>0, <1>11, <3>1, FrameUpdates DEF ReadBlock
    <3>2. CASE call.block \notin {NoBlock, FAT_EOC} /\ call.left = Moved
      <4>1. PICK d \in Nat : call' = [call EXCEPT !.pc = "return", !.done = d, !.left = 0]
        BY <1>11, <2>1, <3>2 DEF ReadBlock
      <4> QED
        BY <1>0, <4>1, FrameUpdates
    <3>3. CASE call.block \notin {NoBlock, FAT_EOC} /\ call.left # Moved
      <4>1. get_fat_at_index(call.block) \in Blocks \union {FAT_EOC}
        BY <1>0, <2>2, <3>3 DEF Frames
      <4>2. PICK blk \in Blocks \union {FAT_EOC}, d \in Nat, l \in Nat :
              call' = [call EXCEPT !.block = blk, !.done = d, !.left = l]
        BY <1>11, <2>1, <3>3, <4>1 DEF ReadBlock
      <4> QED
        BY <1>0, <4>2, FrameUpdates
    <3> QED
      BY <3>1, <3>2, <3>3
  <2>4. CallOK'
    <3>1. call'.pc # "idle" /\ call'.pc # "hop" /\ call'.op = "read" /\ call'.fd = call.fd
      BY <1>0, <1>11 DEF ReadBlock, Frames
    <3> QED
      BY <1>0, <1>11, <3>1 DEF ReadBlock, CallOK, Idle, IsOpen, memory
  <2> QED
    BY <1>11, <2>3, <2>4 DEF ReadBlock, TypeOK, disk, memory
<1>12. CASE Return
  <2> DEFINE fd  == call.fd
             i   == open_files[fd].index_in_rootdir
             end == open_files[fd].offset + call.done
  <2>1. end \in Nat /\ i \in Slots
    BY <1>0 DEF TypeOK, Frames
  <2>2. open_files' = [open_files EXCEPT ![fd].offset = end] /\ call' = Idle
    BY <1>12 DEF Return
  <2>3. root_dir' \in RootDir
    <3>1. root_dir' = root_dir \/ root_dir' = [root_dir EXCEPT ![i].size = end]
      BY <1>12 DEF Return
    <3> HIDE DEF i, end
    <3> QED
      BY <2>1, <3>1 DEF TypeOK, RootDir
  <2>4. call' \in Frames
    BY <2>2, TableAssumption, BlocksFacts DEF Idle, Frames, Fds
  <2> QED
    <3>1. UNCHANGED <<fat, disk_fat, disk_root, phase>>
      BY <1>12 DEF Return, disk
    <3>2. CallOK'
      BY <2>2, BlocksFacts DEF CallOK, Idle
    <3>3. open_files' \in [Fds -> [empty : BOOLEAN, index_in_rootdir : Slots, offset : Nat]]
      <4> HIDE DEF fd, end
      <4> QED
        BY <2>1, <2>2 DEF TypeOK
    <3> QED
      BY <2>3, <2>4, <3>1, <3>2, <3>3 DEF TypeOK
<1>13. CASE UmountRoot
  BY <1>13 DEF UmountRoot, TypeOK, CallOK, memory
<1>14. CASE fs_mount \/ Crash
  <2>1. call' = Idle
    BY <1>14 DEF fs_mount, Crash, CallOK, disk
  <2>2. call' \in Frames /\ CallOK'
    BY <2>1, TableAssumption, BlocksFacts DEF Idle, Frames, Fds, CallOK
  <2>3. open_files' \in [Fds -> [empty : BOOLEAN, index_in_rootdir : Slots, offset : Nat]]
    <3>1. open_files' = AllClosed
      BY <1>14 DEF fs_mount, Crash
    <3>2. 0 \in Slots
      BY TableAssumption DEF Slots
    <3> QED
      BY <3>1, <3>2 DEF AllClosed, ClosedFile
  <2> QED
    BY <1>14, <2>2, <2>3 DEF fs_mount, Crash, TypeOK, disk
<1>15. CASE UNCHANGED vars
  BY <1>15 DEF vars, TypeOK, CallOK, IsOpen
<1> QED
  BY <1>1, <1>2, <1>3, <1>4, <1>5, <1>6, <1>7, <1>8, <1>9, <1>10, <1>11, <1>12, <1>13,
     <1>14, <1>15 DEF AnyNext, AnyCalls, Running

(* Every variable always has a value of its type: no link leaves the disk, *)
(* no count or offset becomes negative (all actions of FatFs).             *)
THEOREM TypeCorrect == Spec => []TypeOK
<1>1. Typed => TypeOK
  BY DEF Typed
<1> QED
  BY <1>1, InitTyped, NextTyped, NextIsAnyNext, PTL DEF Spec
-----------------------------------------------------------------------------
(***************************************************************************)
(* Part 2: the directory and the table of open files.  The names in the    *)
(* directory of the disk are distinct too, since fs_mount reads them back. *)
(***************************************************************************)
Directory ==
  /\ OpenFilesExist
  /\ UniqueNames
  /\ \A i, j \in Files(disk_root) : disk_root[i].filename = disk_root[j].filename => i = j

LEMMA NamesKeepFiles ==
  ASSUME NEW r, NEW q, \A i \in Slots : q[i].filename = r[i].filename
  PROVE  Files(q) = Files(r) /\ \A i \in Files(r) : i \in Slots /\ q[i].filename = r[i].filename
BY DEF Files, no_file_exists

(* Directory needs of an action that creates, deletes or opens nothing only *)
(* that it leaves the names and the entries of the open descriptors alone. *)
LEMMA SameNamesKeepDirectory ==
  ASSUME Directory, UNCHANGED disk_root,
         \A i \in Slots : root_dir'[i].filename = root_dir[i].filename,
         \A fd \in Fds : ~open_files'[fd].empty =>
           ~open_files[fd].empty
             /\ open_files'[fd].index_in_rootdir = open_files[fd].index_in_rootdir
  PROVE  Directory'
<1>1. Files(root_dir') = Files(root_dir)
  BY NamesKeepFiles
<1>2. OpenFilesExist'
  BY <1>1 DEF Directory, OpenFilesExist, IsOpen
<1>3. UniqueNames'
  BY <1>1, NamesKeepFiles DEF Directory, UniqueNames
<1> QED
  BY <1>2, <1>3 DEF Directory

(* Entering fs_read or fs_write changes at most data_index of one entry.   *)
LEMMA EnterKeepsNames ==
  ASSUME Typed, NEW op, NEW fd \in Fds, NEW left \in Int, Enter(op, fd, left)
  PROVE  \A i \in Slots : /\ root_dir'[i].filename = root_dir[i].filename
                          /\ root_dir'[i].size = root_dir[i].size
<1> DEFINE e == open_files[fd].index_in_rootdir
<1>1. e \in Slots /\ root_dir \in RootDir
  BY DEF Typed, TypeOK
<1>2. root_dir' = root_dir \/ \E b \in Blocks : root_dir' = [root_dir EXCEPT ![e].data_index = b]
  BY DEF Enter
<1> HIDE DEF e
<1> QED
  BY <1>1, <1>2 DEF RootDir

LEMMA InitDirectory == Init => Directory
BY DEF Init, Formatted, FreeEntry, NewFile, AllClosed, ClosedFile, Directory,
       OpenFilesExist, UniqueNames, Files, no_file_exists, IsOpen

LEMMA NextDirectory == Typed /\ Directory /\ [AnyNext]_vars => Directory'
<1> SUFFICES ASSUME Typed, Directory, [AnyNext]_vars
             PROVE  Directory'
  OBVIOUS
<1>0. root_dir \in RootDir /\ open_files \in [Fds -> [empty : BOOLEAN,
        index_in_rootdir : Slots, offset : Nat]] /\ call.fd \in Fds
  BY DEF Typed, TypeOK, Frames
<1>1. ASSUME NEW name \in Names, fs_create(name)
      PROVE  Directory'
  <2>1. PICK i \in Slots : /\ CreatesAt(name, i)
                           /\ root_dir' = [root_dir EXCEPT ![i] = NewFile(name)]
    BY <1>1 DEF fs_create
  <2>2. i \notin Files(root_dir) /\ \A j \in Files(root_dir) : root_dir[j].filename # name
    BY <2>1 DEF CreatesAt, IsFirst, EmptyEntries, MatchingEntries, has_same_filename, Files
  <2>3. UNCHANGED <<open_files, disk_root>>
    BY <1>1 DEF fs_create, disk
  <2>4. \A j \in Slots : j # i => root_dir'[j] = root_dir[j]
    BY <1>0, <2>1 DEF RootDir
  <2>5. root_dir'[i].filename = name
    BY <1>0, <2>1 DEF RootDir, NewFile
  <2>6. Files(root_dir) \subseteq Files(root_dir')
        /\ Files(root_dir') \subseteq Files(root_dir) \union {i}
    BY <2>2, <2>4 DEF Files, no_file_exists
  <2>7. OpenFilesExist'
    BY <2>3, <2>6 DEF Directory, OpenFilesExist, IsOpen
  <2>8. UniqueNames'
    BY <2>2, <2>4, <2>5, <2>6 DEF Directory, UniqueNames, Files
  <2> QED
    BY <2>3, <2>7, <2>8 DEF Directory
<1>2. ASSUME NEW name \in Names, fs_delete(name)
      PROVE  Directory'
  <2>1. PICK i \in Slots : /\ IsFirst(i, MatchingEntries(name))
                           /\ root_dir' = [root_dir EXCEPT ![i] = FreeEntry]
    BY <1>2 DEF fs_delete
  <2>2. UNCHANGED <<open_files, disk_root>>
    BY <1>2 DEF fs_delete, disk
  <2>3. \A j \in Slots : j # i => root_dir'[j] = root_dir[j]
    BY <1>0, <2>1 DEF RootDir
  <2>4. root_dir'[i].filename = NoName
    BY <1>0, <2>1 DEF RootDir, FreeEntry, NewFile
  <2>5. Files(root_dir') = Files(root_dir) \ {i}
    BY <2>3, <2>4 DEF Files, no_file_exists
  <2>6. \A fd \in Fds : IsOpen(fd) => open_files[fd].index_in_rootdir # i
    BY <1>2, <2>1 DEF fs_delete, open_table_has_filename, IsFirst, MatchingEntries,
                      IsOpen, EmptyFds
  <2>7. OpenFilesExist'
    BY <2>2, <2>5, <2>6 DEF Directory, OpenFilesExist, IsOpen
  <2>8. UniqueNames'
    BY <2>3, <2>5 DEF Directory, UniqueNames, Files
  <2> QED
    BY <2>2, <2>7, <2>8 DEF Directory
<1>3. ASSUME NEW name \in Names, fs_open(name)
      PROVE  Directory'
  <2>1. PICK i \in Slots, fd \in Fds :
          /\ IsFirst(i, MatchingEntries(name))
          /\ open_files' = [open_files EXCEPT
               ![fd] = [empty |-> FALSE, index_in_rootdir |-> i, offset |-> 0]]
    BY <1>3 DEF fs_open
  <2>2. i \in Files(root_dir)
    BY <2>1 DEF IsFirst, MatchingEntries, has_same_filename, Files
  <2>3. UNCHANGED <<root_dir, disk_root>>
    BY <1>3 DEF fs_open, disk
  <2> QED
    BY <1>0, <2>1, <2>2, <2>3 DEF Directory, OpenFilesExist, UniqueNames, IsOpen
<1>4. ASSUME NEW fd \in Fds, fs_close(fd)
      PROVE  Directory'
  BY <1>0, <1>4, SameNamesKeepDirectory DEF fs_close, ClosedFile, disk
<1>5. ASSUME NEW fd \in Fds, NEW offset \in Nat, fs_lseek(fd, offset)
      PROVE  Directory'
  <2> DEFINE e == open_files[fd].index_in_rootdir
  <2>1. root_dir' = root_dir \/ root_dir' = [root_dir EXCEPT ![e].size = @ + 1]
    BY <1>5 DEF fs_lseek
  <2>2. open_files' = [open_files EXCEPT ![fd].offset = offset] /\ UNCHANGED disk_root
    BY <1>5 DEF fs_lseek, disk
  <2>3. e \in Slots
    BY <1>0
  <2> HIDE DEF e
  <2>4. \A i \in Slots : root_dir'[i].filename = root_dir[i].filename
    BY <1>0, <2>1, <2>3 DEF RootDir
  <2> QED
    BY <1>0, <2>2, <2>4, SameNamesKeepDirectory
<1>6. ASSUME NEW fd \in Fds, NEW count \in Nat, fs_read(fd, count) \/ fs_write(fd, count)
      PROVE  Directory'
  <2>1. MinOf(count, fs_stat(fd) - open_files[fd].offset) \in Int /\ count \in Int
    BY <1>0, BoundsAssumption DEF MinOf, fs_stat, RootDir
  <2>2. \A i \in Slots : root_dir'[i].filename = root_dir[i].filename
    BY <1>6, <2>1, EnterKeepsNames DEF fs_read, fs_write
  <2>3. UNCHANGED <<open_files, disk_root>>
    BY <1>6 DEF fs_read, fs_write, disk
  <2> QED
    BY <2>2, <2>3, SameNamesKeepDirectory
<1>7. CASE Return
  <2> DEFINE e   == open_files[call.fd].index_in_rootdir
             end == open_files[call.fd].offset + call.done
  <2>1. root_dir' = root_dir \/ root_dir' = [root_dir EXCEPT ![e].size = end]
    BY <1>7 DEF Return
  <2>2. open_files' = [open_files EXCEPT ![call.fd].offset = end] /\ UNCHANGED disk_root
    BY <1>7 DEF Return, disk
  <2>3. e \in Slots
    BY <1>0
  <2> HIDE DEF e, end
  <2>4. \A i \in Slots : root_dir'[i].filename = root_dir[i].filename
    BY <1>0, <2>1, <2>3 DEF RootDir
  <2> QED
    BY <1>0, <2>2, <2>4, SameNamesKeepDirectory
<1>8. CASE UmountFat \/ Hop \/ WriteBlock \/ ReadBlock \/ UNCHANGED vars
  <2>1. UNCHANGED <<root_dir, open_files, disk_root>>
    BY <1>8 DEF UmountFat, Hop, WriteBlock, ReadBlock, memory, disk, vars
  <2> QED
    BY <2>1, SameNamesKeepDirectory
<1>9. CASE UmountRoot
  BY <1>9 DEF UmountRoot, memory, Directory, OpenFilesExist, UniqueNames, IsOpen
<1>10. CASE fs_mount \/ Crash
  <2>1. open_files' = AllClosed /\ root_dir' = disk_root /\ disk_root' = disk_root
    BY <1>10 DEF fs_mount, Crash, disk
  <2>2. OpenFilesExist'
    BY <2>1 DEF AllClosed, ClosedFile, OpenFilesExist, IsOpen
  <2> QED
    BY <2>1, <2>2 DEF Directory, UniqueNames
<1> QED
  BY <1>1, <1>2, <1>3, <1>4, <1>5, <1>6, <1>7, <1>8, <1>9, <1>10 DEF AnyNext, AnyCalls, Running

(* An open descriptor always has its file: an entry is not given away      *)
(* under it, through whatever sequence of calls (fs_delete, fs_create).    *)
THEOREM DescriptorsHaveFiles == Spec => []OpenFilesExist
<1>1. Directory => OpenFilesExist
  BY DEF Directory
<1> QED
  BY <1>1, InitTyped, NextTyped, InitDirectory, NextDirectory, NextIsAnyNext, PTL DEF Spec

(* Names stay unique, also in a directory read back from the disk after a  *)
(* crash between the two writes of fs_umount.                              *)
THEOREM NamesStayUnique == Spec => []UniqueNames
<1>1. Directory => UniqueNames
  BY DEF Directory
<1> QED
  BY <1>1, InitTyped, NextTyped, InitDirectory, NextDirectory, NextIsAnyNext, PTL DEF Spec
-----------------------------------------------------------------------------
(***************************************************************************)
(* Part 3: chains.  WellFormed speaks of whole chains; these two formulas  *)
(* say the same of single links and heads.  No two links have the same     *)
(* target, and no link leads to the head of a file.                        *)
(***************************************************************************)
LinksOK(f) ==
  /\ f[0] = FAT_EOC
  /\ \A x \in Blocks : f[x] \notin {0, FAT_EOC} => f[f[x]] # 0
  /\ \A x, y \in Blocks : f[x] = f[y] /\ f[x] \notin {0, FAT_EOC} => x = y

HeadsOK(f, r) ==
  \A i \in Files(r) : r[i].data_index # FAT_EOC =>
    /\ r[i].data_index # 0 /\ f[r[i].data_index] # 0
    /\ \A x \in Blocks : f[x] # r[i].data_index
    /\ \A j \in Files(r) : r[j].data_index = r[i].data_index => j = i

(* What is allocated stays allocated and what is linked stays linked.      *)
Grows(f, g) ==
  \A x \in Blocks : f[x] # 0 => g[x] # 0 /\ (f[x] # FAT_EOC => g[x] = f[x])

(* A chain holds its head, is closed under links, and lies in every set    *)
(* that does so too.                                                       *)
LEMMA ChainFacts ==
  ASSUME NEW f \in FatArray, NEW h \in Blocks
  PROVE  /\ FileBlocks(f, h) \subseteq Blocks
         /\ h \in FileBlocks(f, h)
         /\ LinkClosed(f, FileBlocks(f, h))
         /\ \A S \in SUBSET Blocks : h \in S /\ LinkClosed(f, S) => FileBlocks(f, h) \subseteq S
<1>1. h # FAT_EOC
  BY BlocksFacts
<1>2. FileBlocks(f, h) = {b \in Blocks :
         \A S \in SUBSET Blocks : h \in S /\ LinkClosed(f, S) => b \in S}
  BY <1>1 DEF FileBlocks
<1>3. \A b \in Blocks : f[b] \notin {0, FAT_EOC} => f[b] \in Blocks
  BY DEF FatArray
<1>4. LinkClosed(f, FileBlocks(f, h))
  BY <1>2, <1>3 DEF LinkClosed
<1> QED
  BY <1>2, <1>4

(* Two chains with different heads to which nothing links do not meet:     *)
(* what the second has outside the first would be all of it.               *)
LEMMA ChainsDoNotMeet ==
  ASSUME NEW f \in FatArray, LinksOK(f), NEW h \in Blocks, NEW k \in Blocks, h # k,
         \A x \in Blocks : f[x] # h /\ f[x] # k
  PROVE  FileBlocks(f, h) \cap FileBlocks(f, k) = {}
<1> DEFINE R == FileBlocks(f, h)
           Q == FileBlocks(f, k)
           T == Q \ R
<1>1. /\ R \subseteq Blocks /\ h \in R /\ LinkClosed(f, R)
      /\ \A S \in SUBSET Blocks : h \in S /\ LinkClosed(f, S) => R \subseteq S
      /\ Q \subseteq Blocks /\ k \in Q /\ LinkClosed(f, Q)
      /\ \A S \in SUBSET Blocks : k \in S /\ LinkClosed(f, S) => Q \subseteq S
  BY ChainFacts
<1> HIDE DEF R, Q
<1>2. k \notin R
  <2>1. LinkClosed(f, Blocks \ {k}) /\ h \in Blocks \ {k} /\ Blocks \ {k} \in SUBSET Blocks
    BY DEF LinkClosed, FatArray
  <2> QED
    BY <1>1, <2>1
<1>3. ASSUME NEW x \in T, f[x] \notin {0, FAT_EOC}, f[x] \in R
      PROVE  FALSE
  <2>1. x \in Blocks /\ x \notin R /\ f[x] # h
    BY <1>1
  <2>2. LinkClosed(f, R \ {f[x]})
    BY <1>1, <1>3, <2>1 DEF LinkClosed, LinksOK
  <2> QED
    BY <1>1, <1>3, <2>1, <2>2
<1>4. LinkClosed(f, T)
  BY <1>1, <1>3 DEF LinkClosed
<1>5. T \in SUBSET Blocks /\ k \in T
  BY <1>1, <1>2
<1>6. Q \subseteq T
  BY <1>1, <1>4, <1>5
<1> QED
  BY <1>6 DEF Q, R

(* Links and heads in order make a well-formed file system.                *)
LEMMA LocalImpliesWellFormed ==
  ASSUME NEW f \in FatArray, NEW r \in RootDir, LinksOK(f), HeadsOK(f, r)
  PROVE  WellFormed(f, r)
<1>1. \A i \in Files(r) : r[i].data_index \in Blocks \union {FAT_EOC}
  BY DEF Files, RootDir
<1>2. ASSUME NEW i \in Files(r), NEW b \in Blocks, b \in FileBlocks(f, r[i].data_index)
      PROVE  /\ b # 0 /\ f[b] # 0
             /\ \A j \in Files(r) : b \in FileBlocks(f, r[j].data_index) => j = i
  <2> DEFINE h == r[i].data_index
  <2>1. h \in Blocks /\ h # FAT_EOC
    BY <1>1, <1>2 DEF FileBlocks
  <2>2. h # 0 /\ f[h] # 0 /\ \A x \in Blocks : f[x] # h
    BY <2>1 DEF HeadsOK
  <2> DEFINE A == {x \in Blocks : x # 0 /\ f[x] # 0}
  <2>3. A \in SUBSET Blocks /\ h \in A
    BY <2>1, <2>2
  <2>4. LinkClosed(f, A)
    BY DEF LinkClosed, LinksOK, FatArray
  <2>5. b \in A
    BY <1>2, <2>1, <2>3, <2>4, ChainFacts
  <2>6. ASSUME NEW j \in Files(r), b \in FileBlocks(f, r[j].data_index), j # i
        PROVE  FALSE
    <3>1. r[j].data_index \in Blocks /\ r[j].data_index # FAT_EOC
      BY <1>1, <2>6 DEF FileBlocks
    <3>2. r[j].data_index # h /\ \A x \in Blocks : f[x] # r[j].data_index
      BY <2>1, <2>6, <3>1 DEF HeadsOK
    <3> QED
      BY <1>2, <2>1, <2>2, <2>6, <3>1, <3>2, ChainsDoNotMeet
  <2> QED
    BY <2>5, <2>6
<1> QED
  BY <1>2 DEF WellFormed, LinksOK
-----------------------------------------------------------------------------
(***************************************************************************)
(* Part 4: the FAT in memory, the FAT on the disk, and both directories.   *)
(* The FAT in memory serves the directory of the disk as well as that of   *)
(* memory: so fs_umount may write it first.                                *)
(***************************************************************************)
Storage ==
  /\ LinksOK(fat) /\ LinksOK(disk_fat)
  /\ HeadsOK(fat, root_dir) /\ HeadsOK(disk_fat, disk_root) /\ HeadsOK(fat, disk_root)
  /\ Grows(disk_fat, fat)
  /\ phase = "umounting" => disk_fat = fat
  /\ phase = "unmounted" => disk_fat = fat /\ disk_root = root_dir

(* The block a call has in hand is allocated; it has none, or the reserved *)
(* block 0 after none, only once the disk is full.                         *)
InHand ==
  /\ call.block \in Blocks => fat[call.block] # 0
  /\ call.pc \in {"hop", "block"} /\ call.block \in {NoBlock, 0} => FreeBlocks = {}
  /\ call.pc = "return" /\ call.op = "write" /\ call.left > 0 => FreeBlocks = {}

(* Marking a free block keeps every promise and breaks no link or head.    *)
LEMMA MarkFreeBlock ==
  ASSUME NEW f \in FatArray, LinksOK(f), NEW b \in Blocks \ {0}, f[b] = 0,
         NEW g \in FatArray, g = [f EXCEPT ![b] = FAT_EOC]
  PROVE  /\ LinksOK(g) /\ Grows(f, g)
         /\ \A r \in RootDir : HeadsOK(f, r) => HeadsOK(g, r)
         /\ \A x \in Blocks : g[x] # b
<1>1. g[b] = FAT_EOC /\ \A x \in Blocks : x # b => g[x] = f[x]
  BY DEF FatArray
<1>2. \A x \in Blocks : f[x] # b
  BY BlocksFacts DEF LinksOK
<1>3. LinksOK(g)
  BY <1>1, <1>2, BlocksFacts DEF LinksOK, FatArray
<1>4. Grows(f, g)
  BY <1>1 DEF Grows
<1>5. ASSUME NEW r \in RootDir, HeadsOK(f, r)
      PROVE  HeadsOK(g, r)
  <2>1. \A i \in Files(r) : r[i].data_index \in Blocks \union {FAT_EOC}
    BY DEF Files, RootDir
  <2> QED
    BY <1>1, <1>5, <2>1, BlocksFacts DEF HeadsOK
<1>6. \A x \in Blocks : g[x] # b
  BY <1>1, <1>2, BlocksFacts
<1> QED
  BY <1>3, <1>4, <1>5, <1>6

(* So does linking it behind the last block of a chain.                    *)
LEMMA LinkFreeBlock ==
  ASSUME NEW f \in FatArray, LinksOK(f), NEW n \in Blocks \ {0}, f[n] = 0,
         NEW b \in Blocks \ {0}, f[b] = FAT_EOC,
         NEW g \in FatArray, g[n] = FAT_EOC, g[b] = n,
         \A x \in Blocks \ {b, n} : g[x] = f[x]
  PROVE  /\ LinksOK(g) /\ Grows(f, g)
         /\ \A r \in RootDir : HeadsOK(f, r) => HeadsOK(g, r)
<1>1. n # b /\ \A x \in Blocks : x = n \/ x = b \/ g[x] = f[x]
  BY BlocksFacts
<1>2. \A x \in Blocks : f[x] # n
  BY BlocksFacts DEF LinksOK
<1>3. LinksOK(g)
  <2>1. g[0] = FAT_EOC
    BY <1>1, BlocksFacts DEF LinksOK
  <2>2. \A x \in Blocks : f[x] \in Blocks \union {FAT_EOC}
    BY DEF FatArray
  <2>3. \A x \in Blocks : f[x] # 0 => g[x] # 0
    BY <1>1, BlocksFacts
  <2>4. ASSUME NEW x \in Blocks, g[x] \notin {0, FAT_EOC}
        PROVE  g[g[x]] # 0
    <3>1. CASE x = b
      BY <3>1, BlocksFacts
    <3>2. CASE x # b
      <4>1. g[x] = f[x] /\ f[x] \in Blocks
        BY <1>1, <2>2, <2>4, <3>2
      <4>2. f[f[x]] # 0
        BY <2>4, <4>1 DEF LinksOK
      <4> QED
        BY <2>3, <4>1, <4>2
    <3> QED
      BY <3>1, <3>2
  <2>5. ASSUME NEW x \in Blocks, NEW y \in Blocks, g[x] = g[y], g[x] \notin {0, FAT_EOC}
        PROVE  x = y
    BY <1>1, <1>2, <2>5 DEF LinksOK
  <2> QED
    BY <2>1, <2>4, <2>5 DEF LinksOK
<1>4. Grows(f, g)
  BY <1>1 DEF Grows
<1>5. ASSUME NEW r \in RootDir, HeadsOK(f, r)
      PROVE  HeadsOK(g, r)
  <2>1. \A i \in Files(r) : r[i].data_index \in Blocks \union {FAT_EOC}
    BY DEF Files, RootDir
  <2>2. \A i \in Files(r) : r[i].data_index # FAT_EOC => r[i].data_index # n
    BY <1>5 DEF HeadsOK
  <2>3. ASSUME NEW i \in Files(r), r[i].data_index # FAT_EOC
        PROVE  /\ g[r[i].data_index] # 0
               /\ \A x \in Blocks : g[x] # r[i].data_index
    <3> DEFINE h == r[i].data_index
    <3>1. h \in Blocks /\ h # n /\ f[h] # 0 /\ \A x \in Blocks : f[x] # h
      BY <1>5, <2>1, <2>2, <2>3 DEF HeadsOK
    <3> HIDE DEF h
    <3>2. g[h] # 0
      BY <1>1, <3>1, BlocksFacts
    <3>3. \A x \in Blocks : g[x] # h
      BY <1>1, <3>1, BlocksFacts
    <3> QED
      BY <3>2, <3>3 DEF h
  <2> QED
    BY <1>5, <2>3 DEF HeadsOK
<1> QED
  BY <1>3, <1>4, <1>5, BlocksFacts

LEMMA GrowsTransitive ==
  ASSUME NEW f, NEW g, NEW k, Grows(f, g), Grows(g, k)
  PROVE  Grows(f, k)
BY DEF Grows

(* get_next_fat, whatever it does, and the block it returns.               *)
LEMMA NextFatKeepsStorage ==
  ASSUME Typed, Storage, NEW b \in Blocks \union {NoBlock},
         NEW nxt \in Blocks \union {NoBlock}, get_next_fat(b, nxt),
         b \in Blocks => fat[b] # 0, b \in {NoBlock, 0} => FreeBlocks = {},
         UNCHANGED <<root_dir, disk_fat, disk_root, phase>>, phase = "mounted"
  PROVE  /\ Storage'
         /\ nxt \in Blocks => fat'[nxt] # 0
         /\ nxt \in {NoBlock, 0} => FreeBlocks' = {}
<1>0. fat \in FatArray /\ root_dir \in RootDir /\ disk_root \in RootDir
  BY DEF Typed, TypeOK
<1>1. CASE b = NoBlock /\ nxt = 0 /\ fat' = fat
  BY <1>1, BlocksFacts DEF Storage, FreeBlocks, LinksOK
<1>2. CASE b \in Blocks /\ fat[b] # FAT_EOC /\ nxt = fat[b] /\ fat' = fat
  BY <1>0, <1>2, BlocksFacts DEF Storage, LinksOK, FatArray
<1>3. CASE /\ b \in Blocks /\ fat[b] = FAT_EOC /\ nxt \in FreeBlocks
           /\ fat' = [fat EXCEPT ![nxt] = FAT_EOC, ![b] = nxt]
  <2>1. b # 0 /\ nxt \in Blocks \ {0} /\ fat[nxt] = 0
    BY <1>3 DEF FreeBlocks
  <2>2. fat' \in FatArray
    BY <1>0, NextFatTyped
  <2>3. /\ LinksOK(fat') /\ Grows(fat, fat') /\ fat'[nxt] # 0
        /\ \A r \in RootDir : HeadsOK(fat, r) => HeadsOK(fat', r)
    <3>1. LinksOK(fat) /\ b \in Blocks \ {0}
      BY <1>3, <2>1 DEF Storage
    <3>2. fat'[nxt] = FAT_EOC /\ fat'[b] = nxt /\ \A x \in Blocks \ {b, nxt} : fat'[x] = fat[x]
      BY <1>0, <1>3, <2>1, BlocksFacts DEF FatArray
    <3>3. fat'[nxt] # 0
      BY <3>2, BlocksFacts
    <3>4. fat \in FatArray /\ fat[b] = FAT_EOC
      BY <1>0, <1>3
    <3> QED
      BY <2>1, <2>2, <3>1, <3>2, <3>3, <3>4, LinkFreeBlock
  <2> QED
    BY <1>0, <2>1, <2>3, GrowsTransitive, BlocksFacts DEF Storage
<1>4. CASE b \in Blocks /\ fat[b] = FAT_EOC /\ nxt = NoBlock /\ FreeBlocks = {} /\ fat' = fat
  BY <1>4, BlocksFacts DEF Storage, FreeBlocks
<1> QED
  BY <1>0, <1>1, <1>2, <1>3, <1>4, NextFatCases

(* The entry of fs_read or fs_write: the head of an empty file is a free   *)
(* block, so it is neither linked to nor the head of another file.         *)
LEMMA EnterKeepsStorage ==
  ASSUME Typed, Directory, Storage, Ready, NEW op \in {"read", "write"}, NEW fd \in Fds, IsOpen(fd),
         NEW left \in Int, Enter(op, fd, left),
         UNCHANGED <<open_files, disk_fat, disk_root, phase>>
  PROVE  Storage' /\ InHand'
<1> DEFINE i    == open_files[fd].index_in_rootdir
           head == root_dir[i].data_index
           hops == num_fat_blocks_to_traverse(open_files[fd].offset) - 1
<1>0. /\ fat \in FatArray /\ root_dir \in RootDir /\ disk_root \in RootDir
      /\ open_files[fd].offset \in Nat /\ i \in Slots /\ phase = "mounted"
  BY DEF Typed, TypeOK, Ready
<1>1. hops \in Nat
  BY <1>0, HopsFacts
<1>2. CASE left <= 0
  <2>1. call' = Frame(op, fd, 0, NoBlock, 0) /\ fat' = fat /\ root_dir' = root_dir
    BY <1>2 DEF Enter
  <2>2. call'.pc = "return" /\ call'.left = 0 /\ call'.block = NoBlock
    BY <2>1 DEF Frame
  <2> QED
    BY <2>1, <2>2, BlocksFacts DEF Storage, InHand
<1>3. CASE left > 0 /\ head # FAT_EOC
  <2>1. call' = Frame(op, fd, left, head, hops) /\ fat' = fat /\ root_dir' = root_dir
    <3>1. ~(left <= 0)
      BY <1>3
    <3> QED
      BY <1>3, <3>1 DEF Enter
  <2>2. head \in Blocks
    BY <1>0, <1>3 DEF RootDir
  <2>3. call'.pc # "return" /\ call'.block = head
    <3> HIDE DEF head, hops
    <3> QED
      BY <1>1, <1>3, <2>1, <2>2, FrameFacts
  <2>4. i \in Files(root_dir)
    BY DEF Directory, OpenFilesExist
  <2>5. head # 0 /\ fat[head] # 0
    BY <1>3, <2>4 DEF Storage, HeadsOK
  <2> HIDE DEF head
  <2>6. InHand'
    BY <2>1, <2>2, <2>3, <2>5, BlocksFacts DEF InHand
  <2> QED
    BY <2>1, <2>6 DEF Storage
<1>4. CASE left > 0 /\ head = FAT_EOC /\ FreeBlocks = {}
  <2>1. call' = Frame(op, fd, left, NoBlock, 0) /\ fat' = fat /\ root_dir' = root_dir
    <3>1. ~(left <= 0) /\ \A b \in Blocks : ~allocate_new_fat(b)
      BY <1>4 DEF allocate_new_fat, IsFirst
    <3> QED
      BY <1>4, <3>1 DEF Enter
  <2>2. call'.block = NoBlock /\ FreeBlocks' = {}
    BY <1>4, <2>1 DEF Frame, FreeBlocks
  <2> QED
    BY <2>1, <2>2, BlocksFacts DEF Storage, InHand
<1>5. CASE left > 0 /\ head = FAT_EOC /\ FreeBlocks # {}
  <2>1. PICK b \in Blocks :
          /\ allocate_new_fat(b)
          /\ fat' = [fat EXCEPT ![b] = FAT_EOC]
          /\ root_dir' = [root_dir EXCEPT ![i].data_index = b]
          /\ call' = Frame(op, fd, left, b, hops)
    <3>1. ~(left <= 0)
      BY <1>5
    <3> QED
      BY <1>5, <3>1 DEF Enter
  <2>2. b \in Blocks \ {0} /\ fat[b] = 0
    BY <2>1 DEF allocate_new_fat, IsFirst, FreeBlocks
  <2>3. fat' \in FatArray
    BY <1>0, <2>1 DEF FatArray
  <2>4. /\ LinksOK(fat') /\ Grows(fat, fat')
        /\ \A r \in RootDir : HeadsOK(fat, r) => HeadsOK(fat', r)
        /\ \A x \in Blocks : fat'[x] # b
    BY <1>0, <2>1, <2>2, <2>3, MarkFreeBlock DEF Storage
  <2>5. /\ root_dir'[i].data_index = b
        /\ \A j \in Slots : root_dir'[j].filename = root_dir[j].filename
        /\ \A j \in Slots \ {i} : root_dir'[j].data_index = root_dir[j].data_index
    <3> HIDE DEF i
    <3> QED
      BY <1>0, <2>1 DEF RootDir
  <2>6. fat'[b] = FAT_EOC
    BY <1>0, <2>1 DEF FatArray
  <2>7. HeadsOK(fat', root_dir')
    <3>1. Files(root_dir') = Files(root_dir) /\ Files(root_dir) \subseteq Slots
      BY <2>5, NamesKeepFiles DEF Files
    <3>2. HeadsOK(fat', root_dir)
      BY <1>0, <2>4 DEF Storage
    <3>3. \A j \in Files(root_dir) : root_dir[j].data_index # b
      BY <2>2, BlocksFacts DEF Storage, HeadsOK
    <3> HIDE DEF i, head
    <3>4. ASSUME NEW j \in Files(root_dir'), root_dir'[j].data_index # FAT_EOC
          PROVE  /\ root_dir'[j].data_index # 0 /\ fat'[root_dir'[j].data_index] # 0
                 /\ \A x \in Blocks : fat'[x] # root_dir'[j].data_index
                 /\ \A k \in Files(root_dir') :
                      root_dir'[k].data_index = root_dir'[j].data_index => k = j
      <4>1. CASE j = i
        BY <2>2, <2>4, <2>5, <2>6, <3>1, <3>3, <4>1, BlocksFacts
      <4>2. CASE j # i
        BY <2>5, <3>1, <3>2, <3>3, <3>4, <4>2 DEF HeadsOK
      <4> QED
        BY <4>1, <4>2
    <3> QED
      BY <3>4 DEF HeadsOK
  <2>8. Storage'
    BY <1>0, <2>4, <2>7, GrowsTransitive DEF Storage
  <2>9. call'.pc # "return" /\ call'.block = b
    <3> HIDE DEF hops
    <3> QED
      BY <1>1, <1>5, <2>1, FrameFacts
  <2> QED
    BY <2>2, <2>6, <2>8, <2>9, BlocksFacts DEF InHand
<1> QED
  BY <1>2, <1>3, <1>4, <1>5

LEMMA InitStorage == Init => Storage /\ InHand
<1> SUFFICES ASSUME Init
             PROVE  Storage /\ InHand
  OBVIOUS
<1>1. /\ fat = [b \in Blocks |-> IF b = 0 THEN FAT_EOC ELSE 0] /\ disk_fat = fat
      /\ disk_root = root_dir
      /\ Files(root_dir) = {}
      /\ call = Idle
  BY DEF Init, Formatted, Files, no_file_exists, FreeEntry, NewFile
<1>2. LinksOK(fat)
  BY <1>1, BlocksFacts DEF LinksOK
<1>3. HeadsOK(fat, root_dir)
  BY <1>1 DEF HeadsOK
<1>4. Grows(fat, fat)
  BY DEF Grows
<1> QED
  BY <1>1, <1>2, <1>3, <1>4, BlocksFacts DEF Storage, InHand, Idle

LEMMA NextStorage ==
  Typed /\ Directory /\ Storage /\ InHand /\ [AnyNext]_vars => Storage' /\ InHand'
<1> SUFFICES ASSUME Typed, Directory, Storage, InHand, [AnyNext]_vars
             PROVE  Storage' /\ InHand'
  OBVIOUS
<1>0. /\ root_dir \in RootDir /\ disk_root \in RootDir /\ fat \in FatArray
      /\ open_files \in [Fds -> [empty : BOOLEAN, index_in_rootdir : Slots, offset : Nat]]
      /\ call \in Frames
  BY DEF Typed, TypeOK
<1>1. ASSUME NEW name \in Names, fs_create(name)
      PROVE  Storage' /\ InHand'
  <2>1. PICK i \in Slots : root_dir' = [root_dir EXCEPT ![i] = NewFile(name)]
    BY <1>1 DEF fs_create
  <2>2. phase = "mounted" /\ UNCHANGED <<fat, disk_fat, disk_root, phase, call>>
    BY <1>1 DEF fs_create, CreatesAt, Ready, disk
  <2>3. /\ root_dir'[i].data_index = FAT_EOC
        /\ \A j \in Slots \ {i} : root_dir'[j] = root_dir[j]
    BY <1>0, <2>1 DEF RootDir, NewFile
  <2>4. HeadsOK(fat, root_dir')
    BY <2>3 DEF Storage, HeadsOK, Files
  <2> QED
    BY <2>2, <2>4 DEF Storage, InHand, FreeBlocks
<1>2. ASSUME NEW name \in Names, fs_delete(name)
      PROVE  Storage' /\ InHand'
  <2>1. PICK i \in Slots : root_dir' = [root_dir EXCEPT ![i] = FreeEntry]
    BY <1>2 DEF fs_delete
  <2>2. phase = "mounted" /\ UNCHANGED <<fat, disk_fat, disk_root, phase, call>>
    BY <1>2 DEF fs_delete, Ready, disk
  <2>3. /\ root_dir'[i].data_index = FAT_EOC
        /\ \A j \in Slots \ {i} : root_dir'[j] = root_dir[j]
    BY <1>0, <2>1 DEF RootDir, FreeEntry, NewFile
  <2>4. HeadsOK(fat, root_dir')
    BY <2>3 DEF Storage, HeadsOK, Files
  <2> QED
    BY <2>2, <2>4 DEF Storage, InHand, FreeBlocks
<1>3. CASE \/ \E name \in Names : fs_open(name)
           \/ \E fd \in Fds : fs_close(fd)
           \/ UNCHANGED vars
  <2>1. UNCHANGED <<fat, root_dir, disk_fat, disk_root, phase, call>>
    BY <1>3 DEF fs_open, fs_close, disk, vars
  <2> QED
    BY <2>1 DEF Storage, InHand, FreeBlocks
<1>4. ASSUME NEW fd \in Fds, NEW offset \in Nat, fs_lseek(fd, offset)
      PROVE  Storage' /\ InHand'
  <2> DEFINE e == open_files[fd].index_in_rootdir
  <2>1. root_dir' = root_dir \/ root_dir' = [root_dir EXCEPT ![e].size = @ + 1]
    BY <1>4 DEF fs_lseek
  <2>2. e \in Slots /\ phase = "mounted" /\ UNCHANGED <<fat, disk_fat, disk_root, phase, call>>
    BY <1>0, <1>4 DEF fs_lseek, Ready, disk
  <2> HIDE DEF e
  <2>3. \A i \in Slots : /\ root_dir'[i].filename = root_dir[i].filename
                         /\ root_dir'[i].data_index = root_dir[i].data_index
    <3> DEFINE longer == root_dir[e].size + 1
    <3>1. root_dir' = root_dir \/ root_dir' = [root_dir EXCEPT ![e].size = longer]
      BY <2>1
    <3> HIDE DEF longer
    <3>2. e \in Slots /\ root_dir \in RootDir
      BY <1>0, <2>2
    <3>3. CASE root_dir' = [root_dir EXCEPT ![e].size = longer]
      <4>1. \A i \in Slots : root_dir'[i] =
              IF i = e THEN [root_dir[i] EXCEPT !.size = longer] ELSE root_dir[i]
        BY <3>2, <3>3 DEF RootDir
      <4> QED
        BY <3>2, <4>1 DEF RootDir
    <3> QED
      BY <3>1, <3>3
  <2>4. HeadsOK(fat, root_dir')
    BY <2>3, NamesKeepFiles DEF Storage, HeadsOK, Files
  <2> QED
    BY <2>2, <2>4 DEF Storage, InHand, FreeBlocks
<1>5. ASSUME NEW fd \in Fds, NEW count \in Nat, fs_read(fd, count) \/ fs_write(fd, count)
      PROVE  Storage' /\ InHand'
  <2>1. MinOf(count, fs_stat(fd) - open_files[fd].offset) \in Int /\ count \in Int
    BY <1>0, BoundsAssumption DEF MinOf, fs_stat, RootDir
  <2>2. UNCHANGED <<open_files, disk_fat, disk_root, phase>> /\ Ready /\ IsOpen(fd)
    BY <1>5 DEF fs_read, fs_write, disk
  <2>3. PICK op \in {"read", "write"}, left \in Int : Enter(op, fd, left)
    BY <1>5, <2>1 DEF fs_read, fs_write
  <2> QED
    BY <2>2, <2>3, EnterKeepsStorage
<1>6. CASE Hop
  <2>1. PICK nxt \in Blocks \union {NoBlock} :
          /\ get_next_fat(call.block, nxt)
          /\ call' = [call EXCEPT !.block = nxt, !.hops = @ - 1,
                                  !.pc = IF call.hops = 1 THEN "block" ELSE "hop"]
    BY <1>6 DEF Hop
  <2>2. call.pc = "hop" /\ UNCHANGED <<root_dir, disk_fat, disk_root, phase>>
    BY <1>6 DEF Hop, disk
  <2>3. phase = "mounted" /\ call.block \in Blocks \union {NoBlock}
    BY <1>0, <2>2 DEF Typed, CallOK, Idle, Frames
  <2>4. /\ call.block \in Blocks => fat[call.block] # 0
        /\ call.block \in {NoBlock, 0} => FreeBlocks = {}
    BY <2>2 DEF InHand
  <2>5. /\ Storage'
        /\ nxt \in Blocks => fat'[nxt] # 0
        /\ nxt \in {NoBlock, 0} => FreeBlocks' = {}
    BY <2>1, <2>2, <2>3, <2>4, NextFatKeepsStorage
  <2>6. call'.block = nxt /\ call'.pc # "return"
    BY <1>0, <2>1 DEF Frames
  <2> QED
    BY <2>5, <2>6 DEF InHand
<1>7. CASE WriteBlock
  <2>1. /\ call.pc = "block" /\ phase = "mounted"
        /\ UNCHANGED <<root_dir, disk_fat, disk_root, phase>>
    <3>1. call.pc = "block" /\ UNCHANGED <<root_dir, disk_fat, disk_root, phase>>
      BY <1>7 DEF WriteBlock, disk
    <3> QED
      BY <3>1 DEF Typed, CallOK, Idle
  <2>2. /\ call.block \in Blocks => fat[call.block] # 0
        /\ call.block \in {NoBlock, 0} => FreeBlocks = {}
    BY <2>1 DEF InHand
  <2>3. CASE call.block = NoBlock
    <3>1. call' = [call EXCEPT !.pc = "return"] /\ fat' = fat
      BY <1>7, <2>3 DEF WriteBlock
    <3>2. call'.block = NoBlock
      BY <1>0, <2>3, <3>1 DEF Frames
    <3>3. FreeBlocks' = {}
      BY <2>2, <2>3, <3>1 DEF FreeBlocks
    <3> QED
      BY <2>1, <3>1, <3>2, <3>3, BlocksFacts DEF Storage, InHand
  <2>4. CASE call.block # NoBlock /\ call.left = Moved
    <3>1. /\ fat' = fat
          /\ call' = [call EXCEPT !.pc = "return", !.done = @ + Moved, !.left = 0]
      BY <1>7, <2>4 DEF WriteBlock
    <3>2. call'.block = call.block /\ call'.pc = "return" /\ call'.left = 0
      BY <1>0, <3>1 DEF Frames
    <3> QED
      BY <2>1, <2>2, <3>1, <3>2 DEF Storage, InHand
  <2>5. CASE call.block # NoBlock /\ call.left # Moved
    <3>1. PICK nxt \in Blocks \union {NoBlock} :
            /\ get_next_fat(call.block, nxt)
            /\ call' = [call EXCEPT !.block = nxt, !.done = @ + Moved, !.left = @ - Moved]
      BY <1>7, <2>5 DEF WriteBlock
    <3>2. call.block \in Blocks
      BY <1>0, <1>7, <2>5 DEF WriteBlock, Typed, CallOK, Frames
    <3>3. /\ Storage'
          /\ nxt \in Blocks => fat'[nxt] # 0
          /\ nxt \in {NoBlock, 0} => FreeBlocks' = {}
      BY <2>1, <2>2, <3>1, <3>2, NextFatKeepsStorage
    <3>4. call'.block = nxt /\ call'.pc = "block"
      BY <1>0, <2>1, <3>1 DEF Frames
    <3> QED
      BY <3>3, <3>4 DEF InHand
  <2> QED
    BY <2>3, <2>4, <2>5
<1>8. CASE ReadBlock
  <2>1. /\ call.pc = "block" /\ call.op = "read"
        /\ UNCHANGED <<fat, root_dir, disk_fat, disk_root, phase>>
    BY <1>8 DEF ReadBlock, disk, memory
  <2>2. Storage'
    BY <2>1 DEF Storage
  <2>3. CASE call.block \in {NoBlock, FAT_EOC} \/ call.left = Moved
    <3>1. call'.pc = "return" /\ call'.block = call.block /\ call'.op = "read"
      BY <1>0, <1>8, <2>3 DEF ReadBlock, Frames
    <3> QED
      BY <2>1, <2>2, <3>1 DEF InHand
  <2>4. CASE call.block \notin {NoBlock, FAT_EOC} /\ call.left # Moved
    <3>1. call.block \in Blocks
      BY <1>0, <2>4 DEF Frames
    <3>2. call' = [call EXCEPT !.block = fat[call.block], !.done = @ + Moved,
                               !.left = @ - Moved]
      BY <1>8, <2>4 DEF ReadBlock, get_fat_at_index
    <3>3. call'.block = fat[call.block] /\ call'.op = "read"
      BY <1>0, <2>1, <3>2 DEF Frames
    <3>4. fat[call.block] # 0 /\ fat[call.block] \in Blocks \union {FAT_EOC}
      BY <1>0, <3>1 DEF InHand, FatArray
    <3>5. fat[call.block] \in Blocks => fat[fat[call.block]] # 0
      BY <3>1, <3>4, BlocksFacts DEF Storage, LinksOK
    <3> QED
      BY <2>1, <2>2, <3>3, <3>4, <3>5, BlocksFacts DEF InHand
  <2> QED
    BY <2>3, <2>4
<1>9. CASE Return
  <2> DEFINE e   == open_files[call.fd].index_in_rootdir
             end == open_files[call.fd].offset + call.done
  <2>1. root_dir' = root_dir \/ root_dir' = [root_dir EXCEPT ![e].size = end]
    BY <1>9 DEF Return
  <2>2. /\ call.pc = "return" /\ call' = Idle
        /\ UNCHANGED <<fat, disk_fat, disk_root, phase>>
    BY <1>9 DEF Return, disk
  <2>3. e \in Slots /\ phase = "mounted"
    BY <1>0, <2>2 DEF Typed, CallOK, Idle, Frames
  <2> HIDE DEF e, end
  <2>4. \A i \in Slots : /\ root_dir'[i].filename = root_dir[i].filename
                         /\ root_dir'[i].data_index = root_dir[i].data_index
    BY <1>0, <2>1, <2>3 DEF RootDir
  <2>5. HeadsOK(fat, root_dir')
    BY <2>4, NamesKeepFiles DEF Storage, HeadsOK, Files
  <2> QED
    BY <2>2, <2>3, <2>5, BlocksFacts DEF Storage, InHand, Idle
<1>10. CASE UmountFat
  <2>1. /\ disk_fat' = fat /\ phase' = "umounting"
        /\ UNCHANGED <<fat, root_dir, disk_root, call>>
    BY <1>10 DEF UmountFat, memory
  <2> QED
    BY <2>1 DEF Storage, InHand, Grows, FreeBlocks
<1>11. CASE UmountRoot
  <2>1. /\ phase = "umounting" /\ phase' = "unmounted" /\ disk_root' = root_dir
        /\ UNCHANGED <<fat, root_dir, disk_fat, call>>
    BY <1>11 DEF UmountRoot, memory
  <2> QED
    BY <2>1 DEF Storage, InHand, FreeBlocks
<1>12. CASE fs_mount \/ Crash
  <2>1. /\ fat' = disk_fat /\ root_dir' = disk_root
        /\ UNCHANGED <<disk_fat, disk_root>>
    BY <1>12 DEF fs_mount, Crash, disk
  <2>2. call' = Idle /\ phase' \in {"mounted", "unmounted"}
    BY <1>12 DEF fs_mount, Crash, Typed, CallOK
  <2> QED
    BY <2>1, <2>2, BlocksFacts DEF Storage, InHand, Idle, Grows
<1> QED
  BY <1>1, <1>2, <1>3, <1>4, <1>5, <1>6, <1>7, <1>8, <1>9, <1>10, <1>11, <1>12
     DEF AnyNext, AnyCalls, Running

(***************************************************************************)
(* The invariant of FatFs.                                                 *)
(***************************************************************************)
Inv == Typed /\ Directory /\ Storage /\ InHand

LEMMA InitInv == Init => Inv
BY InitTyped, InitDirectory, InitStorage DEF Inv

LEMMA NextInv == Inv /\ [AnyNext]_vars => Inv'
BY NextTyped, NextDirectory, NextStorage DEF Inv

LEMMA Invariance == Spec => []Inv
BY InitInv, NextInv, NextIsAnyNext, PTL DEF Spec

(* In memory files are disjoint chains of allocated blocks, whatever has   *)
(* been created, extended, deleted, lost in a crash and read back.         *)
THEOREM FilesStayDisjoint == Spec => []FilesDisjoint
<1>1. Inv => FilesDisjoint
  BY LocalImpliesWellFormed DEF Inv, Typed, TypeOK, Storage, FilesDisjoint
<1> QED
  BY <1>1, Invariance, PTL

(* Whenever the process dies, the disk holds a usable file system, though  *)
(* its FAT may be newer than its directory (fs_umount).                    *)
THEOREM CrashSafety == Spec => []DiskWellFormed
<1>1. Inv => DiskWellFormed
  BY LocalImpliesWellFormed DEF Inv, Typed, TypeOK, Storage, DiskWellFormed
<1> QED
  BY <1>1, Invariance, PTL

(* No call, no crash and no remount ever frees or relinks a block of the   *)
(* disk (fs_umount stores a FAT to which memory has only added).           *)
THEOREM DiskNeverShrinks == Spec => DiskOnlyGrows
<1>1. Inv /\ [Next]_vars =>
        [\A b \in Blocks : disk_fat[b] # 0 =>
           /\ disk_fat'[b] # 0
           /\ disk_fat[b] # FAT_EOC => disk_fat'[b] = disk_fat[b]]_vars
  <2> SUFFICES ASSUME Inv, Next
               PROVE  \A b \in Blocks : disk_fat[b] # 0 =>
                        /\ disk_fat'[b] # 0
                        /\ disk_fat[b] # FAT_EOC => disk_fat'[b] = disk_fat[b]
    BY DEF vars
  <2>1. disk_fat' = disk_fat \/ disk_fat' = fat
    BY DEF Next, Calls, Running, fs_create, fs_delete, fs_open, fs_close, fs_lseek, fs_read,
           fs_write, UmountFat, Hop, WriteBlock, ReadBlock, Return, UmountRoot, fs_mount,
           Crash, disk, memory
  <2> QED
    BY <2>1 DEF Inv, Storage, Grows
<1> QED
  BY <1>1, Invariance, PTL DEF Spec, DiskOnlyGrows

(* fs_write is cut short only when no block is free, as fs_info counts it. *)
THEOREM ShortWritesMeanFull == Spec => []ShortWriteMeansFull
<1>1. Inv => ShortWriteMeansFull
  <2> SUFFICES ASSUME Inv, call.pc = "return", call.op = "write", call.left > 0
               PROVE  free_fat_blocks = 0
    BY DEF ShortWriteMeansFull
  <2>1. FreeBlocks = {} /\ fat[0] # 0
    BY BlocksFacts DEF Inv, InHand, Storage, LinksOK
  <2>2. {b \in Blocks : fat[b] = 0} = {}
    BY <2>1 DEF FreeBlocks
  <2> QED
    BY <2>2, FS_EmptySet DEF free_fat_blocks
<1> QED
  BY <1>1, Invariance, PTL
-----------------------------------------------------------------------------
(***************************************************************************)
(* Part 5: offsets.  An fs_read in progress never asks for bytes beyond    *)
(* the end of its file; fs_write and fs_lseek take the end along.          *)
(***************************************************************************)
Seeking ==
  /\ OffsetsInFile
  /\ call.op = "read" =>
       open_files[call.fd].offset + call.done + call.left <= fs_stat(call.fd)

(* Every call leaves alone, or lengthens, the file of an open descriptor.  *)
LEMMA SizesKeepOffsets ==
  ASSUME Typed, Seeking,
         \A fd \in Fds : ~open_files'[fd].empty =>
           /\ ~open_files[fd].empty
           /\ open_files'[fd].index_in_rootdir = open_files[fd].index_in_rootdir
           /\ \/ /\ open_files'[fd].offset = open_files[fd].offset
                 /\ fs_stat(fd)' >= fs_stat(fd)
              \/ open_files'[fd].offset <= fs_stat(fd)',
         \A fd \in Fds : ~open_files'[fd].empty => fs_stat(fd)' \in Nat
  PROVE  OffsetsInFile'
<1>1. \A fd \in Fds : open_files[fd].offset \in Nat /\ fs_stat(fd) \in Nat
  BY DEF Typed, TypeOK, RootDir, fs_stat
<1> QED
  BY <1>1 DEF Seeking, OffsetsInFile, IsOpen

LEMMA EnterFrame ==
  ASSUME NEW op, NEW fd, NEW left \in Int, Enter(op, fd, left)
  PROVE  /\ call'.op = op /\ call'.fd = fd /\ call'.done = 0
         /\ call'.left = 0 \/ call'.left = left
<1>1. CASE left <= 0
  <2>1. call' = Frame(op, fd, 0, NoBlock, 0)
    BY <1>1 DEF Enter
  <2> QED
    BY <2>1 DEF Frame
<1>2. CASE ~(left <= 0)
  <2> DEFINE head == root_dir[open_files[fd].index_in_rootdir].data_index
             hops == num_fat_blocks_to_traverse(open_files[fd].offset) - 1
  <2>1. \/ call' = Frame(op, fd, left, head, hops)
        \/ \E b \in Blocks : call' = Frame(op, fd, left, b, hops)
        \/ call' = Frame(op, fd, left, NoBlock, 0)
    BY <1>2 DEF Enter
  <2> QED
    BY <2>1 DEF Frame
<1> QED
  BY <1>1, <1>2

LEMMA InitSeeking == Init => Seeking
BY DEF Init, AllClosed, ClosedFile, Idle, Seeking, OffsetsInFile, IsOpen

LEMMA NextSeeking == Typed /\ Directory /\ Seeking /\ Typed' /\ [AnyNext]_vars => Seeking'
<1> SUFFICES ASSUME Typed, Directory, Seeking, Typed', [AnyNext]_vars
             PROVE  Seeking'
  OBVIOUS
<1>0. /\ root_dir \in RootDir /\ call \in Frames /\ call.fd \in Fds
      /\ open_files \in [Fds -> [empty : BOOLEAN, index_in_rootdir : Slots, offset : Nat]]
      /\ call.done \in Nat /\ call.left \in Nat
      /\ \A i \in Slots : root_dir[i].size \in Nat /\ root_dir'[i].size \in Nat
      /\ \A fd \in Fds : /\ open_files[fd].index_in_rootdir \in Slots
                         /\ open_files[fd].offset \in Nat
                         /\ open_files'[fd].index_in_rootdir \in Slots
                         /\ open_files'[fd].offset \in Nat
  BY DEF Typed, TypeOK, Frames, RootDir
<1>1. ASSUME NEW name \in Names, fs_create(name) \/ fs_delete(name)
      PROVE  Seeking'
  <2>1. UNCHANGED <<open_files, call>> /\ call = Idle
    BY <1>1 DEF fs_create, fs_delete, CreatesAt, Ready
  <2>2. PICK i \in Slots, entry \in {NewFile(name), FreeEntry} :
          /\ root_dir' = [root_dir EXCEPT ![i] = entry]
          /\ \A fd \in Fds : IsOpen(fd) => open_files[fd].index_in_rootdir # i
    <3>1. CASE fs_create(name)
      <4>1. PICK i \in Slots : /\ CreatesAt(name, i)
                               /\ root_dir' = [root_dir EXCEPT ![i] = NewFile(name)]
        BY <3>1 DEF fs_create
      <4>2. i \notin Files(root_dir)
        BY <4>1 DEF CreatesAt, IsFirst, EmptyEntries, Files
      <4> QED
        BY <4>1, <4>2 DEF Directory, OpenFilesExist
    <3>2. CASE fs_delete(name)
      <4>1. PICK i \in Slots : /\ IsFirst(i, MatchingEntries(name))
                               /\ root_dir' = [root_dir EXCEPT ![i] = FreeEntry]
        BY <3>2 DEF fs_delete
      <4>2. \A fd \in Fds : IsOpen(fd) => open_files[fd].index_in_rootdir # i
        BY <3>2, <4>1 DEF fs_delete, open_table_has_filename, IsFirst, MatchingEntries,
                          IsOpen, EmptyFds
      <4> QED
        BY <4>1, <4>2
    <3> QED
      BY <1>1, <3>1, <3>2
  <2>3. \A j \in Slots \ {i} : root_dir'[j] = root_dir[j]
    BY <1>0, <2>2 DEF RootDir
  <2>4. OffsetsInFile'
    BY <1>0, <2>1, <2>2, <2>3 DEF Seeking, OffsetsInFile, IsOpen, fs_stat
  <2> QED
    BY <2>1, <2>4 DEF Seeking, Idle
<1>2. ASSUME NEW name \in Names, fs_open(name)
      PROVE  Seeking'
  <2>1. PICK i \in Slots, fd \in Fds : open_files' = [open_files EXCEPT
               ![fd] = [empty |-> FALSE, index_in_rootdir |-> i, offset |-> 0]]
    BY <1>2 DEF fs_open
  <2>2. UNCHANGED <<root_dir, call>> /\ call = Idle
    BY <1>2 DEF fs_open, Ready
  <2>3. open_files'[fd].offset = 0 /\ \A g \in Fds \ {fd} : open_files'[g] = open_files[g]
    BY <1>0, <2>1
  <2>4. OffsetsInFile'
    BY <1>0, <2>2, <2>3 DEF Seeking, OffsetsInFile, IsOpen, fs_stat
  <2> QED
    BY <2>2, <2>4 DEF Seeking, Idle
<1>3. ASSUME NEW fd \in Fds, fs_close(fd)
      PROVE  Seeking'
  <2>1. UNCHANGED <<root_dir, call>> /\ call = Idle
    BY <1>3 DEF fs_close, Ready
  <2>2. open_files'[fd].empty /\ \A g \in Fds \ {fd} : open_files'[g] = open_files[g]
    BY <1>0, <1>3 DEF fs_close, ClosedFile
  <2>3. OffsetsInFile'
    BY <1>0, <2>1, <2>2 DEF Seeking, OffsetsInFile, IsOpen, fs_stat
  <2> QED
    BY <2>1, <2>3 DEF Seeking, Idle
<1>4. ASSUME NEW fd \in Fds, NEW offset \in Nat, fs_lseek(fd, offset)
      PROVE  Seeking'
  <2> DEFINE e == open_files[fd].index_in_rootdir
             longer == root_dir[e].size + 1
  <2>1. UNCHANGED call /\ call = Idle
    BY <1>4 DEF fs_lseek, Ready
  <2>2. e \in Slots /\ offset \in Nat /\ longer \in Nat /\ longer > root_dir[e].size
    BY <1>0, BoundsAssumption
  <2>3. \/ root_dir' = root_dir /\ offset < root_dir[e].size
        \/ root_dir' = [root_dir EXCEPT ![e].size = longer] /\ offset = root_dir[e].size
    BY <1>4 DEF fs_lseek
  <2>4. /\ open_files'[fd].offset = offset
        /\ \A g \in Fds \ {fd} : open_files'[g] = open_files[g]
        /\ \A g \in Fds : /\ open_files'[g].empty = open_files[g].empty
                          /\ open_files'[g].index_in_rootdir = open_files[g].index_in_rootdir
    BY <1>0, <1>4 DEF fs_lseek
  <2> HIDE DEF longer, e
  <2>5. \A i \in Slots : root_dir'[i].size = root_dir[i].size
                           \/ (i = e /\ root_dir'[i].size = longer)
    BY <1>0, <2>2, <2>3 DEF RootDir
  <2>6. offset <= root_dir'[e].size
    <3>1. CASE root_dir' = root_dir
      BY <1>0, <2>2, <2>3, <2>5, <3>1
    <3>2. CASE offset = root_dir[e].size
      BY <1>0, <2>2, <2>5, <3>2
    <3> QED
      BY <2>3, <3>1, <3>2
  <2>7. \A i \in Slots : root_dir'[i].size >= root_dir[i].size
    BY <1>0, <2>2, <2>5
  <2>8. \A g \in Fds : fs_stat(g)' \in Nat /\ fs_stat(g)' >= fs_stat(g)
    BY <1>0, <2>4, <2>7 DEF fs_stat
  <2>9. open_files'[fd].offset <= fs_stat(fd)'
    BY <2>4, <2>6 DEF fs_stat, e
  <2>10. OffsetsInFile'
    BY <2>4, <2>8, <2>9, SizesKeepOffsets
  <2> QED
    BY <2>1, <2>10 DEF Seeking, Idle
<1>5. ASSUME NEW fd \in Fds, NEW count \in Nat, fs_read(fd, count) \/ fs_write(fd, count)
      PROVE  Seeking'
  <2> DEFINE rest == fs_stat(fd) - open_files[fd].offset
  <2>1. /\ MinOf(count, rest) \in Int /\ count \in Int /\ rest \in Int
        /\ MinOf(count, rest) <= rest
    BY <1>0, BoundsAssumption DEF MinOf, fs_stat
  <2>2. UNCHANGED open_files /\ IsOpen(fd)
    BY <1>5 DEF fs_read, fs_write
  <2>3. \A i \in Slots : root_dir'[i].size = root_dir[i].size
    BY <1>5, <2>1, EnterKeepsNames DEF fs_read, fs_write
  <2>4. \A g \in Fds : fs_stat(g)' = fs_stat(g) /\ fs_stat(g) \in Nat
    BY <1>0, <2>2, <2>3 DEF fs_stat
  <2>5. OffsetsInFile'
    BY <2>2, <2>4 DEF Seeking, OffsetsInFile, IsOpen
  <2>6. CASE fs_write(fd, count)
    <3>1. call'.op = "write"
      BY <2>1, <2>6, EnterFrame DEF fs_write
    <3> QED
      BY <2>5, <3>1 DEF Seeking
  <2>7. CASE fs_read(fd, count)
    <3>1. call'.fd = fd /\ call'.done = 0 /\ (call'.left = 0 \/ call'.left = MinOf(count, rest))
      BY <2>1, <2>7, EnterFrame DEF fs_read
    <3>2. open_files[fd].offset <= fs_stat(fd)
      BY <2>2 DEF Seeking, OffsetsInFile
    <3>3. open_files[fd].offset + 0 + call'.left <= fs_stat(fd)
      BY <1>0, <2>1, <2>4, <3>1, <3>2
    <3> QED
      BY <2>2, <2>4, <2>5, <3>1, <3>3 DEF Seeking
  <2> QED
    BY <1>5, <2>6, <2>7
<1>6. CASE UmountFat \/ Hop \/ WriteBlock \/ UmountRoot \/ UNCHANGED vars
  <2>1. UNCHANGED <<root_dir, open_files>>
    BY <1>6 DEF UmountFat, Hop, WriteBlock, UmountRoot, memory, vars
  <2>2. OffsetsInFile'
    BY <2>1 DEF Seeking, OffsetsInFile, IsOpen, fs_stat
  <2>3. CASE WriteBlock
    <3>1. call'.op = "write"
      BY <1>0, <2>3 DEF WriteBlock, Frames
    <3> QED
      BY <2>2, <3>1 DEF Seeking
  <2>4. CASE UmountFat \/ Hop \/ UmountRoot \/ UNCHANGED vars
    <3>1. /\ call'.op = call.op /\ call'.fd = call.fd
          /\ call'.done = call.done /\ call'.left = call.left
      BY <1>0, <2>4 DEF UmountFat, Hop, UmountRoot, vars, Frames
    <3> QED
      BY <2>1, <2>2, <3>1 DEF Seeking, fs_stat
  <2> QED
    BY <1>6, <2>3, <2>4
<1>7. CASE ReadBlock
  <2>1. UNCHANGED <<root_dir, open_files>> /\ call.pc = "block" /\ call.op = "read"
    BY <1>7 DEF ReadBlock, memory
  <2>2. OffsetsInFile'
    BY <2>1 DEF Seeking, OffsetsInFile, IsOpen, fs_stat
  <2>3. Moved \in Nat
    BY <2>1, MovedFacts
  <2>4. /\ call'.fd = call.fd
        /\ \/ call'.done = call.done /\ call'.left = call.left
           \/ call'.done = call.done + Moved /\ call'.left = 0 /\ call.left = Moved
           \/ call'.done = call.done + Moved /\ call'.left = call.left - Moved
    BY <1>0, <1>7 DEF ReadBlock, Frames
  <2>5. call'.done + call'.left = call.done + call.left
    BY <1>0, <2>3, <2>4
  <2>6. call'.done \in Nat /\ call'.left \in Nat
    BY DEF Typed, TypeOK, Frames
  <2>7. open_files[call.fd].offset + call'.done + call'.left <= fs_stat(call.fd)
    BY <1>0, <2>1, <2>5, <2>6 DEF Seeking
  <2> QED
    BY <2>1, <2>2, <2>4, <2>7 DEF Seeking, fs_stat
<1>8. CASE Return
  <2>0. PICK fd \in Fds : fd = call.fd
    BY <1>0
  <2> DEFINE e   == open_files[fd].index_in_rootdir
             end == open_files[fd].offset + call.done
  <2>1. call.pc = "return" /\ call' = Idle
    BY <1>8 DEF Return
  <2>2. e \in Slots /\ end \in Nat /\ fs_stat(fd) = root_dir[e].size
    BY <1>0 DEF fs_stat
  <2>3. open_files' = [open_files EXCEPT ![fd].offset = end]
    BY <1>8, <2>0 DEF Return
  <2>4. \/ /\ root_dir' = [root_dir EXCEPT ![e].size = end]
           /\ end > root_dir[e].size
        \/ /\ root_dir' = root_dir
           /\ call.op # "write" \/ ~(end > root_dir[e].size)
    BY <1>8, <2>0 DEF Return
  <2>5. call.op \in {"read", "write"}
    BY <1>0, <2>1 DEF Typed, CallOK, Frames, Idle
  <2>6. call.op = "read" => end <= root_dir[e].size
    BY <1>0, <2>0, <2>2 DEF Seeking
  <2>7. /\ open_files'[fd].offset = end
        /\ \A g \in Fds \ {fd} : open_files'[g] = open_files[g]
        /\ \A g \in Fds : /\ open_files'[g].empty = open_files[g].empty
                          /\ open_files'[g].index_in_rootdir = open_files[g].index_in_rootdir
    <3> HIDE DEF end
    <3> QED
      BY <1>0, <2>3
  <2> HIDE DEF e, end
  <2>8. /\ end <= root_dir'[e].size
        /\ \A i \in Slots : root_dir'[i].size >= root_dir[i].size
    <3>1. CASE root_dir' = [root_dir EXCEPT ![e].size = end] /\ end > root_dir[e].size
      <4>1. root_dir'[e].size = end /\ \A i \in Slots \ {e} : root_dir'[i] = root_dir[i]
        BY <1>0, <2>2, <3>1 DEF RootDir
      <4> QED
        BY <1>0, <2>2, <3>1, <4>1
    <3>2. CASE root_dir' = root_dir /\ (call.op # "write" \/ ~(end > root_dir[e].size))
      BY <1>0, <2>2, <2>5, <2>6, <3>2
    <3> QED
      BY <2>4, <3>1, <3>2
  <2>9. \A g \in Fds : fs_stat(g)' \in Nat /\ fs_stat(g)' >= fs_stat(g)
    BY <1>0, <2>7, <2>8 DEF fs_stat
  <2>10. open_files'[fd].offset <= fs_stat(fd)'
    BY <1>0, <2>7, <2>8 DEF fs_stat, e
  <2>11. OffsetsInFile'
    BY <2>7, <2>9, <2>10, SizesKeepOffsets
  <2> QED
    BY <2>1, <2>11 DEF Seeking, Idle
<1>9. CASE fs_mount \/ Crash
  <2>1. open_files' = AllClosed /\ call' = Idle
    BY <1>9 DEF fs_mount, Crash, Typed, CallOK
  <2> QED
    BY <2>1 DEF AllClosed, ClosedFile, Seeking, OffsetsInFile, IsOpen, Idle
<1> QED
  BY <1>1, <1>2, <1>3, <1>4, <1>5, <1>6, <1>7, <1>8, <1>9 DEF AnyNext, AnyCalls, Running

(* No descriptor is ever beyond the end of its file, though the size is    *)
(* shared by all descriptors of the file and only fs_lseek compares it.    *)
THEOREM OffsetsStayInFile == Spec => []OffsetsInFile
<1>1. Seeking => OffsetsInFile
  BY DEF Seeking
<1> QED
  BY <1>1, InitTyped, NextTyped, InitDirectory, NextDirectory, InitSeeking, NextSeeking,
     NextIsAnyNext, PTL DEF Spec

(* A session without crashes is a behaviour of the specification, so every *)
(* theorem above holds of it.                                              *)
THEOREM SessionIsSpec == SessionSpec => Spec
<1>1. [Session]_vars => [Next]_vars
  BY DEF Session, Next
<1> QED
  BY <1>1, PTL DEF SessionSpec, Spec
-----------------------------------------------------------------------------
(***************************************************************************)
(* Part 6: calls end.  While a loop runs there are bytes left, and each    *)
(* iteration moves one at least or gives up.                               *)
(***************************************************************************)
Pending == call.pc \in {"hop", "block"} => call.left > 0

LEMMA EnterPending ==
  ASSUME NEW op, NEW fd, NEW left \in Int, Enter(op, fd, left)
  PROVE  Pending'
<1> SUFFICES ASSUME call'.pc # "return"
             PROVE  call'.left > 0
  BY DEF Pending
<1>1. ~(left <= 0)
  <2> SUFFICES ASSUME left <= 0
               PROVE  call'.pc = "return"
    OBVIOUS
  <2>1. call' = Frame(op, fd, 0, NoBlock, 0)
    BY DEF Enter
  <2> QED
    BY <2>1 DEF Frame
<1> DEFINE head == root_dir[open_files[fd].index_in_rootdir].data_index
           hops == num_fat_blocks_to_traverse(open_files[fd].offset) - 1
<1>2. \/ call' = Frame(op, fd, left, head, hops)
      \/ \E b \in Blocks : call' = Frame(op, fd, left, b, hops)
      \/ call' = Frame(op, fd, left, NoBlock, 0)
  BY <1>1 DEF Enter
<1> QED
  BY <1>1, <1>2 DEF Frame

LEMMA NextPending == Typed /\ Pending /\ [AnyNext]_vars => Pending'
<1> SUFFICES ASSUME Typed, Pending, [AnyNext]_vars
             PROVE  Pending'
  OBVIOUS
<1>0. Idle.pc = "idle"
  BY DEF Idle
<1>1. CASE UNCHANGED call
  BY <1>1 DEF Pending
<1>2. CASE call' = Idle
  BY <1>0, <1>2 DEF Pending
<1>3. ASSUME NEW fd \in Fds, NEW count \in Nat, fs_read(fd, count) \/ fs_write(fd, count)
      PROVE  Pending'
  <2>1. MinOf(count, fs_stat(fd) - open_files[fd].offset) \in Int /\ count \in Int
    BY DEF Typed, TypeOK, RootDir, fs_stat, MinOf
  <2> QED
    BY <1>3, <2>1, EnterPending DEF fs_read, fs_write
<1>4. CASE Hop
  <2>1. call \in Frames /\ call.pc = "hop"
    BY <1>4 DEF Hop, Typed, TypeOK
  <2>2. call'.left = call.left
    BY <1>4, <2>1 DEF Hop, Frames
  <2> QED
    BY <2>1, <2>2 DEF Pending
<1>5. CASE WriteBlock \/ ReadBlock
  <2>1. call \in Frames /\ call.pc = "block"
    BY <1>5 DEF WriteBlock, ReadBlock, Typed, TypeOK
  <2>2. Moved \in Nat /\ Moved <= call.left /\ call.left \in Nat
    BY <2>1, MovedFacts DEF Frames
  <2>3. \/ call'.pc = "return"
        \/ call.left # Moved /\ call'.left = call.left - Moved
    BY <1>5, <2>1 DEF WriteBlock, ReadBlock, Frames
  <2> QED
    BY <2>2, <2>3 DEF Pending
<1> QED
  BY <1>1, <1>2, <1>3, <1>4, <1>5
  DEF AnyNext, AnyCalls, Running, fs_mount, fs_create, fs_delete, fs_open, fs_close, fs_lseek,
      UmountFat, UmountRoot, Return, Crash, vars

LEMMA RunningAdvances ==
  ASSUME Typed, Pending, Running
  PROVE  StepsLeft' < StepsLeft
<1> DEFINE stage(pc) == [idle |-> 0, return |-> 1, block |-> 2, hop |-> 3][pc]
           saving    == IF phase = "umounting" THEN 1 ELSE 0
<1>1. /\ call \in Frames /\ call.hops \in Nat /\ call.left \in Nat
      /\ call.pc \in {"idle", "hop", "block", "return"}
  BY DEF Typed, TypeOK, Frames
<1>2. stage("idle") = 0 /\ stage("return") = 1 /\ stage("block") = 2 /\ stage("hop") = 3
  OBVIOUS
<1>3. saving \in {0, 1}
  OBVIOUS
<1>4. StepsLeft = call.hops + call.left + stage(call.pc) + saving
  BY DEF StepsLeft
<1>5. StepsLeft' = call'.hops + call'.left + stage(call'.pc) + saving'
  BY DEF StepsLeft
<1>6. phase' = phase => saving' = saving
  OBVIOUS
<1> HIDE DEF stage
<1>7. CASE Hop
  <2>1. /\ call.pc = "hop" /\ call'.left = call.left /\ call'.hops = call.hops - 1
        /\ call'.pc \in {"hop", "block"} /\ phase' = phase
    BY <1>1, <1>7 DEF Hop, Frames
  <2>2. saving' = saving
    BY <1>6, <2>1
  <2> HIDE DEF saving
  <2> QED
    BY <1>1, <1>2, <1>3, <1>4, <1>5, <2>1, <2>2
<1>8. CASE WriteBlock \/ ReadBlock
  <2>1. call.pc = "block" /\ phase' = phase
    BY <1>8 DEF WriteBlock, ReadBlock
  <2>2. Moved \in Nat /\ Moved <= call.left
    BY <2>1, MovedFacts
  <2>3. call.left > 0 => Moved > 0
    <3>1. open_files[call.fd].offset % BLOCK_SIZE \in 0..(BLOCK_SIZE - 1)
      BY <1>1, GeometryAssumption DEF Typed, TypeOK, Frames
    <3>2. BLOCK_SIZE - offset_in_current_block \in Nat /\ BLOCK_SIZE - offset_in_current_block > 0
      BY <3>1, GeometryAssumption DEF offset_in_current_block
    <3> QED
      BY <1>1, <3>2 DEF Moved, MinOf
  <2>4. /\ call'.hops = call.hops
        /\ \/ call'.pc = "return" /\ (call'.left = call.left \/ call'.left = 0)
           \/ call'.pc = "block" /\ call'.left = call.left - Moved
    BY <1>1, <1>8, <2>1 DEF WriteBlock, ReadBlock, Frames
  <2>5. call.left > 0 /\ saving' = saving
    BY <1>6, <2>1 DEF Pending
  <2> HIDE DEF saving
  <2> QED
    BY <1>1, <1>2, <1>3, <1>4, <1>5, <2>1, <2>2, <2>3, <2>4, <2>5
<1>9. CASE Return
  <2>1. call.pc = "return" /\ call' = Idle /\ phase' = phase
    BY <1>9 DEF Return
  <2>2. call'.hops = 0 /\ call'.left = 0 /\ call'.pc = "idle"
    BY <2>1 DEF Idle
  <2>3. saving' = saving
    BY <1>6, <2>1
  <2> HIDE DEF saving
  <2> QED
    BY <1>1, <1>2, <1>3, <1>4, <1>5, <2>1, <2>2, <2>3
<1>10. CASE UmountRoot
  <2>1. call' = call /\ saving = 1 /\ saving' = 0
    BY <1>10 DEF UmountRoot
  <2>2. stage(call.pc) \in Nat
    BY <1>1, <1>2
  <2> HIDE DEF saving
  <2> QED
    BY <1>1, <1>4, <1>5, <2>1, <2>2
<1> QED
  BY <1>7, <1>8, <1>9, <1>10 DEF Running

(* Every call ends if its thread goes on: inside fs_read, fs_write and     *)
(* fs_umount each step takes from a natural number that counts those left. *)
THEOREM CallsComeToAnEnd == Spec => [](StepsLeft \in Nat) /\ CallsAdvance
<1>1. Init => Pending
  BY DEF Init, Pending, Idle
<1>2. Typed => StepsLeft \in Nat
  BY DEF Typed, TypeOK, Frames, StepsLeft
<1>3. Typed /\ Pending => [Running => StepsLeft' < StepsLeft]_vars
  BY RunningAdvances
<1> QED
  BY <1>1, <1>2, <1>3, InitTyped, NextTyped, NextPending, NextIsAnyNext, PTL
  DEF Spec, CallsAdvance
=============================================================================
