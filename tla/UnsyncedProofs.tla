--------------------------- MODULE UnsyncedProofs ---------------------------
(***************************************************************************)
(* FatFs again: what fs_write overwrites before fs_umount has saved the    *)
(* directory spares the files that the disk holds in the meantime.         *)
(***************************************************************************)
EXTENDS FatFsProofs

(* The file of entry i is that of the same entry on the disk.              *)
SameFile(i) == i \in Files(disk_root) /\ disk_root[i].filename = root_dir[i].filename

(* A write to the file of entry i may overwrite block b: the reserved one, *)
(* one that is free on the disk, or one of the same file.                  *)
MayBeWritten(b, i) ==
  \/ b = 0
  \/ disk_fat[b] = 0
  \/ SameFile(i) /\ b \in FileBlocks(disk_fat, disk_root[i].data_index)

(* A link that the disk has not leads to a block that is free there, ...   *)
NewLinksToNewBlocks ==
  \A b \in Blocks :
    fat[b] \notin {0, FAT_EOC} /\ fat[b] # disk_fat[b] => disk_fat[fat[b]] = 0

(* ... and so does the head of a file that the disk has not.               *)
NewHeadsAreNewBlocks ==
  phase = "mounted" =>
    \A i \in Files(root_dir) : root_dir[i].data_index # FAT_EOC =>
      \/ disk_fat[root_dir[i].data_index] = 0
      \/ SameFile(i) /\ disk_root[i].data_index = root_dir[i].data_index

WritesSpare ==
  call.op = "write" /\ call.block \in Blocks =>
    MayBeWritten(call.block, open_files[call.fd].index_in_rootdir)

Unsynced == NewLinksToNewBlocks /\ NewHeadsAreNewBlocks /\ WritesSpare

(* The steps of a call in progress change neither the directory nor the    *)
(* disk nor a descriptor.                                                  *)
LEMMA SameDirectorySpares ==
  ASSUME Unsynced, UNCHANGED <<root_dir, open_files, disk_fat, disk_root, phase>>
  PROVE  NewHeadsAreNewBlocks' /\ \A b, i : MayBeWritten(b, i)' <=> MayBeWritten(b, i)
BY DEF Unsynced, NewHeadsAreNewBlocks, MayBeWritten, SameFile

(* get_next_fat leads from a block that may be written to another one: a   *)
(* link is the disk's, and stays in the file, or leads to a new block.     *)
LEMMA NextFatSpares ==
  ASSUME Typed, Storage, NewLinksToNewBlocks,
         NEW i \in Slots, NEW b \in Blocks \union {NoBlock},
         NEW nxt \in Blocks \union {NoBlock}, get_next_fat(b, nxt),
         UNCHANGED disk_fat
  PROVE  /\ NewLinksToNewBlocks'
         /\ (b \in Blocks => MayBeWritten(b, i)) /\ nxt \in Blocks => MayBeWritten(nxt, i)
<1>0. fat \in FatArray /\ disk_fat \in FatArray /\ disk_root \in RootDir
  BY DEF Typed, TypeOK
<1>1. CASE b = NoBlock /\ nxt = 0 /\ fat' = fat
  BY <1>1 DEF NewLinksToNewBlocks, MayBeWritten
<1>2. CASE b \in Blocks /\ fat[b] # FAT_EOC /\ nxt = fat[b] /\ fat' = fat
  <2>1. NewLinksToNewBlocks'
    BY <1>2 DEF NewLinksToNewBlocks
  <2>2. ASSUME nxt # 0, disk_fat[nxt] # 0, MayBeWritten(b, i)
        PROVE  MayBeWritten(nxt, i)
    <3>1. fat[b] = disk_fat[b]
      BY <1>2, <2>2 DEF NewLinksToNewBlocks
    <3>2. b # 0 /\ disk_fat[b] # 0
      BY <1>2, <2>2, <3>1 DEF Storage, LinksOK
    <3>3. SameFile(i) /\ b \in FileBlocks(disk_fat, disk_root[i].data_index)
      BY <2>2, <3>2 DEF MayBeWritten
    <3>4. disk_root[i].data_index \in Blocks
      BY <1>0, <3>3 DEF RootDir, FileBlocks
    <3>5. disk_fat[b] \in FileBlocks(disk_fat, disk_root[i].data_index)
      BY <1>0, <1>2, <3>1, <3>2, <3>3, <3>4, ChainFacts DEF LinkClosed
    <3> QED
      BY <1>2, <3>1, <3>3, <3>5 DEF MayBeWritten
  <2>3. nxt = 0 \/ disk_fat[nxt] = 0 => MayBeWritten(nxt, i)
    BY DEF MayBeWritten
  <2> QED
    BY <1>2, <2>1, <2>2, <2>3
<1>3. CASE /\ b \in Blocks /\ fat[b] = FAT_EOC /\ nxt \in FreeBlocks
           /\ fat' = [fat EXCEPT ![nxt] = FAT_EOC, ![b] = nxt]
  <2>1. nxt \in Blocks /\ disk_fat[nxt] = 0 /\ nxt # b
    BY <1>3, BlocksFacts DEF FreeBlocks, Storage, Grows
  <2>2. fat'[nxt] = FAT_EOC /\ fat'[b] = nxt /\ \A x \in Blocks \ {b, nxt} : fat'[x] = fat[x]
    BY <1>0, <1>3, <2>1 DEF FatArray
  <2>3. NewLinksToNewBlocks'
    BY <2>1, <2>2 DEF NewLinksToNewBlocks
  <2> QED
    BY <2>1, <2>3 DEF MayBeWritten
<1>4. CASE b \in Blocks /\ fat[b] = FAT_EOC /\ nxt = NoBlock /\ FreeBlocks = {} /\ fat' = fat
  BY <1>4, BlocksFacts DEF NewLinksToNewBlocks
<1> QED
  BY <1>0, <1>1, <1>2, <1>3, <1>4, NextFatCases

(* The entry of a call begins a chain with a new block, or takes the head  *)
(* of the file.                                                            *)
LEMMA EnterSpares ==
  ASSUME Typed, Directory, Storage, Unsynced, Ready, NEW op \in {"read", "write"},
         NEW fd \in Fds, IsOpen(fd), NEW left \in Int, Enter(op, fd, left),
         UNCHANGED <<open_files, disk_fat, disk_root, phase>>
  PROVE  Unsynced'
<1> DEFINE i    == open_files[fd].index_in_rootdir
           head == root_dir[i].data_index
           hops == num_fat_blocks_to_traverse(open_files[fd].offset) - 1
<1>0. /\ fat \in FatArray /\ disk_fat \in FatArray
      /\ root_dir \in RootDir /\ disk_root \in RootDir
      /\ open_files[fd].offset \in Nat /\ i \in Slots /\ i \in Files(root_dir)
      /\ phase = "mounted"
  BY DEF Typed, TypeOK, Ready, Directory, OpenFilesExist
<1>1. call'.fd = fd
  BY EnterFrame
<1>2. CASE fat' = fat /\ root_dir' = root_dir /\ (call'.block = head \/ call'.block = NoBlock)
  <2>1. NewLinksToNewBlocks' /\ NewHeadsAreNewBlocks'
    BY <1>2, SameDirectorySpares DEF Unsynced, NewLinksToNewBlocks
  <2>2. ASSUME call'.block \in Blocks
        PROVE  MayBeWritten(head, i) /\ call'.block = head
    <3>1. call'.block = head /\ head # FAT_EOC /\ head \in Blocks
      BY <1>2, <2>2, BlocksFacts
    <3>2. \/ disk_fat[head] = 0
          \/ SameFile(i) /\ disk_root[i].data_index = head
      BY <1>0, <3>1 DEF Unsynced, NewHeadsAreNewBlocks
    <3>3. head \in FileBlocks(disk_fat, head)
      BY <1>0, <3>1, ChainFacts
    <3> QED
      BY <3>1, <3>2, <3>3 DEF MayBeWritten
  <2>3. WritesSpare'
    BY <1>1, <1>2, <2>2, SameDirectorySpares DEF WritesSpare
  <2> QED
    BY <2>1, <2>3 DEF Unsynced
<1>3. ASSUME NEW b \in Blocks, allocate_new_fat(b),
             fat' = [fat EXCEPT ![b] = FAT_EOC],
             root_dir' = [root_dir EXCEPT ![i].data_index = b],
             call'.block = b
      PROVE  Unsynced'
  <2>1. disk_fat[b] = 0
    BY <1>3 DEF allocate_new_fat, IsFirst, FreeBlocks, Storage, Grows
  <2>2. fat'[b] = FAT_EOC /\ \A x \in Blocks \ {b} : fat'[x] = fat[x]
    BY <1>0, <1>3 DEF FatArray
  <2>3. NewLinksToNewBlocks'
    BY <2>1, <2>2 DEF Unsynced, NewLinksToNewBlocks
  <2> HIDE DEF i
  <2>4. /\ root_dir'[i].data_index = b
        /\ \A j \in Slots : root_dir'[j].filename = root_dir[j].filename
        /\ \A j \in Slots \ {i} : root_dir'[j].data_index = root_dir[j].data_index
    BY <1>0, <1>3 DEF RootDir
  <2>5. NewHeadsAreNewBlocks'
    BY <1>0, <2>1, <2>4, NamesKeepFiles DEF Unsynced, NewHeadsAreNewBlocks, SameFile, Files
  <2>6. WritesSpare'
    BY <1>3, <2>1 DEF WritesSpare, MayBeWritten
  <2> QED
    BY <2>3, <2>5, <2>6 DEF Unsynced
<1>4. CASE left <= 0
  <2>1. call' = Frame(op, fd, 0, NoBlock, 0) /\ fat' = fat /\ root_dir' = root_dir
    BY <1>4 DEF Enter
  <2> QED
    BY <1>2, <2>1 DEF Frame
<1>5. CASE ~(left <= 0)
  <2>1. \/ call' = Frame(op, fd, left, head, hops) /\ fat' = fat /\ root_dir' = root_dir
        \/ call' = Frame(op, fd, left, NoBlock, 0) /\ fat' = fat /\ root_dir' = root_dir
        \/ \E b \in Blocks :
             /\ allocate_new_fat(b)
             /\ fat' = [fat EXCEPT ![b] = FAT_EOC]
             /\ root_dir' = [root_dir EXCEPT ![i].data_index = b]
             /\ call' = Frame(op, fd, left, b, hops)
    BY <1>5 DEF Enter
  <2>2. \A n, b, k : Frame(op, fd, n, b, k).block = b
    BY DEF Frame
  <2> HIDE DEF head, hops, i
  <2> QED
    BY <1>2, <1>3, <2>1, <2>2
<1> QED
  BY <1>4, <1>5

LEMMA InitUnsynced == Init => Unsynced
BY DEF Init, Idle, Unsynced, NewLinksToNewBlocks, NewHeadsAreNewBlocks, WritesSpare

LEMMA NextUnsynced == Inv /\ Unsynced /\ [AnyNext]_vars => Unsynced'
<1> SUFFICES ASSUME Typed, Directory, Storage, InHand, Unsynced, [AnyNext]_vars
             PROVE  Unsynced'
  BY DEF Inv
<1>0. /\ root_dir \in RootDir /\ disk_root \in RootDir /\ fat \in FatArray
      /\ open_files \in [Fds -> [empty : BOOLEAN, index_in_rootdir : Slots, offset : Nat]]
      /\ call \in Frames /\ call.fd \in Fds
  BY DEF Typed, TypeOK, Frames
(* A call that no fs_read or fs_write runs through needs to be looked at   *)
(* only for the directory it leaves.                                       *)
<1>1. ASSUME call' = Idle, UNCHANGED <<fat, disk_fat>>, NewHeadsAreNewBlocks'
      PROVE  Unsynced'
  BY <1>1 DEF Unsynced, NewLinksToNewBlocks, WritesSpare, Idle
<1>2. ASSUME NEW name \in Names, fs_create(name) \/ fs_delete(name)
      PROVE  Unsynced'
  <2>1. PICK i \in Slots, entry \in {NewFile(name), FreeEntry} :
          root_dir' = [root_dir EXCEPT ![i] = entry]
    BY <1>2 DEF fs_create, fs_delete
  <2>2. call' = Idle /\ UNCHANGED <<fat, disk_fat, disk_root, phase>>
    BY <1>2 DEF fs_create, fs_delete, CreatesAt, Ready, disk
  <2>3. /\ root_dir'[i].data_index = FAT_EOC
        /\ \A j \in Slots \ {i} : root_dir'[j] = root_dir[j]
    BY <1>0, <2>1 DEF RootDir, FreeEntry, NewFile
  <2>4. NewHeadsAreNewBlocks'
    BY <2>2, <2>3 DEF Unsynced, NewHeadsAreNewBlocks, SameFile, Files
  <2> QED
    BY <1>1, <2>2, <2>4
<1>3. CASE \/ \E name \in Names : fs_open(name)
           \/ \E fd \in Fds : fs_close(fd)
  <2>1. call' = Idle /\ UNCHANGED <<fat, root_dir, disk_fat, disk_root, phase>>
    BY <1>3 DEF fs_open, fs_close, Ready, disk
  <2>2. NewHeadsAreNewBlocks'
    BY <2>1 DEF Unsynced, NewHeadsAreNewBlocks, SameFile
  <2> QED
    BY <1>1, <2>1, <2>2
<1>4. ASSUME \A i \in Slots : /\ root_dir'[i].filename = root_dir[i].filename
                              /\ root_dir'[i].data_index = root_dir[i].data_index,
             call' = Idle, UNCHANGED <<fat, disk_fat, disk_root, phase>>
      PROVE  Unsynced'
  <2>1. NewHeadsAreNewBlocks'
    BY <1>4, NamesKeepFiles DEF Unsynced, NewHeadsAreNewBlocks, SameFile
  <2> QED
    BY <1>1, <1>4, <2>1
<1>5. ASSUME NEW fd \in Fds, NEW size,
             root_dir' = root_dir
               \/ root_dir' = [root_dir EXCEPT ![open_files[fd].index_in_rootdir].size = size],
             call' = Idle, UNCHANGED <<fat, disk_fat, disk_root, phase>>
      PROVE  Unsynced'
  <2> DEFINE e == open_files[fd].index_in_rootdir
  <2>1. e \in Slots
    BY <1>0
  <2>2. root_dir' = root_dir \/ root_dir' = [root_dir EXCEPT ![e].size = size]
    BY <1>5
  <2> HIDE DEF e
  <2>3. \A i \in Slots : /\ root_dir'[i].filename = root_dir[i].filename
                         /\ root_dir'[i].data_index = root_dir[i].data_index
    BY <1>0, <2>1, <2>2 DEF RootDir
  <2> QED
    BY <1>4, <1>5, <2>3
<1>6. ASSUME NEW fd \in Fds, NEW offset \in Nat, fs_lseek(fd, offset)
      PROVE  Unsynced'
  <2>1. /\ call' = Idle /\ UNCHANGED <<fat, disk_fat, disk_root, phase>>
        /\ \/ root_dir' = root_dir
           \/ root_dir' = [root_dir EXCEPT ![open_files[fd].index_in_rootdir].size = @ + 1]
    BY <1>6 DEF fs_lseek, Ready, disk
  <2> QED
    BY <1>5, <2>1
<1>7. ASSUME NEW fd \in Fds, NEW count \in Nat, fs_read(fd, count) \/ fs_write(fd, count)
      PROVE  Unsynced'
  <2>1. MinOf(count, fs_stat(fd) - open_files[fd].offset) \in Int /\ count \in Int
    BY <1>0 DEF MinOf, fs_stat, RootDir
  <2>2. UNCHANGED <<open_files, disk_fat, disk_root, phase>> /\ Ready /\ IsOpen(fd)
    BY <1>7 DEF fs_read, fs_write, disk
  <2>3. PICK op \in {"read", "write"}, left \in Int : Enter(op, fd, left)
    BY <1>7, <2>1 DEF fs_read, fs_write
  <2> QED
    BY <2>2, <2>3, EnterSpares
<1>8. CASE Hop \/ WriteBlock \/ ReadBlock
  <2> DEFINE i == open_files[call.fd].index_in_rootdir
  <2>1. UNCHANGED <<root_dir, open_files, disk_fat, disk_root, phase>> /\ i \in Slots
    BY <1>0, <1>8 DEF Hop, WriteBlock, ReadBlock, memory, disk
  <2>2. call'.op = call.op /\ call'.fd = call.fd
    BY <1>0, <1>8 DEF Hop, WriteBlock, ReadBlock, Frames
  <2>3. \/ UNCHANGED fat /\ (call.op = "write" => call'.block = call.block)
        \/ \E nxt \in Blocks \union {NoBlock} :
             get_next_fat(call.block, nxt) /\ call'.block = nxt
    BY <1>0, <1>8 DEF Hop, WriteBlock, ReadBlock, memory, Frames
  <2>4. CASE UNCHANGED fat /\ (call.op = "write" => call'.block = call.block)
    <3>1. NewLinksToNewBlocks'
      BY <2>1, <2>4 DEF Unsynced, NewLinksToNewBlocks
    <3>2. WritesSpare'
      BY <2>1, <2>2, <2>4, SameDirectorySpares DEF Unsynced, WritesSpare
    <3> QED
      BY <2>1, <3>1, <3>2, SameDirectorySpares DEF Unsynced
  <2>5. ASSUME NEW nxt \in Blocks \union {NoBlock},
               get_next_fat(call.block, nxt), call'.block = nxt
        PROVE  Unsynced'
    <3>1. call.block \in Blocks \union {NoBlock}
      BY <1>0, <1>8, <2>5, BlocksFacts DEF Hop, WriteBlock, ReadBlock, Typed, CallOK, Frames,
         get_next_fat, get_fat_at_index
    <3>2. /\ NewLinksToNewBlocks'
          /\ (call.block \in Blocks => MayBeWritten(call.block, i)) /\ nxt \in Blocks
               => MayBeWritten(nxt, i)
      BY <2>1, <2>5, <3>1, NextFatSpares DEF Unsynced
    <3>3. WritesSpare'
      BY <2>1, <2>2, <2>5, <3>2, SameDirectorySpares DEF Unsynced, WritesSpare
    <3> QED
      BY <2>1, <3>2, <3>3, SameDirectorySpares DEF Unsynced
  <2> QED
    BY <2>3, <2>4, <2>5
<1>9. CASE Return
  <2>1. /\ call' = Idle /\ UNCHANGED <<fat, disk_fat, disk_root, phase>>
        /\ \/ root_dir' = root_dir
           \/ root_dir' = [root_dir EXCEPT ![open_files[call.fd].index_in_rootdir].size =
                             open_files[call.fd].offset + call.done]
    BY <1>9 DEF Return, disk
  <2> QED
    BY <1>0, <1>5, <2>1
(* Wherever memory is the disk's, or is to be, nothing is new.             *)
<1>10. ASSUME call' = Idle, fat' = disk_fat', phase' # "mounted" \/ root_dir' = disk_root'
       PROVE  Unsynced'
  BY <1>10 DEF Unsynced, NewLinksToNewBlocks, NewHeadsAreNewBlocks, WritesSpare, SameFile, Idle
<1>11. CASE fs_mount \/ UmountFat \/ UmountRoot \/ Crash
  <2>1. CASE fs_mount
    BY <1>10, <2>1 DEF fs_mount, disk, Typed, CallOK
  <2>2. CASE UmountFat
    BY <1>10, <2>2 DEF UmountFat, memory, Ready
  <2>3. CASE UmountRoot
    BY <1>10, <2>3 DEF UmountRoot, memory, Storage, Typed, CallOK
  <2>4. CASE Crash
    BY <1>10, <2>4 DEF Crash, disk
  <2> QED
    BY <1>11, <2>1, <2>2, <2>3, <2>4
<1>12. CASE UNCHANGED vars
  BY <1>12, SameDirectorySpares DEF vars, Unsynced, NewLinksToNewBlocks, WritesSpare
<1> QED
  BY <1>2, <1>3, <1>6, <1>7, <1>8, <1>9, <1>11, <1>12 DEF AnyNext, AnyCalls, Running

LEMMA SparesTheDisk == Inv /\ Unsynced => UnsyncedWritesSpareDisk
<1> DEFINE b == call.block
           i == open_files[call.fd].index_in_rootdir
<1> SUFFICES ASSUME Inv, Unsynced, call.pc = "block", call.op = "write", b # NoBlock,
                    NEW j \in Files(disk_root),
                    b \in FileBlocks(disk_fat, disk_root[j].data_index)
             PROVE  j = i /\ disk_root[j].filename = root_dir[j].filename
  BY DEF UnsyncedWritesSpareDisk
<1>1. b \in Blocks
  BY DEF FileBlocks
<1>2. DiskWellFormed
  BY LocalImpliesWellFormed DEF Inv, Typed, TypeOK, Storage, DiskWellFormed
<1>3. b # 0 /\ disk_fat[b] # 0
  BY <1>1, <1>2 DEF DiskWellFormed, WellFormed
<1>4. SameFile(i) /\ b \in FileBlocks(disk_fat, disk_root[i].data_index)
  BY <1>1, <1>3 DEF Unsynced, WritesSpare, MayBeWritten
<1> QED
  BY <1>1, <1>2, <1>4 DEF DiskWellFormed, WellFormed, SameFile

(* No fs_write overwrites a block of a file that the disk still holds, and *)
(* that a crash would bring back, except through that very file; neither   *)
(* what fs_delete does in memory nor a FAT that fs_umount saved without    *)
(* the directory changes that.                                             *)
THEOREM WritesSpareTheDisk == Spec => []UnsyncedWritesSpareDisk
<1>1. Init => Inv /\ Unsynced
  BY InitInv, InitUnsynced
<1>2. Inv /\ Unsynced /\ [Next]_vars => Inv' /\ Unsynced'
  BY NextInv, NextIsAnyNext, NextUnsynced
<1>3. Inv /\ Unsynced => UnsyncedWritesSpareDisk
  BY SparesTheDisk
<1> QED
  BY <1>1, <1>2, <1>3, PTL DEF Spec
=============================================================================
