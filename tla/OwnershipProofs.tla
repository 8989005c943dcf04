--------------------------- MODULE OwnershipProofs ---------------------------
(***************************************************************************)
(* FatFs again: a call works on the chain of its own file, so it neither   *)
(* touches a file that is not open nor loses a block.                      *)
(***************************************************************************)
EXTENDS FatFsProofs

(***************************************************************************)
(* How a chain changes when the FAT does.                                  *)
(***************************************************************************)
LEMMA ChainUntouched ==
  ASSUME NEW f \in FatArray, NEW g \in FatArray, NEW h \in Blocks,
         \A x \in FileBlocks(f, h) : g[x] = f[x]
  PROVE  FileBlocks(g, h) = FileBlocks(f, h)
<1> DEFINE S == FileBlocks(f, h)
           T == FileBlocks(g, h)
<1>1. S \in SUBSET Blocks /\ h \in S /\ LinkClosed(f, S)
  BY ChainFacts
<1>2. T \in SUBSET Blocks /\ h \in T /\ LinkClosed(g, T)
  BY ChainFacts
<1> HIDE DEF S, T
<1>3. LinkClosed(g, S)
  BY <1>1 DEF LinkClosed, S
<1>4. T \subseteq S
  BY <1>1, <1>3, ChainFacts DEF T
<1>5. LinkClosed(f, T)
  BY <1>2, <1>4 DEF LinkClosed, S
<1>6. S \subseteq T
  BY <1>2, <1>5, ChainFacts DEF S
<1> QED
  BY <1>4, <1>6 DEF S, T

LEMMA ChainExtended ==
  ASSUME NEW f \in FatArray, NEW g \in FatArray, NEW h \in Blocks,
         NEW b \in FileBlocks(f, h), f[b] = FAT_EOC,
         NEW n \in Blocks \ {0}, f[n] = 0, g[n] = FAT_EOC, g[b] = n,
         \A x \in Blocks \ {b, n} : g[x] = f[x]
  PROVE  FileBlocks(g, h) = FileBlocks(f, h) \union {n}
<1> DEFINE S == FileBlocks(f, h)
           T == FileBlocks(g, h)
<1>1. S \in SUBSET Blocks /\ h \in S /\ LinkClosed(f, S) /\ b \in Blocks
  BY ChainFacts
<1>2. T \in SUBSET Blocks /\ h \in T /\ LinkClosed(g, T)
  BY ChainFacts
<1>0. b \in S
  OBVIOUS
<1> HIDE DEF S, T
<1>3. LinkClosed(g, S \union {n})
  BY <1>1 DEF LinkClosed
<1>4. T \subseteq S \union {n}
  BY <1>1, <1>3, ChainFacts DEF T
<1>5. LinkClosed(f, T)
  BY <1>1, <1>2, BlocksFacts DEF LinkClosed
<1>6. S \subseteq T
  BY <1>2, <1>5, ChainFacts DEF S
<1>7. n \in T
  BY <1>0, <1>2, <1>6, BlocksFacts DEF LinkClosed
<1> QED
  BY <1>4, <1>6, <1>7 DEF S, T
-----------------------------------------------------------------------------
(***************************************************************************)
(* The step of a call on the file of entry i.                              *)
(***************************************************************************)
ChainIn(f, r, i) == FileBlocks(f, r[i].data_index)

(* Entries other than i, and their chains, stay as they are; no block is   *)
(* lost or found.                                                          *)
OnlyTouches(i) ==
  /\ Files(root_dir') = Files(root_dir)
  /\ \A j \in Files(root_dir) : j # i =>
       root_dir'[j] = root_dir[j] /\ ChainIn(fat', root_dir, j) = ChainIn(fat, root_dir, j)
  /\ Orphans' = Orphans

(* The block in hand is the reserved one, or one of the open file's.       *)
Owned ==
  call.block \in Blocks =>
    \/ call.block = 0
    \/ call.block \in ChainIn(fat, root_dir, open_files[call.fd].index_in_rootdir)

LEMMA FilesInMemory ==
  ASSUME Typed, Storage
  PROVE  /\ WellFormed(fat, root_dir)
         /\ \A i \in Files(root_dir) :
              /\ i \in Slots /\ ChainIn(fat, root_dir, i) \subseteq Blocks
              /\ root_dir[i].data_index = FAT_EOC \/ root_dir[i].data_index \in Blocks
              /\ root_dir[i].data_index = FAT_EOC => ChainIn(fat, root_dir, i) = {}
<1>1. WellFormed(fat, root_dir)
  BY LocalImpliesWellFormed DEF Typed, TypeOK, Storage
<1> QED
  BY <1>1 DEF Typed, TypeOK, RootDir, Files, ChainIn, FileBlocks

(* Chains are the same before and after if the FAT is the same on them.    *)
LEMMA OtherChainsUntouched ==
  ASSUME Typed, Storage, fat' \in FatArray, NEW j \in Files(root_dir),
         \A x \in ChainIn(fat, root_dir, j) : fat'[x] = fat[x]
  PROVE  ChainIn(fat', root_dir, j) = ChainIn(fat, root_dir, j)
<1>1. fat \in FatArray
  BY DEF Typed, TypeOK
<1>2. CASE root_dir[j].data_index = FAT_EOC
  BY <1>2 DEF ChainIn, FileBlocks
<1>3. CASE root_dir[j].data_index \in Blocks
  BY <1>1, <1>3, ChainUntouched DEF ChainIn
<1> QED
  BY <1>2, <1>3, FilesInMemory

(* A step that changes no link loses no block.                             *)
LEMMA SameChainsSameOrphans ==
  ASSUME UNCHANGED fat, Files(root_dir') = Files(root_dir),
         \A j \in Files(root_dir) : root_dir'[j].data_index = root_dir[j].data_index
  PROVE  Orphans' = Orphans
BY DEF Orphans

LEMMA NextFatOwned ==
  ASSUME Typed, Storage, NEW i \in Files(root_dir), NEW b \in Blocks \union {NoBlock},
         NEW nxt \in Blocks \union {NoBlock}, get_next_fat(b, nxt), UNCHANGED root_dir,
         b \in Blocks => b = 0 \/ b \in ChainIn(fat, root_dir, i),
         b \in {NoBlock, 0} => FreeBlocks = {}
  PROVE  /\ nxt \in Blocks => nxt = 0 \/ nxt \in ChainIn(fat', root_dir, i)
         /\ OnlyTouches(i)
<1>0. fat \in FatArray /\ fat' \in FatArray /\ fat[0] = FAT_EOC
  BY NextFatTyped DEF Typed, TypeOK, Storage, LinksOK
<1>1. CASE fat' = fat
  <2>1. OnlyTouches(i)
    BY <1>1, SameChainsSameOrphans DEF OnlyTouches
  <2>2. ASSUME b \in Blocks, fat[b] # FAT_EOC, nxt = fat[b], nxt # 0
        PROVE  nxt \in ChainIn(fat', root_dir, i)
    <3>1. b \in ChainIn(fat, root_dir, i)
      BY <1>0, <2>2
    <3>2. root_dir[i].data_index \in Blocks
      BY <3>1, FilesInMemory
    <3> QED
      BY <1>0, <1>1, <2>2, <3>1, <3>2, ChainFacts DEF ChainIn, LinkClosed
  <2>3. \/ nxt = 0
        \/ b \in Blocks /\ fat[b] # FAT_EOC /\ nxt = fat[b]
        \/ nxt = NoBlock
        \/ nxt \in FreeBlocks /\ fat' = [fat EXCEPT ![nxt] = FAT_EOC, ![b] = nxt] /\ b \in Blocks
    BY <1>0, NextFatCases
  <2>4. ASSUME nxt \in FreeBlocks, fat' = [fat EXCEPT ![nxt] = FAT_EOC, ![b] = nxt], b \in Blocks
        PROVE  FALSE
    <3>1. nxt \in Blocks /\ fat[nxt] = 0 /\ nxt # 0
      BY <2>4 DEF FreeBlocks
    <3>2. fat'[nxt] # 0
      BY <1>0, <2>4, <3>1, BlocksFacts DEF FatArray
    <3> QED
      BY <1>1, <3>1, <3>2
  <2> QED
    BY <2>1, <2>2, <2>3, <2>4, BlocksFacts
<1>2. CASE /\ b \in Blocks /\ fat[b] = FAT_EOC /\ nxt \in FreeBlocks
           /\ fat' = [fat EXCEPT ![nxt] = FAT_EOC, ![b] = nxt]
  <2>1. nxt \in Blocks \ {0} /\ fat[nxt] = 0 /\ nxt # b
    BY <1>2, BlocksFacts DEF FreeBlocks
  <2>2. fat'[nxt] = FAT_EOC /\ fat'[b] = nxt /\ \A x \in Blocks \ {b, nxt} : fat'[x] = fat[x]
    BY <1>0, <1>2, <2>1 DEF FatArray
  <2>3. b \in ChainIn(fat, root_dir, i)
    BY <1>2
  <2>4. root_dir[i].data_index \in Blocks
    BY <2>3, FilesInMemory
  <2>5. ChainIn(fat', root_dir, i) = ChainIn(fat, root_dir, i) \union {nxt}
    <3> DEFINE h == root_dir[i].data_index
    <3>1. h \in Blocks /\ b \in FileBlocks(fat, h) /\ fat[b] = FAT_EOC
      BY <1>2, <2>3, <2>4 DEF ChainIn
    <3> HIDE DEF h
    <3>2. FileBlocks(fat', h) = FileBlocks(fat, h) \union {nxt}
      BY <1>0, <2>1, <2>2, <3>1, ChainExtended
    <3> QED
      BY <3>2 DEF ChainIn, h
  <2>6. \A j \in Files(root_dir) : \A x \in ChainIn(fat, root_dir, j) :
          x \in Blocks /\ fat[x] # 0 /\ (x = b => j = i)
    BY <2>3, FilesInMemory DEF WellFormed, ChainIn
  <2>7. ASSUME NEW j \in Files(root_dir), j # i
        PROVE  ChainIn(fat', root_dir, j) = ChainIn(fat, root_dir, j)
    BY <1>0, <2>1, <2>2, <2>6, <2>7, OtherChainsUntouched
  <2>8. \A x \in Blocks : x # nxt => (fat'[x] # 0 <=> fat[x] # 0)
    BY <1>2, <2>1, <2>2, BlocksFacts
  <2>9. \A x \in Blocks : x # nxt =>
          \A j \in Files(root_dir) :
            x \in ChainIn(fat', root_dir, j) <=> x \in ChainIn(fat, root_dir, j)
    BY <2>5, <2>7
  <2>10. Orphans' = Orphans
    <3>1. nxt \notin Orphans /\ nxt \notin Orphans'
      BY <2>1, <2>5 DEF Orphans, ChainIn
    <3>2. \A x \in Blocks \ {0} : x # nxt => (x \in Orphans' <=> x \in Orphans)
      BY <2>8, <2>9 DEF Orphans, ChainIn
    <3> QED
      BY <3>1, <3>2 DEF Orphans
  <2> QED
    BY <2>5, <2>7, <2>10 DEF OnlyTouches
<1> QED
  BY <1>0, <1>1, <1>2, NextFatCases

LEMMA EnterOwned ==
  ASSUME Typed, Directory, Storage, Ready, NEW op \in {"read", "write"},
         NEW fd \in Fds, IsOpen(fd), NEW left \in Int, Enter(op, fd, left),
         UNCHANGED open_files
  PROVE  Owned' /\ OnlyTouches(open_files[fd].index_in_rootdir)
<1> DEFINE i    == open_files[fd].index_in_rootdir
           head == root_dir[i].data_index
           hops == num_fat_blocks_to_traverse(open_files[fd].offset) - 1
<1>0. fat \in FatArray /\ root_dir \in RootDir /\ i \in Slots /\ i \in Files(root_dir)
  BY DEF Typed, TypeOK, Directory, OpenFilesExist
<1>1. call'.fd = fd
  BY EnterFrame
<1>2. CASE fat' = fat /\ root_dir' = root_dir /\ (call'.block = head \/ call'.block = NoBlock)
  <2>1. OnlyTouches(i)
    BY <1>2, SameChainsSameOrphans DEF OnlyTouches
  <2>2. call'.block \in Blocks => call'.block \in ChainIn(fat, root_dir, i)
    BY <1>0, <1>2, ChainFacts, BlocksFacts DEF ChainIn
  <2> QED
    BY <1>1, <1>2, <2>1, <2>2 DEF Owned
<1>3. ASSUME NEW b \in Blocks, head = FAT_EOC, allocate_new_fat(b),
             fat' = [fat EXCEPT ![b] = FAT_EOC],
             root_dir' = [root_dir EXCEPT ![i].data_index = b],
             call'.block = b
      PROVE  Owned' /\ OnlyTouches(i)
  <2>1. b # 0 /\ fat[b] = 0 /\ fat' \in FatArray
    BY <1>0, <1>3 DEF allocate_new_fat, IsFirst, FreeBlocks, FatArray
  <2>2. fat'[b] = FAT_EOC /\ \A x \in Blocks \ {b} : fat'[x] = fat[x]
    BY <1>0, <1>3 DEF FatArray
  <2>3. ChainIn(fat, root_dir, i) = {}
    BY <1>0, <1>3, FilesInMemory
  <2> HIDE DEF i
  <2>4. /\ root_dir'[i].data_index = b /\ root_dir' \in RootDir
        /\ \A j \in Slots : root_dir'[j].filename = root_dir[j].filename
        /\ \A j \in Slots \ {i} : root_dir'[j] = root_dir[j]
    BY <1>0, <1>3 DEF RootDir
  <2>5. Files(root_dir') = Files(root_dir) /\ Files(root_dir) \subseteq Slots
    BY <2>4, NamesKeepFiles DEF Files
  <2>6. FileBlocks(fat', b) = {b}
    <3>1. LinkClosed(fat', {b})
      BY <2>2 DEF LinkClosed
    <3> QED
      BY <2>1, <3>1, ChainFacts
  <2>7. ASSUME NEW j \in Files(root_dir), j # i
        PROVE  ChainIn(fat', root_dir, j) = ChainIn(fat, root_dir, j)
    <3>1. \A x \in ChainIn(fat, root_dir, j) : x \in Blocks /\ x # b
      BY <2>1, FilesInMemory DEF WellFormed, ChainIn
    <3> QED
      BY <2>1, <2>2, <3>1, OtherChainsUntouched
  <2>8. ChainIn(fat', root_dir', i) = {b}
    BY <2>4, <2>6 DEF ChainIn
  <2>9. \A x \in Blocks : x # b =>
          \A j \in Files(root_dir) :
            x \in ChainIn(fat', root_dir', j) <=> x \in ChainIn(fat, root_dir, j)
    <3>1. \A j \in Files(root_dir) : j # i =>
            ChainIn(fat', root_dir', j) = ChainIn(fat, root_dir, j)
      BY <2>4, <2>5, <2>7 DEF ChainIn
    <3> QED
      BY <2>3, <2>8, <3>1
  <2>10. Orphans' = Orphans
    <3>1. b \notin Orphans /\ b \notin Orphans'
      BY <1>0, <2>1, <2>5, <2>8 DEF Orphans, ChainIn
    <3>2. \A x \in Blocks \ {0} : x # b => (x \in Orphans' <=> x \in Orphans)
      BY <2>2, <2>5, <2>9 DEF Orphans, ChainIn
    <3> QED
      BY <3>1, <3>2 DEF Orphans
  <2>11. OnlyTouches(i)
    BY <2>4, <2>5, <2>7, <2>10 DEF OnlyTouches
  <2>12. Owned'
    BY <1>1, <1>3, <2>8 DEF Owned, i
  <2> QED
    BY <2>11, <2>12
<1>4. CASE left <= 0
  <2>1. call' = Frame(op, fd, 0, NoBlock, 0) /\ fat' = fat /\ root_dir' = root_dir
    BY <1>4 DEF Enter
  <2> QED
    BY <1>2, <2>1 DEF Frame
<1>5. CASE ~(left <= 0)
  <2>1. \/ call' = Frame(op, fd, left, head, hops) /\ fat' = fat /\ root_dir' = root_dir
        \/ call' = Frame(op, fd, left, NoBlock, 0) /\ fat' = fat /\ root_dir' = root_dir
        \/ \E b \in Blocks :
             /\ head = FAT_EOC
             /\ allocate_new_fat(b)
             /\ fat' = [fat EXCEPT ![b] = FAT_EOC]
             /\ root_dir' = [root_dir EXCEPT ![i].data_index = b]
             /\ call' = Frame(op, fd, left, b, hops)
    BY <1>5 DEF Enter
  <2>2. \A n, b, k : Frame(op, fd, n, b, k).block = b
    BY DEF Frame
  <2>3. ASSUME NEW b \in Blocks, head = FAT_EOC, allocate_new_fat(b),
               fat' = [fat EXCEPT ![b] = FAT_EOC],
               root_dir' = [root_dir EXCEPT ![i].data_index = b],
               call' = Frame(op, fd, left, b, hops)
        PROVE  Owned' /\ OnlyTouches(i)
    <3>1. call'.block = b
      BY <2>2, <2>3
    <3> QED
      BY <1>3, <2>3, <3>1
  <2>4. CASE /\ fat' = fat /\ root_dir' = root_dir
             /\ \/ call' = Frame(op, fd, left, head, hops)
                \/ call' = Frame(op, fd, left, NoBlock, 0)
    BY <1>2, <2>2, <2>4
  <2> HIDE DEF head, hops
  <2> QED
    BY <2>1, <2>3, <2>4
<1> QED
  BY <1>4, <1>5

(* A change of size, whatever it is, moves no block.                       *)
LEMMA SizeTouches ==
  ASSUME Typed, NEW i \in Slots, NEW size, UNCHANGED fat,
         root_dir' = root_dir \/ root_dir' = [root_dir EXCEPT ![i].size = size]
  PROVE  OnlyTouches(i)
<1>1. /\ \A j \in Slots : /\ root_dir'[j].filename = root_dir[j].filename
                          /\ root_dir'[j].data_index = root_dir[j].data_index
      /\ \A j \in Slots \ {i} : root_dir'[j] = root_dir[j]
  BY DEF Typed, TypeOK, RootDir
<1>2. Files(root_dir') = Files(root_dir) /\ Files(root_dir) \subseteq Slots
  BY <1>1, NamesKeepFiles DEF Files
<1> QED
  BY <1>1, <1>2, SameChainsSameOrphans DEF OnlyTouches

OnOpenFile ==
  \/ \E fd \in Fds, offset \in Nat : fs_lseek(fd, offset)
  \/ \E fd \in Fds, count \in Nat : fs_read(fd, count) \/ fs_write(fd, count)
  \/ Hop \/ WriteBlock \/ ReadBlock \/ Return

(* The step is one of, begins, or ends a call on descriptor fd, if any.    *)
WorksOn(fd) ==
  /\ IsOpen(fd)
  /\ OnlyTouches(open_files[fd].index_in_rootdir)
  /\ call # Idle => call.fd = fd
  /\ call' # Idle => call'.fd = fd

(* Whatever the library does to an open file it does to that file only.    *)
LEMMA CallsTouchOpenFiles ==
  ASSUME Inv, Owned, OnOpenFile
  PROVE  Owned' /\ \E fd \in Fds : WorksOn(fd)
<1>0. /\ Typed /\ Directory /\ Storage /\ InHand
      /\ open_files \in [Fds -> [empty : BOOLEAN, index_in_rootdir : Slots, offset : Nat]]
      /\ root_dir \in RootDir /\ call \in Frames /\ call.fd \in Fds
  BY DEF Inv, Typed, TypeOK, Frames
<1>1. ASSUME NEW fd \in Fds, NEW offset \in Nat, fs_lseek(fd, offset)
      PROVE  Owned' /\ WorksOn(fd)
  <2>1. /\ UNCHANGED <<fat, call>> /\ call = Idle /\ IsOpen(fd)
        /\ \/ root_dir' = root_dir
           \/ root_dir' = [root_dir EXCEPT ![open_files[fd].index_in_rootdir].size = @ + 1]
    BY <1>1 DEF fs_lseek, Ready
  <2> QED
    BY <1>0, <2>1, SizeTouches, BlocksFacts DEF Owned, WorksOn, Idle
<1>2. ASSUME NEW fd \in Fds, NEW count \in Nat, fs_read(fd, count) \/ fs_write(fd, count)
      PROVE  Owned' /\ WorksOn(fd)
  <2>1. MinOf(count, fs_stat(fd) - open_files[fd].offset) \in Int /\ count \in Int
    BY <1>0, BoundsAssumption DEF MinOf, fs_stat, RootDir
  <2>2. UNCHANGED open_files /\ Ready /\ IsOpen(fd)
    BY <1>2 DEF fs_read, fs_write
  <2>3. PICK op \in {"read", "write"}, left \in Int : Enter(op, fd, left)
    BY <1>2, <2>1 DEF fs_read, fs_write
  <2>4. call'.fd = fd /\ call = Idle
    BY <2>2, <2>3, EnterFrame DEF Ready
  <2> QED
    BY <1>0, <2>2, <2>3, <2>4, EnterOwned DEF WorksOn
<1>3. CASE Hop \/ WriteBlock \/ ReadBlock
  <2> DEFINE i == open_files[call.fd].index_in_rootdir
  <2>1. UNCHANGED <<root_dir, open_files>> /\ call # Idle /\ call.pc \in {"hop", "block"}
    <3>1. UNCHANGED <<root_dir, open_files>> /\ call.pc \in {"hop", "block"}
      BY <1>3 DEF Hop, WriteBlock, ReadBlock, memory
    <3> QED
      BY <3>1 DEF Idle
  <2>2. IsOpen(call.fd) /\ i \in Files(root_dir) /\ i \in Slots
    BY <1>0, <2>1 DEF Typed, CallOK, Directory, OpenFilesExist
  <2>3. call'.fd = call.fd
    BY <1>0, <1>3 DEF Hop, WriteBlock, ReadBlock, Frames
  <2>4. \/ UNCHANGED fat /\ call'.block = call.block
        \/ /\ UNCHANGED fat /\ call'.block = fat[call.block]
           /\ call.block \in Blocks
        \/ \E nxt \in Blocks \union {NoBlock} :
             get_next_fat(call.block, nxt) /\ call'.block = nxt
    <3>1. call.block \in Blocks \union {NoBlock, FAT_EOC}
      BY <1>0 DEF Frames
    <3> QED
      BY <1>0, <1>3, <3>1 DEF Hop, WriteBlock, ReadBlock, memory, Frames, get_fat_at_index
  <2>5. ASSUME UNCHANGED fat, call'.block = call.block
        PROVE  Owned' /\ OnlyTouches(i)
    <3>1. OnlyTouches(i)
      BY <2>1, <2>5, SameChainsSameOrphans DEF OnlyTouches
    <3> QED
      BY <1>0, <2>1, <2>2, <2>3, <2>5, <3>1 DEF Owned
  <2>6. ASSUME UNCHANGED fat, call'.block = fat[call.block], call.block \in Blocks
        PROVE  Owned' /\ OnlyTouches(i)
    <3>1. OnlyTouches(i)
      BY <2>1, <2>6, SameChainsSameOrphans DEF OnlyTouches
    <3>2. ASSUME fat[call.block] \in Blocks
          PROVE  fat[call.block] \in ChainIn(fat, root_dir, i)
      <4>1. fat \in FatArray /\ fat[0] = FAT_EOC /\ fat[call.block] # 0
        BY <1>0, <2>6 DEF Typed, TypeOK, Storage, LinksOK, InHand
      <4>2. call.block \in ChainIn(fat, root_dir, i)
        BY <2>6, <3>2, <4>1, BlocksFacts DEF Owned
      <4>3. root_dir[i].data_index \in Blocks
        BY <1>0, <2>2, <4>2, FilesInMemory
      <4> QED
        BY <3>2, <4>1, <4>2, <4>3, ChainFacts, BlocksFacts DEF ChainIn, LinkClosed
    <3> QED
      BY <1>0, <2>1, <2>2, <2>3, <2>6, <3>1, <3>2 DEF Owned
  <2>7. ASSUME NEW nxt \in Blocks \union {NoBlock},
               get_next_fat(call.block, nxt), call'.block = nxt
        PROVE  Owned' /\ OnlyTouches(i)
    <3>1. call.block \in Blocks \union {NoBlock}
      BY <1>0, <1>3, <2>7, BlocksFacts
         DEF Hop, WriteBlock, ReadBlock, Typed, CallOK, Frames, get_next_fat, get_fat_at_index
    <3>2. /\ nxt \in Blocks => nxt = 0 \/ nxt \in ChainIn(fat', root_dir, i)
          /\ OnlyTouches(i)
      BY <1>0, <2>1, <2>2, <2>7, <3>1, NextFatOwned DEF Owned, InHand
    <3> QED
      BY <2>1, <2>3, <2>7, <3>2 DEF Owned
  <2> QED
    BY <1>0, <2>2, <2>3, <2>4, <2>5, <2>6, <2>7 DEF WorksOn
<1>4. CASE Return
  <2>1. /\ call.pc = "return" /\ call' = Idle /\ UNCHANGED fat
        /\ \/ root_dir' = root_dir
           \/ root_dir' = [root_dir EXCEPT ![open_files[call.fd].index_in_rootdir].size =
                             open_files[call.fd].offset + call.done]
    BY <1>4 DEF Return
  <2>2. IsOpen(call.fd)
    BY <1>0, <2>1 DEF Typed, CallOK, Idle
  <2> QED
    BY <1>0, <2>1, <2>2, SizeTouches, BlocksFacts DEF Owned, WorksOn, Idle
<1> QED
  BY <1>1, <1>2, <1>3, <1>4 DEF OnOpenFile

LEMMA InitOwned == Init => Owned
BY BlocksFacts DEF Init, Idle, Owned

LEMMA NextOwned == Inv /\ Owned /\ [AnyNext]_vars => Owned'
<1> SUFFICES ASSUME Inv, Owned, [AnyNext]_vars
             PROVE  Owned'
  OBVIOUS
<1>1. CASE OnOpenFile
  BY <1>1, CallsTouchOpenFiles
<1>2. CASE UNCHANGED vars
  BY <1>2 DEF vars, Owned
<1>3. CASE \/ \E name \in Names : fs_create(name) \/ fs_delete(name) \/ fs_open(name)
           \/ \E fd \in Fds : fs_close(fd)
           \/ fs_mount \/ UmountFat \/ UmountRoot \/ Crash
  <2>1. call' = Idle
    BY <1>3 DEF fs_create, CreatesAt, fs_delete, fs_open, fs_close, fs_mount,
       UmountFat, UmountRoot, Crash, Ready, Inv, Typed, CallOK
  <2> QED
    BY <2>1, BlocksFacts DEF Owned, Idle
<1> QED
  BY <1>1, <1>2, <1>3 DEF AnyNext, AnyCalls, Running, OnOpenFile

LEMMA OwnedInvariance == Spec => [](Inv /\ Owned)
BY InitInv, NextInv, InitOwned, NextOwned, NextIsAnyNext, PTL DEF Spec

(* The steps that leave the FAT and the directory of a session alone.      *)
LEMMA QuietSteps ==
  ASSUME Inv,
         \/ Formatted /\ fs_mount
         \/ \E name \in Names : fs_open(name)
         \/ \E fd \in Fds : fs_close(fd)
         \/ UmountFat \/ UmountRoot \/ UNCHANGED vars
  PROVE  UNCHANGED <<fat, root_dir>>
BY DEF Inv, Storage, fs_mount, fs_open, fs_close, UmountFat, UmountRoot, memory, vars

(* While a process works, no call changes a file that is not open, except  *)
(* that fs_delete removes it.                                              *)
THEOREM ClosedFilesStay == SessionSpec => ClosedFilesUntouched
<1> DEFINE Stays(i) ==
      (\A fd \in Fds : IsOpen(fd) => open_files[fd].index_in_rootdir # i) =>
         \/ i \notin Files(root_dir')
         \/ /\ root_dir'[i] = root_dir[i]
            /\ FileBlocks(fat', root_dir[i].data_index)
                 = FileBlocks(fat, root_dir[i].data_index)
<1>1. ASSUME Inv, Owned, Session, NEW i \in Files(root_dir)
      PROVE  Stays(i)
  <2>0. root_dir \in RootDir /\ i \in Slots /\ root_dir[i].filename # NoName
    BY <1>1 DEF Inv, Typed, TypeOK, Files, no_file_exists
  <2>1. CASE OnOpenFile
    BY <1>1, <2>1, CallsTouchOpenFiles DEF WorksOn, OnlyTouches, ChainIn
  <2>2. ASSUME NEW name \in Names, fs_create(name)
        PROVE  Stays(i)
    <3>1. PICK k \in Slots : CreatesAt(name, k) /\ root_dir' = [root_dir EXCEPT ![k] = NewFile(name)]
      BY <2>2 DEF fs_create
    <3>2. k # i
      BY <2>0, <3>1 DEF CreatesAt, IsFirst, EmptyEntries, no_file_exists
    <3>3. root_dir'[i] = root_dir[i] /\ fat' = fat
      BY <2>0, <2>2, <3>1, <3>2 DEF RootDir, fs_create
    <3> QED
      BY <3>3
  <2>3. ASSUME NEW name \in Names, fs_delete(name)
        PROVE  Stays(i)
    <3>1. PICK k \in Slots : root_dir' = [root_dir EXCEPT ![k] = FreeEntry]
      BY <2>3 DEF fs_delete
    <3>2. (IF k = i THEN root_dir'[i] = FreeEntry ELSE root_dir'[i] = root_dir[i]) /\ fat' = fat
      BY <2>0, <2>3, <3>1 DEF RootDir, fs_delete
    <3> QED
      BY <3>2 DEF Files, no_file_exists, FreeEntry, NewFile
  <2>4. CASE UNCHANGED <<fat, root_dir>>
    BY <2>4
  <2> QED
    BY <1>1, <2>1, <2>2, <2>3, <2>4, QuietSteps, CallsAreAnyCalls
       DEF Session, AnyCalls, Running, OnOpenFile
<1>2. Inv /\ Owned /\ [Session]_vars => [\A i \in Files(root_dir) : Stays(i)]_vars
  BY <1>1
<1> QED
  BY <1>2, OwnedInvariance, SessionIsSpec, PTL DEF SessionSpec, ClosedFilesUntouched

(* While a process works, only fs_delete loses blocks, whichever calls the *)
(* full disk cuts short, and what is lost is not found again.              *)
THEOREM OnlyDeletesLeak == SessionSpec => OnlyDeleteLeaks
<1> DEFINE Keeps == /\ Orphans \subseteq Orphans'
                    /\ Orphans' # Orphans => \E name \in Names : fs_delete(name)
<1>1. ASSUME Inv, Owned, Session
      PROVE  Keeps
  <2>0. root_dir \in RootDir
    BY <1>1 DEF Inv, Typed, TypeOK
  <2>1. CASE OnOpenFile
    BY <1>1, <2>1, CallsTouchOpenFiles DEF WorksOn, OnlyTouches
  <2>2. ASSUME NEW name \in Names, fs_create(name)
        PROVE  Keeps
    <3>1. PICK k \in Slots : CreatesAt(name, k) /\ root_dir' = [root_dir EXCEPT ![k] = NewFile(name)]
      BY <2>2 DEF fs_create
    <3>2. k \notin Files(root_dir)
      BY <3>1 DEF CreatesAt, IsFirst, EmptyEntries, Files
    <3>3. /\ root_dir'[k].data_index = FAT_EOC /\ fat' = fat
          /\ \A j \in Slots \ {k} : root_dir'[j] = root_dir[j]
      BY <2>0, <2>2, <3>1 DEF RootDir, fs_create, NewFile
    <3>4. FileBlocks(fat, root_dir'[k].data_index) = {}
      BY <3>3 DEF FileBlocks
    <3>5. /\ Files(root_dir) \subseteq Files(root_dir')
          /\ Files(root_dir') \subseteq Files(root_dir) \union {k}
          /\ Files(root_dir) \subseteq Slots \ {k}
      BY <3>2, <3>3 DEF Files
    <3> QED
      BY <3>3, <3>4, <3>5 DEF Orphans
  <2>3. ASSUME NEW name \in Names, fs_delete(name)
        PROVE  Keeps
    <3>1. PICK k \in Slots : root_dir' = [root_dir EXCEPT ![k] = FreeEntry]
      BY <2>3 DEF fs_delete
    <3>2. /\ root_dir'[k].filename = NoName /\ fat' = fat
          /\ \A j \in Slots \ {k} : root_dir'[j] = root_dir[j]
      BY <2>0, <2>3, <3>1 DEF RootDir, fs_delete, FreeEntry, NewFile
    <3>3. \A j \in Files(root_dir') : j \in Files(root_dir) /\ root_dir'[j] = root_dir[j]
      BY <3>2 DEF Files, no_file_exists
    <3> QED
      BY <2>3, <3>2, <3>3 DEF Orphans
  <2>4. CASE UNCHANGED <<fat, root_dir>>
    BY <2>4 DEF Orphans
  <2> QED
    BY <1>1, <2>1, <2>2, <2>3, <2>4, QuietSteps, CallsAreAnyCalls
       DEF Session, AnyCalls, Running, OnOpenFile
<1>2. Inv /\ Owned /\ [Session]_vars => [Keeps]_vars
  BY <1>1
<1> QED
  BY <1>2, OwnedInvariance, SessionIsSpec, PTL DEF SessionSpec, OnlyDeleteLeaks
=============================================================================
