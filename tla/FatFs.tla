------------------------------- MODULE FatFs -------------------------------
(***************************************************************************)
(* The mounted file system of libfs/fs.c: the file allocation table, the   *)
(* root directory, the table of open files, and the copies of the first    *)
(* two on the virtual disk, which only fs_umount writes.                   *)
(*                                                                         *)
(* The library is sequential.  fs_create, fs_delete, fs_open, fs_close and *)
(* fs_lseek are one action each.  fs_read, fs_write and fs_umount write    *)
(* the disk several times and loop over the FAT, so they advance one loop  *)
(* iteration (one block, one link) per action, with the locals of the call *)
(* in `call'; the process may die between any two actions (Crash).         *)
(*                                                                         *)
(* A call that returns -1 before its first assignment is a stuttering step *)
(* and its conditions are the guards of the action.                        *)
(*                                                                         *)
(* The FAT fits in one FAT block (data_size <= 2048, so that an index is   *)
(* its own slot in fat[0]): FatTable has the addressing on larger disks.   *)
(***************************************************************************)
EXTENDS Integers, FiniteSets

CONSTANTS
  Names,              (* the file names clients use                         *)
  LongNames,          (* those of FS_FILENAME_LEN characters or more        *)
  NoName,             (* the empty string: filename[0] = '\0'               *)
  FS_FILE_MAX_COUNT,  (* entries of the root directory                      *)
  FS_OPEN_MAX_COUNT,  (* entries of the table of open files                 *)
  data_size,          (* data blocks of the disk, block 0 included          *)
  BLOCK_SIZE,         (* bytes per block                                    *)
  Counts,             (* bound: the byte counts passed to fs_read, fs_write *)
  MaxSize             (* bound: no call moves the end of a file beyond it   *)

ASSUME NamesAssumption == NoName \in Names /\ LongNames \subseteq Names \ {NoName}
ASSUME TableAssumption ==
  FS_FILE_MAX_COUNT \in Nat \ {0} /\ FS_OPEN_MAX_COUNT \in Nat \ {0}
ASSUME GeometryAssumption == data_size \in 1..2048 /\ BLOCK_SIZE \in Nat \ {0}
ASSUME BoundsAssumption == Counts \subseteq Nat /\ MaxSize \in Nat

FAT_EOC == 65535
NoBlock == -1          (* the int that stands for "no block" in the C code *)

Blocks == 0..(data_size - 1)
Slots  == 0..(FS_FILE_MAX_COUNT - 1)
Fds    == 0..(FS_OPEN_MAX_COUNT - 1)

VARIABLES
  fat,         (* fs->fat[0]->fat_array                                    *)
  root_dir,    (* fs->root_dir                                             *)
  open_files,  (* the table of open files                                  *)
  disk_fat,    (* the FAT block of the virtual disk                        *)
  disk_root,   (* the root directory block of the virtual disk             *)
  phase,       (* of the process: unmounted, mounted, or inside fs_umount  *)
  call         (* the locals of the fs_read or fs_write in progress        *)

memory == <<fat, root_dir, open_files>>
disk   == <<disk_fat, disk_root>>
vars   == <<fat, root_dir, open_files, disk_fat, disk_root, phase, call>>
-----------------------------------------------------------------------------
(***************************************************************************)
(* The root directory and the table of open files.                         *)
(***************************************************************************)
FatArray == [Blocks -> Blocks \union {FAT_EOC}]
RootDir  == [Slots -> [filename : Names, size : Nat,
                       data_index : Blocks \union {FAT_EOC}]]

(* No code reads the other fields of a directory entry without a name, or  *)
(* of a closed descriptor: the model forgets what they were.               *)
NewFile(name) == [filename |-> name, size |-> 0, data_index |-> FAT_EOC]
FreeEntry     == NewFile(NoName)
ClosedFile    == [empty |-> TRUE, index_in_rootdir |-> 0, offset |-> 0]

no_file_exists(entry) == entry.filename = NoName

has_same_filename(entry, name) ==
  ~no_file_exists(entry) /\ entry.filename = name

(* fs_find_matching_entry and fs_find_empty_entry return the first index   *)
(* that fits; none does when the C functions return -1.                    *)
IsFirst(i, S) == i \in S /\ \A j \in S : i <= j

MatchingEntries(name) == {i \in Slots : has_same_filename(root_dir[i], name)}
EmptyEntries          == {i \in Slots : no_file_exists(root_dir[i])}
EmptyFds              == {fd \in Fds : open_files[fd].empty}

IsOpen(fd) == fd \in Fds /\ ~open_files[fd].empty

OnlyFirstFdSearched(name) ==   (* mutant: the loop over the table ends early *)
  ~open_files[0].empty
    /\ has_same_filename(root_dir[open_files[0].index_in_rootdir], name)

open_table_has_filename(name) ==
  \E fd \in Fds \ EmptyFds :
    has_same_filename(root_dir[open_files[fd].index_in_rootdir], name)

fs_stat(fd) == root_dir[open_files[fd].index_in_rootdir].size

Idle == [op |-> "none", pc |-> "idle", fd |-> 0, block |-> NoBlock,
         hops |-> 0, done |-> 0, left |-> 0]

Ready == phase = "mounted" /\ call = Idle

CreatesTwice(name, i) ==       (* mutant: no look for a file of that name   *)
  Ready /\ name \notin LongNames /\ IsFirst(i, EmptyEntries)

(* fs_create(name) returns 0 and puts the file into entry i.               *)
CreatesAt(name, i) ==
  /\ Ready
  /\ name \notin LongNames
  /\ MatchingEntries(name) = {}
  /\ IsFirst(i, EmptyEntries)

fs_create(name) ==
  /\ \E i \in Slots :
       /\ CreatesAt(name, i)
       /\ root_dir' = [root_dir EXCEPT ![i] = NewFile(name)]
  /\ UNCHANGED <<fat, open_files, disk, phase, call>>

DeleteFreesHead(name) ==       (* mutant: the obvious repair of the leak    *)
  /\ Ready
  /\ ~open_table_has_filename(name)
  /\ \E i \in Slots :
       /\ IsFirst(i, MatchingEntries(name))
       /\ root_dir' = [root_dir EXCEPT ![i] = FreeEntry]
       /\ fat' = [x \in Blocks |-> IF x = root_dir[i].data_index THEN 0 ELSE fat[x]]
  /\ UNCHANGED <<open_files, disk, phase, call>>

(* Only the name goes: the FAT keeps the blocks of the file.               *)
fs_delete(name) ==
  /\ Ready
  /\ ~open_table_has_filename(name)
  /\ \E i \in Slots :
       /\ IsFirst(i, MatchingEntries(name))
       /\ root_dir' = [root_dir EXCEPT ![i] = FreeEntry]
  /\ UNCHANGED <<fat, open_files, disk, phase, call>>

fs_open(name) ==
  /\ Ready
  /\ \E i \in Slots, fd \in Fds :
       /\ IsFirst(i, MatchingEntries(name))
       /\ IsFirst(fd, EmptyFds)
       /\ open_files' = [open_files EXCEPT
            ![fd] = [empty |-> FALSE, index_in_rootdir |-> i, offset |-> 0]]
  /\ UNCHANGED <<fat, root_dir, disk, phase, call>>

fs_close(fd) ==
  /\ Ready
  /\ IsOpen(fd)
  /\ open_files' = [open_files EXCEPT ![fd] = ClosedFile]
  /\ UNCHANGED <<fat, root_dir, disk, phase, call>>

LseekGrowsEntryFd(fd, offset) ==  (* mutant: fd taken for the entry's index *)
  /\ Ready
  /\ IsOpen(fd)
  /\ offset = fs_stat(fd) /\ offset < MaxSize
  /\ root_dir' = [root_dir EXCEPT ![fd].size = @ + 1]
  /\ open_files' = [open_files EXCEPT ![fd].offset = offset]
  /\ UNCHANGED <<fat, disk, phase, call>>

(* Seeking to the end of the file makes the file one byte longer.          *)
fs_lseek(fd, offset) ==
  /\ Ready
  /\ IsOpen(fd)
  /\ LET i == open_files[fd].index_in_rootdir IN
       \/ /\ offset < root_dir[i].size
          /\ UNCHANGED root_dir
       \/ /\ offset = root_dir[i].size
          /\ offset < MaxSize
          /\ root_dir' = [root_dir EXCEPT ![i].size = @ + 1]
  /\ open_files' = [open_files EXCEPT ![fd].offset = offset]
  /\ UNCHANGED <<fat, disk, phase, call>>
-----------------------------------------------------------------------------
(***************************************************************************)
(* The FAT.  find_first_free_fat looks for 0 from index 1 on.              *)
(***************************************************************************)
EndsTakenForFree ==            (* mutant: the last blocks of chains, too    *)
  {b \in Blocks \ {0} : fat[b] \in {0, FAT_EOC}}

LastBlockForgotten ==          (* mutant: the search stops one block early  *)
  {b \in Blocks \ {0, data_size - 1} : fat[b] = 0}

FreeBlocks == {b \in Blocks \ {0} : fat[b] = 0}

allocate_new_fat(b) == IsFirst(b, FreeBlocks)

(* get_fat_at_index(-1) reads the half-word before fat_array: the upper    *)
(* bytes of the size that malloc keeps in front of the block, always 0.    *)
get_fat_at_index(b) == IF b = NoBlock THEN 0 ELSE fat[b]

NewBlockNotMarked(b, nxt) ==   (* mutant: allocation without FAT_EOC        *)
  /\ get_fat_at_index(b) = FAT_EOC
  /\ allocate_new_fat(nxt)
  /\ fat' = [fat EXCEPT ![b] = nxt]

NewBlockNotLinked(b, nxt) ==   (* mutant: allocation without the link       *)
  /\ get_fat_at_index(b) = FAT_EOC
  /\ allocate_new_fat(nxt)
  /\ fat' = [fat EXCEPT ![nxt] = FAT_EOC]

(* get_next_fat(b) returns nxt: the successor of b, or a block allocated   *)
(* and linked behind b, or -1 when no block is free.                       *)
get_next_fat(b, nxt) ==
  \/ /\ get_fat_at_index(b) # FAT_EOC
     /\ nxt = get_fat_at_index(b)
     /\ UNCHANGED fat
  \/ /\ get_fat_at_index(b) = FAT_EOC
     /\ allocate_new_fat(nxt)
     /\ fat' = [fat EXCEPT ![nxt] = FAT_EOC, ![b] = nxt]
  \/ /\ get_fat_at_index(b) = FAT_EOC
     /\ FreeBlocks = {}
     /\ nxt = NoBlock
     /\ UNCHANGED fat

(* The count that fs_info prints as free.                                  *)
free_fat_blocks == Cardinality({b \in Blocks : fat[b] = 0})
-----------------------------------------------------------------------------
(***************************************************************************)
(* fs_read and fs_write.  The first block is found by get_block_of_offset: *)
(* it allocates the head of an empty file, then follows (and extends) the  *)
(* chain, one link per `hop'.  Every further block is one link away.       *)
(***************************************************************************)
MinOf(a, b) == IF a < b THEN a ELSE b

OffsetNotReset ==              (* mutant: not set to 0 after the first block *)
  open_files[call.fd].offset % BLOCK_SIZE

offset_in_current_block ==
  IF call.done = 0 THEN open_files[call.fd].offset % BLOCK_SIZE ELSE 0

OneBlockTooFar(offset) ==      (* mutant: off by one                        *)
  2 + offset \div BLOCK_SIZE

num_fat_blocks_to_traverse(offset) == 1 + offset \div BLOCK_SIZE

Frame(op, fd, left, block, hops) ==
  [op    |-> op,
   pc    |-> IF left <= 0 THEN "return" ELSE IF hops = 0 THEN "block" ELSE "hop",
   fd    |-> fd, block |-> block, hops |-> hops, done |-> 0, left |-> left]

(* Entry to the loop, and get_block_of_offset up to its own loop.          *)
Enter(op, fd, left) ==
  LET i    == open_files[fd].index_in_rootdir
      head == root_dir[i].data_index
      hops == num_fat_blocks_to_traverse(open_files[fd].offset) - 1
  IN  \/ /\ left <= 0
         /\ call' = Frame(op, fd, 0, NoBlock, 0)
         /\ UNCHANGED <<fat, root_dir>>
      \/ /\ left > 0 /\ head # FAT_EOC
         /\ call' = Frame(op, fd, left, head, hops)
         /\ UNCHANGED <<fat, root_dir>>
      \/ /\ left > 0 /\ head = FAT_EOC
         /\ \E b \in Blocks :
              /\ allocate_new_fat(b)
              /\ fat' = [fat EXCEPT ![b] = FAT_EOC]
              /\ root_dir' = [root_dir EXCEPT ![i].data_index = b]
              /\ call' = Frame(op, fd, left, b, hops)
      \/ /\ left > 0 /\ head = FAT_EOC /\ FreeBlocks = {}
         /\ call' = Frame(op, fd, left, NoBlock, 0)
         /\ UNCHANGED <<fat, root_dir>>

fs_read(fd, count) ==
  /\ Ready
  /\ IsOpen(fd)
  /\ Enter("read", fd, MinOf(count, fs_stat(fd) - open_files[fd].offset))
  /\ UNCHANGED <<open_files, disk, phase>>

fs_write(fd, count) ==
  /\ Ready
  /\ IsOpen(fd)
  /\ open_files[fd].offset + count <= MaxSize
  /\ Enter("write", fd, count)
  /\ UNCHANGED <<open_files, disk, phase>>

HopsForever ==                 (* mutant: the loop counter is not advanced  *)
  /\ call.pc = "hop"
  /\ \E nxt \in Blocks \union {NoBlock} :
       /\ get_next_fat(call.block, nxt)
       /\ call' = [call EXCEPT !.block = nxt]
  /\ UNCHANGED <<root_dir, open_files, disk, phase>>

(* One iteration of the loop of get_block_of_offset; it does not look at   *)
(* the -1 of a full disk before it goes on from there.                     *)
Hop ==
  /\ call.pc = "hop"
  /\ \E nxt \in Blocks \union {NoBlock} :
       /\ get_next_fat(call.block, nxt)
       /\ call' = [call EXCEPT !.block = nxt, !.hops = @ - 1,
                               !.pc = IF call.hops = 1 THEN "block" ELSE "hop"]
  /\ UNCHANGED <<root_dir, open_files, disk, phase>>

RestOfBlock == BLOCK_SIZE - offset_in_current_block  (* mutant: no min      *)

(* The bytes that the current iteration of fs_read or fs_write moves.      *)
Moved == MinOf(BLOCK_SIZE - offset_in_current_block, call.left)

(* The rest of an iteration once its block is known, and the search for    *)
(* the block of the next one.                                              *)
WriteBlock ==
  /\ call.pc = "block" /\ call.op = "write"
  /\ \/ /\ call.block = NoBlock
        /\ call' = [call EXCEPT !.pc = "return"]
        /\ UNCHANGED fat
     \/ /\ call.block # NoBlock /\ call.left = Moved
        /\ call' = [call EXCEPT !.pc = "return", !.done = @ + Moved, !.left = 0]
        /\ UNCHANGED fat
     \/ /\ call.block # NoBlock /\ call.left # Moved
        /\ \E nxt \in Blocks \union {NoBlock} :
             /\ get_next_fat(call.block, nxt)
             /\ call' = [call EXCEPT !.block = nxt, !.done = @ + Moved,
                                     !.left = @ - Moved]
  /\ UNCHANGED <<root_dir, open_files, disk, phase>>

ReadBlock ==
  /\ call.pc = "block" /\ call.op = "read"
  /\ \/ /\ call.block \in {NoBlock, FAT_EOC}
        /\ call' = [call EXCEPT !.pc = "return"]
     \/ /\ call.block \notin {NoBlock, FAT_EOC} /\ call.left = Moved
        /\ call' = [call EXCEPT !.pc = "return", !.done = @ + Moved, !.left = 0]
     \/ /\ call.block \notin {NoBlock, FAT_EOC} /\ call.left # Moved
        /\ call' = [call EXCEPT !.block = get_fat_at_index(call.block),
                                !.done = @ + Moved, !.left = @ - Moved]
  /\ UNCHANGED <<memory, disk, phase>>

SizeNotUpdated ==              (* mutant: fs_write moves only the offset    *)
  /\ call.pc = "return"
  /\ open_files' = [open_files EXCEPT ![call.fd].offset = @ + call.done]
  /\ call' = Idle
  /\ UNCHANGED <<fat, root_dir, disk, phase>>

(* After the loop: the offset, and for fs_write the size of the file.      *)
Return ==
  /\ call.pc = "return"
  /\ LET fd  == call.fd
         i   == open_files[fd].index_in_rootdir
         end == open_files[fd].offset + call.done
     IN  /\ open_files' = [open_files EXCEPT ![fd].offset = end]
         /\ \/ /\ call.op = "write" /\ end > root_dir[i].size
               /\ root_dir' = [root_dir EXCEPT ![i].size = end]
            \/ /\ ~(call.op = "write" /\ end > root_dir[i].size)
               /\ UNCHANGED root_dir
  /\ call' = Idle
  /\ UNCHANGED <<fat, disk, phase>>
-----------------------------------------------------------------------------
(***************************************************************************)
(* Mounting, unmounting, and the death of the process.  While no file      *)
(* system is mounted there is no memory: the variables repeat the disk.    *)
(***************************************************************************)
AllClosed == [fd \in Fds |-> ClosedFile]

fs_mount ==
  /\ phase = "unmounted"
  /\ phase' = "mounted"
  /\ fat' = disk_fat
  /\ root_dir' = disk_root
  /\ open_files' = AllClosed
  /\ UNCHANGED <<disk, call>>

FatNotSaved ==                 (* mutant: fs_umount leaves out the FAT      *)
  /\ Ready
  /\ EmptyFds = Fds
  /\ phase' = "umounting"
  /\ UNCHANGED <<memory, disk, call>>

UmountsOpenFiles ==            (* mutant: descriptors are not looked at     *)
  /\ Ready
  /\ disk_fat' = fat
  /\ phase' = "umounting"
  /\ UNCHANGED <<memory, disk_root, call>>

(* fs_umount writes the FAT first ...                                      *)
UmountFat ==
  /\ Ready
  /\ EmptyFds = Fds
  /\ disk_fat' = fat
  /\ phase' = "umounting"
  /\ UNCHANGED <<memory, disk_root, call>>

(* ... then the root directory, then it frees the memory.                  *)
UmountRoot ==
  /\ phase = "umounting"
  /\ disk_root' = root_dir
  /\ phase' = "unmounted"
  /\ UNCHANGED <<memory, disk_fat, call>>

(* The process ends without fs_umount, or fs_umount fails to write a block *)
(* and calls exit(1).                                                      *)
Crash ==
  /\ phase # "unmounted"
  /\ phase' = "unmounted"
  /\ fat' = disk_fat
  /\ root_dir' = disk_root
  /\ open_files' = AllClosed
  /\ call' = Idle
  /\ UNCHANGED disk

(* A disk that fs_make.x has just formatted.                               *)
Formatted ==
  /\ disk_fat = [b \in Blocks |-> IF b = 0 THEN FAT_EOC ELSE 0]
  /\ disk_root = [i \in Slots |-> FreeEntry]

Init ==
  /\ Formatted
  /\ fat = disk_fat
  /\ root_dir = disk_root
  /\ open_files = AllClosed
  /\ phase = "unmounted"
  /\ call = Idle

(* The calls a client makes of a mounted file system.                      *)
Calls ==
  \/ \E name \in Names : fs_create(name) \/ fs_delete(name) \/ fs_open(name)
  \/ \E fd \in Fds : fs_close(fd)
  \/ \E fd \in Fds, offset \in 0..MaxSize : fs_lseek(fd, offset)
  \/ \E fd \in Fds, count \in Counts : fs_read(fd, count) \/ fs_write(fd, count)
  \/ UmountFat

(* The steps of the thread inside fs_read, fs_write or fs_umount.          *)
Running == Hop \/ WriteBlock \/ ReadBlock \/ Return \/ UmountRoot

Next == fs_mount \/ Calls \/ Running \/ Crash

Spec == Init /\ [][Next]_vars

(* One process that mounts a formatted disk, lives until it has unmounted  *)
(* it, and, being a single thread, finishes every call it makes.           *)
Session == (Formatted /\ fs_mount) \/ Calls \/ Running

SessionSpec == Init /\ [][Session]_vars /\ WF_vars(Running)
-----------------------------------------------------------------------------
(***************************************************************************)
(* Properties.                                                             *)
(***************************************************************************)
Frames == [op : {"none", "read", "write"}, pc : {"idle", "hop", "block", "return"},
           fd : Fds, block : Blocks \union {NoBlock, FAT_EOC}, hops : Nat,
           done : Nat, left : Nat]

(* Every variable holds a value of its C type that the code can store.     *)
TypeOK ==
  /\ fat \in FatArray /\ disk_fat \in FatArray
  /\ root_dir \in RootDir /\ disk_root \in RootDir
  /\ open_files \in [Fds -> [empty : BOOLEAN, index_in_rootdir : Slots,
                             offset : Nat]]
  /\ phase \in {"unmounted", "mounted", "umounting"}
  /\ call \in Frames

(* The blocks of the chain that starts at h: those in every set that holds *)
(* h and the successor of each of its members.                             *)
LinkClosed(f, S) == \A b \in S : f[b] \notin {0, FAT_EOC} => f[b] \in S

FileBlocks(f, h) ==
  IF h = FAT_EOC THEN {}
  ELSE {b \in Blocks : \A S \in SUBSET Blocks : h \in S /\ LinkClosed(f, S) => b \in S}

Files(r) == {i \in Slots : ~no_file_exists(r[i])}

(* What a FAT f and a root directory r have to be to hold files: block 0   *)
(* is reserved, the chains of files run over allocated blocks, and no      *)
(* block belongs to two files.                                             *)
WellFormed(f, r) ==
  /\ f[0] = FAT_EOC
  /\ \A i \in Files(r), b \in Blocks :
       b \in FileBlocks(f, r[i].data_index) =>
         /\ b # 0 /\ f[b] # 0
         /\ \A j \in Files(r) : b \in FileBlocks(f, r[j].data_index) => j = i

(* In memory the files are disjoint chains of allocated blocks, also in    *)
(* the middle of a call that allocates (allocate_new_fat, get_next_fat).   *)
FilesDisjoint == WellFormed(fat, root_dir)

(* A descriptor refers to an existing file: fs_delete refuses open files,  *)
(* fs_create takes only free entries, fs_mount closes everything.          *)
OpenFilesExist ==
  \A fd \in Fds : IsOpen(fd) => open_files[fd].index_in_rootdir \in Files(root_dir)

(* No descriptor is beyond the end of its file, though several descriptors *)
(* share the size and only fs_lseek compares with it.                      *)
OffsetsInFile == \A fd \in Fds : IsOpen(fd) => open_files[fd].offset <= fs_stat(fd)

(* Two files never have the same name, whatever entries fs_delete freed.   *)
UniqueNames ==
  \A i, j \in Files(root_dir) : root_dir[i].filename = root_dir[j].filename => i = j

(* A file at rest has no block that lies wholly beyond its last byte: the  *)
(* loops of get_block_of_offset and fs_write never allocate too early.     *)
ChainFitsSize ==
  \A i \in Files(root_dir) :
    LET n == Cardinality(FileBlocks(fat, root_dir[i].data_index))
    IN  n > 0 /\ (call = Idle \/ open_files[call.fd].index_in_rootdir # i)
          => (n - 1) * BLOCK_SIZE < root_dir[i].size

(* fs_write returns less than count only when the disk is full as fs_info  *)
(* counts it ("should write as many bytes as possible", fs.h).             *)
ShortWriteMeansFull ==
  call.pc = "return" /\ call.op = "write" /\ call.left > 0 => free_fat_blocks = 0

(* fs_read stops before the bytes asked for only in a file that has fewer  *)
(* blocks than its size needs, which fs_lseek to its end brings about.     *)
ShortReadMeansHole ==
  call.pc = "return" /\ call.op = "read" /\ call.left > 0 =>
    LET i == open_files[call.fd].index_in_rootdir
    IN  Cardinality(FileBlocks(fat, root_dir[i].data_index)) * BLOCK_SIZE
          < root_dir[i].size

(* Allocated blocks that no file can reach.                                *)
Orphans ==
  {b \in Blocks \ {0} : fat[b] # 0 /\ \A i \in Files(root_dir) :
                         b \notin FileBlocks(fat, root_dir[i].data_index)}

(* No call but fs_delete leaks a block, in particular no fs_write that is  *)
(* cut short by a full disk; and a leaked block is never used again.       *)
OnlyDeleteLeaks ==
  [][/\ Orphans \subseteq Orphans'
     /\ Orphans' # Orphans => \E name \in Names : fs_delete(name)]_vars

(* No call changes the entry or the blocks of a file that is not open,     *)
(* short of deleting it.                                                   *)
ClosedFilesUntouched ==
  [][\A i \in Files(root_dir) :
       (\A fd \in Fds : IsOpen(fd) => open_files[fd].index_in_rootdir # i) =>
         \/ i \notin Files(root_dir')
         \/ /\ root_dir'[i] = root_dir[i]
            /\ FileBlocks(fat', root_dir[i].data_index)
                 = FileBlocks(fat, root_dir[i].data_index)]_vars

(* A bound on the steps that the thread still has to make inside the       *)
(* library: links to follow, bytes to move, and what comes after them.     *)
StepsLeft ==
  call.hops + call.left
    + [idle |-> 0, return |-> 1, block |-> 2, hop |-> 3][call.pc]
    + (IF phase = "umounting" THEN 1 ELSE 0)

(* No iteration of the loops is in vain, not even on a full disk, where    *)
(* they go on from -1 to block 0, or when a write gets only a part of what *)
(* it asked for: each brings the call nearer to its end.                   *)
CallsAdvance == [][Running => StepsLeft' < StepsLeft]_vars

(* Every fs_read, fs_write and fs_umount returns.                          *)
CallsReturn ==
  (call # Idle \/ phase = "umounting") ~> (call = Idle /\ phase # "umounting")
-----------------------------------------------------------------------------
(* The disk holds a usable file system at every instant, so also when the  *)
(* process dies between the writes of fs_umount and at any point before.   *)
DiskWellFormed == WellFormed(disk_fat, disk_root)

(* No sequence of calls, crashes and remounts frees a block on the disk or *)
(* changes a link there: chains of the disk only get longer.               *)
DiskOnlyGrows ==
  [][\A b \in Blocks : disk_fat[b] # 0 =>
       /\ disk_fat'[b] # 0
       /\ disk_fat[b] # FAT_EOC => disk_fat'[b] = disk_fat[b]]_vars

(* fs_write writes data blocks at once, the directory only at fs_umount.   *)
(* Until then it writes no block of a file that the disk still holds,      *)
(* deleted in memory or not, save through that very file: a crash never    *)
(* brings back a file with the bytes of another.                           *)
UnsyncedWritesSpareDisk ==
  call.pc = "block" /\ call.op = "write" /\ call.block # NoBlock =>
    \A j \in Files(disk_root) :
      call.block \in FileBlocks(disk_fat, disk_root[j].data_index) =>
        /\ j = open_files[call.fd].index_in_rootdir
        /\ disk_root[j].filename = root_dir[j].filename
-----------------------------------------------------------------------------
(***************************************************************************)
(* What fs.h says of the calls and the code does not do.                   *)
(***************************************************************************)
(* fs_read returns less than count only at the end of the file.            *)
ReadReachesEnd == call.pc = "return" /\ call.op = "read" => call.left = 0

(* The bytes that fs_write counts as written go to blocks of the file.     *)
WritesStayInFile ==
  call.pc = "block" /\ call.op = "write" /\ call.block # NoBlock =>
    call.block \in FileBlocks(fat, root_dir[open_files[call.fd].index_in_rootdir].data_index)
=============================================================================
