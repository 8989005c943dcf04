------------------------------- MODULE Mount -------------------------------
(***************************************************************************)
(* The life cycle of libfs: the global pointer fs of fs.c, the disk that   *)
(* disk.c has open, and the table of open files, through successful and    *)
(* failed calls of fs_mount, fs_umount and all the others.                 *)
(*                                                                         *)
(* fs_umount and the failing exits of fs_mount free the memory behind fs   *)
(* and keep the pointer, and the other calls test it against NULL only.    *)
(* What such a call reads is undefined: it returns anything, or the        *)
(* process dies.  The contents of a mounted file system are in FatFs.      *)
(***************************************************************************)
EXTENDS Integers, FiniteSets

CONSTANTS
  Images,             (* the virtual disks a client may name                *)
  NoDisk,             (* disk.fd = INVALID_FD                               *)
  FS_OPEN_MAX_COUNT

(* What fs_mount can tell of a virtual disk: whether block_disk_open takes *)
(* it (it exists and is a whole number of blocks), its size, the fields of *)
(* its superblock, and whether its FAT starts with FAT_EOC.  The pointers  *)
(* of struct file_system suffice for 4 FAT blocks and 8192 data blocks.    *)
ImageType == [opens : BOOLEAN, blocks : Nat, signature : BOOLEAN, total_blocks : Nat,
              fat_size : 1..4, root_index : Nat, data_index : Nat, data_size : 0..8192,
              eoc : BOOLEAN]

ASSUME ImagesAssumption == Images \subseteq ImageType /\ NoDisk \notin Images
ASSUME CountAssumption == FS_OPEN_MAX_COUNT \in Nat \ {0}

Fds == 0..(FS_OPEN_MAX_COUNT - 1)

VARIABLES
  fs,       (* null, unread (nothing read into it yet), mounted, or freed   *)
  disk,     (* the image disk.fd refers to, or NoDisk                       *)
  open,     (* the descriptors with open_files[fd].empty = false            *)
  process,  (* running, exited by exit(1), or aborted                       *)
  last,     (* the last call that returned: name, image, mounted before, result *)
  handed    (* not in the code: what fs_open has returned since fs_mount    *)

vars == <<fs, disk, open, process, last, handed>>
-----------------------------------------------------------------------------
(* A call is made by a running process, and returns or ends the process.   *)
Returns(call, image, ret) ==
  /\ process = "running"
  /\ last' = [call |-> call, image |-> image, mounted |-> fs = "mounted", ret |-> ret]

Dies(how) ==
  /\ process = "running"
  /\ process' = how
  /\ UNCHANGED <<fs, disk, open, last, handed>>

AnyImage(image) == image.opens           (* mutant: a second disk is opened *)

block_disk_open(image) == disk = NoDisk /\ image.opens

(* block 0 can be read                                                     *)
block_read_superblock(image) == image.blocks > 0

GoodLayout(image) ==
  /\ image.signature
  /\ 1 + image.fat_size = image.root_index
  /\ image.root_index + 1 = image.data_index

CountsNotAdded(image) == image.blocks = image.total_blocks  (* mutant       *)

GoodCounts(image) ==
  /\ image.blocks = image.total_blocks
  /\ 1 + image.fat_size + 1 + image.data_size = image.total_blocks

Valid(image) ==
  /\ image.opens /\ block_read_superblock(image)
  /\ image.signature
  /\ image.root_index = 1 + image.fat_size
  /\ image.data_index = 2 + image.fat_size
  /\ image.total_blocks = 2 + image.fat_size + image.data_size
  /\ image.blocks = image.total_blocks
  /\ image.eoc

(* The exits of fs_mount that return -1 with the disk left open: fs points *)
(* to memory nothing was read into (unread), or to memory already freed.   *)
MountFails(image, memory) ==
  /\ fs' = memory
  /\ disk' = image
  /\ Returns("fs_mount", image, -1)
  /\ UNCHANGED <<open, process, handed>>

FdsLeftOpen(image) ==          (* mutant: open_files is not initialized     *)
  /\ fs' = "mounted" /\ disk' = image
  /\ handed' = {}
  /\ Returns("fs_mount", image, 0)
  /\ UNCHANGED <<open, process>>

MountSucceeds(image) ==
  /\ fs' = "mounted" /\ disk' = image
  /\ open' = {} /\ handed' = {}
  /\ Returns("fs_mount", image, 0)
  /\ UNCHANGED process

(* The superblock and the signature in it are one piece of memory; on a    *)
(* bad signature or layout it is freed twice and the allocator aborts.     *)
fs_mount(image) ==
  \/ /\ ~block_disk_open(image)
     /\ Returns("fs_mount", image, -1)
     /\ UNCHANGED <<fs, disk, open, process, handed>>
  \/ /\ block_disk_open(image) /\ ~block_read_superblock(image)
     /\ MountFails(image, "unread")
  \/ /\ block_disk_open(image) /\ block_read_superblock(image) /\ ~GoodLayout(image)
     /\ Dies("aborted")
  \/ /\ block_disk_open(image) /\ block_read_superblock(image) /\ GoodLayout(image)
     /\ ~(GoodCounts(image) /\ image.eoc)
     /\ MountFails(image, "freed")
  \/ /\ block_disk_open(image) /\ block_read_superblock(image) /\ GoodLayout(image)
     /\ GoodCounts(image) /\ image.eoc
     /\ MountSucceeds(image)

(* The host fails to read a block that the disk has.  When it is a data    *)
(* block, the cleanup frees that one buffer data_size times.               *)
fs_mount_io_error(image) ==
  /\ block_disk_open(image) /\ block_read_superblock(image)
  /\ \/ MountFails(image, "unread")
     \/ GoodLayout(image) /\ GoodCounts(image) /\ MountFails(image, "freed")
     \/ GoodLayout(image) /\ GoodCounts(image) /\ image.eoc /\ image.data_size > 1
          /\ Dies("aborted")

UmountsOpenFiles ==            (* mutant: descriptors are not looked at     *)
  /\ fs = "mounted"
  /\ fs' = "freed" /\ disk' = NoDisk
  /\ Returns("fs_umount", disk, 0)
  /\ UNCHANGED <<open, process, handed>>

(* fs_umount of a mounted file system; it exits when a write fails.  On    *)
(* freed memory it frees the superblock again, or fails to write and       *)
(* exits; on memory never read into, if that is zero, it overwrites block  *)
(* 0 of a disk that has one and returns 0.                                 *)
fs_umount ==
  \/ /\ fs = "null" \/ open # {}
     /\ Returns("fs_umount", disk, -1)
     /\ UNCHANGED <<fs, disk, open, process, handed>>
  \/ /\ fs = "mounted" \/ (fs = "unread" /\ block_read_superblock(disk))
     /\ open = {}
     /\ fs' = "freed" /\ disk' = NoDisk
     /\ Returns("fs_umount", disk, 0)
     /\ UNCHANGED <<open, process, handed>>
  \/ /\ fs # "null" /\ open = {} /\ Dies("exited")
  \/ /\ fs \in {"freed", "unread"} /\ open = {} /\ Dies("aborted")

FullTableMissed(fd) ==         (* mutant: the loop falls off the table      *)
  \/ fd \in Fds \ open /\ \A g \in Fds \ open : fd <= g
  \/ open = Fds /\ fd = FS_OPEN_MAX_COUNT

open_table_find_empty_entry(fd) ==
  \/ fd \in Fds \ open /\ \A g \in Fds \ open : fd <= g
  \/ open = Fds /\ fd = -1

(* fs_open fails without a file of the name, whatever else is the case.    *)
fs_open ==
  \/ /\ Returns("fs_open", disk, -1)
     /\ UNCHANGED <<fs, disk, open, process, handed>>
  \/ \E fd \in -1..FS_OPEN_MAX_COUNT :
       /\ fs # "null"
       /\ open_table_find_empty_entry(fd) /\ fd # -1
       /\ open' = open \union {fd}
       /\ handed' = IF fs = "mounted" THEN handed \union {fd} ELSE handed
       /\ Returns("fs_open", disk, fd)
       /\ UNCHANGED <<fs, disk, process>>
  \/ fs \in {"freed", "unread"} /\ Dies("aborted")

(* fs_close touches the table only; where fs is not NULL it always works.  *)
fs_close(fd) ==
  \/ /\ fs = "null" \/ fd \notin open
     /\ Returns("fs_close", disk, -1)
     /\ UNCHANGED <<fs, disk, open, process, handed>>
  \/ /\ fs # "null" /\ fd \in open
     /\ open' = open \ {fd} /\ handed' = handed \ {fd}
     /\ Returns("fs_close", disk, 0)
     /\ UNCHANGED <<fs, disk, process>>

(* fs_info, fs_ls, fs_create, fs_delete, fs_stat, fs_lseek, fs_read and    *)
(* fs_write change none of the variables of this module.                   *)
OtherCall ==
  \/ /\ \E ret \in {-1, 0} :
          (fs = "null" => ret = -1) /\ Returns("other", disk, ret)
     /\ UNCHANGED <<fs, disk, open, process, handed>>
  \/ fs \in {"freed", "unread"} /\ Dies("aborted")

(* fs and disk are zero and invalid when the process starts; open_files is *)
(* all zero, and zero means open.                                          *)
Init ==
  /\ fs = "null" /\ disk = NoDisk /\ open = Fds /\ process = "running"
  /\ last = [call |-> "none", image |-> NoDisk, mounted |-> FALSE, ret |-> -1]
  /\ handed = {}

Next ==
  \/ \E image \in Images : fs_mount(image) \/ fs_mount_io_error(image)
  \/ fs_umount
  \/ fs_open
  \/ \E fd \in Fds : fs_close(fd)
  \/ OtherCall

Spec == Init /\ [][Next]_vars
-----------------------------------------------------------------------------
TypeOK ==
  /\ fs \in {"null", "unread", "mounted", "freed"}
  /\ disk \in Images \union {NoDisk}
  /\ open \subseteq Fds /\ handed \subseteq Fds
  /\ process \in {"running", "exited", "aborted"}
  /\ last \in [call : {"none", "fs_mount", "fs_umount", "fs_open", "fs_close", "other"},
               image : Images \union {NoDisk}, mounted : BOOLEAN, ret : Fds \union {-1}]

(* While a file system is mounted its disk is the open one, and it is one  *)
(* that fs_mount has found valid, whatever disks were tried before.        *)
MountedIsValid == fs = "mounted" => disk # NoDisk /\ Valid(disk)

(* The descriptors that are open in a mounted file system are those that   *)
(* fs_open returned since fs_mount: none is left over from an earlier      *)
(* session, from calls after fs_umount, or from the zeroed table.          *)
DescriptorsAreHanded == fs = "mounted" => open = handed

(* A mounted file system ends by fs_umount or with the process, all its    *)
(* files closed and its disk closed too; no fs_mount takes its place.      *)
EndsByUmount ==
  [][fs = "mounted" /\ (fs' # "mounted" \/ disk' # disk) =>
       fs' = "freed" /\ disk' = NoDisk /\ open = {} /\ last'.call = "fs_umount"]_vars

(* A call that returns -1 leaves a mounted file system as it was, be it    *)
(* fs_mount of another disk or fs_umount with open files.                  *)
RefusalsChangeNothing ==
  [][fs = "mounted" /\ last' # last /\ last'.ret = -1 => UNCHANGED <<fs, disk, open>>]_vars
-----------------------------------------------------------------------------
(***************************************************************************)
(* What fs.h says of the calls and the code does not do.                   *)
(***************************************************************************)
(* Every call but fs_mount returns -1 if no file system is mounted.        *)
CallsNeedMount ==
  last.call # "fs_mount" /\ ~last.mounted => last.ret = -1

(* fs_mount returns 0 for a valid disk while no file system is mounted and *)
(* the host reads what it is asked to (fs_mount_io_error is no fs_mount).  *)
MountFindsValid ==
  [][\A image \in Images :
       fs # "mounted" /\ Valid(image) /\ fs_mount(image) => last'.ret = 0]_vars
=============================================================================
