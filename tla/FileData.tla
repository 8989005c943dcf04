------------------------------ MODULE FileData ------------------------------
(***************************************************************************)
(* FatFs with the contents of files: the data blocks of the virtual disk,  *)
(* the bounce buffers of fs_read and fs_write, the buffer of the client,   *)
(* and block_read and block_write of disk.c on a host that may fail.       *)
(*                                                                         *)
(* The steps are those of FatFs.  A step of the loop of fs_write or        *)
(* fs_read moves its bytes as well.                                        *)
(***************************************************************************)
EXTENDS FatFs, Sequences

CONSTANTS
  Bytes,              (* what a byte may be                                 *)
  Hole,               (* no byte: beyond the blocks of a file               *)
  Buffers,            (* bound: what clients write                          *)
  Closed              (* the position of a closed descriptor                *)

ASSUME BytesAssumption ==
  0 \in Bytes /\ Hole \notin Bytes /\ \A w \in Buffers : w \in Seq(Bytes)
ASSUME ClosedAssumption == Closed \notin [name : Names, offset : Nat]

VARIABLES
  data,               (* the data blocks of the virtual disk                *)
  buf,                (* the buffer passed to fs_read or fs_write           *)
  host,               (* whether the host may fail to read and write        *)
  seen                (* not in the code: the contents of the files when    *)
                      (* the last call returned                             *)

dataVars == <<fat, root_dir, open_files, disk_fat, disk_root, phase, call,
              data, buf, host, seen>>

InBlock == 0..(BLOCK_SIZE - 1)
Block   == [InBlock -> Bytes]
-----------------------------------------------------------------------------
(* What block_read(b, bounce) leaves in a buffer fresh from malloc.  When  *)
(* the host fails, or reads less than a block, the rest is whatever the    *)
(* buffer held; the callers do not look at the result.                     *)
block_read(b, bounce) ==
  \/ bounce = data[b]
  \/ host = "failing" /\ bounce \in Block

(* What block_write(b, bounce) leaves on the disk: the block, or the first *)
(* n bytes of it when the host fails or writes less.                       *)
block_write(b, bounce) ==
  \/ data' = [data EXCEPT ![b] = bounce]
  \/ /\ host = "failing"
     /\ \E n \in InBlock :
          data' = [data EXCEPT ![b] = [k \in InBlock |-> IF k < n THEN bounce[k] ELSE @[k]]]

NotReadFirst(bounce) ==        (* mutant: a part of a block replaces it all *)
  [k \in InBlock |->
    IF k >= offset_in_current_block /\ k < offset_in_current_block + Moved
    THEN buf[call.done + k - offset_in_current_block + 1] ELSE 0]

(* The memcpy into the bounce buffer.                                      *)
Patched(bounce) ==
  [k \in InBlock |->
    IF k >= offset_in_current_block /\ k < offset_in_current_block + Moved
    THEN buf[call.done + k - offset_in_current_block + 1] ELSE bounce[k]]

PieceFromStart(bounce) ==      (* mutant: the offset in the block is lost   *)
  [k \in 1..Moved |-> bounce[k - 1]]

(* The memcpy out of the bounce buffer.                                    *)
Piece(bounce) == [k \in 1..Moved |-> bounce[offset_in_current_block + k - 1]]

WriteData ==
  /\ WriteBlock
  /\ \/ call.block = NoBlock /\ UNCHANGED data
     \/ /\ call.block # NoBlock
        /\ \E bounce \in Block :
             block_read(call.block, bounce) /\ block_write(call.block, Patched(bounce))
  /\ UNCHANGED buf

ReadData ==
  /\ ReadBlock
  /\ \/ call.block \in {NoBlock, FAT_EOC} /\ UNCHANGED buf
     \/ /\ call.block \notin {NoBlock, FAT_EOC}
        /\ \E bounce \in Block :
             block_read(call.block, bounce) /\ buf' = buf \o Piece(bounce)
  /\ UNCHANGED data

BeginRead(fd, count) == fs_read(fd, count) /\ buf' = <<>> /\ UNCHANGED data

BeginWrite(fd, w) == fs_write(fd, Len(w)) /\ buf' = w /\ UNCHANGED data

(* Everything else moves no bytes.                                         *)
Quiet ==
  /\ \/ Formatted /\ fs_mount
     \/ \E name \in Names : fs_create(name) \/ fs_delete(name) \/ fs_open(name)
     \/ \E fd \in Fds : fs_close(fd)
     \/ \E fd \in Fds, offset \in 0..MaxSize : fs_lseek(fd, offset)
     \/ UmountFat \/ UmountRoot
  /\ buf' = <<>> /\ UNCHANGED data

InCall == (Hop \/ Return) /\ UNCHANGED <<data, buf>>
-----------------------------------------------------------------------------
(* The n-th block of the chain from h in FAT f, or FAT_EOC behind its end. *)
NthBlock(f, h) ==
  LET nth[n \in 0..MaxSize] ==
        IF n = 0 THEN h ELSE IF nth[n - 1] = FAT_EOC THEN FAT_EOC ELSE f[nth[n - 1]]
  IN  nth

(* The bytes of the file of a directory entry.                             *)
ContentOf(f, entry) ==
  LET nth == NthBlock(f, entry.data_index)
  IN  [k \in 1..entry.size |->
        LET b == nth[(k - 1) \div BLOCK_SIZE]
        IN  IF b = FAT_EOC THEN Hole ELSE data[b][(k - 1) % BLOCK_SIZE]]

(* The files of the mounted file system by their names.                    *)
Contents ==
  [name \in {root_dir[i].filename : i \in Files(root_dir)} |->
    ContentOf(fat, root_dir[CHOOSE i \in Files(root_dir) : root_dir[i].filename = name])]

DataInit ==
  /\ Init
  /\ data = [b \in Blocks |-> [k \in InBlock |-> 0]]
  /\ buf = <<>>
  /\ host \in {"reliable", "failing"}
  /\ seen = <<>>

DataNext ==
  /\ \/ Quiet \/ InCall \/ WriteData \/ ReadData
     \/ \E fd \in Fds, count \in Counts : BeginRead(fd, count)
     \/ \E fd \in Fds, w \in Buffers : BeginWrite(fd, w)
  /\ seen' = IF call' = Idle THEN Contents' ELSE seen
  /\ UNCHANGED host

DataSpec == DataInit /\ [][DataNext]_dataVars
-----------------------------------------------------------------------------
Store == INSTANCE ByteStore WITH
  content <- seen,
  desc    <- [fd \in Fds |-> IF ~IsOpen(fd) THEN Closed ELSE
                [name   |-> root_dir[open_files[fd].index_in_rootdir].filename,
                 offset |-> open_files[fd].offset]],
  buf     <- IF call = Idle THEN buf ELSE <<>>

(* On a host that does not fail the library implements the store of        *)
(* ByteStore: a write is atomic and lands where the offset is, whatever    *)
(* blocks it touches; a read returns what the latest writes stored; no     *)
(* call changes another byte.  The exception: behind a hole, where no      *)
(* block is left for it, a write is lost and a read delivers anything.     *)
FilesAreByteStores ==
  Store!Init /\ [][host = "reliable" => Store!Next]_(Store!vars)

(* When the host fails the library does not tell (CountedBytesMoved), but  *)
(* no more is lost than the blocks of the call: every other byte and file  *)
(* keeps its contents, and sizes and offsets move as if all had gone well. *)
FailuresStayInCall == Store!FailingSpec

(* What fs.h says of the results of fs_write and fs_read, "the number of   *)
(* bytes actually written" or read: when the call returns, the bytes it    *)
(* counts are the same in the buffer and in the file, except those of the  *)
(* file that have no block.  A host that fails breaks it: the results of   *)
(* block_read and block_write are not looked at.                           *)
CountedBytesMoved ==
  call.pc = "return" =>
    LET file  == open_files[call.fd]
        entry == root_dir[file.index_in_rootdir]
        bytes == ContentOf(fat, [entry EXCEPT !.size = file.offset + call.done])
    IN  \A k \in 1..call.done : bytes[file.offset + k] \in {buf[k], Hole}
=============================================================================
