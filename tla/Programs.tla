------------------------------ MODULE Programs ------------------------------
(***************************************************************************)
(* Programs that use libfs one after the other on one virtual disk, and    *)
(* may die at any moment: apps/simple_writer.c, apps/simple_reader.c and   *)
(* apps/old_test_phase4.c, whose main functions are sequences of calls,    *)
(* and the script command of apps/test_fs.c, which makes any calls on its  *)
(* own file that a script may list.                                        *)
(*                                                                         *)
(* A failed ASSERT, die() and exit(1) end a process as a crash does, by    *)
(* the action Dies: what the programs check is a guard of their next step. *)
(***************************************************************************)
EXTENDS FileData

CONSTANTS
  MyFile, File,       (* "myfile" and "file"                                *)
  Letters,            (* what simple_writer writes: 26 bytes                *)
  ReadAt, ReadCount,  (* what simple_reader reads: 10 bytes from 12 on      *)
  As                  (* what old_test_phase4 writes: 10 bytes              *)

ASSUME ProgramsAssumption ==
  /\ MyFile \in Names \ LongNames /\ File \in Names \ LongNames
  /\ MyFile # File /\ NoName \notin {MyFile, File}
  /\ Letters \in Seq(Bytes) /\ As \in Seq(Bytes)
  /\ ReadAt \in Nat /\ ReadCount \in Nat \ {0} /\ ReadAt + ReadCount <= Len(Letters)

VARIABLES
  prog,               (* the program that runs, or "none"                   *)
  line,               (* the next call of its main function                 *)
  fd                  (* its variable for the descriptor                    *)

progVars == <<dataVars, prog, line, fd>>

NoFd == -1

Line(c, arg) == [call |-> c, arg |-> arg]

simple_writer ==
  <<Line("fs_mount", 0), Line("fs_create", MyFile), Line("fs_open", MyFile),
    Line("fs_write", Letters), Line("fs_close", 0), Line("fs_umount", 0)>>

simple_reader ==
  <<Line("fs_mount", 0), Line("fs_open", MyFile), Line("fs_lseek", ReadAt),
    Line("fs_read", ReadCount), Line("fs_close", 0), Line("fs_umount", 0)>>

old_test_phase4 ==
  <<Line("fs_mount", 0), Line("fs_open", File), Line("fs_write", As),
    Line("fs_close", 0), Line("fs_umount", 0)>>

Main == [simple_writer |-> simple_writer, simple_reader |-> simple_reader,
         old_test_phase4 |-> old_test_phase4]

Opens(name) == fs_open(name) /\ \E g \in Fds : IsFirst(g, EmptyFds) /\ fd' = g

(* The call of line l: all of it, or the first step of a longer one.  Only *)
(* simple_reader goes on when fs_lseek fails.                              *)
Begins(l) ==
  \/ /\ \/ l.call = "fs_mount" /\ fs_mount
        \/ l.call = "fs_create" /\ fs_create(l.arg)
        \/ l.call = "fs_delete" /\ fs_delete(l.arg)
        \/ l.call = "fs_lseek" /\ fs_lseek(fd, l.arg)
        \/ /\ l.call = "fs_lseek" /\ prog = "simple_reader" /\ l.arg > fs_stat(fd)
           /\ UNCHANGED <<memory, disk, phase, call>>
        \/ l.call = "fs_close" /\ fs_close(fd)
        \/ l.call = "fs_umount" /\ UmountFat
     /\ UNCHANGED <<fd, data, buf>>
  \/ l.call = "fs_open" /\ Opens(l.arg) /\ UNCHANGED <<data, buf>>
  \/ l.call = "fs_read" /\ BeginRead(fd, l.arg) /\ UNCHANGED fd
  \/ l.call = "fs_write" /\ BeginWrite(fd, l.arg) /\ UNCHANGED fd

(* The lines of scripts.  A line whose call fails, a missing MOUNT apart,  *)
(* and the end of a script make the call of UMOUNT as well.                *)
thread_fs_script ==
  \/ \E c \in {"fs_mount", "fs_close", "fs_umount"} : Begins(Line(c, 0))
  \/ \E c \in {"fs_create", "fs_delete", "fs_open"} : Begins(Line(c, File))
  \/ \E offset \in 0..MaxSize : Begins(Line("fs_lseek", offset))
  \/ \E w \in Buffers : Begins(Line("fs_write", w))
  \/ \E n \in Counts : Begins(Line("fs_read", n))

(* What simple_reader expects to read.                                     *)
Expected == SubSeq(Letters, ReadAt + 1, ReadAt + ReadCount)

(* The check of the result of fs_read or fs_write, if the program has one. *)
Passes ==
  \/ prog = "script"
  \/ prog = "simple_reader" /\ call.done = ReadCount /\ buf = Expected
  \/ prog = "simple_writer" /\ call.done = Len(Letters)
  \/ prog = "old_test_phase4" /\ call.done = Len(As)

NextLine == IF prog = "script" THEN line ELSE line + 1

Starts ==
  /\ prog = "none" /\ prog' \in DOMAIN Main \union {"script"}
  /\ UNCHANGED <<line, fd, memory, disk, phase, call, data, buf>>

Ends == prog' = "none" /\ line' = 1 /\ fd' = NoFd

(* A program makes its next call, ...                                      *)
MakesCall ==
  /\ \/ prog = "script" /\ thread_fs_script
     \/ prog \in DOMAIN Main /\ Begins(Main[prog][line])
  /\ line' = IF call' = Idle /\ phase' = "mounted" THEN NextLine ELSE line
  /\ UNCHANGED prog

(* ... is inside fs_read or fs_write, ...                                  *)
InTransfer ==
  /\ (Hop /\ UNCHANGED <<data, buf>>) \/ WriteData \/ ReadData
  /\ UNCHANGED <<prog, line, fd>>

(* ... goes on after it if its check is passed, ...                        *)
Returns ==
  /\ Return /\ Passes
  /\ line' = NextLine /\ buf' = <<>>
  /\ UNCHANGED <<prog, fd, data>>

(* ... and has finished with fs_umount, save for a script.                 *)
Unmounts ==
  /\ UmountRoot
  /\ IF prog = "script" THEN UNCHANGED <<prog, line, fd>> ELSE Ends
  /\ UNCHANGED <<data, buf>>

(* The process dies, or a check fails, or a script ends unmounted.         *)
Dies ==
  /\ prog # "none" /\ Ends
  /\ Crash \/ (phase = "unmounted" /\ UNCHANGED <<memory, disk, phase, call>>)
  /\ buf' = <<>> /\ UNCHANGED data

ProgInit ==
  /\ DataInit /\ host = "reliable"
  /\ prog = "none" /\ line = 1 /\ fd = NoFd

ProgNext ==
  /\ Starts \/ MakesCall \/ InTransfer \/ Returns \/ Unmounts \/ Dies
  /\ UNCHANGED <<host, seen>>

ProgSpec == ProgInit /\ [][ProgNext]_progVars
-----------------------------------------------------------------------------
(* If simple_reader finds the file its check is passed, whenever the       *)
(* programs before it, simple_writer among them, have died: a name is on   *)
(* the disk only when all the bytes are.                                   *)
ReaderPasses == prog = "simple_reader" /\ call.pc = "return" => Passes

(* The disk has the file of simple_writer, whole.                          *)
OnDisk ==
  \E i \in Files(disk_root) :
    disk_root[i].filename = MyFile /\ ContentOf(disk_fat, disk_root[i]) = Letters

(* Once simple_writer has unmounted its file is on the disk, and stays     *)
(* there at every instant, whatever programs that do not touch it write,   *)
(* delete or save, and whenever they die.                                  *)
SavedForGood ==
  [][OnDisk \/ (prog = "simple_writer" /\ prog' = "none" /\ UmountRoot) => OnDisk']_progVars

(* A script that opens a file while it has one open keeps no way to close  *)
(* the first, and its UMOUNT fails.  From then on it saves no metadata:    *)
(* the disk's FAT and directory stay as its last MOUNT found them.         *)
(* Its writes are not all lost: what it writes into blocks that File has   *)
(* on the disk is there at once.  The other files there keep every byte.   *)
LostDescriptorSavesNoMetadata ==
  [][prog = "script" /\ (\E g \in Fds \ {fd} : IsOpen(g)) =>
       /\ UNCHANGED disk
       /\ \A i \in Files(disk_root) : disk_root[i].filename # File =>
            ContentOf(disk_fat, disk_root[i])' = ContentOf(disk_fat, disk_root[i])
       /\ prog' = "none" \/ \E g \in Fds \ {fd'} : IsOpen(g)']_progVars
=============================================================================
