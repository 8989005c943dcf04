--------------------------- MODULE ProgramsProofs ---------------------------
(***************************************************************************)
(* Theorems about Programs.                                                *)
(*                                                                         *)
(* Part 1: how the table of open files goes on.  Parts 2 to 5: the file of *)
(* simple_writer, on the disk and in memory, whatever the other programs   *)
(* do; part 6: the theorems, and what a script saves that has lost a       *)
(* descriptor.                                                             *)
(***************************************************************************)
EXTENDS Programs, DataProofs, UnsyncedProofs, TLAPS

(* The table keeps its shape, whatever numbers it holds.                   *)
Table ==
  /\ open_files = [g \in Fds |-> open_files[g]]
  /\ \A g \in Fds :
       open_files[g] = [empty            |-> open_files[g].empty,
                        index_in_rootdir |-> open_files[g].index_in_rootdir,
                        offset           |-> open_files[g].offset]

(* Files are open only in the table of a mounted file system.              *)
Tabled == Table /\ (phase # "mounted" => EmptyFds = Fds)

(* What a step does to the descriptors and to the disk: it closes all,     *)
(* opens the one that fd is set to, closes fd, or opens and closes none.   *)
AllEmpty     == \A g \in Fds : open_files'[g].empty
SameOpen     == \A g \in Fds : open_files'[g].empty = open_files[g].empty
OpensFd      == \A g \in Fds : g # fd' => open_files'[g].empty = open_files[g].empty
ClosesFd     == \A g \in Fds : g # fd => open_files'[g].empty = open_files[g].empty

LEMMA OffsetsKeepTable ==
  ASSUME Table, NEW g, NEW offset,
         open_files' = [open_files EXCEPT ![g].offset = offset]
  PROVE  Table' /\ SameOpen
<1>1. open_files' = [h \in Fds |-> IF h = g THEN [open_files[h] EXCEPT !.offset = offset]
                                   ELSE open_files[h]]
  BY DEF Table
<1>2. \A h \in Fds :
        [open_files[h] EXCEPT !.offset = offset]
          = [empty |-> open_files[h].empty,
             index_in_rootdir |-> open_files[h].index_in_rootdir, offset |-> offset]
  BY DEF Table
<1>3. \A h \in Fds :
        \/ open_files'[h] = open_files[h]
        \/ open_files'[h] = [empty |-> open_files[h].empty,
                             index_in_rootdir |-> open_files[h].index_in_rootdir,
                             offset |-> offset]
  BY <1>1, <1>2
<1> QED
  BY <1>1, <1>3 DEF Table, SameOpen

LEMMA EntriesKeepTable ==
  ASSUME Table, open_files' = [g \in Fds |-> open_files'[g]],
         \A g \in Fds :
           \/ open_files'[g] = open_files[g]
           \/ open_files'[g] = ClosedFile
           \/ \E i : open_files'[g] = [empty |-> FALSE, index_in_rootdir |-> i, offset |-> 0]
  PROVE  Table'
BY DEF Table, ClosedFile

LEMMA ClosedTable ==
  ASSUME open_files' = AllClosed
  PROVE  Table' /\ AllEmpty
BY DEF AllClosed, ClosedFile, Table, AllEmpty

(* One call of a program, or its first step.                               *)
LEMMA BeginsTabled ==
  ASSUME Tabled, NEW l, Begins(l)
  PROVE  /\ Table'
         /\ phase' # "mounted" => EmptyFds = Fds /\ UNCHANGED open_files
         /\ \/ EmptyFds = Fds
            \/ /\ UNCHANGED <<disk, phase>>
               /\ fd' = fd \/ fd' \in EmptyFds
               /\ OpensFd \/ (ClosesFd /\ fd' = fd)
<1>0. fd' = fd \/ fd' \in EmptyFds
  <2>1. (UNCHANGED fd) \/ \E name : Opens(name)
    BY Zenon DEF Begins
  <2> QED
    BY <2>1 DEF Opens, IsFirst
<1>1. CASE fs_mount
  <2>1. phase = "unmounted" /\ open_files' = AllClosed /\ phase' = "mounted"
    BY <1>1 DEF fs_mount
  <2> QED
    BY <2>1, ClosedTable DEF Tabled
<1>2. CASE \E name : fs_create(name) \/ fs_delete(name)
  <2>1. UNCHANGED <<open_files, disk, phase>> /\ phase = "mounted"
    BY <1>2 DEF fs_create, fs_delete, CreatesAt, Ready
  <2> QED
    BY <1>0, <2>1 DEF Tabled, Table, OpensFd
<1>3. CASE \E offset : fs_lseek(fd, offset)
  <2>1. PICK offset : fs_lseek(fd, offset)
    BY <1>3
  <2>2. /\ UNCHANGED <<disk, phase>> /\ phase = "mounted"
        /\ open_files' = [open_files EXCEPT ![fd].offset = offset]
    BY <2>1 DEF fs_lseek, Ready
  <2> QED
    BY <1>0, <2>2, OffsetsKeepTable DEF Tabled, OpensFd, SameOpen
<1>4. CASE UNCHANGED <<memory, disk, phase, call>>
  BY <1>0, <1>4 DEF memory, Tabled, Table, OpensFd
<1>5. CASE fs_close(fd) /\ UNCHANGED fd
  <2>1. /\ UNCHANGED <<disk, phase>> /\ phase = "mounted"
        /\ open_files' = [open_files EXCEPT ![fd] = ClosedFile]
    BY <1>5 DEF fs_close, Ready
  <2>2. Table' /\ \A h \in Fds : h # fd => open_files'[h].empty = open_files[h].empty
    <3>1. /\ open_files' = [h \in Fds |-> open_files'[h]]
          /\ \A h \in Fds : open_files'[h] = IF h = fd THEN ClosedFile ELSE open_files[h]
      BY <2>1 DEF Tabled, Table
    <3> QED
      BY <3>1, EntriesKeepTable DEF Tabled
  <2> QED
    BY <1>5, <2>1, <2>2 DEF ClosesFd
<1>6. CASE UmountFat
  BY <1>6 DEF UmountFat, memory, Tabled, Table
<1>7. CASE \E name : Opens(name)
  <2>1. PICK name : Opens(name)
    BY <1>7
  <2>2. PICK i \in Slots, g \in Fds :
          /\ IsFirst(g, EmptyFds)
          /\ open_files' = [open_files EXCEPT
               ![g] = [empty |-> FALSE, index_in_rootdir |-> i, offset |-> 0]]
    BY <2>1 DEF Opens, fs_open
  <2>3. UNCHANGED <<disk, phase>> /\ phase = "mounted"
    BY <2>1 DEF Opens, fs_open, Ready
  <2>4. PICK h \in Fds : IsFirst(h, EmptyFds) /\ fd' = h
    BY <2>1 DEF Opens
  <2>5. g = h
    <3>1. g <= h /\ h <= g
      BY <2>2, <2>4 DEF IsFirst
    <3>2. g \in Int /\ h \in Int
      BY DEF Fds
    <3> QED
      BY <3>1, <3>2
  <2>6. Table' /\ \A k \in Fds : k # g => open_files'[k].empty = open_files[k].empty
    <3>1. /\ open_files' = [k \in Fds |-> open_files'[k]]
          /\ \A k \in Fds : open_files'[k] =
               IF k = g THEN [empty |-> FALSE, index_in_rootdir |-> i, offset |-> 0]
               ELSE open_files[k]
      BY <2>2 DEF Tabled, Table
    <3>2. Table'
      BY <3>1, EntriesKeepTable DEF Tabled
    <3> QED
      BY <3>1, <3>2
  <2> QED
    BY <1>0, <2>3, <2>4, <2>5, <2>6 DEF OpensFd
<1>8. CASE \E count : fs_read(fd, count) \/ fs_write(fd, count)
  <2>1. UNCHANGED <<open_files, disk, phase>> /\ phase = "mounted"
    BY <1>8 DEF fs_read, fs_write, Ready
  <2> QED
    BY <1>0, <2>1 DEF Tabled, Table, OpensFd
<1> QED
  <2>1. \/ fs_mount
        \/ fs_create(l.arg) \/ fs_delete(l.arg)
        \/ fs_lseek(fd, l.arg)
        \/ UNCHANGED <<memory, disk, phase, call>>
        \/ fs_close(fd) /\ UNCHANGED fd
        \/ UmountFat
        \/ Opens(l.arg)
        \/ fs_read(fd, l.arg) \/ fs_write(fd, Len(l.arg))
    BY Zenon DEF Begins, BeginRead, BeginWrite
  <2> QED
    BY <1>1, <1>2, <1>3, <1>4, <1>5, <1>6, <1>7, <1>8, <2>1

LEMMA NextTabled ==
  ASSUME Tabled, [ProgNext]_progVars
  PROVE  Tabled'
<1>1. CASE Begins(Line("fs_mount", 0)) \/ \E l : Begins(l)
  <2>1. PICK l : Begins(l)
    BY <1>1
  <2> QED
    BY <2>1, BeginsTabled DEF Tabled, EmptyFds
<1>2. CASE UNCHANGED <<open_files, phase>>
  BY <1>2 DEF Tabled, Table, EmptyFds
<1>3. CASE Return
  <2>1. PICK offset : open_files' = [open_files EXCEPT ![call.fd].offset = offset]
    BY <1>3 DEF Return
  <2>2. UNCHANGED phase /\ Table' /\ SameOpen
    BY <1>3, <2>1, OffsetsKeepTable DEF Return, Tabled
  <2> QED
    BY <2>2 DEF Tabled, EmptyFds, SameOpen
<1>4. CASE UmountRoot
  BY <1>4 DEF UmountRoot, memory, Tabled, Table, EmptyFds
<1>5. CASE Crash
  BY <1>5, ClosedTable DEF Crash, Tabled, EmptyFds, AllEmpty
<1>6. MakesCall => \E l : Begins(l)
  BY Zenon DEF MakesCall, thread_fs_script
<1>7. InTransfer => UNCHANGED <<open_files, phase>>
  BY DEF InTransfer, Hop, WriteData, ReadData, WriteBlock, ReadBlock, memory
<1>8. Starts \/ UNCHANGED progVars => UNCHANGED <<open_files, phase>>
  BY DEF Starts, memory, progVars, dataVars
<1>9. Dies => Crash \/ UNCHANGED <<open_files, phase>>
  BY DEF Dies, memory
<1> QED
  BY <1>1, <1>2, <1>3, <1>4, <1>5, <1>6, <1>7, <1>8, <1>9 DEF ProgNext, Returns, Unmounts

(***************************************************************************)
(* Part 2: what the next call of a program is.                             *)
(***************************************************************************)
At(p, n) == prog = p /\ line = n

Mounts == fs_mount /\ UNCHANGED <<fd, data, buf>> /\ (prog = "script" \/ line = 1)

Creates(name) ==
  /\ fs_create(name) /\ UNCHANGED <<fd, data, buf>>
  /\ (prog = "script" /\ name = File) \/ (At("simple_writer", 2) /\ name = MyFile)

Deletes == fs_delete(File) /\ UNCHANGED <<fd, data, buf>> /\ prog = "script"

(* The name a program opens.                                               *)
Mine == IF prog \in {"simple_writer", "simple_reader"} THEN MyFile ELSE File

OpensIts ==
  /\ Opens(Mine) /\ UNCHANGED <<data, buf>>
  /\ \/ prog = "script" \/ At("simple_writer", 3)
     \/ At("simple_reader", 2) \/ At("old_test_phase4", 2)

Seeks(offset) ==
  /\ fs_lseek(fd, offset) /\ UNCHANGED <<fd, data, buf>> /\ offset \in Nat
  /\ prog = "script" \/ (At("simple_reader", 3) /\ offset = ReadAt)

SeekFails ==
  /\ At("simple_reader", 3) /\ ReadAt > fs_stat(fd)
  /\ UNCHANGED <<memory, disk, phase, call, fd, data, buf>>

(* The line of fs_umount, and that of fs_read or fs_write.                 *)
LastLine == IF prog = "old_test_phase4" THEN 5 ELSE 6
Transfer == IF prog = "old_test_phase4" THEN 3 ELSE 4

Closes == fs_close(fd) /\ UNCHANGED <<fd, data, buf>> /\ (prog = "script" \/ line = Transfer + 1)

Saves == UmountFat /\ UNCHANGED <<fd, data, buf>> /\ (prog = "script" \/ line = LastLine)

Reads(count) ==
  /\ BeginRead(fd, count) /\ UNCHANGED fd /\ count \in Nat
  /\ prog = "script" \/ (At("simple_reader", 4) /\ count = ReadCount)

Writes(w) ==
  /\ BeginWrite(fd, w) /\ UNCHANGED fd /\ w \in Seq(Bytes)
  /\ \/ prog = "script"
     \/ At("simple_writer", 4) /\ w = Letters
     \/ At("old_test_phase4", 3)

ACall ==
  \/ Mounts \/ Deletes \/ OpensIts \/ SeekFails \/ Closes \/ Saves
  \/ Creates(File) \/ Creates(MyFile)
  \/ \E offset \in Nat : Seeks(offset)
  \/ \E count \in Nat : Reads(count)
  \/ \E w \in Seq(Bytes) : Writes(w)

LEMMA MainLines ==
  /\ DOMAIN Main = {"simple_writer", "simple_reader", "old_test_phase4"}
  /\ Main["simple_writer"] = simple_writer
  /\ Main["simple_reader"] = simple_reader
  /\ Main["old_test_phase4"] = old_test_phase4
BY DEF Main

(* A line of main or of a script, taken apart.                             *)
LEMMA LineBegins ==
  ASSUME NEW c \in {"fs_mount", "fs_create", "fs_delete", "fs_open", "fs_lseek",
                    "fs_close", "fs_umount", "fs_read", "fs_write"},
         NEW arg, Begins(Line(c, arg))
  PROVE  /\ c = "fs_mount" => fs_mount /\ UNCHANGED <<fd, data, buf>>
         /\ c = "fs_create" => fs_create(arg) /\ UNCHANGED <<fd, data, buf>>
         /\ c = "fs_delete" => fs_delete(arg) /\ UNCHANGED <<fd, data, buf>>
         /\ c = "fs_close" => fs_close(fd) /\ UNCHANGED <<fd, data, buf>>
         /\ c = "fs_umount" => UmountFat /\ UNCHANGED <<fd, data, buf>>
         /\ c = "fs_lseek" => \/ fs_lseek(fd, arg) /\ UNCHANGED <<fd, data, buf>>
                              \/ /\ prog = "simple_reader" /\ arg > fs_stat(fd)
                                 /\ UNCHANGED <<memory, disk, phase, call>>
                                 /\ UNCHANGED <<fd, data, buf>>
         /\ c = "fs_open" => Opens(arg) /\ UNCHANGED <<data, buf>>
         /\ c = "fs_read" => BeginRead(fd, arg) /\ UNCHANGED fd
         /\ c = "fs_write" => BeginWrite(fd, arg) /\ UNCHANGED fd
<1>1. Line(c, arg).call = c /\ Line(c, arg).arg = arg
  BY DEF Line
<1> HIDE DEF Line
<1>2. PICK l : l.call = c /\ l.arg = arg /\ Begins(l)
  BY <1>1
<1> QED
  BY <1>2, Zenon DEF Begins

(* Where in its main function a program is.                                *)
Control ==
  /\ prog \in {"none", "script", "simple_writer", "simple_reader", "old_test_phase4"}
  /\ prog \in {"none", "script"} => line = 1
  /\ prog = "none" => phase = "unmounted"
  /\ prog \notin {"none", "script"} =>
       /\ line \in 1..LastLine
       /\ line = 1 <=> phase = "unmounted"
       /\ phase = "umounting" => line = LastLine
       /\ call # Idle => line = Transfer /\ call.op = IF prog = "simple_reader" THEN "read" ELSE "write"

LEMMA ScriptCalls ==
  ASSUME prog = "script", thread_fs_script
  PROVE  ACall
<1>1. 0..MaxSize \subseteq Nat /\ Counts \subseteq Nat /\ Buffers \subseteq Seq(Bytes)
  <2>1. \A w \in Buffers : w \in Seq(Bytes)
    BY BytesAssumption, Zenon
  <2> QED
    BY <2>1, BoundsAssumption
<1>2. Mine = File
  BY DEF Mine
<1>3. CASE \E c \in {"fs_mount", "fs_close", "fs_umount"} : Begins(Line(c, 0))
  <2>1. PICK c \in {"fs_mount", "fs_close", "fs_umount"} : Begins(Line(c, 0))
    BY <1>3
  <2>2. \/ fs_mount /\ UNCHANGED <<fd, data, buf>>
        \/ fs_close(fd) /\ UNCHANGED <<fd, data, buf>>
        \/ UmountFat /\ UNCHANGED <<fd, data, buf>>
    BY <2>1, LineBegins
  <2> QED
    BY <2>2 DEF ACall, Mounts, Closes, Saves
<1>4. CASE \E c \in {"fs_create", "fs_delete", "fs_open"} : Begins(Line(c, File))
  <2>1. PICK c \in {"fs_create", "fs_delete", "fs_open"} : Begins(Line(c, File))
    BY <1>4
  <2>2. \/ fs_create(File) /\ UNCHANGED <<fd, data, buf>>
        \/ fs_delete(File) /\ UNCHANGED <<fd, data, buf>>
        \/ Opens(File) /\ UNCHANGED <<data, buf>>
    BY <2>1, LineBegins
  <2> QED
    BY <1>2, <2>2 DEF ACall, Creates, Deletes, OpensIts
<1>5. CASE \E offset \in 0..MaxSize : Begins(Line("fs_lseek", offset))
  <2>1. PICK offset \in 0..MaxSize : Begins(Line("fs_lseek", offset))
    BY <1>5
  <2>2. fs_lseek(fd, offset) /\ UNCHANGED <<fd, data, buf>>
    BY <2>1, LineBegins
  <2> QED
    BY <1>1, <2>2 DEF ACall, Seeks
<1>6. CASE \E w \in Buffers : Begins(Line("fs_write", w))
  <2>1. PICK w \in Buffers : Begins(Line("fs_write", w))
    BY <1>6
  <2>2. BeginWrite(fd, w) /\ UNCHANGED fd
    BY <2>1, LineBegins
  <2> QED
    BY <1>1, <2>2 DEF ACall, Writes
<1>7. CASE \E n \in Counts : Begins(Line("fs_read", n))
  <2>1. PICK n \in Counts : Begins(Line("fs_read", n))
    BY <1>7
  <2>2. BeginRead(fd, n) /\ UNCHANGED fd
    BY <2>1, LineBegins
  <2> QED
    BY <1>1, <2>2 DEF ACall, Reads
<1> QED
  BY <1>3, <1>4, <1>5, <1>6, <1>7 DEF thread_fs_script

LEMMA CallsAreCalls ==
  ASSUME Control, MakesCall
  PROVE  ACall
<1>1. CASE prog = "script"
  BY <1>1, MainLines, ScriptCalls DEF MakesCall
<1>2. CASE prog = "simple_writer"
  <2>1. line \in 1..6 /\ Begins(simple_writer[line]) /\ Mine = MyFile /\ Transfer = 4 /\ LastLine = 6
    BY <1>2, MainLines DEF MakesCall, Control, Mine, Transfer, LastLine
  <2>2. \/ line = 1 /\ Begins(Line("fs_mount", 0))
        \/ line = 2 /\ Begins(Line("fs_create", MyFile))
        \/ line = 3 /\ Begins(Line("fs_open", MyFile))
        \/ line = 4 /\ Begins(Line("fs_write", Letters))
        \/ line = 5 /\ Begins(Line("fs_close", 0))
        \/ line = 6 /\ Begins(Line("fs_umount", 0))
    BY <2>1 DEF simple_writer
  <2>3. \/ line = 1 /\ fs_mount /\ UNCHANGED <<fd, data, buf>>
        \/ line = 2 /\ fs_create(MyFile) /\ UNCHANGED <<fd, data, buf>>
        \/ line = 3 /\ Opens(MyFile) /\ UNCHANGED <<data, buf>>
        \/ line = 4 /\ BeginWrite(fd, Letters) /\ UNCHANGED fd
        \/ line = 5 /\ fs_close(fd) /\ UNCHANGED <<fd, data, buf>>
        \/ line = 6 /\ UmountFat /\ UNCHANGED <<fd, data, buf>>
    BY <2>2, LineBegins
  <2>4. Letters \in Seq(Bytes)
    BY ProgramsAssumption
  <2> QED
    BY <1>2, <2>1, <2>3, <2>4 DEF ACall, At, Mounts, Creates, OpensIts, Writes, Closes, Saves
<1>3. CASE prog = "simple_reader"
  <2>1. line \in 1..6 /\ Begins(simple_reader[line]) /\ Mine = MyFile /\ Transfer = 4 /\ LastLine = 6
    BY <1>3, MainLines DEF MakesCall, Control, Mine, Transfer, LastLine
  <2>2. \/ line = 1 /\ Begins(Line("fs_mount", 0))
        \/ line = 2 /\ Begins(Line("fs_open", MyFile))
        \/ line = 3 /\ Begins(Line("fs_lseek", ReadAt))
        \/ line = 4 /\ Begins(Line("fs_read", ReadCount))
        \/ line = 5 /\ Begins(Line("fs_close", 0))
        \/ line = 6 /\ Begins(Line("fs_umount", 0))
    BY <2>1 DEF simple_reader
  <2>3. \/ line = 1 /\ fs_mount /\ UNCHANGED <<fd, data, buf>>
        \/ line = 2 /\ Opens(MyFile) /\ UNCHANGED <<data, buf>>
        \/ line = 3 /\ fs_lseek(fd, ReadAt) /\ UNCHANGED <<fd, data, buf>>
        \/ /\ line = 3 /\ ReadAt > fs_stat(fd) /\ UNCHANGED <<memory, disk, phase, call>>
           /\ UNCHANGED <<fd, data, buf>>
        \/ line = 4 /\ BeginRead(fd, ReadCount) /\ UNCHANGED fd
        \/ line = 5 /\ fs_close(fd) /\ UNCHANGED <<fd, data, buf>>
        \/ line = 6 /\ UmountFat /\ UNCHANGED <<fd, data, buf>>
    BY <2>2, LineBegins
  <2>4. ReadAt \in Nat /\ ReadCount \in Nat
    BY ProgramsAssumption
  <2> QED
    BY <1>3, <2>1, <2>3, <2>4
       DEF ACall, At, Mounts, OpensIts, Seeks, SeekFails, Reads, Closes, Saves
<1>4. CASE prog = "old_test_phase4"
  <2>1. line \in 1..5 /\ Begins(old_test_phase4[line]) /\ Mine = File /\ Transfer = 3 /\ LastLine = 5
    BY <1>4, MainLines DEF MakesCall, Control, Mine, Transfer, LastLine
  <2>2. \/ line = 1 /\ Begins(Line("fs_mount", 0))
        \/ line = 2 /\ Begins(Line("fs_open", File))
        \/ line = 3 /\ Begins(Line("fs_write", As))
        \/ line = 4 /\ Begins(Line("fs_close", 0))
        \/ line = 5 /\ Begins(Line("fs_umount", 0))
    BY <2>1 DEF old_test_phase4
  <2>3. \/ line = 1 /\ fs_mount /\ UNCHANGED <<fd, data, buf>>
        \/ line = 2 /\ Opens(File) /\ UNCHANGED <<data, buf>>
        \/ line = 3 /\ BeginWrite(fd, As) /\ UNCHANGED fd
        \/ line = 4 /\ fs_close(fd) /\ UNCHANGED <<fd, data, buf>>
        \/ line = 5 /\ UmountFat /\ UNCHANGED <<fd, data, buf>>
    BY <2>2, LineBegins
  <2>4. As \in Seq(Bytes)
    BY ProgramsAssumption
  <2> QED
    BY <1>4, <2>1, <2>3, <2>4 DEF ACall, At, Mounts, OpensIts, Writes, Closes, Saves
<1> QED
  BY <1>1, <1>2, <1>3, <1>4, MainLines DEF MakesCall

LEMMA ProgramNames ==
  /\ MyFile \in Names /\ File \in Names /\ Mine \in Names
  /\ MyFile # File /\ MyFile # NoName /\ File # NoName
  /\ Letters \in Seq(Bytes) /\ Len(Letters) \in Nat
  /\ ReadAt \in Nat /\ ReadCount \in Nat /\ ReadCount > 0 /\ ReadAt + ReadCount <= Len(Letters)
  /\ Len(Letters) > 0
BY ProgramsAssumption DEF Mine

LEMMA CallIsAnyNext == ACall => [AnyNext]_vars
<1> SUFFICES ASSUME ACall
             PROVE  [AnyNext]_vars
  OBVIOUS
<1>1. CASE Mounts
  BY <1>1 DEF Mounts, AnyNext
<1>2. CASE Deletes
  BY <1>2, ProgramNames DEF Deletes, AnyNext, AnyCalls
<1>3. CASE OpensIts
  BY <1>3, ProgramNames DEF OpensIts, Opens, AnyNext, AnyCalls
<1>4. CASE SeekFails
  BY <1>4 DEF SeekFails, memory, disk, vars
<1>5. CASE Closes
  <2>1. fs_close(fd) /\ fd \in Fds
    BY <1>5 DEF Closes, fs_close, IsOpen
  <2> QED
    BY <2>1 DEF AnyNext, AnyCalls
<1>6. CASE Saves
  BY <1>6 DEF Saves, AnyNext, AnyCalls
<1>7. CASE Creates(File) \/ Creates(MyFile)
  BY <1>7, ProgramNames DEF Creates, AnyNext, AnyCalls
<1>8. ASSUME NEW offset \in Nat, Seeks(offset)
      PROVE  [AnyNext]_vars
  <2>1. fs_lseek(fd, offset) /\ fd \in Fds
    BY <1>8 DEF Seeks, fs_lseek, IsOpen
  <2> QED
    BY <2>1 DEF AnyNext, AnyCalls
<1>9. ASSUME NEW count \in Nat, Reads(count)
      PROVE  [AnyNext]_vars
  <2>1. fs_read(fd, count) /\ fd \in Fds
    BY <1>9 DEF Reads, BeginRead, fs_read, IsOpen
  <2> QED
    BY <2>1 DEF AnyNext, AnyCalls
<1>10. ASSUME NEW w \in Seq(Bytes), Writes(w)
       PROVE  [AnyNext]_vars
  <2>1. fs_write(fd, Len(w)) /\ fd \in Fds /\ Len(w) \in Nat
    BY <1>10 DEF Writes, BeginWrite, fs_write, IsOpen
  <2> QED
    BY <2>1 DEF AnyNext, AnyCalls
<1> QED
  BY <1>1, <1>2, <1>3, <1>4, <1>5, <1>6, <1>7, <1>8, <1>9, <1>10 DEF ACall

LEMMA ProgramsAreAnyNext == Control /\ [ProgNext]_progVars => [AnyNext]_vars
<1>1. MakesCall /\ Control => [AnyNext]_vars
  BY CallsAreCalls, CallIsAnyNext
<1>2. Starts \/ UNCHANGED progVars => UNCHANGED vars
  BY DEF Starts, progVars, dataVars, vars, memory, disk
<1>3. InTransfer \/ Returns \/ Unmounts => AnyNext
  BY DEF InTransfer, Returns, Unmounts, WriteData, ReadData, AnyNext, Running
<1>4. Dies => [AnyNext]_vars
  BY DEF Dies, AnyNext, vars, memory, disk
<1> QED
  BY <1>1, <1>2, <1>3, <1>4 DEF ProgNext

(* What the calls do to the phase and to the call in progress.             *)
LEMMA BeginsCall ==
  ASSUME NEW op \in {"read", "write"}, NEW g, NEW left \in Int, Enter(op, g, left)
  PROVE  call'.op = op /\ call'.fd = g /\ call' # Idle
<1>1. call'.op = op /\ call'.fd = g
  BY EnterFrame
<1>2. Idle.op = "none"
  BY DEF Idle
<1> QED
  BY <1>1, <1>2

LEMMA ReadEnters ==
  ASSUME Typed, NEW count \in Nat, Reads(count)
  PROVE  /\ fd \in Fds /\ IsOpen(fd) /\ call = Idle /\ phase = "mounted"
         /\ UNCHANGED <<open_files, disk_fat, disk_root, phase, fd, data>> /\ buf' = <<>>
         /\ open_files[fd].offset \in Nat
         /\ fs_stat(fd) \in Nat
         /\ MinOf(count, fs_stat(fd) - open_files[fd].offset) \in Int
         /\ Enter("read", fd, MinOf(count, fs_stat(fd) - open_files[fd].offset))
<1>1. fs_read(fd, count) /\ buf' = <<>> /\ UNCHANGED <<data, fd>> /\ fd \in Fds
  BY DEF Reads, BeginRead, fs_read, IsOpen
<1>2. open_files[fd].offset \in Nat /\ fs_stat(fd) \in Nat
  BY <1>1 DEF Typed, TypeOK, RootDir, fs_stat
<1> QED
  BY <1>1, <1>2 DEF fs_read, Ready, disk, MinOf

LEMMA WriteEnters ==
  ASSUME Typed, NEW w \in Seq(Bytes), Writes(w)
  PROVE  /\ fd \in Fds /\ IsOpen(fd) /\ call = Idle /\ phase = "mounted"
         /\ UNCHANGED <<open_files, disk_fat, disk_root, phase, fd, data>> /\ buf' = w
         /\ open_files[fd].offset \in Nat
         /\ Len(w) \in Nat /\ open_files[fd].offset + Len(w) <= MaxSize
         /\ Enter("write", fd, Len(w))
<1>1. fs_write(fd, Len(w)) /\ buf' = w /\ UNCHANGED <<data, fd>> /\ fd \in Fds
  BY DEF Writes, BeginWrite, fs_write, IsOpen
<1>2. open_files[fd].offset \in Nat
  BY <1>1 DEF Typed, TypeOK
<1> QED
  BY <1>1, <1>2 DEF fs_write, Ready, disk

LEMMA CallKeepsControl ==
  ASSUME Typed, Control, MakesCall
  PROVE  Control'
<1> USE DEF Control, At
<1>1. ACall /\ prog' = prog /\ line' = (IF call' = Idle /\ phase' = "mounted" THEN NextLine ELSE line)
  BY CallsAreCalls DEF MakesCall
<1>2. /\ LastLine' = LastLine /\ Transfer' = Transfer
      /\ NextLine = IF prog = "script" THEN line ELSE line + 1
      /\ Transfer \in {3, 4} /\ LastLine = Transfer + 2 /\ (prog = "old_test_phase4" <=> Transfer = 3)
  BY <1>1 DEF LastLine, Transfer, NextLine
<1>3. prog # "none"
  BY MainLines DEF MakesCall
<1>4. call # Idle => phase = "mounted"
  BY DEF Typed, CallOK
<1>5. CASE Mounts
  <2>1. phase = "unmounted" /\ phase' = "mounted" /\ call' = call /\ call = Idle
    BY <1>4, <1>5 DEF Mounts, fs_mount
  <2> QED
    BY <1>1, <1>2, <1>3, <1>5, <2>1 DEF Mounts
<1>6. CASE Deletes \/ Creates(File) \/ Creates(MyFile)
  <2>1. phase = "mounted" /\ phase' = phase /\ call' = call /\ call = Idle
    BY <1>6 DEF Deletes, Creates, fs_delete, fs_create, CreatesAt, Ready
  <2>2. prog = "script" \/ (prog = "simple_writer" /\ line = 2)
    BY <1>6 DEF Deletes, Creates
  <2> QED
    BY <1>1, <1>2, <1>3, <2>1, <2>2
<1>7. CASE OpensIts
  <2>1. phase = "mounted" /\ phase' = phase /\ call' = call /\ call = Idle
    BY <1>7 DEF OpensIts, Opens, fs_open, Ready
  <2>2. prog = "script" \/ (line \in {2, 3} /\ line < LastLine)
    BY <1>2, <1>7 DEF OpensIts
  <2> QED
    BY <1>1, <1>2, <1>3, <2>1, <2>2
<1>8. CASE SeekFails \/ \E offset \in Nat : Seeks(offset)
  <2>1. phase = "mounted" /\ phase' = phase /\ call' = call /\ call = Idle
    <3>1. CASE SeekFails
      <4>1. prog = "simple_reader" /\ line = 3 /\ phase' = phase /\ call' = call
        BY <3>1 DEF SeekFails
      <4>2. Transfer = 4 /\ LastLine = 6 /\ phase = "mounted"
        BY <1>2, <4>1 DEF Typed, TypeOK
      <4> QED
        BY <4>1, <4>2
    <3> QED
      BY <1>8, <3>1 DEF Seeks, fs_lseek, Ready
  <2>2. prog = "script" \/ (prog = "simple_reader" /\ line = 3)
    BY <1>8 DEF SeekFails, Seeks
  <2> QED
    BY <1>1, <1>2, <1>3, <2>1, <2>2
<1>9. CASE Closes
  <2>1. phase = "mounted" /\ phase' = phase /\ call' = call /\ call = Idle
    BY <1>9 DEF Closes, fs_close, Ready
  <2>2. prog = "script" \/ line = Transfer + 1
    BY <1>9 DEF Closes
  <2> QED
    BY <1>1, <1>2, <1>3, <2>1, <2>2
<1>10. CASE Saves
  <2>1. phase = "mounted" /\ phase' = "umounting" /\ call' = call /\ call = Idle
    BY <1>10 DEF Saves, UmountFat, Ready
  <2>2. prog = "script" \/ line = LastLine
    BY <1>10 DEF Saves
  <2> QED
    BY <1>1, <1>2, <1>3, <2>1, <2>2
<1>11. ASSUME NEW count \in Nat, Reads(count)
       PROVE  Control'
  <2>1. phase = "mounted" /\ phase' = phase /\ call = Idle /\ call' # Idle /\ call'.op = "read"
    BY <1>11, ReadEnters, BeginsCall
  <2>2. prog = "script" \/ (prog = "simple_reader" /\ line = 4)
    BY <1>11 DEF Reads
  <2> QED
    BY <1>1, <1>2, <1>3, <2>1, <2>2
<1>12. ASSUME NEW w \in Seq(Bytes), Writes(w)
       PROVE  Control'
  <2>1. phase = "mounted" /\ phase' = phase /\ call = Idle /\ call' # Idle /\ call'.op = "write"
    BY <1>12, WriteEnters, BeginsCall
  <2>2. prog = "script" \/ (prog = "simple_writer" /\ line = 4) \/ (prog = "old_test_phase4" /\ line = 3)
    BY <1>12 DEF Writes
  <2> QED
    BY <1>1, <1>2, <1>3, <2>1, <2>2
<1> QED
  BY <1>1, <1>5, <1>6, <1>7, <1>8, <1>9, <1>10, <1>11, <1>12 DEF ACall

LEMMA NextControl ==
  ASSUME Typed, Control, [ProgNext]_progVars
  PROVE  Control'
<1>1. call # Idle => phase = "mounted"
  BY DEF Typed, CallOK
<1>2. ASSUME prog' = prog PROVE LastLine' = LastLine /\ Transfer' = Transfer
  BY <1>2 DEF LastLine, Transfer
<1>3. Transfer \in {3, 4} /\ LastLine = Transfer + 2
  BY DEF Transfer, LastLine
<1>4. CASE UNCHANGED progVars
  BY <1>2, <1>4 DEF progVars, dataVars, Control
<1>5. CASE Starts
  <2>1. /\ prog = "none" /\ line' = line /\ phase' = phase /\ call' = call
        /\ prog' \in {"script", "simple_writer", "simple_reader", "old_test_phase4"}
    BY <1>5, MainLines DEF Starts
  <2>2. LastLine' \in {5, 6}
    BY DEF LastLine
  <2> QED
    BY <1>1, <2>1, <2>2 DEF Control
<1>6. CASE MakesCall
  BY <1>6, CallKeepsControl
<1>7. CASE InTransfer
  <2>1. Hop \/ WriteBlock \/ ReadBlock
    BY <1>7 DEF InTransfer, WriteData, ReadData
  <2>2. phase' = phase /\ call'.op = call.op /\ prog' = prog /\ line' = line
    <3>1. call \in Frames
      BY DEF Typed, TypeOK
    <3> QED
      BY <1>7, <2>1, <3>1 DEF InTransfer, Hop, WriteBlock, ReadBlock, Frames
  <2>3. call # Idle
    <3>1. call.pc \in {"hop", "block"}
      BY <2>1 DEF Hop, WriteBlock, ReadBlock
    <3>2. Idle.pc = "idle"
      BY DEF Idle
    <3> QED
      BY <3>1, <3>2
  <2> QED
    BY <1>2, <2>2, <2>3 DEF Control
<1>8. CASE Returns
  <2>1. call # Idle /\ call' = Idle /\ phase' = phase /\ prog' = prog /\ line' = NextLine
    BY <1>8 DEF Returns, Return, Idle
  <2> QED
    BY <1>1, <1>2, <1>3, <2>1 DEF Control, NextLine
<1>9. CASE Unmounts
  <2>1. phase = "umounting" /\ phase' = "unmounted" /\ call' = call
    BY <1>9 DEF Unmounts, UmountRoot
  <2>2. (prog = "script" /\ prog' = prog /\ line' = line) \/ (prog' = "none" /\ line' = 1)
    BY <1>9 DEF Unmounts, Ends
  <2> QED
    BY <2>1, <2>2 DEF Control
<1>10. CASE Dies
  <2>1. phase' = "unmounted" /\ prog' = "none" /\ line' = 1
    BY <1>10 DEF Dies, Ends, Crash
  <2> QED
    BY <2>1 DEF Control
<1> QED
  BY <1>4, <1>5, <1>6, <1>7, <1>8, <1>9, <1>10 DEF ProgNext

(* A program has only its own file open.                                   *)
Opened ==
  \A g \in Fds : IsOpen(g) => root_dir[open_files[g].index_in_rootdir].filename = Mine

LEMMA NoneOpen ==
  ASSUME EmptyFds' = Fds
  PROVE  Opened'
<1>1. \A g \in Fds : ~IsOpen(g)'
  BY DEF EmptyFds, IsOpen
<1> QED
  BY <1>1 DEF Opened

LEMMA KeepsOpened ==
  ASSUME Inv, Opened, prog' = prog,
         \A i \in Slots : root_dir'[i].filename = root_dir[i].filename,
         \A g \in Fds : ~open_files'[g].empty =>
           /\ ~open_files[g].empty
           /\ open_files'[g].index_in_rootdir = open_files[g].index_in_rootdir
  PROVE  Opened'
<1>1. Mine' = Mine
  BY DEF Mine
<1>2. \A g \in Fds : open_files[g].index_in_rootdir \in Slots
  BY DEF Inv, Typed, TypeOK
<1>3. SUFFICES ASSUME NEW g \in Fds, ~open_files'[g].empty
               PROVE  root_dir'[open_files'[g].index_in_rootdir].filename = Mine
  BY <1>1 DEF Opened, IsOpen
<1> QED
  BY <1>2, <1>3 DEF Opened, IsOpen

LEMMA CallKeepsOpened ==
  ASSUME Inv, Opened, ACall, prog' = prog
  PROVE  Opened'
<1>0. /\ Mine' = Mine /\ root_dir \in RootDir
      /\ open_files \in [Fds -> [empty : BOOLEAN, index_in_rootdir : Slots, offset : Nat]]
      /\ \A g \in Fds : ~open_files[g].empty => open_files[g].index_in_rootdir \in Files(root_dir)
  BY DEF Mine, Inv, Typed, TypeOK, Directory, OpenFilesExist, IsOpen
<1>1. CASE Mounts
  <2>1. open_files' = AllClosed
    BY <1>1 DEF Mounts, fs_mount
  <2> QED
    BY <2>1, ClosedTable, NoneOpen DEF EmptyFds, AllEmpty
<1>2. CASE Deletes
  <2>1. PICK i \in Slots : has_same_filename(root_dir[i], File)
                           /\ root_dir' = [root_dir EXCEPT ![i] = FreeEntry]
    BY <1>2 DEF Deletes, fs_delete, IsFirst, MatchingEntries
  <2>2. UNCHANGED open_files
    BY <1>2 DEF Deletes, fs_delete
  <2>3. \A g \in Fds : ~open_files[g].empty => open_files[g].index_in_rootdir # i
    BY <1>2, <2>1 DEF Deletes, fs_delete, open_table_has_filename, EmptyFds
  <2>4. \A j \in Slots : j # i => root_dir'[j] = root_dir[j]
    BY <1>0, <2>1 DEF RootDir
  <2> QED
    BY <1>0, <2>2, <2>3, <2>4 DEF Opened, IsOpen
<1>3. CASE Creates(File) \/ Creates(MyFile)
  <2>1. PICK name \in {File, MyFile} : fs_create(name)
    BY <1>3 DEF Creates
  <2>2. PICK i \in Slots : no_file_exists(root_dir[i])
                           /\ root_dir' = [root_dir EXCEPT ![i] = NewFile(name)]
    BY <2>1 DEF fs_create, CreatesAt, IsFirst, EmptyEntries
  <2>3. UNCHANGED open_files
    BY <2>1 DEF fs_create
  <2>4. \A g \in Fds : ~open_files[g].empty => open_files[g].index_in_rootdir # i
    BY <1>0, <2>2 DEF Files
  <2>5. \A j \in Slots : j # i => root_dir'[j] = root_dir[j]
    BY <1>0, <2>2 DEF RootDir
  <2> QED
    BY <1>0, <2>3, <2>4, <2>5 DEF Opened, IsOpen
<1>4. CASE OpensIts
  <2>1. PICK i \in Slots, h \in Fds :
          /\ root_dir[i].filename = Mine
          /\ open_files' = [open_files EXCEPT
               ![h] = [empty |-> FALSE, index_in_rootdir |-> i, offset |-> 0]]
    BY <1>4 DEF OpensIts, Opens, fs_open, IsFirst, MatchingEntries, has_same_filename
  <2>2. UNCHANGED root_dir
    BY <1>4 DEF OpensIts, Opens, fs_open
  <2>3. open_files'[h].index_in_rootdir = i /\ \A g \in Fds : g # h => open_files'[g] = open_files[g]
    BY <1>0, <2>1
  <2> QED
    BY <1>0, <2>1, <2>2, <2>3 DEF Opened, IsOpen
<1>5. CASE SeekFails \/ Saves
  <2>1. UNCHANGED <<root_dir, open_files>>
    BY <1>5 DEF SeekFails, Saves, UmountFat, memory
  <2> QED
    BY <2>1, KeepsOpened
<1>6. CASE Closes
  <2>1. open_files' = [open_files EXCEPT ![fd] = ClosedFile] /\ UNCHANGED root_dir
    BY <1>6 DEF Closes, fs_close
  <2>2. \A g \in Fds : open_files'[g] = open_files[g] \/ open_files'[g] = ClosedFile
    BY <1>0, <2>1
  <2>3. ClosedFile.empty
    BY DEF ClosedFile
  <2> QED
    BY <2>1, <2>2, <2>3, KeepsOpened
<1>7. ASSUME NEW offset \in Nat, Seeks(offset)
      PROVE  Opened'
  <2>1. /\ open_files' = [open_files EXCEPT ![fd].offset = offset]
        /\ \/ UNCHANGED root_dir
           \/ root_dir' = [root_dir EXCEPT ![open_files[fd].index_in_rootdir].size = @ + 1]
    BY <1>7 DEF Seeks, fs_lseek
  <2>2. \A i \in Slots : root_dir'[i].filename = root_dir[i].filename
    BY <1>0, <2>1 DEF RootDir
  <2>3. \A g \in Fds : /\ open_files'[g].empty = open_files[g].empty
                       /\ open_files'[g].index_in_rootdir = open_files[g].index_in_rootdir
    BY <1>0, <2>1
  <2> QED
    BY <2>2, <2>3, KeepsOpened
<1>8. ASSUME NEW count \in Nat, Reads(count)
      PROVE  Opened'
  <2>1. \A i \in Slots : root_dir'[i].filename = root_dir[i].filename
    BY <1>8, ReadEnters, EnterKeepsNames DEF Inv
  <2> QED
    BY <1>8, <2>1, ReadEnters, KeepsOpened DEF Inv
<1>9. ASSUME NEW w \in Seq(Bytes), Writes(w)
      PROVE  Opened'
  <2>1. \A i \in Slots : root_dir'[i].filename = root_dir[i].filename
    BY <1>9, WriteEnters, EnterKeepsNames DEF Inv
  <2> QED
    BY <1>9, <2>1, WriteEnters, KeepsOpened DEF Inv
<1> QED
  BY <1>1, <1>2, <1>3, <1>4, <1>5, <1>6, <1>7, <1>8, <1>9 DEF ACall

LEMMA NextOpened ==
  ASSUME Inv, Tabled', Control, Opened, [ProgNext]_progVars
  PROVE  Opened'
<1>1. CASE UNCHANGED progVars
  BY <1>1, KeepsOpened DEF progVars, dataVars
<1>2. CASE Starts \/ Unmounts \/ Dies
  <2>1. phase' # "mounted"
    <3>1. Starts => phase' = "unmounted"
      BY DEF Starts, Control
    <3>2. Unmounts \/ Dies => phase' = "unmounted"
      BY DEF Unmounts, UmountRoot, Dies, Crash
    <3> QED
      BY <1>2, <3>1, <3>2
  <2> QED
    BY <2>1, NoneOpen DEF Tabled
<1>3. CASE MakesCall
  BY <1>3, CallsAreCalls, CallKeepsOpened DEF MakesCall
<1>4. CASE InTransfer
  <2>1. UNCHANGED <<root_dir, open_files, prog>>
    BY <1>4 DEF InTransfer, Hop, WriteData, ReadData, WriteBlock, ReadBlock, memory
  <2> QED
    BY <2>1, KeepsOpened
<1>5. CASE Returns
  <2>1. PICK i, g, end : /\ open_files' = [open_files EXCEPT ![g].offset = end]
                         /\ root_dir' = root_dir \/ root_dir' = [root_dir EXCEPT ![i].size = end]
    BY <1>5 DEF Returns, Return
  <2>2. /\ root_dir \in RootDir
        /\ open_files \in [Fds -> [empty : BOOLEAN, index_in_rootdir : Slots, offset : Nat]]
    BY DEF Inv, Typed, TypeOK
  <2>3. \A j \in Slots : root_dir'[j].filename = root_dir[j].filename
    BY <2>1, <2>2 DEF RootDir
  <2>4. \A h \in Fds : /\ open_files'[h].empty = open_files[h].empty
                       /\ open_files'[h].index_in_rootdir = open_files[h].index_in_rootdir
    BY <2>1, <2>2
  <2> QED
    BY <1>5, <2>3, <2>4, KeepsOpened DEF Returns
<1> QED
  BY <1>1, <1>2, <1>3, <1>4, <1>5 DEF ProgNext

(***************************************************************************)
(* Part 3: the programs run on a host that does not fail.  What a call in  *)
(* progress has in hand is where DataProofs says it is.                    *)
(***************************************************************************)
Buffered ==
  call # Idle =>
    IF call.op = "read" THEN Len(buf) = call.done ELSE call.done + call.left <= Len(buf)

Placed ==
  /\ host = "reliable" /\ Located /\ Bounded /\ DataOK /\ Buffered
  /\ \A i \in Files(disk_root) : disk_root[i].size <= MaxSize

(* A step of fs_read or fs_write on the file of entry i.                   *)
InFile(i) ==
  /\ i \in Files(root_dir) /\ i \in Slots /\ Grown(i)
  /\ Files(root_dir)' = Files(root_dir)
  /\ \A j \in Slots : root_dir'[j].filename = root_dir[j].filename
                      /\ root_dir'[j].size = root_dir[j].size
  /\ \A j \in Files(root_dir) : j \in Slots
  /\ UNCHANGED <<open_files, disk_fat, disk_root, phase, fd>>
  /\ Located' /\ Bounded' /\ call' # Idle /\ entry' = i

(* It begins, ...                                                          *)
Begun(i, op, left) ==
  /\ InFile(i) /\ call = Idle /\ fd \in Fds /\ IsOpen(fd)
  /\ i = open_files[fd].index_in_rootdir
  /\ call'.op = op /\ call'.fd = fd /\ call'.done = 0 /\ call'.left = left
  /\ start' = open_files[fd].offset /\ position' = open_files[fd].offset
  /\ open_files[fd].offset \in Nat /\ open_files[fd].offset <= root_dir[i].size
  /\ root_dir[i].size \in Nat /\ left \in Nat /\ UNCHANGED data

LEMMA EntryBegins ==
  ASSUME Inv, Seeking, Placed, call = Idle, NEW op \in {"read", "write"}, fd \in Fds, IsOpen(fd),
         NEW left \in Nat, Enter(op, fd, left), open_files[fd].offset + left <= MaxSize,
         UNCHANGED <<open_files, disk_fat, disk_root, phase, fd, data>>
  PROVE  Begun(open_files[fd].index_in_rootdir, op, left)
<1>1. PICK i : i \in Files(root_dir) /\ i = open_files[fd].index_in_rootdir
  BY DEF Inv, Directory, OpenFilesExist
<1>2. PICK offset \in Nat : offset = open_files[fd].offset
  BY DEF Inv, Typed, TypeOK
<1>3. PICK g \in Fds : g = fd
  OBVIOUS
<1>4. /\ Grown(i) /\ Located' /\ Bounded'
      /\ call'.op = op /\ call'.fd = g /\ call'.done = 0 /\ call'.left = left /\ call' # Idle
      /\ entry' = i /\ start' = offset /\ position' = offset
      /\ i \in Slots /\ root_dir[i].size \in 0..MaxSize /\ offset <= root_dir[i].size
      /\ Files(root_dir)' = Files(root_dir)
      /\ \A j \in Slots : root_dir'[j].filename = root_dir[j].filename
                          /\ root_dir'[j].size = root_dir[j].size
      /\ \A j \in Files(root_dir) : j \in Slots
  BY <1>1, <1>2, <1>3, EnterPlaced DEF Placed
<1>5. root_dir[i].size \in Nat
  BY <1>4, BoundsAssumption
<1>6. InFile(i)
  BY <1>1, <1>4 DEF InFile
<1> QED
  BY <1>1, <1>2, <1>3, <1>4, <1>5, <1>6 DEF Begun

LEMMA ReadBegins ==
  ASSUME Inv, Seeking, Placed, NEW count \in Nat, Reads(count)
  PROVE  LET i == open_files[fd].index_in_rootdir IN
         /\ Begun(i, "read", MinOf(count, root_dir[i].size - open_files[fd].offset))
         /\ buf' = <<>>
<1> DEFINE i == open_files[fd].index_in_rootdir
           left == MinOf(count, root_dir[i].size - open_files[fd].offset)
<1>1. /\ fd \in Fds /\ IsOpen(fd) /\ call = Idle /\ phase = "mounted"
      /\ UNCHANGED <<open_files, disk_fat, disk_root, phase, fd, data>> /\ buf' = <<>>
      /\ open_files[fd].offset \in Nat /\ root_dir[i].size \in Nat
      /\ Enter("read", fd, left)
  BY ReadEnters DEF Inv, fs_stat
<1>2. open_files[fd].offset <= root_dir[i].size /\ root_dir[i].size <= MaxSize
  <2>1. i \in Files(root_dir)
    BY <1>1 DEF Inv, Directory, OpenFilesExist
  <2> QED
    BY <1>1, <2>1 DEF Seeking, OffsetsInFile, fs_stat, Placed, Bounded
<1>3. left \in Nat /\ open_files[fd].offset + left <= MaxSize
  BY <1>1, <1>2, BoundsAssumption DEF MinOf
<1> HIDE DEF left, i
<1>4. Begun(open_files[fd].index_in_rootdir, "read", left)
  BY <1>1, <1>3, EntryBegins
<1> QED
  BY <1>1, <1>4 DEF left, i

LEMMA WriteBegins ==
  ASSUME Inv, Seeking, Placed, NEW w \in Seq(Bytes), Writes(w)
  PROVE  Begun(open_files[fd].index_in_rootdir, "write", Len(w)) /\ buf' = w
BY WriteEnters, EntryBegins DEF Inv

(* ... it looks for a block, or stops for want of one, ...                 *)
Stays(i) ==
  /\ call'.done = call.done /\ call'.left = call.left /\ position' = position
  /\ UNCHANGED <<data, buf>>

(* ... it writes to the block in hand, ...                                 *)
Wrote(i) ==
  /\ call.op = "write" /\ AtBlock(i) /\ call.block \in Blocks
  /\ call'.done = call.done + Moved /\ call'.left = call.left - Moved
  /\ position' = position + Moved
  /\ data' \in [Blocks -> Block]
  /\ \A x \in Blocks \ {call.block} : data'[x] = data[x]
  /\ data'[call.block] = Patched(data[call.block])
  /\ UNCHANGED buf

(* ... or reads from it.                                                   *)
Got(i) ==
  /\ call.op = "read" /\ AtBlock(i) /\ call.block \in Blocks
  /\ call'.done = call.done + Moved /\ call'.left = call.left - Moved
  /\ position' = position + Moved
  /\ buf' \in Seq(Bytes) /\ Len(buf') = call.done + Moved
  /\ \A k \in 1..call.done : buf'[k] = buf[k]
  /\ \A x \in 0..(Moved - 1) :
       buf'[call.done + x + 1] = data[call.block][(position % BLOCK_SIZE) + x]
  /\ UNCHANGED data

Goes(i) ==
  /\ InFile(i) /\ call # Idle /\ i = entry
  /\ call'.op = call.op /\ call'.fd = call.fd /\ start' = start
  /\ UNCHANGED <<root_dir, prog, line>>
  /\ Stays(i) \/ Wrote(i) \/ Got(i)

LEMMA SameDirectory ==
  ASSUME Inv, UNCHANGED root_dir
  PROVE  /\ Files(root_dir)' = Files(root_dir)
         /\ \A j \in Slots : root_dir'[j].filename = root_dir[j].filename
                             /\ root_dir'[j].size = root_dir[j].size
         /\ \A j \in Files(root_dir) : j \in Slots
BY DEF Files

LEMMA StopGoes ==
  ASSUME Inv, Seeking, Placed, InTransfer, call.pc = "block",
         call.block \in {NoBlock, FAT_EOC}, WriteBlock \/ ReadBlock, UNCHANGED <<data, buf>>
  PROVE  Goes(entry)
<1>1. call' = [call EXCEPT !.pc = "return"] /\ UNCHANGED <<fat, root_dir, open_files, disk, phase>>
  <2>1. call.block = FAT_EOC => ~WriteBlock
    BY DEF Inv, Typed, CallOK, WriteBlock
  <2>2. CASE WriteBlock
    BY <2>1, <2>2 DEF WriteBlock
  <2>3. CASE ReadBlock
    BY <2>3 DEF ReadBlock, memory
  <2> QED
    BY <2>2, <2>3
<1>2. /\ Located' /\ Bounded'
      /\ call'.op = call.op /\ call'.fd = call.fd
      /\ call'.done = call.done /\ call'.left = call.left
      /\ call # Idle /\ call' # Idle
      /\ entry' = entry /\ start' = start /\ position' = position
  BY <1>1, StopPlaced DEF Placed
<1>3. PICK i : i = entry /\ i \in Files(root_dir) /\ i \in Slots
  BY <1>2, Calling DEF Placed
<1>4. Grown(i)
  BY <1>1, SameChains
<1>5. InFile(i)
  BY <1>1, <1>2, <1>3, <1>4, SameDirectory DEF InFile, InTransfer, disk
<1> QED
  BY <1>1, <1>2, <1>3, <1>5 DEF Goes, Stays, InTransfer

LEMMA TransferGoes ==
  ASSUME Inv, Seeking, Placed, InTransfer
  PROVE  Goes(entry)
<1>0. UNCHANGED <<prog, line, fd>>
  BY DEF InTransfer
<1>1. CASE Hop /\ UNCHANGED <<data, buf>>
  <2>1. call # Idle
    BY <1>1 DEF Hop, Idle
  <2>2. PICK i \in Files(root_dir) : i = entry /\ i \in Slots
    BY <2>1, Calling DEF Placed
  <2>3. /\ Grown(i) /\ Located' /\ Bounded' /\ UNCHANGED <<root_dir, open_files>>
        /\ call'.op = call.op /\ call'.fd = call.fd /\ call'.left = call.left
        /\ call.done = 0 /\ call'.done = 0 /\ call' # Idle
        /\ entry' = i /\ start' = start /\ position' = position
    BY <1>1, <2>2, HopPlaced DEF Placed
  <2>4. UNCHANGED <<disk_fat, disk_root, phase>>
    BY <1>1 DEF Hop, disk
  <2>5. InFile(i)
    BY <1>0, <2>2, <2>3, <2>4, SameDirectory DEF InFile
  <2> QED
    BY <1>0, <1>1, <2>1, <2>2, <2>3, <2>5 DEF Goes, Stays
<1>2. CASE WriteData
  <2>0. /\ WriteBlock /\ call.pc = "block" /\ call.op = "write"
        /\ UNCHANGED <<root_dir, open_files, disk_fat, disk_root, phase, buf>>
        /\ call.block # FAT_EOC
    BY <1>2 DEF WriteData, WriteBlock, disk, Inv, Typed, CallOK
  <2>1. CASE call.block = NoBlock
    BY <1>2, <2>0, <2>1, StopGoes DEF WriteData
  <2>2. CASE call.block # NoBlock
    <3>1. PICK i \in Files(root_dir) : AtBlock(i)
      BY <2>0, BlockFacts DEF Placed
    <3>2. call.block \in Blocks /\ i = entry /\ i \in Slots /\ call # Idle
      BY <2>0, <2>2, <3>1 DEF AtBlock, Files
    <3>3. PICK bounce \in Block :
            block_read(call.block, bounce) /\ block_write(call.block, Patched(bounce))
      BY <1>2, <2>2 DEF WriteData
    <3>4. /\ data' \in [Blocks -> Block]
          /\ \A x \in Blocks \ {call.block} : data'[x] = data[x]
          /\ data'[call.block] = Patched(data[call.block])
      <4>1. call.done + call.left <= Len(buf)
        BY <2>0, <3>2 DEF Placed, Buffered
      <4> QED
        BY <3>1, <3>2, <3>3, <4>1, BlockWritten DEF Placed
    <3>5. /\ Located' /\ Bounded' /\ Grown(i)
          /\ call'.op = "write" /\ call'.fd = call.fd /\ call'.done = call.done + Moved
          /\ call'.left = call.left - Moved
          /\ call' # Idle /\ entry' = i /\ start' = start /\ position' = position + Moved
      BY <2>0, <2>2, <3>1, WritePlaced DEF Placed
    <3>6. InFile(i)
      BY <1>0, <2>0, <3>2, <3>5, SameDirectory DEF InFile
    <3>7. Wrote(i)
      BY <2>0, <3>1, <3>2, <3>4, <3>5 DEF Wrote
    <3> QED
      BY <1>0, <2>0, <3>2, <3>5, <3>6, <3>7 DEF Goes
  <2> QED
    BY <2>1, <2>2
<1>3. CASE ReadData
  <2>0. /\ ReadBlock /\ call.pc = "block" /\ call.op = "read"
        /\ UNCHANGED <<fat, root_dir, open_files, disk_fat, disk_root, phase, data>>
    BY <1>3 DEF ReadData, ReadBlock, memory, disk
  <2>1. CASE call.block \in {NoBlock, FAT_EOC}
    BY <1>3, <2>0, <2>1, StopGoes DEF ReadData
  <2>2. CASE call.block \notin {NoBlock, FAT_EOC}
    <3>1. PICK i \in Files(root_dir) : AtBlock(i)
      BY <2>0, BlockFacts DEF Placed
    <3>2. call.block \in Blocks /\ i = entry /\ i \in Slots /\ call # Idle
      BY <2>0, <2>2, <3>1 DEF AtBlock, Files
    <3>3. PICK bounce \in Block :
            block_read(call.block, bounce) /\ buf' = buf \o Piece(bounce)
      BY <1>3, <2>2 DEF ReadData
    <3>4. /\ buf' \in Seq(Bytes) /\ Len(buf') = call.done + Moved
          /\ \A k \in 1..call.done : buf'[k] = buf[k]
          /\ \A x \in 0..(Moved - 1) :
               buf'[call.done + x + 1] = data[call.block][(position % BLOCK_SIZE) + x]
      <4>1. Len(buf) = call.done
        BY <2>0, <3>2 DEF Placed, Buffered
      <4> QED
        BY <3>1, <3>2, <3>3, <4>1, PieceRead DEF Placed
    <3>5. /\ Located' /\ Bounded' /\ Grown(i)
          /\ call'.op = "read" /\ call'.fd = call.fd /\ call'.done = call.done + Moved
          /\ call'.left = call.left - Moved
          /\ call' # Idle /\ entry' = i /\ start' = start /\ position' = position + Moved
      BY <2>0, <2>2, <3>1, ReadPlaced DEF Placed
    <3>6. InFile(i)
      BY <1>0, <2>0, <3>2, <3>5, SameDirectory DEF InFile
    <3>7. Got(i)
      BY <2>0, <3>1, <3>2, <3>4, <3>5 DEF Got
    <3> QED
      BY <1>0, <2>0, <3>2, <3>5, <3>6, <3>7 DEF Goes
  <2> QED
    BY <2>1, <2>2
<1> QED
  BY <1>1, <1>2, <1>3 DEF InTransfer

LEMMA RestPlaced ==
  ASSUME Placed, call' = Idle, UNCHANGED <<data, host>>, buf' \in Seq(Bytes),
         \A j \in Files(root_dir') : root_dir'[j].size <= MaxSize,
         \A j \in Files(disk_root') : disk_root'[j].size <= MaxSize
  PROVE  Placed'
<1>1. call'.pc = "idle"
  BY DEF Idle
<1>2. Located'
  BY <1>1 DEF Located, Searching
<1>3. Bounded' /\ Buffered'
  BY DEF Bounded, Buffered
<1>4. DataOK'
  BY DEF Placed, DataOK
<1> QED
  BY <1>2, <1>3, <1>4 DEF Placed

LEMMA BegunPlaced ==
  ASSUME Placed, UNCHANGED host, NEW i, NEW op \in {"read", "write"}, NEW left, Begun(i, op, left),
         buf' \in Seq(Bytes), IF op = "read" THEN Len(buf') = 0 ELSE left = Len(buf')
  PROVE  Placed'
<1>1. /\ Located' /\ Bounded' /\ UNCHANGED <<disk_root, data>> /\ left \in Nat
      /\ call'.op = op /\ call'.done = 0 /\ call'.left = left
  BY DEF Begun, InFile
<1>2. DataOK'
  BY <1>1 DEF Placed, DataOK
<1>3. Buffered'
  BY <1>1 DEF Buffered
<1> QED
  BY <1>1, <1>2, <1>3 DEF Placed

LEMMA GoesPlaced ==
  ASSUME Inv, Placed, UNCHANGED host, Goes(entry)
  PROVE  Placed'
<1>1. Located' /\ Bounded' /\ UNCHANGED disk_root /\ call # Idle /\ call'.op = call.op
  BY DEF Goes, InFile
<1>2. call.done \in Nat /\ call.left \in Nat
  BY DEF Inv, Typed, TypeOK, Frames
<1>3. CASE Stays(entry)
  <2>1. UNCHANGED <<data, buf>> /\ call'.done = call.done /\ call'.left = call.left
    BY <1>3 DEF Stays
  <2>2. DataOK' /\ Buffered'
    BY <1>1, <2>1 DEF Placed, DataOK, Buffered
  <2> QED
    BY <1>1, <2>2 DEF Placed
<1>4. CASE Wrote(entry)
  <2>1. /\ call.op = "write" /\ data' \in [Blocks -> Block] /\ UNCHANGED buf
        /\ call'.done = call.done + Moved /\ call'.left = call.left - Moved
        /\ AtBlock(entry)
    BY <1>4 DEF Wrote
  <2>2. call'.done + call'.left = call.done + call.left
    BY <1>2, <2>1 DEF AtBlock
  <2>3. DataOK' /\ Buffered'
    BY <1>1, <2>1, <2>2 DEF Placed, DataOK, Buffered
  <2> QED
    BY <1>1, <2>3 DEF Placed
<1>5. CASE Got(entry)
  <2>1. /\ call.op = "read" /\ UNCHANGED data /\ call'.done = call.done + Moved
        /\ buf' \in Seq(Bytes) /\ Len(buf') = call.done + Moved
    BY <1>5 DEF Got
  <2>2. DataOK' /\ Buffered'
    BY <1>1, <2>1 DEF Placed, DataOK, Buffered
  <2> QED
    BY <1>1, <2>2 DEF Placed
<1> QED
  BY <1>3, <1>4, <1>5 DEF Goes

(* The directory after a step that begins or goes on with no fs_read or    *)
(* fs_write: an entry is as it was, is not one of a file, or is changed    *)
(* as the last line says.                                                  *)
LEMMA CallKeepsPlaced ==
  ASSUME Inv, Seeking, Placed, ACall, UNCHANGED host
  PROVE  Placed'
<1>0. /\ \A j \in Files(root_dir) : root_dir[j].size <= MaxSize
      /\ \A j \in Files(disk_root) : disk_root[j].size <= MaxSize
      /\ buf \in Seq(Bytes) /\ root_dir \in RootDir
      /\ \A j \in Slots : root_dir[j].size \in Nat
  BY DEF Placed, Bounded, DataOK, Inv, Typed, TypeOK, RootDir
<1>1. CASE Mounts
  <2>1. call = Idle /\ UNCHANGED <<call, data, buf, disk_root>> /\ root_dir' = disk_root
    BY <1>1 DEF Mounts, fs_mount, Inv, Typed, CallOK, disk
  <2> QED
    BY <1>0, <2>1, RestPlaced
<1>2. CASE Deletes
  <2>1. call = Idle /\ UNCHANGED <<call, data, buf, disk_root>>
    BY <1>2 DEF Deletes, fs_delete, Ready, disk
  <2>2. PICK i \in Slots : root_dir' = [root_dir EXCEPT ![i] = FreeEntry]
    BY <1>2 DEF Deletes, fs_delete
  <2>3. \A j \in Slots : root_dir'[j] = root_dir[j] \/ root_dir'[j].size = 0
    BY <1>0, <2>2 DEF RootDir, FreeEntry, NewFile
  <2>4. \A j \in Files(root_dir') : root_dir'[j].size <= MaxSize
    BY <1>0, <2>3, BoundsAssumption DEF Files
  <2> QED
    BY <1>0, <2>1, <2>4, RestPlaced
<1>3. CASE Creates(File) \/ Creates(MyFile)
  <2>1. call = Idle /\ UNCHANGED <<call, data, buf, disk_root>>
    BY <1>3 DEF Creates, fs_create, CreatesAt, Ready, disk
  <2>2. PICK i \in Slots, name \in {File, MyFile} : root_dir' = [root_dir EXCEPT ![i] = NewFile(name)]
    BY <1>3 DEF Creates, fs_create
  <2>3. \A j \in Slots : root_dir'[j] = root_dir[j] \/ root_dir'[j].size = 0
    BY <1>0, <2>2 DEF RootDir, NewFile
  <2>4. \A j \in Files(root_dir') : root_dir'[j].size <= MaxSize
    BY <1>0, <2>3, BoundsAssumption DEF Files
  <2> QED
    BY <1>0, <2>1, <2>4, RestPlaced
<1>4. CASE OpensIts \/ Closes
  <2>1. call = Idle /\ UNCHANGED <<call, data, buf, disk_root, root_dir>>
    BY <1>4 DEF OpensIts, Opens, fs_open, Closes, fs_close, Ready, disk
  <2> QED
    BY <1>0, <2>1, RestPlaced
<1>5. CASE Saves
  <2>1. call = Idle /\ UNCHANGED <<call, data, buf, disk_root, root_dir>>
    BY <1>5 DEF Saves, UmountFat, Ready, memory
  <2> QED
    BY <1>0, <2>1, RestPlaced
<1>6. CASE SeekFails
  <2>1. /\ UNCHANGED <<call, data, buf, disk_root, root_dir, open_files, fat>>
    BY <1>6 DEF SeekFails, memory, disk
  <2>2. entry' = entry /\ start' = start /\ position' = position
    BY <2>1 DEF entry, start, position
  <2>3. index' = index
    BY <2>1, <2>2 DEF index
  <2>4. InPlace(entry, index, call.block)' <=> InPlace(entry, index, call.block)
    BY <2>1, <2>2, <2>3 DEF InPlace, Nth
  <2> QED
    BY <2>1, <2>2, <2>3, <2>4 DEF Placed, Located, Bounded, Searching, DataOK, Buffered
<1>7. ASSUME NEW offset \in Nat, Seeks(offset)
      PROVE  Placed'
  <2>1. call = Idle /\ UNCHANGED <<call, data, buf, disk_root>> /\ fd \in Fds /\ IsOpen(fd)
    BY <1>7 DEF Seeks, fs_lseek, Ready, disk, IsOpen
  <2>2. PICK i : /\ i = open_files[fd].index_in_rootdir /\ i \in Files(root_dir) /\ i \in Slots
    BY <2>1 DEF Inv, Directory, OpenFilesExist, Files
  <2>3. \/ root_dir' = root_dir
        \/ /\ root_dir[i].size < MaxSize
           /\ root_dir' = [root_dir EXCEPT ![i].size = @ + 1]
    BY <1>7, <2>2 DEF Seeks, fs_lseek
  <2>4. \A j \in Slots :
          /\ root_dir'[j].filename = root_dir[j].filename
          /\ root_dir'[j].size = root_dir[j].size \/ (j = i /\ root_dir'[j].size = root_dir[j].size + 1
                                                      /\ root_dir[j].size < MaxSize)
    BY <1>0, <2>2, <2>3 DEF RootDir
  <2>5. \A j \in Files(root_dir') : j \in Files(root_dir) /\ j \in Slots
    BY <2>4 DEF Files, no_file_exists
  <2>6. \A j \in Files(root_dir') : root_dir'[j].size <= MaxSize
    BY <1>0, <2>4, <2>5, BoundsAssumption
  <2> QED
    BY <1>0, <2>1, <2>6, RestPlaced
<1>8. ASSUME NEW count \in Nat, Reads(count)
      PROVE  Placed'
  <2>1. buf' \in Seq(Bytes) /\ Len(buf') = 0
    BY <1>8, ReadEnters, EmptySeq DEF Inv
  <2> QED
    BY <1>8, <2>1, ReadBegins, BegunPlaced
<1>9. ASSUME NEW w \in Seq(Bytes), Writes(w)
      PROVE  Placed'
  BY <1>9, WriteBegins, BegunPlaced
<1> QED
  BY <1>1, <1>2, <1>3, <1>4, <1>5, <1>6, <1>7, <1>8, <1>9 DEF ACall

LEMMA NextPlaced ==
  ASSUME Inv, Seeking, Control, Placed, [ProgNext]_progVars
  PROVE  Placed'
<1>0. /\ \A j \in Files(root_dir) : root_dir[j].size <= MaxSize
      /\ \A j \in Files(disk_root) : disk_root[j].size <= MaxSize
      /\ buf \in Seq(Bytes) /\ <<>> \in Seq(Bytes)
      /\ call # Idle => phase = "mounted"
  BY EmptySeq DEF Placed, Bounded, DataOK, Inv, Typed, CallOK
<1>1. ASSUME UNCHANGED <<fat, root_dir, open_files, disk_root, call, data, buf, host>>
      PROVE  Placed'
  <2>1. entry' = entry /\ start' = start /\ position' = position
    BY <1>1 DEF entry, start, position
  <2>2. index' = index
    BY <1>1, <2>1 DEF index
  <2>3. InPlace(entry, index, call.block)' <=> InPlace(entry, index, call.block)
    BY <1>1, <2>1, <2>2 DEF InPlace, Nth
  <2> QED
    BY <1>1, <2>1, <2>2, <2>3 DEF Placed, Located, Bounded, Searching, DataOK, Buffered
<1>2. CASE UNCHANGED progVars
  BY <1>1, <1>2 DEF progVars, dataVars
<1>3. CASE ProgNext
  <2>0. UNCHANGED host
    BY <1>3 DEF ProgNext
  <2>1. CASE Starts
    BY <1>1, <2>0, <2>1 DEF Starts, memory, disk
  <2>2. CASE MakesCall
    BY <2>0, <2>2, CallsAreCalls, CallKeepsPlaced
  <2>3. CASE InTransfer
    BY <2>0, <2>3, TransferGoes, GoesPlaced
  <2>4. CASE Returns
    <3>1. Return /\ UNCHANGED data /\ buf' = <<>>
      BY <2>4 DEF Returns
    <3>2. call.pc = "return" /\ call # Idle /\ call' = Idle /\ UNCHANGED <<fat, disk_root>>
      BY <3>1 DEF Return, Idle, disk
    <3>3. PICK i \in Files(root_dir) : i = entry /\ i \in Slots
      BY <3>2, Calling DEF Placed
    <3>4. position \in Nat /\ position <= MaxSize
      BY <3>2, Calling DEF Placed
    <3>5. \/ root_dir' = [root_dir EXCEPT ![i].size = position]
          \/ root_dir' = root_dir
      BY <3>1, <3>3 DEF Return, entry, start, position
    <3>6. \A j \in Slots :
            /\ root_dir'[j].filename = root_dir[j].filename
            /\ root_dir'[j].size = root_dir[j].size \/ root_dir'[j].size = position
      BY <3>3, <3>5 DEF Inv, Typed, TypeOK, RootDir
    <3>7. \A j \in Files(root_dir') : j \in Files(root_dir) /\ j \in Slots
      BY <3>6 DEF Files, no_file_exists
    <3> QED
      BY <1>0, <2>0, <3>1, <3>2, <3>4, <3>6, <3>7, RestPlaced
  <2>5. CASE Unmounts
    <3>1. phase = "umounting" /\ disk_root' = root_dir /\ UNCHANGED <<root_dir, call, data, buf>>
      BY <2>5 DEF Unmounts, UmountRoot, memory
    <3> QED
      BY <1>0, <2>0, <3>1, RestPlaced
  <2>6. CASE Dies
    <3>1. buf' = <<>> /\ UNCHANGED <<data, disk_root>>
      BY <2>6 DEF Dies, Crash, disk
    <3>2. CASE Crash
      <4>1. call' = Idle /\ root_dir' = disk_root
        BY <3>2 DEF Crash
      <4> QED
        BY <1>0, <2>0, <3>1, <4>1, RestPlaced
    <3>3. CASE phase = "unmounted" /\ UNCHANGED <<memory, disk, phase, call>>
      BY <1>0, <2>0, <3>1, <3>3, RestPlaced DEF memory
    <3> QED
      BY <2>6, <3>2, <3>3 DEF Dies
  <2> QED
    BY <1>3, <2>1, <2>2, <2>3, <2>4, <2>5, <2>6 DEF ProgNext
<1> QED
  BY <1>2, <1>3

(***************************************************************************)
(* Part 4: the file of simple_writer.  Its bytes stay where they are when  *)
(* a FAT gets new blocks and links, and while other blocks are written.    *)
(***************************************************************************)
LettersAt(f, h, d) ==
  \A k \in 0..(Len(Letters) - 1) : ByteOf(NthBlock(f, h), d, k) = Letters[k + 1]

(* In FAT f, directory r and blocks d a file of that name is whole.        *)
Whole(f, r, d) ==
  \A i \in Files(r) : r[i].filename = MyFile =>
    r[i].size = Len(Letters) /\ Len(Letters) <= MaxSize /\ LettersAt(f, r[i].data_index, d)

Has(r) == \E i \in Files(r) : r[i].filename = MyFile

LEMMA LetterFacts ==
  ASSUME NEW k \in 0..(Len(Letters) - 1)
  PROVE  Letters[k + 1] \in Bytes /\ Letters[k + 1] # Hole
<1>1. k + 1 \in 1..Len(Letters) /\ Letters \in Seq(Bytes)
  BY ProgramNames
<1>2. Letters[k + 1] \in Bytes
  BY <1>1, ElementOfSeq
<1>3. Hole \notin Bytes
  BY HoleFacts
<1> QED
  BY <1>2, <1>3

LEMMA NthGrows ==
  ASSUME NEW f \in FatArray, LinksOK(f), NEW h, HeadOK(f, h), NEW g \in FatArray, Grows(f, g),
         NEW n \in 0..MaxSize, NthBlock(f, h)[n] # FAT_EOC
  PROVE  NthBlock(g, h)[n] = NthBlock(f, h)[n]
<1> DEFINE nth == NthBlock(f, h)
           new == NthBlock(g, h)
           S == {k \in Nat : k \in 0..MaxSize /\ nth[k] # FAT_EOC => new[k] = nth[k]}
<1>0. h \in Links
  BY DEF HeadOK
<1>1. 0 \in S
  BY <1>0, NthIsFunction
<1>2. ASSUME NEW k \in Nat, k \in S
      PROVE  k + 1 \in S
  <2> SUFFICES ASSUME k + 1 \in 0..MaxSize, nth[k + 1] # FAT_EOC
               PROVE  new[k + 1] = nth[k + 1]
    OBVIOUS
  <2>1. k \in 0..MaxSize /\ nth[k + 1] = Link(f, nth[k]) /\ new[k + 1] = Link(g, new[k])
    BY <1>0, NthStep
  <2>2. nth[k] # FAT_EOC
    BY <2>1 DEF Link
  <2>3. new[k] = nth[k]
    BY <1>2, <2>1, <2>2
  <2>4. nth[k] \in Blocks /\ f[nth[k]] # 0
    BY <2>1, <2>2, NthOnChain
  <2> HIDE DEF nth, new
  <2> QED
    BY <2>1, <2>2, <2>3, <2>4 DEF Link, Grows
<1> HIDE DEF S
<1>3. Nat \subseteq S
  BY <1>1, <1>2, Induction
<1> QED
  BY <1>3, BoundsAssumption DEF S

(* Where a file has a letter it has a block.                               *)
LEMMA LetterBlock ==
  ASSUME NEW f \in FatArray, LinksOK(f), NEW h, HeadOK(f, h), NEW d, LettersAt(f, h, d),
         Len(Letters) <= MaxSize, NEW k \in 0..(Len(Letters) - 1)
  PROVE  /\ k \in 0..MaxSize /\ k \div BLOCK_SIZE \in 0..MaxSize
         /\ NthBlock(f, h)[k \div BLOCK_SIZE] # FAT_EOC
         /\ NthBlock(f, h)[k \div BLOCK_SIZE] \in FileBlocks(f, h)
         /\ NthBlock(f, h)[k \div BLOCK_SIZE] \in Blocks \ {0}
         /\ d[NthBlock(f, h)[k \div BLOCK_SIZE]][k % BLOCK_SIZE] = Letters[k + 1]
<1>1. k \in Nat /\ k <= MaxSize /\ k \in 0..MaxSize
  BY ProgramNames, BoundsAssumption
<1>2. k \div BLOCK_SIZE \in 0..MaxSize
  BY <1>1, DivMod, BoundsAssumption
<1>3. ByteOf(NthBlock(f, h), d, k) = Letters[k + 1] /\ Letters[k + 1] # Hole
  BY LetterFacts DEF LettersAt
<1>4. NthBlock(f, h)[k \div BLOCK_SIZE] # FAT_EOC
  BY <1>3 DEF ByteOf
<1> QED
  BY <1>1, <1>2, <1>3, <1>4, NthOnChain DEF ByteOf

LEMMA LettersGrow ==
  ASSUME NEW f \in FatArray, LinksOK(f), NEW h, HeadOK(f, h), NEW g \in FatArray, Grows(f, g),
         NEW d, LettersAt(f, h, d), Len(Letters) <= MaxSize
  PROVE  LettersAt(g, h, d)
<1> SUFFICES ASSUME NEW k \in 0..(Len(Letters) - 1)
             PROVE  ByteOf(NthBlock(g, h), d, k) = Letters[k + 1]
  BY DEF LettersAt
<1>1. NthBlock(g, h)[k \div BLOCK_SIZE] = NthBlock(f, h)[k \div BLOCK_SIZE]
  BY LetterBlock, NthGrows
<1> QED
  BY <1>1, LetterBlock DEF ByteOf

LEMMA LettersSpared ==
  ASSUME NEW f \in FatArray, LinksOK(f), NEW h, HeadOK(f, h), NEW d, NEW e,
         LettersAt(f, h, d), Len(Letters) <= MaxSize,
         \A x \in FileBlocks(f, h) : e[x] = d[x]
  PROVE  LettersAt(f, h, e)
<1> SUFFICES ASSUME NEW k \in 0..(Len(Letters) - 1)
             PROVE  ByteOf(NthBlock(f, h), e, k) = Letters[k + 1]
  BY DEF LettersAt
<1> QED
  BY LetterBlock DEF ByteOf

(* A step of a call on the file of entry i leaves the file of the writer.  *)
LEMMA WholeKept ==
  ASSUME Inv, Whole(fat, root_dir, data), NEW i, InFile(i),
         \A j \in Files(root_dir), k \in 0..MaxSize :
           root_dir[j].filename = MyFile => ByteOf(Nth(j), data', k) = ByteAt(j, k)
  PROVE  Whole(fat', root_dir', data')
<1> SUFFICES ASSUME NEW j \in Files(root_dir)', root_dir'[j].filename = MyFile
             PROVE  /\ root_dir'[j].size = Len(Letters) /\ Len(Letters) <= MaxSize
                    /\ LettersAt(fat', root_dir'[j].data_index, data')
  BY DEF Whole
<1>1. /\ j \in Files(root_dir) /\ j \in Slots /\ root_dir[j].filename = MyFile
      /\ root_dir'[j].size = root_dir[j].size
  BY DEF InFile
<1>2. root_dir[j].size = Len(Letters) /\ Len(Letters) <= MaxSize
      /\ LettersAt(fat, root_dir[j].data_index, data)
  BY <1>1 DEF Whole
<1>3. ASSUME NEW k \in 0..(Len(Letters) - 1)
      PROVE  ByteOf(Nth(j)', data', k) = Letters[k + 1]
  <2>1. /\ k \in 0..MaxSize /\ k \div BLOCK_SIZE \in 0..MaxSize
        /\ Nth(j)[k \div BLOCK_SIZE] # FAT_EOC
    BY <1>1, <1>2, LetterBlock, Heads DEF Nth
  <2>2. Nth(j)'[k \div BLOCK_SIZE] = Nth(j)[k \div BLOCK_SIZE]
    BY <1>1, <2>1 DEF InFile, Grown
  <2>3. ByteOf(Nth(j)', data', k) = ByteOf(Nth(j), data', k)
    BY <2>2 DEF ByteOf
  <2>4. ByteOf(Nth(j), data', k) = ByteAt(j, k)
    BY <1>1, <2>1
  <2>5. ByteAt(j, k) = Letters[k + 1]
    BY <1>2 DEF LettersAt, ByteAt, Nth
  <2> QED
    BY <2>3, <2>4, <2>5
<1> QED
  BY <1>1, <1>2, <1>3 DEF LettersAt, Nth

(***************************************************************************)
(* Part 5: the file of simple_writer is on the disk whole or not at all.   *)
(***************************************************************************)
(* From its fs_create to the end of its fs_write.                          *)
WritingOut == prog = "simple_writer" /\ line \in {3, 4}

Stored ==
  /\ Whole(disk_fat, disk_root, data)
  /\ Whole(fat, root_dir, data) \/ WritingOut
  /\ Has(disk_root) => Has(root_dir) /\ ~WritingOut
  /\ prog = "simple_writer" /\ line \in 3..6 => Has(root_dir)

WritingOK ==
  WritingOut =>
    /\ \A i \in Files(root_dir) : root_dir[i].filename = MyFile => root_dir[i].size = 0
    /\ line = 4 => open_files[fd].offset = 0
    /\ call # Idle =>
         /\ call.fd = fd /\ buf = Letters
         /\ call.done + call.left = Len(Letters)
         /\ \A k \in 0..(call.done - 1) : ByteAt(entry, k) = Letters[k + 1]

ReadingOK ==
  prog = "simple_reader" =>
    /\ line \in {3, 4} => fd \in Fds /\ IsOpen(fd)
    /\ line = 4 => open_files[fd].offset = ReadAt
    /\ call # Idle =>
         /\ call.fd = fd
         /\ call.done + call.left = ReadCount
         /\ \A k \in 1..call.done : buf[k] = Letters[ReadAt + k]

(* The entries of a name other than NoName are those of files.             *)
LEMMA HasIs ==
  ASSUME NEW r
  PROVE  /\ Has(r) <=> \E i \in Slots : r[i].filename = MyFile
         /\ \A i : i \in Files(r) /\ r[i].filename = MyFile <=> i \in Slots /\ r[i].filename = MyFile
BY ProgramNames DEF Has, Files, no_file_exists

(* A step that leaves the entry of that file, the FAT and the blocks.      *)
MineKept ==
  /\ \A j \in Slots :
       /\ root_dir'[j].filename = MyFile <=> root_dir[j].filename = MyFile
       /\ root_dir[j].filename = MyFile => root_dir'[j] = root_dir[j]
  /\ UNCHANGED <<fat, disk_fat, disk_root, data>>

LEMMA MineKeepsStored ==
  ASSUME Stored, MineKept, WritingOut' <=> WritingOut,
         (prog = "simple_writer" /\ line \in 3..6)' => prog = "simple_writer" /\ line \in 3..6
  PROVE  Stored'
<1>1. UNCHANGED <<fat, disk_fat, disk_root, data>>
  BY DEF MineKept
<1>2. Has(root_dir) <=> Has(root_dir')
  BY HasIs DEF MineKept
<1>3. Whole(fat, root_dir, data) => Whole(fat', root_dir', data')
  <2> SUFFICES ASSUME Whole(fat, root_dir, data), NEW j \in Files(root_dir'),
                      root_dir'[j].filename = MyFile
               PROVE  /\ root_dir'[j].size = Len(Letters) /\ Len(Letters) <= MaxSize
                      /\ LettersAt(fat', root_dir'[j].data_index, data')
    BY DEF Whole
  <2>1. j \in Slots /\ root_dir'[j] = root_dir[j] /\ root_dir[j].filename = MyFile
    BY DEF MineKept, Files
  <2>2. j \in Files(root_dir)
    BY <2>1, HasIs
  <2> QED
    BY <1>1, <2>1, <2>2 DEF Whole
<1> QED
  BY <1>1, <1>2, <1>3 DEF Stored

(* Nothing of that name is being written.                                  *)
LEMMA NotWriting ==
  ASSUME ~WritingOut', Whole(disk_fat', disk_root', data'), Whole(fat', root_dir', data'),
         Has(disk_root') => Has(root_dir'), (prog = "simple_writer" /\ line \in 3..6)' => Has(root_dir')
  PROVE  Stored' /\ WritingOK'
BY DEF Stored, WritingOK

(* The program goes on to its next line when a call has returned.          *)
GoesOn ==
  prog' = prog /\ line' = IF call' = Idle /\ phase' = "mounted" THEN NextLine ELSE line

Kept == Stored' /\ WritingOK' /\ ReadingOK'

LEMMA CreateStored ==
  ASSUME Inv, Control, Stored, NEW name \in {File, MyFile}, Creates(name), GoesOn
  PROVE  Kept
<1>1. /\ call = Idle /\ call' = Idle /\ phase = "mounted" /\ line' = NextLine
      /\ UNCHANGED <<fat, disk_fat, disk_root, data, phase>>
  BY DEF Creates, fs_create, CreatesAt, Ready, disk, GoesOn
<1>2. PICK i \in Slots :
        /\ no_file_exists(root_dir[i]) /\ root_dir' = [root_dir EXCEPT ![i] = NewFile(name)]
        /\ MatchingEntries(name) = {}
  BY DEF Creates, fs_create, CreatesAt, IsFirst, EmptyEntries
<1>3. /\ root_dir'[i] = NewFile(name) /\ \A j \in Slots : j # i => root_dir'[j] = root_dir[j]
      /\ root_dir[i].filename = NoName
  BY <1>2 DEF Inv, Typed, TypeOK, RootDir, no_file_exists
<1>4. NewFile(name).filename = name /\ NewFile(name).size = 0
  BY DEF NewFile
<1>5. CASE prog = "script" /\ name = File
  <2>1. ~WritingOut /\ ~WritingOut' /\ MineKept
    BY <1>1, <1>3, <1>4, <1>5, ProgramNames DEF WritingOut, MineKept, GoesOn
  <2>2. Stored'
    BY <1>5, <2>1, MineKeepsStored DEF GoesOn
  <2> QED
    BY <1>5, <2>1, <2>2 DEF WritingOK, ReadingOK, Kept, GoesOn
<1>6. CASE At("simple_writer", 2) /\ name = MyFile
  <2>1. WritingOut' /\ ~WritingOut /\ line' = 3 /\ prog = "simple_writer"
    BY <1>1, <1>6 DEF WritingOut, At, NextLine, GoesOn
  <2>2. \A j \in Slots : root_dir[j].filename # MyFile
    BY <1>2, <1>6, ProgramNames DEF MatchingEntries, has_same_filename, no_file_exists
  <2>3. ~Has(disk_root) /\ Has(root_dir')
    BY <1>3, <1>4, <1>6, <2>2, HasIs DEF Stored
  <2>4. Stored'
    BY <1>1, <2>1, <2>3 DEF Stored
  <2>5. \A j \in Slots : root_dir'[j].filename = MyFile => root_dir'[j].size = 0
    BY <1>3, <1>4, <2>2
  <2>6. WritingOK'
    BY <1>1, <2>1, <2>5 DEF WritingOK, Files
  <2> QED
    BY <2>1, <2>4, <2>6 DEF ReadingOK, Kept, GoesOn
<1> QED
  BY <1>5, <1>6 DEF Creates

LEMMA ScriptKeeps ==
  ASSUME prog = "script", prog' = prog, Stored, MineKept
  PROVE  Kept
<1>1. ~WritingOut /\ ~WritingOut' /\ prog' # "simple_writer" /\ prog' # "simple_reader"
  BY DEF WritingOut
<1>2. Stored'
  BY <1>1, MineKeepsStored
<1> QED
  BY <1>1, <1>2 DEF WritingOK, ReadingOK, Kept

LEMMA MountStored ==
  ASSUME Inv, Control, Stored, Mounts, GoesOn
  PROVE  Kept
<1>1. /\ fat' = disk_fat /\ root_dir' = disk_root /\ UNCHANGED <<disk_fat, disk_root, data>>
      /\ phase = "unmounted" /\ phase' = "mounted" /\ call' = call
  BY DEF Mounts, fs_mount, disk
<1>2. call = Idle
  BY <1>1 DEF Inv, Typed, CallOK
<1>3. prog' = prog /\ line' = NextLine /\ (prog = "script" \/ line = 1)
  BY <1>1, <1>2 DEF GoesOn, Mounts
<1>4. /\ ~WritingOut' /\ ~(prog' = "simple_writer" /\ line' \in 3..6)
      /\ ~(prog' = "simple_reader" /\ line' \in {3, 4})
  BY <1>3 DEF NextLine, WritingOut
<1>5. Whole(disk_fat', disk_root', data') /\ Whole(fat', root_dir', data')
  BY <1>1 DEF Stored
<1>6. Stored' /\ WritingOK'
  BY <1>1, <1>4, <1>5, NotWriting
<1>7. ReadingOK'
  BY <1>1, <1>2, <1>4 DEF ReadingOK
<1> QED
  BY <1>6, <1>7 DEF Kept

LEMMA DeleteStored ==
  ASSUME Inv, Stored, Deletes, GoesOn
  PROVE  Kept
<1>1. PICK i \in Slots : /\ root_dir[i].filename = File
                         /\ root_dir' = [root_dir EXCEPT ![i] = FreeEntry]
                         /\ UNCHANGED <<fat, disk_fat, disk_root, data>>
  BY DEF Deletes, fs_delete, IsFirst, MatchingEntries, has_same_filename, disk
<1>2. root_dir'[i] = FreeEntry /\ \A j \in Slots : j # i => root_dir'[j] = root_dir[j]
  BY <1>1 DEF Inv, Typed, TypeOK, RootDir
<1>3. FreeEntry.filename = NoName
  BY DEF FreeEntry, NewFile
<1>4. MineKept
  BY <1>1, <1>2, <1>3, ProgramNames DEF MineKept
<1> QED
  BY <1>4, ScriptKeeps DEF Deletes, GoesOn

LEMMA CloseStored ==
  ASSUME Inv, Stored, Closes, GoesOn
  PROVE  Kept
<1>1. UNCHANGED <<fat, root_dir, disk_fat, disk_root, data, call, phase>> /\ call = Idle /\ phase = "mounted"
  BY DEF Closes, fs_close, Ready, disk
<1>2. MineKept
  BY <1>1 DEF MineKept
<1>3. CASE prog = "script"
  BY <1>2, <1>3, ScriptKeeps DEF GoesOn
<1>4. CASE prog # "script"
  <2>1. line = Transfer + 1 /\ prog' = prog /\ line' = line + 1
    BY <1>1, <1>4 DEF Closes, GoesOn, NextLine
  <2>2. (prog \in {"simple_writer", "simple_reader"} => line = 5 /\ line' = 6)
    BY <2>1 DEF Transfer
  <2>3. ~WritingOut /\ ~WritingOut'
    BY <2>1, <2>2 DEF WritingOut
  <2>4. Stored'
    BY <1>2, <2>1, <2>2, <2>3, MineKeepsStored
  <2>5. WritingOK' /\ ReadingOK'
    BY <1>1, <2>1, <2>2, <2>3 DEF WritingOK, ReadingOK
  <2> QED
    BY <2>4, <2>5 DEF Kept
<1> QED
  BY <1>3, <1>4

(* A file that is whole on the disk is so when fs_umount has saved the FAT *)
(* that has grown in memory.                                               *)
LEMMA SaveStored ==
  ASSUME Inv, Stored, Saves, GoesOn
  PROVE  Kept
<1>1. /\ UNCHANGED <<fat, root_dir, disk_root, data, call>> /\ disk_fat' = fat
      /\ phase' = "umounting" /\ call = Idle
  BY DEF Saves, UmountFat, Ready, memory
<1>2. prog' = prog /\ line' = line
  BY <1>1 DEF GoesOn
<1>3. ~WritingOut /\ ~WritingOut' /\ (prog' = "simple_reader" => line' = 6)
  BY <1>2 DEF Saves, LastLine, WritingOut
<1>4. /\ fat \in FatArray /\ disk_fat \in FatArray /\ LinksOK(disk_fat) /\ Grows(disk_fat, fat)
      /\ disk_root \in RootDir /\ HeadsOK(disk_fat, disk_root)
  BY DEF Inv, Typed, TypeOK, Storage
<1>5. ASSUME NEW i \in Files(disk_root), disk_root[i].filename = MyFile
      PROVE  LettersAt(fat, disk_root[i].data_index, data)
  <2>1. LettersAt(disk_fat, disk_root[i].data_index, data) /\ Len(Letters) <= MaxSize
    BY <1>5 DEF Stored, Whole
  <2>2. disk_root[i].data_index \in Links
    BY <1>4 DEF RootDir, Files, Links
  <2>3. HeadOK(disk_fat, disk_root[i].data_index)
    BY <1>4, <2>2 DEF HeadsOK, HeadOK
  <2> QED
    BY <1>4, <2>1, <2>3, LettersGrow
<1>6. Whole(disk_fat', disk_root', data')
  BY <1>1, <1>5 DEF Stored, Whole
<1>7. Whole(fat', root_dir', data')
  BY <1>1, <1>3 DEF Stored
<1>8. Has(disk_root') => Has(root_dir')
  BY <1>1 DEF Stored
<1>9. (prog = "simple_writer" /\ line \in 3..6)' => Has(root_dir')
  BY <1>1, <1>2 DEF Stored
<1>10. Stored' /\ WritingOK'
  BY <1>3, <1>6, <1>7, <1>8, <1>9, NotWriting
<1>11. ReadingOK'
  BY <1>1, <1>3 DEF ReadingOK
<1> QED
  BY <1>10, <1>11 DEF Kept

LEMMA OpenStored ==
  ASSUME Inv, Stored, WritingOK, OpensIts, GoesOn
  PROVE  Kept
<1>1. /\ UNCHANGED <<fat, root_dir, disk_fat, disk_root, data, call, phase>> /\ call = Idle
      /\ phase = "mounted"
  BY DEF OpensIts, Opens, fs_open, Ready, disk
<1>2. MineKept
  BY <1>1 DEF MineKept
<1>3. prog' = prog /\ line' = NextLine
  BY <1>1 DEF GoesOn
<1>4. PICK i \in Slots, g \in Fds :
        /\ fd' = g
        /\ open_files' = [open_files EXCEPT ![g] = [empty |-> FALSE, index_in_rootdir |-> i, offset |-> 0]]
  <2>1. PICK g \in Fds : IsFirst(g, EmptyFds) /\ fd' = g
    BY DEF OpensIts, Opens
  <2>2. PICK i \in Slots, h \in Fds :
          /\ IsFirst(h, EmptyFds)
          /\ open_files' = [open_files EXCEPT ![h] = [empty |-> FALSE, index_in_rootdir |-> i, offset |-> 0]]
    BY DEF OpensIts, Opens, fs_open
  <2>3. g = h
    BY <2>1, <2>2 DEF IsFirst, Fds, EmptyFds
  <2> QED
    BY <2>1, <2>2, <2>3
<1>5. open_files'[g].offset = 0 /\ open_files'[g].empty = FALSE
  BY <1>4 DEF Inv, Typed, TypeOK
<1>6. CASE prog = "script"
  BY <1>2, <1>3, <1>6, ScriptKeeps
<1>7. CASE prog = "simple_writer"
  <2>1. line = 3 /\ line' = 4
    BY <1>3, <1>7 DEF OpensIts, At, NextLine
  <2>2. WritingOut /\ WritingOut'
    BY <1>3, <1>7, <2>1 DEF WritingOut
  <2>3. Stored'
    BY <1>2, <1>7, <2>1, <2>2, MineKeepsStored
  <2>4. WritingOK'
    BY <1>1, <1>4, <1>5, <2>2 DEF WritingOK
  <2> QED
    BY <1>3, <1>7, <2>3, <2>4 DEF Kept, ReadingOK
<1>8. CASE prog \notin {"script", "simple_writer"}
  <2>1. prog = "simple_reader" => line' = 3
    BY <1>3, <1>8 DEF OpensIts, At, NextLine
  <2>2. ~WritingOut /\ ~WritingOut'
    BY <1>3, <1>8 DEF WritingOut
  <2>3. Stored'
    BY <1>2, <1>3, <1>8, <2>2, MineKeepsStored
  <2>4. ReadingOK'
    BY <1>1, <1>3, <1>4, <1>5, <2>1 DEF ReadingOK, IsOpen
  <2> QED
    BY <2>2, <2>3, <2>4 DEF Kept, WritingOK
<1> QED
  BY <1>6, <1>7, <1>8

(* What simple_reader has opened is the whole file.                        *)
LEMMA ReaderHas ==
  ASSUME Inv, Opened, Stored, prog = "simple_reader", NEW g \in Fds, IsOpen(g),
         NEW i, i = open_files[g].index_in_rootdir
  PROVE  /\ i \in Files(root_dir) /\ root_dir[i].filename = MyFile
         /\ root_dir[i].size = Len(Letters) /\ fs_stat(g) = Len(Letters)
         /\ Len(Letters) <= MaxSize /\ LettersAt(fat, root_dir[i].data_index, data)
<1>1. i \in Files(root_dir)
  BY DEF Inv, Directory, OpenFilesExist
<1>2. root_dir[i].filename = MyFile
  BY DEF Opened, Mine
<1>3. Whole(fat, root_dir, data)
  BY DEF Stored, WritingOut
<1> QED
  BY <1>1, <1>2, <1>3 DEF Whole, fs_stat

LEMMA SeekStored ==
  ASSUME Inv, Opened, Stored, ReadingOK, NEW offset \in Nat, Seeks(offset), GoesOn
  PROVE  Kept
<1>1. /\ UNCHANGED <<fat, disk_fat, disk_root, data, call, phase, fd>> /\ call = Idle
      /\ phase = "mounted" /\ IsOpen(fd)
      /\ open_files' = [open_files EXCEPT ![fd].offset = offset]
  BY DEF Seeks, fs_lseek, Ready, disk
<1>2. PICK g \in Fds : g = fd
  BY <1>1 DEF IsOpen
<1>3. PICK i \in Slots : i = open_files[g].index_in_rootdir
  BY DEF Inv, Typed, TypeOK
<1>4. \/ offset < root_dir[i].size /\ UNCHANGED root_dir
      \/ offset = root_dir[i].size /\ root_dir' = [root_dir EXCEPT ![i].size = @ + 1]
  BY <1>2, <1>3 DEF Seeks, fs_lseek
<1>5. open_files'[g].offset = offset /\ open_files'[g].empty = open_files[g].empty
  BY <1>1, <1>2 DEF Inv, Typed, TypeOK
<1>6. CASE prog = "script"
  <2>1. root_dir[i].filename = File
    BY <1>1, <1>2, <1>3, <1>6 DEF Opened, Mine
  <2>2. \A j \in Slots : /\ root_dir'[j].filename = root_dir[j].filename
                         /\ j # i => root_dir'[j] = root_dir[j]
    BY <1>4 DEF Inv, Typed, TypeOK, RootDir
  <2>3. MineKept
    BY <1>1, <2>1, <2>2, ProgramNames DEF MineKept
  <2> QED
    BY <1>6, <2>3, ScriptKeeps DEF GoesOn
<1>7. CASE prog # "script"
  <2>1. prog = "simple_reader" /\ prog' = prog /\ line = 3 /\ line' = 4 /\ offset = ReadAt
    BY <1>1, <1>7 DEF Seeks, At, GoesOn, NextLine
  <2>2. root_dir[i].size = Len(Letters)
    BY <1>1, <1>2, <1>3, <2>1, ReaderHas
  <2>3. UNCHANGED root_dir
    BY <1>4, <2>1, <2>2, ProgramNames
  <2>4. MineKept
    BY <1>1, <2>3 DEF MineKept
  <2>5. ~WritingOut /\ ~WritingOut'
    BY <2>1 DEF WritingOut
  <2>6. Stored'
    BY <2>1, <2>4, <2>5, MineKeepsStored
  <2>7. ReadingOK'
    BY <1>1, <1>2, <1>5, <2>1 DEF ReadingOK, IsOpen
  <2> QED
    BY <2>5, <2>6, <2>7 DEF Kept, WritingOK
<1> QED
  BY <1>6, <1>7

(* The seek of simple_reader does not fail: the file is long enough.       *)
LEMMA SeekSucceeds ==
  ASSUME Inv, Opened, Stored, ReadingOK
  PROVE  ~SeekFails
<1> SUFFICES ASSUME SeekFails
             PROVE  FALSE
  OBVIOUS
<1>1. prog = "simple_reader" /\ line = 3 /\ ReadAt > fs_stat(fd)
  BY DEF SeekFails, At
<1>2. PICK g \in Fds : g = fd /\ IsOpen(g)
  BY <1>1 DEF ReadingOK
<1>3. fs_stat(g) = Len(Letters)
  BY <1>1, <1>2, ReaderHas
<1> QED
  BY <1>1, <1>2, <1>3, ProgramNames

(* A step of fs_read or fs_write that leaves the blocks on the disk that   *)
(* hold the file of simple_writer, and, when it is not being written,      *)
(* those that hold it in memory.                                           *)
LEMMA TransferStored ==
  ASSUME Inv, Stored, NEW i, InFile(i), prog' = prog, line' = line,
         Whole(disk_fat, disk_root, data'),
         ~WritingOut => \A j \in Files(root_dir), k \in 0..MaxSize :
           root_dir[j].filename = MyFile => ByteOf(Nth(j), data', k) = ByteAt(j, k)
  PROVE  Stored'
<1>1. WritingOut' <=> WritingOut
  BY DEF WritingOut
<1>2. UNCHANGED <<disk_fat, disk_root>>
  BY DEF InFile
<1>3. Has(root_dir') <=> Has(root_dir)
  BY HasIs DEF InFile
<1>4. Whole(fat', root_dir', data') \/ WritingOut'
  BY <1>1, WholeKept DEF Stored
<1> QED
  BY <1>1, <1>2, <1>3, <1>4 DEF Stored

(* Nothing moves when the call begins.                                     *)
LEMMA BegunStored ==
  ASSUME Inv, Stored, NEW i, NEW op, NEW left, Begun(i, op, left), GoesOn
  PROVE  Stored' /\ prog' = prog /\ line' = line
<1>1. InFile(i) /\ call' # Idle /\ UNCHANGED data
  BY DEF Begun, InFile
<1>2. prog' = prog /\ line' = line
  BY <1>1 DEF GoesOn
<1>3. \A j, k : ByteOf(Nth(j), data', k) = ByteAt(j, k)
  BY <1>1 DEF ByteAt
<1>4. Whole(disk_fat, disk_root, data')
  BY <1>1 DEF Stored
<1> QED
  BY <1>1, <1>2, <1>3, <1>4, TransferStored

LEMMA ReadStored ==
  ASSUME Inv, Seeking, Placed, Opened, Stored, ReadingOK, NEW count \in Nat, Reads(count), GoesOn
  PROVE  Kept
<1>1. PICK i, left : /\ i = open_files[fd].index_in_rootdir
                     /\ left = MinOf(count, root_dir[i].size - open_files[fd].offset)
                     /\ Begun(i, "read", left)
  BY ReadBegins
<1>2. Stored' /\ prog' = prog /\ line' = line
  BY <1>1, BegunStored
<1>3. prog = "script" \/ (prog = "simple_reader" /\ line = 4 /\ count = ReadCount)
  BY DEF Reads, At
<1>4. ~WritingOut'
  BY <1>2, <1>3 DEF WritingOut
<1>5. CASE prog = "simple_reader"
  <2>1. /\ fd \in Fds /\ IsOpen(fd) /\ fd' = fd /\ UNCHANGED open_files
        /\ call'.fd = fd /\ call'.done = 0 /\ call'.left = left
    BY <1>1 DEF Begun, InFile
  <2>2. root_dir[i].size = Len(Letters)
    <3>1. PICK g \in Fds : g = fd /\ IsOpen(g)
      BY <2>1
    <3> QED
      BY <1>1, <1>5, <3>1, ReaderHas
  <2>3. open_files[fd].offset = ReadAt
    BY <1>3, <1>5 DEF ReadingOK
  <2>4. left = ReadCount
    BY <1>1, <1>3, <1>5, <2>2, <2>3, ProgramNames DEF MinOf
  <2>5. call'.done + call'.left = ReadCount /\ \A k \in 1..call'.done : FALSE
    BY <2>1, <2>4, ProgramNames
  <2>6. ReadingOK'
    BY <1>2, <2>1, <2>3, <2>5 DEF ReadingOK, IsOpen
  <2> QED
    BY <1>2, <1>4, <2>6 DEF Kept, WritingOK
<1>6. CASE prog = "script"
  BY <1>2, <1>4, <1>6 DEF Kept, WritingOK, ReadingOK
<1> QED
  BY <1>3, <1>5, <1>6

LEMMA WriteStored ==
  ASSUME Inv, Seeking, Placed, Stored, WritingOK, NEW w \in Seq(Bytes), Writes(w), GoesOn
  PROVE  Kept
<1>1. PICK i : Begun(i, "write", Len(w)) /\ buf' = w
  BY WriteBegins
<1>2. Stored' /\ prog' = prog /\ line' = line
  BY <1>1, BegunStored
<1>3. prog \in {"script", "old_test_phase4"} \/ (prog = "simple_writer" /\ line = 4 /\ w = Letters)
  BY DEF Writes, At
<1>4. CASE prog = "simple_writer"
  <2>1. /\ fd' = fd /\ UNCHANGED open_files /\ InFile(i)
        /\ call'.fd = fd /\ call'.done = 0 /\ call'.left = Len(w)
    BY <1>1 DEF Begun, InFile
  <2>2. WritingOut
    BY <1>3, <1>4 DEF WritingOut
  <2>3. \A j \in Files(root_dir') : root_dir'[j].filename = MyFile => root_dir'[j].size = 0
    BY <2>1, <2>2 DEF InFile, WritingOK
  <2>4. open_files'[fd'].offset = 0
    BY <1>3, <1>4, <2>1, <2>2 DEF WritingOK
  <2>5. call'.done + call'.left = Len(Letters) /\ \A k \in 0..(call'.done - 1) : FALSE
    BY <1>3, <1>4, <2>1, ProgramNames
  <2>6. WritingOK'
    BY <1>1, <1>3, <1>4, <2>1, <2>3, <2>4, <2>5 DEF WritingOK
  <2> QED
    BY <1>2, <1>4, <2>6 DEF Kept, ReadingOK
<1>5. CASE prog # "simple_writer"
  BY <1>2, <1>3, <1>5 DEF Kept, WritingOK, ReadingOK, WritingOut
<1> QED
  BY <1>4, <1>5

LEMMA DiskHeads ==
  ASSUME Inv, NEW j \in Files(disk_root)
  PROVE  /\ disk_fat \in FatArray /\ LinksOK(disk_fat)
         /\ HeadOK(disk_fat, disk_root[j].data_index)
<1>1. disk_fat \in FatArray /\ LinksOK(disk_fat) /\ disk_root \in RootDir /\ HeadsOK(disk_fat, disk_root)
  BY DEF Inv, Typed, TypeOK, Storage
<1>2. disk_root[j].data_index \in Links
  BY <1>1 DEF RootDir, Files, Links
<1> QED
  BY <1>1, <1>2 DEF HeadsOK, HeadOK

(* A write to a file that is not the one being written out is one to a     *)
(* file of another name.                                                   *)
LEMMA OthersWritten ==
  ASSUME Inv, Control, Opened, ~WritingOut, call # Idle, call.op = "write"
  PROVE  root_dir[entry].filename # MyFile
<1>1. prog \notin {"none", "simple_writer", "simple_reader"}
  BY DEF Control, Inv, Typed, CallOK, WritingOut, Transfer
<1>2. call.fd \in Fds /\ IsOpen(call.fd)
  BY DEF Inv, Typed, CallOK, IsOpen
<1>3. root_dir[entry].filename = Mine /\ Mine = File
  BY <1>1, <1>2 DEF Opened, Mine, entry
<1> QED
  BY <1>3, ProgramNames

LEMMA GoesOnDisk ==
  ASSUME Inv, Unsynced, Control, Opened, Stored, NEW i, Goes(i)
  PROVE  Whole(disk_fat, disk_root, data')
<1>1. CASE Stays(i) \/ Got(i)
  BY <1>1 DEF Stays, Got, Stored
<1>2. CASE Wrote(i)
  <2>1. /\ call.op = "write" /\ call.pc = "block" /\ call.block \in Blocks /\ call # Idle
        /\ \A x \in Blocks \ {call.block} : data'[x] = data[x]
    BY <1>2 DEF Wrote, AtBlock
  <2>2. SUFFICES ASSUME NEW j \in Files(disk_root), disk_root[j].filename = MyFile
                 PROVE  LettersAt(disk_fat, disk_root[j].data_index, data')
    BY DEF Stored, Whole
  <2>3. LettersAt(disk_fat, disk_root[j].data_index, data) /\ Len(Letters) <= MaxSize
    BY <2>2 DEF Stored, Whole
  <2>4. ~WritingOut
    BY <2>2 DEF Stored, Has
  <2>5. call.block \notin FileBlocks(disk_fat, disk_root[j].data_index)
    <3>1. SUFFICES ASSUME call.block \in FileBlocks(disk_fat, disk_root[j].data_index)
                   PROVE  FALSE
      OBVIOUS
    <3>2. call.block # NoBlock
      BY <2>1, BlocksFacts
    <3>3. UnsyncedWritesSpareDisk
      BY SparesTheDisk
    <3>4. j = entry /\ disk_root[j].filename = root_dir[j].filename
      BY <2>1, <3>1, <3>2, <3>3 DEF UnsyncedWritesSpareDisk, entry
    <3> QED
      BY <2>1, <2>2, <2>4, <3>4, OthersWritten
  <2>6. \A x \in FileBlocks(disk_fat, disk_root[j].data_index) : data'[x] = data[x]
    <3>1. FileBlocks(disk_fat, disk_root[j].data_index) \subseteq Blocks
      BY DEF FileBlocks
    <3> QED
      BY <2>1, <2>5, <3>1
  <2> QED
    BY <2>3, <2>6, DiskHeads, LettersSpared
<1> QED
  BY <1>1, <1>2 DEF Goes

LEMMA GoesInMemory ==
  ASSUME Inv, Placed, Control, Opened, ~WritingOut, NEW i, Goes(i),
         NEW j \in Files(root_dir), root_dir[j].filename = MyFile, NEW k \in 0..MaxSize
  PROVE  ByteOf(Nth(j), data', k) = ByteAt(j, k)
<1>1. CASE Stays(i) \/ Got(i)
  BY <1>1 DEF Stays, Got, ByteAt
<1>2. CASE Wrote(i)
  <2>1. call.op = "write" /\ AtBlock(i) /\ call.block \in Blocks /\ i = entry /\ call # Idle
    BY <1>2 DEF Wrote, Goes
  <2>2. j # i
    BY <2>1, OthersWritten
  <2> QED
    BY <1>2, <2>1, <2>2, BytesWritten DEF Wrote
<1> QED
  BY <1>1, <1>2 DEF Goes

(* A byte that is there stays there while the chain grows.                 *)
LEMMA GrownKeeps ==
  ASSUME Inv, NEW i \in Files(root_dir), Grown(i), NEW d, NEW k \in Nat, k <= MaxSize,
         ByteOf(Nth(i), d, k) # Hole
  PROVE  ByteOf(Nth(i)', d, k) = ByteOf(Nth(i), d, k)
<1>1. k \div BLOCK_SIZE \in 0..MaxSize
  BY DivMod, BoundsAssumption
<1>2. Nth(i)[k \div BLOCK_SIZE] # FAT_EOC
  BY DEF ByteOf
<1>3. Nth(i)'[k \div BLOCK_SIZE] = Nth(i)[k \div BLOCK_SIZE]
  BY <1>1, <1>2 DEF Grown
<1> QED
  BY <1>3 DEF ByteOf

LEMMA GoesWriting ==
  ASSUME Inv, Seeking, Placed, Control, Opened, WritingOK, WritingOut, NEW i, Goes(i)
  PROVE  WritingOK'
<1>1. /\ prog = "simple_writer" /\ line = 4 /\ call # Idle /\ call.op = "write"
  BY DEF Goes, Control, WritingOut, Transfer
<1>2. /\ prog' = prog /\ line' = line /\ fd' = fd /\ UNCHANGED <<open_files, root_dir>>
      /\ call'.fd = call.fd /\ i = entry /\ entry' = i /\ Grown(i)
      /\ i \in Files(root_dir) /\ call' # Idle /\ Files(root_dir)' = Files(root_dir)
  BY DEF Goes, InFile
<1>3. /\ open_files[fd].offset = 0 /\ call.fd = fd /\ buf = Letters
      /\ call.done + call.left = Len(Letters)
      /\ \A k \in 0..(call.done - 1) : ByteAt(i, k) = Letters[k + 1]
  BY <1>1, <1>2 DEF WritingOK
<1>4. /\ call.done \in Nat /\ call.left \in Nat /\ start = 0 /\ position = call.done
      /\ position + call.left <= MaxSize /\ MaxSize \in Nat
  <2>1. start = 0
    BY <1>3 DEF start
  <2> QED
    BY <1>1, <2>1, Calling DEF Placed
<1>5. SUFFICES /\ buf' = Letters /\ call'.done + call'.left = Len(Letters)
               /\ \A k \in 0..(call'.done - 1) : ByteAt(i, k)' = Letters[k + 1]
  <2> SUFFICES ASSUME buf' = Letters, call'.done + call'.left = Len(Letters),
                      \A k \in 0..(call'.done - 1) : ByteAt(i, k)' = Letters[k + 1]
               PROVE  WritingOK'
    OBVIOUS
  <2>1. \A k : ByteAt(entry, k)' = ByteAt(i, k)'
    BY <1>2, EntryIs
  <2>2. \A j \in Files(root_dir') : root_dir'[j].filename = MyFile => root_dir'[j].size = 0
    BY <1>2 DEF WritingOK
  <2> QED
    BY <1>2, <1>3, <2>1, <2>2 DEF WritingOK
<1>6. ASSUME NEW k \in 0..(call'.done - 1), k \in Nat, k <= MaxSize, k < Len(Letters),
             ByteOf(Nth(i), data', k) = Letters[k + 1]
      PROVE  ByteAt(i, k)' = Letters[k + 1]
  <2>1. k \in 0..(Len(Letters) - 1)
    BY <1>6, ProgramNames
  <2>2. Letters[k + 1] # Hole
    BY <2>1, LetterFacts
  <2>3. ByteOf(Nth(i)', data', k) = ByteOf(Nth(i), data', k)
    BY <1>2, <1>6, <2>2, GrownKeeps
  <2> QED
    BY <1>6, <2>3 DEF ByteAt
<1>7. CASE Stays(i)
  <2>1. /\ call'.done = call.done /\ call'.left = call.left /\ UNCHANGED <<data, buf>>
    BY <1>7 DEF Stays
  <2>2. ASSUME NEW k \in 0..(call'.done - 1)
        PROVE  ByteAt(i, k)' = Letters[k + 1]
    <3>1. k \in Nat /\ k <= MaxSize /\ k < Len(Letters) /\ k \in 0..(call.done - 1)
      BY <1>3, <1>4, <2>1
    <3>2. ByteOf(Nth(i), data', k) = Letters[k + 1]
      BY <1>3, <2>1, <3>1 DEF ByteAt
    <3> QED
      BY <1>6, <3>1, <3>2
  <2> QED
    BY <1>3, <2>1, <2>2
<1>8. CASE Wrote(i)
  <2>1. /\ call'.done = call.done + Moved /\ call'.left = call.left - Moved /\ UNCHANGED buf
        /\ AtBlock(i) /\ call.block \in Blocks
        /\ \A x \in Blocks \ {call.block} : data'[x] = data[x]
        /\ data'[call.block] = Patched(data[call.block])
    BY <1>8 DEF Wrote
  <2>2. Moved \in Nat /\ Moved <= call.left
    BY <2>1 DEF AtBlock
  <2>3. call.block # 0
    <3>1. SUFFICES ASSUME call.block = 0
                   PROVE  FALSE
      OBVIOUS
    <3>2. call.done = 0 /\ index = position \div BLOCK_SIZE /\ InPlace(i, index, call.block)
      BY <2>1, <3>1 DEF AtBlock
    <3>3. index = 0
      BY <1>4, <3>2, DivMod
    <3> QED
      BY <3>1, <3>2, <3>3 DEF InPlace, NoBlock
  <2>4. ASSUME NEW k \in 0..(call'.done - 1)
        PROVE  ByteAt(i, k)' = Letters[k + 1]
    <3>1. k \in Nat /\ k <= MaxSize /\ k < Len(Letters) /\ k \in 0..MaxSize /\ k < call.done + Moved
      BY <1>3, <1>4, <2>1, <2>2
    <3>2. ByteOf(Nth(i), data', k) =
            IF k \in position..(position + Moved - 1) THEN buf[k + 1 - start] ELSE ByteAt(i, k)
      BY <2>1, <2>3, <3>1, BytesWritten DEF Placed
    <3>3. CASE k \in position..(position + Moved - 1)
      <4>1. k + 1 - start = k + 1
        BY <1>4, <3>1
      <4>2. ByteOf(Nth(i), data', k) = Letters[k + 1]
        BY <1>3, <3>2, <3>3, <4>1
      <4> QED
        BY <1>6, <3>1, <4>2
    <3>4. CASE k \notin position..(position + Moved - 1)
      <4>1. k \in 0..(call.done - 1)
        BY <1>4, <2>2, <3>1, <3>4
      <4>2. ByteOf(Nth(i), data', k) = Letters[k + 1]
        BY <1>3, <3>2, <3>4, <4>1
      <4> QED
        BY <1>6, <3>1, <4>2
    <3> QED
      BY <3>3, <3>4
  <2>5. call'.done + call'.left = Len(Letters)
    BY <1>3, <1>4, <2>1, <2>2
  <2> QED
    BY <1>3, <2>1, <2>4, <2>5
<1>9. ~Got(i)
  BY <1>1 DEF Got
<1> QED
  BY <1>7, <1>8, <1>9 DEF Goes

LEMMA GoesReading ==
  ASSUME Inv, Seeking, Placed, Control, Opened, Stored, ReadingOK, NEW i, Goes(i)
  PROVE  ReadingOK'
<1> SUFFICES ASSUME prog = "simple_reader"
             PROVE  ReadingOK'
  BY DEF Goes, ReadingOK
<1>1. line = 4 /\ call # Idle /\ call.op = "read"
  BY DEF Goes, Control, Transfer
<1>2. /\ prog' = prog /\ line' = line /\ fd' = fd /\ UNCHANGED open_files
      /\ call'.fd = call.fd /\ i = entry /\ i \in Files(root_dir)
  BY DEF Goes, InFile
<1>3. /\ fd \in Fds /\ IsOpen(fd) /\ open_files[fd].offset = ReadAt /\ call.fd = fd
      /\ call.done + call.left = ReadCount
      /\ \A k \in 1..call.done : buf[k] = Letters[ReadAt + k]
  BY <1>1 DEF ReadingOK
<1>4. call.done \in Nat /\ call.left \in Nat /\ start = ReadAt /\ ReadAt \in Nat
  BY <1>1, <1>3, ProgramNames, Calling DEF Placed, start
<1>5. SUFFICES /\ call'.done + call'.left = ReadCount
               /\ \A k \in 1..call'.done : buf'[k] = Letters[ReadAt + k]
  BY <1>1, <1>2, <1>3 DEF ReadingOK, IsOpen
<1>6. CASE Stays(i)
  BY <1>3, <1>6 DEF Stays
<1>7. CASE Got(i)
  <2>1. /\ call'.done = call.done + Moved /\ call'.left = call.left - Moved
        /\ AtBlock(i) /\ call.block \in Blocks
        /\ \A k \in 1..call.done : buf'[k] = buf[k]
        /\ \A x \in 0..(Moved - 1) :
             buf'[call.done + x + 1] = data[call.block][(position % BLOCK_SIZE) + x]
    BY <1>7 DEF Got
  <2>2. Moved \in Nat /\ Moved <= call.left /\ position = start + call.done
        /\ position + call.left <= root_dir[i].size
    BY <1>1, <2>1 DEF AtBlock
  <2>3. root_dir[i].size = Len(Letters) /\ Len(Letters) <= MaxSize
        /\ LettersAt(fat, root_dir[i].data_index, data)
    <3>1. PICK g \in Fds : g = fd /\ IsOpen(g)
      BY <1>3
    <3>2. i = open_files[g].index_in_rootdir
      BY <1>2, <1>3, <3>1 DEF entry
    <3> QED
      BY <3>1, <3>2, ReaderHas
  <2>4. ASSUME NEW x \in 0..(Moved - 1)
        PROVE  buf'[call.done + x + 1] = Letters[ReadAt + (call.done + x + 1)]
    <3>0. position + call.left <= Len(Letters) /\ Len(Letters) \in Nat /\ position \in Nat
      BY <1>4, <2>2, <2>3, ProgramNames
    <3>1. x \in Nat /\ x < Moved /\ position + x \in 0..(Len(Letters) - 1)
      <4>1. Moved \in Nat /\ Moved <= call.left /\ call.left \in Nat
        BY <1>4, <2>2
      <4>2. x \in Nat /\ x < Moved
        BY <4>1
      <4> QED
        BY <3>0, <4>1, <4>2
    <3>2. ByteAt(i, position + x) = Letters[position + x + 1]
      BY <2>3, <3>1 DEF LettersAt, ByteAt, Nth
    <3>3. ByteAt(i, position + x) # Hole
      BY <3>1, <3>2, LetterFacts
    <3>4. call.block \in Blocks \ {0} =>
            ByteAt(i, position + x) = data[call.block][(position % BLOCK_SIZE) + x]
      BY <2>1, <3>1, BytesInHand
    <3>5. call.block # 0
      BY <2>1, <3>1, <3>3, BytesInHand
    <3>6. data[call.block][(position % BLOCK_SIZE) + x] = Letters[position + x + 1]
      BY <2>1, <3>2, <3>4, <3>5
    <3>7. position + x + 1 = ReadAt + (call.done + x + 1)
      BY <1>4, <2>2, <3>1
    <3> QED
      BY <2>1, <3>6, <3>7
  <2>5. ASSUME NEW k \in 1..call'.done
        PROVE  buf'[k] = Letters[ReadAt + k]
    <3>1. CASE k \in 1..call.done
      BY <1>3, <2>1, <3>1
    <3>2. CASE k \notin 1..call.done
      <4>1. PICK x \in 0..(Moved - 1) : k = call.done + x + 1
        <5>1. k - call.done - 1 \in 0..(Moved - 1) /\ k = call.done + (k - call.done - 1) + 1
          BY <1>4, <2>1, <2>2, <3>2
        <5> QED
          BY <5>1
      <4> QED
        BY <2>4, <4>1
    <3> QED
      BY <3>1, <3>2
  <2>6. call'.done + call'.left = ReadCount
    BY <1>3, <1>4, <2>1, <2>2
  <2> QED
    BY <2>5, <2>6
<1>8. ~Wrote(i)
  BY <1>1 DEF Wrote
<1> QED
  BY <1>6, <1>7, <1>8 DEF Goes

(* All of it, for a step inside fs_read or fs_write.                       *)
LEMMA GoesStored ==
  ASSUME Inv, Seeking, Unsynced, Control, Opened, Placed, Stored, WritingOK, ReadingOK,
         NEW i, Goes(i)
  PROVE  Kept
<1>1. prog' = prog /\ line' = line /\ InFile(i)
  BY DEF Goes
<1>2. Whole(disk_fat, disk_root, data')
  BY GoesOnDisk
<1>3. ~WritingOut => \A j \in Files(root_dir), k \in 0..MaxSize :
        root_dir[j].filename = MyFile => ByteOf(Nth(j), data', k) = ByteAt(j, k)
  BY GoesInMemory
<1>4. Stored'
  BY <1>1, <1>2, <1>3, TransferStored
<1>5. WritingOK'
  <2>1. CASE WritingOut
    BY <2>1, GoesWriting
  <2>2. CASE ~WritingOut
    BY <1>1, <2>2 DEF WritingOK, WritingOut
  <2> QED
    BY <2>1, <2>2
<1>6. ReadingOK'
  BY GoesReading
<1> QED
  BY <1>4, <1>5, <1>6 DEF Kept

(* What fs_umount saves is whole, and so is what a dead process leaves.    *)
LEMMA UnmountStored ==
  ASSUME Inv, Control, Stored, Unmounts
  PROVE  Kept
<1>1. /\ UNCHANGED <<fat, root_dir, disk_fat, data, call>> /\ disk_root' = root_dir
      /\ disk_fat = fat /\ phase = "umounting" /\ phase' = "unmounted"
  BY DEF Unmounts, UmountRoot, memory, Inv, Storage
<1>2. (prog = "script" /\ prog' = prog) \/ prog' = "none"
  BY DEF Unmounts, Ends
<1>3. ~WritingOut
  BY <1>1 DEF WritingOut, Control, LastLine
<1>4. ~WritingOut' /\ prog' # "simple_writer" /\ prog' # "simple_reader"
  BY <1>2 DEF WritingOut
<1>5. Whole(fat, root_dir, data)
  BY <1>3 DEF Stored
<1>6. Whole(disk_fat', disk_root', data') /\ Whole(fat', root_dir', data')
  BY <1>1, <1>5
<1>7. Stored' /\ WritingOK'
  BY <1>1, <1>4, <1>6, NotWriting
<1> QED
  BY <1>4, <1>7 DEF Kept, ReadingOK

LEMMA DiesStored ==
  ASSUME Inv, Control, Stored, Dies
  PROVE  Kept
<1>1. prog' = "none" /\ UNCHANGED <<disk_fat, disk_root, data>>
  BY DEF Dies, Ends, Crash, disk
<1>2. fat' = disk_fat /\ root_dir' = disk_root
  BY DEF Dies, Crash, memory, Inv, Storage
<1>3. ~WritingOut' /\ prog' # "simple_writer" /\ prog' # "simple_reader"
  BY <1>1 DEF WritingOut
<1>4. Whole(disk_fat', disk_root', data') /\ Whole(fat', root_dir', data')
  BY <1>1, <1>2 DEF Stored
<1>5. Stored' /\ WritingOK'
  BY <1>1, <1>2, <1>3, <1>4, NotWriting
<1> QED
  BY <1>3, <1>5 DEF Kept, ReadingOK

LEMMA ReturnStored ==
  ASSUME Inv, Seeking, Control, Opened, Placed, Stored, WritingOK, Returns
  PROVE  Kept
<1>1. /\ UNCHANGED <<fat, disk_fat, disk_root, phase, data, prog, fd>>
      /\ call.pc = "return" /\ call' = Idle /\ line' = NextLine /\ Passes
      /\ \/ call.op = "write" /\ root_dir' = [root_dir EXCEPT ![entry].size = position]
         \/ ~(call.op = "write" /\ position > root_dir[entry].size) /\ root_dir' = root_dir
  BY DEF Returns, Return, disk, entry, position, start
<1>2. call # Idle
  <2>1. Idle.pc = "idle"
    BY DEF Idle
  <2> QED
    BY <1>1, <2>1
<1>3. PICK i : i = entry
  OBVIOUS
<1>4. /\ i \in Files(root_dir) /\ i \in Slots /\ call.fd \in Fds /\ IsOpen(call.fd)
      /\ position = start + call.done /\ start \in Nat /\ call.left \in Nat
      /\ position \in Nat /\ position + call.left <= MaxSize /\ MaxSize \in Nat
      /\ i = open_files[call.fd].index_in_rootdir
  BY <1>2, <1>3, Calling DEF Placed, entry
<1>5. root_dir[i].filename = Mine
  BY <1>4 DEF Opened
<1>6. root_dir \in RootDir
  BY DEF Inv, Typed, TypeOK
<1>7. \A j \in Slots : root_dir'[j].filename = root_dir[j].filename /\ (j # i => root_dir'[j] = root_dir[j])
  BY <1>1, <1>3, <1>6 DEF RootDir
<1>8. prog # "none" /\ (prog # "script" => line = Transfer /\ line' = line + 1
                          /\ call.op = IF prog = "simple_reader" THEN "read" ELSE "write")
  BY <1>1, <1>2 DEF Control, NextLine, Inv, Typed, CallOK
<1>9. ASSUME prog \in {"script", "old_test_phase4"}
      PROVE  Kept
  <2>1. root_dir[i].filename = File
    BY <1>5, <1>9 DEF Mine
  <2>2. MineKept
    BY <1>1, <1>7, <2>1, ProgramNames DEF MineKept
  <2>3. ~WritingOut /\ ~WritingOut' /\ prog' \notin {"simple_writer", "simple_reader"}
    BY <1>1, <1>9 DEF WritingOut
  <2>4. Stored'
    BY <2>2, <2>3, MineKeepsStored
  <2> QED
    BY <2>3, <2>4 DEF Kept, WritingOK, ReadingOK
<1>10. ASSUME prog = "simple_reader"
       PROVE  Kept
  <2>1. UNCHANGED root_dir /\ line = 4 /\ line' = 5
    BY <1>1, <1>8, <1>10 DEF Transfer
  <2>2. MineKept
    BY <1>1, <2>1 DEF MineKept
  <2>3. ~WritingOut /\ ~WritingOut' /\ prog' = prog
    BY <1>1, <1>10 DEF WritingOut
  <2>4. Stored'
    BY <1>10, <2>2, <2>3, MineKeepsStored
  <2>5. ReadingOK'
    BY <1>1, <2>1 DEF ReadingOK
  <2> QED
    BY <2>3, <2>4, <2>5 DEF Kept, WritingOK
<1>11. ASSUME prog = "simple_writer"
       PROVE  Kept
  <2>1. line = 4 /\ line' = 5 /\ prog' = prog /\ call.op = "write" /\ call.done = Len(Letters)
    BY <1>1, <1>8, <1>11 DEF Transfer, Passes
  <2>2. WritingOut /\ ~WritingOut'
    BY <1>11, <2>1 DEF WritingOut
  <2>3. /\ open_files[call.fd].offset = 0 /\ root_dir[i].filename = MyFile /\ root_dir[i].size = 0
        /\ \A k \in 0..(Len(Letters) - 1) : ByteAt(i, k) = Letters[k + 1]
    BY <1>2, <1>3, <1>4, <1>5, <1>11, <2>1, <2>2 DEF WritingOK, Mine
  <2>4. position = Len(Letters) /\ Len(Letters) <= MaxSize /\ Len(Letters) > 0
    <3>1. start = 0
      BY <2>3 DEF start
    <3> QED
      BY <1>4, <2>1, <3>1, ProgramNames
  <2>5. root_dir' = [root_dir EXCEPT ![i].size = Len(Letters)]
    BY <1>1, <1>3, <2>1, <2>3, <2>4
  <2>6. /\ root_dir'[i].size = Len(Letters) /\ root_dir'[i].data_index = root_dir[i].data_index
        /\ root_dir'[i].filename = MyFile
    BY <1>4, <1>6, <2>3, <2>5 DEF RootDir
  <2>7. LettersAt(fat, root_dir[i].data_index, data)
    BY <2>3 DEF LettersAt, ByteAt, Nth
  <2>8. Whole(fat', root_dir', data')
    <3>1. SUFFICES ASSUME NEW j \in Files(root_dir'), root_dir'[j].filename = MyFile
                   PROVE  j = i
      BY <1>1, <2>4, <2>6, <2>7 DEF Whole
    <3>2. j \in Slots /\ root_dir[j].filename = MyFile
      BY <1>7, <3>1 DEF Files
    <3>3. j \in Files(root_dir)
      BY <3>2, HasIs
    <3> QED
      BY <1>4, <2>3, <3>2, <3>3 DEF Inv, Directory, UniqueNames
  <2>9. ~Has(disk_root) /\ Has(root_dir')
    BY <1>4, <2>2, <2>6, HasIs DEF Stored
  <2>10. Stored' /\ WritingOK'
    BY <1>1, <2>2, <2>8, <2>9, NotWriting DEF Stored
  <2> QED
    BY <1>11, <2>1, <2>10 DEF Kept, ReadingOK
<1> QED
  BY <1>8, <1>9, <1>10, <1>11 DEF Control

(* A step that begins no call of a program that runs.                      *)
LEMMA IdleStored ==
  ASSUME Inv, Control, Stored, WritingOK, ReadingOK, UNCHANGED progVars \/ Starts
  PROVE  Kept
<1>1. UNCHANGED <<fat, root_dir, open_files, disk_fat, disk_root, phase, call, data, buf, fd>>
  BY DEF progVars, dataVars, Starts, memory, disk
<1>2. MineKept
  BY <1>1 DEF MineKept
<1>3. CASE prog' = prog /\ line' = line
  <2>1. WritingOut' <=> WritingOut
    BY <1>3 DEF WritingOut
  <2>2. Stored'
    BY <1>2, <1>3, <2>1, MineKeepsStored
  <2>3. \A k : ByteAt(entry, k)' = ByteAt(entry, k)
    BY <1>1 DEF ByteAt, Nth, entry
  <2>4. WritingOK'
    BY <1>1, <2>1, <2>3, <1>3 DEF WritingOK
  <2>5. ReadingOK'
    BY <1>1, <1>3 DEF ReadingOK, IsOpen
  <2> QED
    BY <2>2, <2>4, <2>5 DEF Kept
<1>4. CASE Starts
  <2>1. prog = "none" /\ line = 1 /\ line' = 1 /\ phase = "unmounted"
    BY <1>4 DEF Starts, Control
  <2>2. ~WritingOut /\ ~WritingOut' /\ line' \notin {3, 4, 5, 6}
    BY <2>1 DEF WritingOut
  <2>3. Stored'
    BY <1>2, <2>1, <2>2, MineKeepsStored
  <2>4. call' = Idle
    BY <1>1, <2>1 DEF Inv, Typed, CallOK
  <2> QED
    BY <2>2, <2>3, <2>4 DEF Kept, WritingOK, ReadingOK
<1> QED
  BY <1>3, <1>4 DEF progVars

LEMMA CallStored ==
  ASSUME Inv, Seeking, Control, Opened, Placed, Stored, WritingOK, ReadingOK, ACall, GoesOn
  PROVE  Kept
BY MountStored, CreateStored, DeleteStored, OpenStored, SeekStored, SeekSucceeds,
   CloseStored, SaveStored, ReadStored, WriteStored DEF ACall, GoesOn, Kept

LEMMA NextStored ==
  ASSUME Inv, Seeking, Unsynced, Control, Opened, Placed, Stored, WritingOK, ReadingOK,
         [ProgNext]_progVars
  PROVE  Kept
<1>1. CASE UNCHANGED progVars \/ Starts
  BY <1>1, IdleStored
<1>2. CASE MakesCall
  BY <1>2, CallsAreCalls, CallStored DEF MakesCall, GoesOn
<1>3. CASE InTransfer
  BY <1>3, TransferGoes, GoesStored
<1>4. CASE Returns
  BY <1>4, ReturnStored
<1>5. CASE Unmounts
  BY <1>5, UnmountStored
<1>6. CASE Dies
  BY <1>6, DiesStored
<1> QED
  BY <1>1, <1>2, <1>3, <1>4, <1>5, <1>6 DEF ProgNext

(***************************************************************************)
(* Part 6: the invariant and what follows from it.                         *)
(***************************************************************************)
ProgInv ==
  /\ Inv /\ Seeking /\ Unsynced
  /\ Tabled /\ Control /\ Opened /\ Placed
  /\ Stored /\ WritingOK /\ ReadingOK

LEMMA InitProgInv == ProgInit => ProgInv
<1> SUFFICES ASSUME ProgInit
             PROVE  ProgInv
  OBVIOUS
<1>1. /\ Init /\ prog = "none" /\ line = 1 /\ host = "reliable" /\ buf = <<>>
      /\ data = [b \in Blocks |-> [k \in InBlock |-> 0]]
  BY DEF ProgInit, DataInit
<1>2. /\ phase = "unmounted" /\ call = Idle /\ root_dir = disk_root
      /\ disk_root = [i \in Slots |-> FreeEntry] /\ open_files = AllClosed
  BY <1>1 DEF Init, Formatted
<1>3. Files(root_dir) = {} /\ Files(disk_root) = {}
  BY <1>2 DEF Files, no_file_exists, FreeEntry, NewFile
<1>4. Inv /\ Seeking /\ Unsynced
  BY <1>1, InitInv, InitSeeking, InitUnsynced
<1>5. Tabled
  BY <1>2 DEF Tabled, Table, AllClosed, ClosedFile, EmptyFds
<1>6. Control
  BY <1>1, <1>2 DEF Control
<1>7. Opened
  BY <1>2 DEF Opened, IsOpen, AllClosed, ClosedFile
<1>8. Placed
  <2>1. Located /\ Bounded /\ Buffered
    BY <1>2, <1>3 DEF Located, Searching, Bounded, Buffered, Idle
  <2>2. DataOK
    BY <1>1, HoleFacts DEF DataOK, Block
  <2> QED
    BY <1>1, <1>3, <2>1, <2>2 DEF Placed
<1>9. ~WritingOut /\ ~Has(disk_root) /\ prog # "simple_writer" /\ prog # "simple_reader"
  BY <1>1, <1>3 DEF WritingOut, Has
<1>10. Stored /\ WritingOK /\ ReadingOK
  BY <1>3, <1>9 DEF Stored, Whole, WritingOK, ReadingOK
<1> QED
  BY <1>4, <1>5, <1>6, <1>7, <1>8, <1>10 DEF ProgInv

LEMMA NextProgInv == ProgInv /\ [ProgNext]_progVars => ProgInv'
<1> SUFFICES ASSUME ProgInv, [ProgNext]_progVars
             PROVE  ProgInv'
  OBVIOUS
<1>1. [AnyNext]_vars
  BY ProgramsAreAnyNext DEF ProgInv
<1>2. Inv' /\ Unsynced'
  BY <1>1, NextInv, NextUnsynced DEF ProgInv
<1>3. Seeking'
  BY <1>1, <1>2, NextSeeking DEF ProgInv, Inv
<1>4. Tabled'
  BY NextTabled DEF ProgInv
<1>5. Control'
  BY NextControl DEF ProgInv, Inv
<1>6. Opened'
  BY <1>4, NextOpened DEF ProgInv
<1>7. Placed'
  BY NextPlaced DEF ProgInv
<1>8. Stored' /\ WritingOK' /\ ReadingOK'
  BY NextStored DEF ProgInv, Kept
<1> QED
  BY <1>2, <1>3, <1>4, <1>5, <1>6, <1>7, <1>8 DEF ProgInv

LEMMA ProgInvariance == ProgSpec => []ProgInv
BY InitProgInv, NextProgInv, PTL DEF ProgSpec

(* A script that runs writes no block of a file of the disk but of File.   *)
LEMMA OthersKeepBytes ==
  ASSUME ProgInv, prog = "script", WriteData,
         NEW j \in Files(disk_root), disk_root[j].filename # File
  PROVE  ContentOf(disk_fat, disk_root[j])' = ContentOf(disk_fat, disk_root[j])
<1> DEFINE h == disk_root[j].data_index
           size == disk_root[j].size
           nth == NthBlock(disk_fat, h)
           InChain(k) == nth[(k - 1) \div BLOCK_SIZE]
<1>1. /\ call.pc = "block" /\ call.op = "write" /\ UNCHANGED <<disk_fat, disk_root>>
      /\ call.block # FAT_EOC
  BY DEF WriteData, WriteBlock, disk, ProgInv, Inv, Typed, CallOK
<1>2. call.block \notin FileBlocks(disk_fat, h)
  <2>1. SUFFICES ASSUME call.block \in FileBlocks(disk_fat, h)
                 PROVE  FALSE
    OBVIOUS
  <2>2. call # Idle /\ call.block # NoBlock
    BY <1>1, <2>1, BlocksFacts DEF Idle, FileBlocks
  <2>3. j = entry /\ disk_root[j].filename = root_dir[j].filename
    BY <1>1, <2>1, <2>2, SparesTheDisk DEF ProgInv, UnsyncedWritesSpareDisk, entry
  <2>4. IsOpen(call.fd) /\ call.fd \in Fds
    BY <2>2 DEF ProgInv, Inv, Typed, CallOK, IsOpen
  <2> QED
    BY <2>3, <2>4 DEF ProgInv, Opened, Mine, entry
<1>3. \A x \in Blocks \ {call.block} : data'[x] = data[x]
  BY DEF WriteData, block_write, ProgInv, Placed, DataOK
<1>4. ASSUME NEW k \in 1..size, InChain(k) # FAT_EOC
      PROVE  data'[InChain(k)] = data[InChain(k)]
  <2>1. size \in Nat /\ size <= MaxSize /\ h \in Blocks \union {FAT_EOC}
        /\ disk_fat \in FatArray /\ LinksOK(disk_fat) /\ HeadOK(disk_fat, h)
    BY DiskHeads DEF ProgInv, Placed, Inv, Typed, TypeOK, RootDir, Files
  <2>2. (k - 1) \div BLOCK_SIZE \in 0..MaxSize
    BY <2>1, DivMod, BoundsAssumption
  <2>3. InChain(k) \in FileBlocks(disk_fat, h) /\ InChain(k) \in Blocks
    BY <1>4, <2>1, <2>2, NthOnChain
  <2> QED
    BY <1>2, <1>3, <2>3
<1> DEFINE Byte(d, k) == IF InChain(k) = FAT_EOC THEN Hole ELSE d[InChain(k)][(k - 1) % BLOCK_SIZE]
<1>5. /\ ContentOf(disk_fat, disk_root[j]) = [k \in 1..size |-> Byte(data, k)]
      /\ ContentOf(disk_fat, disk_root[j])' = [k \in 1..size |-> Byte(data', k)]
  BY <1>1 DEF ContentOf
<1>6. \A k \in 1..size : Byte(data', k) = Byte(data, k)
  BY <1>4
<1> HIDE DEF Byte, size
<1> QED
  BY <1>5, <1>6, Zenon

(* A script that opens a file while it has one open saves no metadata any  *)
(* more: to the end of the process it holds a descriptor that it cannot    *)
(* close, fs_umount refuses, and the FAT and the directory of the disk     *)
(* stay.  Of the files there, what it writes reaches no other than File.   *)
THEOREM LostDescriptorsSaveNoMetadata == ProgSpec => LostDescriptorSavesNoMetadata
<1> DEFINE Lost(h) == \E g \in Fds \ {h} : IsOpen(g)'
           OthersKept == \A i \in Files(disk_root) : disk_root[i].filename # File =>
                           ContentOf(disk_fat, disk_root[i])' = ContentOf(disk_fat, disk_root[i])
           Step == prog = "script" /\ (\E g \in Fds \ {fd} : IsOpen(g)) =>
                     UNCHANGED disk /\ OthersKept /\ (prog' = "none" \/ Lost(fd'))
<1>1. ASSUME ProgInv, ProgNext
      PROVE  Step
  <2> SUFFICES ASSUME prog = "script", NEW g \in Fds \ {fd}, ~open_files[g].empty
               PROVE  UNCHANGED disk /\ OthersKept /\ (prog' = "none" \/ Lost(fd'))
    BY DEF IsOpen
  <2>0. Tabled
    BY <1>1 DEF ProgInv
  <2>1. EmptyFds # Fds /\ phase = "mounted"
    BY <2>0 DEF EmptyFds, Tabled
  <2>2. UNCHANGED <<disk, data>> => OthersKept
    BY DEF disk, ContentOf
  <2>3. UNCHANGED data \/ WriteData
    BY <1>1, <2>1 DEF ProgNext, Starts, MakesCall, thread_fs_script, Begins, BeginRead, BeginWrite,
         InTransfer, ReadData, Returns, Unmounts, Dies
  <2>4. WriteData => OthersKept
    BY <1>1, OthersKeepBytes
  <2> SUFFICES UNCHANGED disk /\ (prog' = "none" \/ Lost(fd'))
    BY <2>2, <2>3, <2>4
  <2>5. ASSUME NEW l, Begins(l)
        PROVE  UNCHANGED disk /\ Lost(fd')
    <3>1. /\ UNCHANGED disk /\ (OpensFd \/ (ClosesFd /\ fd' = fd))
          /\ fd' = fd \/ fd' \in EmptyFds
      BY <2>0, <2>1, <2>5, BeginsTabled
    <3>2. CASE ClosesFd /\ fd' = fd
      BY <3>1, <3>2 DEF ClosesFd, IsOpen
    <3>3. CASE OpensFd /\ fd' = fd
      BY <3>1, <3>3 DEF OpensFd, IsOpen
    <3>4. CASE OpensFd /\ fd' # fd
      BY <3>1, <3>4 DEF OpensFd, IsOpen, EmptyFds
    <3> QED
      BY <3>1, <3>2, <3>3, <3>4
  <2>6. MakesCall => \E l : Begins(l)
    BY Zenon DEF MakesCall, thread_fs_script
  <2>7. CASE InTransfer
    BY <2>7 DEF InTransfer, Hop, WriteData, ReadData, WriteBlock, ReadBlock, memory, disk, IsOpen
  <2>8. CASE Returns
    <3>1. PICK offset : open_files' = [open_files EXCEPT ![call.fd].offset = offset]
      BY <2>8 DEF Returns, Return
    <3>2. UNCHANGED <<disk, fd>> /\ SameOpen
      BY <2>0, <2>8, <3>1, OffsetsKeepTable DEF Returns, Return, Tabled
    <3> QED
      BY <3>2 DEF SameOpen, IsOpen
  <2>9. CASE Dies
    BY <2>1, <2>9 DEF Dies, Ends, Crash, disk
  <2>10. ~Starts /\ ~Unmounts
    BY <2>1 DEF Starts, Unmounts, UmountRoot
  <2> QED
    BY <1>1, <2>5, <2>6, <2>7, <2>8, <2>9, <2>10 DEF ProgNext
<1>2. ProgInv /\ [ProgNext]_progVars => [Step]_progVars
  <2> HIDE DEF Step
  <2> QED
    BY <1>1
<1> QED
  BY <1>2, ProgInvariance, PTL DEF ProgSpec, LostDescriptorSavesNoMetadata

LEMMA PassesAtReturn ==
  ASSUME ProgInv, prog = "simple_reader", call.pc = "return"
  PROVE  Passes
<1>1. call # Idle
  <2>1. Idle.pc = "idle"
    BY DEF Idle
  <2> QED
    BY <2>1
<1>2. /\ line = 4 /\ call.op = "read"
  BY <1>1 DEF ProgInv, Control, Transfer
<1>3. /\ fd \in Fds /\ IsOpen(fd) /\ open_files[fd].offset = ReadAt /\ call.fd = fd
      /\ call.done + call.left = ReadCount
      /\ \A k \in 1..call.done : buf[k] = Letters[ReadAt + k]
      /\ buf \in Seq(Bytes) /\ Len(buf) = call.done
  BY <1>1, <1>2 DEF ProgInv, ReadingOK, Placed, DataOK, Buffered
<1>4. /\ call.done \in Nat /\ call.left \in Nat /\ start = ReadAt /\ position = start + call.done
      /\ position + call.left <= root_dir[entry].size
  BY <1>1, <1>2, <1>3, Calling DEF ProgInv, Placed, start
<1>5. /\ root_dir[entry].size = Len(Letters) /\ Len(Letters) <= MaxSize
      /\ LettersAt(fat, root_dir[entry].data_index, data)
  <2>1. PICK g \in Fds : g = fd /\ IsOpen(g)
    BY <1>3
  <2>2. entry = open_files[g].index_in_rootdir
    BY <1>3, <2>1 DEF entry
  <2> QED
    BY <2>1, <2>2, ReaderHas DEF ProgInv
<1>6. call.left = 0
  <2>1. SUFFICES ASSUME call.left # 0
                 PROVE  FALSE
    OBVIOUS
  <2>2. call.block \in {NoBlock, FAT_EOC} /\ InPlace(entry, index, call.block)
    BY <1>4, <2>1 DEF ProgInv, Placed, Located, Searching
  <2>3. Nth(entry)[position \div BLOCK_SIZE] = FAT_EOC
    BY <2>2, BlocksFacts DEF InPlace, index
  <2>4. position \in 0..(Len(Letters) - 1)
    BY <1>4, <1>5, <2>1, ProgramNames
  <2>5. ByteAt(entry, position) = Letters[position + 1]
    BY <1>5, <2>4 DEF LettersAt, ByteAt, Nth
  <2>6. ByteAt(entry, position) = Hole
    BY <2>3 DEF ByteAt, ByteOf
  <2> QED
    BY <2>4, <2>5, <2>6, LetterFacts
<1>7. buf = Expected
  <2>1. Len(buf) = ReadCount /\ \A k \in 1..ReadCount : buf[k] = Letters[ReadAt + k]
    BY <1>3, <1>4, <1>6
  <2>2. /\ Expected \in Seq(Bytes) /\ Len(Expected) = ReadCount
        /\ \A k \in 1..ReadCount : Expected[k] = Letters[ReadAt + k]
    BY ProgramNames DEF Expected
  <2>3. buf = [k \in 1..ReadCount |-> buf[k]] /\ Expected = [k \in 1..ReadCount |-> Expected[k]]
    BY <1>3, <2>1, <2>2
  <2>4. \A k \in 1..ReadCount : buf[k] = Expected[k]
    BY <2>1, <2>2
  <2> QED
    BY <2>3, <2>4, Zenon
<1> QED
  BY <1>3, <1>4, <1>6, <1>7 DEF Passes

(* The check of simple_reader never fails, whatever ran before it and      *)
(* whenever that died.                                                     *)
THEOREM ReaderAlwaysPasses == ProgSpec => []ReaderPasses
<1>1. ProgInv => ReaderPasses
  BY PassesAtReturn DEF ReaderPasses
<1> QED
  BY <1>1, ProgInvariance, PTL

(* The bytes of a file of that name on the disk are the letters.           *)
LEMMA WholeContent ==
  ASSUME ProgInv, NEW i \in Files(disk_root), disk_root[i].filename = MyFile
  PROVE  ContentOf(disk_fat, disk_root[i]) = Letters
<1> DEFINE nth == NthBlock(disk_fat, disk_root[i].data_index)
<1>1. disk_root[i].size = Len(Letters) /\ LettersAt(disk_fat, disk_root[i].data_index, data)
  BY DEF ProgInv, Stored, Whole
<1>2. ASSUME NEW k \in 1..Len(Letters)
      PROVE  ByteOf(nth, data, k - 1) = Letters[k]
  <2>1. k - 1 \in 0..(Len(Letters) - 1) /\ (k - 1) + 1 = k
    BY ProgramNames
  <2> HIDE DEF nth
  <2> QED
    BY <1>1, <2>1 DEF LettersAt, nth
<1>3. ContentOf(disk_fat, disk_root[i]) = [k \in 1..Len(Letters) |-> ByteOf(nth, data, k - 1)]
  BY <1>1 DEF ContentOf, ByteOf
<1>4. Letters = [k \in 1..Len(Letters) |-> Letters[k]]
  BY ProgramNames
<1> QED
  BY <1>2, <1>3, <1>4, Zenon

LEMMA OnDiskIsHas == ProgInv => (OnDisk <=> Has(disk_root))
BY WholeContent DEF OnDisk, Has

LEMMA ThenOnDiskIsHas == ProgSpec => [](OnDisk <=> Has(disk_root))
BY OnDiskIsHas, ProgInvariance, PTL

LEMMA DirectorySteps ==
  ASSUME Control, [ProgNext]_progVars, ~Unmounts
  PROVE  UNCHANGED disk_root
<1>1. CASE UNCHANGED progVars
  BY <1>1 DEF progVars, dataVars
<1>2. CASE Starts \/ Returns \/ Dies
  BY <1>2 DEF Starts, Returns, Return, Dies, Crash, disk
<1>3. CASE InTransfer
  BY <1>3 DEF InTransfer, Hop, WriteData, WriteBlock, ReadData, ReadBlock, disk
<1>4. CASE MakesCall
  <2>1. ACall
    BY <1>4, CallsAreCalls
  <2> QED
    BY <2>1 DEF ACall, Mounts, fs_mount, Creates, fs_create, Deletes, fs_delete, OpensIts, Opens,
       fs_open, Seeks, fs_lseek, SeekFails, Closes, fs_close, Saves, UmountFat,
       Reads, BeginRead, fs_read, Writes, BeginWrite, fs_write, disk
<1> QED
  BY <1>1, <1>2, <1>3, <1>4 DEF ProgNext

LEMMA HasStays ==
  ASSUME ProgInv, [ProgNext]_progVars,
         Has(disk_root) \/ (prog = "simple_writer" /\ prog' = "none" /\ UmountRoot)
  PROVE  Has(disk_root')
<1>1. CASE UmountRoot
  <2>1. disk_root' = root_dir /\ phase = "umounting"
    BY <1>1 DEF UmountRoot
  <2>2. prog = "simple_writer" => line = 6
    BY <2>1 DEF ProgInv, Control, LastLine
  <2>3. Has(root_dir)
    BY <2>2 DEF ProgInv, Stored
  <2> QED
    BY <2>1, <2>3
<1>2. CASE ~UmountRoot
  <2>1. UNCHANGED disk_root
    BY <1>2, DirectorySteps DEF ProgInv, Unmounts
  <2> QED
    BY <1>2, <2>1
<1> QED
  BY <1>1, <1>2

(* Once simple_writer has unmounted its file is on the disk, whole, and    *)
(* stays there whatever programs run and die.                              *)
THEOREM FileSavedForGood == ProgSpec => SavedForGood
<1> DEFINE Step == OnDisk \/ (prog = "simple_writer" /\ prog' = "none" /\ UmountRoot) => OnDisk'
<1>1. ASSUME ProgInv, [ProgNext]_progVars, OnDisk <=> Has(disk_root), (OnDisk <=> Has(disk_root))'
      PROVE  Step
  <2>1. OnDisk' <=> Has(disk_root')
    BY <1>1 DEF Has, Files, no_file_exists
  <2> QED
    BY <1>1, <2>1, HasStays
<1>2. ProgInv /\ [ProgNext]_progVars /\ (OnDisk <=> Has(disk_root)) /\ (OnDisk <=> Has(disk_root))'
        => [Step]_progVars
  <2> HIDE DEF Step
  <2> QED
    BY <1>1
<1> QED
  BY <1>2, ProgInvariance, ThenOnDiskIsHas, PTL DEF ProgSpec, SavedForGood

(* What FatFs promises of the disk and of files holds for these programs   *)
(* too: their steps are steps of FatFs.                                    *)
THEOREM ProgramsKeepFiles ==
  ProgSpec => [](TypeOK /\ FilesDisjoint /\ DiskWellFormed /\ UnsyncedWritesSpareDisk)
<1>1. ProgInv => FilesDisjoint /\ DiskWellFormed
  BY LocalImpliesWellFormed
  DEF ProgInv, Inv, Typed, TypeOK, Storage, FilesDisjoint, DiskWellFormed
<1>2. ProgInv => TypeOK /\ UnsyncedWritesSpareDisk
  BY SparesTheDisk DEF ProgInv, Inv, Typed
<1> QED
  BY <1>1, <1>2, ProgInvariance, PTL
=============================================================================
