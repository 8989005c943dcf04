# Verification of libfs

`libfs` is a small FAT-like file system in user space. An image file on the
host is the *virtual disk*: a superblock, the file allocation table (FAT), one
block of root directory, and data blocks. A client mounts one disk, works with
its files through descriptors, and unmounts it. This directory models the
library in TLA+, checks the models with TLC, and proves theorems about them
with TLAPS.

    tlc -workers 2 -config FatFs_session.cfg MCFatFs.tla
    tlapm FatFsProofs.tla

## Inventory

| part | state | operations | how it can go wrong |
|---|---|---|---|
| files and directory, `libfs/fs.c` | `fs->fat`, `fs->root_dir`, `open_files` | `fs_create`, `fs_delete`, `fs_open`, `fs_close`, `fs_lseek`, `fs_stat`, `fs_read`, `fs_write` | descriptors, entries and chains point at each other by small integers; allocation happens in several assignments inside reads and writes; the disk runs full in the middle of a call |
| saving, `fs_umount` and `fs_mount` | the FAT and directory blocks on the disk | write FAT, write directory; read both | data blocks are written at once, metadata at the end only; the process may die in between |
| life cycle, `fs_mount`, `fs_umount`, `disk.c` | the pointer `fs`, `disk.fd`, `open_files[].empty` | `fs_mount`, `fs_umount`, and the guards of all other calls | eight failing exits of `fs_mount`, each with its own cleanup; `fs` is never reset |
| FAT addressing, `get_fat_at_index`, `set_fat_at_index` | the array of FAT blocks | one entry read, one written | index arithmetic on disks of more than 2048 data blocks |
| file contents | data blocks, bounce buffers | `block_read`, `block_write` in `fs_read`, `fs_write` | results of the block layer are ignored |
| block device, `libfs/disk.c` | `disk.fd`, `disk.bcount` | open, close, count, read, write | one disk at a time; short transfers count as success |
| script driver, `apps/test_fs.c` | `fs_fd`, `mounted` | one library call per script line | one variable for all descriptors; its error paths unmount with files open |
| simple programs, `apps/simple_writer.c`, `simple_reader.c`, `old_test_phase4.c` | `fd` | a fixed sequence of calls, each checked | one relies on what another has saved |
| other tests, shell scripts | none | straight-line calls | |
| `fs_info`, `fs_ls` | none | print | the free count and what can be allocated may differ |
| `fs_make.x`, `fs_ref.x` | | format a disk; reference program | binaries without source |

The library is sequential: no threads, callbacks or messages. What is hard is
not interleaving but long sequences of legal calls on shared tables (two
descriptors of one file, reuse of entries), calls that fail half-way on a full
disk, and crashes, because metadata reach the disk only in `fs_umount`. The
hazards are listed, each with its line and the properties that address it, in
`PROJECT.json`.

The properties that make each part correct: *files* - chains of different
files are disjoint and allocated, descriptors refer to existing files and stay
within them, names are unique, a write is short only on a full disk, calls
return; *saving* - what is on the disk is a usable file system at every
instant; *life cycle* - what is mounted is valid and keeps its disk, files and
descriptors until a clean unmount; *addressing* - the FAT is one flat array;
*contents* - a read returns what was last written and no call changes other
bytes; *programs* - what one has saved, the next one finds, whoever has died
in between.

## Modules

| module | models |
|---|---|
| `FatFs` | a mounted file system, its disk, saving, crashes; properties |
| `MCFatFs` | small instances of `FatFs` |
| `FatFsProofs` | theorems about `FatFs`: types, directory, chains, the disk, offsets |
| `UnsyncedProofs`, `OwnershipProofs`, `LengthProofs` | more of them: unsaved writes; files that are not open, and lost blocks; lengths of chains |
| `Mount` | the life cycle; properties |
| `MCMount` | an instance of `Mount` with nine kinds of image |
| `MountProofs` | theorems about `Mount` |
| `FatTable` | the FAT as it lies in memory, with the index arithmetic of `fs.c` |
| `FlatTable` | abstract: the FAT as one array, as `FatFs` has it |
| `MCFatTable`, `FatTableProofs` | instances of, and theorems about, `FatTable` |
| `FileData` | `FatFs` with the bytes of data blocks and a host that may fail |
| `ByteStore` | abstract: files as sequences of bytes, calls that take effect at once |
| `DataProofs` | the proof that `FileData` implements `ByteStore` |
| `MCFileData` | instances of `FileData` |
| `Programs` | programs that use the library one after the other, and die |
| `MCPrograms`, `ProgramsProofs` | an instance of, and theorems about, `Programs` |

`FileData` extends `FatFs`: each of its steps is a step of `FatFs` that also
moves bytes. `Programs` extends `FileData`: each of its steps is one of
`FileData` or `FatFs` that the running program makes next. `FatTable` stands
below `FatFs` and `Mount` before it: `FatFs` begins where a mount of `Mount` has
succeeded. Two pairs are a detailed and an abstract specification with a
refinement mapping: `FatTable` implements `FlatTable` (`TableIsFlat`), and
`FileData` implements `ByteStore` on a host that does not fail
(`FilesAreByteStores`) and a weaker form of it on one that does
(`FailuresStayInCall`); all are proved.

### FatFs

`fat`, `root_dir`, `open_files` are the C variables; `disk_fat`, `disk_root`
the blocks on the disk. `call` holds the locals of the `fs_read` or `fs_write`
in progress and `phase` says whether the process has a file system mounted or
is inside `fs_umount`.

* `fs_create`, `fs_delete`, `fs_open`, `fs_close`, `fs_lseek` touch memory only
  and are one action each. A call that returns -1 before its first assignment
  changes nothing and is a stuttering step.
* `fs_read`, `fs_write` start a call (`Enter` is `get_block_of_offset` up to its
  loop, with the allocation of the first block); `Hop` is one iteration of that
  loop, `WriteBlock` or `ReadBlock` one iteration of the loop over blocks with
  the search for the next block, `Return` the update of offset and size. A
  crash between them leaves different disks, which is why they are separate.
* `UmountFat`, `UmountRoot` are the writes of `fs_umount`; `fs_mount` loads the
  disk and clears the table. `Crash` is the death of the process at any point,
  or the `exit(1)` of `fs_umount` on a failed write.
* `find_first_free_fat`, `fs_find_empty_entry` and the like return the first
  index that fits: `IsFirst(i, S)`.
* `get_fat_at_index(-1)`, which `get_block_of_offset` reaches on a full disk,
  reads the two bytes before the array: the upper half-word of the chunk size
  that the allocator keeps there, which is 0.

Names are model values, among them the empty name (`NoName`, a free entry) and
one that is too long. Contents of blocks are left to `FileData`. `Formatted`,
the initial disk, is what `fs_make.x` writes; it and the initial state of
`FatTable` are the definitions without source.

The FAT is one block (`data_size <= 2048`), so that every index is its own
slot (`FatTable` shows what that rests on). Fields of entries without a name and
of closed descriptors, which no code reads, are set to fixed values so that
equal states are equal.

### Mount

`fs` is null, `unread` (allocated, nothing read into it), `mounted`, or `freed`
with the pointer kept. `disk` is the image that `disk.fd` refers to. An image is
a record of what `fs_mount` looks at. Calls on freed or unread memory have
undefined behaviour: the actions let them return what the C types allow or kill
the process, as seen when the library is run. `fs_mount_io_error` is `fs_mount`
when the host fails to read a block. `last` is the call that returned last and
`handed` the descriptors returned since the mount; both exist for the
properties only.

### FatTable

`memory` is an array of half-words that begins at the first FAT block; the
blocks, one `malloc` each, follow one another with the `HEADER` that the
allocator keeps between them. `AddressOf` is the arithmetic of
`get_fat_at_index` and `set_fat_at_index` (`fs.c:142-152`): block
`index / 2048`, slot `index % 4096`. `allocate_new_fat` and `get_next_fat` go
through it; `fs_mount`, `fs_umount` and `free_fat_blocks` (`fs_info`) walk the
blocks themselves. What memory holds behind the blocks is any half-word of
`Junk`.

### FileData and ByteStore

`data` is the data blocks of the virtual disk and `buf` the buffer of the
client: what `fs_write` is to write, and what `fs_read` has delivered so far.
`block_read` and `block_write` (`disk.c`) do their work or, on a failing host,
less: `block_read` leaves anything in the bounce buffer, `block_write` a prefix
of the block on the disk. `fs.c` looks at neither result, so the model's callers
do not. `host`, chosen once, says whether that may happen. `WriteData` and
`ReadData` are the loop bodies with their `memcpy`. `seen`, which is not in the
code, is what the files held when the last call returned; it makes a call that
takes many steps one step of `ByteStore`. For the same reason the mapping shows
`buf` between calls only.

`ByteStore` says what a client may rely on: a write of n bytes changes these and
no other byte, moves the offset by n and the size with it; a read delivers the
bytes at the offset, moves the offset, and changes no byte. It makes one
exception on any host: a byte that `fs_lseek` has added to the size without a
block is a `Hole`, which a read returns as 0 or stops at and which later calls
may turn into 0; and behind a hole, on a full disk, a write may be lost and a
read deliver anything (`lostwrite`).

What a failing host takes away is a specification of its own, `FailingSpec`: the
calls of `Spec`, except that the bytes a call counts as written or read, and the
rest of their blocks, may be anything. So there are two properties.
`FilesAreByteStores` claims all of `ByteStore` of a host that does not fail;
`FailuresStayInCall` claims of any host that other blocks, other files, sizes
and offsets are right. That the client is not told what was not written is the
finding of the run `unwritten`.

### Programs

`prog` is the program that runs, `line` its next call and `fd` its variable for
the descriptor. `simple_writer`, `simple_reader`, `old_test_phase4` are the
calls of the three main functions in order; `thread_fs_script` makes any calls a
script may list on its one file, and keeps the descriptor of the last OPEN only
(`test_fs.c:128`). A failed `ASSERT`, `die()`, `exit(1)` and a crash are one
action, `Dies`: a check of a program (`Passes`) is the guard of its next step.
The 26 letters of `simple_writer` are three bytes in the model, the ten bytes
that `simple_reader` reads two of them, the ten of `old_test_phase4` one, and
blocks have two bytes, so that the letters span two blocks.

## Runs

| run | specification | bounds | what it shows |
|---|---|---|---|
| `session` | `SessionSpec` | 3 blocks of 2 bytes (block 0 reserved), 2 entries, 2 descriptors, files up to 4 bytes, transfers of 0, 1, 3 bytes | types; files disjoint; descriptors valid and within their files; names unique; chains no longer than sizes need; short writes only on a full disk, short reads only in files with missing blocks; only `fs_delete` leaks; closed files are untouched; each step brings a call nearer to its end; calls return |
| `crash` | `Spec` | 3 blocks of 1 byte, 2 entries, 1 descriptor, files up to 3 bytes, a and b symmetric | the disk is well formed at every instant; its chains only grow; unsaved writes spare the files that are still on the disk |
| `shortread` | `Spec` | | violation: `fs_read` stops before the end of a file |
| `lostwrite` | `Spec` | | violation: `fs_write` counts bytes it wrote to block 0 |
| `life` | `Mount!Spec` | 9 images, 2 descriptors | mounted file systems are valid, keep their disk and own their descriptors, and end by a clean `fs_umount` only; refusals change nothing |
| `stale` | `Mount!Spec` | as `life` | violation: calls succeed with nothing mounted |
| `wedged` | `Mount!Spec` | as `life` | violation: a failed mount blocks the next, valid one |
| `table` | `FatTable!Spec` | 1 FAT block of 4 entries, 4 data blocks, memory behind it 0 or 65535 | the table implements the flat array; `fs_info` counts what can be allocated |
| `bigdisk` | `FatTable!Spec` | 2 FAT blocks of 2 entries, 4 data blocks | violation: `fs_umount` does not save all entries |
| `bytes` | `DataSpec` | 3 blocks of 2 bytes, buffers of 1 and 3 bytes, bytes 0 and 1; two files up to 4 bytes and one descriptor open at a time, or one file up to 5 bytes (4 on a failing host) and two descriptors; names symmetric | on a reliable host `FileData` implements `ByteStore`; a failing one spoils only the blocks of the call |
| `unwritten` | `DataSpec` | 2 blocks of 2 bytes, 1 file, 2 descriptors, files up to 6 bytes | violation: on a failing host `fs_write` counts bytes that are not in the file |
| `programs` | `ProgSpec` | 4 blocks of 2 bytes, 2 entries, 2 descriptors, three letters | the reader's check is passed whenever it finds the file; what the writer saved stays on the disk; a script that loses a descriptor saves no metadata any more |

Two data blocks are enough for chains of two blocks, for two files that compete
for blocks, and for a disk that is full in the middle of a call; blocks of two
bytes for transfers that start or end inside a block; two descriptors for two
offsets in one file and for a file that is open while another is deleted; two
entries for reuse of an entry while another file exists. Two mounts suffice to
see a deleted file's entry again after a crash, and the number of mounts is not
bounded. `MaxSize` and `Counts` bound the sizes of files and transfers; files
longer than the whole disk are included. `Spec` runs with bytes and blocks the
same size since crashes do not depend on positions within a block.

The arithmetic of `FatTable` depends on an index only through its block and
slot, so that blocks of two or four entries show what blocks of 2048 do: the
last entry of a block, the first of the next, and what lies between. `bytes`
(958,950 states) has two files and a free block for each, transfers of three
bytes that start inside a block and end in the next, and a failing host; or one
file that outgrows the disk, with two offsets in it, so that holes, the full disk
and the writes that go to block 0 occur. `MCBound` is the choice between these:
files and descriptors both at their limit would be too many states. Two byte
values tell a wrong byte from the right one, since the buffers
and what hosts spoil put both at every place. `programs` (1.9 million states)
has any number of programs in any order, so that blocks orphaned by a dead
process, a deleted file and a file of another program all meet the saved one.

Deadlock checking is off in `session`, `bytes` and `unwritten`, where the process
has finished after `fs_umount`, and in the runs of `Mount`, where it may have
died.

**Fairness.** `SessionSpec` assumes `WF_vars(Running)`: the single thread goes on
with the call it is in. No client is assumed to call anything, and no crash
happens in a session. `CallsReturn` (every read, write and unmount ends) is the
one liveness property.

### What the violations show

The six violation runs each refute what `libfs/fs.h` says of a call:

1. `shortread` - `fs_lseek` to the end of a file makes it one byte longer
   (`fs.c:568`) without a block; `fs_read` stops at the end of the chain.
2. `lostwrite` - `get_block_of_offset` goes on from the -1 of a full disk.
3. `stale` - `fs` is never set to NULL again; after an early failure the table
   of open files is still zero, and zero means open.
4. `wedged` - the failing exits of `fs_mount` leave the disk open.
5. `bigdisk` - a FAT block has 2048 entries, the slot is taken modulo 4096:
   entries 2048 to 4095 are set behind `fat[1]` and not saved.
6. `unwritten` - `fs_write` ignores the result of `block_write` (`fs.c:289`),
   which takes a short write for a success (`disk.c:109`): it returns 1 and
   nothing was written. `fs_read` ignores that of `block_read` (`fs.c:242`).
   On the host that does not fail, all states of this instance satisfy the
   violated invariant.

Two more are visible in the models without a run: `fs_create("")` returns 0 and
makes no file, since only long names are refused (`fs.c:469`;
`filename_is_invalid`, `fs.c:48`, is false of every string) and an entry with an
empty name is a free one (`fs.c:37`); and a wrong signature frees the superblock
through two pointers (`fs.c:323`).

## Proofs

`FatFsProofs` proves for every number of blocks, entries, descriptors, every
block size and every set of names, of behaviours of `Spec` (any number of
crashes and mounts): `TypeCorrect`, `DescriptorsHaveFiles`, `NamesStayUnique`,
`FilesStayDisjoint`, `CrashSafety`, `DiskNeverShrinks`, `ShortWritesMeanFull`,
`OffsetsStayInFile` and `CallsComeToAnEnd`; and `SessionIsSpec`, which carries
them over to `SessionSpec`. The assumptions are those that `FatFs` names: at least one entry
and descriptor, `1..2048` data blocks, a positive block size. "Every disk" means
in all theorems one of up to 2048 data blocks, whose FAT is one block; the run
`bigdisk` shows what happens beyond.

*Why more than the properties is needed.* `FilesDisjoint` speaks of chains,
defined as smallest closed sets of blocks, and no step is local in those terms.
The invariant states locally what makes chains disjoint: every link of the FAT
leads to an allocated block other than 0, no two blocks have the same successor,
and the heads of different files are different, allocated, and nobody's
successor (`LinksOK`, `HeadsOK`). `ChainFacts` and `ChainsDoNotMeet` derive from
that, by reasoning about closed sets instead of induction along a chain, that
chains of different files do not meet (`LocalImpliesWellFormed`).

*Why crashes are safe.* The local invariant holds of three pairs: memory
(`fat`, `root_dir`), the disk (`disk_fat`, `disk_root`), and the mixed pair
(`fat`, `disk_root`), which is what the disk holds between the two writes of
`fs_umount`. The mixed pair is well formed because the FAT in memory only
extends that of the disk (`Grows`), and it only does so because `fs_delete`
frees no block: the leak is what makes the order of the writes harmless.

*Short writes* need that the block in hand (`call.block`) is the reserved one,
or allocated, or -1 with a full disk (`InHand`), *offsets* that the offset plus
the bytes moved stay below the new size while a call runs (`Seeking`).

*Why calls end.* `StepsLeft` counts the links still to follow, the bytes still
to move, and what comes after the loops. `CallsComeToAnEnd` says that it is a
natural number and that every step inside a call takes from it. The invariant is
that a loop that runs has bytes left (`Pending`), so that the next iteration
moves one or gives up. What this leaves of `CallsReturn` to TLC is that the
thread in a call has a next step, which is a matter of `ENABLED`, and that it
makes it, which is the fairness.

*Unsaved writes* (`UnsyncedProofs`). `WritesSpareTheDisk`: of `Spec`, so with
any crashes and mounts, an `fs_write` in progress works on block 0, on a block
that is free on the disk, or on one of the same file on the disk. The
strengthening says what is new since the mount: a link that memory has and the
disk has not leads to a block that is free on the disk, and so does a head. A
block in hand is reached by such a link, or by one the disk has too, and then
it stays in the chain of the file it comes from.

*Whose blocks a call works on* (`OwnershipProofs`). `ClosedFilesStay` and
`OnlyDeletesLeak`, of `SessionSpec`, follow from one fact about each step of a
call: it leaves the entries and chains of all other files alone and loses no
block (`OnlyTouches`). This needs that the block in hand is in the chain of the
call's own file (`Owned`); `ChainUntouched` and `ChainExtended` say how a chain,
a smallest closed set, changes when one link is set.

*How long chains are* (`LengthProofs`). `ChainsFitSizes` and
`ShortReadsMeanHoles`, of `SessionSpec`, count the blocks of a chain. No
induction along the chain is needed: the loops walk the chain, so the invariant keeps a set of at most n blocks that links leave only
from the n-th, the one in hand (`Reached`, `Placed`), and n is known from the
offset and the bytes moved (`Behind`). When the n-th block has no link that set
is closed, so the chain has at most n blocks (`ReachedEnd`). `CallFits` compares
n with what the call has written or is about to write, `ReadsEnd` with what a
read that runs out of blocks has read. After a crash between the two writes of
`fs_umount` a chain may be longer than its size needs, since the FAT is saved
before the sizes: `ChainFitsSize` is a property of sessions.

*The bytes of files* (`DataProofs`), for every value of the constants.
`Refinement` is `DataSpec => FilesAreByteStores`: while the host does not fail
each call of `FileData` takes effect at once when it returns, as the call of
`ByteStore`, and its steps before that change nothing a client can see.
`ReliableRefinement` says the same of behaviours: with a host that never fails
`DataSpec` implements `ByteStore!Spec`. `FailuresContained` is `DataSpec =>
FailuresStayInCall`: on any host the calls are those of `FailingSpec`. The
argument, the same for both hosts up to the bytes of the blocks that a call
touches:

- *Blocks by number.* The n-th block of a chain (`NthBlock`) is a recursive
  function, so a fact about it needs induction over n. The theorem that every
  non-empty set of naturals has a least member gives it (`Induction`, used with
  the set of the numbers of which the fact holds). Parts 1 to 3 prove that no
  block has two numbers, that two files share none, that behind the end of a
  chain there is only its end, what a new link at the end changes
  (`FAT_EOC` becomes the new block at one number), and that byte k of a file is
  byte `(k - 1) % BLOCK_SIZE` of block `(k - 1) \div BLOCK_SIZE`.
- *The invariant* `DataInv` (Part 4) has these parts. `Located`: the block in
  hand is the one with the number that the offset and the bytes moved call for,
  which is what makes the cases of the loops of `fs_read` and `fs_write` agree.
  `Bounded`: no file outgrows `MaxSize`. `FreshZero`: every free block holds
  zeros, so a hole that gets a block becomes zeros; it holds since `fs_delete`
  frees no block. `Tails`: so do the bytes of the last block
  behind the end of the file, on a host that does not fail, which is why
  `fs_lseek` to the end appends a 0 or a hole and nothing else. `Seen`:
  between calls `seen` is what the files hold. `WrittenSoFar` and `ReadSoFar`:
  what the files and the buffer hold in the middle of a call, in terms of `seen`
  and of the bytes moved so far; on a failing host only that bytes outside the
  blocks touched are kept.
- *The steps.* Parts 6 to 8 prove the invariant (`DataInvariance`); Part 9 maps
  each step (`StepIsCall`). A step inside a call leaves `seen`, the descriptors and the hidden
  buffer alone, a stutter (`InsideIsStutter`); the `Return` of a write or a read
  is `Write` or `Read` (`WriteReturns`, `ReadReturns`), by `WrittenSoFar` and
  `ReadSoFar` for all the bytes moved; every other call is one step that is its
  counterpart (`CreateIsOther`, ..., `SeekIsOther`).

`DataNext` never crashes: like `seen`, the refinement is of one process that
mounts a formatted disk, up to its `fs_umount`.
`ClosedAssumption` says that the model value `Closed` is no position. The
invariants that `DataProofs` takes from `FatFsProofs` and `OwnershipProofs` are
proved there of `AnyNext`, a next-state relation with any number of bytes to a
call, since the length of a buffer need not be a member of `Counts`.

`MountProofs` proves the five properties of the run `life` for every set of
images and every size of the table. The invariant is the conjunction of the
three invariants: a second `fs_mount` is harmless because a mounted file
system's disk is open.

`FatTableProofs` proves that `FatTable` implements `FlatTable`
(`SmallTableIsFlat`) and that `fs_info` tells what is free (`InfoTellsFree`) for
every number of entries of a block, provided the FAT is one block
(`data_size <= ENTRIES`): then an index is its own slot, and what lies behind
the block is never looked at. `TableTyped` needs no such proviso. This is what
the assumption `data_size \in 1..2048` of `FatFs` rests on.

*What programs leave for each other* (`ProgramsProofs`). Three theorems about
`ProgSpec` state the properties of the run `programs`, for every value of the
constants, on a host that does not fail.

`LostDescriptorsSaveNoMetadata`: no step of a script but the close of its last
descriptor empties an entry of the table, and `fs_umount` refuses until all are
empty, so that the FAT and the directory on the disk stay. This needs that files
are open only while a file system is mounted (`Tabled`); else an unmount under
way could still write the directory. Data blocks are another matter: `fs_write`
into a block that the script's own file has on the disk is there at once. That
no other file of the disk changes (`OthersKeepBytes`) is
`UnsyncedWritesSpareDisk`, that is, `UnsyncedProofs`.

`ReaderAlwaysPasses` and `FileSavedForGood` are about the file that
`simple_writer` leaves on the disk. Every step of `ProgSpec` is one of `AnyNext`
(`ProgramsAreAnyNext`), so that the invariants of `FatFsProofs` and
`UnsyncedProofs` hold; `ProgramsKeepFiles` says what that gives. Of `DataInv`
only `Located` and `Bounded` remain: a crash leaves blocks behind that are free
again and not zero, and another process may reuse an orphaned block, so neither
`FreshZero` nor `Tails` is true here. `ProgInv` adds to them:

- `Control`: which line a program can be at, given `phase` and `call`; `Opened`:
  a program has only its own file open.
- `Stored`: a file of that name on the disk is whole (`Whole`: its size is that
  of the letters, and each byte is where its chain has it), and so is one in
  memory unless `simple_writer` is between its `fs_create` and the end of its
  `fs_write` (`WritingOut`); what the disk has, memory has too, and then nobody
  is writing it out. So the two FATs, directories and the one set of data blocks
  agree about the file at every instant, also between the writes of `fs_umount`.
- `WritingOK`, `ReadingOK`: what those two calls have moved so far.

A step is harmless to the file on the disk for three reasons. The FAT that
`fs_umount` writes has only grown, and a block keeps its number then
(`LettersGrow`). An `fs_write` of another file spares its blocks in memory since
no block has two files (`GoesInMemory`), and its blocks on the disk by
`UnsyncedWritesSpareDisk` (`GoesOnDisk`), also when memory has deleted the file.
And the directory that `fs_umount` writes has the file whenever the disk has it,
since nobody deletes it or changes its size: `simple_reader` seeks to a place
inside the file, so that `fs_lseek` does not lengthen it (`SeekStored`), which
is why `ProgramsAssumption` has the program read at least one byte.

Only model-checked: `CallsReturn`, since liveness under fairness is out of the
prover's reach; `CallsComeToAnEnd` proves the part of it that is a safety
property. Which calls of `Programs`, `FileData` and `Mount` are enabled
when is not stated as a property at all: `ENABLED` is out of reach as well.

## Not modelled

* Superblocks that `fs_mount` (`fs.c:317-338`) accepts although the arrays do
  not fit them: with `fat_size` 0 it reads through `fs->fat[0]`, which nothing
  has set (`fs.c:350`), with more than 4 it writes behind `fat[4]` (`fs.c:61`),
  and `data_size` may be above the 8192 that four FAT blocks have entries for.
  `ImageType` of `Mount` leaves such images out; no property's outcome
  depends on it.
* Short writes of metadata: `UmountFat` and `UmountRoot` write their block as
  a whole or, as `Crash`, not at all. The partial transfers that `disk.c:109` and
  `disk.c:137` take for complete ones are modelled for data blocks, in
  `FileData`; a FAT or directory block of which the host has written a part only
  may break `DiskWellFormed`.
* `fs_read` and `fs_write` of more than 2 GiB: `size_t` becomes `int`
  (`fs.c:224`) and counts turn negative.
* Memory of the process: the bounce buffer that is never freed (`fs.c:241`), a
  `malloc` that fails, and what becomes of the allocator's own data when
  entries of a large FAT are set behind their block; `bigdisk` shows the
  entries only.
* The host's descriptor that `block_disk_open` does not close when `fstat` fails
  or the image is not a whole number of blocks (`disk.c:47`).
* Scripts of `test_fs.c` that call the library before MOUNT or after UMOUNT
  (`Mount` has such calls), what its commands compare and print, and its other
  commands (`add`, `rm`, `cat`, `stat`): mount, a few of the calls of a script
  in a fixed order on one file, unmount, all of which are among the scripts.
* The other test programs and the shell scripts: straight-line calls with fixed
  arguments.
* `fs_make.x`, beyond the disk it leaves, and `fs_ref.x`: binaries without
  source. Text printed by `fs_info` and `fs_ls`.

## Plan

1. `FatFs`, `Mount` with their proofs: done.
2. `FatTable` against `FlatTable`, with its proof: done.
3. `FileData` against `ByteStore`, with its proof: done.
4. `Programs`, with its proof: done.
5. Theorems: every property of the passing runs is proved, except `CallsReturn`,
   which is out of reach. What could follow are the commands of `test_fs.c` that
   check what they read against a file of the host, and theorems about scripts.
