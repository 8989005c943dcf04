------------------------------ MODULE FatTable ------------------------------
(***************************************************************************)
(* The file allocation table as it lies in memory: fat_size blocks that    *)
(* fs_mount allocates one after the other, and the index arithmetic of     *)
(* get_fat_at_index and set_fat_at_index, which divides by the entries of  *)
(* a block and takes the remainder by twice as many.  An index whose slot  *)
(* is not in its block refers to the memory behind it.                     *)
(*                                                                         *)
(* Memory is an array of half-words that starts at fat[0].                 *)
(***************************************************************************)
EXTENDS Integers, FiniteSets

CONSTANTS
  ENTRIES,      (* entries of a FAT block: 2048                             *)
  HEADER,       (* half-words between two blocks of malloc: 8               *)
  fat_size,     (* FAT blocks of the disk                                   *)
  data_size,    (* data blocks of the disk                                  *)
  Junk          (* what memory outside the FAT blocks may hold              *)

FAT_EOC == 65535
Indices   == 0..(data_size - 1)
FatBlocks == 0..(fat_size - 1)
Slots     == 0..(ENTRIES - 1)
HalfWords == Indices \union {0, FAT_EOC} \union Junk

ASSUME ShapeAssumption == ENTRIES \in Nat \ {0} /\ HEADER \in Nat /\ fat_size \in Nat \ {0}
ASSUME SizeAssumption  == data_size \in 1..(fat_size * ENTRIES)
ASSUME JunkAssumption  == Junk # {} /\ Junk \subseteq 0..FAT_EOC

VARIABLES
  memory,       (* from fat[0] on                                           *)
  disk,         (* the FAT blocks of the virtual disk                       *)
  mounted

vars == <<memory, disk, mounted>>

Base(n)    == n * (ENTRIES + HEADER)          (* of fat[n]->fat_array       *)
Addresses  == 0..(Base(fat_size) + ENTRIES - 1)
InBlock(a) == a \div (ENTRIES + HEADER) < fat_size /\ a % (ENTRIES + HEADER) < ENTRIES

SlotWrapsEarly(index) ==      (* mutant: off by one in the remainder        *)
  Base(index \div ENTRIES) + (index % (ENTRIES - 1))

(* Where &fs->fat[index / 2048]->fat_array[index % 4096] points to.        *)
AddressOf(index) == Base(index \div ENTRIES) + (index % (2 * ENTRIES))

get_fat_at_index(index) == memory[AddressOf(index)]

LastForgotten ==              (* mutant: the search stops one entry early   *)
  {i \in Indices \ {0, data_size - 1} : get_fat_at_index(i) = 0}

FreeIndices == {i \in Indices \ {0} : get_fat_at_index(i) = 0}

IsFirst(i, S) == i \in S /\ \A j \in S : i <= j

(* set_fat_at_index(b, FAT_EOC) for the first index that reads as free.    *)
allocate_new_fat(b) ==
  /\ mounted
  /\ IsFirst(b, FreeIndices)
  /\ memory' = [memory EXCEPT ![AddressOf(b)] = FAT_EOC]
  /\ UNCHANGED <<disk, mounted>>

(* The case of get_next_fat that changes the table: allocate_new_fat and   *)
(* set_fat_at_index(index, b).                                             *)
get_next_fat(index, b) ==
  /\ mounted
  /\ get_fat_at_index(index) = FAT_EOC
  /\ IsFirst(b, FreeIndices)
  /\ memory' = [memory EXCEPT ![AddressOf(b)] = FAT_EOC, ![AddressOf(index)] = b]
  /\ UNCHANGED <<disk, mounted>>

(* The blocks are allocated and filled from the disk; what lies between    *)
(* and behind them is whatever it is.                                      *)
fs_mount ==
  /\ ~mounted
  /\ mounted' = TRUE
  /\ \E rest \in [{a \in Addresses : ~InBlock(a)} -> Junk] :
       memory' = [a \in Addresses |->
         IF InBlock(a) THEN disk[a \div (ENTRIES + HEADER)][a % (ENTRIES + HEADER)]
         ELSE rest[a]]
  /\ UNCHANGED disk

(* Every FAT block is written from its place in memory.                    *)
fs_umount ==
  /\ mounted
  /\ mounted' = FALSE
  /\ disk' = [n \in FatBlocks |-> [k \in Slots |-> memory[Base(n) + k]]]
  /\ UNCHANGED memory

Crash == mounted /\ mounted' = FALSE /\ UNCHANGED <<memory, disk>>

(* The count of free entries by fs_info, which goes through the blocks     *)
(* itself.                                                                 *)
free_fat_blocks ==
  Cardinality({i \in Indices : memory[Base(i \div ENTRIES) + (i % ENTRIES)] = 0})

(* As fs_make.x leaves the FAT.                                            *)
Init ==
  /\ disk = [n \in FatBlocks |-> [k \in Slots |-> IF n = 0 /\ k = 0 THEN FAT_EOC ELSE 0]]
  /\ memory = [a \in Addresses |-> IF a = 0 THEN FAT_EOC ELSE 0]
  /\ mounted = FALSE

Next ==
  \/ \E b \in Indices : allocate_new_fat(b)
  \/ \E index \in Indices \ {0}, b \in Indices : get_next_fat(index, b)
  \/ fs_mount
  \/ fs_umount
  \/ Crash

Spec == Init /\ [][Next]_vars
-----------------------------------------------------------------------------
TypeOK ==
  /\ memory \in [Addresses -> HalfWords]
  /\ disk \in [FatBlocks -> [Slots -> HalfWords]]
  /\ mounted \in BOOLEAN

(* Entry i of the table as the disk format has it, and as fs_info reads    *)
(* it: slot i % ENTRIES of FAT block i / ENTRIES.                          *)
SavedEntry(i) == disk[i \div ENTRIES][i % ENTRIES]

Flat == INSTANCE FlatTable WITH
  table <- [i \in Indices |-> get_fat_at_index(i)],
  saved <- [i \in Indices |-> SavedEntry(i)]

(* For the rest of fs.c the table is one array that survives fs_umount     *)
(* and fs_mount: get_fat_at_index, set_fat_at_index and the two loops over *)
(* fs->fat agree on where an entry is.                                     *)
TableIsFlat == Flat!Spec

(* fs_info counts as free the entries that find_first_free_fat can find.   *)
InfoCountsFree == mounted => free_fat_blocks = Cardinality(FreeIndices)
-----------------------------------------------------------------------------
(* fs_umount saves the entries that the calls have set: the blocks that    *)
(* fs_write added to a file are still the file's after the next fs_mount.  *)
UmountSavesEntries ==
  [][fs_umount => \A i \in Indices : SavedEntry(i)' = get_fat_at_index(i)]_vars
=============================================================================
