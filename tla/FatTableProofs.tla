--------------------------- MODULE FatTableProofs ---------------------------
(***************************************************************************)
(* Theorems about FatTable: types for every disk, and for disks whose FAT  *)
(* fits in one block, data_size <= ENTRIES, that the table is one array.   *)
(* The run FatTable_big shows that the condition is needed.                *)
(***************************************************************************)
EXTENDS FatTable, FiniteSetTheorems, TLAPS

(* An index of the first FAT block is its own slot and its own address.    *)
LEMMA FirstBlock ==
  ASSUME data_size <= ENTRIES, NEW i \in Indices
  PROVE  /\ i \div ENTRIES = 0 /\ i % ENTRIES = i
         /\ AddressOf(i) = i /\ i \in Slots /\ i \in Addresses /\ InBlock(i)
<1> i \in Int /\ 0 <= i /\ i < ENTRIES
  BY ShapeAssumption, SizeAssumption DEF Indices
<1>1. i \div ENTRIES = 0 /\ i % ENTRIES = i /\ i % (2 * ENTRIES) = i
  BY ShapeAssumption
<1>2. i \div (ENTRIES + HEADER) = 0 /\ i % (ENTRIES + HEADER) = i
  BY ShapeAssumption
<1>3. Base(0) = 0 /\ Base(fat_size) \in Nat
  <2>1. \A n, e \in Nat : n * e \in Nat
    OBVIOUS
  <2> QED BY <2>1, ShapeAssumption DEF Base
<1> QED BY <1>1, <1>2, <1>3, ShapeAssumption DEF AddressOf, Slots, Addresses, InBlock

(* InBlock(a) says that address a is slot a % (ENTRIES + HEADER) of a FAT  *)
(* block, so that loading and saving stay within blocks and memory.        *)
LEMMA BlockBounds ==
  /\ \A a \in Addresses : InBlock(a) =>
       /\ a \div (ENTRIES + HEADER) \in FatBlocks
       /\ a % (ENTRIES + HEADER) \in Slots
  /\ \A n \in FatBlocks, k \in Slots : Base(n) + k \in Addresses
<1> DEFINE S == ENTRIES + HEADER
<1>0. S \in Nat \ {0} /\ ENTRIES \in Nat \ {0} /\ fat_size \in Nat \ {0}
  BY ShapeAssumption
<1>1. ASSUME NEW a \in Addresses, InBlock(a)
      PROVE  a \div S \in FatBlocks /\ a % S \in Slots
  <2>1. a \in Nat
    BY <1>0 DEF Addresses
  <2>2. a \div S \in Nat /\ a % S \in Nat
    <3> HIDE DEF S
    <3> QED BY <1>0, <2>1
  <2> QED BY <1>0, <1>1, <2>2 DEF InBlock, FatBlocks, Slots
<1>2. ASSUME NEW n \in FatBlocks, NEW k \in Slots
      PROVE  Base(n) + k \in Addresses
  <2>1. n \in Nat /\ n <= fat_size /\ k \in Nat /\ k <= ENTRIES - 1
    BY <1>0 DEF FatBlocks, Slots
  <2>2. n * S \in Nat /\ fat_size * S \in Nat /\ n * S <= fat_size * S
    <3> HIDE DEF S
    <3>1. \A p, q, r \in Nat : p <= q => p * r \in Nat /\ q * r \in Nat /\ p * r <= q * r
      OBVIOUS
    <3> QED BY <1>0, <2>1, <3>1
  <2> QED BY <1>0, <2>1, <2>2 DEF Base, Addresses
<1> QED BY <1>1, <1>2

(* Whatever the number of FAT blocks, no call writes outside the memory    *)
(* that the model gives the table, or anything but an entry.               *)
THEOREM TableTyped == Spec => []TypeOK
<1>1. Init => TypeOK
  <2>1. 0 \in HalfWords /\ FAT_EOC \in HalfWords
    BY DEF HalfWords
  <2> SUFFICES ASSUME Init PROVE TypeOK
    OBVIOUS
  <2>2. memory \in [Addresses -> HalfWords]
    BY <2>1 DEF Init
  <2>3. disk \in [FatBlocks -> [Slots -> HalfWords]]
    <3>1. \A n \in FatBlocks :
            [k \in Slots |-> IF n = 0 /\ k = 0 THEN FAT_EOC ELSE 0] \in [Slots -> HalfWords]
      BY <2>1
    <3> QED BY <3>1 DEF Init
  <2> QED BY <2>2, <2>3 DEF Init, TypeOK
<1>2. TypeOK /\ [Next]_vars => TypeOK'
  <2> SUFFICES ASSUME TypeOK, [Next]_vars PROVE TypeOK'
    OBVIOUS
  <2> USE DEF TypeOK
  <2>1. CASE \E b \in Indices : allocate_new_fat(b)
    BY <2>1 DEF allocate_new_fat, HalfWords
  <2>2. CASE \E index \in Indices \ {0}, b \in Indices : get_next_fat(index, b)
    BY <2>2 DEF get_next_fat, HalfWords
  <2>3. CASE fs_mount
    BY <2>3, BlockBounds DEF fs_mount, HalfWords
  <2>4. CASE fs_umount
    BY <2>4, BlockBounds DEF fs_umount
  <2>5. CASE Crash
    BY <2>5 DEF Crash
  <2>6. CASE UNCHANGED vars
    BY <2>6 DEF vars
  <2> QED BY <2>1, <2>2, <2>3, <2>4, <2>5, <2>6 DEF Next
<1> QED BY <1>1, <1>2, PTL DEF Spec

(* On a disk whose FAT is one block the table is the flat array that FatFs *)
(* and the rest of fs.c take it for, across fs_umount, fs_mount and        *)
(* crashes.                                                                *)
THEOREM SmallTableIsFlat ==
  ASSUME data_size <= ENTRIES PROVE Spec => TableIsFlat
<1> DEFINE T == [i \in Indices |-> get_fat_at_index(i)]
           S == [i \in Indices |-> SavedEntry(i)]
<1>0. \A i \in Indices :
        /\ get_fat_at_index(i) = memory[i] /\ get_fat_at_index(i)' = memory'[i]
        /\ SavedEntry(i) = disk[0][i] /\ SavedEntry(i)' = disk'[0][i]
        /\ AddressOf(i) = i
  BY FirstBlock DEF get_fat_at_index, SavedEntry
<1>1. Init => Flat!Init
  <2> SUFFICES ASSUME Init PROVE Flat!Init
    OBVIOUS
  <2>1. \A i \in Indices : i \in Addresses /\ i \in Slots /\ 0 \in FatBlocks
    BY FirstBlock, ShapeAssumption DEF FatBlocks
  <2>2. \A i \in Indices : memory[i] = IF i = 0 THEN FAT_EOC ELSE 0
    BY <2>1 DEF Init
  <2>3. \A i \in Indices : disk[0][i] = IF i = 0 THEN FAT_EOC ELSE 0
    BY <2>1 DEF Init
  <2> QED BY <1>0, <2>2, <2>3 DEF Flat!Init, Flat!Indices, Indices, Flat!FAT_EOC, FAT_EOC
<1>2. TypeOK /\ [Next]_vars => [Flat!Next]_<<T, S>>
  <2> SUFFICES ASSUME TypeOK, [Next]_vars PROVE [Flat!Next]_<<T, S>>
    OBVIOUS
  <2>0. /\ \A i \in Indices : i \in Addresses /\ i \in Slots /\ InBlock(i)
        /\ Flat!Indices = Indices /\ Flat!FAT_EOC = FAT_EOC
        /\ Flat!Free = FreeIndices
    BY FirstBlock DEF Flat!Indices, Indices, Flat!FAT_EOC, FAT_EOC, Flat!Free, FreeIndices
  <2>1. ASSUME NEW b \in Indices, allocate_new_fat(b) PROVE Flat!Begin(b)
    <3>1. memory' = [memory EXCEPT ![b] = FAT_EOC] /\ UNCHANGED disk
      BY <1>0, <2>1 DEF allocate_new_fat
    <3>2. T' = [T EXCEPT ![b] = FAT_EOC]
      BY <1>0, <2>0, <3>1 DEF TypeOK
    <3>3. S' = S
      BY <1>0, <3>1
    <3> QED BY <2>0, <2>1, <3>2, <3>3 DEF Flat!Begin, allocate_new_fat, Flat!IsFirst, IsFirst
  <2>2. ASSUME NEW index \in Indices \ {0}, NEW b \in Indices, get_next_fat(index, b)
        PROVE  Flat!Extend(index, b)
    <3>1. memory' = [memory EXCEPT ![b] = FAT_EOC, ![index] = b] /\ UNCHANGED disk
      BY <1>0, <2>2 DEF get_next_fat
    <3>2. T' = [T EXCEPT ![b] = FAT_EOC, ![index] = b]
      BY <1>0, <2>0, <3>1 DEF TypeOK
    <3>3. S' = S
      BY <1>0, <3>1
    <3> QED BY <2>0, <2>2, <3>2, <3>3
            DEF Flat!Extend, get_next_fat, Flat!IsFirst, IsFirst
  <2>3. ASSUME fs_mount PROVE Flat!Load
    <3>1. \A i \in Indices : i \div (ENTRIES + HEADER) = 0 /\ i % (ENTRIES + HEADER) = i
      BY ShapeAssumption, SizeAssumption DEF Indices
    <3>2. \A i \in Indices : memory'[i] = disk[0][i] /\ UNCHANGED disk
      BY <2>0, <2>3, <3>1 DEF fs_mount
    <3> QED BY <1>0, <3>2 DEF Flat!Load
  <2>4. ASSUME fs_umount PROVE Flat!Save
    <3>1. 0 \in FatBlocks /\ \A i \in Indices : Base(0) + i = i
      BY ShapeAssumption DEF FatBlocks, Base, Indices
    <3>2. \A i \in Indices : disk'[0][i] = memory[i] /\ UNCHANGED memory
      BY <2>0, <2>4, <3>1 DEF fs_umount
    <3> QED BY <1>0, <3>2 DEF Flat!Save
  <2>5. ASSUME Crash \/ UNCHANGED vars PROVE UNCHANGED <<T, S>>
    BY <1>0, <2>5 DEF Crash, vars
  <2> HIDE DEF T, S
  <2> QED BY <2>0, <2>1, <2>2, <2>3, <2>4, <2>5 DEF Next, Flat!Next
<1> QED BY <1>1, <1>2, TableTyped, PTL DEF Spec, TableIsFlat, Flat!Spec

(* Entry 0 is reserved, in memory and on the disk.                         *)
Reserved == disk[0][0] = FAT_EOC /\ (mounted => memory[0] = FAT_EOC)

(* On such a disk the free entries that fs_info counts are those that an   *)
(* allocation can still find: entry 0 is never one of them.                *)
THEOREM InfoTellsFree ==
  ASSUME data_size <= ENTRIES PROVE Spec => []InfoCountsFree
<1>0. 0 \in Indices /\ 0 \in Addresses /\ 0 \in Slots /\ 0 \in FatBlocks
  BY FirstBlock, SizeAssumption, ShapeAssumption DEF Indices, FatBlocks
<1>1. Init => Reserved
  BY <1>0 DEF Init, Reserved
<1>2. TypeOK /\ Reserved /\ [Next]_vars => Reserved'
  <2> SUFFICES ASSUME TypeOK, Reserved, [Next]_vars PROVE Reserved'
    OBVIOUS
  <2>1. ASSUME NEW b \in Indices, allocate_new_fat(b) PROVE Reserved'
    <3>1. b # 0 /\ AddressOf(b) = b
      BY <2>1, FirstBlock DEF allocate_new_fat, IsFirst, FreeIndices
    <3> QED BY <1>0, <2>1, <3>1 DEF allocate_new_fat, Reserved, TypeOK
  <2>2. ASSUME NEW index \in Indices \ {0}, NEW b \in Indices, get_next_fat(index, b)
        PROVE  Reserved'
    <3>1. b # 0 /\ AddressOf(b) = b /\ AddressOf(index) = index
      BY <2>2, FirstBlock DEF get_next_fat, IsFirst, FreeIndices
    <3> QED BY <1>0, <2>2, <3>1 DEF get_next_fat, Reserved, TypeOK
  <2>3. CASE fs_mount
    <3>1. 0 \div (ENTRIES + HEADER) = 0 /\ 0 % (ENTRIES + HEADER) = 0 /\ InBlock(0)
      BY <1>0, FirstBlock, ShapeAssumption
    <3> QED BY <1>0, <2>3, <3>1 DEF fs_mount, Reserved
  <2>4. CASE fs_umount
    <3>1. Base(0) + 0 = 0 /\ mounted
      BY <2>4, ShapeAssumption DEF Base, fs_umount
    <3> QED BY <1>0, <2>4, <3>1 DEF fs_umount, Reserved
  <2>5. CASE Crash \/ UNCHANGED vars
    BY <2>5 DEF Crash, vars, Reserved
  <2> QED BY <2>1, <2>2, <2>3, <2>4, <2>5 DEF Next
<1>3. Reserved => InfoCountsFree
  <2>1. \A i \in Indices : Base(i \div ENTRIES) + (i % ENTRIES) = i /\ AddressOf(i) = i
    BY FirstBlock, ShapeAssumption DEF Base, Indices
  <2>2. ASSUME Reserved, mounted
        PROVE  {i \in Indices : memory[Base(i \div ENTRIES) + (i % ENTRIES)] = 0}
                 = FreeIndices
    BY <1>0, <2>1, <2>2 DEF Reserved, FreeIndices, get_fat_at_index, FAT_EOC
  <2> QED BY <2>2 DEF InfoCountsFree, free_fat_blocks
<1> QED BY <1>1, <1>2, <1>3, TableTyped, PTL DEF Spec
=============================================================================
