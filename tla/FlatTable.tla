------------------------------ MODULE FlatTable ------------------------------
(***************************************************************************)
(* What the rest of fs.c takes the file allocation table for: one array,   *)
(* indexed by data block, that fs_umount saves and fs_mount loads.  This   *)
(* is how FatFs models it; FatTable is held against it.                    *)
(***************************************************************************)
EXTENDS Integers

CONSTANT data_size

FAT_EOC == 65535
Indices == 0..(data_size - 1)

VARIABLES
  table,      (* the array                                                  *)
  saved       (* its copy on the disk                                       *)

IsFirst(i, S) == i \in S /\ \A j \in S : i <= j

Free == {i \in Indices \ {0} : table[i] = 0}

Init ==
  /\ saved = [i \in Indices |-> IF i = 0 THEN FAT_EOC ELSE 0]
  /\ table = saved

(* A new chain of one block.                                               *)
Begin(b) ==
  /\ IsFirst(b, Free)
  /\ table' = [table EXCEPT ![b] = FAT_EOC]
  /\ UNCHANGED saved

(* A new block behind the last block of a chain.                           *)
Extend(last, b) ==
  /\ table[last] = FAT_EOC
  /\ IsFirst(b, Free)
  /\ table' = [table EXCEPT ![b] = FAT_EOC, ![last] = b]
  /\ UNCHANGED saved

Save == saved' = table /\ UNCHANGED table

Load == table' = saved /\ UNCHANGED saved

Next ==
  \/ \E b \in Indices : Begin(b)
  \/ \E last \in Indices \ {0}, b \in Indices : Extend(last, b)
  \/ Save
  \/ Load

Spec == Init /\ [][Next]_<<table, saved>>
=============================================================================
