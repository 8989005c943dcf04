------------------------------ MODULE MCMount ------------------------------
(***************************************************************************)
(* An instance of Mount for TLC: every kind of image fs_mount tells apart. *)
(***************************************************************************)
EXTENDS Mount

(* As fs_make.x formats a disk of four data blocks.                        *)
Good == [opens |-> TRUE, blocks |-> 7, signature |-> TRUE, total_blocks |-> 7,
         fat_size |-> 1, root_index |-> 2, data_index |-> 3, data_size |-> 4,
         eoc |-> TRUE]

Tiny         == [Good EXCEPT !.blocks = 4, !.total_blocks = 4, !.data_size = 1]
Missing      == [Good EXCEPT !.opens = FALSE]
Unformatted  == [Good EXCEPT !.signature = FALSE]
RootMoved    == [Good EXCEPT !.root_index = 3]
Truncated    == [Good EXCEPT !.blocks = 6]
Empty        == [Good EXCEPT !.blocks = 0]
DataMissing  == [Good EXCEPT !.data_size = 3]
FatDestroyed == [Good EXCEPT !.eoc = FALSE]

MCImages == {Good, Tiny, Missing, Unformatted, RootMoved, Truncated, Empty,
             DataMissing, FatDestroyed}
=============================================================================
