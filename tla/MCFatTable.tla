---------------------------- MODULE MCFatTable ----------------------------
(* Instances of FatTable for TLC: FAT blocks of few entries.               *)
EXTENDS FatTable

MCJunk == {0, FAT_EOC}
MCZero == {0}
=============================================================================
