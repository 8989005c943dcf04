------------------------------ MODULE MCFatFs ------------------------------
(***************************************************************************)
(* Instances of FatFs for TLC: two names a client uses, the empty one and  *)
(* one that is too long.                                                   *)
(***************************************************************************)
EXTENDS FatFs, TLC

CONSTANTS a, b, long

MCNames     == {NoName, a, b, long}
MCLongNames == {long}
MCCounts    == 1..2
MCCountsUpTo3 == {0, 1, 3}

(* No definition orders the names, so a and b are interchangeable.         *)
MCSymmetry == Permutations({a, b})
=============================================================================
