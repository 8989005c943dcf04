----------------------------- MODULE MCFileData -----------------------------
(* Instances of FileData for TLC: bytes 0, as on a fresh disk, and 1.      *)
EXTENDS FileData, TLC

CONSTANTS x, y

MCTwoNames == {NoName, x, y}
MCOneName  == {NoName, x}
MCBytes   == {0, 1}
MCCounts  == {3}
MCBuffers == {<<1>>, <<1, 0, 1>>}

(* The names x and y are interchangeable.                                  *)
MCSymmetry == Permutations({x, y})

(* Bound: two files with one open descriptor, or two descriptors of one    *)
(* file; and 4 bytes per file, except for one file on a reliable host,     *)
(* which may have MaxSize and so outgrow the disk.                         *)
MCBound ==
  LET OneFile   == \A i, j \in Files(root_dir) : i = j
      OneOpen   == \A fd1, fd2 \in Fds \ EmptyFds : fd1 = fd2
      TwoBlocks == \A i \in Files(root_dir) : root_dir[i].size <= 4
  IN  \/ OneOpen /\ TwoBlocks
      \/ OneFile /\ (host = "failing" => TwoBlocks)
=============================================================================
