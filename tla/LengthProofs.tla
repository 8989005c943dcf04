---------------------------- MODULE LengthProofs ----------------------------
(***************************************************************************)
(* FatFs again: how long the chain of a file is for its size.  The number  *)
(* of blocks of a chain is counted without an induction along it: a call   *)
(* that has reached the n-th block leaves behind a set of n blocks that    *)
(* links lead out of only from the last, so that the chain lies in that    *)
(* set when the last has no link.                                          *)
(***************************************************************************)
EXTENDS OwnershipProofs

Bytes(n) == n * BLOCK_SIZE

LEMMA BytesFacts ==
  ASSUME NEW n \in Int
  PROVE  /\ Bytes(n) \in Int /\ Bytes(n - 1) \in Int
         /\ Bytes(n) = Bytes(n - 1) + BLOCK_SIZE /\ Bytes(n - 1) < Bytes(n)
         /\ Bytes(n + 1) = Bytes(n) + BLOCK_SIZE
         /\ Bytes(0) = 0
         /\ \A m \in Int : m <= n => Bytes(m) <= Bytes(n)
<1>1. BLOCK_SIZE \in Nat /\ BLOCK_SIZE > 0
  BY GeometryAssumption
<1>2. ASSUME NEW m \in Int, m <= n
      PROVE  Bytes(m) <= Bytes(n)
  BY <1>1, <1>2 DEF Bytes
<1> QED
  BY <1>1, <1>2 DEF Bytes

LEMMA OffsetFacts ==
  ASSUME NEW offset \in Nat
  PROVE  /\ offset \div BLOCK_SIZE \in Nat
         /\ offset % BLOCK_SIZE \in 0..(BLOCK_SIZE - 1)
         /\ offset = Bytes(offset \div BLOCK_SIZE) + (offset % BLOCK_SIZE)
         /\ Bytes(offset \div BLOCK_SIZE) <= offset
<1>1. BLOCK_SIZE \in Nat /\ BLOCK_SIZE > 0
  BY GeometryAssumption
<1>2. offset \div BLOCK_SIZE \in Nat
  BY <1>1
<1>3. offset % BLOCK_SIZE \in 0..(BLOCK_SIZE - 1)
  BY <1>1
<1>4. offset = BLOCK_SIZE * (offset \div BLOCK_SIZE) + (offset % BLOCK_SIZE)
  BY <1>1
<1>5. BLOCK_SIZE * (offset \div BLOCK_SIZE) = Bytes(offset \div BLOCK_SIZE)
  BY <1>1, <1>2 DEF Bytes
<1>6. \A m \in Nat, r \in 0..(BLOCK_SIZE - 1) : offset = Bytes(m) + r => Bytes(m) <= offset
  BY <1>1, BytesFacts
<1> QED
  BY <1>2, <1>3, <1>4, <1>5, <1>6

(***************************************************************************)
(* The set of blocks behind and with b, at most n of them.                 *)
(***************************************************************************)
Reached(f, h, b, n) ==
  \E P \in SUBSET Blocks :
    /\ h \in P /\ b \in P /\ Cardinality(P) <= n
    /\ \A x \in P \ {b} : f[x] \notin {0, FAT_EOC} => f[x] \in P

LEMMA SubsetsOfBlocks ==
  ASSUME NEW P \in SUBSET Blocks
  PROVE  IsFiniteSet(P) /\ Cardinality(P) \in Nat
<1>1. IsFiniteSet(Blocks)
  BY GeometryAssumption, FS_Interval DEF Blocks
<1>2. IsFiniteSet(P)
  BY <1>1, FS_Subset
<1> QED
  BY <1>2, FS_CardinalityType

LEMMA ReachedHead ==
  ASSUME NEW f, NEW h \in Blocks
  PROVE  Reached(f, h, h, 1)
<1>1. Cardinality({h}) = 1
  BY FS_Singleton
<1> QED
  BY <1>1 DEF Reached

LEMMA ReachedNext ==
  ASSUME NEW f, NEW g, NEW h \in Blocks, NEW b \in Blocks, NEW n \in Nat, Reached(f, h, b, n),
         NEW c \in Blocks, g[b] = c, \A x \in Blocks \ {b, c} : g[x] = f[x]
  PROVE  Reached(g, h, c, n + 1)
<1>1. PICK P \in SUBSET Blocks :
        /\ h \in P /\ b \in P /\ Cardinality(P) <= n
        /\ \A x \in P \ {b} : f[x] \notin {0, FAT_EOC} => f[x] \in P
  BY DEF Reached
<1> DEFINE Q == P \union {c}
<1>2. Q \in SUBSET Blocks /\ h \in Q /\ c \in Q
  BY <1>1
<1>3. Cardinality(Q) <= n + 1
  <2>1. IsFiniteSet(P) /\ Cardinality(P) \in Nat
    BY SubsetsOfBlocks
  <2>2. Cardinality(Q) = Cardinality(P) \/ Cardinality(Q) = Cardinality(P) + 1
    BY <2>1, FS_AddElement
  <2> QED
    BY <1>1, <2>1, <2>2
<1>4. \A x \in Q \ {c} : g[x] \notin {0, FAT_EOC} => g[x] \in Q
  BY <1>1
<1> QED
  BY <1>2, <1>3, <1>4 DEF Reached

LEMMA ReachedEnd ==
  ASSUME NEW f \in FatArray, NEW h \in Blocks, NEW b \in Blocks, NEW n \in Nat,
         Reached(f, h, b, n), f[b] = FAT_EOC
  PROVE  Cardinality(FileBlocks(f, h)) <= n
<1>1. PICK P \in SUBSET Blocks :
        /\ h \in P /\ b \in P /\ Cardinality(P) <= n
        /\ \A x \in P \ {b} : f[x] \notin {0, FAT_EOC} => f[x] \in P
  BY DEF Reached
<1>2. LinkClosed(f, P)
  BY <1>1 DEF LinkClosed
<1>3. FileBlocks(f, h) \subseteq P
  BY <1>1, <1>2, ChainFacts
<1>4. IsFiniteSet(P) /\ Cardinality(P) \in Nat /\ Cardinality(FileBlocks(f, h)) <= Cardinality(P)
  BY <1>3, SubsetsOfBlocks, FS_Subset
<1>5. Cardinality(FileBlocks(f, h)) \in Nat
  BY <1>3, SubsetsOfBlocks
<1> QED
  BY <1>1, <1>4, <1>5
-----------------------------------------------------------------------------
(***************************************************************************)
(* The call in progress.                                                   *)
(***************************************************************************)
entry    == open_files[call.fd].index_in_rootdir
position == open_files[call.fd].offset + call.done

LengthOf(i) == Cardinality(ChainIn(fat, root_dir, i))

HoldsBlock == call.pc \in {"hop", "block"} /\ call.block \in Blocks \ {0}

(* The n-th block is the one the loops have reached at this position.      *)
Behind(n) ==
  \/ call.pc = "hop" /\ n + call.hops - 1 = open_files[call.fd].offset \div BLOCK_SIZE
  \/ /\ call.pc = "block" /\ call.done = 0
     /\ n - 1 = open_files[call.fd].offset \div BLOCK_SIZE
  \/ call.pc = "block" /\ call.done > 0 /\ position = Bytes(n - 1)

Moving ==
  /\ call.pc \in {"hop", "block"} => call.left > 0
  /\ call.pc = "hop" => call.done = 0

Placed ==
  HoldsBlock => \E n \in Nat :
    Reached(fat, root_dir[entry].data_index, call.block, n) /\ Behind(n)

(* A read that has no block is behind the end of the chain.                *)
ReadsEnd ==
  call.op = "read" /\ call.left > 0 /\ ~HoldsBlock => Bytes(LengthOf(entry)) <= position

(* n blocks are not too many for the size, or for the bytes that a write   *)
(* has written, or is about to write to the block in hand.                 *)
Needed(n, size, op, pos, holds) ==
  \/ n = 0
  \/ Bytes(n - 1) < size
  \/ op = "write" /\ Bytes(n - 1) < pos
  \/ op = "write" /\ holds /\ Bytes(n - 1) <= pos

CallFits ==
  call # Idle => Needed(LengthOf(entry), fs_stat(call.fd), call.op, position, HoldsBlock)

Measured == Moving /\ Placed /\ ReadsEnd /\ CallFits

LEMMA LengthType ==
  ASSUME NEW f, NEW h
  PROVE  Cardinality(FileBlocks(f, h)) \in Nat
<1>1. FileBlocks(f, h) \in SUBSET Blocks
  BY DEF FileBlocks
<1> QED
  BY <1>1, SubsetsOfBlocks

LEMMA InCall ==
  ASSUME Inv, Owned, Seeking, call # Idle
  PROVE  /\ fat \in FatArray /\ root_dir \in RootDir /\ fat[0] = FAT_EOC
         /\ call.fd \in Fds /\ entry \in Files(root_dir) /\ LengthOf(entry) \in Nat
         /\ open_files[call.fd].offset \in Nat /\ position \in Nat
         /\ fs_stat(call.fd) \in Nat /\ open_files[call.fd].offset <= fs_stat(call.fd)
         /\ call.done \in Nat /\ call.left \in Nat /\ call.hops \in Nat
         /\ call.op \in {"read", "write"}
         /\ call.op = "read" => position + call.left <= fs_stat(call.fd)
         /\ HoldsBlock => root_dir[entry].data_index \in Blocks /\ fat[call.block] # 0
<1>1. Typed /\ Directory /\ Storage /\ InHand
  BY DEF Inv
<1>2. /\ fat \in FatArray /\ root_dir \in RootDir /\ call \in Frames
      /\ open_files \in [Fds -> [empty : BOOLEAN, index_in_rootdir : Slots, offset : Nat]]
  BY <1>1 DEF Typed, TypeOK
<1>3. /\ call.fd \in Fds /\ IsOpen(call.fd) /\ entry \in Files(root_dir) /\ entry \in Slots
      /\ call.done \in Nat /\ call.left \in Nat /\ call.hops \in Nat
      /\ call.op \in {"read", "write"}
  BY <1>1, <1>2 DEF Typed, CallOK, Frames, Directory, OpenFilesExist, entry
<1>4. /\ open_files[call.fd].offset \in Nat /\ position \in Nat
      /\ fs_stat(call.fd) \in Nat /\ open_files[call.fd].offset <= fs_stat(call.fd)
      /\ call.op = "read" => position + call.left <= fs_stat(call.fd)
  BY <1>2, <1>3 DEF RootDir, fs_stat, position, entry, Seeking, OffsetsInFile
<1>5. HoldsBlock => root_dir[entry].data_index \in Blocks /\ fat[call.block] # 0
  <2> SUFFICES ASSUME HoldsBlock
               PROVE  root_dir[entry].data_index \in Blocks /\ fat[call.block] # 0
    OBVIOUS
  <2>1. call.block \in ChainIn(fat, root_dir, entry) /\ fat[call.block] # 0
    BY <1>1 DEF HoldsBlock, Owned, entry, InHand
  <2> QED
    BY <1>1, <1>3, <2>1, FilesInMemory
<1>6. LengthOf(entry) \in Nat
  BY LengthType DEF LengthOf, ChainIn
<1> QED
  BY <1>1, <1>2, <1>3, <1>4, <1>5, <1>6 DEF Storage, LinksOK

(* get_next_fat from the n-th block: to the one behind it, which may be    *)
(* new and then is the last; or to none, and then the n-th is the last.    *)
LEMMA NextLength ==
  ASSUME fat \in FatArray, NEW h \in Blocks, NEW b \in Blocks \ {0}, fat[b] # 0,
         NEW nxt \in Blocks \union {NoBlock}, get_next_fat(b, nxt),
         NEW n \in Nat, Reached(fat, h, b, n)
  PROVE  \/ nxt = NoBlock /\ fat' = fat /\ Cardinality(FileBlocks(fat, h)) <= n
         \/ /\ nxt \in Blocks \ {0} /\ Reached(fat', h, nxt, n + 1)
            /\ fat' = fat \/ Cardinality(FileBlocks(fat', h)) <= n + 1
<1>1. CASE fat[b] # FAT_EOC /\ nxt = fat[b] /\ fat' = fat
  <2>1. nxt \in Blocks \ {0}
    BY <1>1, BlocksFacts DEF FatArray
  <2>2. Reached(fat, h, nxt, n + 1)
    BY <1>1, <2>1, ReachedNext
  <2> QED
    BY <1>1, <2>1, <2>2
<1>2. CASE /\ fat[b] = FAT_EOC /\ nxt \in FreeBlocks
           /\ fat' = [fat EXCEPT ![nxt] = FAT_EOC, ![b] = nxt]
  <2>1. nxt \in Blocks \ {0} /\ nxt # b
    BY <1>2, BlocksFacts DEF FreeBlocks
  <2>2. /\ fat' \in FatArray /\ fat'[nxt] = FAT_EOC /\ fat'[b] = nxt
        /\ \A x \in Blocks \ {b, nxt} : fat'[x] = fat[x]
    BY <1>2, <2>1, NextFatTyped DEF FatArray
  <2>3. Reached(fat', h, nxt, n + 1)
    BY <2>1, <2>2, ReachedNext
  <2>4. Cardinality(FileBlocks(fat', h)) <= n + 1
    BY <2>1, <2>2, <2>3, ReachedEnd
  <2> QED
    BY <2>1, <2>3, <2>4
<1>3. CASE fat[b] = FAT_EOC /\ nxt = NoBlock /\ fat' = fat
  BY <1>3, ReachedEnd
<1> QED
  BY <1>1, <1>2, <1>3, NextFatCases, BlocksFacts

(* Without a block in hand there is none free, and nothing to be linked.   *)
LEMMA NextOfNone ==
  ASSUME fat \in FatArray, fat[0] = FAT_EOC, FreeBlocks = {}, NEW b \in {NoBlock, 0},
         NEW nxt \in Blocks \union {NoBlock}, get_next_fat(b, nxt)
  PROVE  fat' = fat /\ nxt \in {NoBlock, 0}
BY NextFatCases, BlocksFacts

LEMMA MovedFills ==
  ASSUME Inv, Owned, Seeking, call # Idle, call.pc = "block", call.left > 0
  PROVE  /\ Moved \in Nat /\ Moved > 0
         /\ \A n \in Nat : Behind(n) /\ call.left # Moved => position + Moved = Bytes(n)
<1> DEFINE off == open_files[call.fd].offset
<1>1. off \in Nat /\ call.done \in Nat /\ call.left \in Nat /\ position = off + call.done
  BY InCall DEF position
<1>2. BLOCK_SIZE \in Nat /\ BLOCK_SIZE > 0
  BY GeometryAssumption
<1>3. /\ off \div BLOCK_SIZE \in Nat /\ off % BLOCK_SIZE \in 0..(BLOCK_SIZE - 1)
      /\ off = Bytes(off \div BLOCK_SIZE) + (off % BLOCK_SIZE)
  BY <1>1, OffsetFacts
<1>4. offset_in_current_block = IF call.done = 0 THEN off % BLOCK_SIZE ELSE 0
  BY DEF offset_in_current_block
<1> HIDE DEF off
<1>5. /\ Moved \in Nat /\ Moved > 0
      /\ call.left # Moved => Moved = BLOCK_SIZE - offset_in_current_block
  BY <1>1, <1>2, <1>3, <1>4 DEF Moved, MinOf
<1>6. ASSUME NEW n \in Nat, Behind(n), call.left # Moved
      PROVE  position + Moved = Bytes(n)
  <2>1. Bytes(n - 1) \in Int /\ Bytes(n) = Bytes(n - 1) + BLOCK_SIZE
    <3>1. n \in Int
      OBVIOUS
    <3> QED
      BY <3>1, BytesFacts
  <2>2. CASE call.done = 0 /\ n - 1 = off \div BLOCK_SIZE
    <3>1. position = Bytes(n - 1) + (off % BLOCK_SIZE)
      BY <1>1, <1>3, <2>2
    <3>2. Moved = BLOCK_SIZE - (off % BLOCK_SIZE)
      BY <1>4, <1>5, <1>6, <2>2
    <3> QED
      BY <1>2, <1>3, <2>1, <3>1, <3>2
  <2>3. CASE call.done > 0 /\ position = Bytes(n - 1)
    BY <1>1, <1>2, <1>4, <1>5, <1>6, <2>1, <2>3
  <2> QED
    BY <1>6, <2>2, <2>3 DEF Behind, off
<1> QED
  BY <1>5, <1>6

(* What the loops change of the position: nothing, or forward.             *)
LEMMA NeededStays ==
  ASSUME NEW n \in Nat, NEW size, NEW op, NEW pos \in Nat, NEW holds \in BOOLEAN,
         NEW q \in Nat, NEW next \in BOOLEAN,
         Needed(n, size, op, pos, holds), pos < q \/ (pos <= q /\ ~holds) \/ (pos = q /\ next)
  PROVE  Needed(n, size, op, q, next)
<1>1. Bytes(n - 1) \in Int
  BY BytesFacts
<1>2. Bytes(n - 1) < pos => Bytes(n - 1) < q
  BY <1>1
<1>3. Bytes(n - 1) <= pos /\ holds => Bytes(n - 1) < q \/ (next /\ Bytes(n - 1) <= q)
  BY <1>1
<1> QED
  BY <1>2, <1>3 DEF Needed

LEMMA CallFitsNext ==
  ASSUME NEW n, NEW size, NEW op, NEW pos, NEW holds \in BOOLEAN,
         Needed(n, size, op, pos, holds),
         LengthOf(entry)' = n, fs_stat(call.fd)' = size, call'.op = op, position' = pos,
         HoldsBlock' <=> holds
  PROVE  CallFits'
BY DEF CallFits, Needed

LEMMA HopMeasured ==
  ASSUME Inv, Owned, Seeking, Measured, Hop
  PROVE  Measured'
<1> DEFINE off == open_files[call.fd].offset
           h   == root_dir[entry].data_index
<1>0. call.pc = "hop" /\ call # Idle /\ call \in Frames
  BY DEF Hop, Idle, Inv, Typed, TypeOK
<1>1. /\ fat \in FatArray /\ fat[0] = FAT_EOC /\ LengthOf(entry) \in Nat
      /\ off \in Nat /\ fs_stat(call.fd) \in Nat /\ off <= fs_stat(call.fd)
      /\ call.op \in {"read", "write"} /\ call.left \in Nat /\ call.hops \in Nat
      /\ call.op = "read" => position + call.left <= fs_stat(call.fd)
      /\ HoldsBlock => h \in Blocks /\ fat[call.block] # 0
  BY <1>0, InCall
<1>2. call.left > 0 /\ call.done = 0 /\ call.hops > 0 /\ position = off
  BY <1>0, <1>1 DEF Measured, Moving, Inv, Typed, CallOK, position
<1>3. PICK nxt \in Blocks \union {NoBlock} :
        /\ get_next_fat(call.block, nxt)
        /\ call' = [call EXCEPT !.block = nxt, !.hops = @ - 1,
                                !.pc = IF call.hops = 1 THEN "block" ELSE "hop"]
  BY DEF Hop
<1>4. /\ call'.block = nxt /\ call'.hops = call.hops - 1 /\ call'.fd = call.fd
      /\ call'.pc = IF call.hops = 1 THEN "block" ELSE "hop"
      /\ call'.op = call.op /\ call'.done = 0 /\ call'.left = call.left
      /\ UNCHANGED <<root_dir, open_files>>
  BY <1>0, <1>2, <1>3 DEF Frames, Hop
<1>5. /\ entry' = entry /\ position' = position /\ h' = h
      /\ fs_stat(call.fd)' = fs_stat(call.fd)
      /\ open_files'[call'.fd].offset = off
  <2>1. entry' = entry /\ open_files'[call'.fd].offset = off /\ root_dir' = root_dir
    BY <1>4 DEF entry
  <2>2. position' = position
    BY <1>2, <1>4, <2>1 DEF position
  <2> QED
    BY <2>1, <2>2 DEF fs_stat, entry
<1>6. Moving'
  BY <1>2, <1>4 DEF Moving
<1>7. call.block \in Blocks \union {NoBlock}
  BY <1>0 DEF Inv, Typed, CallOK, Frames
<1>8. CASE call.block \in {NoBlock, 0}
  <2>1. fat' = fat /\ nxt \in {NoBlock, 0}
    BY <1>0, <1>1, <1>3, <1>8, NextOfNone DEF Inv, InHand
  <2>2. ~HoldsBlock /\ ~HoldsBlock'
    BY <1>4, <1>8, <2>1, BlocksFacts DEF HoldsBlock
  <2>3. LengthOf(entry)' = LengthOf(entry)
    BY <1>4, <1>5, <2>1 DEF LengthOf
  <2>4. Placed' /\ ReadsEnd'
    BY <1>4, <1>5, <2>2, <2>3 DEF Measured, Placed, ReadsEnd
  <2>5. CallFits'
    <3>1. Needed(LengthOf(entry), fs_stat(call.fd), call.op, position, FALSE)
      BY <1>0, <2>2 DEF Measured, CallFits, Needed
    <3> QED
      BY <1>4, <1>5, <2>2, <2>3, <3>1, CallFitsNext
  <2> QED
    BY <1>6, <2>4, <2>5 DEF Measured
<1>9. CASE call.block \in Blocks \ {0}
  <2>0. HoldsBlock
    BY <1>0, <1>9 DEF HoldsBlock
  <2>1. PICK n \in Nat : Reached(fat, h, call.block, n) /\ n + call.hops - 1 = off \div BLOCK_SIZE
    BY <1>0, <2>0 DEF Measured, Placed, Behind
  <2>2. PICK m \in Nat : m = off \div BLOCK_SIZE /\ Bytes(m) <= off
    BY <1>1, OffsetFacts
  <2> HIDE DEF off
  <2>3. n <= m /\ Bytes(n) <= off /\ Bytes(n) \in Int
    <3>1. n <= m
      BY <1>1, <1>2, <2>1, <2>2
    <3>2. Bytes(n) <= Bytes(m) /\ Bytes(n) \in Int /\ Bytes(m) \in Int
      BY <3>1, BytesFacts
    <3> QED
      BY <1>1, <2>2, <3>1, <3>2
  <2>4. PICK k \in Nat, l \in Nat : k = LengthOf(entry) /\ l = LengthOf(entry)'
    BY LengthType DEF LengthOf, ChainIn
  <2>5. \/ nxt = NoBlock /\ fat' = fat /\ k <= n
        \/ /\ nxt \in Blocks \ {0} /\ Reached(fat', h, nxt, n + 1)
           /\ fat' = fat \/ l <= n + 1
    <3>1. k = Cardinality(FileBlocks(fat, h)) /\ l = Cardinality(FileBlocks(fat', h))
      BY <1>4, <1>5, <2>4 DEF LengthOf, ChainIn
    <3> HIDE DEF h
    <3> QED
      BY <1>1, <1>3, <1>9, <2>0, <2>1, <3>1, NextLength
  <2>6. fat' = fat => l = k
    BY <1>4, <1>5, <2>4 DEF LengthOf
  <2>7. Needed(k, fs_stat(call.fd), call.op, position, TRUE)
    BY <1>0, <2>0, <2>4 DEF Measured, CallFits, Needed
  <2>8. CASE nxt = NoBlock /\ fat' = fat /\ k <= n
    <3>1. ~HoldsBlock'
      BY <1>4, <2>8, BlocksFacts DEF HoldsBlock
    <3>2. /\ Bytes(k) \in Int /\ Bytes(k) <= Bytes(n)
          /\ Bytes(k - 1) \in Int /\ Bytes(k - 1) < Bytes(k)
      BY <2>8, BytesFacts
    <3>3. Placed' /\ ReadsEnd'
      BY <1>1, <1>2, <1>5, <2>3, <2>4, <2>6, <2>8, <3>1, <3>2 DEF Placed, ReadsEnd
    <3>4. Bytes(k - 1) < fs_stat(call.fd)
      BY <1>1, <2>3, <3>2
    <3>5. Needed(k, fs_stat(call.fd), call.op, position, FALSE)
      BY <3>4 DEF Needed
    <3>6. CallFits'
      BY <1>4, <1>5, <2>4, <2>6, <2>8, <3>1, <3>5, CallFitsNext
    <3> QED
      BY <1>6, <3>3, <3>6 DEF Measured
  <2>9. CASE /\ nxt \in Blocks \ {0} /\ Reached(fat', h, nxt, n + 1)
             /\ fat' = fat \/ l <= n + 1
    <3>1. HoldsBlock' /\ n + 1 \in Nat
      BY <1>4, <2>9 DEF HoldsBlock
    <3>2. Behind(n + 1)'
      BY <1>1, <1>4, <1>5, <2>1, <2>2 DEF Behind
    <3>3. Placed' /\ ReadsEnd'
      BY <1>4, <1>5, <2>9, <3>1, <3>2 DEF Placed, ReadsEnd
    <3>4. ASSUME l <= n + 1
          PROVE  Needed(l, fs_stat(call.fd), call.op, position, TRUE)
      <4>1. Bytes(l - 1) <= Bytes(n) /\ Bytes(l - 1) \in Int
        BY <3>4, BytesFacts
      <4>2. Bytes(l - 1) <= off
        BY <1>1, <2>3, <4>1
      <4>3. call.op = "read" => Bytes(l - 1) < fs_stat(call.fd)
        BY <1>1, <1>2, <4>1, <4>2
      <4> QED
        BY <1>1, <1>2, <4>2, <4>3 DEF Needed
    <3>5. CallFits'
      BY <1>4, <1>5, <2>4, <2>6, <2>7, <2>9, <3>1, <3>4, CallFitsNext
    <3> QED
      BY <1>6, <3>3, <3>5 DEF Measured
  <2> QED
    BY <2>5, <2>8, <2>9
<1> QED
  BY <1>7, <1>8, <1>9

LEMMA WriteMeasured ==
  ASSUME Inv, Owned, Seeking, Measured, WriteBlock
  PROVE  Measured'
<1> DEFINE h == root_dir[entry].data_index
<1>0. call.pc = "block" /\ call.op = "write" /\ call # Idle /\ call \in Frames
  <2>1. call.pc = "block" /\ call.op = "write"
    BY DEF WriteBlock
  <2> QED
    BY <2>1 DEF Idle, Inv, Typed, TypeOK
<1>1. /\ fat \in FatArray /\ fat[0] = FAT_EOC /\ position \in Nat
      /\ call.left \in Nat /\ call.left > 0 /\ call.done \in Nat
      /\ HoldsBlock => h \in Blocks /\ fat[call.block] # 0
      /\ Moved \in Nat /\ Moved > 0 /\ Moved <= call.left
      /\ \A n \in Nat : Behind(n) /\ call.left # Moved => position + Moved = Bytes(n)
  BY <1>0, InCall, MovedFacts, MovedFills DEF Measured, Moving, Inv
<1>2. UNCHANGED <<root_dir, open_files>> /\ call'.fd = call.fd /\ call'.op = call.op
  BY <1>0 DEF WriteBlock, Frames
<1>3. entry' = entry /\ h' = h /\ fs_stat(call.fd)' = fs_stat(call.fd)
  BY <1>2 DEF entry, fs_stat
<1>4. PICK k \in Nat, l \in Nat : k = LengthOf(entry) /\ l = LengthOf(entry)'
  BY LengthType DEF LengthOf, ChainIn
<1>5. fat' = fat => l = k
  BY <1>2, <1>3, <1>4 DEF LengthOf
<1>6. /\ Needed(k, fs_stat(call.fd), call.op, position, HoldsBlock)
      /\ HoldsBlock \in BOOLEAN
  BY <1>0, <1>4 DEF Measured, CallFits, HoldsBlock
<1>7. CASE call.block = NoBlock
  <2>1. call'.pc = "return" /\ call'.done = call.done /\ call'.block = NoBlock /\ fat' = fat
    BY <1>0, <1>7 DEF WriteBlock, Frames
  <2>2. ~HoldsBlock /\ ~HoldsBlock' /\ position' = position
    BY <1>2, <1>7, <2>1, BlocksFacts DEF HoldsBlock, position
  <2>3. Needed(k, fs_stat(call.fd), call.op, position, FALSE)
    BY <1>6, <2>2 DEF Needed
  <2>4. CallFits'
    BY <1>2, <1>3, <1>4, <1>5, <2>1, <2>2, <2>3, CallFitsNext
  <2> QED
    BY <1>0, <1>2, <2>1, <2>2, <2>4 DEF Measured, Moving, Placed, ReadsEnd
<1>8. CASE call.block # NoBlock /\ call.left = Moved
  <2>1. call'.pc = "return" /\ call'.done = call.done + Moved /\ fat' = fat
    BY <1>0, <1>8 DEF WriteBlock, Frames
  <2>2. ~HoldsBlock' /\ position' \in Nat /\ position < position'
    <3>1. position' = open_files[call.fd].offset + (call.done + Moved)
      BY <1>2, <2>1 DEF position
    <3>2. open_files[call.fd].offset \in Nat
      BY <1>0, InCall
    <3> QED
      BY <1>1, <2>1, <3>1, <3>2 DEF HoldsBlock, position
  <2>3. Needed(k, fs_stat(call.fd), call.op, position', FALSE)
    BY <1>1, <1>6, <2>2, NeededStays
  <2>4. CallFits'
    BY <1>2, <1>3, <1>4, <1>5, <2>1, <2>2, <2>3, CallFitsNext
  <2> QED
    BY <1>0, <1>2, <2>1, <2>2, <2>4 DEF Measured, Moving, Placed, ReadsEnd
<1>9. CASE call.block # NoBlock /\ call.left # Moved
  <2>1. PICK nxt \in Blocks \union {NoBlock} :
          /\ get_next_fat(call.block, nxt)
          /\ call' = [call EXCEPT !.block = nxt, !.done = @ + Moved, !.left = @ - Moved]
    BY <1>9 DEF WriteBlock
  <2>2. /\ call'.pc = "block" /\ call'.done = call.done + Moved
        /\ call'.left = call.left - Moved /\ call'.block = nxt
    BY <1>0, <2>1 DEF Frames
  <2>3. position' = position + Moved /\ position' \in Nat /\ position < position'
    <3>1. position' = open_files[call.fd].offset + (call.done + Moved)
      BY <1>2, <2>2 DEF position
    <3>2. open_files[call.fd].offset \in Nat
      BY <1>0, InCall
    <3> QED
      BY <1>1, <3>1, <3>2 DEF position
  <2>4. Moving' /\ ReadsEnd'
    BY <1>0, <1>1, <1>2, <1>9, <2>2 DEF Moving, ReadsEnd
  <2>5. ASSUME NEW holds \in BOOLEAN
        PROVE  Needed(k, fs_stat(call.fd), call.op, position', holds)
    BY <1>1, <1>6, <2>3, NeededStays
  <2>6. call.block \in Blocks
    BY <1>0, <1>9 DEF Inv, Typed, CallOK, Frames
  <2>7. CASE call.block = 0
    <3>1. fat' = fat /\ nxt \in {NoBlock, 0}
      BY <1>0, <1>1, <2>1, <2>7, NextOfNone DEF Inv, InHand
    <3>2. ~HoldsBlock'
      BY <2>2, <3>1, BlocksFacts DEF HoldsBlock
    <3>3. Needed(k, fs_stat(call.fd), call.op, position', FALSE)
      BY <2>5
    <3>4. CallFits'
      BY <1>2, <1>3, <1>4, <1>5, <3>1, <3>2, <3>3, CallFitsNext
    <3> QED
      BY <2>4, <3>2, <3>4 DEF Measured, Placed
  <2>8. CASE call.block \in Blocks \ {0}
    <3>0. HoldsBlock
      BY <1>0, <2>8 DEF HoldsBlock
    <3>1. PICK n \in Nat : Reached(fat, h, call.block, n) /\ Behind(n)
      BY <3>0 DEF Measured, Placed
    <3>2. position' = Bytes(n) /\ Bytes(n) \in Int
      BY <1>1, <1>9, <2>3, <3>1
    <3>3. \/ nxt = NoBlock /\ fat' = fat
          \/ /\ nxt \in Blocks \ {0} /\ Reached(fat', h, nxt, n + 1)
             /\ fat' = fat \/ l <= n + 1
      <4>1. l = Cardinality(FileBlocks(fat', h))
        BY <1>2, <1>3, <1>4 DEF LengthOf, ChainIn
      <4> HIDE DEF h
      <4> QED
        BY <1>1, <2>1, <2>8, <3>0, <3>1, <4>1, NextLength
    <3>4. CASE nxt = NoBlock /\ fat' = fat
      <4>1. ~HoldsBlock'
        BY <2>2, <3>4, BlocksFacts DEF HoldsBlock
      <4>2. Needed(k, fs_stat(call.fd), call.op, position', FALSE)
        BY <2>5
      <4>3. CallFits'
        BY <1>2, <1>3, <1>4, <1>5, <3>4, <4>1, <4>2, CallFitsNext
      <4> QED
        BY <2>4, <4>1, <4>3 DEF Measured, Placed
    <3>5. CASE /\ nxt \in Blocks \ {0} /\ Reached(fat', h, nxt, n + 1)
               /\ fat' = fat \/ l <= n + 1
      <4>1. HoldsBlock' /\ n + 1 \in Nat
        BY <2>2, <3>5 DEF HoldsBlock
      <4>2. Behind(n + 1)'
        BY <1>1, <2>2, <3>2 DEF Behind
      <4>3. Placed'
        BY <1>3, <2>2, <3>5, <4>1, <4>2 DEF Placed
      <4>4. ASSUME l <= n + 1
            PROVE  Needed(l, fs_stat(call.fd), call.op, position', TRUE)
        <5>1. Bytes(l - 1) <= Bytes(n)
          BY <4>4, BytesFacts
        <5> QED
          BY <1>0, <3>2, <5>1 DEF Needed
      <4>5. Needed(k, fs_stat(call.fd), call.op, position', TRUE)
        BY <2>5
      <4>6. CallFits'
        BY <1>2, <1>3, <1>4, <1>5, <3>5, <4>1, <4>4, <4>5, CallFitsNext
      <4> QED
        BY <2>4, <4>3, <4>6 DEF Measured
    <3> QED
      BY <3>3, <3>4, <3>5
  <2> QED
    BY <2>6, <2>7, <2>8
<1> QED
  BY <1>7, <1>8, <1>9

LEMMA ReadMeasured ==
  ASSUME Inv, Owned, Seeking, Measured, ReadBlock
  PROVE  Measured'
<1> DEFINE h == root_dir[entry].data_index
<1>0. call.pc = "block" /\ call.op = "read" /\ call # Idle /\ call \in Frames
  BY DEF ReadBlock, Idle, Inv, Typed, TypeOK
<1>1. /\ fat \in FatArray /\ fat[0] = FAT_EOC /\ position \in Nat
      /\ call.left \in Nat /\ call.left > 0 /\ call.done \in Nat
      /\ HoldsBlock => h \in Blocks /\ fat[call.block] # 0
      /\ Moved \in Nat /\ Moved > 0 /\ Moved <= call.left
      /\ \A n \in Nat : Behind(n) /\ call.left # Moved => position + Moved = Bytes(n)
  BY <1>0, InCall, MovedFacts, MovedFills DEF Measured, Moving, Inv
<1>2. UNCHANGED <<fat, root_dir, open_files>> /\ call'.fd = call.fd /\ call'.op = call.op
  BY <1>0 DEF ReadBlock, memory, Frames
<1>3. /\ entry' = entry /\ h' = h /\ fs_stat(call.fd)' = fs_stat(call.fd)
      /\ LengthOf(entry)' = LengthOf(entry)
  BY <1>2 DEF entry, fs_stat, LengthOf
<1>4. PICK k \in Nat : k = LengthOf(entry)
  BY LengthType DEF LengthOf, ChainIn
<1>5. CallFits'
  BY <1>0, <1>2, <1>3 DEF Measured, CallFits, Needed
<1>6. CASE call.block \in {NoBlock, FAT_EOC}
  <2>1. /\ call'.pc = "return" /\ call'.done = call.done /\ call'.block = call.block
        /\ call'.left = call.left
    BY <1>0, <1>6 DEF ReadBlock, Frames
  <2>2. ~HoldsBlock /\ ~HoldsBlock' /\ position' = position
    BY <1>2, <1>6, <2>1, BlocksFacts DEF HoldsBlock, position
  <2> QED
    BY <1>0, <1>2, <1>3, <1>5, <2>1, <2>2 DEF Measured, Moving, Placed, ReadsEnd
<1>7. CASE call.block \notin {NoBlock, FAT_EOC} /\ call.left = Moved
  <2>1. call'.pc = "return" /\ call'.left = 0
    BY <1>0, <1>7 DEF ReadBlock, Frames
  <2> QED
    BY <1>5, <2>1 DEF Measured, Moving, Placed, ReadsEnd, HoldsBlock
<1>8. CASE call.block \notin {NoBlock, FAT_EOC} /\ call.left # Moved
  <2>1. /\ call'.pc = "block" /\ call'.done = call.done + Moved
        /\ call'.left = call.left - Moved /\ call'.block = fat[call.block]
        /\ call.block \in Blocks
    BY <1>0, <1>8 DEF ReadBlock, Frames, get_fat_at_index
  <2>2. position' = position + Moved
    <3>1. position' = open_files[call.fd].offset + (call.done + Moved)
      BY <1>2, <2>1 DEF position
    <3>2. open_files[call.fd].offset \in Nat
      BY <1>0, InCall
    <3> QED
      BY <1>1, <3>1, <3>2 DEF position
  <2>3. Moving'
    BY <1>1, <1>8, <2>1 DEF Moving
  <2>4. CASE call.block = 0
    <3>1. ~HoldsBlock /\ ~HoldsBlock'
      BY <1>1, <2>1, <2>4, BlocksFacts DEF HoldsBlock
    <3>2. Bytes(k) <= position /\ Bytes(k) \in Int
      BY <1>0, <1>1, <1>4, <3>1, BytesFacts DEF Measured, ReadsEnd
    <3>3. Bytes(k) <= position'
      BY <1>1, <2>2, <3>2
    <3> QED
      BY <1>3, <1>4, <1>5, <2>3, <3>1, <3>3 DEF Measured, Placed, ReadsEnd
  <2>5. CASE call.block \in Blocks \ {0}
    <3>0. HoldsBlock
      BY <1>0, <2>5 DEF HoldsBlock
    <3>1. PICK n \in Nat : Reached(fat, h, call.block, n) /\ Behind(n)
      BY <3>0 DEF Measured, Placed
    <3>2. position' = Bytes(n)
      BY <1>1, <1>8, <2>2, <3>1
    <3>3. CASE fat[call.block] = FAT_EOC
      <4>1. k <= n
        <5>1. k = Cardinality(FileBlocks(fat, h))
          BY <1>4 DEF LengthOf, ChainIn
        <5> HIDE DEF h
        <5> QED
          BY <1>1, <2>5, <3>0, <3>1, <3>3, <5>1, ReachedEnd
      <4>2. Bytes(k) <= Bytes(n) /\ ~HoldsBlock'
        BY <2>1, <3>3, <4>1, BytesFacts, BlocksFacts DEF HoldsBlock
      <4> QED
        BY <1>3, <1>4, <1>5, <2>3, <3>2, <4>2 DEF Measured, Placed, ReadsEnd
    <3>4. CASE fat[call.block] # FAT_EOC
      <4>1. fat[call.block] \in Blocks \ {0} /\ n + 1 \in Nat
        BY <1>1, <2>5, <3>0, <3>4 DEF FatArray
      <4>2. HoldsBlock'
        BY <2>1, <4>1 DEF HoldsBlock
      <4>3. Reached(fat, h, fat[call.block], n + 1)
        <5> HIDE DEF h
        <5> QED
          BY <1>1, <2>5, <3>0, <3>1, <4>1, ReachedNext
      <4>4. Behind(n + 1)'
        BY <1>1, <2>1, <3>2 DEF Behind
      <4> QED
        BY <1>2, <1>3, <1>5, <2>1, <2>3, <4>1, <4>2, <4>3, <4>4 DEF Measured, Placed, ReadsEnd
    <3> QED
      BY <3>3, <3>4
  <2> QED
    BY <2>1, <2>4, <2>5
<1> QED
  BY <1>6, <1>7, <1>8

(* A call starts at the head of the chain, the first of its blocks.        *)
LEMMA EnterMeasured ==
  ASSUME Inv, Seeking, Ready, ChainFitsSize, NEW op \in {"read", "write"},
         NEW fd \in Fds, IsOpen(fd), NEW left \in Int, Enter(op, fd, left),
         UNCHANGED open_files,
         op = "read" => left <= fs_stat(fd) - open_files[fd].offset
  PROVE  Measured'
<1> DEFINE i    == open_files[fd].index_in_rootdir
           off  == open_files[fd].offset
           head == root_dir[i].data_index
           hops == num_fat_blocks_to_traverse(off) - 1
<1>0. /\ fat \in FatArray /\ root_dir \in RootDir /\ i \in Slots /\ i \in Files(root_dir)
      /\ off \in Nat /\ root_dir[i].size \in Nat /\ off <= root_dir[i].size
  <2>1. fat \in FatArray /\ root_dir \in RootDir /\ i \in Slots /\ off \in Nat
    BY DEF Inv, Typed, TypeOK
  <2>2. i \in Files(root_dir)
    BY DEF Inv, Directory, OpenFilesExist
  <2> QED
    BY <2>1, <2>2 DEF RootDir, Seeking, OffsetsInFile, fs_stat
<1>1. /\ call'.op = op /\ call'.fd = fd /\ call'.done = 0 /\ entry' = i
      /\ open_files'[call'.fd].offset = off /\ position' = off
  <2>1. call'.op = op /\ call'.fd = fd /\ call'.done = 0
    BY EnterFrame
  <2>2. open_files'[call'.fd].offset = off
    BY <2>1
  <2> QED
    BY <1>0, <2>1, <2>2 DEF entry, position
<1>2. hops = off \div BLOCK_SIZE /\ hops \in Nat
  BY <1>0, OffsetFacts DEF num_fat_blocks_to_traverse
<1>3. PICK k \in Nat, l \in Nat : k = Cardinality(ChainIn(fat, root_dir, i)) /\ l = LengthOf(entry)'
  BY LengthType DEF LengthOf, ChainIn
<1>4. k = 0 \/ Bytes(k - 1) < root_dir[i].size
  BY <1>0, <1>3 DEF ChainFitsSize, Ready, Bytes, ChainIn
<1>5. fs_stat(call.fd)' = root_dir'[i].size
  BY <1>1 DEF fs_stat
<1> HIDE DEF i, off, head, hops
<1>6. CASE /\ fat' = fat /\ root_dir' = root_dir /\ call'.pc = "return" /\ call'.left = 0
  <2>1. l = k
    BY <1>1, <1>3, <1>6 DEF LengthOf
  <2>2. CallFits'
    BY <1>1, <1>3, <1>4, <1>5, <1>6, <2>1 DEF CallFits, Needed
  <2> QED
    BY <1>6, <2>2 DEF Measured, Moving, Placed, ReadsEnd, HoldsBlock
<1>7. ASSUME NEW b \in Blocks, b # 0, root_dir'[i].data_index = b, left > 0,
             call' = Frame(op, fd, left, b, hops), Needed(l, fs_stat(call.fd)', op, off, TRUE)
      PROVE  Measured'
  <2>1. /\ call'.pc = IF hops = 0 THEN "block" ELSE "hop"
        /\ call'.left = left /\ call'.block = b /\ call'.hops = hops
    BY <1>7 DEF Frame
  <2>2. HoldsBlock'
    BY <1>7, <2>1 DEF HoldsBlock
  <2>3. Reached(fat', root_dir'[entry'].data_index, call'.block, 1)
    BY <1>1, <1>7, <2>1, ReachedHead
  <2>4. Behind(1)'
    BY <1>1, <1>2, <2>1 DEF Behind
  <2>5. Placed'
    BY <2>3, <2>4 DEF Placed
  <2>6. CallFits'
    BY <1>1, <1>3, <1>7, <2>2 DEF CallFits, Needed
  <2> QED
    BY <1>1, <1>7, <2>1, <2>2, <2>5, <2>6 DEF Measured, Moving, ReadsEnd
<1>8. CASE left > 0 /\ head # FAT_EOC /\ call' = Frame(op, fd, left, head, hops)
           /\ fat' = fat /\ root_dir' = root_dir
  <2>1. head \in Blocks /\ head # 0
    BY <1>0, <1>8 DEF head, RootDir, Inv, Storage, HeadsOK
  <2>2. l = k
    BY <1>1, <1>3, <1>8 DEF LengthOf
  <2>3. Needed(l, fs_stat(call.fd)', op, off, TRUE)
    BY <1>4, <1>5, <1>8, <2>2 DEF Needed
  <2> QED
    BY <1>7, <1>8, <2>1, <2>3 DEF head
<1>9. ASSUME NEW b \in Blocks, left > 0, allocate_new_fat(b),
             fat' = [fat EXCEPT ![b] = FAT_EOC],
             root_dir' = [root_dir EXCEPT ![i].data_index = b],
             call' = Frame(op, fd, left, b, hops)
      PROVE  Measured'
  <2>1. b # 0 /\ fat' \in FatArray /\ fat'[b] = FAT_EOC
    BY <1>0, <1>9 DEF allocate_new_fat, IsFirst, FreeBlocks, FatArray
  <2>2. root_dir'[i].data_index = b /\ root_dir'[i].size = root_dir[i].size
    BY <1>0, <1>9 DEF RootDir
  <2>3. l <= 1
    <3>1. Reached(fat', b, b, 1)
      BY ReachedHead
    <3>2. Cardinality(FileBlocks(fat', b)) <= 1
      BY <2>1, <3>1, ReachedEnd
    <3> QED
      BY <1>1, <1>3, <2>2, <3>2 DEF LengthOf, ChainIn
  <2>4. Needed(l, fs_stat(call.fd)', op, off, TRUE)
    <3>1. Bytes(l - 1) \in Int /\ Bytes(l - 1) <= 0
      <4>1. Bytes(0) = 0
        BY BytesFacts
      <4>2. l - 1 \in Int /\ l - 1 <= 0
        BY <2>3
      <4>3. \A m \in Int : m <= 0 => Bytes(m) <= Bytes(0)
        BY BytesFacts
      <4>4. Bytes(l - 1) \in Int
        BY <4>2, BytesFacts
      <4> QED
        BY <4>1, <4>2, <4>3, <4>4
    <3>2. op = "read" => root_dir[i].size > 0
      BY <1>0, <1>9 DEF fs_stat, i, off
    <3> QED
      BY <1>0, <1>5, <2>2, <3>1, <3>2 DEF Needed
  <2> QED
    BY <1>7, <1>9, <2>1, <2>2, <2>4
<1>10. CASE /\ left > 0 /\ head = FAT_EOC /\ call' = Frame(op, fd, left, NoBlock, 0)
            /\ fat' = fat /\ root_dir' = root_dir
  <2>1. /\ call'.pc = "block" /\ call'.left = left /\ call'.block = NoBlock
    BY <1>10 DEF Frame
  <2>2. ~HoldsBlock'
    BY <2>1, BlocksFacts DEF HoldsBlock
  <2>3. LengthOf(entry)' = 0
    <3>1. ChainIn(fat', root_dir', i) = {}
      BY <1>10 DEF ChainIn, FileBlocks, head
    <3> QED
      BY <1>1, <3>1, FS_EmptySet DEF LengthOf
  <2>4. Bytes(0) <= off
    BY <1>0, BytesFacts
  <2>5. CallFits'
    BY <2>3 DEF CallFits, Needed
  <2> QED
    BY <1>1, <1>10, <2>1, <2>2, <2>3, <2>4, <2>5 DEF Measured, Moving, Placed, ReadsEnd
<1>11. CASE left <= 0
  <2>1. call' = Frame(op, fd, 0, NoBlock, 0) /\ fat' = fat /\ root_dir' = root_dir
    BY <1>11 DEF Enter
  <2>2. call'.pc = "return" /\ call'.left = 0
    BY <2>1 DEF Frame
  <2> QED
    BY <1>6, <2>1, <2>2
<1>12. CASE ~(left <= 0)
  <2>1. \/ /\ left > 0 /\ head # FAT_EOC /\ call' = Frame(op, fd, left, head, hops)
           /\ fat' = fat /\ root_dir' = root_dir
        \/ /\ left > 0 /\ head = FAT_EOC /\ call' = Frame(op, fd, left, NoBlock, 0)
           /\ fat' = fat /\ root_dir' = root_dir
        \/ \E b \in Blocks :
             /\ left > 0 /\ head = FAT_EOC
             /\ allocate_new_fat(b)
             /\ fat' = [fat EXCEPT ![b] = FAT_EOC]
             /\ root_dir' = [root_dir EXCEPT ![i].data_index = b]
             /\ call' = Frame(op, fd, left, b, hops)
    BY <1>12 DEF Enter, i, off, head, hops
  <2> QED
    BY <1>8, <1>9, <1>10, <2>1
<1> QED
  BY <1>11, <1>12

-----------------------------------------------------------------------------
(***************************************************************************)
(* Files at rest.                                                          *)
(***************************************************************************)
Fits(f, r, i) ==
  LET n == Cardinality(ChainIn(f, r, i)) IN n > 0 => Bytes(n - 1) < r[i].size

LEMMA ChainFitsFits ==
  ChainFitsSize <=>
    \A i \in Files(root_dir) :
      (call = Idle \/ open_files[call.fd].index_in_rootdir # i) => Fits(fat, root_dir, i)
BY DEF ChainFitsSize, Fits, Bytes, ChainIn

(* The chain stays and the size does not shrink.                           *)
LEMMA FitsStays ==
  ASSUME NEW f, NEW g, NEW r, NEW q, NEW i, NEW j, Fits(f, r, i),
         ChainIn(g, q, j) = ChainIn(f, r, i),
         r[i].size \in Int, q[j].size \in Int, r[i].size <= q[j].size
  PROVE  Fits(g, q, j)
<1>1. PICK n \in Nat : n = Cardinality(ChainIn(f, r, i))
  BY LengthType DEF ChainIn
<1>2. Bytes(n - 1) \in Int
  BY BytesFacts
<1> QED
  BY <1>1, <1>2 DEF Fits

(* When fs_read or fs_write returns, the blocks counted as needed are.     *)
LEMMA ReturnFits ==
  ASSUME Inv, Owned, Seeking, Measured, Return
  PROVE  Fits(fat', root_dir', entry)
<1>1. call.pc = "return"
  BY DEF Return
<1>2. call # Idle
  BY <1>1 DEF Idle
<1>3. /\ entry \in Files(root_dir) /\ root_dir \in RootDir /\ entry \in Slots
      /\ position \in Nat /\ root_dir[entry].size \in Nat
  BY <1>2, InCall DEF Files, RootDir
<1>4. PICK n \in Nat : n = LengthOf(entry)
  BY LengthType DEF LengthOf, ChainIn
<1>5. \/ n = 0
      \/ Bytes(n - 1) < root_dir[entry].size
      \/ call.op = "write" /\ Bytes(n - 1) < position
  BY <1>1, <1>2, <1>4 DEF Measured, CallFits, Needed, HoldsBlock, fs_stat, entry
<1>6. \/ /\ call.op = "write" /\ position > root_dir[entry].size
         /\ root_dir' = [root_dir EXCEPT ![entry].size = position]
      \/ /\ ~(call.op = "write" /\ position > root_dir[entry].size)
         /\ root_dir' = root_dir
  BY DEF Return, entry, position
<1>7. fat' = fat /\ root_dir'[entry].data_index = root_dir[entry].data_index
  BY <1>3, <1>6 DEF Return, RootDir
<1>8. ChainIn(fat', root_dir', entry) = ChainIn(fat, root_dir, entry)
  BY <1>7 DEF ChainIn
<1>9. n = 0 \/ Bytes(n - 1) < root_dir'[entry].size
  <2>1. Bytes(n - 1) \in Int
    BY BytesFacts
  <2>2. CASE /\ call.op = "write" /\ position > root_dir[entry].size
             /\ root_dir' = [root_dir EXCEPT ![entry].size = position]
    <3>1. root_dir'[entry].size = position
      BY <1>3, <2>2 DEF RootDir
    <3> QED
      BY <1>3, <1>5, <2>1, <2>2, <3>1
  <2>3. CASE /\ ~(call.op = "write" /\ position > root_dir[entry].size)
             /\ root_dir' = root_dir
    BY <1>3, <1>5, <2>1, <2>3
  <2> QED
    BY <1>6, <2>2, <2>3
<1> QED
  BY <1>4, <1>8, <1>9 DEF Fits, LengthOf

(* A call on descriptor fd leaves the other files as they were.            *)
LEMMA OthersFit ==
  ASSUME Inv, NEW fd \in Fds, WorksOn(fd), ChainFitsSize,
         NEW i \in Files(root_dir'), i # open_files[fd].index_in_rootdir
  PROVE  Fits(fat', root_dir', i)
<1>1. i \in Files(root_dir) /\ root_dir'[i] = root_dir[i]
      /\ ChainIn(fat', root_dir, i) = ChainIn(fat, root_dir, i)
  BY DEF WorksOn, OnlyTouches
<1>2. call = Idle \/ open_files[call.fd].index_in_rootdir # i
  BY DEF WorksOn
<1>3. Fits(fat, root_dir, i)
  BY <1>1, <1>2, ChainFitsFits
<1>4. ChainIn(fat', root_dir', i) = ChainIn(fat, root_dir, i)
  BY <1>1 DEF ChainIn
<1>5. root_dir[i].size \in Int
  BY <1>1 DEF Inv, Typed, TypeOK, RootDir, Files
<1> QED
  BY <1>1, <1>3, <1>4, <1>5, FitsStays

LEMMA CallsFit ==
  ASSUME Inv, Owned, Seeking, Measured, ChainFitsSize, OnOpenFile
  PROVE  Measured' /\ ChainFitsSize'
<1>0. /\ Typed /\ Directory
      /\ open_files \in [Fds -> [empty : BOOLEAN, index_in_rootdir : Slots, offset : Nat]]
      /\ root_dir \in RootDir /\ call \in Frames /\ call.fd \in Fds
  BY DEF Inv, Typed, TypeOK, Frames
<1>1. PICK fd \in Fds : WorksOn(fd)
  BY CallsTouchOpenFiles
<1> DEFINE i == open_files[fd].index_in_rootdir
<1>2. i \in Files(root_dir) /\ i \in Slots /\ IsOpen(fd)
  BY <1>0, <1>1 DEF WorksOn, Directory, OpenFilesExist
<1>3. \A fd2 \in Fds : open_files'[fd2].index_in_rootdir = open_files[fd2].index_in_rootdir
  <2>1. \/ UNCHANGED open_files
        \/ \E f \in Fds, offset \in Nat :
             open_files' = [open_files EXCEPT ![f].offset = offset]
    <3>1. CASE Return
      <4>1. call # Idle
        BY <3>1 DEF Return, Idle
      <4>2. open_files[call.fd].offset + call.done \in Nat
        BY <4>1, InCall DEF position
      <4> QED
        BY <1>0, <3>1, <4>2 DEF Return
    <3>2. CASE \E f \in Fds, offset \in Nat : fs_lseek(f, offset)
      <4>1. PICK f \in Fds, offset \in Nat : fs_lseek(f, offset)
        BY <3>2
      <4>2. offset \in Nat
        BY BoundsAssumption
      <4>3. open_files' = [open_files EXCEPT ![f].offset = offset]
        BY <4>1 DEF fs_lseek
      <4> QED
        BY <4>2, <4>3
    <3>3. CASE ~Return /\ ~(\E f \in Fds, offset \in Nat : fs_lseek(f, offset))
      BY <3>3 DEF OnOpenFile, fs_read, fs_write, Hop, WriteBlock, ReadBlock, memory
    <3> QED
      BY <3>1, <3>2, <3>3
  <2> QED
    BY <1>0, <2>1
<1>4. Files(root_dir') = Files(root_dir)
  BY <1>1 DEF WorksOn, OnlyTouches
<1>5. ASSUME Fits(fat', root_dir', i) \/ call' # Idle
      PROVE  ChainFitsSize'
  <2>1. \A j \in Files(root_dir') : j # i => Fits(fat', root_dir', j)
    BY <1>1, OthersFit
  <2>2. call' # Idle => open_files'[call'.fd].index_in_rootdir = i
    BY <1>1, <1>3 DEF WorksOn
  <2> HIDE DEF i
  <2>3. \A j \in Files(root_dir') :
          (call' = Idle \/ open_files'[call'.fd].index_in_rootdir # j) => Fits(fat', root_dir', j)
    BY <1>5, <2>1, <2>2
  <2> QED
    BY <2>3 DEF ChainFitsSize, Fits, Bytes, ChainIn
<1>6. ASSUME call' # Idle, Measured'
      PROVE  Measured' /\ ChainFitsSize'
  BY <1>5, <1>6
<1>7. ASSUME call' = Idle
      PROVE  Measured'
  BY <1>7 DEF Idle, Measured, Moving, Placed, ReadsEnd, CallFits, HoldsBlock
<1>8. ASSUME NEW fd2 \in Fds, NEW offset \in Nat, fs_lseek(fd2, offset)
      PROVE  Measured' /\ ChainFitsSize'
  <2>1. fs_stat(fd2) \in Nat
    BY <1>0 DEF fs_stat, RootDir
  <2>2. /\ call = Idle /\ call' = Idle /\ fat' = fat
        /\ \/ root_dir' = root_dir
           \/ root_dir' = [root_dir EXCEPT ![open_files[fd2].index_in_rootdir].size = @ + 1]
    BY <1>8 DEF fs_lseek, Ready
  <2>3. /\ root_dir'[i].data_index = root_dir[i].data_index
        /\ root_dir[i].size \in Int /\ root_dir'[i].size \in Int
        /\ root_dir[i].size <= root_dir'[i].size
    <3>1. open_files[fd2].index_in_rootdir \in Slots
      BY <1>0
    <3> HIDE DEF i
    <3> QED
      BY <1>0, <1>2, <2>2, <3>1 DEF RootDir
  <2>4. Fits(fat, root_dir, i)
    BY <1>2, <2>2, ChainFitsFits
  <2>5. ChainIn(fat', root_dir', i) = ChainIn(fat, root_dir, i)
    BY <2>2, <2>3 DEF ChainIn
  <2>6. Fits(fat', root_dir', i)
    BY <2>3, <2>4, <2>5, FitsStays
  <2> QED
    BY <1>5, <1>7, <2>2, <2>6
<1>9. ASSUME NEW fd2 \in Fds, NEW count \in Nat, fs_read(fd2, count) \/ fs_write(fd2, count)
      PROVE  Measured' /\ ChainFitsSize'
  <2>1. /\ fs_stat(fd2) \in Nat /\ open_files[fd2].offset \in Nat /\ count \in Nat
        /\ UNCHANGED open_files /\ Ready /\ IsOpen(fd2)
    BY <1>0, <1>9, BoundsAssumption DEF fs_read, fs_write, fs_stat, RootDir
  <2>2. PICK op \in {"read", "write"}, left \in Int :
          /\ Enter(op, fd2, left)
          /\ op = "read" => left <= fs_stat(fd2) - open_files[fd2].offset
    <3>1. CASE fs_read(fd2, count)
      <4> DEFINE rest == MinOf(count, fs_stat(fd2) - open_files[fd2].offset)
      <4>1. rest \in Int /\ rest <= fs_stat(fd2) - open_files[fd2].offset
        BY <2>1 DEF MinOf
      <4>2. Enter("read", fd2, rest)
        BY <3>1 DEF fs_read
      <4> HIDE DEF rest
      <4> QED
        BY <4>1, <4>2
    <3>2. CASE fs_write(fd2, count)
      <4>1. Enter("write", fd2, count) /\ count \in Int
        BY <2>1, <3>2 DEF fs_write
      <4> QED
        BY <4>1
    <3> QED
      BY <1>9, <3>1, <3>2
  <2>3. Measured'
    BY <2>1, <2>2, EnterMeasured
  <2>4. call'.op = op
    BY <2>2, EnterFrame
  <2> QED
    BY <1>6, <2>3, <2>4 DEF Idle
<1>10. CASE Hop \/ WriteBlock \/ ReadBlock
  <2>1. Measured'
    BY <1>10, HopMeasured, WriteMeasured, ReadMeasured
  <2>2. call'.pc # "idle"
    BY <1>0, <1>10 DEF Hop, WriteBlock, ReadBlock, Frames
  <2> QED
    BY <1>6, <2>1, <2>2 DEF Idle
<1>11. CASE Return
  <2>1. call.pc = "return" /\ call' = Idle
    BY <1>11 DEF Return
  <2>2. call.fd = fd
    BY <1>1, <2>1 DEF WorksOn, Idle
  <2>3. Fits(fat', root_dir', i)
    BY <1>11, <2>2, ReturnFits DEF entry
  <2> QED
    BY <1>5, <1>7, <2>1, <2>3
<1> QED
  BY <1>8, <1>9, <1>10, <1>11 DEF OnOpenFile

(* The calls on the directory, and those on no file at all.                *)
LEMMA RestFits ==
  ASSUME Inv, ChainFitsSize, [Session]_vars, ~OnOpenFile, UNCHANGED vars => Measured
  PROVE  Measured' /\ ChainFitsSize'
<1>0. root_dir \in RootDir /\ fat \in FatArray
  BY DEF Inv, Typed, TypeOK
<1>1. CASE UNCHANGED vars
  <2>1. Measured'
    BY <1>1 DEF vars, Measured, Moving, Placed, ReadsEnd, CallFits, HoldsBlock, Behind,
       position, entry, LengthOf, fs_stat
  <2>2. ChainFitsSize'
    BY <1>1 DEF vars, ChainFitsSize
  <2> QED
    BY <2>1, <2>2
<1>2. ASSUME Ready, call' = Idle,
             \A i \in Files(root_dir') :
               Fits(fat', root_dir', i) \/ (i \in Files(root_dir) /\ fat' = fat
                                             /\ root_dir'[i] = root_dir[i])
      PROVE  Measured' /\ ChainFitsSize'
  <2>1. \A i \in Files(root_dir) : Fits(fat, root_dir, i)
    BY <1>2, ChainFitsFits DEF Ready
  <2>2. \A i \in Files(root_dir') : Fits(fat', root_dir', i)
    BY <1>2, <2>1 DEF Fits, ChainIn
  <2>3. ChainFitsSize'
    BY <2>2 DEF ChainFitsSize, Fits, Bytes, ChainIn
  <2> QED
    BY <1>2, <2>3 DEF Idle, Measured, Moving, Placed, ReadsEnd, CallFits, HoldsBlock
<1>3. ASSUME NEW name \in Names, fs_create(name)
      PROVE  Measured' /\ ChainFitsSize'
  <2>1. PICK k \in Slots : root_dir' = [root_dir EXCEPT ![k] = NewFile(name)]
    BY <1>3 DEF fs_create
  <2>2. Ready /\ call' = Idle /\ fat' = fat
    BY <1>3 DEF fs_create, CreatesAt, Ready
  <2>3. Fits(fat', root_dir', k)
    <3>1. ChainIn(fat', root_dir', k) = {}
      BY <1>0, <2>1 DEF RootDir, NewFile, ChainIn, FileBlocks
    <3> QED
      BY <3>1, FS_EmptySet DEF Fits
  <2>4. \A i \in Slots \ {k} : root_dir'[i] = root_dir[i]
    BY <1>0, <2>1 DEF RootDir
  <2> QED
    BY <1>2, <2>2, <2>3, <2>4 DEF Files
<1>4. ASSUME NEW name \in Names, fs_delete(name)
      PROVE  Measured' /\ ChainFitsSize'
  <2>1. PICK k \in Slots : root_dir' = [root_dir EXCEPT ![k] = FreeEntry]
    BY <1>4 DEF fs_delete
  <2>2. Ready /\ call' = Idle /\ fat' = fat
    BY <1>4 DEF fs_delete, Ready
  <2>3. \A i \in Slots \ {k} : root_dir'[i] = root_dir[i]
    BY <1>0, <2>1 DEF RootDir
  <2>4. root_dir'[k].filename = NoName
    BY <1>0, <2>1 DEF RootDir, FreeEntry, NewFile
  <2>5. \A i \in Files(root_dir') : i \in Files(root_dir) /\ root_dir'[i] = root_dir[i]
    BY <2>3, <2>4 DEF Files, no_file_exists
  <2> QED
    BY <1>2, <2>2, <2>5
<1>5. CASE Formatted /\ fs_mount
  <2>1. root_dir' = disk_root /\ call' = Idle /\ phase = "unmounted"
    BY <1>5 DEF fs_mount, Inv, Typed, CallOK
  <2>2. Files(root_dir') = {}
    BY <1>5, <2>1 DEF Formatted, Files, no_file_exists, FreeEntry, NewFile
  <2>3. ChainFitsSize'
    BY <2>2 DEF ChainFitsSize
  <2> QED
    BY <2>1, <2>3 DEF Idle, Measured, Moving, Placed, ReadsEnd, CallFits, HoldsBlock
<1>6. CASE \/ \E name \in Names : fs_open(name)
           \/ \E fd \in Fds : fs_close(fd)
           \/ UmountFat
  <2>1. Ready /\ call' = Idle
    BY <1>6 DEF fs_open, fs_close, UmountFat, Ready
  <2>2. UNCHANGED <<fat, root_dir>>
    BY <1>6, QuietSteps
  <2> QED
    BY <1>2, <2>1, <2>2
<1>7. CASE UmountRoot
  <2>1. call = Idle /\ call' = Idle /\ UNCHANGED <<fat, root_dir, open_files>>
    BY <1>7 DEF UmountRoot, memory, Inv, Typed, CallOK
  <2>2. ChainFitsSize'
    BY <2>1 DEF ChainFitsSize
  <2> QED
    BY <2>1, <2>2 DEF Idle, Measured, Moving, Placed, ReadsEnd, CallFits, HoldsBlock
<1> QED
  BY <1>1, <1>3, <1>4, <1>5, <1>6, <1>7, CallsAreAnyCalls
     DEF Session, AnyCalls, Running, OnOpenFile

LEMMA MeasuredInvariance == SessionSpec => [](Inv /\ Seeking /\ Measured /\ ChainFitsSize)
<1>1. Init => Measured /\ ChainFitsSize
  BY DEF Init, Formatted, FreeEntry, NewFile, Files, no_file_exists, ChainFitsSize,
     Idle, Measured, Moving, Placed, ReadsEnd, CallFits, HoldsBlock
<1>2. Inv /\ Owned /\ Seeking /\ Measured /\ ChainFitsSize /\ [Session]_vars
        => Measured' /\ ChainFitsSize'
  BY CallsFit, RestFits
<1>3. Init => Typed /\ Directory /\ Seeking
  BY InitTyped, InitDirectory, InitSeeking
<1>4. Typed /\ Directory /\ Seeking /\ [Next]_vars => Typed' /\ Directory' /\ Seeking'
  BY NextIsAnyNext, NextTyped, NextDirectory, NextSeeking
<1>5. Spec => []Seeking
  BY <1>3, <1>4, PTL DEF Spec
<1>6. SessionSpec => Init /\ [][Session]_vars
  BY PTL DEF SessionSpec
<1> QED
  BY <1>1, <1>2, <1>5, <1>6, OwnedInvariance, SessionIsSpec, PTL

(* While a process works, no file at rest has a block that lies wholly     *)
(* beyond its last byte, whatever calls a full disk has cut short.         *)
THEOREM ChainsFitSizes == SessionSpec => []ChainFitsSize
BY MeasuredInvariance, PTL

(* While a process works, fs_read returns less than it was asked for only  *)
(* from a file with fewer blocks than its size needs.                      *)
THEOREM ShortReadsMeanHoles == SessionSpec => []ShortReadMeansHole
<1>1. Inv /\ Owned /\ Seeking /\ Measured => ShortReadMeansHole
  <2> SUFFICES ASSUME Inv, Owned, Seeking, Measured,
                      call.pc = "return", call.op = "read", call.left > 0
               PROVE  Bytes(LengthOf(entry)) < root_dir[entry].size
    BY DEF ShortReadMeansHole, Bytes, LengthOf, ChainIn, entry
  <2>1. call # Idle
    BY DEF Idle
  <2>2. /\ position \in Nat /\ fs_stat(call.fd) \in Nat /\ call.left \in Nat
        /\ position + call.left <= fs_stat(call.fd) /\ LengthOf(entry) \in Nat
    BY <2>1, InCall
  <2>3. Bytes(LengthOf(entry)) \in Int /\ Bytes(LengthOf(entry)) <= position
    BY <2>2, BytesFacts DEF Measured, ReadsEnd, HoldsBlock
  <2> QED
    BY <2>2, <2>3 DEF fs_stat, entry
<1> QED
  BY <1>1, MeasuredInvariance, OwnedInvariance, SessionIsSpec, PTL
=============================================================================
