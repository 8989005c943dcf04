----------------------------- MODULE DataProofs -----------------------------
(***************************************************************************)
(* FileData implements ByteStore, for every value of the constants.        *)
(*                                                                         *)
(* The n-th block of a chain is defined by recursion.  The facts about it  *)
(* are proved by induction over the natural numbers, from the theorem that *)
(* every set of them that is not empty has a least member.                 *)
(***************************************************************************)
EXTENDS FileData, OwnershipProofs, SequenceTheorems, WellFoundedInduction

LEMMA LeastMember ==
  ASSUME NEW T \in SUBSET Nat, T # {}
  PROVE  \E n \in T : \A m \in T : n <= m
<1> DEFINE R == OpToRel(<, Nat)
<1>1. IsWellFoundedOn(R, Nat)
  BY NatLessThanWellFounded
<1>2. \A x, y \in Nat : <<x, y>> \in R <=> x < y
  BY DEF OpToRel
<1> HIDE DEF R
<1>3. PICK n \in T : \A y \in T : <<y, n>> \notin R
  BY <1>1, WFMin
<1>4. \A m \in T : n <= m
  <2> SUFFICES ASSUME NEW m \in T
               PROVE  n <= m
    OBVIOUS
  <2>1. ~(m < n)
    BY <1>2, <1>3
  <2> QED
    BY <2>1
<1> QED
  BY <1>4

LEMMA Induction ==
  ASSUME NEW S, 0 \in S, \A n \in Nat : n \in S => n + 1 \in S
  PROVE  Nat \subseteq S
<1> DEFINE T == Nat \ S
<1> SUFFICES ASSUME T # {}
             PROVE  FALSE
  OBVIOUS
<1>1. PICK n \in T : \A m \in T : n <= m
  BY LeastMember
<1>2. n - 1 \in Nat /\ n - 1 \notin T
  BY <1>1
<1> QED
  BY <1>2
-----------------------------------------------------------------------------
(***************************************************************************)
(* Part 1: the blocks of a chain by their number.                          *)
(***************************************************************************)
Links == Blocks \union {FAT_EOC}

Link(f, b) == IF b = FAT_EOC THEN FAT_EOC ELSE f[b]

(* The recursion has a solution, up to any number ...                      *)
LEMMA NthExists ==
  ASSUME NEW f \in FatArray, NEW h \in Links, NEW m \in Nat
  PROVE  \E g \in [0..m -> Links] : g[0] = h /\ \A n \in 0..m : n # 0 => g[n] = Link(f, g[n - 1])
<1> DEFINE Is(g, k) == g[0] = h /\ \A n \in 0..k : n # 0 => g[n] = Link(f, g[n - 1])
           S == {k \in Nat : \E g \in [0..k -> Links] : Is(g, k)}
<1>1. 0 \in S
  <2> DEFINE g == [n \in 0..0 |-> h]
  <2>1. g \in [0..0 -> Links] /\ Is(g, 0)
    OBVIOUS
  <2> QED
    BY <2>1
<1>2. ASSUME NEW k \in Nat, k \in S
      PROVE  k + 1 \in S
  <2>1. PICK g \in [0..k -> Links] : Is(g, k)
    BY <1>2
  <2> DEFINE e == [n \in 0..(k + 1) |-> IF n = k + 1 THEN Link(f, g[k]) ELSE g[n]]
  <2>2. Link(f, g[k]) \in Links
    BY DEF Link, Links, FatArray
  <2>3. e \in [0..(k + 1) -> Links]
    BY <2>2
  <2>4. e[0] = h
    BY <2>1
  <2>5. \A n \in 0..(k + 1) : n # 0 => e[n] = Link(f, e[n - 1])
    <3> SUFFICES ASSUME NEW n \in 0..(k + 1), n # 0
                 PROVE  e[n] = Link(f, e[n - 1])
      OBVIOUS
    <3>1. n - 1 \in 0..k /\ e[n - 1] = g[n - 1]
      OBVIOUS
    <3>2. CASE n = k + 1
      BY <3>1, <3>2
    <3>3. CASE n # k + 1
      <4>1. n \in 0..k /\ e[n] = g[n]
        BY <3>3
      <4> HIDE DEF e
      <4> QED
        BY <2>1, <3>1, <4>1
    <3> QED
      BY <3>2, <3>3
  <2> HIDE DEF e
  <2>6. Is(e, k + 1) /\ k + 1 \in Nat
    BY <2>4, <2>5
  <2> HIDE DEF Is
  <2> QED
    BY <2>3, <2>6
<1> HIDE DEF S
<1>3. Nat \subseteq S
  BY <1>1, <1>2, Induction
<1> QED
  BY <1>3 DEF S

(* ... and so NthBlock is the solution up to MaxSize.                      *)
LEMMA NthIsFunction ==
  ASSUME NEW f \in FatArray, NEW h \in Links
  PROVE  LET nth == NthBlock(f, h) IN
         /\ nth \in [0..MaxSize -> Links]
         /\ nth[0] = h
         /\ \A n \in 0..MaxSize : n # 0 => nth[n] = Link(f, nth[n - 1])
<1> DEFINE Fits(g) == g = [n \in 0..MaxSize |-> IF n = 0 THEN h
                            ELSE IF g[n - 1] = FAT_EOC THEN FAT_EOC ELSE f[g[n - 1]]]
<1>0. MaxSize \in Nat
  BY BoundsAssumption
<1>1. PICK g \in [0..MaxSize -> Links] : g[0] = h /\ \A n \in 0..MaxSize : n # 0 => g[n] = Link(f, g[n - 1])
  BY <1>0, NthExists
<1>2. Fits(g)
  <2>1. \A n \in 0..MaxSize : g[n] = IF n = 0 THEN h
                            ELSE IF g[n - 1] = FAT_EOC THEN FAT_EOC ELSE f[g[n - 1]]
    BY <1>1 DEF Link
  <2> QED
    BY <1>1, <2>1
<1>3. NthBlock(f, h) = CHOOSE nth : Fits(nth)
  BY DEF NthBlock
<1>4. Fits(NthBlock(f, h))
  <2> HIDE DEF Fits
  <2> QED
    BY <1>2, <1>3, Zenon
<1>5. ASSUME NEW nth, Fits(nth)
      PROVE  nth[0] = h /\ \A n \in 0..MaxSize : n # 0 => nth[n] = Link(f, nth[n - 1])
  <2>1. nth[0] = h
    BY <1>0, <1>5
  <2>2. ASSUME NEW n \in 0..MaxSize, n # 0
        PROVE  nth[n] = Link(f, nth[n - 1])
    BY <1>5, <2>2 DEF Link
  <2> QED
    BY <2>1, <2>2
<1> DEFINE nth == NthBlock(f, h)
<1>6. DOMAIN nth = 0..MaxSize /\ nth = [n \in 0..MaxSize |-> nth[n]]
  BY <1>4
<1> HIDE DEF nth
<1>7. nth[0] = h /\ \A n \in 0..MaxSize : n # 0 => nth[n] = Link(f, nth[n - 1])
  BY <1>4, <1>5 DEF nth
<1>8. \A n \in 0..MaxSize : nth[n] \in Links
  <2> DEFINE S == {k \in Nat : k \in 0..MaxSize => nth[k] \in Links}
  <2>1. 0 \in S
    BY <1>7
  <2>2. ASSUME NEW k \in Nat, k \in S PROVE k + 1 \in S
    <3> SUFFICES ASSUME k + 1 \in 0..MaxSize PROVE nth[k + 1] \in Links
      OBVIOUS
    <3>1. k \in 0..MaxSize /\ nth[k] \in Links /\ k + 1 # 0 /\ (k + 1) - 1 = k
      BY <1>0, <2>2
    <3>2. nth[k + 1] = Link(f, nth[k])
      BY <1>7, <3>1
    <3> QED
      BY <3>1, <3>2 DEF Link, Links, FatArray
  <2> HIDE DEF S
  <2>3. Nat \subseteq S
    BY <2>1, <2>2, Induction
  <2> QED
    BY <1>0, <2>3 DEF S
<1> QED
  BY <1>6, <1>7, <1>8 DEF nth

(* Of the steps of an induction along a chain each is a use of this.       *)
LEMMA NthStep ==
  ASSUME NEW f \in FatArray, NEW h \in Links, NEW n \in Nat, n + 1 \in 0..MaxSize
  PROVE  /\ n \in 0..MaxSize
         /\ NthBlock(f, h)[n] \in Links
         /\ NthBlock(f, h)[n + 1] = Link(f, NthBlock(f, h)[n])
<1> DEFINE nth == NthBlock(f, h)
<1>1. n \in 0..MaxSize /\ n + 1 # 0 /\ (n + 1) - 1 = n
  BY BoundsAssumption
<1>2. nth \in [0..MaxSize -> Links] /\ \A k \in 0..MaxSize : k # 0 => nth[k] = Link(f, nth[k - 1])
  BY NthIsFunction
<1> HIDE DEF nth
<1>3. nth[n + 1] = Link(f, nth[n])
  BY <1>1, <1>2
<1> QED
  BY <1>1, <1>2, <1>3 DEF nth

(* A head of a file, by the invariant HeadsOK.                             *)
HeadOK(f, h) ==
  /\ h \in Links
  /\ h # FAT_EOC => h # 0 /\ f[h] # 0 /\ \A x \in Blocks : f[x] # h

LEMMA NthOnChain ==
  ASSUME NEW f \in FatArray, LinksOK(f), NEW h, HeadOK(f, h), NEW n \in 0..MaxSize,
         NthBlock(f, h)[n] # FAT_EOC
  PROVE  /\ NthBlock(f, h)[n] \in FileBlocks(f, h)
         /\ NthBlock(f, h)[n] \in Blocks \ {0}
         /\ f[NthBlock(f, h)[n]] # 0
<1> DEFINE nth == NthBlock(f, h)
           On(b) == b # FAT_EOC => b \in FileBlocks(f, h) /\ b \in Blocks \ {0} /\ f[b] # 0
           S == {k \in Nat : k \in 0..MaxSize => On(nth[k])}
<1>0. h \in Links
  BY DEF HeadOK
<1>1. 0 \in S
  <2>1. nth[0] = h
    BY <1>0, NthIsFunction
  <2>2. On(h)
    BY ChainFacts DEF HeadOK, Links
  <2> HIDE DEF On, nth
  <2> QED
    BY <2>1, <2>2
<1>2. ASSUME NEW k \in Nat, k \in S
      PROVE  k + 1 \in S
  <2> SUFFICES ASSUME k + 1 \in 0..MaxSize
               PROVE  On(nth[k + 1])
    OBVIOUS
  <2>1. k \in 0..MaxSize /\ nth[k] \in Links /\ nth[k + 1] = Link(f, nth[k])
    BY <1>0, NthStep
  <2>2. On(nth[k])
    BY <1>2, <2>1
  <2> HIDE DEF nth
  <2> SUFFICES ASSUME nth[k] # FAT_EOC, f[nth[k]] # FAT_EOC
               PROVE  On(f[nth[k]])
    BY <2>1 DEF Link
  <2>3. /\ nth[k] \in Blocks \ {0} /\ nth[k] \in FileBlocks(f, h) /\ f[nth[k]] # 0
        /\ f[nth[k]] \in Blocks /\ h \in Blocks
    BY <2>1, <2>2 DEF FatArray, Links, FileBlocks, HeadOK
  <2>4. f[nth[k]] \in FileBlocks(f, h)
    BY <2>3, ChainFacts DEF LinkClosed
  <2>5. f[f[nth[k]]] # 0
    BY <2>3 DEF LinksOK
  <2> QED
    BY <2>3, <2>4, <2>5
<1> HIDE DEF S
<1>3. n \in S
  BY <1>1, <1>2, Induction
<1> QED
  BY <1>3 DEF S

(* No block is twice on a chain.                                           *)
LEMMA NthDistinct ==
  ASSUME NEW f \in FatArray, LinksOK(f), NEW h, HeadOK(f, h),
         NEW m \in 0..MaxSize, NEW n \in 0..MaxSize,
         NthBlock(f, h)[m] = NthBlock(f, h)[n], NthBlock(f, h)[m] # FAT_EOC
  PROVE  m = n
<1> DEFINE nth == NthBlock(f, h)
           Once(k) == \A j \in 0..MaxSize : nth[k] = nth[j] /\ nth[k] # FAT_EOC => k = j
           S == {k \in Nat : k \in 0..MaxSize => Once(k)}
<1>0. /\ h \in Links /\ nth \in [0..MaxSize -> Links] /\ nth[0] = h
      /\ \A j \in 0..MaxSize : j # 0 => nth[j] = Link(f, nth[j - 1])
  BY NthIsFunction DEF HeadOK
<1>1. ASSUME NEW j \in 0..MaxSize, j # 0, nth[j] # FAT_EOC
      PROVE  /\ j - 1 \in 0..MaxSize /\ nth[j - 1] \in Blocks
             /\ nth[j] = f[nth[j - 1]] /\ nth[j] # h /\ nth[j] # 0
  <2>1. nth[j] # 0
    BY <1>1, NthOnChain
  <2> HIDE DEF nth
  <2>2. nth[j] = Link(f, nth[j - 1]) /\ j - 1 \in 0..MaxSize
    BY <1>0, <1>1, BoundsAssumption
  <2>3. nth[j - 1] \in Blocks /\ nth[j] = f[nth[j - 1]]
    BY <1>0, <1>1, <2>2 DEF Link, Links
  <2>4. nth[j] # h
    BY <1>1, <2>3 DEF HeadOK
  <2> QED
    BY <2>1, <2>2, <2>3, <2>4
<1> HIDE DEF nth
<1>2. 0 \in S
  <2>1. \A j \in 0..MaxSize : nth[0] = nth[j] /\ nth[0] # FAT_EOC => 0 = j
    BY <1>0, <1>1
  <2> QED
    BY <2>1
<1>3. ASSUME NEW k \in Nat, k \in S
      PROVE  k + 1 \in S
  <2> SUFFICES ASSUME k + 1 \in 0..MaxSize, NEW j \in 0..MaxSize,
                      nth[k + 1] = nth[j], nth[k + 1] # FAT_EOC
               PROVE  k + 1 = j
    OBVIOUS
  <2>1. k + 1 # 0 /\ (k + 1) - 1 = k
    OBVIOUS
  <2>2. k \in 0..MaxSize /\ nth[k] \in Blocks /\ nth[j] = f[nth[k]] /\ nth[j] # h /\ nth[j] # 0
    BY <1>1, <2>1
  <2>3. j # 0
    BY <1>0, <2>2
  <2>4. j - 1 \in 0..MaxSize /\ nth[j - 1] \in Blocks /\ nth[j] = f[nth[j - 1]]
    BY <1>1, <2>3
  <2>5. nth[k] = nth[j - 1]
    BY <2>2, <2>4 DEF LinksOK
  <2>6. nth[k] # FAT_EOC
    BY <2>2, BlocksFacts
  <2>7. Once(k)
    BY <1>3, <2>2
  <2>8. k = j - 1
    BY <2>4, <2>5, <2>6, <2>7
  <2> QED
    BY <2>8
<1> HIDE DEF S
<1>4. m \in S
  BY <1>2, <1>3, Induction
<1> QED
  BY <1>4 DEF S, nth

(* Behind the end of a chain there is no block.                            *)
LEMMA NthEnds ==
  ASSUME NEW f \in FatArray, NEW h \in Links, NEW m \in 0..MaxSize,
         NthBlock(f, h)[m] = FAT_EOC, NEW n \in 0..MaxSize, m <= n
  PROVE  NthBlock(f, h)[n] = FAT_EOC
<1> DEFINE nth == NthBlock(f, h)
           S == {k \in Nat : k \in 0..MaxSize /\ m <= k => nth[k] = FAT_EOC}
<1>1. 0 \in S
  <2>1. 0 >= m => m = 0
    OBVIOUS
  <2> QED
    BY <2>1
<1>2. ASSUME NEW k \in Nat, k \in S
      PROVE  k + 1 \in S
  <2> SUFFICES ASSUME k + 1 \in 0..MaxSize, m <= k + 1
               PROVE  nth[k + 1] = FAT_EOC
    OBVIOUS
  <2>1. CASE m = k + 1
    BY <2>1
  <2>2. CASE m <= k
    <3>1. k \in 0..MaxSize /\ nth[k + 1] = Link(f, nth[k])
      BY NthStep
    <3>2. nth[k] = FAT_EOC
      BY <1>2, <2>2, <3>1
    <3> HIDE DEF nth
    <3> QED
      BY <3>1, <3>2 DEF Link
  <2> QED
    BY <2>1, <2>2
<1> HIDE DEF S
<1>3. n \in S
  BY <1>1, <1>2, Induction
<1> QED
  BY <1>3 DEF S

(* A chain whose links stay is the same chain.                             *)
LEMMA NthSame ==
  ASSUME NEW f \in FatArray, LinksOK(f), NEW h, HeadOK(f, h), NEW g \in FatArray,
         \A x \in FileBlocks(f, h) : g[x] = f[x]
  PROVE  NthBlock(g, h) = NthBlock(f, h)
<1> DEFINE nth == NthBlock(f, h)
           new == NthBlock(g, h)
           S == {k \in Nat : k \in 0..MaxSize => new[k] = nth[k]}
<1>0. h \in Links
  BY DEF HeadOK
<1>1. 0 \in S
  BY <1>0, NthIsFunction
<1>2. ASSUME NEW k \in Nat, k \in S
      PROVE  k + 1 \in S
  <2> SUFFICES ASSUME k + 1 \in 0..MaxSize
               PROVE  new[k + 1] = nth[k + 1]
    OBVIOUS
  <2>1. k \in 0..MaxSize /\ nth[k + 1] = Link(f, nth[k]) /\ new[k + 1] = Link(g, new[k])
    BY <1>0, NthStep
  <2>2. new[k] = nth[k]
    BY <1>2, <2>1
  <2>3. nth[k] # FAT_EOC => g[nth[k]] = f[nth[k]]
    BY <2>1, NthOnChain
  <2> HIDE DEF nth, new
  <2> QED
    BY <2>1, <2>2, <2>3 DEF Link
<1> HIDE DEF S
<1>3. Nat \subseteq S
  BY <1>1, <1>2, Induction
<1>4. \A k \in 0..MaxSize : new[k] = nth[k]
  BY <1>3, BoundsAssumption DEF S
<1>5. new \in [0..MaxSize -> Links] /\ nth \in [0..MaxSize -> Links]
  BY <1>0, NthIsFunction
<1> HIDE DEF nth, new
<1>6. /\ new = [k \in 0..MaxSize |-> new[k]]
      /\ nth = [k \in 0..MaxSize |-> nth[k]]
      /\ [k \in 0..MaxSize |-> new[k]] = [k \in 0..MaxSize |-> nth[k]]
  BY <1>4, <1>5, Zenon
<1>7. new = nth
  BY <1>6, Zenon
<1> QED
  BY <1>7 DEF nth, new

(* In FAT g the chain from h has block c in addition, if anything.         *)
Lengthened(f, g, h, c) ==
  \A n \in 0..MaxSize :
    \/ NthBlock(g, h)[n] = NthBlock(f, h)[n]
    \/ NthBlock(f, h)[n] = FAT_EOC /\ NthBlock(g, h)[n] = c

(* A link from its last block to a free one makes a chain one block longer *)
(* and changes nothing else of it.                                         *)
LEMMA NthLonger ==
  ASSUME NEW f \in FatArray, LinksOK(f), NEW h, HeadOK(f, h), NEW g \in FatArray,
         NEW m \in Nat, m + 1 \in 0..MaxSize, NEW b \in Blocks, NthBlock(f, h)[m] = b,
         f[b] = FAT_EOC, NEW c \in Blocks \ {0}, f[c] = 0, g[b] = c, g[c] = FAT_EOC,
         \A x \in Blocks \ {b, c} : g[x] = f[x]
  PROVE  NthBlock(g, h)[m + 1] = c /\ Lengthened(f, g, h, c)
<1> DEFINE nth == NthBlock(f, h)
           new == NthBlock(g, h)
           Longer(n) == new[n] = nth[n] \/ (nth[n] = FAT_EOC /\ new[n] = c)
           S == {k \in Nat : k \in 0..MaxSize => Longer(k)}
<1>0. h \in Links
  BY DEF HeadOK
<1>1. 0 \in S
  BY <1>0, NthIsFunction
<1>2. ASSUME NEW k \in Nat, k \in S
      PROVE  k + 1 \in S
  <2> SUFFICES ASSUME k + 1 \in 0..MaxSize
               PROVE  Longer(k + 1)
    OBVIOUS
  <2>1. k \in 0..MaxSize /\ nth[k + 1] = Link(f, nth[k]) /\ new[k + 1] = Link(g, new[k])
    BY <1>0, NthStep
  <2>2. Longer(k)
    BY <1>2, <2>1
  <2>3. nth[k] # FAT_EOC => nth[k] \in Blocks /\ nth[k] # c
    BY <2>1, NthOnChain
  <2> HIDE DEF nth, new
  <2> QED
    BY <2>1, <2>2, <2>3, BlocksFacts DEF Link
<1> HIDE DEF S
<1>3. Nat \subseteq S
  BY <1>1, <1>2, Induction
<1>4. \A k \in 0..MaxSize : Longer(k)
  BY <1>3, BoundsAssumption DEF S
<1>5. new[m + 1] = c
  <2>1. m \in 0..MaxSize /\ new[m + 1] = Link(g, new[m])
    BY <1>0, NthStep
  <2>2. new[m] = b
    BY <1>4, <2>1, BlocksFacts
  <2> HIDE DEF new
  <2> QED
    BY <2>1, <2>2, BlocksFacts DEF Link
<1> QED
  BY <1>4, <1>5 DEF Lengthened

(* The first block of a file without any.                                  *)
LEMMA NthFirst ==
  ASSUME NEW f \in FatArray, NEW g \in FatArray,
         NEW c \in Blocks \ {0}, g[c] = FAT_EOC, NEW n \in 0..MaxSize
  PROVE  /\ NthBlock(f, FAT_EOC)[n] = FAT_EOC
         /\ NthBlock(g, c)[0] = c
         /\ NthBlock(g, c)[n] \in {c, FAT_EOC}
<1> DEFINE new == NthBlock(g, c)
           S == {k \in Nat : k \in 0..MaxSize => new[k] \in {c, FAT_EOC}}
<1>0. c \in Links /\ FAT_EOC \in Links /\ 0 \in 0..MaxSize /\ 0 <= n
  BY BoundsAssumption DEF Links
<1>1. new[0] = c
  BY <1>0, NthIsFunction
<1>2. NthBlock(f, FAT_EOC)[0] = FAT_EOC
  BY <1>0, NthIsFunction
<1>3. NthBlock(f, FAT_EOC)[n] = FAT_EOC
  BY <1>0, <1>2, NthEnds
<1>4. ASSUME NEW k \in Nat, k \in S
      PROVE  k + 1 \in S
  <2> SUFFICES ASSUME k + 1 \in 0..MaxSize
               PROVE  new[k + 1] \in {c, FAT_EOC}
    OBVIOUS
  <2>1. k \in 0..MaxSize /\ new[k + 1] = Link(g, new[k])
    BY <1>0, NthStep
  <2>2. new[k] \in {c, FAT_EOC}
    BY <1>4, <2>1
  <2> HIDE DEF new
  <2> QED
    BY <2>1, <2>2 DEF Link
<1>5. 0 \in S
  BY <1>1
<1> HIDE DEF S
<1>6. n \in S
  BY <1>4, <1>5, Induction
<1> QED
  BY <1>1, <1>3, <1>6 DEF S
-----------------------------------------------------------------------------
(***************************************************************************)
(* Part 2: numbers of bytes and of blocks.                                 *)
(***************************************************************************)
LEMMA DivMod ==
  ASSUME NEW k \in Nat
  PROVE  /\ k \div BLOCK_SIZE \in Nat /\ k % BLOCK_SIZE \in InBlock
         /\ k = BLOCK_SIZE * (k \div BLOCK_SIZE) + (k % BLOCK_SIZE)
         /\ k \div BLOCK_SIZE <= k
<1>1. BLOCK_SIZE \in Nat /\ BLOCK_SIZE > 0
  BY GeometryAssumption
<1>2. /\ k \div BLOCK_SIZE \in Nat /\ k % BLOCK_SIZE \in InBlock
      /\ k = BLOCK_SIZE * (k \div BLOCK_SIZE) + (k % BLOCK_SIZE)
  BY <1>1 DEF InBlock
<1>3. \A q \in Nat : q <= BLOCK_SIZE * q
  BY <1>1
<1> QED
  BY <1>1, <1>2, <1>3 DEF InBlock

LEMMA Multiples ==
  ASSUME NEW m \in Int, NEW n \in Int
  PROVE  /\ m < n => BLOCK_SIZE * m + BLOCK_SIZE <= BLOCK_SIZE * n
         /\ BLOCK_SIZE * (m + 1) = BLOCK_SIZE * m + BLOCK_SIZE
         /\ BLOCK_SIZE * m \in Int
<1>1. BLOCK_SIZE \in Nat /\ BLOCK_SIZE > 0
  BY GeometryAssumption
<1>2. ASSUME m < n
      PROVE  BLOCK_SIZE * (m + 1) <= BLOCK_SIZE * n
  BY <1>1, <1>2
<1> QED
  BY <1>1, <1>2

LEMMA DivModUnique ==
  ASSUME NEW k \in Nat, NEW q \in Int, NEW r \in InBlock, k = BLOCK_SIZE * q + r
  PROVE  k \div BLOCK_SIZE = q /\ k % BLOCK_SIZE = r
<1> DEFINE p == k \div BLOCK_SIZE
           s == k % BLOCK_SIZE
<1>1. p \in Nat /\ s \in InBlock /\ k = BLOCK_SIZE * p + s
  BY DivMod
<1>2. BLOCK_SIZE \in Nat /\ BLOCK_SIZE > 0
  BY GeometryAssumption
<1> HIDE DEF p, s
<1>3. /\ p < q => BLOCK_SIZE * p + BLOCK_SIZE <= BLOCK_SIZE * q
      /\ q < p => BLOCK_SIZE * q + BLOCK_SIZE <= BLOCK_SIZE * p
      /\ BLOCK_SIZE * p \in Int /\ BLOCK_SIZE * q \in Int
  BY <1>1, Multiples
<1>4. p = q
  BY <1>1, <1>2, <1>3 DEF InBlock
<1> QED
  BY <1>1, <1>2, <1>3, <1>4 DEF p, s, InBlock

(* Bytes of the block of byte p, and the first byte of the next one.       *)
LEMMA WithinBlock ==
  ASSUME NEW p \in Nat, NEW x \in Int, (p % BLOCK_SIZE) + x \in InBlock, p + x \in Nat
  PROVE  /\ (p + x) \div BLOCK_SIZE = p \div BLOCK_SIZE
         /\ (p + x) % BLOCK_SIZE = (p % BLOCK_SIZE) + x
<1>1. /\ p \div BLOCK_SIZE \in Nat /\ p % BLOCK_SIZE \in InBlock
      /\ p = BLOCK_SIZE * (p \div BLOCK_SIZE) + (p % BLOCK_SIZE)
  BY DivMod
<1>2. BLOCK_SIZE * (p \div BLOCK_SIZE) \in Int
  BY <1>1, Multiples
<1>3. p + x = BLOCK_SIZE * (p \div BLOCK_SIZE) + ((p % BLOCK_SIZE) + x)
  BY <1>1, <1>2 DEF InBlock
<1> QED
  BY <1>1, <1>3, DivModUnique

LEMMA NextBlock ==
  ASSUME NEW p \in Nat, NEW x \in Nat, (p % BLOCK_SIZE) + x = BLOCK_SIZE
  PROVE  /\ (p + x) \div BLOCK_SIZE = (p \div BLOCK_SIZE) + 1
         /\ (p + x) % BLOCK_SIZE = 0
<1>1. /\ p \div BLOCK_SIZE \in Nat /\ p % BLOCK_SIZE \in InBlock
      /\ p = BLOCK_SIZE * (p \div BLOCK_SIZE) + (p % BLOCK_SIZE)
  BY DivMod
<1>2. /\ BLOCK_SIZE * (p \div BLOCK_SIZE) \in Int
      /\ BLOCK_SIZE * ((p \div BLOCK_SIZE) + 1) = BLOCK_SIZE * (p \div BLOCK_SIZE) + BLOCK_SIZE
  BY <1>1, Multiples
<1>3. BLOCK_SIZE \in Nat /\ BLOCK_SIZE > 0
  BY GeometryAssumption
<1>4. p + x = BLOCK_SIZE * ((p \div BLOCK_SIZE) + 1) + 0 /\ 0 \in InBlock
  BY <1>1, <1>2, <1>3 DEF InBlock
<1>5. p + x \in Nat /\ (p \div BLOCK_SIZE) + 1 \in Int
  BY <1>1
<1> QED
  BY <1>4, <1>5, DivModUnique

LEMMA BlocksInOrder ==
  ASSUME NEW k \in Nat, NEW p \in Nat
  PROVE  /\ k <= p => k \div BLOCK_SIZE <= p \div BLOCK_SIZE
         /\ k \div BLOCK_SIZE = p \div BLOCK_SIZE => k - p = (k % BLOCK_SIZE) - (p % BLOCK_SIZE)
<1> DEFINE q == k \div BLOCK_SIZE
           n == p \div BLOCK_SIZE
<1>1. /\ q \in Nat /\ k % BLOCK_SIZE \in InBlock /\ k = BLOCK_SIZE * q + (k % BLOCK_SIZE)
      /\ n \in Nat /\ p % BLOCK_SIZE \in InBlock /\ p = BLOCK_SIZE * n + (p % BLOCK_SIZE)
  BY DivMod
<1> HIDE DEF q, n
<1>2. /\ n < q => BLOCK_SIZE * n + BLOCK_SIZE <= BLOCK_SIZE * q
      /\ BLOCK_SIZE * n \in Int /\ BLOCK_SIZE * q \in Int
  BY <1>1, Multiples
<1>3. BLOCK_SIZE \in Nat /\ BLOCK_SIZE > 0
  BY GeometryAssumption
<1>4. k <= p => q <= n
  BY <1>1, <1>2, <1>3 DEF InBlock
<1>5. q = n => k - p = (k % BLOCK_SIZE) - (p % BLOCK_SIZE)
  BY <1>1, <1>2, <1>3 DEF InBlock
<1> QED
  BY <1>4, <1>5 DEF q, n
-----------------------------------------------------------------------------
(***************************************************************************)
(* Part 3: the files in memory, by their blocks and bytes.  Byte k of a    *)
(* file, counted from 0, is where its chain has it, or a hole.             *)
(***************************************************************************)
Nth(i) == NthBlock(fat, root_dir[i].data_index)

ByteOf(nth, d, k) ==
  IF nth[k \div BLOCK_SIZE] = FAT_EOC THEN Hole
  ELSE d[nth[k \div BLOCK_SIZE]][k % BLOCK_SIZE]

ByteAt(i, k) == ByteOf(Nth(i), data, k)

(* The chains that a step leaves, but for free blocks added to that of i.  *)
Grown(i) ==
  /\ \A j \in Files(root_dir), n \in 0..MaxSize :
       \/ Nth(j)'[n] = Nth(j)[n]
       \/ j = i /\ Nth(j)[n] = FAT_EOC /\ Nth(j)'[n] \in FreeBlocks
  /\ \A b \in Blocks : fat'[b] = 0 => fat[b] = 0

LEMMA Heads ==
  ASSUME Inv
  PROVE  /\ fat \in FatArray /\ LinksOK(fat) /\ fat[0] = FAT_EOC
         /\ \A i \in Files(root_dir) : i \in Slots /\ HeadOK(fat, root_dir[i].data_index)
BY DEF Inv, Typed, TypeOK, Storage, LinksOK, HeadsOK, HeadOK, Links, RootDir, Files

LEMMA NthFacts ==
  ASSUME Inv, NEW i \in Files(root_dir)
  PROVE  /\ Nth(i) \in [0..MaxSize -> Links]
         /\ Nth(i)[0] = root_dir[i].data_index
         /\ \A n \in Nat : n + 1 \in 0..MaxSize => Nth(i)[n + 1] = Link(fat, Nth(i)[n])
         /\ \A n \in 0..MaxSize : Nth(i)[n] # FAT_EOC =>
              /\ Nth(i)[n] \in Blocks \ {0} /\ fat[Nth(i)[n]] # 0
              /\ Nth(i)[n] \in FileBlocks(fat, root_dir[i].data_index)
         /\ \A m, n \in 0..MaxSize : Nth(i)[m] = FAT_EOC /\ m <= n => Nth(i)[n] = FAT_EOC
         /\ \A m, n \in 0..MaxSize : Nth(i)[m] = Nth(i)[n] /\ Nth(i)[m] # FAT_EOC => m = n
<1>1. /\ fat \in FatArray /\ LinksOK(fat) /\ HeadOK(fat, root_dir[i].data_index)
      /\ root_dir[i].data_index \in Links
  BY Heads DEF HeadOK
<1>2. /\ Nth(i) \in [0..MaxSize -> Links]
      /\ Nth(i)[0] = root_dir[i].data_index
  BY <1>1, NthIsFunction DEF Nth
<1>3. \A n \in Nat : n + 1 \in 0..MaxSize => Nth(i)[n + 1] = Link(fat, Nth(i)[n])
  BY <1>1, NthStep DEF Nth
<1>4. \A n \in 0..MaxSize : Nth(i)[n] # FAT_EOC =>
        /\ Nth(i)[n] \in Blocks \ {0} /\ fat[Nth(i)[n]] # 0
        /\ Nth(i)[n] \in FileBlocks(fat, root_dir[i].data_index)
  BY <1>1, NthOnChain DEF Nth
<1>5. \A m, n \in 0..MaxSize : Nth(i)[m] = FAT_EOC /\ m <= n => Nth(i)[n] = FAT_EOC
  BY <1>1, NthEnds DEF Nth
<1>6. \A m, n \in 0..MaxSize : Nth(i)[m] = Nth(i)[n] /\ Nth(i)[m] # FAT_EOC => m = n
  BY <1>1, NthDistinct DEF Nth
<1> QED
  BY <1>2, <1>3, <1>4, <1>5, <1>6

(* A block is in one place of one file.                                    *)
LEMMA OnePlace ==
  ASSUME Inv, NEW i \in Files(root_dir), NEW j \in Files(root_dir),
         NEW m \in 0..MaxSize, NEW n \in 0..MaxSize,
         Nth(i)[m] = Nth(j)[n], Nth(i)[m] # FAT_EOC
  PROVE  i = j /\ m = n
<1>1. /\ Nth(i)[m] \in Blocks
      /\ Nth(i)[m] \in FileBlocks(fat, root_dir[i].data_index)
      /\ Nth(i)[m] \in FileBlocks(fat, root_dir[j].data_index)
  BY NthFacts
<1>2. WellFormed(fat, root_dir)
  BY FilesInMemory DEF Inv
<1>3. i = j
  BY <1>1, <1>2 DEF WellFormed
<1> QED
  BY <1>3, NthFacts

LEMMA SameChains ==
  ASSUME UNCHANGED fat,
         \A j \in Files(root_dir) : root_dir'[j].data_index = root_dir[j].data_index
  PROVE  /\ \A i \in Files(root_dir) : Nth(i)' = Nth(i)
         /\ \A i : Grown(i)
BY DEF Nth, Grown

(* A link to a free block from the end of chain i, in the n-th place.      *)
LEMMA LinkGrows ==
  ASSUME Inv, NEW i \in Files(root_dir), UNCHANGED root_dir,
         NEW n \in Nat, n + 1 \in 0..MaxSize, NEW b \in Blocks, Nth(i)[n] = b,
         fat[b] = FAT_EOC, NEW nxt \in FreeBlocks,
         fat' = [fat EXCEPT ![nxt] = FAT_EOC, ![b] = nxt]
  PROVE  Grown(i) /\ Nth(i)'[n + 1] = nxt
<1>1. nxt \in Blocks \ {0} /\ fat[nxt] = 0 /\ nxt # b
  BY BlocksFacts DEF FreeBlocks
<1>2. /\ fat \in FatArray /\ LinksOK(fat)
      /\ \A j \in Files(root_dir) : HeadOK(fat, root_dir[j].data_index)
  BY Heads
<1>3. /\ fat' \in FatArray /\ fat'[b] = nxt /\ fat'[nxt] = FAT_EOC
      /\ \A x \in Blocks \ {b, nxt} : fat'[x] = fat[x]
  BY <1>1, <1>2 DEF FatArray
<1>4. n \in 0..MaxSize /\ b # FAT_EOC
  BY BlocksFacts, BoundsAssumption
<1>5. /\ Nth(i)'[n + 1] = nxt
      /\ \A k \in 0..MaxSize :
           \/ Nth(i)'[k] = Nth(i)[k]
           \/ Nth(i)[k] = FAT_EOC /\ Nth(i)'[k] = nxt
  <2> DEFINE h == root_dir[i].data_index
             g == fat'
  <2>1. NthBlock(fat, h)[n] = b /\ HeadOK(fat, h)
    BY <1>2 DEF Nth
  <2>2. Nth(i) = NthBlock(fat, h) /\ Nth(i)' = NthBlock(g, h)
    BY DEF Nth
  <2>3. /\ g \in FatArray /\ g[b] = nxt /\ g[nxt] = FAT_EOC
        /\ \A x \in Blocks \ {b, nxt} : g[x] = fat[x]
    BY <1>3
  <2>4. fat \in FatArray /\ LinksOK(fat) /\ nxt \in Blocks \ {0} /\ fat[nxt] = 0
    BY <1>1, <1>2
  <2> HIDE DEF h, g
  <2>5. NthBlock(g, h)[n + 1] = nxt /\ Lengthened(fat, g, h, nxt)
    BY <2>1, <2>3, <2>4, NthLonger
  <2> QED
    BY <2>2, <2>5 DEF Lengthened
<1>6. ASSUME NEW j \in Files(root_dir), j # i
      PROVE  Nth(j)' = Nth(j)
  <2>1. b \in FileBlocks(fat, root_dir[i].data_index)
    BY <1>4, NthFacts
  <2>2. WellFormed(fat, root_dir)
    BY FilesInMemory DEF Inv
  <2>3. b \notin FileBlocks(fat, root_dir[j].data_index)
    BY <1>6, <2>1, <2>2 DEF WellFormed
  <2>4. nxt \notin FileBlocks(fat, root_dir[j].data_index)
    BY <1>1, <2>2 DEF WellFormed
  <2>5. \A x \in FileBlocks(fat, root_dir[j].data_index) : fat'[x] = fat[x]
    BY <1>3, <2>3, <2>4 DEF FileBlocks
  <2> DEFINE h == root_dir[j].data_index
             g == fat'
  <2>6. /\ fat \in FatArray /\ LinksOK(fat) /\ HeadOK(fat, h) /\ g \in FatArray
        /\ \A x \in FileBlocks(fat, h) : g[x] = fat[x]
    BY <1>2, <1>3, <2>5
  <2>7. Nth(j) = NthBlock(fat, h) /\ Nth(j)' = NthBlock(g, h)
    BY DEF Nth
  <2> HIDE DEF h, g
  <2> QED
    BY <2>6, <2>7, NthSame
<1>7. \A x \in Blocks : fat'[x] = 0 => fat[x] = 0
  BY <1>1, <1>3, BlocksFacts
<1> QED
  BY <1>5, <1>6, <1>7 DEF Grown

(* get_next_fat from the n-th block of file i: the next one, or none.      *)
LEMMA NextFatGrows ==
  ASSUME Inv, NEW i \in Files(root_dir), UNCHANGED root_dir,
         NEW n \in Nat, n + 1 \in 0..MaxSize, NEW b \in Blocks \ {0}, Nth(i)[n] = b,
         NEW nxt \in Blocks \union {NoBlock}, get_next_fat(b, nxt)
  PROVE  /\ Grown(i)
         /\ nxt # NoBlock => nxt \in Blocks \ {0} /\ Nth(i)'[n + 1] = nxt
         /\ nxt = NoBlock => Nth(i)'[n + 1] = FAT_EOC
<1>0. fat \in FatArray /\ fat' \in FatArray
  BY Heads, NextFatTyped
<1>1. n \in 0..MaxSize /\ b # FAT_EOC /\ Nth(i)[n + 1] = Link(fat, b) /\ fat[b] # 0
  <2>1. n \in 0..MaxSize
    BY BoundsAssumption
  <2>2. b # FAT_EOC
    BY BlocksFacts
  <2>3. Nth(i)[n + 1] = Link(fat, b)
    BY <2>1, NthFacts
  <2>4. fat[b] # 0
    BY <2>1, <2>2, NthFacts
  <2> QED
    BY <2>1, <2>2, <2>3, <2>4
<1>2. fat' = fat => Grown(i) /\ Nth(i)' = Nth(i)
  BY SameChains
<1>3. CASE fat[b] # FAT_EOC /\ nxt = fat[b] /\ fat' = fat
  BY <1>0, <1>1, <1>2, <1>3, BlocksFacts DEF Link, FatArray
<1>4. CASE /\ fat[b] = FAT_EOC /\ nxt \in FreeBlocks
           /\ fat' = [fat EXCEPT ![nxt] = FAT_EOC, ![b] = nxt]
  BY <1>4, LinkGrows, BlocksFacts DEF FreeBlocks
<1>5. CASE fat[b] = FAT_EOC /\ nxt = NoBlock /\ fat' = fat
  BY <1>1, <1>2, <1>5 DEF Link
<1> QED
  BY <1>0, <1>3, <1>4, <1>5, NextFatCases, BlocksFacts

(* The entry to a call: to the first block of file i, or to none.          *)
LEMMA EnterGrows ==
  ASSUME Inv, NEW op \in {"read", "write"}, NEW fd \in Fds, NEW left \in Int,
         Enter(op, fd, left), NEW i \in Files(root_dir),
         i = open_files[fd].index_in_rootdir
  PROVE  /\ Grown(i)
         /\ \A j \in Files(root_dir) \ {i} : root_dir'[j] = root_dir[j]
         /\ \/ /\ left <= 0
               /\ call' = Frame(op, fd, 0, NoBlock, 0)
            \/ /\ left > 0
               /\ \E b \in Blocks \ {0} :
                    /\ Nth(i)'[0] = b
                    /\ call' = Frame(op, fd, left, b, open_files[fd].offset \div BLOCK_SIZE)
            \/ /\ left > 0
               /\ \A n \in 0..MaxSize : Nth(i)'[n] = FAT_EOC
               /\ call' = Frame(op, fd, left, NoBlock, 0)
<1> DEFINE head == root_dir[i].data_index
           hops == num_fat_blocks_to_traverse(open_files[fd].offset) - 1
<1>0. /\ fat \in FatArray /\ root_dir \in RootDir /\ i \in Slots /\ HeadOK(fat, head)
      /\ Nth(i)[0] = head
      /\ 0 \in 0..MaxSize
  BY Heads, NthFacts, BoundsAssumption DEF Inv, Typed, TypeOK
<1>1. hops = open_files[fd].offset \div BLOCK_SIZE
  <2>1. open_files[fd].offset \in Nat
    BY DEF Inv, Typed, TypeOK
  <2>2. open_files[fd].offset \div BLOCK_SIZE \in Nat
    BY <2>1, DivMod
  <2> QED
    BY <2>2 DEF num_fat_blocks_to_traverse
<1>2. UNCHANGED <<fat, root_dir>> => Grown(i) /\ Nth(i)' = Nth(i)
  BY SameChains
<1>3. CASE left <= 0 /\ call' = Frame(op, fd, 0, NoBlock, 0) /\ UNCHANGED <<fat, root_dir>>
  BY <1>2, <1>3
<1>4. CASE /\ left > 0 /\ head # FAT_EOC
           /\ call' = Frame(op, fd, left, head, hops) /\ UNCHANGED <<fat, root_dir>>
  <2>1. head \in Blocks \ {0}
    BY <1>0, <1>4 DEF HeadOK, Links
  <2> HIDE DEF head, hops
  <2> QED
    BY <1>0, <1>1, <1>2, <1>4, <2>1
<1>5. ASSUME left > 0, head = FAT_EOC, NEW b \in FreeBlocks,
             fat' = [fat EXCEPT ![b] = FAT_EOC],
             root_dir' = [root_dir EXCEPT ![i].data_index = b],
             call' = Frame(op, fd, left, b, hops)
      PROVE  /\ Grown(i) /\ Nth(i)'[0] = b /\ b \in Blocks \ {0}
             /\ \A j \in Files(root_dir) \ {i} : root_dir'[j] = root_dir[j]
  <2>1. b \in Blocks \ {0} /\ fat[b] = 0
    BY <1>5 DEF FreeBlocks
  <2>2. /\ fat' \in FatArray /\ fat'[b] = FAT_EOC
        /\ \A x \in Blocks \ {b} : fat'[x] = fat[x]
    BY <1>0, <1>5, <2>1 DEF FatArray
  <2>3. /\ root_dir'[i].data_index = b
        /\ \A j \in Files(root_dir) \ {i} : root_dir'[j] = root_dir[j]
    BY <1>0, <1>5 DEF RootDir, Files
  <2>4. \A n \in 0..MaxSize : Nth(i)[n] = FAT_EOC /\ Nth(i)'[n] \in {b, FAT_EOC} /\ Nth(i)'[0] = b
    <3>1. Nth(i) = NthBlock(fat, FAT_EOC) /\ Nth(i)' = NthBlock(fat', b)
      BY <1>5, <2>3 DEF Nth
    <3> QED
      BY <1>0, <2>1, <2>2, <3>1, NthFirst
  <2>5. ASSUME NEW j \in Files(root_dir), j # i
        PROVE  Nth(j)' = Nth(j)
    <3>1. root_dir'[j] = root_dir[j]
      BY <2>3, <2>5
    <3>2. WellFormed(fat, root_dir)
      BY FilesInMemory DEF Inv
    <3>3. b \notin FileBlocks(fat, root_dir[j].data_index)
      BY <2>1, <3>2 DEF WellFormed
    <3>4. \A x \in FileBlocks(fat, root_dir[j].data_index) : fat'[x] = fat[x]
      BY <2>2, <3>3 DEF FileBlocks
    <3>5. fat \in FatArray /\ LinksOK(fat) /\ HeadOK(fat, root_dir[j].data_index)
      BY Heads
    <3> DEFINE h == root_dir[j].data_index
               g == fat'
    <3>6. /\ g \in FatArray /\ fat \in FatArray /\ LinksOK(fat) /\ HeadOK(fat, h)
          /\ \A x \in FileBlocks(fat, h) : g[x] = fat[x]
      BY <2>2, <3>4, <3>5
    <3>7. Nth(j) = NthBlock(fat, h) /\ Nth(j)' = NthBlock(g, h)
      BY <3>1 DEF Nth
    <3> HIDE DEF h, g
    <3> QED
      BY <3>6, <3>7, NthSame
  <2>6. \A x \in Blocks : fat'[x] = 0 => fat[x] = 0
    BY <2>1, <2>2, BlocksFacts
  <2> HIDE DEF head, hops
  <2>7. \A n \in 0..MaxSize : Nth(i)'[n] = Nth(i)[n] \/ (Nth(i)[n] = FAT_EOC /\ Nth(i)'[n] \in FreeBlocks)
    BY <2>4, <1>5
  <2> QED
    BY <1>0, <2>1, <2>3, <2>4, <2>5, <2>6, <2>7 DEF Grown
<1>6. CASE /\ left > 0 /\ head = FAT_EOC
           /\ call' = Frame(op, fd, left, NoBlock, 0) /\ UNCHANGED <<fat, root_dir>>
  <2>1. \A n \in 0..MaxSize : Nth(i)[n] = FAT_EOC
    BY <1>0, <1>6, NthFacts
  <2> QED
    BY <1>2, <1>6, <2>1
<1>7. \/ left <= 0 /\ call' = Frame(op, fd, 0, NoBlock, 0) /\ UNCHANGED <<fat, root_dir>>
      \/ /\ left > 0 /\ head # FAT_EOC
         /\ call' = Frame(op, fd, left, head, hops) /\ UNCHANGED <<fat, root_dir>>
      \/ /\ left > 0 /\ head = FAT_EOC
         /\ \E b \in FreeBlocks :
              /\ fat' = [fat EXCEPT ![b] = FAT_EOC]
              /\ root_dir' = [root_dir EXCEPT ![i].data_index = b]
              /\ call' = Frame(op, fd, left, b, hops)
      \/ /\ left > 0 /\ head = FAT_EOC
         /\ call' = Frame(op, fd, left, NoBlock, 0) /\ UNCHANGED <<fat, root_dir>>
  BY DEF Enter, allocate_new_fat, IsFirst
<1> HIDE DEF head, hops
<1> QED
  BY <1>1, <1>3, <1>4, <1>5, <1>6, <1>7

(* Blocks that chains take from the free ones are blank, so that the bytes *)
(* of the files stay, and holes of file i are filled with zeros.           *)
Filled(old, new) ==
  \/ new = old
  \/ old = Hole /\ new = 0

LEMMA GrownBytes ==
  ASSUME Inv, NEW i \in Files(root_dir), Grown(i), NEW d,
         \A b \in FreeBlocks, r \in InBlock : d[b][r] = 0,
         NEW k \in 0..MaxSize
  PROVE  /\ \A j \in Files(root_dir) : j # i => ByteOf(Nth(j)', d, k) = ByteOf(Nth(j), d, k)
         /\ \/ ByteOf(Nth(i)', d, k) = ByteOf(Nth(i), d, k)
            \/ /\ Nth(i)[k \div BLOCK_SIZE] = FAT_EOC
               /\ ByteOf(Nth(i), d, k) = Hole /\ ByteOf(Nth(i)', d, k) = 0
<1>1. k \div BLOCK_SIZE \in 0..MaxSize /\ k % BLOCK_SIZE \in InBlock
  BY DivMod, BoundsAssumption
<1>2. \A b \in FreeBlocks : b # FAT_EOC
  BY BlocksFacts DEF FreeBlocks
<1> QED
  BY <1>1, <1>2 DEF Grown, ByteOf

(* A write to the n-th block of file i changes the bytes in it and no      *)
(* others; a write to block 0 changes no byte of a file.                   *)
LEMMA WrittenBytes ==
  ASSUME Inv, NEW b \in Blocks, NEW d,
         \A x \in Blocks \ {b} : d[x] = data[x],
         NEW j \in Files(root_dir), NEW k \in 0..MaxSize,
         \/ b = 0
         \/ \E i \in Files(root_dir), n \in 0..MaxSize :
              Nth(i)[n] = b /\ (j # i \/ k \div BLOCK_SIZE # n)
  PROVE  ByteOf(Nth(j), d, k) = ByteAt(j, k)
<1>1. k \div BLOCK_SIZE \in 0..MaxSize
  BY DivMod, BoundsAssumption
<1> DEFINE m == k \div BLOCK_SIZE
<1>2. Nth(j)[m] # FAT_EOC => Nth(j)[m] \in Blocks \ {0}
  BY <1>1, NthFacts
<1>3. Nth(j)[m] # FAT_EOC => Nth(j)[m] # b
  <2>1. CASE b = 0
    BY <1>2, <2>1
  <2>2. ASSUME NEW i \in Files(root_dir), NEW n \in 0..MaxSize,
               Nth(i)[n] = b, j # i \/ m # n
        PROVE  Nth(j)[m] # FAT_EOC => Nth(j)[m] # b
    <3> HIDE DEF m
    <3> QED
      BY <1>1, <2>2, OnePlace DEF m
  <2> HIDE DEF m
  <2> QED
    BY <2>1, <2>2 DEF m
<1> QED
  BY <1>2, <1>3 DEF ByteAt, ByteOf
-----------------------------------------------------------------------------
(***************************************************************************)
(* Part 4: the invariant.  While a call is in progress the client has not  *)
(* seen what it has done so far; `seen' is what was there before.          *)
(***************************************************************************)
entry    == open_files[call.fd].index_in_rootdir
start    == open_files[call.fd].offset
position == start + call.done

(* The number, in its file, of the block in hand.                          *)
index == IF call.pc = "hop" THEN (start \div BLOCK_SIZE) - call.hops
         ELSE position \div BLOCK_SIZE

(* What call.block says of the n-th block of file i.  On a full disk the   *)
(* loop of get_block_of_offset goes on from -1 to block 0, which is in the *)
(* place of a block that does not exist and has none before it either.     *)
InPlace(i, n, b) ==
  IF b = NoBlock THEN Nth(i)[n] = FAT_EOC
  ELSE IF b = 0 THEN n > 0 /\ Nth(i)[n - 1] = FAT_EOC
  ELSE Nth(i)[n] = b

Searching == call.pc \in {"hop", "block"} \/ (call.pc = "return" /\ call.left > 0)

Located ==
  Searching =>
    /\ call.left > 0
    /\ index \in 0..MaxSize /\ InPlace(entry, index, call.block)
    /\ call.pc = "hop" => call.done = 0
    /\ call.pc = "return" => call.block \in {NoBlock, FAT_EOC}
    /\ call.block = 0 => call.done = 0
    /\ call.done # 0 => position % BLOCK_SIZE = 0

Bounded ==
  /\ \A i \in Files(root_dir) : root_dir[i].size <= MaxSize
  /\ call # Idle => position + call.left <= MaxSize

DataOK == data \in [Blocks -> Block] /\ host \in {"reliable", "failing"} /\ buf \in Seq(Bytes)

(* No block is used twice, so the free ones are as fs_make.x left them.    *)
FreshZero == \A b \in Blocks \ {0} : fat[b] = 0 => \A r \in InBlock : data[b][r] = 0

(* The end of file i, with what the call in progress has written.          *)
EndOf(i) ==
  IF call.op = "write" /\ i = entry /\ position > root_dir[i].size
  THEN position ELSE root_dir[i].size

(* No byte behind the end of a file has ever been written.                 *)
Tails ==
  host = "reliable" =>
    \A i \in Files(root_dir), k \in 0..(MaxSize - 1) : EndOf(i) <= k => ByteAt(i, k) \in {0, Hole}

Before == seen[root_dir[entry].filename]

FileNames == {root_dir[i].filename : i \in Files(root_dir)}

Seen ==
  /\ call = Idle => seen = Contents
  /\ call # Idle =>
       /\ DOMAIN seen = FileNames
       /\ \A i \in Files(root_dir) :
            i # entry => seen[root_dir[i].filename] = ContentOf(fat, root_dir[i])
       /\ Before \in Seq(Bytes \union {Hole}) /\ Len(Before) = root_dir[entry].size

(* The relations of ByteStore, for byte k of a file: it was s[k] and is v; *)
(* h is the host.                                                          *)
KeptByte(s, k, v) == v = s[k] \/ (s[k] = Hole /\ v = 0)

StoredByte(s, k, v, offset, w, n) ==
  IF k \in (offset + 1)..(offset + n)
  THEN v = w[k - offset] \/ (v = Hole /\ Store!HoleBefore(s, offset))
  ELSE KeptByte(s, k, v)

SpoiledByte(s, k, v, offset, n) ==
  (\A j \in (offset + 1)..(offset + n) : Store!BlockOf(j) # Store!BlockOf(k)) => KeptByte(s, k, v)

WrittenByte(h, s, k, v, offset, w, n) ==
  IF h = "reliable" THEN StoredByte(s, k, v, offset, w, n) ELSE SpoiledByte(s, k, v, offset, n)

ReadByte(h, s, k, v, offset) ==
  h = "reliable" =>
    \/ s[offset + k] = v
    \/ s[offset + k] = Hole /\ (v = 0 \/ Store!HoleBefore(s, offset))

ReadSoFar ==
  call.op = "read" =>
    /\ \A k \in 1..root_dir[entry].size : KeptByte(Before, k, ByteAt(entry, k - 1))
    /\ Len(buf) = call.done
    /\ \A k \in 1..call.done : ReadByte(host, Before, k, buf[k], start)
    /\ \E count \in Counts : call.done + call.left = MinOf(count, root_dir[entry].size - start)

WrittenSoFar ==
  call.op = "write" =>
    /\ buf \in Buffers /\ call.done + call.left <= Len(buf)
    /\ \A k \in 1..EndOf(entry) :
         WrittenByte(host, Before, k, ByteAt(entry, k - 1), start, buf, call.done)

DataInv ==
  /\ Located /\ Bounded /\ DataOK /\ FreshZero /\ Tails /\ Seen
  /\ ReadSoFar /\ WrittenSoFar

LEMMA HoleFacts == Hole # 0 /\ Hole \notin Bytes /\ 0 \in Bytes
<1>1. 0 \in Bytes /\ Hole \notin Bytes
  BY BytesAssumption, Zenon
<1> QED
  BY <1>1

LEMMA KeptFilled ==
  ASSUME NEW s, NEW k, NEW old, KeptByte(s, k, old), NEW new, Filled(old, new)
  PROVE  KeptByte(s, k, new)
BY HoleFacts DEF KeptByte, Filled

LEMMA Calling ==
  ASSUME Inv, Seeking, Bounded, call # Idle
  PROVE  /\ call \in Frames /\ call.fd \in Fds /\ IsOpen(call.fd) /\ call.pc # "idle"
         /\ entry \in Files(root_dir) /\ entry \in Slots
         /\ start \in Nat /\ position \in Nat /\ position = start + call.done
         /\ call.done \in Nat /\ call.left \in Nat /\ call.hops \in Nat
         /\ call.op \in {"read", "write"}
         /\ call.block \in Blocks \union {NoBlock, FAT_EOC}
         /\ root_dir[entry].size \in Nat /\ root_dir[entry].size <= MaxSize
         /\ start <= root_dir[entry].size /\ position + call.left <= MaxSize
         /\ call.op = "read" => position + call.left <= root_dir[entry].size
         /\ MaxSize \in Nat
<1>1. /\ root_dir \in RootDir /\ call \in Frames /\ CallOK /\ OpenFilesExist
      /\ open_files \in [Fds -> [empty : BOOLEAN, index_in_rootdir : Slots, offset : Nat]]
  BY DEF Inv, Typed, TypeOK, Directory
<1>2. call.fd \in Fds /\ IsOpen(call.fd) /\ call.pc # "idle"
  BY <1>1 DEF Frames, CallOK
<1>3. entry \in Files(root_dir) /\ entry \in Slots /\ start \in Nat
  BY <1>1, <1>2 DEF OpenFilesExist, entry, start
<1>4. /\ call.done \in Nat /\ call.left \in Nat /\ call.hops \in Nat
      /\ call.op \in {"read", "write"}
      /\ call.block \in Blocks \union {NoBlock, FAT_EOC}
  BY <1>1 DEF Frames, CallOK
<1>5. root_dir[entry].size \in Nat
  BY <1>1, <1>3 DEF RootDir
<1>6. start <= root_dir[entry].size
  BY <1>2 DEF Seeking, OffsetsInFile, fs_stat, entry, start
<1>7. call.op = "read" => position + call.left <= root_dir[entry].size
  BY DEF Seeking, fs_stat, entry, start, position
<1> QED
  BY <1>1, <1>2, <1>3, <1>4, <1>5, <1>6, <1>7, BoundsAssumption DEF Bounded, position

LEMMA ContentIs ==
  ASSUME NEW i
  PROVE  /\ ContentOf(fat, root_dir[i]) = [k \in 1..root_dir[i].size |-> ByteAt(i, k - 1)]
         /\ ContentOf(fat, root_dir[i])' = [k \in 1..root_dir'[i].size |-> ByteAt(i, k - 1)']
BY DEF ContentOf, ByteAt, ByteOf, Nth

LEMMA ByteType ==
  ASSUME Inv, DataOK, NEW i \in Files(root_dir), NEW k \in 0..MaxSize
  PROVE  ByteAt(i, k) \in Bytes \union {Hole}
<1>1. k \div BLOCK_SIZE \in 0..MaxSize /\ k % BLOCK_SIZE \in InBlock
  BY DivMod, BoundsAssumption
<1>2. Nth(i)[k \div BLOCK_SIZE] # FAT_EOC => Nth(i)[k \div BLOCK_SIZE] \in Blocks
  BY <1>1, NthFacts
<1> QED
  BY <1>1, <1>2 DEF ByteAt, ByteOf, DataOK, Block

(* A function on 1..n as a sequence.                                       *)
LEMMA AsSequence ==
  ASSUME NEW S, NEW n \in Nat, NEW f \in [1..n -> S]
  PROVE  f \in Seq(S) /\ Len(f) = n
<1>1. f \in Seq(S)
  BY SeqDef
<1>2. Len(f) \in Nat /\ DOMAIN f = 1..Len(f) /\ DOMAIN f = 1..n
  BY <1>1, LenProperties
<1> QED
  BY <1>1, <1>2

(* A file that is not in a call has the bytes that the client has seen.    *)
LEMMA ContentsSeen ==
  ASSUME Inv, Bounded, DataOK, call = Idle, seen = Contents
  PROVE  /\ DOMAIN seen = FileNames
         /\ \A i \in Files(root_dir) :
              /\ seen[root_dir[i].filename] = ContentOf(fat, root_dir[i])
              /\ seen[root_dir[i].filename] \in Seq(Bytes \union {Hole})
              /\ Len(seen[root_dir[i].filename]) = root_dir[i].size
<1>1. DOMAIN seen = FileNames
  BY DEF Contents, FileNames
<1>2. ASSUME NEW i \in Files(root_dir)
      PROVE  /\ seen[root_dir[i].filename] = ContentOf(fat, root_dir[i])
             /\ seen[root_dir[i].filename] \in Seq(Bytes \union {Hole})
             /\ Len(seen[root_dir[i].filename]) = root_dir[i].size
  <2> DEFINE name == root_dir[i].filename
             j == CHOOSE j \in Files(root_dir) : root_dir[j].filename = name
  <2>1. j \in Files(root_dir) /\ root_dir[j].filename = name
    BY <1>2
  <2>2. j = i
    BY <2>1 DEF Inv, Directory, UniqueNames
  <2>3. seen[name] = ContentOf(fat, root_dir[j])
    BY <1>2 DEF Contents
  <2>4. root_dir[i].size \in 0..MaxSize /\ i \in Slots
    BY DEF Bounded, Inv, Typed, TypeOK, RootDir, Files
  <2>5. \A k \in 1..root_dir[i].size : ByteAt(i, k - 1) \in Bytes \union {Hole}
    <3> SUFFICES ASSUME NEW k \in 1..root_dir[i].size
                 PROVE  ByteAt(i, k - 1) \in Bytes \union {Hole}
      OBVIOUS
    <3>1. k - 1 \in 0..MaxSize
      BY <2>4, BoundsAssumption
    <3> QED
      BY <3>1, ByteType
  <2>6. ContentOf(fat, root_dir[i]) \in [1..root_dir[i].size -> Bytes \union {Hole}]
    BY <2>5, ContentIs
  <2>7. root_dir[i].size \in Nat
    BY <2>4, BoundsAssumption
  <2> HIDE DEF j, name
  <2>8. seen[name] = ContentOf(fat, root_dir[i])
    BY <2>2, <2>3
  <2> QED
    BY <2>6, <2>7, <2>8, AsSequence DEF name
<1> QED
  BY <1>1, <1>2
-----------------------------------------------------------------------------
(***************************************************************************)
(* Part 5: what the steps of a call on the file of entry i have in common. *)
(***************************************************************************)
StepOn(i) ==
  /\ Grown(i)
  /\ Files(root_dir)' = Files(root_dir)
  /\ \A j \in Files(root_dir) :
       /\ root_dir'[j].filename = root_dir[j].filename
       /\ root_dir'[j].size = root_dir[j].size
  /\ UNCHANGED <<seen, host>>
  /\ call' # Idle /\ entry' = i
  /\ call # Idle => entry = i
  /\ \A b \in FreeBlocks : data'[b] = data[b]
  /\ \A j \in Files(root_dir), k \in 0..MaxSize :
       j # i => ByteOf(Nth(j), data', k) = ByteAt(j, k)

(* The bytes of files after the step.                                      *)
LEMMA StepBytes ==
  ASSUME Inv, FreshZero, NEW i \in Files(root_dir), StepOn(i), NEW k \in 0..MaxSize
  PROVE  /\ \A j \in Files(root_dir) : j # i => ByteAt(j, k)' = ByteAt(j, k)
         /\ Filled(ByteOf(Nth(i), data', k), ByteAt(i, k)')
         /\ Nth(i)[k \div BLOCK_SIZE] # FAT_EOC => ByteAt(i, k)' = ByteOf(Nth(i), data', k)
<1>1. \A b \in FreeBlocks, r \in InBlock : data'[b][r] = 0
  BY DEF FreshZero, StepOn, FreeBlocks
<1> DEFINE d == data'
<1>2. \A b \in FreeBlocks, r \in InBlock : d[b][r] = 0
  BY <1>1
<1>3. Grown(i)
  BY DEF StepOn
<1> HIDE DEF d
<1>4. /\ \A j \in Files(root_dir) : j # i => ByteOf(Nth(j)', d, k) = ByteOf(Nth(j), d, k)
      /\ \/ ByteOf(Nth(i)', d, k) = ByteOf(Nth(i), d, k)
         \/ /\ Nth(i)[k \div BLOCK_SIZE] = FAT_EOC
            /\ ByteOf(Nth(i), d, k) = Hole /\ ByteOf(Nth(i)', d, k) = 0
  BY <1>2, <1>3, GrownBytes
<1>5. \A j : ByteAt(j, k)' = ByteOf(Nth(j)', d, k)
  BY DEF ByteAt, d
<1>6. \A j \in Files(root_dir) : j # i => ByteOf(Nth(j), d, k) = ByteAt(j, k)
  BY DEF StepOn, d
<1>7. Filled(ByteOf(Nth(i), d, k), ByteAt(i, k)')
  BY <1>4, <1>5 DEF Filled
<1> QED
  BY <1>4, <1>5, <1>6, <1>7 DEF d

LEMMA StepFresh ==
  ASSUME FreshZero, NEW i, StepOn(i)
  PROVE  FreshZero'
BY DEF FreshZero, StepOn, Grown, FreeBlocks

(* What the client had seen of the files, and what it has seen after it.   *)
LEMMA StepSeen ==
  ASSUME Inv, DataInv, NEW i \in Files(root_dir), StepOn(i)
  PROVE  /\ Seen'
         /\ Before' = seen[root_dir[i].filename]
         /\ call # Idle => Before' = Before
         /\ call = Idle => Before' = ContentOf(fat, root_dir[i])
<1> DEFINE name == root_dir[i].filename
<1>1. /\ DOMAIN seen = FileNames
      /\ \A j \in Files(root_dir) : j # i => seen[root_dir[j].filename] = ContentOf(fat, root_dir[j])
      /\ seen[name] \in Seq(Bytes \union {Hole}) /\ Len(seen[name]) = root_dir[i].size
      /\ call = Idle => seen[name] = ContentOf(fat, root_dir[i])
  <2>1. CASE call = Idle
    BY <2>1, ContentsSeen DEF DataInv, Seen
  <2>2. CASE call # Idle
    BY <2>2 DEF DataInv, Seen, Before, StepOn
  <2> QED
    BY <2>1, <2>2
<1>2. /\ Files(root_dir)' = Files(root_dir) /\ seen' = seen /\ call' # Idle /\ entry' = i
      /\ \A j \in Files(root_dir) :
           root_dir'[j].filename = root_dir[j].filename /\ root_dir'[j].size = root_dir[j].size
  BY DEF StepOn
<1>3. Before' = seen[name]
  BY <1>2 DEF Before
<1>4. FileNames' = FileNames
  BY <1>2 DEF FileNames
<1>5. \A j \in Files(root_dir) : j # i =>
        seen[root_dir'[j].filename] = ContentOf(fat, root_dir[j])'
  <2> SUFFICES ASSUME NEW j \in Files(root_dir), j # i
               PROVE  ContentOf(fat, root_dir[j])' = ContentOf(fat, root_dir[j])
    BY <1>1, <1>2
  <2>1. root_dir[j].size \in 0..MaxSize
    BY DEF DataInv, Bounded, Inv, Typed, TypeOK, RootDir, Files
  <2>2. \A k \in 1..root_dir[j].size : ByteAt(j, k - 1)' = ByteAt(j, k - 1)
    <3> SUFFICES ASSUME NEW k \in 1..root_dir[j].size
                 PROVE  ByteAt(j, k - 1)' = ByteAt(j, k - 1)
      OBVIOUS
    <3>1. k - 1 \in 0..MaxSize
      BY <2>1, BoundsAssumption
    <3> QED
      BY <3>1, StepBytes DEF DataInv
  <2>3. /\ ContentOf(fat, root_dir[j]) = [k \in 1..root_dir[j].size |-> ByteAt(j, k - 1)]
        /\ ContentOf(fat, root_dir[j])' = [k \in 1..root_dir'[j].size |-> ByteAt(j, k - 1)']
    BY ContentIs
  <2>4. root_dir'[j].size = root_dir[j].size
    BY <1>2
  <2>5. [k \in 1..root_dir[j].size |-> ByteAt(j, k - 1)']
          = [k \in 1..root_dir[j].size |-> ByteAt(j, k - 1)]
    BY <2>2, Zenon
  <2> QED
    BY <2>3, <2>4, <2>5, Zenon
<1>6. call # Idle => Before' = Before
  BY <1>3 DEF StepOn, Before
<1> QED
  BY <1>1, <1>2, <1>3, <1>4, <1>5, <1>6 DEF Seen
-----------------------------------------------------------------------------
(***************************************************************************)
(* Part 6: the invariant holds at the start and at the entry to a call.    *)
(***************************************************************************)
LEMMA EndFacts ==
  ASSUME Inv, Seeking, Bounded, NEW i \in Files(root_dir)
  PROVE  /\ EndOf(i) \in Nat /\ EndOf(i) <= MaxSize /\ root_dir[i].size <= EndOf(i)
         /\ root_dir[i].size \in Nat
         /\ call.op # "write" => EndOf(i) = root_dir[i].size
         /\ call # Idle => position <= EndOf(entry) \/ call.op # "write"
<1>1. root_dir[i].size \in Nat /\ root_dir[i].size <= MaxSize /\ i \in Slots
  BY DEF Bounded, Inv, Typed, TypeOK, RootDir, Files
<1>2. CASE call = Idle
  BY <1>1, <1>2 DEF EndOf, Idle
<1>3. CASE call # Idle
  BY <1>1, <1>3, Calling DEF EndOf
<1> QED
  BY <1>2, <1>3

LEMMA StepTails ==
  ASSUME Inv, Seeking, DataInv, NEW i \in Files(root_dir), StepOn(i),
         \A j \in Files(root_dir) : EndOf(j)' \in Nat /\ EndOf(j) <= EndOf(j)',
         host = "reliable" =>
           \A k \in 0..(MaxSize - 1) : EndOf(i)' <= k => ByteOf(Nth(i), data', k) = ByteAt(i, k)
  PROVE  Tails'
<1> SUFFICES ASSUME host = "reliable", NEW j \in Files(root_dir), NEW k \in 0..(MaxSize - 1),
                    EndOf(j)' <= k
             PROVE  ByteAt(j, k)' \in {0, Hole}
  BY DEF Tails, StepOn
<1>1. EndOf(j) \in Nat /\ EndOf(j) <= k
  BY EndFacts DEF DataInv
<1>2. ByteAt(j, k) \in {0, Hole}
  BY <1>1 DEF DataInv, Tails
<1>3. k \in 0..MaxSize
  BY BoundsAssumption
<1>4. CASE j # i
  BY <1>2, <1>3, <1>4, StepBytes DEF DataInv
<1>5. CASE j = i
  <2>1. ByteOf(Nth(i), data', k) = ByteAt(i, k)
    BY <1>5
  <2>2. Filled(ByteOf(Nth(i), data', k), ByteAt(i, k)')
    BY <1>3, StepBytes DEF DataInv
  <2> QED
    BY <1>2, <1>5, <2>1, <2>2 DEF Filled
<1> QED
  BY <1>4, <1>5

(* With no bytes written yet every byte is as it was.                      *)
LEMMA NothingWritten ==
  ASSUME NEW h, NEW s, NEW k \in Int, NEW v, NEW offset \in Nat, NEW w
  PROVE  WrittenByte(h, s, k, v, offset, w, 0) <=> KeptByte(s, k, v)
<1>1. k \notin (offset + 1)..(offset + 0) /\ (offset + 1)..(offset + 0) = {}
  OBVIOUS
<1> QED
  BY <1>1 DEF WrittenByte, StoredByte, SpoiledByte

(* Between the entry and the first byte, no byte of the file changes.      *)
LEMMA StepKept ==
  ASSUME Inv, Seeking, DataInv, NEW i \in Files(root_dir), StepOn(i), UNCHANGED data,
         \/ call = Idle
         \/ call.done = 0
         \/ call.op = "read",
         NEW k \in 1..root_dir[i].size
  PROVE  KeptByte(Before', k, ByteAt(i, k - 1)')
<1>1. root_dir[i].size \in 0..MaxSize
  BY DEF DataInv, Bounded, Inv, Typed, TypeOK, RootDir, Files
<1>2. k - 1 \in 0..MaxSize /\ k \in Nat
  BY <1>1, BoundsAssumption
<1>3. ByteOf(Nth(i), data', k - 1) = ByteAt(i, k - 1)
  BY DEF ByteAt
<1>4. Filled(ByteAt(i, k - 1), ByteAt(i, k - 1)')
  <2>1. Filled(ByteOf(Nth(i), data', k - 1), ByteAt(i, k - 1)')
    BY <1>2, StepBytes DEF DataInv
  <2> QED
    BY <1>3, <2>1
<1>5. KeptByte(Before', k, ByteAt(i, k - 1))
  <2>1. CASE call = Idle
    <3>1. ContentOf(fat, root_dir[i])[k] = ByteAt(i, k - 1)
      BY ContentIs
    <3>2. Before' = ContentOf(fat, root_dir[i])
      BY <2>1, StepSeen
    <3> QED
      BY <3>1, <3>2 DEF KeptByte
  <2>2. CASE call # Idle
    <3>1. Before' = Before /\ entry = i
      BY <2>2, StepSeen DEF StepOn
    <3>2. call.op \in {"read", "write"} /\ start \in Nat
      BY <2>2, Calling DEF DataInv
    <3>3. CASE call.op = "read"
      BY <3>1, <3>3 DEF DataInv, ReadSoFar
    <3>4. CASE call.op = "write" /\ call.done = 0
      <4>1. k \in 1..EndOf(i)
        BY <1>1, EndFacts DEF DataInv
      <4>2. WrittenByte(host, Before, k, ByteAt(i, k - 1), start, buf, 0)
        BY <3>1, <3>4, <4>1 DEF DataInv, WrittenSoFar
      <4> QED
        BY <3>1, <3>2, <4>2, NothingWritten
    <3> QED
      BY <2>2, <3>2, <3>3, <3>4
  <2> QED
    BY <2>1, <2>2
<1> HIDE DEF Before
<1> QED
  BY <1>4, <1>5, KeptFilled

(* What is said of the file of a call, when that file is that of entry i.  *)
LEMMA EntryIs ==
  ASSUME NEW i, entry' = i, NEW k
  PROVE  ByteAt(entry, k)' = ByteAt(i, k)' /\ EndOf(entry)' = EndOf(i)'
<1>1. EndOf(entry)' = EndOf(i)'
  BY DEF EndOf
<1>2. Nth(entry)' = Nth(i)'
  BY DEF Nth
<1> QED
  BY <1>1, <1>2 DEF ByteAt

LEMMA PlaceIs ==
  ASSUME NEW i, entry' = i, NEW n, index' = n, NEW b, call'.block = b,
         IF b = NoBlock THEN Nth(i)'[n] = FAT_EOC
         ELSE IF b = 0 THEN n > 0 /\ Nth(i)'[n - 1] = FAT_EOC
         ELSE Nth(i)'[n] = b
  PROVE  InPlace(entry, index, call.block)'
<1>1. Nth(entry)' = Nth(i)'
  BY DEF Nth
<1> QED
  BY <1>1 DEF InPlace

(* The entry to fs_read or fs_write: what the call has in hand.            *)
LEMMA EnterPlaced ==
  ASSUME Inv, Seeking, Bounded, NEW op \in {"read", "write"}, NEW fd \in Fds,
         IsOpen(fd), NEW left \in Nat, Enter(op, fd, left),
         NEW i \in Files(root_dir), i = open_files[fd].index_in_rootdir,
         NEW offset \in Nat, offset = open_files[fd].offset, offset + left <= MaxSize,
         UNCHANGED open_files
  PROVE  /\ Grown(i) /\ Located' /\ Bounded'
         /\ call'.op = op /\ call'.fd = fd /\ call'.done = 0 /\ call'.left = left /\ call' # Idle
         /\ entry' = i /\ start' = offset /\ position' = offset
         /\ i \in Slots /\ root_dir[i].size \in 0..MaxSize /\ offset <= root_dir[i].size
         /\ Files(root_dir)' = Files(root_dir)
         /\ \A j \in Slots : root_dir'[j].filename = root_dir[j].filename
                             /\ root_dir'[j].size = root_dir[j].size
         /\ \A j \in Files(root_dir) : j \in Slots
<1>1. /\ i \in Slots /\ root_dir[i].size \in 0..MaxSize
      /\ offset <= root_dir[i].size /\ offset \div BLOCK_SIZE \in 0..MaxSize
  <2>1. i \in Slots /\ root_dir[i].size \in 0..MaxSize
    BY DEF Bounded, Inv, Typed, TypeOK, RootDir, Files
  <2>2. offset <= root_dir[i].size
    BY DEF Seeking, OffsetsInFile, fs_stat
  <2>3. offset <= MaxSize
    BY <2>1, <2>2, BoundsAssumption
  <2>4. offset \div BLOCK_SIZE \in Nat /\ offset \div BLOCK_SIZE <= offset
    BY DivMod
  <2> QED
    BY <2>1, <2>2, <2>3, <2>4, BoundsAssumption
<1>2. /\ Grown(i)
      /\ \/ /\ left <= 0
            /\ call' = Frame(op, fd, 0, NoBlock, 0)
         \/ /\ left > 0
            /\ \E b \in Blocks \ {0} :
                 /\ Nth(i)'[0] = b
                 /\ call' = Frame(op, fd, left, b, offset \div BLOCK_SIZE)
         \/ /\ left > 0
            /\ \A n \in 0..MaxSize : Nth(i)'[n] = FAT_EOC
            /\ call' = Frame(op, fd, left, NoBlock, 0)
  BY <1>1, EnterGrows
<1>3. call'.op = op /\ call'.fd = fd /\ call'.done = 0 /\ call'.left = left /\ call' # Idle
  <2>1. call'.op = op /\ call'.fd = fd /\ call'.done = 0 /\ call'.left = left
    BY <1>2 DEF Frame
  <2>2. Idle.op = "none"
    BY DEF Idle
  <2> QED
    BY <2>1, <2>2
<1>4. entry' = i /\ start' = offset /\ position' = offset
  BY <1>3 DEF entry, start, position
<1>5. /\ Files(root_dir)' = Files(root_dir)
      /\ \A j \in Slots : root_dir'[j].filename = root_dir[j].filename
                          /\ root_dir'[j].size = root_dir[j].size
      /\ \A j \in Files(root_dir) : j \in Slots
  <2>1. \A j \in Slots : root_dir'[j].filename = root_dir[j].filename
                          /\ root_dir'[j].size = root_dir[j].size
    BY EnterKeepsNames DEF Inv
  <2> QED
    BY <2>1, NamesKeepFiles DEF Files
<1>6. Located'
  <2>1. CASE left <= 0
    <3>1. call'.pc = "return" /\ call'.left = 0
      BY <1>2, <1>3, <2>1 DEF Frame
    <3> QED
      BY <3>1 DEF Located, Searching
  <2>2. ASSUME left > 0, NEW b \in Blocks \ {0}, Nth(i)'[0] = b,
               call' = Frame(op, fd, left, b, offset \div BLOCK_SIZE)
        PROVE  Located'
    <3>1. call'.block = b /\ b # NoBlock /\ call'.hops = offset \div BLOCK_SIZE
      BY <2>2, BlocksFacts DEF Frame
    <3>2. call'.pc = IF offset \div BLOCK_SIZE = 0 THEN "block" ELSE "hop"
      BY <2>2 DEF Frame
    <3>3. index' = 0
      BY <1>1, <1>4, <3>1, <3>2 DEF index
    <3>4. InPlace(entry, index, call.block)'
      BY <1>4, <2>2, <3>1, <3>3, PlaceIs
    <3>5. call'.pc # "return"
      BY <3>2
    <3> QED
      BY <1>3, <2>2, <3>1, <3>3, <3>4, <3>5, BoundsAssumption DEF Located
  <2>3. ASSUME left > 0, \A n \in 0..MaxSize : Nth(i)'[n] = FAT_EOC,
               call' = Frame(op, fd, left, NoBlock, 0)
        PROVE  Located'
    <3>1. call'.block = NoBlock /\ call'.pc = "block"
      BY <2>3, BlocksFacts DEF Frame
    <3>2. index' = offset \div BLOCK_SIZE
      BY <1>4, <3>1 DEF index
    <3>3. InPlace(entry, index, call.block)'
      BY <1>1, <1>4, <2>3, <3>1, <3>2, PlaceIs
    <3>4. NoBlock # 0
      BY DEF NoBlock
    <3> QED
      BY <1>1, <1>3, <2>3, <3>1, <3>2, <3>3, <3>4 DEF Located
  <2> QED
    BY <1>2, <2>1, <2>2, <2>3
<1>7. Bounded'
  BY <1>3, <1>4, <1>5 DEF Bounded
<1> QED
  BY <1>1, <1>2, <1>3, <1>4, <1>5, <1>6, <1>7

(* The entry to fs_read or fs_write with buffer buf'.                      *)
LEMMA EnterKeepsData ==
  ASSUME Inv, Seeking, DataInv, call = Idle, NEW op \in {"read", "write"}, NEW fd \in Fds,
         IsOpen(fd), NEW left \in Nat, Enter(op, fd, left),
         NEW i \in Files(root_dir), i = open_files[fd].index_in_rootdir,
         NEW offset \in Nat, offset = open_files[fd].offset, offset + left <= MaxSize,
         UNCHANGED <<open_files, data, host, seen>>, buf' \in Seq(Bytes),
         op = "read" => /\ Len(buf') = 0
                        /\ \E count \in Counts : left = MinOf(count, root_dir[i].size - offset),
         op = "write" => buf' \in Buffers /\ left <= Len(buf')
  PROVE  DataInv'
<1>1. /\ Grown(i) /\ Located' /\ Bounded'
      /\ call'.op = op /\ call'.fd = fd /\ call'.done = 0 /\ call'.left = left /\ call' # Idle
      /\ entry' = i /\ start' = offset /\ position' = offset
      /\ i \in Slots /\ root_dir[i].size \in 0..MaxSize /\ offset <= root_dir[i].size
      /\ Files(root_dir)' = Files(root_dir)
      /\ \A j \in Slots : root_dir'[j].filename = root_dir[j].filename
                          /\ root_dir'[j].size = root_dir[j].size
      /\ \A j \in Files(root_dir) : j \in Slots
  BY EnterPlaced DEF DataInv
<1>2. StepOn(i)
  BY <1>1 DEF StepOn, ByteAt
<1>3. DataOK'
  BY DEF DataInv, DataOK
<1>4. \A j \in Files(root_dir) : EndOf(j)' = EndOf(j) /\ EndOf(j) \in Nat /\ EndOf(j) = root_dir[j].size
  <2> SUFFICES ASSUME NEW j \in Files(root_dir)
               PROVE  EndOf(j)' = EndOf(j) /\ EndOf(j) \in Nat /\ EndOf(j) = root_dir[j].size
    OBVIOUS
  <2>1. EndOf(j) = root_dir[j].size /\ root_dir[j].size \in Nat
    BY EndFacts DEF Idle, DataInv
  <2>2. j \in Slots /\ root_dir'[j].size = root_dir[j].size
    BY <1>1
  <2>3. EndOf(j)' = root_dir[j].size
    BY <1>1, <2>1, <2>2 DEF EndOf
  <2> QED
    BY <2>1, <2>3
<1>5. Tails'
  BY <1>2, <1>4, StepTails DEF ByteAt
<1>6. Seen' /\ FreshZero'
  BY <1>2, StepSeen, StepFresh DEF DataInv
<1>7. \A k \in 1..root_dir[i].size : KeptByte(Before', k, ByteAt(i, k - 1)')
  BY <1>2, StepKept
<1>8. \A k \in 1..root_dir[i].size : KeptByte(Before', k, ByteAt(entry, k - 1)')
  BY <1>1, <1>7, EntryIs
<1>9. ReadSoFar'
  <2> SUFFICES ASSUME op = "read"
               PROVE  ReadSoFar'
    BY <1>1 DEF ReadSoFar
  <2>1. \E count \in Counts : call'.done + call'.left = MinOf(count, root_dir'[entry'].size - start')
    BY <1>1
  <2>2. 1..call'.done = {}
    BY <1>1
  <2> QED
    BY <1>1, <1>8, <2>1, <2>2 DEF ReadSoFar
<1>10. WrittenSoFar'
  <2> SUFFICES ASSUME op = "write"
               PROVE  WrittenSoFar'
    BY <1>1 DEF WrittenSoFar
  <2>1. EndOf(entry)' = root_dir[i].size
    BY <1>1, <1>4, EntryIs
  <2>2. ASSUME NEW k \in 1..root_dir[i].size
        PROVE  WrittenByte(host', Before', k, ByteAt(entry, k - 1)', start', buf', call'.done)
    <3>1. k \in Int /\ start' \in Nat /\ KeptByte(Before', k, ByteAt(entry, k - 1)')
      BY <1>1, <1>8
    <3> QED
      BY <1>1, <3>1, NothingWritten
  <2>3. buf' \in Buffers /\ call'.done + call'.left <= Len(buf')
    BY <1>1
  <2> QED
    BY <2>1, <2>2, <2>3 DEF WrittenSoFar
<1> QED
  BY <1>1, <1>3, <1>5, <1>6, <1>9, <1>10 DEF DataInv
-----------------------------------------------------------------------------
(***************************************************************************)
(* Part 7: ... and at every step of a call.                                *)
(***************************************************************************)
LEMMA HopPlaced ==
  ASSUME Inv, Seeking, Bounded, Located, Hop, NEW i \in Files(root_dir), i = entry
  PROVE  /\ Grown(i) /\ Located' /\ Bounded'
         /\ call # Idle /\ UNCHANGED <<root_dir, open_files>>
         /\ call'.op = call.op /\ call'.fd = call.fd /\ call'.left = call.left
         /\ call.done = 0 /\ call'.done = 0 /\ call' # Idle
         /\ entry' = i /\ start' = start /\ position' = position
<1>0. call.pc = "hop" /\ call # Idle /\ UNCHANGED <<root_dir, open_files>>
  BY DEF Hop, Idle
<1>1. /\ call \in Frames /\ start \in Nat /\ position \in Nat /\ position = start + call.done
      /\ call.hops \in Nat /\ call.hops > 0 /\ call.left \in Nat /\ call.done = 0 /\ call.left > 0
      /\ call.op \in {"read", "write"} /\ root_dir[i].size \in Nat
      /\ call.block \in Blocks \union {NoBlock} /\ start <= root_dir[i].size
      /\ position + call.left <= MaxSize /\ MaxSize \in Nat
      /\ index \in 0..MaxSize /\ InPlace(i, index, call.block)
  BY <1>0, Calling DEF Located, Searching, Inv, Typed, CallOK
<1> PICK nxt \in Blocks \union {NoBlock} :
       /\ get_next_fat(call.block, nxt)
       /\ call' = [call EXCEPT !.block = nxt, !.hops = @ - 1,
                               !.pc = IF call.hops = 1 THEN "block" ELSE "hop"]
  BY DEF Hop
<1>2. /\ call'.op = call.op /\ call'.fd = call.fd /\ call'.block = nxt
      /\ call'.hops = call.hops - 1 /\ call'.done = 0 /\ call'.left = call.left
      /\ call'.pc = (IF call.hops = 1 THEN "block" ELSE "hop")
  BY <1>1 DEF Frames
<1>3. call' # Idle /\ entry' = i /\ start' = start /\ position' = position
  BY <1>0, <1>1, <1>2 DEF Idle, entry, start, position
<1>4. index + 1 \in 0..MaxSize /\ index' = index + 1 /\ index \in Nat
  <2>1. start \div BLOCK_SIZE \in Nat /\ start \div BLOCK_SIZE <= start
    BY <1>1, DivMod
  <2>2. index = (start \div BLOCK_SIZE) - call.hops
    BY <1>0 DEF index
  <2>3. index' = index + 1
    BY <1>1, <1>2, <1>3, <2>1, <2>2 DEF index
  <2> QED
    BY <1>1, <2>1, <2>2, <2>3
<1> PICK n \in Nat : n = index
  BY <1>4
<1>5. /\ Grown(i)
      /\ IF nxt = NoBlock THEN Nth(i)'[n + 1] = FAT_EOC
         ELSE IF nxt = 0 THEN n + 1 > 0 /\ Nth(i)'[(n + 1) - 1] = FAT_EOC
         ELSE Nth(i)'[n + 1] = nxt
  <2>0. fat \in FatArray /\ fat[0] = FAT_EOC /\ FAT_EOC # 0 /\ NoBlock # 0 /\ NoBlock \notin Blocks
    BY Heads, BlocksFacts
  <2>1. CASE call.block = NoBlock
    <3>1. nxt = 0 /\ fat' = fat
      BY <2>0, <2>1, NextFatCases
    <3>2. Nth(i)' = Nth(i) /\ Grown(i)
      BY <1>0, <3>1, SameChains
    <3> QED
      BY <1>1, <2>0, <2>1, <3>1, <3>2 DEF InPlace
  <2>2. CASE call.block = 0
    <3>1. FreeBlocks = {}
      BY <1>0, <2>2 DEF Inv, InHand
    <3>2. nxt = NoBlock /\ fat' = fat
      BY <1>1, <2>0, <2>2, <3>1, NextFatCases
    <3>3. Nth(i)' = Nth(i) /\ Grown(i)
      BY <1>0, <3>2, SameChains
    <3>4. n > 0 /\ Nth(i)[n - 1] = FAT_EOC
      BY <1>1, <2>0, <2>2 DEF InPlace
    <3>5. Nth(i)[n + 1] = FAT_EOC
      <4>1. n - 1 \in 0..MaxSize /\ n + 1 \in 0..MaxSize /\ n - 1 <= n + 1
        BY <1>1, <1>4, <3>4
      <4> QED
        BY <3>4, <4>1, NthFacts
    <3> QED
      BY <3>2, <3>3, <3>5
  <2>3. CASE call.block \in Blocks \ {0}
    <3>1. Nth(i)[n] = call.block
      BY <1>1, <2>0, <2>3 DEF InPlace
    <3>2. n + 1 \in 0..MaxSize
      BY <1>4
    <3>3. /\ Grown(i)
          /\ nxt # NoBlock => nxt \in Blocks \ {0} /\ Nth(i)'[n + 1] = nxt
          /\ nxt = NoBlock => Nth(i)'[n + 1] = FAT_EOC
      BY <1>0, <2>3, <3>1, <3>2, NextFatGrows
    <3> QED
      BY <3>3
  <2> QED
    BY <1>1, <2>1, <2>2, <2>3
<1>6. Located'
  <2>1. InPlace(entry, index, call.block)'
    BY <1>2, <1>3, <1>4, <1>5, PlaceIs
  <2>2. call'.pc # "return"
    BY <1>2
  <2> QED
    BY <1>1, <1>2, <1>4, <2>1, <2>2 DEF Located
<1>7. Bounded'
  BY <1>0, <1>2, <1>3 DEF Bounded
<1> QED
  BY <1>0, <1>1, <1>2, <1>3, <1>5, <1>6, <1>7

LEMMA HopKeepsData ==
  ASSUME Inv, Seeking, DataInv, Hop, UNCHANGED <<data, buf, host, seen>>
  PROVE  DataInv'
<1>0. call # Idle
  BY DEF Hop, Idle
<1> PICK i \in Files(root_dir) : i = entry
  BY <1>0, Calling DEF DataInv
<1>1. /\ start \in Nat /\ call.done \in Nat /\ call.op \in {"read", "write"}
      /\ root_dir[i].size \in Nat /\ start <= root_dir[i].size
      /\ position = start + call.done
  BY <1>0, Calling DEF DataInv
<1>2. /\ Grown(i) /\ Located' /\ Bounded'
      /\ UNCHANGED <<root_dir, open_files>>
      /\ call'.op = call.op /\ call'.fd = call.fd /\ call'.left = call.left
      /\ call.done = 0 /\ call'.done = 0 /\ call' # Idle
      /\ entry' = i /\ start' = start /\ position' = position
  BY HopPlaced DEF DataInv
<1>3. StepOn(i)
  BY <1>0, <1>2 DEF StepOn, ByteAt
<1>4. DataOK'
  BY DEF DataInv, DataOK
<1>5. \A j \in Files(root_dir) : EndOf(j)' = EndOf(j) /\ EndOf(j) \in Nat /\ EndOf(i) = root_dir[i].size
  <2>1. \A j \in Files(root_dir) : EndOf(j)' = EndOf(j)
    BY <1>0, <1>2 DEF EndOf
  <2>2. EndOf(i) = root_dir[i].size
    BY <1>1, <1>2 DEF EndOf
  <2> QED
    BY <2>1, <2>2, EndFacts DEF DataInv
<1>6. Tails'
  BY <1>3, <1>5, StepTails DEF ByteAt
<1>7. Seen' /\ FreshZero' /\ Before' = Before
  BY <1>0, <1>3, StepSeen, StepFresh, <1>2 DEF DataInv
<1>8. \A k \in 1..root_dir[i].size : KeptByte(Before', k, ByteAt(entry, k - 1)')
  BY <1>1, <1>2, <1>3, StepKept, EntryIs
<1>9. ReadSoFar'
  <2> SUFFICES ASSUME call.op = "read"
               PROVE  ReadSoFar'
    BY <1>2 DEF ReadSoFar
  <2>1. /\ Len(buf) = 0
        /\ \E count \in Counts : call.done + call.left = MinOf(count, root_dir[i].size - start)
    BY <1>1, <1>2 DEF DataInv, ReadSoFar
  <2>2. 1..call'.done = {}
    BY <1>2
  <2> QED
    BY <1>0, <1>1, <1>2, <1>8, <2>1, <2>2 DEF ReadSoFar
<1>10. WrittenSoFar'
  <2> SUFFICES ASSUME call.op = "write"
               PROVE  WrittenSoFar'
    BY <1>2 DEF WrittenSoFar
  <2>1. EndOf(entry)' = root_dir[i].size
    BY <1>2, <1>5, EntryIs
  <2>2. ASSUME NEW k \in 1..root_dir[i].size
        PROVE  WrittenByte(host', Before', k, ByteAt(entry, k - 1)', start', buf', call'.done)
    <3>1. k \in Int /\ start' \in Nat /\ KeptByte(Before', k, ByteAt(entry, k - 1)')
      BY <1>1, <1>2, <1>8
    <3> QED
      BY <1>2, <3>1, NothingWritten
  <2>3. buf' \in Buffers /\ call'.done + call'.left <= Len(buf')
    BY <1>1, <1>2 DEF DataInv, WrittenSoFar
  <2> QED
    BY <2>1, <2>2, <2>3 DEF WrittenSoFar
<1> QED
  BY <1>2, <1>4, <1>6, <1>7, <1>9, <1>10 DEF DataInv

(* A call with a block, or none, in hand.                                  *)
AtBlock(i) ==
  /\ call.pc = "block" /\ i = entry /\ i \in Files(root_dir)
  /\ call # Idle /\ call \in Frames /\ call.op \in {"read", "write"}
  /\ start \in Nat /\ position \in Nat /\ position = start + call.done
  /\ call.done \in Nat /\ call.left \in Nat /\ call.left > 0
  /\ root_dir[i].size \in Nat /\ root_dir[i].size <= MaxSize /\ start <= root_dir[i].size
  /\ position + call.left <= MaxSize
  /\ call.op = "read" => position + call.left <= root_dir[i].size
  /\ MaxSize \in Nat
  /\ offset_in_current_block = position % BLOCK_SIZE
  /\ Moved \in Nat /\ Moved > 0 /\ Moved <= call.left
  /\ (position % BLOCK_SIZE) + Moved <= BLOCK_SIZE
  /\ index = position \div BLOCK_SIZE /\ index \in Nat /\ index <= MaxSize
  /\ call.left # Moved =>
       /\ (position + Moved) \div BLOCK_SIZE = index + 1
       /\ (position + Moved) % BLOCK_SIZE = 0
       /\ index + 1 <= MaxSize
  /\ call.block \in Blocks \union {NoBlock, FAT_EOC}
  /\ InPlace(i, index, call.block)
  /\ call.block = 0 => call.done = 0
  /\ call.done # 0 => position % BLOCK_SIZE = 0

LEMMA BlockFacts ==
  ASSUME Inv, Seeking, Bounded, Located, call.pc = "block"
  PROVE  \E i \in Files(root_dir) : AtBlock(i)
<1>0. call # Idle
  BY DEF Idle
<1>1. PICK i \in Files(root_dir) : i = entry
  BY <1>0, Calling
<1>2. /\ call \in Frames /\ start \in Nat /\ position \in Nat /\ position = start + call.done
      /\ call.left \in Nat /\ call.done \in Nat /\ call.left > 0
      /\ call.op \in {"read", "write"} /\ root_dir[i].size \in Nat /\ root_dir[i].size <= MaxSize
      /\ call.block \in Blocks \union {NoBlock, FAT_EOC} /\ start <= root_dir[i].size
      /\ position + call.left <= MaxSize /\ MaxSize \in Nat
      /\ call.op = "read" => position + call.left <= root_dir[i].size
      /\ index \in 0..MaxSize /\ InPlace(i, index, call.block)
      /\ call.block = 0 => call.done = 0
      /\ call.done # 0 => position % BLOCK_SIZE = 0
  BY <1>0, <1>1, Calling DEF Located, Searching
<1>3. index = position \div BLOCK_SIZE
  BY DEF index
<1>4. BLOCK_SIZE \in Nat /\ BLOCK_SIZE > 0 /\ 0 % BLOCK_SIZE = 0
  BY GeometryAssumption
<1>5. position % BLOCK_SIZE \in Nat /\ position % BLOCK_SIZE < BLOCK_SIZE
  BY <1>2, <1>4
<1>6. offset_in_current_block = position % BLOCK_SIZE
  <2>1. CASE call.done = 0
    <3>1. position = start
      BY <1>2, <2>1
    <3> QED
      BY <2>1, <3>1 DEF offset_in_current_block, start
  <2>2. CASE call.done # 0
    BY <1>2, <2>2 DEF offset_in_current_block
  <2> QED
    BY <2>1, <2>2
<1> DEFINE r == position % BLOCK_SIZE
<1>7. Moved = MinOf(BLOCK_SIZE - r, call.left)
  BY <1>6 DEF Moved
<1>8. r \in Nat /\ r < BLOCK_SIZE
  BY <1>5
<1> HIDE DEF r
<1>9. /\ Moved \in Nat /\ Moved > 0 /\ Moved <= call.left /\ r + Moved <= BLOCK_SIZE
      /\ call.left # Moved => r + Moved = BLOCK_SIZE
  BY <1>2, <1>4, <1>7, <1>8 DEF MinOf
<1>10. ASSUME call.left # Moved
       PROVE  /\ (position + Moved) \div BLOCK_SIZE = index + 1
              /\ (position + Moved) % BLOCK_SIZE = 0
              /\ index + 1 <= MaxSize
  <2>1. /\ (position + Moved) \div BLOCK_SIZE = index + 1
        /\ (position + Moved) % BLOCK_SIZE = 0
    BY <1>2, <1>3, <1>9, <1>10, NextBlock DEF r
  <2>2. position + Moved \in Nat /\ position + Moved <= MaxSize
    BY <1>2, <1>9
  <2>3. (position + Moved) \div BLOCK_SIZE <= position + Moved
    BY <2>2, DivMod
  <2> QED
    BY <1>2, <2>1, <2>2, <2>3
<1> QED
  BY <1>0, <1>1, <1>2, <1>3, <1>6, <1>9, <1>10 DEF AtBlock, r

(* The bytes that the step moves.                                          *)
LEMMA BytesInHand ==
  ASSUME Inv, NEW i, AtBlock(i), NEW x \in Nat, x < Moved
  PROVE  /\ position + x \in 0..(MaxSize - 1)
         /\ (position + x) \div BLOCK_SIZE = index
         /\ (position + x) % BLOCK_SIZE = (position % BLOCK_SIZE) + x
         /\ (position % BLOCK_SIZE) + x \in InBlock
         /\ call.block \in Blocks \ {0} => ByteAt(i, position + x) = data[call.block][(position % BLOCK_SIZE) + x]
         /\ call.block = 0 => ByteAt(i, position + x) = Hole
<1>1. position \in Nat /\ position % BLOCK_SIZE \in InBlock
  BY DivMod DEF AtBlock
<1>2. BLOCK_SIZE \in Nat
  BY GeometryAssumption
<1>3. (position % BLOCK_SIZE) + x \in InBlock /\ position + x \in 0..(MaxSize - 1)
  BY <1>1, <1>2 DEF AtBlock, InBlock
<1>4. /\ (position + x) \div BLOCK_SIZE = index
      /\ (position + x) % BLOCK_SIZE = (position % BLOCK_SIZE) + x
  BY <1>1, <1>3, WithinBlock DEF AtBlock
<1>5. ASSUME call.block \in Blocks \ {0}
      PROVE  ByteAt(i, position + x) = data[call.block][(position % BLOCK_SIZE) + x]
  <2>1. Nth(i)[index] = call.block /\ call.block # FAT_EOC
    BY <1>5, BlocksFacts DEF AtBlock, InPlace
  <2> QED
    BY <1>4, <2>1 DEF ByteAt, ByteOf
<1>6. ASSUME call.block = 0
      PROVE  ByteAt(i, position + x) = Hole
  <2>1. index \in Nat /\ index > 0 /\ Nth(i)[index - 1] = FAT_EOC /\ index <= MaxSize /\ MaxSize \in Nat
    BY <1>6 DEF AtBlock, InPlace, NoBlock
  <2>2. Nth(i)[index] = FAT_EOC
    BY <2>1, NthFacts DEF AtBlock
  <2> QED
    BY <1>4, <2>2 DEF ByteAt, ByteOf
<1> QED
  BY <1>3, <1>4, <1>5, <1>6

(* Block 0 is in hand on a full disk, behind a hole.                       *)
LEMMA BehindHole ==
  ASSUME Inv, Seeking, DataInv, NEW i, AtBlock(i), call.block = 0
  PROVE  Store!HoleBefore(Before, start)
<1>1. /\ index \in Nat /\ index > 0 /\ Nth(i)[index - 1] = FAT_EOC
      /\ call.done = 0 /\ start \in Nat /\ index = start \div BLOCK_SIZE
      /\ i = entry /\ i \in Files(root_dir) /\ start <= root_dir[i].size
  BY DEF AtBlock, InPlace, NoBlock
<1> DEFINE k == BLOCK_SIZE * (index - 1)
<1>2. k \in Nat /\ k + 1 \in 1..start /\ k \div BLOCK_SIZE = index - 1
  <2>1. BLOCK_SIZE \in Nat /\ BLOCK_SIZE > 0
    BY GeometryAssumption
  <2>2. start = BLOCK_SIZE * index + (start % BLOCK_SIZE) /\ start % BLOCK_SIZE \in InBlock
    BY <1>1, DivMod
  <2>3. BLOCK_SIZE * index = k + BLOCK_SIZE
    <3>1. (index - 1) + 1 = index /\ index - 1 \in Int
      BY <1>1
    <3> QED
      BY <3>1, Multiples
  <2>4. k \in Nat
    BY <1>1, <2>1
  <2>5. 0 \in InBlock /\ k = BLOCK_SIZE * (index - 1) + 0
    BY <2>1, <2>4 DEF InBlock
  <2>6. k \div BLOCK_SIZE = index - 1
    BY <1>1, <2>4, <2>5, DivModUnique
  <2> HIDE DEF k
  <2>7. k + 1 \in 1..start
    BY <1>1, <2>1, <2>2, <2>3, <2>4 DEF InBlock
  <2> QED
    BY <2>4, <2>6, <2>7
<1> HIDE DEF k
<1>3. ByteAt(i, (k + 1) - 1) = Hole
  <2>1. (k + 1) - 1 = k
    BY <1>2
  <2>2. ByteAt(i, k) = Hole
    BY <1>1, <1>2 DEF ByteAt, ByteOf
  <2> QED
    BY <2>1, <2>2
<1>4. KeptByte(Before, k + 1, ByteAt(i, (k + 1) - 1))
  <2>1. k + 1 \in 1..root_dir[i].size /\ k + 1 \in Int
    BY <1>1, <1>2 DEF AtBlock
  <2>2. CASE call.op = "read"
    BY <1>1, <2>1, <2>2 DEF DataInv, ReadSoFar
  <2>3. CASE call.op = "write"
    <3>1. root_dir[i].size <= EndOf(i) /\ EndOf(i) \in Nat /\ root_dir[i].size \in Nat
      BY <1>1, EndFacts DEF DataInv
    <3>2. k + 1 \in 1..EndOf(i)
      BY <2>1, <3>1
    <3>3. WrittenByte(host, Before, k + 1, ByteAt(i, (k + 1) - 1), start, buf, 0)
      BY <1>1, <2>3, <3>2 DEF DataInv, WrittenSoFar
    <3> QED
      BY <1>1, <2>1, <3>3, NothingWritten
  <2> QED
    BY <2>2, <2>3 DEF AtBlock
<1>5. Before[k + 1] = Hole
  BY <1>3, <1>4, HoleFacts DEF KeptByte
<1> QED
  BY <1>2, <1>5 DEF Store!HoleBefore

(* No block is left for fs_write, or none is there for fs_read.            *)
LEMMA StopPlaced ==
  ASSUME Inv, Seeking, Bounded, Located, call.pc = "block", call.block \in {NoBlock, FAT_EOC},
         call' = [call EXCEPT !.pc = "return"], UNCHANGED <<fat, root_dir, open_files>>
  PROVE  /\ Located' /\ Bounded'
         /\ call'.op = call.op /\ call'.fd = call.fd /\ call'.block = call.block
         /\ call'.done = call.done /\ call'.left = call.left /\ call'.pc = "return"
         /\ call # Idle /\ call' # Idle
         /\ entry' = entry /\ start' = start /\ position' = position
<1>1. PICK i \in Files(root_dir) : AtBlock(i)
  BY BlockFacts
<1>2. /\ call'.op = call.op /\ call'.fd = call.fd /\ call'.block = call.block
      /\ call'.done = call.done /\ call'.left = call.left /\ call'.pc = "return"
      /\ call # Idle /\ call' # Idle
  BY <1>1 DEF AtBlock, Frames, Idle
<1>3. entry' = entry /\ start' = start /\ position' = position
  BY <1>2 DEF entry, start, position
<1>4. index' = index
  BY <1>1, <1>2, <1>3 DEF index, AtBlock
<1>5. Located'
  <2>1. InPlace(entry, index, call.block)'
    BY <1>1, <1>2, <1>3, <1>4 DEF AtBlock, InPlace, Nth
  <2>2. index' \in 0..MaxSize
    BY <1>1, <1>4 DEF AtBlock
  <2>3. call'.left > 0 /\ (call'.done # 0 => position' % BLOCK_SIZE = 0)
    BY <1>1, <1>2, <1>3 DEF AtBlock
  <2>4. call'.block # 0
    BY <1>2 DEF NoBlock, FAT_EOC
  <2> QED
    BY <1>2, <2>1, <2>2, <2>3, <2>4 DEF Located
<1>6. Bounded'
  BY <1>2, <1>3 DEF Bounded
<1> QED
  BY <1>2, <1>3, <1>5, <1>6

LEMMA StopKeepsData ==
  ASSUME Inv, Seeking, DataInv, call.pc = "block", call.block \in {NoBlock, FAT_EOC},
         call' = [call EXCEPT !.pc = "return"],
         UNCHANGED <<fat, root_dir, open_files, data, buf, host, seen>>
  PROVE  DataInv'
<1>1. /\ Located' /\ Bounded'
      /\ call'.op = call.op /\ call'.fd = call.fd
      /\ call'.done = call.done /\ call'.left = call.left
      /\ call # Idle /\ call' # Idle
      /\ entry' = entry /\ start' = start /\ position' = position
  BY StopPlaced DEF DataInv
<1>2. Before' = Before /\ FileNames' = FileNames
  BY <1>1 DEF Before, FileNames
<1>3. \A j, k : ByteAt(j, k)' = ByteAt(j, k)
  BY DEF ByteAt, Nth
<1>4. \A k : ByteAt(entry, k)' = ByteAt(entry, k)
  BY <1>1 DEF ByteAt, Nth
<1>5. \A j : EndOf(j)' = EndOf(j)
  BY <1>1, <1>2 DEF EndOf
<1>6. EndOf(entry)' = EndOf(entry)
  BY <1>1, <1>2 DEF EndOf
<1>7. DataOK' /\ FreshZero'
  BY DEF DataInv, DataOK, FreshZero
<1>8. Tails'
  BY <1>3, <1>5 DEF DataInv, Tails
<1>9. Seen'
  <2>1. \A j : ContentOf(fat, root_dir[j])' = ContentOf(fat, root_dir[j])
    BY DEF ContentOf
  <2> QED
    BY <1>1, <1>2, <2>1 DEF DataInv, Seen
<1>10. ReadSoFar'
  BY <1>1, <1>2, <1>4 DEF DataInv, ReadSoFar
<1>11. WrittenSoFar'
  BY <1>1, <1>2, <1>4, <1>6 DEF DataInv, WrittenSoFar
<1> QED
  BY <1>1, <1>7, <1>8, <1>9, <1>10, <1>11 DEF DataInv

(* What fs_write leaves in the block in hand.                              *)
LEMMA BlockWritten ==
  ASSUME DataOK, call.done + call.left <= Len(buf), NEW i, AtBlock(i), call.block \in Blocks,
         NEW bounce \in Block, block_read(call.block, bounce),
         block_write(call.block, Patched(bounce))
  PROVE  /\ data' \in [Blocks -> Block]
         /\ \A x \in Blocks \ {call.block} : data'[x] = data[x]
         /\ host = "reliable" => data'[call.block] = Patched(data[call.block])
<1> DEFINE b == call.block
<1>1. data \in [Blocks -> Block] /\ b \in Blocks
  BY DEF DataOK
<1>2. /\ buf \in Seq(Bytes) /\ call.done + call.left <= Len(buf) /\ call.done \in Nat
      /\ Moved \in Nat /\ Moved <= call.left /\ call.left \in Nat
      /\ offset_in_current_block \in Int
  <2>1. position % BLOCK_SIZE \in InBlock
    BY DivMod DEF AtBlock
  <2> QED
    BY <2>1, GeometryAssumption DEF DataOK, AtBlock, InBlock
<1>3. \A r \in InBlock : Patched(bounce)[r] \in Bytes
  <2> SUFFICES ASSUME NEW r \in InBlock
               PROVE  Patched(bounce)[r] \in Bytes
    OBVIOUS
  <2>1. bounce[r] \in Bytes
    BY DEF Block
  <2>2. ASSUME r >= offset_in_current_block, r < offset_in_current_block + Moved
        PROVE  buf[call.done + r - offset_in_current_block + 1] \in Bytes
    <3>1. r \in Int
      BY GeometryAssumption DEF InBlock
    <3>2. call.done + r - offset_in_current_block + 1 \in 1..Len(buf)
      BY <1>2, <2>2, <3>1, LenProperties
    <3> QED
      BY <1>2, <3>2, ElementOfSeq
  <2> QED
    BY <2>1, <2>2 DEF Patched
<1>4. Patched(bounce) \in Block
  BY <1>3 DEF Patched, Block
<1> HIDE DEF b
<1>5. CASE data' = [data EXCEPT ![b] = Patched(bounce)]
  <2>1. data' \in [Blocks -> Block] /\ \A x \in Blocks \ {b} : data'[x] = data[x]
    BY <1>1, <1>4, <1>5
  <2>2. host = "reliable" => bounce = data[b]
    BY DEF block_read, b
  <2>3. data'[b] = Patched(bounce)
    BY <1>1, <1>5
  <2> QED
    BY <2>1, <2>2, <2>3 DEF b
<1>6. ASSUME host = "failing", NEW n \in InBlock,
             data' = [data EXCEPT ![b] =
                       [k \in InBlock |-> IF k < n THEN Patched(bounce)[k] ELSE @[k]]]
      PROVE  data' \in [Blocks -> Block] /\ \A x \in Blocks \ {b} : data'[x] = data[x]
  <2> DEFINE new == [k \in InBlock |-> IF k < n THEN Patched(bounce)[k] ELSE data[b][k]]
  <2>1. new \in Block
    BY <1>1, <1>3 DEF Block
  <2>2. data' = [data EXCEPT ![b] = new]
    BY <1>6
  <2> HIDE DEF new
  <2> QED
    BY <1>1, <2>1, <2>2
<1>7. \/ data' = [data EXCEPT ![b] = Patched(bounce)]
      \/ /\ host = "failing"
         /\ \E n \in InBlock :
              data' = [data EXCEPT ![b] =
                        [k \in InBlock |-> IF k < n THEN Patched(bounce)[k] ELSE @[k]]]
  BY DEF block_write, b
<1> QED
  BY <1>5, <1>6, <1>7 DEF b

(* ... and so in the bytes of the files.                                   *)
LEMMA BytesWritten ==
  ASSUME Inv, NEW i, AtBlock(i), call.block \in Blocks,
         \A x \in Blocks \ {call.block} : data'[x] = data[x],
         host = "reliable" => data'[call.block] = Patched(data[call.block]),
         NEW k \in 0..MaxSize
  PROVE  /\ \A j \in Files(root_dir) : j # i => ByteOf(Nth(j), data', k) = ByteAt(j, k)
         /\ call.block = 0 \/ k \div BLOCK_SIZE # index =>
              ByteOf(Nth(i), data', k) = ByteAt(i, k)
         /\ host = "reliable" /\ call.block # 0 =>
              ByteOf(Nth(i), data', k) =
                IF k \in position..(position + Moved - 1) THEN buf[k + 1 - start] ELSE ByteAt(i, k)
<1> DEFINE b == call.block
           d == data'
<1>1. /\ b \in Blocks /\ i \in Files(root_dir) /\ index \in 0..MaxSize
      /\ \A x \in Blocks \ {b} : d[x] = data[x]
      /\ b # 0 => Nth(i)[index] = b
  BY BlocksFacts DEF AtBlock, InPlace
<1> HIDE DEF b, d
<1>2. \A j \in Files(root_dir) : j # i => ByteOf(Nth(j), d, k) = ByteAt(j, k)
  BY <1>1, WrittenBytes
<1>3. b = 0 \/ k \div BLOCK_SIZE # index => ByteOf(Nth(i), d, k) = ByteAt(i, k)
  BY <1>1, WrittenBytes
<1>4. ASSUME host = "reliable", b # 0
      PROVE  ByteOf(Nth(i), d, k) =
               IF k \in position..(position + Moved - 1) THEN buf[k + 1 - start] ELSE ByteAt(i, k)
  <2>0. /\ k \in Nat /\ position \in Nat /\ Moved \in Nat /\ start \in Nat /\ call.done \in Nat
        /\ position = start + call.done /\ index = position \div BLOCK_SIZE
        /\ offset_in_current_block = position % BLOCK_SIZE
    BY DEF AtBlock
  <2>1. CASE k \div BLOCK_SIZE # index
    <3>1. k \notin position..(position + Moved - 1)
      <4> SUFFICES ASSUME k \in position..(position + Moved - 1)
                   PROVE  FALSE
        OBVIOUS
      <4>1. k - position \in Nat /\ k - position < Moved /\ position + (k - position) = k
        BY <2>0
      <4> QED
        BY <2>1, <4>1, BytesInHand
    <3> QED
      BY <1>3, <2>1, <3>1
  <2>2. CASE k \div BLOCK_SIZE = index
    <3> DEFINE r == k % BLOCK_SIZE
               off == position % BLOCK_SIZE
    <3>1. r \in InBlock /\ r \in Int /\ off \in Int
      <4>1. r \in InBlock /\ off \in InBlock
        BY <2>0, DivMod
      <4> QED
        BY <4>1, GeometryAssumption DEF InBlock
    <3>2. k - position = r - off
      BY <2>0, <2>2, BlocksInOrder
    <3>3. b # FAT_EOC
      BY <1>1, BlocksFacts
    <3>4. ByteOf(Nth(i), d, k) = d[b][r] /\ ByteAt(i, k) = data[b][r]
      BY <1>1, <1>4, <2>2, <3>3 DEF ByteAt, ByteOf
    <3>5. d[b] = Patched(data[b])
      BY <1>4 DEF b, d
    <3>6. Patched(data[b])[r] = IF r >= off /\ r < off + Moved
                                THEN buf[call.done + r - off + 1] ELSE data[b][r]
      BY <2>0, <3>1 DEF Patched
    <3> HIDE DEF r, off
    <3>7. k \in position..(position + Moved - 1) <=> r >= off /\ r < off + Moved
      BY <2>0, <3>1, <3>2
    <3>8. call.done + r - off + 1 = k + 1 - start
      BY <2>0, <3>1, <3>2
    <3> QED
      BY <3>4, <3>5, <3>6, <3>7, <3>8
  <2> QED
    BY <2>1, <2>2
<1> QED
  BY <1>2, <1>3, <1>4 DEF b, d

(* The bytes of the file after the step, when the links of its blocks, or  *)
(* of its blocks up to the one in hand, have not changed.                  *)
Rewritten(i) ==
  /\ \A k \in 0..MaxSize :
       call.block = 0 \/ k \div BLOCK_SIZE <= index =>
         ByteAt(i, k)' = ByteOf(Nth(i), data', k)
  /\ \A k \in 0..MaxSize : Filled(ByteOf(Nth(i), data', k), ByteAt(i, k)')
  /\ \A k \in 0..MaxSize :
       call.block = 0 \/ k \div BLOCK_SIZE # index => ByteOf(Nth(i), data', k) = ByteAt(i, k)
  /\ host = "reliable" /\ call.block # 0 =>
       \A k \in 0..MaxSize :
         ByteOf(Nth(i), data', k) =
           IF k \in position..(position + Moved - 1) THEN buf[k + 1 - start] ELSE ByteAt(i, k)

LEMMA ReliableWrite ==
  ASSUME Inv, Seeking, DataInv, NEW i, AtBlock(i), call.op = "write", call.block \in Blocks,
         Rewritten(i), host = "reliable", NEW k \in 1..MaxSize,
         k <= EndOf(i) \/ k <= position + Moved
  PROVE  StoredByte(Before, k, ByteAt(i, k - 1)', start, buf, call.done + Moved)
<1>0. /\ position \in Nat /\ start \in Nat /\ call.done \in Nat /\ position = start + call.done
      /\ Moved \in Nat /\ MaxSize \in Nat /\ index = position \div BLOCK_SIZE /\ index \in Nat
      /\ i = entry /\ i \in Files(root_dir) /\ call.op = "write"
      /\ call.block = 0 => call.done = 0
      /\ call.done # 0 => position % BLOCK_SIZE = 0
      /\ start <= root_dir[i].size /\ root_dir[i].size \in Nat
  BY DEF AtBlock
<1>1. EndOf(i) \in Nat /\ position <= EndOf(i)
  BY <1>0, EndFacts DEF DataInv, AtBlock
<1>2. \A m \in 1..EndOf(i) : StoredByte(Before, m, ByteAt(i, m - 1), start, buf, call.done)
  <2>1. \A m \in 1..EndOf(i) : WrittenByte(host, Before, m, ByteAt(i, m - 1), start, buf, call.done)
    BY <1>0 DEF DataInv, WrittenSoFar
  <2> QED
    BY <2>1 DEF WrittenByte
<1>3. k - 1 \in 0..MaxSize /\ k \in Int /\ k - 1 \in Nat
  BY <1>0
<1>4. CASE k \in (start + 1)..position
  <2>1. k \in 1..EndOf(i) /\ k \in (start + 1)..(start + call.done)
        /\ k \in (start + 1)..(start + (call.done + Moved)) /\ call.done # 0
    BY <1>0, <1>1, <1>4
  <2>2. (k - 1) \div BLOCK_SIZE <= index /\ (k - 1) \div BLOCK_SIZE # index
    <3>1. k - 1 <= position /\ k - 1 < position
      BY <1>0, <1>4
    <3>2. (k - 1) \div BLOCK_SIZE <= index
      BY <1>0, <1>3, <3>1, BlocksInOrder
    <3>3. ASSUME (k - 1) \div BLOCK_SIZE = index
          PROVE  FALSE
      <4>1. (k - 1) - position = ((k - 1) % BLOCK_SIZE) - (position % BLOCK_SIZE)
        BY <1>0, <1>3, <3>3, BlocksInOrder
      <4>2. (k - 1) % BLOCK_SIZE >= 0 /\ (k - 1) % BLOCK_SIZE \in Int
        <5>1. (k - 1) % BLOCK_SIZE \in InBlock
          BY <1>3, DivMod
        <5> QED
          BY <5>1, GeometryAssumption DEF InBlock
      <4>3. position % BLOCK_SIZE = 0
        BY <1>0, <2>1
      <4> QED
        BY <1>0, <1>3, <3>1, <4>1, <4>2, <4>3
    <3> QED
      BY <3>2, <3>3
  <2>3. ByteAt(i, k - 1)' = ByteAt(i, k - 1)
    BY <1>3, <2>2 DEF Rewritten
  <2>4. StoredByte(Before, k, ByteAt(i, k - 1), start, buf, call.done)
    BY <1>2, <2>1
  <2> QED
    BY <2>1, <2>3, <2>4 DEF StoredByte
<1>5. CASE k \in (position + 1)..(position + Moved)
  <2>1. k \in (start + 1)..(start + (call.done + Moved))
    BY <1>0, <1>5
  <2> DEFINE x == (k - 1) - position
  <2>2. x \in Nat /\ x < Moved /\ position + x = k - 1
    BY <1>0, <1>3, <1>5
  <2>3. (k - 1) \div BLOCK_SIZE = index
    BY <2>2, BytesInHand
  <2>4. ByteAt(i, k - 1)' = ByteOf(Nth(i), data', k - 1)
    BY <1>0, <1>3, <2>3 DEF Rewritten
  <2>5. CASE call.block # 0
    <3>1. k - 1 \in position..(position + Moved - 1) /\ (k - 1) + 1 - start = k - start
      BY <1>0, <1>3, <1>5
    <3>2. ByteOf(Nth(i), data', k - 1) = buf[(k - 1) + 1 - start]
      BY <1>3, <2>5, <3>1 DEF Rewritten
    <3> QED
      BY <2>1, <2>4, <3>1, <3>2 DEF StoredByte
  <2>6. CASE call.block = 0
    <3>1. ByteOf(Nth(i), data', k - 1) = ByteAt(i, k - 1)
      BY <1>3, <2>6 DEF Rewritten
    <3>2. ByteAt(i, k - 1) = Hole
      BY <2>2, <2>6, BytesInHand
    <3>3. Store!HoleBefore(Before, start)
      BY <2>6, BehindHole
    <3> QED
      BY <2>1, <2>4, <3>1, <3>2, <3>3 DEF StoredByte
  <2> QED
    BY <2>5, <2>6
<1>6. CASE k <= start \/ k > position + Moved
  <2>1. k \in 1..EndOf(i) /\ k \notin (start + 1)..(start + call.done)
        /\ k \notin (start + 1)..(start + (call.done + Moved))
        /\ k - 1 \notin position..(position + Moved - 1)
    BY <1>0, <1>1, <1>3, <1>6
  <2>2. KeptByte(Before, k, ByteAt(i, k - 1))
    BY <1>2, <2>1 DEF StoredByte
  <2>3. ByteOf(Nth(i), data', k - 1) = ByteAt(i, k - 1)
    BY <1>3, <2>1 DEF Rewritten
  <2>4. Filled(ByteAt(i, k - 1), ByteAt(i, k - 1)')
    BY <1>3, <2>3 DEF Rewritten
  <2>5. KeptByte(Before, k, ByteAt(i, k - 1)')
    BY <2>2, <2>4, KeptFilled
  <2> QED
    BY <2>1, <2>5 DEF StoredByte
<1>7. k \in (start + 1)..position \/ k \in (position + 1)..(position + Moved)
      \/ (k <= start \/ k > position + Moved)
  BY <1>0, <1>3
<1> QED
  BY <1>4, <1>5, <1>6, <1>7

LEMMA FailingWrite ==
  ASSUME Inv, Seeking, DataInv, NEW i, AtBlock(i), call.op = "write", call.block \in Blocks,
         Rewritten(i), host # "reliable", NEW k \in 1..MaxSize,
         k <= EndOf(i) \/ k <= position + Moved
  PROVE  SpoiledByte(Before, k, ByteAt(i, k - 1)', start, call.done + Moved)
<1>0. /\ position \in Nat /\ start \in Nat /\ call.done \in Nat /\ position = start + call.done
      /\ Moved \in Nat /\ Moved > 0 /\ MaxSize \in Nat /\ index = position \div BLOCK_SIZE
      /\ i = entry /\ i \in Files(root_dir)
  BY DEF AtBlock
<1> SUFFICES ASSUME \A j \in (start + 1)..(start + (call.done + Moved)) :
                      Store!BlockOf(j) # Store!BlockOf(k)
             PROVE  KeptByte(Before, k, ByteAt(i, k - 1)')
  BY DEF SpoiledByte
<1>1. EndOf(i) \in Nat /\ position <= EndOf(i)
  BY <1>0, EndFacts DEF DataInv, AtBlock
<1>2. k - 1 \in 0..MaxSize /\ k \in Int
  BY <1>0
<1>3. (k - 1) \div BLOCK_SIZE # index
  <2>1. position + 1 \in (start + 1)..(start + (call.done + Moved)) /\ (position + 1) - 1 = position
    BY <1>0
  <2>2. Store!BlockOf(position + 1) # Store!BlockOf(k)
    BY <2>1
  <2> QED
    BY <1>0, <2>1, <2>2 DEF Store!BlockOf
<1>4. k \notin (start + 1)..(start + (call.done + Moved))
  OBVIOUS
<1>5. k \in 1..EndOf(i)
  BY <1>0, <1>1, <1>2, <1>4
<1>6. WrittenByte(host, Before, k, ByteAt(i, k - 1), start, buf, call.done)
  BY <1>0, <1>5 DEF DataInv, WrittenSoFar
<1>7. \A j \in (start + 1)..(start + call.done) : j \in (start + 1)..(start + (call.done + Moved))
  BY <1>0
<1>8. KeptByte(Before, k, ByteAt(i, k - 1))
  BY <1>6, <1>7 DEF WrittenByte, SpoiledByte
<1>9. Filled(ByteAt(i, k - 1), ByteAt(i, k - 1)')
  BY <1>2, <1>3 DEF Rewritten
<1> QED
  BY <1>8, <1>9, KeptFilled

(* fs_write has a block in hand.                                           *)
LEMMA WritePlaced ==
  ASSUME Inv, Seeking, Bounded, Located, WriteBlock, NEW i \in Files(root_dir), AtBlock(i),
         call.block # NoBlock
  PROVE  /\ Located' /\ Bounded' /\ Grown(i)
         /\ call'.op = "write" /\ call'.fd = call.fd /\ call'.done = call.done + Moved
         /\ call'.left = call.left - Moved
         /\ call' # Idle /\ entry' = i /\ start' = start /\ position' = position + Moved
         /\ call.block = 0 => UNCHANGED fat
<1>1. /\ call.pc = "block" /\ call.op = "write"
      /\ UNCHANGED <<root_dir, open_files>>
  BY DEF WriteBlock
<1>2. /\ call.block \in Blocks /\ call.block # FAT_EOC
      /\ call \in Frames /\ call.done \in Nat /\ call.left \in Nat /\ Moved \in Nat
      /\ start \in Nat /\ position \in Nat /\ position = start + call.done /\ i = entry
      /\ Moved > 0 /\ Moved <= call.left /\ position + call.left <= MaxSize /\ MaxSize \in Nat
      /\ index \in Nat /\ index <= MaxSize /\ index = position \div BLOCK_SIZE
      /\ root_dir[i].size \in Nat
  <2>1. call.block # FAT_EOC
    BY <1>1 DEF Inv, Typed, CallOK
  <2> QED
    BY <2>1 DEF AtBlock
<1>3. /\ call'.op = "write" /\ call'.fd = call.fd /\ call'.done = call.done + Moved
      /\ call'.left = call.left - Moved
      /\ \/ call.left = Moved /\ call'.pc = "return" /\ UNCHANGED fat
         \/ /\ call.left # Moved /\ call'.pc = "block"
            /\ call'.block \in Blocks \union {NoBlock} /\ get_next_fat(call.block, call'.block)
  <2>1. \/ /\ call.left = Moved
           /\ call' = [call EXCEPT !.pc = "return", !.done = @ + Moved, !.left = 0]
           /\ UNCHANGED fat
        \/ /\ call.left # Moved
           /\ \E nxt \in Blocks \union {NoBlock} :
                /\ get_next_fat(call.block, nxt)
                /\ call' = [call EXCEPT !.block = nxt, !.done = @ + Moved, !.left = @ - Moved]
    BY <1>1 DEF WriteBlock
  <2>2. CASE /\ call.left = Moved
             /\ call' = [call EXCEPT !.pc = "return", !.done = @ + Moved, !.left = 0]
             /\ UNCHANGED fat
    <3>1. call.left - Moved = 0
      BY <1>2, <2>2
    <3> QED
      BY <1>1, <1>2, <2>2, <3>1 DEF Frames
  <2>3. ASSUME call.left # Moved, NEW nxt \in Blocks \union {NoBlock},
               get_next_fat(call.block, nxt),
               call' = [call EXCEPT !.block = nxt, !.done = @ + Moved, !.left = @ - Moved]
        PROVE  /\ call'.op = "write" /\ call'.fd = call.fd /\ call'.done = call.done + Moved
               /\ call'.left = call.left - Moved
               /\ call.left # Moved /\ call'.pc = "block"
               /\ call'.block = nxt
    BY <1>1, <1>2, <2>3 DEF Frames
  <2> QED
    BY <2>1, <2>2, <2>3
<1>4. call' # Idle /\ entry' = i /\ start' = start /\ position' = position + Moved
  BY <1>1, <1>2, <1>3 DEF Idle, entry, start, position
<1>5. /\ Grown(i)
      /\ call.block = 0 => UNCHANGED fat
      /\ call.left # Moved =>
           /\ call'.block = NoBlock => Nth(i)'[index + 1] = FAT_EOC
           /\ call'.block # NoBlock => call'.block # 0 /\ Nth(i)'[index + 1] = call'.block
  <2>1. UNCHANGED fat => Grown(i) /\ Nth(i)' = Nth(i)
    BY <1>1, SameChains
  <2>2. CASE call.left = Moved
    BY <1>3, <2>1, <2>2
  <2>3. CASE call.left # Moved /\ call.block # 0
    <3>1. index + 1 \in 0..MaxSize /\ index + 1 <= MaxSize
      BY <1>2, <2>3 DEF AtBlock
    <3>2. Nth(i)[index] = call.block /\ call.block \in Blocks \ {0}
      BY <1>2, <2>3 DEF AtBlock, InPlace
    <3>3. PICK n \in Nat, nxt \in Blocks \union {NoBlock} : n = index /\ nxt = call'.block
      BY <1>2, <1>3, <2>3
    <3>4. get_next_fat(call.block, nxt)
      BY <1>3, <2>3, <3>3
    <3>5. /\ Grown(i)
          /\ nxt # NoBlock => nxt \in Blocks \ {0} /\ Nth(i)'[n + 1] = nxt
          /\ nxt = NoBlock => Nth(i)'[n + 1] = FAT_EOC
      BY <1>1, <3>1, <3>2, <3>3, <3>4, NextFatGrows
    <3> QED
      BY <2>3, <3>3, <3>5
  <2>4. CASE call.left # Moved /\ call.block = 0
    <3>1. FreeBlocks = {} /\ fat \in FatArray /\ fat[0] = FAT_EOC
      BY <1>1, <2>4, Heads DEF Inv, InHand
    <3>2. fat' = fat /\ call'.block = NoBlock
      BY <1>2, <1>3, <2>4, <3>1, NextFatCases, BlocksFacts
    <3>3. Nth(i)[index + 1] = FAT_EOC
      <4>1. index > 0 /\ Nth(i)[index - 1] = FAT_EOC /\ index + 1 <= MaxSize
        BY <2>4 DEF AtBlock, InPlace, NoBlock
      <4>2. index - 1 \in 0..MaxSize /\ index + 1 \in 0..MaxSize /\ index - 1 <= index + 1
        BY <1>2, <4>1
      <4> QED
        BY <4>1, <4>2, NthFacts
    <3> QED
      BY <2>1, <2>4, <3>2, <3>3
  <2> QED
    BY <2>2, <2>3, <2>4
<1>6. Located'
  <2>1. CASE call.left = Moved
    <3>1. call'.pc = "return" /\ call'.left = 0
      BY <1>2, <1>3, <2>1
    <3> QED
      BY <3>1 DEF Located, Searching
  <2>2. CASE call.left # Moved
    <3>1. index' = index + 1 /\ index' \in 0..MaxSize /\ position' % BLOCK_SIZE = 0
      <4>1. /\ (position + Moved) \div BLOCK_SIZE = index + 1 /\ index + 1 <= MaxSize
            /\ (position + Moved) % BLOCK_SIZE = 0
        BY <2>2 DEF AtBlock
      <4>2. index' = position' \div BLOCK_SIZE
        BY <1>3, <2>2 DEF index
      <4> QED
        BY <1>2, <1>4, <4>1, <4>2
    <3>2. InPlace(entry, index, call.block)'
      <4>1. PICK n, b : n = index' /\ b = call'.block
        OBVIOUS
      <4>2. IF b = NoBlock THEN Nth(i)'[n] = FAT_EOC
            ELSE IF b = 0 THEN n > 0 /\ Nth(i)'[n - 1] = FAT_EOC
            ELSE Nth(i)'[n] = b
        BY <1>5, <2>2, <3>1, <4>1
      <4> QED
        BY <1>4, <4>1, <4>2, PlaceIs
    <3>3. call'.left > 0 /\ call'.pc = "block" /\ call'.block # 0
      BY <1>2, <1>3, <1>5, <2>2, BlocksFacts DEF NoBlock
    <3> QED
      BY <3>1, <3>2, <3>3 DEF Located
  <2> QED
    BY <2>1, <2>2
<1>7. Bounded'
  BY <1>1, <1>2, <1>3, <1>4 DEF Bounded
<1> QED
  BY <1>1, <1>3, <1>4, <1>5, <1>6, <1>7

LEMMA WriteKeepsData ==
  ASSUME Inv, Seeking, DataInv, WriteData, UNCHANGED <<host, seen>>
  PROVE  DataInv'
<1>0. /\ call.pc = "block" /\ call.op = "write" /\ WriteBlock
      /\ UNCHANGED <<root_dir, open_files, buf>>
  BY DEF WriteData, WriteBlock
<1> PICK i \in Files(root_dir) : AtBlock(i)
  BY <1>0, BlockFacts DEF DataInv
<1>1. CASE call.block = NoBlock
  <2>1. call' = [call EXCEPT !.pc = "return"] /\ UNCHANGED <<fat, data>>
    BY <1>1 DEF WriteData, WriteBlock
  <2> QED
    BY <1>0, <1>1, <2>1, StopKeepsData
<1>2. CASE call.block # NoBlock
  <2>0. /\ call.block \in Blocks /\ call.block # FAT_EOC
        /\ call \in Frames /\ call.done \in Nat /\ call.left \in Nat /\ Moved \in Nat
        /\ start \in Nat /\ position \in Nat /\ position = start + call.done /\ i = entry
        /\ Moved > 0 /\ Moved <= call.left /\ position + call.left <= MaxSize /\ MaxSize \in Nat
        /\ index \in Nat /\ index <= MaxSize /\ index = position \div BLOCK_SIZE
        /\ root_dir[i].size \in Nat
    <3>1. call.block # FAT_EOC
      BY <1>0 DEF Inv, Typed, CallOK
    <3> QED
      BY <1>2, <3>1 DEF AtBlock
  <2>1. PICK bounce \in Block :
          block_read(call.block, bounce) /\ block_write(call.block, Patched(bounce))
    BY <1>2 DEF WriteData
  <2>2. /\ data' \in [Blocks -> Block]
        /\ \A x \in Blocks \ {call.block} : data'[x] = data[x]
        /\ host = "reliable" => data'[call.block] = Patched(data[call.block])
    BY <1>0, <2>0, <2>1, BlockWritten DEF DataInv, WrittenSoFar
  <2>3. /\ Located' /\ Bounded' /\ Grown(i)
        /\ call'.op = "write" /\ call'.fd = call.fd /\ call'.done = call.done + Moved
        /\ call'.left = call.left - Moved
        /\ call' # Idle /\ entry' = i /\ start' = start /\ position' = position + Moved
        /\ call.block = 0 => UNCHANGED fat
    BY <1>0, <1>2, WritePlaced DEF DataInv
  <2>4. \A k \in 0..MaxSize :
          /\ \A j \in Files(root_dir) : j # i => ByteOf(Nth(j), data', k) = ByteAt(j, k)
          /\ call.block = 0 \/ k \div BLOCK_SIZE # index =>
               ByteOf(Nth(i), data', k) = ByteAt(i, k)
          /\ host = "reliable" /\ call.block # 0 =>
               ByteOf(Nth(i), data', k) =
                 IF k \in position..(position + Moved - 1) THEN buf[k + 1 - start] ELSE ByteAt(i, k)
    BY <1>0, <2>0, <2>2, BytesWritten
  <2>5. StepOn(i)
    <3>1. call.block \notin FreeBlocks /\ FreeBlocks \subseteq Blocks
      BY <2>0 DEF Inv, InHand, FreeBlocks
    <3>2. \A b \in FreeBlocks : data'[b] = data[b]
      BY <2>2, <3>1
    <3>3. call # Idle
      BY DEF AtBlock
    <3> QED
      BY <1>0, <2>0, <2>3, <2>4, <3>2, <3>3 DEF StepOn
  <2>6. Rewritten(i)
    <3>1. ASSUME NEW k \in 0..MaxSize, call.block = 0 \/ k \div BLOCK_SIZE <= index
          PROVE  ByteAt(i, k)' = ByteOf(Nth(i), data', k)
      <4>1. CASE call.block = 0
        <5>1. Nth(i)' = Nth(i)
          BY <1>0, <2>3, <4>1, SameChains
        <5> QED
          BY <5>1 DEF ByteAt
      <4>2. CASE call.block # 0 /\ k \div BLOCK_SIZE <= index
        <5>1. Nth(i)[index] # FAT_EOC
          BY <1>2, <2>0, <4>2 DEF AtBlock, InPlace
        <5>2. k \div BLOCK_SIZE \in 0..MaxSize /\ index \in 0..MaxSize
          <6>1. k \in Nat /\ k \div BLOCK_SIZE \in Nat
            BY <2>0, DivMod
          <6> QED
            BY <2>0, <4>2, <6>1
        <5>3. Nth(i)[k \div BLOCK_SIZE] # FAT_EOC
          BY <4>2, <5>1, <5>2, NthFacts
        <5> QED
          BY <2>5, <5>3, StepBytes DEF DataInv
      <4> QED
        BY <3>1, <4>1, <4>2
    <3>2. \A k \in 0..MaxSize : Filled(ByteOf(Nth(i), data', k), ByteAt(i, k)')
      BY <2>5, StepBytes DEF DataInv
    <3> QED
      BY <2>4, <3>1, <3>2 DEF Rewritten
  <2>7. DataOK'
    BY <1>0, <2>2 DEF DataOK, DataInv
  <2>8. FreshZero' /\ Seen' /\ Before' = Before
    BY <2>5, StepFresh, StepSeen DEF DataInv, AtBlock
  <2>9. /\ \A j \in Files(root_dir) :
              /\ EndOf(j)' \in Nat /\ EndOf(j) \in Nat /\ EndOf(j) <= EndOf(j)'
              /\ j # i => EndOf(j)' = EndOf(j)
         /\ EndOf(i)' = (IF position + Moved > root_dir[i].size THEN position + Moved ELSE root_dir[i].size)
         /\ EndOf(i) = (IF position > root_dir[i].size THEN position ELSE root_dir[i].size)
    <3>1. EndOf(i)' = (IF position + Moved > root_dir[i].size THEN position + Moved ELSE root_dir[i].size)
      BY <1>0, <2>3 DEF EndOf
    <3>2. EndOf(i) = (IF position > root_dir[i].size THEN position ELSE root_dir[i].size)
      BY <1>0, <2>0 DEF EndOf
    <3>3. \A j \in Files(root_dir) : j # i => EndOf(j)' = EndOf(j)
      BY <1>0, <2>0, <2>3 DEF EndOf
    <3>4. \A j \in Files(root_dir) : EndOf(j) \in Nat
      BY EndFacts DEF DataInv
    <3>5. EndOf(i) <= EndOf(i)' /\ EndOf(i)' \in Nat
      BY <2>0, <3>1, <3>2
    <3> QED
      BY <3>1, <3>2, <3>3, <3>4, <3>5
  <2>10. Tails'
    <3>1. host = "reliable" =>
            \A k \in 0..(MaxSize - 1) : EndOf(i)' <= k => ByteOf(Nth(i), data', k) = ByteAt(i, k)
      <4> SUFFICES ASSUME host = "reliable", NEW k \in 0..(MaxSize - 1), EndOf(i)' <= k
                   PROVE  ByteOf(Nth(i), data', k) = ByteAt(i, k)
        OBVIOUS
      <4>1. k \in 0..MaxSize /\ k \notin position..(position + Moved - 1)
        BY <2>0, <2>9
      <4> QED
        BY <2>4, <4>1
    <3> QED
      BY <2>5, <2>9, <3>1, StepTails
  <2>11. ReadSoFar'
    BY <2>3 DEF ReadSoFar
  <2>12. WrittenSoFar'
    <3>1. \A k : ByteAt(entry, k)' = ByteAt(i, k)'
      BY <2>3, EntryIs
    <3>2. EndOf(entry)' = EndOf(i)'
      BY <2>3, EntryIs
    <3>3. ASSUME NEW k \in 1..EndOf(i)'
          PROVE  WrittenByte(host', Before', k, ByteAt(i, k - 1)', start', buf', call'.done)
      <4>1. k \in 1..MaxSize /\ (k <= EndOf(i) \/ k <= position + Moved)
        <5>1. root_dir[i].size <= MaxSize
          BY DEF AtBlock
        <5> QED
          BY <2>0, <2>9, <3>3, <5>1
      <4>2. CASE host = "reliable"
        BY <1>0, <2>0, <2>3, <2>6, <2>8, <4>1, <4>2, ReliableWrite DEF WrittenByte
      <4>3. CASE host # "reliable"
        BY <1>0, <2>0, <2>3, <2>6, <2>8, <4>1, <4>3, FailingWrite DEF WrittenByte
      <4> QED
        BY <4>2, <4>3
    <3>4. buf' \in Buffers /\ call'.done + call'.left <= Len(buf')
      BY <1>0, <2>0, <2>3 DEF DataInv, WrittenSoFar
    <3> QED
      BY <3>1, <3>2, <3>3, <3>4 DEF WrittenSoFar
  <2> QED
    BY <2>3, <2>7, <2>8, <2>10, <2>11, <2>12 DEF DataInv
<1> QED
  BY <1>1, <1>2

(* What fs_read adds to the buffer of the client.                          *)
LEMMA PieceRead ==
  ASSUME Inv, DataOK, Len(buf) = call.done, NEW i, AtBlock(i), call.block \in Blocks,
         NEW bounce \in Block, block_read(call.block, bounce), buf' = buf \o Piece(bounce)
  PROVE  /\ buf' \in Seq(Bytes) /\ Len(buf') = call.done + Moved
         /\ \A k \in 1..call.done : buf'[k] = buf[k]
         /\ host = "reliable" =>
              \A x \in 0..(Moved - 1) :
                buf'[call.done + x + 1] = data[call.block][(position % BLOCK_SIZE) + x]
<1>1. /\ buf \in Seq(Bytes) /\ Len(buf) = call.done /\ call.done \in Nat /\ Moved \in Nat
      /\ offset_in_current_block = position % BLOCK_SIZE
  BY DEF DataOK, AtBlock
<1> DEFINE off == position % BLOCK_SIZE
           piece == Piece(bounce)
<1>2. off \in Int
  <2>1. off \in InBlock
    BY DivMod DEF AtBlock
  <2> QED
    BY <2>1, GeometryAssumption DEF InBlock
<1>3. piece = [k \in 1..Moved |-> bounce[off + k - 1]]
  BY <1>1 DEF Piece
<1>4. \A k \in 1..Moved : bounce[off + k - 1] \in Bytes
  <2> SUFFICES ASSUME NEW k \in 1..Moved
               PROVE  bounce[off + k - 1] \in Bytes
    OBVIOUS
  <2>1. k - 1 \in Nat /\ k - 1 < Moved
    BY <1>1
  <2>2. off + (k - 1) \in InBlock
    BY <2>1, BytesInHand
  <2>3. off + (k - 1) = off + k - 1
    BY <1>2, <2>1
  <2> HIDE DEF off
  <2> QED
    BY <2>2, <2>3 DEF Block
<1> HIDE DEF off, piece
<1>5. piece \in [1..Moved -> Bytes]
  BY <1>3, <1>4
<1>6. piece \in Seq(Bytes) /\ Len(piece) = Moved
  BY <1>1, <1>5, AsSequence
<1>7. buf' = buf \o piece
  BY DEF piece
<1>8. /\ buf \o piece \in Seq(Bytes) /\ Len(buf \o piece) = call.done + Moved
      /\ \A k \in 1..(call.done + Moved) :
           (buf \o piece)[k] = IF k <= call.done THEN buf[k] ELSE piece[k - call.done]
  <2>1. /\ buf \o piece \in Seq(Bytes) /\ Len(buf \o piece) = Len(buf) + Len(piece)
        /\ \A k \in 1..(Len(buf) + Len(piece)) :
             (buf \o piece)[k] = IF k <= Len(buf) THEN buf[k] ELSE piece[k - Len(buf)]
    <3>1. buf \in Seq(Bytes) /\ piece \in Seq(Bytes)
      BY <1>1, <1>6
    <3> QED
      BY <3>1, ConcatProperties, Zenon
  <2> QED
    BY <1>1, <1>6, <2>1
<1>9. \A k \in 1..call.done : buf'[k] = buf[k]
  BY <1>1, <1>7, <1>8
<1>10. ASSUME host = "reliable", NEW x \in 0..(Moved - 1)
       PROVE  buf'[call.done + x + 1] = data[call.block][off + x]
  <2>1. /\ call.done + x + 1 \in 1..(call.done + Moved) /\ ~(call.done + x + 1 <= call.done)
        /\ (call.done + x + 1) - call.done = x + 1 /\ x + 1 \in 1..Moved
        /\ off + (x + 1) - 1 = off + x
    BY <1>1, <1>2
  <2>2. buf'[call.done + x + 1] = piece[x + 1]
    BY <1>7, <1>8, <2>1
  <2>3. piece[x + 1] = bounce[off + x]
    BY <1>3, <2>1
  <2>4. bounce = data[call.block]
    BY <1>10 DEF block_read
  <2> QED
    BY <2>2, <2>3, <2>4
<1> QED
  BY <1>7, <1>8, <1>9, <1>10 DEF off

(* fs_read has a block in hand.                                            *)
LEMMA ReadPlaced ==
  ASSUME Inv, Seeking, Bounded, Located, ReadBlock, NEW i \in Files(root_dir), AtBlock(i),
         call.block \notin {NoBlock, FAT_EOC}
  PROVE  /\ Located' /\ Bounded' /\ Grown(i)
         /\ call'.op = "read" /\ call'.fd = call.fd /\ call'.done = call.done + Moved
         /\ call'.left = call.left - Moved
         /\ call' # Idle /\ entry' = i /\ start' = start /\ position' = position + Moved
<1>1. /\ call.pc = "block" /\ call.op = "read"
      /\ UNCHANGED <<fat, root_dir, open_files>>
  BY DEF ReadBlock, memory
<1>2. /\ call.block \in Blocks
      /\ call \in Frames /\ call.done \in Nat /\ call.left \in Nat /\ Moved \in Nat
      /\ start \in Nat /\ position \in Nat /\ position = start + call.done /\ i = entry
      /\ Moved > 0 /\ Moved <= call.left /\ position + call.left <= MaxSize /\ MaxSize \in Nat
      /\ index \in Nat /\ index <= MaxSize /\ index = position \div BLOCK_SIZE
      /\ root_dir[i].size \in Nat /\ position + call.left <= root_dir[i].size
      /\ call # Idle
  BY <1>1 DEF AtBlock
<1>3. /\ call'.op = "read" /\ call'.fd = call.fd /\ call'.done = call.done + Moved
      /\ call'.left = call.left - Moved
      /\ \/ call.left = Moved /\ call'.pc = "return"
         \/ call.left # Moved /\ call'.pc = "block" /\ call'.block = fat[call.block]
  <2>1. \/ /\ call.left = Moved
           /\ call' = [call EXCEPT !.pc = "return", !.done = @ + Moved, !.left = 0]
        \/ /\ call.left # Moved
           /\ call' = [call EXCEPT !.block = get_fat_at_index(call.block),
                                   !.done = @ + Moved, !.left = @ - Moved]
    BY <1>1 DEF ReadBlock
  <2>2. CASE /\ call.left = Moved
             /\ call' = [call EXCEPT !.pc = "return", !.done = @ + Moved, !.left = 0]
    <3>1. call.left - Moved = 0
      BY <1>2, <2>2
    <3> QED
      BY <1>1, <1>2, <2>2, <3>1 DEF Frames
  <2>3. CASE /\ call.left # Moved
             /\ call' = [call EXCEPT !.block = get_fat_at_index(call.block),
                                     !.done = @ + Moved, !.left = @ - Moved]
    <3>1. get_fat_at_index(call.block) = fat[call.block]
      BY DEF get_fat_at_index
    <3> QED
      BY <1>1, <1>2, <2>3, <3>1 DEF Frames
  <2> QED
    BY <2>1, <2>2, <2>3
<1>4. call' # Idle /\ entry' = i /\ start' = start /\ position' = position + Moved
  BY <1>1, <1>2, <1>3 DEF Idle, entry, start, position
<1>5. Grown(i) /\ Nth(i)' = Nth(i)
  BY <1>1, SameChains
<1>6. Located'
  <2>1. CASE call.left = Moved
    <3>1. call'.pc = "return" /\ call'.left = 0
      BY <1>2, <1>3, <2>1
    <3> QED
      BY <3>1 DEF Located, Searching
  <2>2. CASE call.left # Moved
    <3>1. index' = index + 1 /\ index' \in 0..MaxSize /\ position' % BLOCK_SIZE = 0
      <4>1. /\ (position + Moved) \div BLOCK_SIZE = index + 1 /\ index + 1 <= MaxSize
            /\ (position + Moved) % BLOCK_SIZE = 0
        BY <2>2 DEF AtBlock
      <4>2. index' = position' \div BLOCK_SIZE
        BY <1>3, <2>2 DEF index
      <4> QED
        BY <1>2, <1>4, <4>1, <4>2
    <3>2. fat[call.block] # NoBlock /\ fat[call.block] # 0 /\ Nth(i)[index + 1] = fat[call.block]
      <4>0. fat \in FatArray /\ fat[0] = FAT_EOC /\ FAT_EOC # 0 /\ NoBlock \notin Blocks
            /\ NoBlock # FAT_EOC
        BY Heads, BlocksFacts
      <4>1. CASE call.block = 0
        <5>1. index > 0 /\ Nth(i)[index - 1] = FAT_EOC /\ index + 1 <= MaxSize
          BY <2>2, <3>1, <4>1 DEF AtBlock, InPlace, NoBlock
        <5>2. index - 1 \in 0..MaxSize /\ index + 1 \in 0..MaxSize /\ index - 1 <= index + 1
          BY <1>2, <5>1
        <5>3. Nth(i)[index + 1] = FAT_EOC
          BY <5>1, <5>2, NthFacts
        <5> QED
          BY <4>0, <4>1, <5>3
      <4>2. CASE call.block # 0
        <5>1. Nth(i)[index] = call.block /\ call.block # FAT_EOC /\ index \in 0..MaxSize
          BY <1>2, <4>2 DEF AtBlock, InPlace
        <5>2. Nth(i)[index + 1] = fat[call.block]
          <6>1. index + 1 \in 0..MaxSize
            BY <3>1
          <6>2. Nth(i)[index + 1] = Link(fat, Nth(i)[index])
            BY <1>2, <6>1, NthFacts
          <6> QED
            BY <5>1, <6>2 DEF Link
        <5>3. fat[call.block] # 0
          BY <5>1, NthFacts
        <5>4. fat[call.block] \in Blocks \union {FAT_EOC}
          BY <1>2, <4>0 DEF FatArray
        <5> QED
          BY <4>0, <5>2, <5>3, <5>4
      <4> QED
        BY <4>1, <4>2
    <3>3. InPlace(entry, index, call.block)'
      <4>1. PICK n, b : n = index' /\ b = call'.block
        OBVIOUS
      <4>2. b # NoBlock /\ b # 0 /\ Nth(i)'[n] = b
        BY <1>3, <1>5, <2>2, <3>1, <3>2, <4>1
      <4> QED
        BY <1>4, <4>1, <4>2, PlaceIs
    <3>4. call'.left > 0 /\ call'.pc = "block" /\ call'.block # 0
      BY <1>2, <1>3, <2>2, <3>2
    <3> QED
      BY <3>1, <3>3, <3>4 DEF Located
  <2> QED
    BY <2>1, <2>2
<1>7. Bounded'
  BY <1>1, <1>2, <1>3, <1>4 DEF Bounded
<1> QED
  BY <1>1, <1>3, <1>4, <1>5, <1>6, <1>7

LEMMA ReadKeepsData ==
  ASSUME Inv, Seeking, DataInv, ReadData, UNCHANGED <<host, seen>>
  PROVE  DataInv'
<1>0. /\ call.pc = "block" /\ call.op = "read" /\ ReadBlock
      /\ UNCHANGED <<fat, root_dir, open_files, data>>
  BY DEF ReadData, ReadBlock, memory
<1> PICK i \in Files(root_dir) : AtBlock(i)
  BY <1>0, BlockFacts DEF DataInv
<1>1. CASE call.block \in {NoBlock, FAT_EOC}
  <2>1. call' = [call EXCEPT !.pc = "return"] /\ UNCHANGED buf
    BY <1>1 DEF ReadData, ReadBlock
  <2> QED
    BY <1>0, <1>1, <2>1, StopKeepsData
<1>2. CASE call.block \notin {NoBlock, FAT_EOC}
  <2>0. /\ call.block \in Blocks
        /\ call \in Frames /\ call.done \in Nat /\ call.left \in Nat /\ Moved \in Nat
        /\ start \in Nat /\ position \in Nat /\ position = start + call.done /\ i = entry
        /\ Moved > 0 /\ Moved <= call.left /\ position + call.left <= MaxSize /\ MaxSize \in Nat
        /\ index \in Nat /\ index <= MaxSize /\ index = position \div BLOCK_SIZE
        /\ root_dir[i].size \in Nat /\ position + call.left <= root_dir[i].size
        /\ call # Idle
    BY <1>0, <1>2 DEF AtBlock
  <2>1. PICK bounce \in Block :
          block_read(call.block, bounce) /\ buf' = buf \o Piece(bounce)
    BY <1>2 DEF ReadData
  <2>2. /\ buf' \in Seq(Bytes) /\ Len(buf') = call.done + Moved
        /\ \A k \in 1..call.done : buf'[k] = buf[k]
        /\ host = "reliable" =>
             \A x \in 0..(Moved - 1) :
               buf'[call.done + x + 1] = data[call.block][(position % BLOCK_SIZE) + x]
    BY <1>0, <2>0, <2>1, PieceRead DEF DataInv, ReadSoFar
  <2>3. /\ Located' /\ Bounded' /\ Grown(i)
        /\ call'.op = "read" /\ call'.fd = call.fd /\ call'.done = call.done + Moved
        /\ call'.left = call.left - Moved
        /\ call' # Idle /\ entry' = i /\ start' = start /\ position' = position + Moved
    BY <1>0, <1>2, ReadPlaced DEF DataInv
  <2>4. StepOn(i)
    BY <1>0, <2>0, <2>3 DEF StepOn, ByteAt
  <2>5. DataOK'
    BY <1>0, <2>2 DEF DataOK, DataInv
  <2>6. FreshZero' /\ Seen' /\ Before' = Before
    BY <2>0, <2>4, StepFresh, StepSeen DEF DataInv
  <2>7. \A j \in Files(root_dir) : EndOf(j)' = EndOf(j) /\ EndOf(j) \in Nat
    <3>1. \A j \in Files(root_dir) : EndOf(j)' = EndOf(j)
      BY <1>0, <2>3 DEF EndOf
    <3> QED
      BY <3>1, EndFacts DEF DataInv
  <2>8. Tails'
    BY <1>0, <2>4, <2>7, StepTails DEF ByteAt
  <2>9. \A k \in 1..root_dir[i].size : KeptByte(Before', k, ByteAt(entry, k - 1)')
    BY <1>0, <2>3, <2>4, StepKept, EntryIs
  <2>10. ReadSoFar'
    <3>1. \E count \in Counts : call'.done + call'.left = MinOf(count, root_dir'[entry'].size - start')
      <4>1. call'.done + call'.left = call.done + call.left
        BY <2>0, <2>3
      <4> QED
        BY <1>0, <2>0, <2>3, <4>1 DEF DataInv, ReadSoFar
    <3>2. ASSUME NEW k \in 1..(call.done + Moved)
          PROVE  ReadByte(host, Before, k, buf'[k], start)
      <4>1. CASE k <= call.done
        <5>1. k \in 1..call.done
          BY <2>0, <4>1
        <5> QED
          BY <1>0, <2>2, <5>1 DEF DataInv, ReadSoFar
      <4>2. CASE ~(k <= call.done)
        <5> SUFFICES ASSUME host = "reliable"
                     PROVE  \/ Before[start + k] = buf'[k]
                            \/ /\ Before[start + k] = Hole
                               /\ buf'[k] = 0 \/ Store!HoleBefore(Before, start)
          BY DEF ReadByte
        <5> DEFINE x == k - call.done - 1
        <5>1. /\ x \in 0..(Moved - 1) /\ x \in Nat /\ x < Moved /\ call.done + x + 1 = k
              /\ start + k \in 1..root_dir[i].size /\ (start + k) - 1 = position + x
          BY <2>0, <4>2
        <5> HIDE DEF x
        <5>2. buf'[k] = data[call.block][(position % BLOCK_SIZE) + x]
          BY <2>2, <5>1
        <5>3. KeptByte(Before, start + k, ByteAt(i, position + x))
          BY <1>0, <2>0, <5>1 DEF DataInv, ReadSoFar
        <5>4. CASE call.block # 0
          <6>1. ByteAt(i, position + x) = buf'[k]
            BY <2>0, <5>1, <5>2, <5>4, BytesInHand
          <6> QED
            BY <5>3, <6>1 DEF KeptByte
        <5>5. CASE call.block = 0
          <6>1. ByteAt(i, position + x) = Hole
            BY <5>1, <5>5, BytesInHand
          <6>2. Before[start + k] = Hole
            BY <5>3, <6>1, HoleFacts DEF KeptByte
          <6> QED
            BY <5>5, <6>2, BehindHole
        <5> QED
          BY <5>4, <5>5
      <4> QED
        BY <4>1, <4>2
    <3> QED
      BY <1>0, <2>0, <2>2, <2>3, <2>6, <2>9, <3>1, <3>2 DEF ReadSoFar
  <2>11. WrittenSoFar'
    BY <2>3 DEF WrittenSoFar
  <2> QED
    BY <2>3, <2>5, <2>6, <2>8, <2>10, <2>11 DEF DataInv
<1> QED
  BY <1>1, <1>2
-----------------------------------------------------------------------------
(***************************************************************************)
(* Part 8: ... and when no call is in progress any more.                   *)
(***************************************************************************)
LEMMA AtRest ==
  ASSUME DataInv, call' = Idle, seen' = Contents', UNCHANGED <<fat, data, host>>,
         buf' \in Seq(Bytes),
         \A j \in Files(root_dir') :
           /\ root_dir'[j].size <= MaxSize
           /\ host = "reliable" =>
                \A k \in 0..(MaxSize - 1) : root_dir'[j].size <= k => ByteAt(j, k)' \in {0, Hole}
  PROVE  DataInv'
<1>1. call'.pc = "idle" /\ call'.op = "none"
  BY DEF Idle
<1>2. Located' /\ ReadSoFar' /\ WrittenSoFar'
  BY <1>1 DEF Located, Searching, ReadSoFar, WrittenSoFar
<1>3. Bounded' /\ Seen'
  BY DEF Bounded, Seen
<1>4. DataOK' /\ FreshZero'
  BY DEF DataInv, DataOK, FreshZero
<1>5. \A j : EndOf(j)' = root_dir'[j].size
  BY <1>1 DEF EndOf
<1>6. Tails'
  BY <1>5 DEF Tails
<1> QED
  BY <1>2, <1>3, <1>4, <1>6 DEF DataInv

LEMMA ReturnKeepsData ==
  ASSUME Inv, Seeking, DataInv, Return, UNCHANGED <<data, buf, host>>, seen' = Contents'
  PROVE  DataInv'
<1>0. call.pc = "return" /\ call # Idle /\ call' = Idle /\ UNCHANGED fat
  BY DEF Return, Idle
<1> PICK i \in Files(root_dir) : i = entry
  BY <1>0, Calling DEF DataInv
<1>1. i \in Slots /\ root_dir \in RootDir /\ call.op \in {"read", "write"}
  BY <1>0, Calling DEF DataInv, Inv, Typed, TypeOK
<1>2. /\ \A j \in Slots : /\ root_dir'[j].filename = root_dir[j].filename
                          /\ root_dir'[j].data_index = root_dir[j].data_index
                          /\ root_dir'[j].size = EndOf(j)
  <2>1. \/ call.op = "write" /\ position > root_dir[i].size
           /\ root_dir' = [root_dir EXCEPT ![i].size = position]
        \/ ~(call.op = "write" /\ position > root_dir[i].size) /\ root_dir' = root_dir
    BY DEF Return, entry, start, position
  <2> QED
    BY <1>1, <2>1 DEF EndOf, RootDir
<1>3. \A j \in Files(root_dir') : j \in Files(root_dir) /\ j \in Slots
  BY <1>2 DEF Files, no_file_exists
<1>4. \A j \in Files(root_dir) : EndOf(j) <= MaxSize
  BY EndFacts DEF DataInv
<1>5. ASSUME NEW j \in Files(root_dir'), host = "reliable", NEW k \in 0..(MaxSize - 1),
             root_dir'[j].size <= k
      PROVE  ByteAt(j, k)' \in {0, Hole}
  <2>1. ByteAt(j, k) \in {0, Hole}
    BY <1>2, <1>3, <1>5 DEF DataInv, Tails
  <2>2. Nth(j)' = Nth(j)
    BY <1>0, <1>2, <1>3 DEF Nth
  <2>3. ByteAt(j, k)' = ByteAt(j, k)
    BY <2>2 DEF ByteAt
  <2> QED
    BY <2>1, <2>3
<1>6. buf' \in Seq(Bytes)
  BY DEF DataInv, DataOK
<1> QED
  BY <1>0, <1>2, <1>3, <1>4, <1>5, <1>6, AtRest

(* The files after a call that moves no bytes.                             *)
LEMMA QuietFiles ==
  ASSUME Inv, DataInv, Quiet
  PROVE  /\ call = Idle /\ call' = Idle /\ UNCHANGED <<fat, data>> /\ buf' = <<>>
         /\ \A j \in Files(root_dir') :
              /\ j \in Slots
              /\ \/ root_dir'[j].size = 0 /\ root_dir'[j].data_index = FAT_EOC
                 \/ /\ j \in Files(root_dir)
                    /\ root_dir'[j].data_index = root_dir[j].data_index
                    /\ \/ root_dir'[j].size = root_dir[j].size
                       \/ root_dir'[j].size = root_dir[j].size + 1 /\ root_dir[j].size < MaxSize
<1> DEFINE Kept(j) ==
             \/ root_dir'[j].size = 0 /\ root_dir'[j].data_index = FAT_EOC
             \/ /\ j \in Files(root_dir)
                /\ root_dir'[j].data_index = root_dir[j].data_index
                /\ \/ root_dir'[j].size = root_dir[j].size
                   \/ root_dir'[j].size = root_dir[j].size + 1 /\ root_dir[j].size < MaxSize
<1>0. UNCHANGED data /\ buf' = <<>> /\ root_dir \in RootDir
  BY DEF Quiet, Inv, Typed, TypeOK
<1>1. call = Idle /\ call' = Idle
  BY DEF Quiet, fs_mount, fs_create, CreatesAt, fs_delete, fs_open, fs_close, fs_lseek,
         UmountFat, UmountRoot, Ready, Inv, Typed, CallOK
<1>2. CASE \/ Formatted /\ fs_mount
           \/ \E name \in Names : fs_open(name)
           \/ \E fd \in Fds : fs_close(fd)
           \/ UmountFat \/ UmountRoot
  <2>1. UNCHANGED <<fat, root_dir>>
    BY <1>2, QuietSteps
  <2> QED
    BY <1>0, <1>1, <2>1 DEF Files
<1>3. ASSUME NEW name \in Names, fs_create(name) \/ fs_delete(name)
      PROVE  UNCHANGED fat /\ \A j \in Files(root_dir') : Kept(j)
  <2>1. UNCHANGED fat
    BY <1>3 DEF fs_create, fs_delete
  <2>2. PICK k \in Slots : root_dir' = [root_dir EXCEPT ![k] = NewFile(name)]
                           \/ root_dir' = [root_dir EXCEPT ![k] = FreeEntry]
    BY <1>3 DEF fs_create, fs_delete
  <2>3. root_dir'[k].size = 0 /\ root_dir'[k].data_index = FAT_EOC
        /\ \A j \in Slots : j # k => root_dir'[j] = root_dir[j]
    BY <1>0, <2>2 DEF RootDir, NewFile, FreeEntry
  <2> QED
    BY <2>1, <2>3 DEF Files
<1>4. ASSUME NEW fd \in Fds, NEW offset \in 0..MaxSize, fs_lseek(fd, offset)
      PROVE  UNCHANGED fat /\ \A j \in Files(root_dir') : Kept(j)
  <2> DEFINE i == open_files[fd].index_in_rootdir
  <2>1. i \in Slots
    BY DEF Inv, Typed, TypeOK
  <2>2. \/ UNCHANGED root_dir
        \/ root_dir[i].size < MaxSize /\ root_dir' = [root_dir EXCEPT ![i].size = @ + 1]
    BY <1>4 DEF fs_lseek
  <2>3. UNCHANGED fat
    BY <1>4 DEF fs_lseek
  <2> HIDE DEF i
  <2>4. \A j \in Slots : /\ root_dir'[j].filename = root_dir[j].filename
                         /\ root_dir'[j].data_index = root_dir[j].data_index
                         /\ \/ root_dir'[j].size = root_dir[j].size
                            \/ root_dir'[j].size = root_dir[j].size + 1 /\ root_dir[j].size < MaxSize
    BY <1>0, <2>1, <2>2 DEF RootDir
  <2> QED
    BY <2>3, <2>4 DEF Files, no_file_exists
<1>5. UNCHANGED fat /\ \A j \in Files(root_dir') : Kept(j)
  BY <1>0, <1>2, <1>3, <1>4, QuietSteps DEF Quiet
<1>6. \A j \in Files(root_dir') : j \in Slots
  BY DEF Files
<1> QED
  BY <1>0, <1>1, <1>5, <1>6

LEMMA QuietKeepsData ==
  ASSUME Inv, DataInv, Quiet, UNCHANGED host, seen' = Contents'
  PROVE  DataInv'
<1>1. /\ call = Idle /\ call' = Idle /\ UNCHANGED <<fat, data>> /\ buf' = <<>>
      /\ \A j \in Files(root_dir') :
           /\ j \in Slots
           /\ \/ root_dir'[j].size = 0 /\ root_dir'[j].data_index = FAT_EOC
              \/ /\ j \in Files(root_dir)
                 /\ root_dir'[j].data_index = root_dir[j].data_index
                 /\ \/ root_dir'[j].size = root_dir[j].size
                    \/ root_dir'[j].size = root_dir[j].size + 1 /\ root_dir[j].size < MaxSize
  BY QuietFiles
<1>2. buf' \in Seq(Bytes)
  BY <1>1, EmptySeq
<1>3. root_dir \in RootDir /\ fat \in FatArray /\ MaxSize \in Nat
  BY BoundsAssumption DEF Inv, Typed, TypeOK
<1>4. ASSUME NEW j \in Files(root_dir')
      PROVE  /\ root_dir'[j].size <= MaxSize
             /\ host = "reliable" =>
                  \A k \in 0..(MaxSize - 1) : root_dir'[j].size <= k => ByteAt(j, k)' \in {0, Hole}
  <2>1. CASE root_dir'[j].size = 0 /\ root_dir'[j].data_index = FAT_EOC
    <3>1. ASSUME NEW k \in 0..(MaxSize - 1)
          PROVE  ByteAt(j, k)' = Hole
      <4>1. k \div BLOCK_SIZE \in 0..MaxSize
        <5>1. k \in Nat /\ k <= MaxSize
          BY <1>3
        <5>2. k \div BLOCK_SIZE \in Nat /\ k \div BLOCK_SIZE <= k
          BY <5>1, DivMod
        <5> QED
          BY <1>3, <5>1, <5>2
      <4>2. Nth(j)' = NthBlock(fat, FAT_EOC)
        BY <1>1, <2>1 DEF Nth
      <4>3. NthBlock(fat, FAT_EOC)[k \div BLOCK_SIZE] = FAT_EOC
        <5>1. FAT_EOC \in Links /\ 0 \in 0..MaxSize /\ 0 <= k \div BLOCK_SIZE
          BY <1>3, <4>1 DEF Links
        <5>2. NthBlock(fat, FAT_EOC)[0] = FAT_EOC
          BY <1>3, <5>1, NthIsFunction
        <5> QED
          BY <1>3, <4>1, <5>1, <5>2, NthEnds
      <4> QED
        BY <4>2, <4>3 DEF ByteAt, ByteOf
    <3> QED
      BY <1>3, <2>1, <3>1
  <2>2. CASE /\ j \in Files(root_dir)
             /\ root_dir'[j].data_index = root_dir[j].data_index
             /\ \/ root_dir'[j].size = root_dir[j].size
                \/ root_dir'[j].size = root_dir[j].size + 1 /\ root_dir[j].size < MaxSize
    <3>1. root_dir[j].size \in Nat /\ root_dir[j].size <= MaxSize
      BY <1>1, <1>3, <2>2 DEF RootDir, DataInv, Bounded
    <3>2. \A k \in 0..(MaxSize - 1) : ByteAt(j, k)' = ByteAt(j, k)
      <4>1. Nth(j)' = Nth(j)
        BY <1>1, <2>2 DEF Nth
      <4> QED
        BY <1>1, <4>1 DEF ByteAt
    <3>3. EndOf(j) = root_dir[j].size
      BY <1>1 DEF EndOf, Idle
    <3>4. \A k \in 0..(MaxSize - 1) : root_dir'[j].size <= k => root_dir[j].size <= k
      BY <1>3, <2>2, <3>1
    <3> QED
      BY <1>3, <2>2, <3>1, <3>2, <3>3, <3>4 DEF DataInv, Tails
  <2> QED
    BY <1>1, <2>1, <2>2
<1> QED
  BY <1>1, <1>2, <1>4, AtRest

LEMMA StutterKeepsData ==
  ASSUME DataInv, UNCHANGED dataVars
  PROVE  DataInv'
<1> USE DEF dataVars
<1>1. /\ entry' = entry /\ start' = start /\ position' = position /\ Before' = Before
      /\ FileNames' = FileNames
  BY DEF entry, start, position, Before, FileNames
<1>2. index' = index
  BY <1>1 DEF index
<1>3. /\ \A j, k : ByteAt(j, k)' = ByteAt(j, k)
      /\ \A k : ByteAt(entry, k)' = ByteAt(entry, k)
      /\ \A j : EndOf(j)' = EndOf(j)
      /\ EndOf(entry)' = EndOf(entry)
      /\ \A j : ContentOf(fat, root_dir[j])' = ContentOf(fat, root_dir[j])
  BY <1>1 DEF ByteAt, Nth, EndOf, ContentOf
<1>4. Located'
  <2>1. InPlace(entry, index, call.block)' <=> InPlace(entry, index, call.block)
    BY <1>1, <1>2 DEF InPlace, Nth
  <2> QED
    BY <1>1, <1>2, <2>1 DEF DataInv, Located, Searching
<1>5. Bounded' /\ DataOK' /\ FreshZero'
  BY <1>1 DEF DataInv, Bounded, DataOK, FreshZero
<1>6. Tails'
  BY <1>3 DEF DataInv, Tails
<1>7. Contents' = Contents
  BY DEF Contents, ContentOf
<1>8. Seen'
  BY <1>1, <1>3, <1>7 DEF DataInv, Seen
<1>9. ReadSoFar' /\ WrittenSoFar'
  BY <1>1, <1>3 DEF DataInv, ReadSoFar, WrittenSoFar
<1> QED
  BY <1>4, <1>5, <1>6, <1>8, <1>9 DEF DataInv

LEMMA InitData == DataInit => DataInv
<1> SUFFICES ASSUME DataInit
             PROVE  DataInv
  OBVIOUS
<1>1. /\ call = Idle /\ Files(root_dir) = {} /\ buf = <<>> /\ seen = <<>>
      /\ data = [b \in Blocks |-> [k \in InBlock |-> 0]]
      /\ host \in {"reliable", "failing"}
  BY DEF DataInit, Init, Formatted, Files, no_file_exists, FreeEntry, NewFile
<1>2. buf \in Seq(Bytes)
  BY <1>1, EmptySeq
<1>3. Contents = <<>>
  <2>1. Contents \in [1..0 -> Bytes]
    BY <1>1 DEF Contents
  <2>2. Contents \in Seq(Bytes) /\ Len(Contents) = 0
    BY <2>1, AsSequence
  <2> QED
    BY <2>2, EmptySeq
<1>4. data \in [Blocks -> Block] /\ \A b \in Blocks, r \in InBlock : data[b][r] = 0
  BY <1>1, HoleFacts DEF Block
<1> QED
  BY <1>1, <1>2, <1>3, <1>4
     DEF DataInv, Located, Searching, Bounded, DataOK, FreshZero, Tails, Seen, ReadSoFar,
         WrittenSoFar, Idle

LEMMA DataIsAnyNext == [DataNext]_dataVars => [AnyNext]_vars
<1> SUFFICES ASSUME [DataNext]_dataVars
             PROVE  [AnyNext]_vars
  OBVIOUS
<1>1. CASE UNCHANGED dataVars
  BY <1>1 DEF dataVars, vars
<1>2. CASE Quiet
  <2>1. 0..MaxSize \subseteq Nat
    BY BoundsAssumption
  <2> QED
    BY <1>2, <2>1 DEF Quiet, AnyNext, AnyCalls, Running
<1>3. CASE InCall \/ WriteData \/ ReadData
  BY <1>3 DEF InCall, WriteData, ReadData, AnyNext, Running
<1>4. ASSUME NEW fd \in Fds, NEW count \in Counts, BeginRead(fd, count)
      PROVE  [AnyNext]_vars
  <2>1. count \in Nat
    BY BoundsAssumption
  <2> QED
    BY <1>4, <2>1 DEF BeginRead, AnyNext, AnyCalls
<1>5. ASSUME NEW fd \in Fds, NEW w \in Buffers, BeginWrite(fd, w)
      PROVE  [AnyNext]_vars
  <2>1. Len(w) \in Nat
    <3>1. w \in Seq(Bytes)
      BY BytesAssumption, Zenon
    <3> QED
      BY <3>1, LenProperties
  <2> QED
    BY <1>5, <2>1 DEF BeginWrite, AnyNext, AnyCalls
<1> QED
  BY <1>1, <1>2, <1>3, <1>4, <1>5 DEF DataNext

LEMMA NextData == Inv /\ Seeking /\ DataInv /\ [DataNext]_dataVars => DataInv'
<1> SUFFICES ASSUME Inv, Seeking, DataInv, [DataNext]_dataVars
             PROVE  DataInv'
  OBVIOUS
<1>0. call \in Frames
  BY DEF Inv, Typed, TypeOK
<1>1. CASE UNCHANGED dataVars
  BY <1>1, StutterKeepsData
<1>2. CASE DataNext
  <2>0. UNCHANGED host /\ seen' = IF call' = Idle THEN Contents' ELSE seen
    BY <1>2 DEF DataNext
  <2>1. CASE Quiet
    BY <2>0, <2>1, QuietFiles, QuietKeepsData
  <2>2. CASE InCall
    <3>1. CASE Hop
      <4>1. call'.pc # "idle"
        BY <1>0, <3>1 DEF Hop, Frames
      <4>2. call' # Idle
        BY <4>1 DEF Idle
      <4> QED
        BY <2>0, <2>2, <3>1, <4>2, HopKeepsData DEF InCall, Hop
    <3>2. CASE Return
      BY <2>0, <2>2, <3>2, ReturnKeepsData DEF InCall, Return
    <3> QED
      BY <2>2, <3>1, <3>2 DEF InCall
  <2>3. CASE WriteData
    <3>1. call'.op = "write"
      BY <1>0, <2>3 DEF WriteData, WriteBlock, Frames
    <3>2. call' # Idle
      BY <3>1 DEF Idle
    <3> QED
      BY <2>0, <2>3, <3>2, WriteKeepsData
  <2>4. CASE ReadData
    <3>1. call'.op = "read"
      BY <1>0, <2>4 DEF ReadData, ReadBlock, Frames
    <3>2. call' # Idle
      BY <3>1 DEF Idle
    <3> QED
      BY <2>0, <2>4, <3>2, ReadKeepsData
  <2>5. ASSUME NEW fd \in Fds, IsOpen(fd)
        PROVE  \E i \in Files(root_dir), offset \in Nat :
                 /\ i = open_files[fd].index_in_rootdir /\ offset = open_files[fd].offset
                 /\ root_dir[i].size \in Nat /\ offset <= root_dir[i].size
                 /\ fs_stat(fd) = root_dir[i].size
    BY <2>5 DEF Inv, Typed, TypeOK, RootDir, Files, Directory, OpenFilesExist, Seeking,
                OffsetsInFile, fs_stat
  <2>6. ASSUME NEW fd \in Fds, NEW count \in Counts, BeginRead(fd, count)
        PROVE  DataInv'
    <3>1. call = Idle /\ IsOpen(fd) /\ UNCHANGED <<open_files, data>> /\ buf' = <<>>
      BY <2>6 DEF BeginRead, fs_read, Ready
    <3>2. PICK i \in Files(root_dir), offset \in Nat :
            /\ i = open_files[fd].index_in_rootdir /\ offset = open_files[fd].offset
            /\ root_dir[i].size \in Nat /\ offset <= root_dir[i].size
            /\ fs_stat(fd) = root_dir[i].size
      BY <2>5, <3>1
    <3>3. PICK left \in Nat : left = MinOf(count, root_dir[i].size - offset)
      BY <3>2, BoundsAssumption DEF MinOf
    <3>4. Enter("read", fd, left)
      BY <2>6, <3>2, <3>3 DEF BeginRead, fs_read
    <3>5. seen' = seen
      <4>1. call'.op = "read"
        BY <3>4, EnterFrame
      <4>2. call' # Idle
        BY <4>1 DEF Idle
      <4> QED
        BY <2>0, <4>2
    <3>6. offset + left <= MaxSize
      <4>1. root_dir[i].size <= MaxSize
        BY DEF DataInv, Bounded
      <4> QED
        BY <3>2, <3>3, <4>1, BoundsAssumption DEF MinOf
    <3>7. buf' \in Seq(Bytes) /\ Len(buf') = 0
      BY <3>1, EmptySeq
    <3> QED
      BY <2>0, <3>1, <3>2, <3>3, <3>4, <3>5, <3>6, <3>7, EnterKeepsData
  <2>7. ASSUME NEW fd \in Fds, NEW w \in Buffers, BeginWrite(fd, w)
        PROVE  DataInv'
    <3>1. call = Idle /\ IsOpen(fd) /\ UNCHANGED <<open_files, data>> /\ buf' = w
      BY <2>7 DEF BeginWrite, fs_write, Ready
    <3>2. PICK i \in Files(root_dir), offset \in Nat :
            /\ i = open_files[fd].index_in_rootdir /\ offset = open_files[fd].offset
            /\ root_dir[i].size \in Nat /\ offset <= root_dir[i].size
            /\ fs_stat(fd) = root_dir[i].size
      BY <2>5, <3>1
    <3>3. buf' \in Seq(Bytes)
      BY <3>1, BytesAssumption, Zenon
    <3>4. PICK left \in Nat : left = Len(w)
      BY <3>1, <3>3, LenProperties
    <3>5. Enter("write", fd, left) /\ offset + left <= MaxSize
      BY <2>7, <3>2, <3>4 DEF BeginWrite, fs_write
    <3>6. seen' = seen
      <4>1. call'.op = "write"
        BY <3>5, EnterFrame
      <4>2. call' # Idle
        BY <4>1 DEF Idle
      <4> QED
        BY <2>0, <4>2
    <3>7. buf' \in Buffers /\ left <= Len(buf')
      BY <3>1, <3>4
    <3> QED
      BY <2>0, <3>1, <3>2, <3>3, <3>5, <3>6, <3>7, EnterKeepsData
  <2> QED
    BY <1>2, <2>1, <2>2, <2>3, <2>4, <2>6, <2>7 DEF DataNext
<1> QED
  BY <1>1, <1>2

LEMMA DataInvariance == DataSpec => [](Inv /\ Seeking /\ DataInv)
<1>1. DataInit => Inv /\ Seeking /\ DataInv
  BY InitInv, InitSeeking, InitData DEF DataInit
<1>2. Inv /\ Seeking /\ DataInv /\ [DataNext]_dataVars => (Inv /\ Seeking /\ DataInv)'
  <2>1. Inv /\ [DataNext]_dataVars => Inv'
    BY DataIsAnyNext, NextInv
  <2>2. Inv /\ Inv' /\ Seeking /\ [DataNext]_dataVars => Seeking'
    BY DataIsAnyNext, NextSeeking DEF Inv
  <2> QED
    BY <2>1, <2>2, NextData
<1> QED
  BY <1>1, <1>2, PTL DEF DataSpec
-----------------------------------------------------------------------------
(***************************************************************************)
(* Part 9: FileData implements ByteStore.                                  *)
(***************************************************************************)
DescOf(fd) ==
  IF ~IsOpen(fd) THEN Closed
  ELSE [name |-> root_dir[open_files[fd].index_in_rootdir].filename, offset |-> open_files[fd].offset]

desc == [fd \in Fds |-> DescOf(fd)]

HostFails == host = "failing"

(* A descriptor table outlives no unmount.                                 *)
Detached == phase # "mounted" => EmptyFds = Fds

LEMMA NextDetached == Typed /\ Detached /\ [AnyNext]_vars => Detached'
<1> SUFFICES ASSUME Typed, Detached, [AnyNext]_vars
             PROVE  Detached'
  OBVIOUS
<1>1. CASE phase' = "mounted"
  BY <1>1 DEF Detached
<1>2. CASE open_files' = AllClosed
  BY <1>2 DEF Detached, EmptyFds, AllClosed, ClosedFile
<1>3. CASE UNCHANGED open_files /\ EmptyFds = Fds
  BY <1>3 DEF Detached, EmptyFds
<1>4. CASE UNCHANGED vars
  BY <1>4 DEF Detached, EmptyFds, vars
<1>5. CASE AnyCalls
  BY <1>1, <1>3, <1>5
     DEF AnyCalls, fs_create, CreatesAt, fs_delete, fs_open, fs_close, fs_lseek, fs_read,
         fs_write, UmountFat, Ready, memory
<1>6. CASE Hop \/ WriteBlock \/ ReadBlock \/ Return
  <2>1. call.pc # "idle" /\ UNCHANGED phase
    BY <1>6 DEF Hop, WriteBlock, ReadBlock, Return
  <2>2. call # Idle
    BY <2>1 DEF Idle
  <2> QED
    BY <1>1, <2>1, <2>2 DEF Typed, CallOK
<1>7. CASE UmountRoot
  BY <1>3, <1>7 DEF UmountRoot, Detached, memory
<1> QED
  BY <1>1, <1>2, <1>4, <1>5, <1>6, <1>7 DEF AnyNext, Running, fs_mount, Crash

(* What the client sees between two calls.                                 *)
Rest ==
  /\ DOMAIN seen = FileNames
  /\ \A i \in Files(root_dir) :
       /\ seen[root_dir[i].filename] = ContentOf(fat, root_dir[i])
       /\ seen[root_dir[i].filename] \in Seq(Bytes \union {Hole})
       /\ Len(seen[root_dir[i].filename]) = root_dir[i].size
       /\ \A k \in 1..root_dir[i].size : seen[root_dir[i].filename][k] = ByteAt(i, k - 1)

LEMMA AtRestSeen == Inv /\ DataInv /\ call = Idle => Rest
<1> SUFFICES ASSUME Inv, DataInv, call = Idle
             PROVE  Rest
  OBVIOUS
<1>1. /\ DOMAIN seen = FileNames
      /\ \A i \in Files(root_dir) :
           /\ seen[root_dir[i].filename] = ContentOf(fat, root_dir[i])
           /\ seen[root_dir[i].filename] \in Seq(Bytes \union {Hole})
           /\ Len(seen[root_dir[i].filename]) = root_dir[i].size
  BY ContentsSeen DEF DataInv, Seen
<1>2. \A i \in Files(root_dir) : \A k \in 1..root_dir[i].size :
        ContentOf(fat, root_dir[i])[k] = ByteAt(i, k - 1)
  BY ContentIs
<1> QED
  BY <1>1, <1>2 DEF Rest

LEMMA ThenAtRestSeen == (Inv /\ DataInv /\ call = Idle)' => Rest'
BY AtRestSeen, PTL

LEMMA DescFacts ==
  ASSUME Inv, NEW fd \in Fds
  PROVE  /\ desc[fd] = DescOf(fd)
         /\ ~IsOpen(fd) => desc[fd] = Closed
         /\ IsOpen(fd) =>
              /\ desc[fd] # Closed
              /\ \E i \in Files(root_dir) :
                   /\ i = open_files[fd].index_in_rootdir
                   /\ desc[fd] = [name |-> root_dir[i].filename, offset |-> open_files[fd].offset]
<1>1. desc[fd] = DescOf(fd)
  BY DEF desc
<1>2. ASSUME IsOpen(fd)
      PROVE  /\ desc[fd] # Closed
             /\ \E i \in Files(root_dir) :
                  /\ i = open_files[fd].index_in_rootdir
                  /\ desc[fd] = [name |-> root_dir[i].filename, offset |-> open_files[fd].offset]
  <2>1. PICK i \in Files(root_dir) : i = open_files[fd].index_in_rootdir
    BY <1>2 DEF Inv, Directory, OpenFilesExist
  <2>2. desc[fd] = [name |-> root_dir[i].filename, offset |-> open_files[fd].offset]
    BY <1>1, <1>2, <2>1 DEF DescOf
  <2>3. root_dir[i].filename \in Names /\ open_files[fd].offset \in Nat
    BY DEF Inv, Typed, TypeOK, RootDir, Files
  <2>4. desc[fd] \in [name : Names, offset : Nat]
    BY <2>2, <2>3
  <2> QED
    BY <2>1, <2>2, <2>4, ClosedAssumption
<1> QED
  BY <1>1, <1>2 DEF DescOf

LEMMA DescKept ==
  ASSUME \A fd \in Fds : DescOf(fd)' = DescOf(fd)
  PROVE  UNCHANGED desc
BY DEF desc

LEMMA DescMoved ==
  ASSUME NEW g \in Fds, NEW v, DescOf(g)' = v,
         \A fd \in Fds : fd # g => DescOf(fd)' = DescOf(fd)
  PROVE  desc' = [desc EXCEPT ![g] = v]
BY DEF desc

(* The meaning of the actions of ByteStore here.                           *)
LEMMA MeansOther ==
  ASSUME UNCHANGED host, call' # Idle \/ buf' = <<>>, Store!Other(HostFails)
  PROVE  Store!Call(HostFails)
BY DEF Store!Call

LEMMA MeansNothing ==
  ASSUME UNCHANGED <<seen, desc>>
  PROVE  Store!Other(HostFails)
BY DEF Store!Other, desc, DescOf

LEMMA MeansCreate ==
  ASSUME NEW name \in Names, name \notin DOMAIN seen,
         seen' = [m \in DOMAIN seen \union {name} |-> IF m = name THEN <<>> ELSE seen[m]],
         UNCHANGED desc
  PROVE  Store!Other(HostFails)
BY DEF Store!Other, Store!Create, Store!Files, desc, DescOf

LEMMA MeansDelete ==
  ASSUME NEW name \in Names, name \in DOMAIN seen,
         seen' = [m \in DOMAIN seen \ {name} |-> seen[m]],
         \A fd \in Fds : desc[fd] # Closed => desc[fd].name # name,
         UNCHANGED desc
  PROVE  Store!Other(HostFails)
<1>1. Store!Delete(name)
  BY DEF Store!Delete, Store!OpenFds, Store!Files, desc, DescOf
<1> QED
  BY <1>1 DEF Store!Other

LEMMA MeansOpen ==
  ASSUME NEW name \in Names, NEW fd \in Fds, name \in DOMAIN seen, desc[fd] = Closed,
         desc' = [desc EXCEPT ![fd] = [name |-> name, offset |-> 0]], UNCHANGED seen
  PROVE  Store!Other(HostFails)
<1>1. Store!Open(name, fd)
  BY DEF Store!Open, Store!Files, desc, DescOf
<1> QED
  BY <1>1 DEF Store!Other

LEMMA MeansClose ==
  ASSUME NEW fd \in Fds, desc[fd] # Closed, desc' = [desc EXCEPT ![fd] = Closed],
         UNCHANGED seen
  PROVE  Store!Other(HostFails)
<1>1. Store!Close(fd)
  BY DEF Store!Close, desc, DescOf
<1> QED
  BY <1>1 DEF Store!Other

LEMMA MeansSeek ==
  ASSUME NEW fd \in Fds, NEW offset \in 0..MaxSize, desc[fd] # Closed,
         desc' = [desc EXCEPT ![fd].offset = offset],
         offset < Len(seen[desc[fd].name]), UNCHANGED seen
  PROVE  Store!Other(HostFails)
<1>1. Store!Seek(fd, offset, HostFails)
  BY DEF Store!Seek, desc, DescOf
<1> QED
  BY <1>1 DEF Store!Other

LEMMA MeansSeekEnd ==
  ASSUME NEW fd \in Fds, NEW offset \in 0..MaxSize, desc[fd] # Closed,
         desc' = [desc EXCEPT ![fd].offset = offset],
         offset = Len(seen[desc[fd].name]),
         NEW byte \in {Hole} \union (IF HostFails THEN Bytes ELSE {0}),
         seen' = [seen EXCEPT ![desc[fd].name] = Append(@, byte)]
  PROVE  Store!Other(HostFails)
<1>1. Store!Seek(fd, offset, HostFails)
  BY DEF Store!Seek, desc, DescOf
<1> QED
  BY <1>1 DEF Store!Other

(* Two functions with the same values are one.                             *)
LEMMA SameFunction ==
  ASSUME NEW f, NEW g, f = [x \in DOMAIN f |-> f[x]], g = [x \in DOMAIN g |-> g[x]],
         DOMAIN f = DOMAIN g, \A x \in DOMAIN f : f[x] = g[x]
  PROVE  f = g
<1>1. [x \in DOMAIN f |-> f[x]] = [x \in DOMAIN g |-> g[x]]
  BY Zenon
<1> QED
  BY <1>1, Zenon

LEMMA SeenFunction == Seen /\ call = Idle => seen = [m \in DOMAIN seen |-> seen[m]]
<1> SUFFICES ASSUME Seen, call = Idle
             PROVE  seen = [m \in DOMAIN seen |-> seen[m]]
  OBVIOUS
<1>1. seen = Contents
  BY DEF Seen
<1>2. Contents = [m \in DOMAIN Contents |-> Contents[m]]
  BY DEF Contents
<1> QED
  BY <1>1, <1>2, Zenon

LEMMA ThenSeenFunction == (Seen /\ call = Idle)' => (seen = [m \in DOMAIN seen |-> seen[m]])'
BY SeenFunction, PTL

(* A file whose entry stays has the same bytes after a call without data.  *)
LEMMA SameSeen ==
  ASSUME Rest, Rest', UNCHANGED <<fat, data>>,
         NEW j \in Files(root_dir), j \in Files(root_dir'),
         root_dir'[j].filename = root_dir[j].filename, root_dir'[j].size = root_dir[j].size,
         root_dir'[j].data_index = root_dir[j].data_index
  PROVE  seen'[root_dir[j].filename] = seen[root_dir[j].filename]
<1>1. ContentOf(fat, root_dir[j])' = ContentOf(fat, root_dir[j])
  BY DEF ContentOf
<1>2. seen[root_dir[j].filename] = ContentOf(fat, root_dir[j])
  BY DEF Rest
<1>3. seen'[root_dir'[j].filename] = ContentOf(fat, root_dir[j])'
  BY DEF Rest
<1> QED
  BY <1>1, <1>2, <1>3

LEMMA CreateIsOther ==
  ASSUME Inv, Rest, Rest', Seen, Seen', call = Idle, call' = Idle, UNCHANGED data,
         NEW name \in Names, fs_create(name)
  PROVE  Store!Other(HostFails)
<1>0. /\ root_dir \in RootDir /\ open_files \in [Fds -> [empty : BOOLEAN,
           index_in_rootdir : Slots, offset : Nat]]
      /\ UNCHANGED <<fat, open_files>>
  BY DEF Inv, Typed, TypeOK, fs_create
<1>1. PICK i \in Slots : CreatesAt(name, i) /\ root_dir' = [root_dir EXCEPT ![i] = NewFile(name)]
  BY DEF fs_create
<1>2. /\ root_dir'[i].filename = name /\ root_dir'[i].size = 0
      /\ \A j \in Slots : j # i => root_dir'[j] = root_dir[j]
  BY <1>0, <1>1 DEF RootDir, NewFile
<1>3. i \notin Files(root_dir) /\ \A j \in Files(root_dir) : root_dir[j].filename # name /\ j \in Slots
  BY <1>1 DEF CreatesAt, IsFirst, EmptyEntries, MatchingEntries, has_same_filename, Files
<1>4. UNCHANGED desc
  <2>1. \A fd \in Fds : IsOpen(fd) => open_files[fd].index_in_rootdir \in Files(root_dir)
    BY DEF Inv, Directory, OpenFilesExist
  <2>2. \A fd \in Fds : DescOf(fd)' = DescOf(fd)
    BY <1>0, <1>2, <1>3, <2>1 DEF DescOf, IsOpen
  <2> QED
    BY <2>2, DescKept
<1>5. \A m \in FileNames : seen'[m] = seen[m]
  <2> SUFFICES ASSUME NEW j \in Files(root_dir)
               PROVE  seen'[root_dir[j].filename] = seen[root_dir[j].filename]
    BY DEF FileNames
  <2>1. j \in Slots /\ j # i /\ root_dir'[j] = root_dir[j] /\ j \in Files(root_dir')
    BY <1>2, <1>3 DEF Files
  <2> QED
    BY <1>0, <2>1, SameSeen
<1>6. CASE name = NoName
  <2>1. Files(root_dir') = Files(root_dir)
    BY <1>2, <1>3, <1>6 DEF Files, no_file_exists
  <2>2. FileNames' = FileNames
    BY <1>2, <1>3, <2>1 DEF FileNames
  <2>3. seen' = seen
    <3>1. DOMAIN seen' = DOMAIN seen /\ \A m \in DOMAIN seen : seen'[m] = seen[m]
      BY <1>5, <2>2 DEF Rest
    <3> QED
      BY <3>1, SeenFunction, ThenSeenFunction, SameFunction
  <2> QED
    BY <1>4, <2>3, MeansNothing
<1>7. CASE name # NoName
  <2>1. Files(root_dir') = Files(root_dir) \union {i}
    BY <1>2, <1>7 DEF Files, no_file_exists
  <2>2. FileNames' = FileNames \union {name} /\ name \notin FileNames
    BY <1>2, <1>3, <2>1 DEF FileNames
  <2>3. seen'[name] = <<>>
    <3>1. seen'[name] \in Seq(Bytes \union {Hole}) /\ Len(seen'[name]) = 0
      BY <1>2, <2>1 DEF Rest
    <3> QED
      BY <3>1, EmptySeq
  <2> DEFINE new == [m \in DOMAIN seen \union {name} |-> IF m = name THEN <<>> ELSE seen[m]]
  <2>4. seen' = new
    <3>1. /\ DOMAIN seen' = DOMAIN new
          /\ new = [m \in DOMAIN new |-> new[m]]
      BY <2>2 DEF Rest
    <3>2. \A m \in DOMAIN seen' : seen'[m] = new[m]
      BY <1>5, <2>2, <2>3 DEF Rest
    <3> HIDE DEF new
    <3> QED
      BY <3>1, <3>2, ThenSeenFunction, SameFunction
  <2> QED
    BY <1>4, <2>2, <2>4, MeansCreate DEF Rest
<1> QED
  BY <1>6, <1>7

LEMMA DeleteIsOther ==
  ASSUME Inv, Rest, Rest', Seen, Seen', call = Idle, call' = Idle, UNCHANGED data,
         NEW name \in Names, fs_delete(name)
  PROVE  Store!Other(HostFails)
<1>0. /\ root_dir \in RootDir /\ open_files \in [Fds -> [empty : BOOLEAN,
           index_in_rootdir : Slots, offset : Nat]]
      /\ UNCHANGED <<fat, open_files>> /\ ~open_table_has_filename(name)
  BY DEF Inv, Typed, TypeOK, fs_delete
<1>1. PICK i \in Slots : /\ i \in MatchingEntries(name)
                         /\ root_dir' = [root_dir EXCEPT ![i] = FreeEntry]
  BY DEF fs_delete, IsFirst
<1>2. /\ i \in Files(root_dir) /\ root_dir[i].filename = name
      /\ root_dir'[i].filename = NoName
      /\ \A j \in Slots : j # i => root_dir'[j] = root_dir[j]
  BY <1>0, <1>1 DEF RootDir, FreeEntry, NewFile, MatchingEntries, has_same_filename, Files
<1>3. Files(root_dir') = Files(root_dir) \ {i} /\ \A j \in Files(root_dir) : j \in Slots
  BY <1>2 DEF Files, no_file_exists
<1>4. \A j \in Files(root_dir) : root_dir[j].filename = name => j = i
  BY <1>2 DEF Inv, Directory, UniqueNames
<1>5. \A fd \in Fds : IsOpen(fd) => /\ open_files[fd].index_in_rootdir \in Files(root_dir)
                                    /\ root_dir[open_files[fd].index_in_rootdir].filename # name
  BY <1>0 DEF Inv, Directory, OpenFilesExist, open_table_has_filename, has_same_filename,
              EmptyFds, IsOpen, Files
<1>6. UNCHANGED desc
  <2>1. \A fd \in Fds : DescOf(fd)' = DescOf(fd)
    BY <1>0, <1>2, <1>3, <1>5 DEF DescOf, IsOpen
  <2> QED
    BY <2>1, DescKept
<1>7. \A m \in FileNames \ {name} : seen'[m] = seen[m]
  <2> SUFFICES ASSUME NEW j \in Files(root_dir), root_dir[j].filename # name
               PROVE  seen'[root_dir[j].filename] = seen[root_dir[j].filename]
    BY DEF FileNames
  <2>1. j # i /\ root_dir'[j] = root_dir[j] /\ j \in Files(root_dir')
    BY <1>2, <1>3
  <2> QED
    BY <1>0, <2>1, SameSeen
<1>8. FileNames' = FileNames \ {name} /\ name \in FileNames
  BY <1>2, <1>3, <1>4 DEF FileNames
<1> DEFINE new == [m \in DOMAIN seen \ {name} |-> seen[m]]
<1>9. seen' = new
  <2>1. /\ DOMAIN seen' = DOMAIN new
        /\ new = [m \in DOMAIN new |-> new[m]]
        /\ \A m \in DOMAIN seen' : seen'[m] = new[m]
    BY <1>7, <1>8 DEF Rest
  <2> HIDE DEF new
  <2> QED
    BY <2>1, ThenSeenFunction, SameFunction
<1>10. \A fd \in Fds : desc[fd] # Closed => desc[fd].name # name
  <2> SUFFICES ASSUME NEW fd \in Fds, desc[fd] # Closed
               PROVE  desc[fd].name # name
    OBVIOUS
  <2>1. IsOpen(fd)
    BY DescFacts
  <2>2. PICK j \in Files(root_dir) :
          /\ j = open_files[fd].index_in_rootdir
          /\ desc[fd] = [name |-> root_dir[j].filename, offset |-> open_files[fd].offset]
    BY <2>1, DescFacts, Zenon
  <2>3. desc[fd].name = root_dir[j].filename
    BY <2>2
  <2> QED
    BY <1>5, <2>1, <2>2, <2>3
<1> QED
  BY <1>6, <1>8, <1>9, <1>10, MeansDelete DEF Rest

LEMMA OpenDesc ==
  ASSUME Inv, NEW fd \in Fds, IsOpen(fd), NEW i, i = open_files[fd].index_in_rootdir
  PROVE  /\ i \in Files(root_dir) /\ i \in Slots /\ desc[fd] # Closed
         /\ desc[fd] = [name |-> root_dir[i].filename, offset |-> open_files[fd].offset]
         /\ desc[fd].name = root_dir[i].filename /\ desc[fd].offset = open_files[fd].offset
         /\ open_files[fd].offset \in Nat /\ root_dir[i].size \in Nat
<1>1. PICK j \in Files(root_dir) :
        /\ j = open_files[fd].index_in_rootdir
        /\ desc[fd] = [name |-> root_dir[j].filename, offset |-> open_files[fd].offset]
  BY DescFacts, Zenon
<1>2. desc[fd] # Closed
  BY DescFacts
<1>3. i \in Slots /\ open_files[fd].offset \in Nat /\ root_dir[i].size \in Nat
  BY <1>1 DEF Inv, Typed, TypeOK, RootDir, Files
<1> QED
  BY <1>1, <1>2, <1>3

LEMMA DescOffset ==
  ASSUME NEW g \in Fds, NEW name, NEW old, NEW new,
         desc[g] = [name |-> name, offset |-> old],
         DescOf(g)' = [name |-> name, offset |-> new],
         \A fd \in Fds : fd # g => DescOf(fd)' = DescOf(fd)
  PROVE  desc' = [desc EXCEPT ![g].offset = new]
<1>1. desc' = [desc EXCEPT ![g] = [name |-> name, offset |-> new]]
  BY DescMoved
<1>2. [desc[g] EXCEPT !.offset = new] = [name |-> name, offset |-> new]
  OBVIOUS
<1> QED
  BY <1>1, <1>2

LEMMA OpenIsOther ==
  ASSUME Inv, Rest, NEW name \in Names, fs_open(name), UNCHANGED seen
  PROVE  Store!Other(HostFails)
<1>0. /\ open_files \in [Fds -> [empty : BOOLEAN, index_in_rootdir : Slots, offset : Nat]]
      /\ UNCHANGED root_dir
  BY DEF Inv, Typed, TypeOK, fs_open
<1>1. PICK i \in Slots, g \in Fds :
        /\ i \in MatchingEntries(name) /\ g \in EmptyFds
        /\ open_files' = [open_files EXCEPT
             ![g] = [empty |-> FALSE, index_in_rootdir |-> i, offset |-> 0]]
  BY DEF fs_open, IsFirst
<1>2. /\ i \in Files(root_dir) /\ root_dir[i].filename = name
      /\ ~IsOpen(g)
  BY <1>1 DEF MatchingEntries, has_same_filename, Files, EmptyFds, IsOpen
<1>3. desc[g] = Closed
  BY <1>2, DescFacts
<1>4. DescOf(g)' = [name |-> name, offset |-> 0]
  BY <1>0, <1>1, <1>2 DEF DescOf, IsOpen
<1>5. \A fd \in Fds : fd # g => DescOf(fd)' = DescOf(fd)
  BY <1>0, <1>1 DEF DescOf, IsOpen
<1>6. desc' = [desc EXCEPT ![g] = [name |-> name, offset |-> 0]]
  BY <1>4, <1>5, DescMoved
<1>7. name \in DOMAIN seen
  BY <1>2 DEF Rest, FileNames
<1> QED
  BY <1>3, <1>6, <1>7, MeansOpen

LEMMA CloseIsOther ==
  ASSUME Inv, NEW g \in Fds, fs_close(g), UNCHANGED seen
  PROVE  Store!Other(HostFails)
<1>0. /\ open_files \in [Fds -> [empty : BOOLEAN, index_in_rootdir : Slots, offset : Nat]]
      /\ UNCHANGED root_dir /\ IsOpen(g)
      /\ open_files' = [open_files EXCEPT ![g] = ClosedFile]
  BY DEF Inv, Typed, TypeOK, fs_close
<1>1. DescOf(g)' = Closed
  BY <1>0 DEF DescOf, IsOpen, ClosedFile
<1>2. \A fd \in Fds : fd # g => DescOf(fd)' = DescOf(fd)
  BY <1>0 DEF DescOf, IsOpen
<1>3. desc' = [desc EXCEPT ![g] = Closed]
  BY <1>1, <1>2, DescMoved
<1>4. desc[g] # Closed
  BY <1>0, DescFacts
<1> QED
  BY <1>3, <1>4, MeansClose

LEMMA SeekIsOther ==
  ASSUME Inv, Rest, Rest', Seen, Seen', Bounded, DataOK, Tails, call = Idle, call' = Idle,
         UNCHANGED <<data, host>>,
         NEW g \in Fds, NEW offset \in 0..MaxSize, fs_lseek(g, offset)
  PROVE  Store!Other(HostFails)
<1> DEFINE index_of == open_files[g].index_in_rootdir
<1>0. /\ root_dir \in RootDir
      /\ open_files \in [Fds -> [empty : BOOLEAN, index_in_rootdir : Slots, offset : Nat]]
      /\ IsOpen(g) /\ open_files' = [open_files EXCEPT ![g].offset = offset]
      /\ UNCHANGED fat
      /\ \/ offset < root_dir[index_of].size /\ UNCHANGED root_dir
         \/ /\ offset = root_dir[index_of].size /\ offset < MaxSize
            /\ root_dir' = [root_dir EXCEPT ![index_of].size = @ + 1]
  BY DEF Inv, Typed, TypeOK, fs_lseek
<1>1. PICK i \in Files(root_dir) : i = index_of
  BY <1>0, OpenDesc
<1> HIDE DEF index_of
<1>2. /\ i \in Slots /\ i = open_files[g].index_in_rootdir /\ desc[g] # Closed
      /\ desc[g] = [name |-> root_dir[i].filename, offset |-> open_files[g].offset]
      /\ desc[g].name = root_dir[i].filename /\ root_dir[i].size \in Nat
  BY <1>0, <1>1, OpenDesc DEF index_of
<1>3. /\ \A j \in Slots : /\ root_dir'[j].filename = root_dir[j].filename
                          /\ root_dir'[j].data_index = root_dir[j].data_index
                          /\ j # i => root_dir'[j].size = root_dir[j].size
      /\ \/ offset < root_dir[i].size /\ UNCHANGED root_dir
         \/ /\ offset = root_dir[i].size /\ offset < MaxSize
            /\ root_dir'[i].size = offset + 1
  BY <1>0, <1>1, <1>2 DEF RootDir
<1>4. desc' = [desc EXCEPT ![g].offset = offset]
  <2>1. DescOf(g)' = [name |-> root_dir[i].filename, offset |-> offset]
    BY <1>0, <1>2, <1>3 DEF DescOf, IsOpen
  <2>2. \A fd \in Fds : fd # g => DescOf(fd)' = DescOf(fd)
    BY <1>0, <1>3 DEF DescOf, IsOpen
  <2> QED
    BY <1>2, <2>1, <2>2, DescOffset
<1> DEFINE name == root_dir[i].filename
<1>5. Files(root_dir') = Files(root_dir) /\ FileNames' = FileNames
      /\ \A j \in Files(root_dir) : j \in Slots
  BY <1>3 DEF Files, no_file_exists, FileNames
<1>6. CASE offset < root_dir[i].size /\ UNCHANGED root_dir
  <2>1. seen' = seen
    <3>1. Contents' = Contents
      BY <1>0, <1>6 DEF Contents, ContentOf
    <3> QED
      BY <3>1 DEF Seen
  <2>2. Len(seen[name]) = root_dir[i].size
    BY DEF Rest
  <2> QED
    BY <1>2, <1>4, <1>6, <2>1, <2>2, MeansSeek
<1>7. CASE offset = root_dir[i].size /\ offset < MaxSize /\ root_dir'[i].size = offset + 1
  <2>1. PICK byte : byte = ByteAt(i, offset)
    OBVIOUS
  <2>2. byte \in {Hole} \union (IF HostFails THEN Bytes ELSE {0})
    <3>1. offset \in 0..MaxSize /\ offset \in 0..(MaxSize - 1) /\ EndOf(i) = offset
      BY <1>2, <1>7, BoundsAssumption DEF EndOf, Idle
    <3>2. byte \in Bytes \union {Hole}
      BY <2>1, <3>1, ByteType
    <3>3. host = "reliable" => byte \in {0, Hole}
      BY <2>1, <3>1 DEF Tails
    <3> QED
      BY <3>2, <3>3 DEF DataOK, HostFails
  <2>3. /\ seen[name] \in Seq(Bytes \union {Hole}) /\ Len(seen[name]) = offset
        /\ \A k \in 1..offset : seen[name][k] = ByteAt(i, k - 1)
    BY <1>7 DEF Rest
  <2>4. \A k : ByteAt(i, k)' = ByteAt(i, k)
    <3>1. Nth(i)' = Nth(i)
      BY <1>0, <1>2, <1>3 DEF Nth
    <3> QED
      BY <3>1 DEF ByteAt
  <2>5. /\ seen'[name] \in Seq(Bytes \union {Hole}) /\ Len(seen'[name]) = offset + 1
        /\ \A k \in 1..(offset + 1) : seen'[name][k] = ByteAt(i, k - 1)
    <3>1. root_dir'[i].filename = name /\ i \in Files(root_dir')
      BY <1>2, <1>3, <1>5
    <3> QED
      BY <1>7, <2>4, <3>1 DEF Rest
  <2>6. seen'[name] = Append(seen[name], byte)
    <3> DEFINE s == seen[name]
               t == seen'[name]
               S == Bytes \union {Hole}
    <3>1. s \in Seq(S) /\ Len(s) = offset /\ t \in Seq(S) /\ Len(t) = offset + 1
      BY <2>3, <2>5
    <3>2. byte \in S
      <4>1. offset \in 0..MaxSize
        BY <1>2, <1>7, BoundsAssumption
      <4> QED
        BY <2>1, <4>1, ByteType
    <3>3. \A k \in 1..offset : t[k] = s[k]
      <4> SUFFICES ASSUME NEW k \in 1..offset
                   PROVE  t[k] = s[k]
        OBVIOUS
      <4>1. k \in 1..(offset + 1)
        BY <1>2, <1>7
      <4> QED
        BY <2>3, <2>5, <4>1
    <3>4. t[offset + 1] = byte
      BY <1>2, <1>7, <2>1, <2>5
    <3> HIDE DEF s, t, S
    <3>5. /\ Append(s, byte) \in Seq(S) /\ Len(Append(s, byte)) = offset + 1
          /\ \A k \in 1..offset : Append(s, byte)[k] = s[k]
          /\ Append(s, byte)[offset + 1] = byte
      BY <3>1, <3>2, AppendProperties
    <3>6. offset \in Nat
      BY <1>2, <1>7
    <3>7. \A k \in 1..(offset + 1) : t[k] = Append(s, byte)[k]
      BY <3>3, <3>4, <3>5, <3>6
    <3>8. t = Append(s, byte)
      BY <3>1, <3>5, <3>7, SeqEqual
    <3> QED
      BY <3>8 DEF s, t
  <2>7. seen' = [seen EXCEPT ![name] = Append(@, byte)]
    <3> DEFINE new == [seen EXCEPT ![name] = Append(@, byte)]
    <3>1. DOMAIN new = DOMAIN seen /\ new = [m \in DOMAIN new |-> new[m]] /\ DOMAIN seen' = DOMAIN seen
      BY <1>5 DEF Rest
    <3>2. \A m \in FileNames \ {name} : seen'[m] = seen[m]
      <4> SUFFICES ASSUME NEW j \in Files(root_dir), j # i
                   PROVE  seen'[root_dir[j].filename] = seen[root_dir[j].filename]
        BY DEF FileNames
      <4>1. j \in Slots /\ j \in Files(root_dir')
        BY <1>5
      <4> QED
        BY <1>0, <1>3, <4>1, SameSeen
    <3>3. \A m \in DOMAIN seen' : seen'[m] = new[m]
      BY <2>6, <3>1, <3>2 DEF Rest
    <3> HIDE DEF new
    <3>4. seen' = new
      BY <3>1, <3>3, ThenSeenFunction, SameFunction
    <3> QED
      BY <3>4 DEF new
  <2>8. name = desc[g].name /\ offset = Len(seen[name])
    BY <1>2, <2>3
  <2> HIDE DEF name
  <2> QED
    BY <1>2, <1>4, <2>2, <2>7, <2>8, MeansSeekEnd
<1> QED
  BY <1>3, <1>6, <1>7

LEMMA QuietIsNext ==
  ASSUME Inv, DataInv, Detached, Detached', Rest, Rest', Seen', Quiet, UNCHANGED host
  PROVE  Store!Call(HostFails)
<1>0. /\ call = Idle /\ call' = Idle /\ UNCHANGED <<fat, data>> /\ buf' = <<>>
      /\ Seen /\ Bounded /\ DataOK /\ Tails
  BY QuietFiles DEF DataInv
<1>1. UNCHANGED root_dir => UNCHANGED seen
  <2> SUFFICES ASSUME UNCHANGED root_dir
               PROVE  UNCHANGED seen
    OBVIOUS
  <2>1. Contents' = Contents
    BY <1>0 DEF Contents, ContentOf
  <2> QED
    BY <1>0, <2>1 DEF Seen
<1>2. ASSUME NEW name \in Names, fs_create(name) \/ fs_delete(name) \/ fs_open(name)
      PROVE  Store!Other(HostFails)
  <2>1. fs_open(name) => UNCHANGED seen
    BY <1>1 DEF fs_open
  <2> QED
    BY <1>0, <1>2, <2>1, CreateIsOther, DeleteIsOther, OpenIsOther
<1>3. ASSUME NEW fd \in Fds, fs_close(fd)
      PROVE  Store!Other(HostFails)
  <2>1. UNCHANGED seen
    BY <1>1, <1>3 DEF fs_close
  <2> QED
    BY <1>3, <2>1, CloseIsOther
<1>4. ASSUME NEW fd \in Fds, NEW offset \in 0..MaxSize, fs_lseek(fd, offset)
      PROVE  Store!Other(HostFails)
  BY <1>0, <1>4, SeekIsOther
<1>5. ASSUME (Formatted /\ fs_mount) \/ UmountFat \/ UmountRoot
      PROVE  Store!Other(HostFails)
  <2>1. UNCHANGED root_dir
    BY <1>5, QuietSteps
  <2>2. \A fd \in Fds : ~IsOpen(fd) /\ ~IsOpen(fd)'
    <3>1. EmptyFds = Fds
      BY <1>5 DEF Detached, fs_mount, UmountFat, UmountRoot
    <3>2. EmptyFds' = Fds
      BY <1>5, <3>1 DEF fs_mount, UmountFat, UmountRoot, memory, EmptyFds, AllClosed, ClosedFile
    <3> QED
      BY <3>1, <3>2 DEF EmptyFds, IsOpen
  <2>3. UNCHANGED desc
    <3>1. \A fd \in Fds : DescOf(fd)' = DescOf(fd)
      BY <2>2 DEF DescOf
    <3> QED
      BY <3>1, DescKept
  <2> QED
    BY <1>1, <2>1, <2>3, MeansNothing
<1>6. Store!Other(HostFails)
  BY <1>2, <1>3, <1>4, <1>5 DEF Quiet
<1> QED
  BY <1>0, <1>6, MeansOther

(* A step of a call that the client does not see.                          *)
LEMMA NamesKeepDesc ==
  ASSUME Inv, UNCHANGED open_files,
         \A i \in Slots : root_dir'[i].filename = root_dir[i].filename
  PROVE  UNCHANGED desc
<1>1. \A fd \in Fds : open_files[fd].index_in_rootdir \in Slots
  BY DEF Inv, Typed, TypeOK
<1>2. \A fd \in Fds : DescOf(fd)' = DescOf(fd)
  BY <1>1 DEF DescOf, IsOpen
<1> QED
  BY <1>2, DescKept

LEMMA EnterIsNext ==
  ASSUME Inv, NEW op \in {"read", "write"}, NEW fd \in Fds, NEW left \in Int,
         Enter(op, fd, left), UNCHANGED <<open_files, host>>,
         seen' = IF call' = Idle THEN Contents' ELSE seen
  PROVE  Store!Call(HostFails)
<1>1. call' # Idle
  <2>1. call'.op = op
    BY EnterFrame
  <2> QED
    BY <2>1 DEF Idle
<1>2. \A j \in Slots : root_dir'[j].filename = root_dir[j].filename
  <2> DEFINE i == open_files[fd].index_in_rootdir
  <2>1. i \in Slots /\ root_dir \in RootDir
    BY DEF Inv, Typed, TypeOK
  <2>2. root_dir' = root_dir \/ \E b \in Blocks : root_dir' = [root_dir EXCEPT ![i].data_index = b]
    BY DEF Enter
  <2> HIDE DEF i
  <2> QED
    BY <2>1, <2>2 DEF RootDir
<1>3. UNCHANGED <<seen, desc>>
  BY <1>1, <1>2, NamesKeepDesc
<1> QED
  BY <1>1, <1>3, MeansNothing, MeansOther

LEMMA MeansStutter ==
  ASSUME UNCHANGED <<seen, desc, host>>,
         \/ call # Idle /\ call' # Idle
         \/ UNCHANGED <<call, buf>>
  PROVE  UNCHANGED Store!vars
BY DEF Store!vars, desc, DescOf

LEMMA InsideIsStutter ==
  ASSUME Inv, Hop \/ WriteBlock \/ ReadBlock, UNCHANGED host,
         seen' = IF call' = Idle THEN Contents' ELSE seen
  PROVE  UNCHANGED Store!vars
<1>0. call \in Frames
  BY DEF Inv, Typed, TypeOK
<1>1. UNCHANGED <<root_dir, open_files>>
  BY DEF Hop, WriteBlock, ReadBlock, memory
<1>2. call.pc # "idle" /\ call'.pc # "idle"
  <2>1. CASE Hop
    BY <1>0, <2>1 DEF Hop, Frames
  <2>2. CASE WriteBlock
    BY <1>0, <2>2 DEF WriteBlock, Frames
  <2>3. CASE ReadBlock
    BY <1>0, <2>3 DEF ReadBlock, Frames
  <2> QED
    BY <2>1, <2>2, <2>3
<1>3. call # Idle /\ call' # Idle
  BY <1>2 DEF Idle
<1>4. UNCHANGED desc
  BY <1>1, NamesKeepDesc
<1> QED
  BY <1>3, <1>4, MeansStutter

(* A read of `got' bytes from a file that held s; see ByteStore.           *)
Delivered(fd, count, name, offset, got, s) ==
  /\ desc[fd] # Closed /\ name = desc[fd].name /\ offset = desc[fd].offset
  /\ got = Len(buf') /\ s = seen[name]
  /\ DOMAIN seen' = DOMAIN seen /\ \A m \in DOMAIN seen \ {name} : seen'[m] = seen[m]
  /\ Len(seen'[name]) = Len(s)
  /\ \A k \in 1..Len(s) : Store!KeptAt(s, seen'[name], k)
  /\ \/ got = Store!MinOf(count, Len(s) - offset)
     \/ got < Store!MinOf(count, Len(s) - offset) /\ s[offset + got + 1] = Hole
  /\ \/ HostFails
     \/ \A k \in 1..got :
          \/ s[offset + k] = buf'[k]
          \/ s[offset + k] = Hole /\ (buf'[k] = 0 \/ Store!HoleBefore(s, offset))
  /\ desc' = [desc EXCEPT ![fd].offset = offset + got]
  /\ call' = Idle

LEMMA DeliveredIsRead ==
  ASSUME NEW fd \in Fds, NEW count, NEW name, NEW offset, NEW got, NEW s,
         Delivered(fd, count, name, offset, got, s)
  PROVE  Store!Read(fd, count, HostFails)
BY DEF Delivered, Store!Read, Store!OthersUnchanged, Store!Files, desc, DescOf

(* What fs_read and fs_write leave, in terms of what the client saw before *)
(* the call and sees now.                                                  *)
LEMMA ReturnSeen ==
  ASSUME Inv, Seeking, DataInv, Rest', Return, UNCHANGED data,
         NEW i, i = entry, NEW fd, fd = call.fd, NEW offset, offset = start,
         NEW done, done = call.done, NEW name, name = root_dir[i].filename
  PROVE  /\ fd \in Fds /\ desc[fd] # Closed /\ desc[fd].name = name /\ desc[fd].offset = offset
         /\ desc' = [desc EXCEPT ![fd].offset = offset + done]
         /\ call' = Idle
         /\ DOMAIN seen' = DOMAIN seen
         /\ \A m \in DOMAIN seen \ {name} : seen'[m] = seen[m]
         /\ seen[name] = Before /\ Len(seen[name]) = root_dir[i].size
         /\ Len(seen'[name]) = EndOf(i)
         /\ \A k \in 1..EndOf(i) : seen'[name][k] = ByteAt(i, k - 1)
<1>0. call.pc = "return" /\ call # Idle /\ call' = Idle /\ UNCHANGED fat
  BY DEF Return, Idle
<1>1. /\ i \in Files(root_dir) /\ i \in Slots /\ root_dir \in RootDir /\ IsOpen(fd) /\ fd \in Fds
      /\ i = open_files[fd].index_in_rootdir /\ offset = open_files[fd].offset
      /\ open_files \in [Fds -> [empty : BOOLEAN, index_in_rootdir : Slots, offset : Nat]]
      /\ position = offset + done
  BY <1>0, Calling DEF DataInv, Inv, Typed, TypeOK, entry, start
<1>2. \A j \in Slots : /\ root_dir'[j].filename = root_dir[j].filename
                       /\ root_dir'[j].data_index = root_dir[j].data_index
                       /\ root_dir'[j].size = EndOf(j)
  <2>1. \/ call.op = "write" /\ position > root_dir[i].size
           /\ root_dir' = [root_dir EXCEPT ![i].size = position]
        \/ ~(call.op = "write" /\ position > root_dir[i].size) /\ root_dir' = root_dir
    BY DEF Return, entry, start, position
  <2> QED
    BY <1>1, <2>1 DEF EndOf, RootDir
<1>3. /\ Files(root_dir') = Files(root_dir) /\ FileNames' = FileNames
      /\ \A j \in Files(root_dir) : j \in Slots
  BY <1>2 DEF Files, no_file_exists, FileNames
<1>4. open_files' = [open_files EXCEPT ![fd].offset = offset + done]
  BY <1>1 DEF Return
<1>5. /\ desc[fd] # Closed /\ desc[fd].name = name /\ desc[fd].offset = offset
      /\ desc[fd] = [name |-> name, offset |-> offset]
  BY <1>1, OpenDesc
<1>6. desc' = [desc EXCEPT ![fd].offset = offset + done]
  <2>1. DescOf(fd)' = [name |-> name, offset |-> offset + done]
    BY <1>1, <1>2, <1>4 DEF DescOf, IsOpen
  <2>2. \A g \in Fds : g # fd => DescOf(g)' = DescOf(g)
    BY <1>1, <1>2, <1>4 DEF DescOf, IsOpen
  <2> QED
    BY <1>1, <1>5, <2>1, <2>2, DescOffset
<1>7. /\ DOMAIN seen = FileNames
      /\ \A j \in Files(root_dir) : j # i =>
           seen[root_dir[j].filename] = ContentOf(fat, root_dir[j])
      /\ seen[name] = Before /\ Len(seen[name]) = root_dir[i].size
  BY <1>0 DEF DataInv, Seen, Before
<1>8. DOMAIN seen' = DOMAIN seen
  BY <1>3, <1>7 DEF Rest
<1>9. \A m \in DOMAIN seen \ {name} : seen'[m] = seen[m]
  <2> SUFFICES ASSUME NEW j \in Files(root_dir), j # i
               PROVE  seen'[root_dir[j].filename] = seen[root_dir[j].filename]
    BY <1>7 DEF FileNames
  <2>1. root_dir'[j].size = root_dir[j].size
    BY <1>1, <1>2, <1>3 DEF EndOf
  <2>2. ContentOf(fat, root_dir[j])' = ContentOf(fat, root_dir[j])
    BY <1>0, <1>2, <1>3, <2>1 DEF ContentOf
  <2>3. seen'[root_dir'[j].filename] = ContentOf(fat, root_dir[j])'
    BY <1>3 DEF Rest
  <2> QED
    BY <1>2, <1>3, <1>7, <2>2, <2>3
<1>10. \A k : ByteAt(i, k)' = ByteAt(i, k)
  <2>1. Nth(i)' = Nth(i)
    BY <1>0, <1>1, <1>2 DEF Nth
  <2> QED
    BY <2>1 DEF ByteAt
<1>11. /\ Len(seen'[name]) = EndOf(i)
       /\ \A k \in 1..EndOf(i) : seen'[name][k] = ByteAt(i, k - 1)
  <2>1. i \in Files(root_dir') /\ root_dir'[i].filename = name /\ root_dir'[i].size = EndOf(i)
    BY <1>1, <1>2, <1>3
  <2>2. /\ Len(seen'[name]) = EndOf(i)
        /\ \A k \in 1..EndOf(i) : seen'[name][k] = ByteAt(i, k - 1)'
    BY <2>1 DEF Rest
  <2> QED
    BY <1>10, <2>2
<1> QED
  BY <1>0, <1>1, <1>5, <1>6, <1>7, <1>8, <1>9, <1>11

LEMMA WriteReturns ==
  ASSUME Inv, Seeking, DataInv, Rest', Return, call.op = "write", UNCHANGED <<data, buf, host>>
  PROVE  Store!Call(HostFails)
<1> PICK i, fd, offset, done, name :
      i = entry /\ fd = call.fd /\ offset = start /\ done = call.done /\ name = root_dir[i].filename
  OBVIOUS
<1>0. call # Idle
  BY DEF Return, Idle
<1>1. /\ fd \in Fds /\ desc[fd] # Closed /\ desc[fd].name = name /\ desc[fd].offset = offset
      /\ desc' = [desc EXCEPT ![fd].offset = offset + done]
      /\ call' = Idle
      /\ DOMAIN seen' = DOMAIN seen
      /\ \A m \in DOMAIN seen \ {name} : seen'[m] = seen[m]
      /\ seen[name] = Before /\ Len(seen[name]) = root_dir[i].size
      /\ Len(seen'[name]) = EndOf(i)
      /\ \A k \in 1..EndOf(i) : seen'[name][k] = ByteAt(i, k - 1)
  BY ReturnSeen
<1>2. /\ position = offset + done /\ offset \in Nat /\ done \in Nat /\ call.left \in Nat
      /\ root_dir[i].size \in Nat
  BY <1>0, Calling DEF DataInv
<1>3. EndOf(i) = Store!MaxOf(root_dir[i].size, offset + done)
  BY <1>2 DEF EndOf, Store!MaxOf
<1>4. /\ buf \in Buffers /\ done + call.left <= Len(buf)
      /\ \A k \in 1..EndOf(i) :
           WrittenByte(host, Before, k, ByteAt(i, k - 1), offset, buf, done)
  BY DEF DataInv, WrittenSoFar
<1>5. done \in 0..Len(buf)
  <2>1. buf \in Seq(Bytes)
    BY DEF DataInv, DataOK
  <2>2. Len(buf) \in Nat
    BY <2>1, LenProperties
  <2> QED
    BY <1>2, <1>4, <2>2
<1>6. \A k \in 1..EndOf(i) :
        WrittenByte(host, seen[name], k, seen'[name][k], offset, buf, done)
  BY <1>1, <1>4
<1> PICK w : w = buf
  OBVIOUS
<1>7. \/ Store!Stored(seen[name], seen'[name], offset, w, done)
      \/ HostFails /\ Store!Spoiled(seen[name], seen'[name], offset, done)
  <2>1. CASE host = "reliable"
    BY <1>1, <1>6, <2>1 DEF WrittenByte, StoredByte, KeptByte, Store!Stored, Store!KeptAt
  <2>2. CASE host = "failing"
    BY <1>1, <1>6, <2>2 DEF WrittenByte, SpoiledByte, KeptByte, Store!Spoiled, Store!KeptAt, HostFails
  <2> QED
    BY <2>1, <2>2 DEF DataInv, DataOK
<1>8. Len(seen'[name]) = Store!MaxOf(Len(seen[name]), offset + done)
  BY <1>1, <1>3
<1>9. w \in Buffers /\ done \in 0..Len(w) /\ buf' = w
  BY <1>4, <1>5
<1> QED
  <2>1. /\ fd \in Fds /\ desc[fd] # Closed /\ name = desc[fd].name /\ offset = desc[fd].offset
        /\ DOMAIN seen' = DOMAIN seen /\ (\A m \in DOMAIN seen \ {name} : seen'[m] = seen[m])
        /\ desc' = [desc EXCEPT ![fd].offset = offset + done]
        /\ call' = Idle /\ host' = host
    BY <1>1
  <2>2. Store!Write(fd, w, done, HostFails)
    BY <1>7, <1>8, <1>9, <2>1 DEF Store!Write, Store!OthersUnchanged, Store!Files, desc, DescOf
  <2> QED
    BY <1>9, <2>1, <2>2 DEF Store!Call

LEMMA ReadReturns ==
  ASSUME Inv, Seeking, DataInv, Rest', Return, call.op = "read", UNCHANGED <<data, buf, host>>
  PROVE  Store!Call(HostFails)
<1> PICK i, fd, offset, done, name, s :
      /\ i = entry /\ fd = call.fd /\ offset = start /\ done = call.done
      /\ name = root_dir[i].filename /\ s = seen[name]
  OBVIOUS
<1>0. call # Idle /\ call.pc = "return"
  BY DEF Return, Idle
<1>1. /\ fd \in Fds /\ desc[fd] # Closed /\ desc[fd].name = name /\ desc[fd].offset = offset
      /\ desc' = [desc EXCEPT ![fd].offset = offset + done]
      /\ call' = Idle
      /\ DOMAIN seen' = DOMAIN seen
      /\ \A m \in DOMAIN seen \ {name} : seen'[m] = seen[m]
      /\ seen[name] = Before /\ Len(seen[name]) = root_dir[i].size
      /\ Len(seen'[name]) = EndOf(i)
      /\ \A k \in 1..EndOf(i) : seen'[name][k] = ByteAt(i, k - 1)
  BY ReturnSeen
<1>2. /\ position = offset + done /\ offset \in Nat /\ done \in Nat /\ call.left \in Nat
      /\ root_dir[i].size \in Nat /\ root_dir[i].size <= MaxSize
      /\ offset + done + call.left <= root_dir[i].size /\ i \in Files(root_dir)
  BY <1>0, Calling DEF DataInv
<1>3. EndOf(i) = root_dir[i].size
  BY DEF EndOf
<1>4. /\ \A k \in 1..root_dir[i].size : KeptByte(s, k, ByteAt(i, k - 1))
      /\ Len(buf) = done
      /\ \A k \in 1..done : ReadByte(host, s, k, buf[k], offset)
  BY <1>1 DEF DataInv, ReadSoFar
<1>5. PICK count \in Counts : done + call.left = MinOf(count, root_dir[i].size - offset)
  BY DEF DataInv, ReadSoFar
<1>6. \A k \in 1..Len(s) : Store!KeptAt(s, seen'[name], k)
  BY <1>1, <1>3, <1>4 DEF KeptByte, Store!KeptAt
<1>7. done + call.left = Store!MinOf(count, Len(s) - offset)
  BY <1>1, <1>5 DEF MinOf, Store!MinOf
<1>8. call.left > 0 => s[offset + done + 1] = Hole
  <2> SUFFICES ASSUME call.left > 0
               PROVE  s[offset + done + 1] = Hole
    OBVIOUS
  <2>1. /\ index \in 0..MaxSize /\ InPlace(i, index, call.block)
        /\ call.block \in {NoBlock, FAT_EOC} /\ index = position \div BLOCK_SIZE
    BY <1>0 DEF DataInv, Located, Searching, index
  <2>2. Nth(i)[position \div BLOCK_SIZE] = FAT_EOC
    BY <2>1, BlocksFacts DEF InPlace
  <2>3. ByteAt(i, offset + done) = Hole
    BY <1>2, <2>2 DEF ByteAt, ByteOf
  <2>4. offset + done + 1 \in 1..root_dir[i].size /\ (offset + done + 1) - 1 = offset + done
    BY <1>2
  <2>5. KeptByte(s, offset + done + 1, ByteAt(i, offset + done))
    BY <1>4, <2>4
  <2> QED
    BY <2>3, <2>5, HoleFacts DEF KeptByte
<1>9. \/ done = Store!MinOf(count, Len(s) - offset)
      \/ done < Store!MinOf(count, Len(s) - offset) /\ s[offset + done + 1] = Hole
  BY <1>2, <1>7, <1>8
<1>10. \/ HostFails
       \/ \A k \in 1..done :
            \/ s[offset + k] = buf'[k]
            \/ s[offset + k] = Hole /\ (buf'[k] = 0 \/ Store!HoleBefore(s, offset))
  BY <1>4 DEF ReadByte, DataInv, DataOK, HostFails
<1>11. done = Len(buf') /\ Len(seen'[name]) = Len(s) /\ name = desc[fd].name /\ offset = desc[fd].offset
  BY <1>1, <1>3, <1>4
<1> QED
  <2>1. /\ fd \in Fds /\ desc[fd] # Closed /\ name = desc[fd].name /\ offset = desc[fd].offset
        /\ DOMAIN seen' = DOMAIN seen /\ (\A m \in DOMAIN seen \ {name} : seen'[m] = seen[m])
        /\ desc' = [desc EXCEPT ![fd].offset = offset + done]
        /\ call' = Idle /\ host' = host
    BY <1>1, <1>11
  <2>2. count \in Counts /\ s = seen[name]
    OBVIOUS
  <2>3. Delivered(fd, count, name, offset, done, s)
    BY <1>6, <1>9, <1>10, <1>11, <2>1, <2>2 DEF Delivered
  <2>4. Store!Read(fd, count, HostFails)
    BY <2>1, <2>3, DeliveredIsRead, Zenon
  <2> QED
    BY <2>1, <2>4 DEF Store!Call

(* A step of the library is a call of the store, or none.                  *)
LEMMA StepIsCall ==
  ASSUME Inv, Seeking, DataInv, Detached, Inv', Seeking', DataInv', Detached',
         [DataNext]_dataVars
  PROVE  [Store!Call(HostFails)]_(Store!vars)
<1>1. CASE UNCHANGED dataVars
  <2>1. UNCHANGED <<root_dir, open_files, seen, host, call, buf>>
    BY <1>1 DEF dataVars
  <2>2. UNCHANGED desc
    BY <2>1, NamesKeepDesc
  <2> QED
    BY <2>1, <2>2, MeansStutter
<1>2. CASE DataNext
  <2>0. UNCHANGED host /\ seen' = IF call' = Idle THEN Contents' ELSE seen
    BY <1>2 DEF DataNext
  <2>1. call' = Idle => Rest'
    BY ThenAtRestSeen
  <2>2. call = Idle => Rest
    BY AtRestSeen
  <2>3. Seen'
    BY DEF DataInv
  <2>4. CASE Quiet
    <3>1. call = Idle /\ call' = Idle
      BY <2>4, QuietFiles
    <3> QED
      BY <2>0, <2>1, <2>2, <2>3, <2>4, <3>1, QuietIsNext
  <2>5. CASE Hop \/ WriteData \/ ReadData
    <3>1. Hop \/ WriteBlock \/ ReadBlock
      BY <2>5 DEF WriteData, ReadData
    <3> QED
      BY <2>0, <3>1, InsideIsStutter
  <2>6. CASE Return /\ UNCHANGED <<data, buf>>
    <3>1. call' = Idle /\ call # Idle
      BY <2>6 DEF Return, Idle
    <3>2. call.op \in {"read", "write"}
      BY <3>1, Calling DEF DataInv
    <3> QED
      BY <2>0, <2>1, <2>6, <3>1, <3>2, WriteReturns, ReadReturns
  <2>7. ASSUME NEW fd \in Fds, NEW count \in Counts, BeginRead(fd, count)
        PROVE  Store!Call(HostFails)
    <3>1. Enter("read", fd, MinOf(count, fs_stat(fd) - open_files[fd].offset))
          /\ UNCHANGED open_files
      BY <2>7 DEF BeginRead, fs_read
    <3>2. MinOf(count, fs_stat(fd) - open_files[fd].offset) \in Int
      BY BoundsAssumption DEF MinOf, fs_stat, Inv, Typed, TypeOK, RootDir
    <3> QED
      BY <2>0, <3>1, <3>2, EnterIsNext
  <2>8. ASSUME NEW fd \in Fds, NEW w \in Buffers, BeginWrite(fd, w)
        PROVE  Store!Call(HostFails)
    <3>1. Enter("write", fd, Len(w)) /\ UNCHANGED open_files
      BY <2>8 DEF BeginWrite, fs_write
    <3>2. w \in Seq(Bytes)
      BY BytesAssumption, Zenon
    <3>3. Len(w) \in Int
      BY <3>2, LenProperties
    <3> QED
      BY <2>0, <3>1, <3>3, EnterIsNext
  <2> QED
    BY <1>2, <2>4, <2>5, <2>6, <2>7, <2>8 DEF DataNext, InCall
<1> QED
  BY <1>1, <1>2

LEMMA Implemented ==
  DataSpec => Store!Init /\ [][Store!Call(HostFails)]_(Store!vars)
<1>1. DataInit => Store!Init
  <2> SUFFICES ASSUME DataInit
               PROVE  Store!Init
    OBVIOUS
  <2>1. \A fd \in Fds : ~IsOpen(fd)
    BY DEF DataInit, Init, AllClosed, ClosedFile, IsOpen
  <2>2. [fd \in Fds |-> DescOf(fd)] = [fd \in Fds |-> Closed]
    BY <2>1 DEF DescOf
  <2> QED
    BY <2>2 DEF DataInit, Init, Store!Init, DescOf
<1>2. DataInit => Inv /\ Seeking /\ DataInv /\ Detached
  <2>1. DataInit => Detached
    BY DEF DataInit, Init, AllClosed, ClosedFile, EmptyFds, Detached
  <2> QED
    BY <2>1, InitInv, InitSeeking, InitData DEF DataInit
<1>3. Inv /\ Seeking /\ DataInv /\ Detached /\ [DataNext]_dataVars
        => (Inv /\ Seeking /\ DataInv /\ Detached)'
  <2>1. Inv /\ [DataNext]_dataVars => Inv'
    BY DataIsAnyNext, NextInv
  <2>2. Inv /\ Inv' /\ Seeking /\ [DataNext]_dataVars => Seeking'
    BY DataIsAnyNext, NextSeeking DEF Inv
  <2>3. Inv /\ Detached /\ [DataNext]_dataVars => Detached'
    BY DataIsAnyNext, NextDetached DEF Inv
  <2> QED
    BY <2>1, <2>2, <2>3, NextData
<1> QED
  BY <1>1, <1>2, <1>3, StepIsCall, PTL DEF DataSpec

(* A host that does not fail leaves the calls of Spec, and what a call may *)
(* do then it may do on any host.                                          *)
LEMMA ReliableCall ==
  ASSUME ~HostFails, Store!Call(HostFails)
  PROVE  Store!Call(FALSE)
<1>1. ASSUME NEW fd \in Fds, NEW offset \in 0..MaxSize, Store!Seek(fd, offset, HostFails)
      PROVE  Store!Seek(fd, offset, FALSE)
  <2>1. desc[fd] # Closed /\ desc' = [desc EXCEPT ![fd].offset = offset]
    BY <1>1 DEF Store!Seek, desc, DescOf
  <2>2. CASE offset < Len(seen[desc[fd].name]) /\ UNCHANGED seen
    BY <2>1, <2>2 DEF Store!Seek, desc, DescOf
  <2>3. ASSUME offset = Len(seen[desc[fd].name]),
               NEW byte \in {Hole} \union (IF HostFails THEN Bytes ELSE {0}),
               seen' = [seen EXCEPT ![desc[fd].name] = Append(@, byte)]
        PROVE  Store!Seek(fd, offset, FALSE)
    <3>1. byte \in {Hole} \union {0}
      BY <2>3
    <3> QED
      BY <2>1, <2>3, <3>1 DEF Store!Seek, desc, DescOf
  <2> QED
    BY <1>1, <2>2, <2>3 DEF Store!Seek, desc, DescOf
<1>2. ASSUME NEW fd \in Fds, NEW w \in Buffers, NEW n \in 0..Len(w),
             Store!Write(fd, w, n, HostFails)
      PROVE  Store!Write(fd, w, n, FALSE)
  BY <1>2 DEF Store!Write
<1>3. ASSUME NEW fd \in Fds, NEW count \in Counts, Store!Read(fd, count, HostFails)
      PROVE  Store!Read(fd, count, FALSE)
  BY <1>3 DEF Store!Read
<1>4. Store!Other(HostFails) => Store!Other(FALSE)
  BY <1>1 DEF Store!Other
<1> QED
  BY <1>2, <1>3, <1>4 DEF Store!Call

LEMMA AnyCall ==
  ASSUME Store!Call(HostFails)
  PROVE  Store!Call(TRUE)
<1>1. ASSUME NEW fd \in Fds, NEW offset \in 0..MaxSize, Store!Seek(fd, offset, HostFails)
      PROVE  Store!Seek(fd, offset, TRUE)
  <2>1. desc[fd] # Closed /\ desc' = [desc EXCEPT ![fd].offset = offset]
    BY <1>1 DEF Store!Seek, desc, DescOf
  <2>2. CASE offset < Len(seen[desc[fd].name]) /\ UNCHANGED seen
    BY <2>1, <2>2 DEF Store!Seek, desc, DescOf
  <2>3. ASSUME offset = Len(seen[desc[fd].name]),
               NEW byte \in {Hole} \union (IF HostFails THEN Bytes ELSE {0}),
               seen' = [seen EXCEPT ![desc[fd].name] = Append(@, byte)]
        PROVE  Store!Seek(fd, offset, TRUE)
    <3>1. byte \in {Hole} \union Bytes
      BY <2>3, BytesAssumption
    <3> QED
      BY <2>1, <2>3, <3>1 DEF Store!Seek, desc, DescOf
  <2> QED
    BY <1>1, <2>2, <2>3 DEF Store!Seek, desc, DescOf
<1>2. ASSUME NEW fd \in Fds, NEW w \in Buffers, NEW n \in 0..Len(w),
             Store!Write(fd, w, n, HostFails)
      PROVE  Store!Write(fd, w, n, TRUE)
  BY <1>2 DEF Store!Write
<1>3. ASSUME NEW fd \in Fds, NEW count \in Counts, Store!Read(fd, count, HostFails)
      PROVE  Store!Read(fd, count, TRUE)
  BY <1>3 DEF Store!Read
<1>4. Store!Other(HostFails) => Store!Other(TRUE)
  BY <1>1 DEF Store!Other
<1> QED
  BY <1>2, <1>3, <1>4 DEF Store!Call

(* On a host that does not fail the contents of files, as the client sees  *)
(* them from call to call, are those of ByteStore.  That store has one     *)
(* exception for a disk that is full: behind a hole a write may be lost    *)
(* and a read deliver what was lost.                                       *)
THEOREM Refinement == DataSpec => FilesAreByteStores
<1>1. Store!Call(HostFails) => (host = "reliable" => Store!Next)
  BY ReliableCall DEF Store!Next, HostFails
<1>2. [Store!Call(HostFails)]_(Store!vars) => [host = "reliable" => Store!Next]_(Store!vars)
  BY <1>1
<1> QED
  BY <1>2, Implemented, PTL DEF FilesAreByteStores

(* Hence a host that never fails is all it takes to implement ByteStore.   *)
COROLLARY ReliableRefinement == DataSpec /\ [](host = "reliable") => Store!Spec
<1>1. host = "reliable" /\ [host = "reliable" => Store!Next]_(Store!vars) => [Store!Next]_(Store!vars)
  OBVIOUS
<1> QED
  BY <1>1, Refinement, PTL DEF FilesAreByteStores, Store!Spec

(* On any host, failing ones included, a call spoils no byte outside the   *)
(* blocks it reads or writes, no other file, and no size or offset.        *)
THEOREM FailuresContained == DataSpec => FailuresStayInCall
<1>1. Store!Call(HostFails) => Store!FailingNext
  BY AnyCall DEF Store!FailingNext
<1>2. [Store!Call(HostFails)]_(Store!vars) => [Store!FailingNext]_(Store!vars)
  BY <1>1
<1> QED
  BY <1>2, Implemented, PTL DEF FailuresStayInCall, Store!FailingSpec
=============================================================================
