--------------------------- MODULE FileSystemProofs ---------------------------
(***************************************************************************)
(* Proofs about FileSystem for every number of inodes and blocks, every    *)
(* set of names and every payload: the data blocks, and that inodes,       *)
(* bitmap and sectors together do what FileTree promises.                  *)
(***************************************************************************)
EXTENDS FileSystem, FiniteSetTheorems, WellFoundedInduction, TLAPS

-------------------------------------------------------------------------------
(* First fit. *)

(* Least picks the smallest member of a set of natural numbers. *)
LEMMA LeastIsLeast ==
  ASSUME NEW S \in SUBSET Nat, S # {}
  PROVE  Least(S) \in S /\ \A j \in S : Least(S) <= j
<1> DEFINE R == {ss \in Nat \X Nat : ss[1] < ss[2]}
<1>1. IsWellFoundedOn(R, Nat)
  BY NatLessThanWellFounded DEF OpToRel
<1>2. PICK m \in S : \A j \in S : ~(<<j, m>> \in R)
  <2> HIDE DEF R
  <2> QED BY <1>1, WFMin
<1>3. ASSUME NEW j \in S PROVE m <= j
  <2>1. <<j, m>> \notin R
    BY <1>2
  <2>2. ~(j < m)
    BY <2>1
  <2> QED BY <2>2
<1>4. QED
  BY <1>3 DEF Least

(* Of the members of a finite set of naturals one has exactly k below it,  *)
(* for every k less than their number.                                     *)
LEMMA EveryRankIsTaken ==
  ASSUME NEW F \in SUBSET Nat, IsFiniteSet(F), NEW k \in 0 .. Cardinality(F) - 1
  PROVE  \E b \in F : Cardinality({c \in F : c < b}) = k
<1> DEFINE Below(b) == {c \in F : c < b}
           Rank(b) == Cardinality(Below(b))
<1>1. Cardinality(F) \in Nat /\ k \in Nat
  BY FS_CardinalityType
<1>2. ASSUME NEW b \in F PROVE IsFiniteSet(Below(b)) /\ Rank(b) \in Nat
  BY FS_Subset, FS_CardinalityType, Below(b) \in SUBSET F
<1>3. ASSUME NEW b \in F, NEW c \in F, b < c PROVE Rank(b) < Rank(c)
  <2>0. b \in Nat /\ c \in Nat
    OBVIOUS
  <2>1. Below(b) \in SUBSET Below(c) /\ b \in Below(c) /\ b \notin Below(b)
    <3>1. ASSUME NEW d \in Below(b) PROVE d \in Below(c)
      <4>1. d \in F /\ d \in Nat /\ d < b
        OBVIOUS
      <4> QED BY <4>1, <2>0, <1>3
    <3>2. b \in Below(c) /\ b \notin Below(b)
      BY <2>0, <1>3
    <3> HIDE DEF Below
    <3> QED BY <3>1, <3>2
  <2>2. Rank(b) <= Rank(c) /\ Rank(b) # Rank(c)
    BY <2>1, <1>2, FS_Subset
  <2> QED BY <2>2, <1>2
<1>4. ASSUME NEW G \in SUBSET F, \A b \in G : Rank(b) < k
      PROVE  Cardinality(G) <= k
  <2> DEFINE f == [b \in G |-> Rank(b)]
  <2>1. \A b \in G : Rank(b) \in 0 .. k - 1
    BY <1>1, <1>2, <1>4
  <2>2. \A b, c \in G : Rank(b) = Rank(c) => b = c
    <3> SUFFICES ASSUME NEW b \in G, NEW c \in G, Rank(b) = Rank(c), b # c PROVE FALSE
      OBVIOUS
    <3>1. b < c \/ c < b
      OBVIOUS
    <3> QED BY <3>1, <1>2, <1>3
  <2> HIDE DEF Rank
  <2>3. f \in Injection(G, 0 .. k - 1)
    BY <2>1, <2>2 DEF Injection, IsInjective
  <2>4. IsFiniteSet(0 .. k - 1) /\ Cardinality(0 .. k - 1) = k
    <3>1. 0 \in Int /\ k - 1 \in Int /\ (0 > k - 1 => k = 0) /\ k - 1 - 0 + 1 = k
      BY <1>1
    <3> QED BY <3>1, <1>1, FS_Interval
  <2> QED BY <2>3, <2>4, FS_Injection
<1> DEFINE T == {b \in F : Rank(b) >= k}
<1>5. T # {}
  <2> SUFFICES ASSUME T = {} PROVE FALSE
    OBVIOUS
  <2>1. \A b \in F : Rank(b) < k
    BY <1>1, <1>2
  <2> QED BY <2>1, <1>1, <1>4
<1>6. Least(T) \in T /\ \A b \in T : Least(T) <= b
  BY <1>5, LeastIsLeast
<1>7. Rank(Least(T)) <= k
  <2>1. ASSUME NEW b \in Below(Least(T)) PROVE Rank(b) < k
    <3>1. b \in F /\ b \in Nat /\ Least(T) \in Nat /\ b < Least(T)
      BY <1>6
    <3>2. b \notin T
      <4>1. \A d \in T : Least(T) <= d
        BY <1>6
      <4>2. ~(Least(T) <= b)
        BY <3>1
      <4> HIDE DEF T
      <4> QED BY <4>1, <4>2
    <3>3. ~(Rank(b) >= k) /\ Rank(b) \in Nat
      BY <3>1, <3>2, <1>2
    <3> HIDE DEF Rank
    <3> QED BY <3>3, <1>1
  <2>2. Below(Least(T)) \in SUBSET F
    OBVIOUS
  <2> QED BY <2>1, <2>2, <1>4
<1>8. Least(T) \in F /\ Rank(Least(T)) = k
  <2>1. Least(T) \in F /\ Rank(Least(T)) >= k
    BY <1>6
  <2>2. Rank(Least(T)) \in Nat
    BY <2>1, <1>2
  <2> HIDE DEF Rank
  <2> QED BY <2>1, <2>2, <1>1, <1>7
<1> QED BY <1>8

(* As long as there are enough free blocks, first fit hands out one free   *)
(* block per call and none of them twice.                                  *)
LEMMA FirstFitIsSound ==
  ASSUME NEW F \in SUBSET Nat, IsFiniteSet(F), NEW n \in 0 .. Cardinality(F)
  PROVE  /\ FirstFit(F, n) \in [0 .. n - 1 -> F]
         /\ \A j, k \in 0 .. n - 1 : FirstFit(F, n)[j] = FirstFit(F, n)[k] => j = k
<1> DEFINE Pick(k) == CHOOSE b \in F : Cardinality({c \in F : c < b}) = k
<1>1. Cardinality(F) \in Nat
  BY FS_CardinalityType
<1>2. ASSUME NEW k \in 0 .. n - 1
      PROVE  Pick(k) \in F /\ Cardinality({c \in F : c < Pick(k)}) = k
  <2>1. k \in 0 .. Cardinality(F) - 1
    BY <1>1
  <2>2. \E b \in F : Cardinality({c \in F : c < b}) = k
    BY <2>1, EveryRankIsTaken
  <2> QED BY <2>2
<1>3. FirstFit(F, n) = [k \in 0 .. n - 1 |-> Pick(k)]
  BY DEF FirstFit
<1> HIDE DEF Pick
<1> QED BY <1>2, <1>3

-------------------------------------------------------------------------------
(* Looking up names and inodes. *)

LEMMA Constants ==
  /\ Inodes \in SUBSET Nat /\ Root \in Inodes /\ IsFiniteSet(Inodes)
  /\ Slot \in SUBSET Nat /\ IsFiniteSet(Slot) /\ Cardinality(Slot) = DirectBlocks
  /\ Block \in SUBSET Nat /\ NoBlock \notin Block
  /\ IsFiniteSet(Block) /\ Cardinality(Block) = TotalBlocks
  /\ EmptyInode \in Inode /\ RootInode \in Inode
<1> USE SizesAssumption
<1>1. IsFiniteSet(Inodes)
  BY FS_Interval DEF Inodes
<1>2. IsFiniteSet(Slot) /\ Cardinality(Slot) = DirectBlocks
  <2>1. 0 \in Int /\ DirectBlocks - 1 \in Int /\ (0 > DirectBlocks - 1 => DirectBlocks = 0)
    OBVIOUS
  <2> QED BY <2>1, FS_Interval DEF Slot
<1>3. IsFiniteSet(Block) /\ Cardinality(Block) = TotalBlocks
  <2> DEFINE last == DataStart + TotalBlocks - 1
  <2>1. DataStart \in Int /\ last \in Int /\ (DataStart > last => TotalBlocks = 0)
    OBVIOUS
  <2>2. /\ IsFiniteSet(DataStart .. last)
        /\ Cardinality(DataStart .. last) = IF DataStart > last THEN 0 ELSE last - DataStart + 1
    BY <2>1, FS_Interval
  <2> QED BY <2>2 DEF Block
<1>4. EmptyInode \in Inode
  BY DEF EmptyInode, Inode, NoBlocks, Inodes, Root
<1>5. RootInode \in Inode
  BY NamesAssumption DEF RootInode, Inode, NoBlocks, Inodes, Root
<1> QED BY <1>1, <1>2, <1>3, <1>4, <1>5 DEF Inodes, Slot, Block, Root, NoBlock

(* A name that find_in_dir finds belongs to a used inode of cwd. *)
LEMMA FindFinds ==
  ASSUME NEW name, Matches(name) # {}
  PROVE  /\ Find(name) \in Inodes /\ inode[Find(name)].used
         /\ inode[Find(name)].parent = cwd /\ inode[Find(name)].name = name
<1>1. Matches(name) \in SUBSET Nat
  BY Constants DEF Matches, Children, Used
<1>2. Find(name) \in Matches(name)
  BY <1>1, LeastIsLeast DEF Find
<1> QED BY <1>2 DEF Matches, Children, Used

(* alloc_inode returns an inode that is not in use. *)
LEMMA FreeInodeIsFree ==
  ASSUME Used # Inodes
  PROVE  FreeInode \in Inodes /\ ~inode[FreeInode].used
<1>1. Inodes \ Used # {} /\ Inodes \ Used \in SUBSET Nat
  BY Constants DEF Used
<1>2. FreeInode \in Inodes \ Used
  BY <1>1, LeastIsLeast DEF FreeInode
<1> QED BY <1>2 DEF Used

(* write refuses the root because it is a directory, and remove because it *)
(* is its own child.                                                       *)
LEMMA RootIsSpared ==
  ASSUME Inv, NEW i \in Inodes, ~inode[i].isDir \/ Children(i) = {}
  PROVE  i # Root
<1>1. inode[Root].isDir /\ Root \in Children(Root)
  BY Constants DEF Inv, RootKept, RootInode, Children, Used
<1> QED BY <1>1

-------------------------------------------------------------------------------
(* Counting blocks. *)

(* BitmapExact, block by block. *)
LEMMA MarkedIsNamed ==
  ASSUME Inv, NEW b
  PROVE  b \in bitmap <=> b # NoBlock /\ \E i \in Inodes, s \in Slot : inode[i].blocks[s] = b
BY DEF Inv, BlocksOK, BitmapExact, BlocksOf

(* One file less needs the blocks of one file less. *)
LEMMA OneFileLess ==
  ASSUME NEW m \in Int, NEW n \in Int
  PROVE  (m - 1) * n = (m - 2) * n + n
OBVIOUS

(* Once a file's blocks are freed there is room for any content. *)
LEMMA RoomForOne ==
  ASSUME Inv, NEW i \in Inodes, i # Root
  PROVE  DirectBlocks <= Cardinality(Block \ (bitmap \ BlocksOf(i)))
<1> USE SizesAssumption
<1> DEFINE kept == bitmap \ BlocksOf(i)
           others == (Inodes \ {Root}) \ {i}
           names(b, p) == inode[p[1]].blocks[p[2]] = b
           place(b) == CHOOSE p \in others \X Slot : names(b, p)
           f == [b \in kept |-> place(b)]
<1>1. ASSUME NEW b \in kept PROVE \E p \in others \X Slot : names(b, p)
  <2>1. PICK j \in Inodes, s \in Slot : b # NoBlock /\ inode[j].blocks[s] = b
    BY MarkedIsNamed
  <2>2. j # i
    BY <2>1 DEF BlocksOf
  <2>3. j # Root
    BY <2>1 DEF Inv, RootKept, RootInode, NoBlocks
  <2>4. <<j, s>> \in others \X Slot /\ names(b, <<j, s>>)
    BY <2>1, <2>2, <2>3
  <2> QED BY <2>4
<1>2. f \in Injection(kept, others \X Slot)
  <2>1. \A b \in kept : place(b) \in others \X Slot /\ names(b, place(b))
    BY <1>1
  <2>2. \A b, c \in kept : place(b) = place(c) => b = c
    BY <2>1
  <2> HIDE DEF place
  <2> QED BY <2>1, <2>2 DEF Injection, IsInjective
<1> HIDE DEF f
<1>3. IsFiniteSet(others) /\ Cardinality(others) = MaxFiles - 2
  <2>1. IsFiniteSet(Inodes) /\ Cardinality(Inodes) = MaxFiles
    <3>1. 0 \in Int /\ MaxFiles - 1 \in Int /\ ~(0 > MaxFiles - 1)
      OBVIOUS
    <3> QED BY <3>1, FS_Interval DEF Inodes
  <2>2. IsFiniteSet(Inodes \ {Root}) /\ Cardinality(Inodes \ {Root}) = MaxFiles - 1
    BY <2>1, Constants, FS_RemoveElement
  <2>3. i \in Inodes \ {Root}
    OBVIOUS
  <2>4. /\ IsFiniteSet((Inodes \ {Root}) \ {i})
        /\ Cardinality((Inodes \ {Root}) \ {i}) = Cardinality(Inodes \ {Root}) - 1
    <3> HIDE DEF others
    <3> QED BY <2>2, <2>3, FS_RemoveElement
  <2> QED BY <2>2, <2>4
<1>4. /\ IsFiniteSet(others \X Slot)
      /\ Cardinality(others \X Slot) = (MaxFiles - 2) * DirectBlocks
  BY <1>3, Constants, FS_Product
<1>5. IsFiniteSet(kept) /\ Cardinality(kept) <= (MaxFiles - 2) * DirectBlocks
  BY <1>2, <1>4, FS_Injection
<1>6. kept \in SUBSET Block /\ Block \cap kept = kept
  BY DEF Inv, TypeOK
<1>7. Cardinality(Block \ kept) = TotalBlocks - Cardinality(kept)
  <2>1. IsFiniteSet(Block) /\ Cardinality(Block) = TotalBlocks
    BY Constants
  <2> QED BY ONLY <1>6, <2>1, FS_Difference
<1>8. Cardinality(kept) \in Nat
  BY <1>5, FS_CardinalityType
<1>9. (MaxFiles - 1) * DirectBlocks = (MaxFiles - 2) * DirectBlocks + DirectBlocks
  <2>1. MaxFiles \in Int /\ DirectBlocks \in Int
    OBVIOUS
  <2> HIDE SizesAssumption
  <2> QED BY ONLY <2>1, OneFileLess
<1> HIDE DEF kept
<1>10. (MaxFiles - 2) * DirectBlocks \in Int /\ (MaxFiles - 1) * DirectBlocks <= TotalBlocks
  OBVIOUS
<1>11. DirectBlocks <= TotalBlocks - Cardinality(kept)
  BY <1>5, <1>8, <1>9, <1>10
<1> QED BY <1>7, <1>11 DEF kept

-------------------------------------------------------------------------------
(* What the operations do in a state that satisfies Inv. *)

(* The inode table after write put the new inode on the disk. *)
Rewritten(i, need, lba) ==
  [inode EXCEPT ![i] = [inode[i] EXCEPT
     !.size = need,
     !.blocks = [s \in Slot |-> IF s < need THEN lba[s] ELSE NoBlock]]]

(* Inode i gets the blocks lba, which are distinct, were free or its own,   *)
(* and are the only sectors that change.                                   *)
Writes(name, data, i, need, lba) ==
  /\ i = Find(name) /\ i # Root /\ inode[i].used /\ ~inode[i].isDir
  /\ data \in [0 .. need - 1 -> Payload]
  /\ \A j, k \in 0 .. need - 1 : lba[j] = lba[k] => j = k
  /\ bitmap' = (bitmap \ BlocksOf(i)) \cup Range(lba)
  /\ sector' \in [Block -> Payload]
  /\ \A k \in 0 .. need - 1 : sector'[lba[k]] = data[k]
  /\ \A b \in Block \ Range(lba) : sector'[b] = sector[b]
  /\ inode' = Rewritten(i, need, lba)
  /\ cwd' = cwd

(* A write always fits. *)
LEMMA WriteEffect ==
  ASSUME Inv, NEW name, NEW data \in Contents, Write(name, data)
  PROVE  \E i \in Inodes, need \in 0 .. DirectBlocks :
         \E lba \in [0 .. need - 1 -> Block \ (bitmap \ BlocksOf(i))] :
           Writes(name, data, i, need, lba)
<1> USE SizesAssumption
<1> DEFINE i == Find(name)
           need == Cardinality(DOMAIN data)
           kept == bitmap \ BlocksOf(i)
           free == Block \ kept
           fits == need <= Cardinality(free)
           lba == FirstFit(free, need)
<1>1. i \in Inodes /\ inode[i].used /\ ~inode[i].isDir
  BY FindFinds DEF Write
<1>2. i # Root
  BY <1>1, RootIsSpared
<1>3. need \in 0 .. DirectBlocks /\ data \in [0 .. need - 1 -> Payload]
  <2>1. PICK n \in 0 .. DirectBlocks : data \in [0 .. n - 1 -> Payload]
    BY DEF Contents
  <2>2. n = need
    <3>1. 0 \in Int /\ n - 1 \in Int /\ (0 > n - 1 => n = 0) /\ n - 1 - 0 + 1 = n
      OBVIOUS
    <3>2. Cardinality(0 .. n - 1) = n
      BY <3>1, FS_Interval
    <3> QED BY <2>1, <3>2
  <2> QED BY <2>1, <2>2
<1>4. free \in SUBSET Nat /\ IsFiniteSet(free) /\ Cardinality(free) \in Nat
  BY Constants, FS_Subset, FS_CardinalityType
<1>5. fits
  <2>1. DirectBlocks <= Cardinality(free)
    BY <1>1, <1>2, RoomForOne
  <2> HIDE DEF free
  <2> QED BY <2>1, <1>3, <1>4
<1>6. /\ lba \in [0 .. need - 1 -> free]
      /\ \A j, k \in 0 .. need - 1 : lba[j] = lba[k] => j = k
  <2>1. need \in 0 .. Cardinality(free)
    BY <1>3, <1>4, <1>5
  <2> HIDE DEF free, need
  <2> QED BY <2>1, <1>4, FirstFitIsSound
<1>7. /\ bitmap' = kept \cup Range(lba)
      /\ sector' = [b \in Block |->
                      IF b \in Range(lba) THEN data[CHOOSE k \in DOMAIN lba : lba[k] = b]
                                          ELSE sector[b]]
      /\ inode' = Rewritten(i, need, lba)
      /\ cwd' = cwd
  BY <1>5 DEF Write, Rewritten
<1> HIDE DEF need, free, lba, kept
<1>8. /\ sector' \in [Block -> Payload]
      /\ \A k \in 0 .. need - 1 : sector'[lba[k]] = data[k]
      /\ \A b \in Block \ Range(lba) : sector'[b] = sector[b]
  <2>1. DOMAIN lba = 0 .. need - 1 /\ free \in SUBSET Block
    BY <1>6 DEF free
  <2>2. ASSUME NEW k \in 0 .. need - 1
        PROVE  lba[k] \in Block /\ lba[k] \in Range(lba) /\ k = CHOOSE m \in DOMAIN lba : lba[m] = lba[k]
    BY <2>1, <1>6 DEF Range
  <2>3. \A k \in 0 .. need - 1 : sector'[lba[k]] = data[k]
    BY <2>2, <1>7
  <2>4. ASSUME NEW b \in Block PROVE sector'[b] \in Payload
    <3>1. CASE b \in Range(lba)
      <4>1. PICK k \in 0 .. need - 1 : b = lba[k]
        BY <3>1, <2>1 DEF Range
      <4> QED BY <4>1, <2>3, <1>3
    <3>2. CASE b \notin Range(lba)
      BY <3>2, <1>7 DEF Inv, TypeOK
    <3> QED BY <3>1, <3>2
  <2> QED BY <2>3, <2>4, <1>7
<1>9. lba \in [0 .. need - 1 -> Block \ (bitmap \ BlocksOf(i))]
  BY <1>6 DEF free, kept
<1>10. Writes(name, data, i, need, lba)
  BY <1>1, <1>2, <1>3, <1>6, <1>7, <1>8 DEF kept, Writes
<1> HIDE DEF i
<1> QED BY <1>1, <1>3, <1>9, <1>10

(* The other two operations that change the disk. *)
LEMMA AddEffect ==
  ASSUME Inv, NEW name, NEW isDir, AddEntry(name, isDir)
  PROVE  \E i \in Inodes :
           /\ ~inode[i].used /\ i # Root
           /\ inode' = [inode EXCEPT ![i] =
                          [used |-> TRUE, isDir |-> isDir, parent |-> cwd, name |-> name,
                           size |-> 0, blocks |-> NoBlocks]]
           /\ UNCHANGED <<bitmap, sector, cwd>>
<1>1. FreeInode \in Inodes /\ ~inode[FreeInode].used
  BY FreeInodeIsFree DEF AddEntry
<1>2. FreeInode # Root
  BY <1>1 DEF Inv, RootKept, RootInode
<1> QED BY <1>1, <1>2 DEF AddEntry

LEMMA RemoveEffect ==
  ASSUME Inv, NEW name, Remove(name)
  PROVE  \E i \in Inodes :
           /\ i = Find(name) /\ i # Root /\ inode[i].used
           /\ inode[i].isDir => Children(i) = {}
           /\ bitmap' = bitmap \ BlocksOf(i)
           /\ inode' = [inode EXCEPT ![i] = EmptyInode]
           /\ UNCHANGED <<sector, cwd>>
<1>1. Find(name) \in Inodes /\ inode[Find(name)].used
  BY FindFinds DEF Remove
<1>2. Find(name) # Root
  BY <1>1, RootIsSpared DEF Remove
<1> QED BY <1>1, <1>2 DEF Remove

-------------------------------------------------------------------------------
(* The invariant. *)

LEMMA InitInv == Init => Inv
<1> SUFFICES ASSUME Init PROVE Inv
  OBVIOUS
<1> USE SizesAssumption
<1>1. TypeOK
  <2>1. inode \in [Inodes -> Inode]
    BY Constants DEF Init
  <2> QED BY <2>1, Constants DEF Init, TypeOK
<1>2. RootKept
  BY Constants DEF Init, RootKept
<1>3. \A i \in Inodes : inode[i].blocks = NoBlocks /\ inode[i].size = 0
                        /\ (inode[i].isDir => inode[i].used)
  BY DEF Init, RootInode, EmptyInode
<1>4. SizesMatch
  BY <1>3, Constants DEF SizesMatch, NoBlocks, Slot
<1>5. NotShared
  BY <1>3 DEF NotShared, NoBlocks
<1>6. BitmapExact
  BY <1>3 DEF BitmapExact, BlocksOf, NoBlocks, Init
<1> QED BY <1>1, <1>2, <1>4, <1>5, <1>6 DEF Inv, BlocksOK

(* An inode that holds no blocks can be put in the place of one that holds *)
(* none, or of one whose blocks are freed: create, mkdir and remove.       *)
LEMMA EmptyInodeKeepsInv ==
  ASSUME Inv, NEW i \in Inodes, i # Root, NEW n \in Inode,
         n.size = 0, n.blocks = NoBlocks, n.isDir => n.used,
         inode' = [inode EXCEPT ![i] = n],
         bitmap' = bitmap \ BlocksOf(i),
         UNCHANGED <<sector, cwd>>
  PROVE  Inv'
<1> USE SizesAssumption
<1>1. TypeOK'
  BY DEF Inv, TypeOK
<1>2. \A j \in Inodes : inode'[j] = IF j = i THEN n ELSE inode[j]
  BY DEF Inv, TypeOK
<1>3. RootKept'
  BY <1>2, Constants DEF Inv, RootKept
<1>4. SizesMatch'
  BY <1>2, Constants DEF Inv, BlocksOK, SizesMatch, NoBlocks, Slot
<1>5. \A j \in Inodes, s \in Slot :
        inode'[j].blocks[s] = IF j = i THEN NoBlock ELSE inode[j].blocks[s]
  BY <1>2 DEF NoBlocks
<1>6. NotShared'
  BY <1>5 DEF Inv, BlocksOK, NotShared
<1>7. BitmapExact'
  <2> SUFFICES ASSUME NEW b
               PROVE  b \in bitmap' <=>
                        b # NoBlock /\ \E j \in Inodes, s \in Slot : inode'[j].blocks[s] = b
    BY DEF BitmapExact, BlocksOf
  <2>1. ASSUME b \in bitmap'
        PROVE  b # NoBlock /\ \E j \in Inodes, s \in Slot : inode'[j].blocks[s] = b
    <3>1. PICK j \in Inodes, s \in Slot : b # NoBlock /\ inode[j].blocks[s] = b
      BY <2>1, MarkedIsNamed
    <3>2. j # i
      BY <3>1, <2>1 DEF BlocksOf
    <3> QED BY <3>1, <3>2, <1>5
  <2>2. ASSUME NEW j \in Inodes, NEW s \in Slot, inode'[j].blocks[s] = b, b # NoBlock
        PROVE  b \in bitmap'
    <3>1. j # i /\ inode[j].blocks[s] = b
      BY <2>2, <1>5
    <3>2. b \in bitmap
      BY <2>2, <3>1, MarkedIsNamed
    <3>3. b \notin BlocksOf(i)
      BY <2>2, <3>1 DEF BlocksOf, Inv, BlocksOK, NotShared
    <3> QED BY <3>2, <3>3
  <2> QED BY <2>1, <2>2
<1> QED BY <1>1, <1>3, <1>4, <1>6, <1>7 DEF Inv, BlocksOK

(* A file's new blocks are its own alone, and the bitmap follows. *)
LEMMA WriteKeepsInv ==
  ASSUME Inv, NEW name, NEW data \in Contents, Write(name, data)
  PROVE  Inv'
<1> USE SizesAssumption
<1>1. PICK i \in Inodes, need \in 0 .. DirectBlocks :
      \E lba \in [0 .. need - 1 -> Block \ (bitmap \ BlocksOf(i))] :
        Writes(name, data, i, need, lba)
  BY WriteEffect
<1>2. PICK lba \in [0 .. need - 1 -> Block \ (bitmap \ BlocksOf(i))] :
         /\ i # Root /\ inode[i].used /\ ~inode[i].isDir
         /\ \A j, k \in 0 .. need - 1 : lba[j] = lba[k] => j = k
         /\ bitmap' = (bitmap \ BlocksOf(i)) \cup Range(lba)
         /\ sector' \in [Block -> Payload]
         /\ inode' = Rewritten(i, need, lba)
         /\ cwd' = cwd
  BY <1>1 DEF Writes
<1> DEFINE new == [s \in Slot |-> IF s < need THEN lba[s] ELSE NoBlock]
<1>3. inode \in [Inodes -> Inode]
  BY DEF Inv, TypeOK
<1>4. /\ inode' = [inode EXCEPT ![i] = [inode[i] EXCEPT !.size = need, !.blocks = new]]
      /\ \A s \in Slot : s < need => s \in 0 .. need - 1
      /\ 0 .. need - 1 \in SUBSET Slot
  <2>1. inode' = [inode EXCEPT ![i] = [inode[i] EXCEPT !.size = need, !.blocks = new]]
    BY <1>2 DEF Rewritten
  <2> QED BY <2>1 DEF Slot
<1>5. new \in [Slot -> Block \cup {NoBlock}]
  BY <1>4
<1>6. TypeOK'
  <2>1. inode' \in [Inodes -> Inode]
    <3>1. need \in Nat /\ inode[i] \in Inode
      BY <1>3
    <3> HIDE DEF new
    <3> QED BY <3>1, <1>3, <1>4, <1>5 DEF Inode
  <2>2. Range(lba) \in SUBSET Block
    BY DEF Range
  <2> QED BY <2>1, <2>2, <1>2 DEF Inv, TypeOK
<1>7. \A j \in Inodes : j # i => inode'[j] = inode[j]
  BY <1>3, <1>4
<1>8. /\ inode'[i].size = need /\ inode'[i].blocks = new
      /\ inode'[i].used /\ ~inode'[i].isDir
  <2> HIDE DEF new
  <2>1. inode'[i] = [inode[i] EXCEPT !.size = need, !.blocks = new]
    BY <1>3, <1>4
  <2>2. inode[i] \in Inode
    BY <1>3
  <2> QED BY <2>1, <2>2, <1>2 DEF Inode
<1>9. RootKept'
  BY <1>2, <1>7, Constants DEF Inv, RootKept
<1>10. \A s \in Slot : new[s] # NoBlock <=> s < need
  BY <1>4, Constants
<1>11. SizesMatch'
  BY <1>7, <1>8, <1>10 DEF Inv, BlocksOK, SizesMatch
<1>12. ASSUME NEW s \in Slot, new[s] # NoBlock
       PROVE  s \in 0 .. need - 1 /\ new[s] = lba[s]
  BY <1>4, <1>10, <1>12
<1> HIDE DEF new
<1>13. ASSUME NEW j \in Inodes, j # i, NEW s \in Slot, inode[j].blocks[s] # NoBlock
       PROVE  inode[j].blocks[s] \in bitmap \ BlocksOf(i)
  BY <1>13, MarkedIsNamed DEF BlocksOf, Inv, BlocksOK, NotShared
<1>14. NotShared'
  <2> SUFFICES ASSUME NEW j \in Inodes, NEW k \in Inodes, NEW s \in Slot, NEW t \in Slot,
                      inode'[j].blocks[s] = inode'[k].blocks[t],
                      inode'[j].blocks[s] # NoBlock
               PROVE  j = k /\ s = t
    BY DEF NotShared
  <2>1. CASE j = i /\ k = i
    BY <2>1, <1>2, <1>8, <1>12
  <2>2. CASE j = i /\ k # i
    BY <2>2, <1>7, <1>8, <1>12, <1>13
  <2>3. CASE j # i /\ k = i
    BY <2>3, <1>7, <1>8, <1>12, <1>13
  <2>4. CASE j # i /\ k # i
    BY <2>4, <1>7 DEF Inv, BlocksOK, NotShared
  <2> QED BY <2>1, <2>2, <2>3, <2>4
<1>15. BitmapExact'
  <2> SUFFICES ASSUME NEW b
               PROVE  b \in bitmap' <=>
                        b # NoBlock /\ \E j \in Inodes, s \in Slot : inode'[j].blocks[s] = b
    BY DEF BitmapExact, BlocksOf
  <2>1. ASSUME b \in bitmap \ BlocksOf(i)
        PROVE  b # NoBlock /\ \E j \in Inodes, s \in Slot : inode'[j].blocks[s] = b
    <3>1. PICK j \in Inodes, s \in Slot : b # NoBlock /\ inode[j].blocks[s] = b
      BY <2>1, MarkedIsNamed
    <3>2. j # i
      BY <3>1, <2>1 DEF BlocksOf
    <3> QED BY <3>1, <3>2, <1>7
  <2>2. ASSUME b \in Range(lba)
        PROVE  b # NoBlock /\ \E j \in Inodes, s \in Slot : inode'[j].blocks[s] = b
    <3>1. PICK s \in 0 .. need - 1 : b = lba[s]
      BY <2>2 DEF Range
    <3>2. s \in Slot /\ new[s] = b
      BY <3>1, <1>4 DEF new
    <3>3. b # NoBlock
      BY <3>1, Constants
    <3> QED BY <3>2, <3>3, <1>8
  <2>3. ASSUME NEW j \in Inodes, NEW s \in Slot, inode'[j].blocks[s] = b, b # NoBlock
        PROVE  b \in bitmap'
    <3>1. CASE j = i
      BY <3>1, <2>3, <1>2, <1>8, <1>12 DEF Range
    <3>2. CASE j # i
      BY <3>2, <2>3, <1>2, <1>7, <1>13
    <3> QED BY <3>1, <3>2
  <2> QED BY <2>1, <2>2, <2>3, <1>2
<1> QED BY <1>6, <1>9, <1>11, <1>14, <1>15 DEF Inv, BlocksOK

LEMMA NextInv == Inv /\ [Next]_vars => Inv'
<1> SUFFICES ASSUME Inv, [Next]_vars PROVE Inv'
  OBVIOUS
<1> USE SizesAssumption
<1>1. ASSUME NEW name \in Names, NEW isDir \in BOOLEAN, AddEntry(name, isDir) PROVE Inv'
  <2> DEFINE n == [used |-> TRUE, isDir |-> isDir, parent |-> cwd, name |-> name,
                   size |-> 0, blocks |-> NoBlocks]
  <2>1. PICK i \in Inodes :
          /\ ~inode[i].used /\ i # Root
          /\ inode' = [inode EXCEPT ![i] = n]
          /\ UNCHANGED <<bitmap, sector, cwd>>
    BY <1>1, AddEffect
  <2>2. n \in Inode /\ n.size = 0 /\ n.blocks = NoBlocks /\ (n.isDir => n.used)
    <3>1. NoBlocks \in [Slot -> Block \cup {NoBlock}]
      BY DEF NoBlocks
    <3>2. cwd \in Inodes /\ 0 \in 0 .. DirectBlocks
      BY DEF Inv, TypeOK
    <3>3. n \in Inode
      BY <3>1, <3>2 DEF Inode
    <3> QED BY <3>3
  <2>3. BlocksOf(i) = {}
    <3>1. inode[i] \in Inode /\ ~(inode[i].size > 0)
      BY <2>1 DEF Inv, TypeOK, BlocksOK, SizesMatch
    <3>2. inode[i].size \in 0 .. DirectBlocks
      BY <3>1 DEF Inode
    <3>3. inode[i].size = 0
      BY <3>1, <3>2
    <3>4. \A s \in Slot : ~(s < 0)
      BY DEF Slot
    <3> QED BY <3>3, <3>4 DEF Inv, BlocksOK, SizesMatch, BlocksOf
  <2>4. bitmap' = bitmap \ BlocksOf(i)
    BY <2>1, <2>3
  <2> HIDE DEF n
  <2> QED BY <2>1, <2>2, <2>4, EmptyInodeKeepsInv
<1>2. ASSUME NEW name \in Names, Remove(name) PROVE Inv'
  <2>1. PICK i \in Inodes :
          /\ i # Root
          /\ bitmap' = bitmap \ BlocksOf(i)
          /\ inode' = [inode EXCEPT ![i] = EmptyInode]
          /\ UNCHANGED <<sector, cwd>>
    BY <1>2, RemoveEffect
  <2>2. /\ EmptyInode \in Inode /\ EmptyInode.size = 0 /\ EmptyInode.blocks = NoBlocks
        /\ EmptyInode.isDir => EmptyInode.used
    BY Constants DEF EmptyInode
  <2> QED BY <2>1, <2>2, EmptyInodeKeepsInv
<1>3. ASSUME NEW name \in Names, NEW data \in Contents, Write(name, data) PROVE Inv'
  BY <1>3, WriteKeepsInv
<1>4. ASSUME UNCHANGED <<inode, bitmap, sector>>, cwd' \in Inodes PROVE Inv'
  BY <1>4 DEF Inv, TypeOK, RootKept, BlocksOK, SizesMatch, NotShared, BitmapExact, BlocksOf
<1>5. CASE ChdirRoot \/ Boot
  BY <1>4, <1>5, Constants DEF ChdirRoot, Boot
<1>6. CASE ChdirUp
  BY <1>4, <1>6 DEF ChdirUp, Inv, TypeOK, Inode
<1>7. ASSUME NEW name \in Names, ChdirInto(name) PROVE Inv'
  BY <1>4, <1>7, FindFinds DEF ChdirInto
<1>8. CASE UNCHANGED vars
  BY <1>4, <1>8 DEF vars, Inv, TypeOK
<1> QED
  BY <1>1, <1>2, <1>3, <1>5, <1>6, <1>7, <1>8 DEF Next, Create, Mkdir

THEOREM InvIsKept == Spec => []Inv
BY InitInv, NextInv, PTL DEF Spec

(* Inodes, bitmap, sectors and cwd always have the form the code gives     *)
(* them; in particular no inode names a sector outside the data area.      *)
THEOREM TypeIsKept == Spec => []TypeOK
<1>1. Inv => TypeOK
  BY DEF Inv
<1> QED BY <1>1, InvIsKept, PTL

(* Whatever is created, written and removed in whatever order: no block    *)
(* belongs to two files, and the bitmap marks the blocks of files and no   *)
(* others.                                                                 *)
THEOREM BlocksAreKept == Spec => []BlocksOK
<1>1. Inv => BlocksOK
  BY DEF Inv
<1> QED BY <1>1, InvIsKept, PTL

(* write never fails for want of space, as the sizes of the inode table    *)
(* and of the data area are chosen: its "disk full" is unreachable.        *)
THEOREM DiskIsNeverFull == Spec => []NeverFull
<1>1. Inv => NeverFull
  BY RoomForOne DEF NeverFull, Used
<1> QED BY <1>1, InvIsKept, PTL

-------------------------------------------------------------------------------
(* FileSystem implements FileTree. *)

TreeFacts == INSTANCE FileTreeProofs WITH node <- Entries

(* What FileTreeProofs shows of every behaviour of the tree. *)
TreeKept == TreeFacts!TreeTypeOK /\ TreeFacts!TreeInv

(* The entry that an inode stands for. *)
Entry(i) ==
  [dir |-> inode[i].isDir, parent |-> inode[i].parent,
   name |-> inode[i].name, content |-> Content(i)]

-------------------------------------------------------------------------------
(* The entries seen from the inode table. *)

LEMMA Lookups ==
  /\ Tree!Live = Used
  /\ \A i \in Used : Entries[i] = Entry(i)
  /\ \A i \in Used : /\ Entries[i].dir = inode[i].isDir
                     /\ Entries[i].parent = inode[i].parent
                     /\ Entries[i].name = inode[i].name
  /\ \A d : Tree!Children(d) = Children(d)
  /\ \A name : Tree!Named(name) = Matches(name)
<1>1. Tree!Live = Used /\ \A i \in Used : Entries[i] = Entry(i)
  BY DEF Tree!Live, Entries, Entry
<1>2. \A i : /\ Entry(i).dir = inode[i].isDir /\ Entry(i).parent = inode[i].parent
             /\ Entry(i).name = inode[i].name
  BY DEF Entry
<1>3. \A i \in Used : /\ Entries[i].dir = inode[i].isDir
                     /\ Entries[i].parent = inode[i].parent
                     /\ Entries[i].name = inode[i].name
  BY <1>1, <1>2
<1>4. \A d : Tree!Children(d) = Children(d)
  BY <1>1, <1>3 DEF Tree!Children, Children
<1>5. \A name : Tree!Named(name) = Matches(name)
  BY <1>1, <1>3, <1>4 DEF Tree!Named, Matches, Children
<1> QED BY <1>1, <1>3, <1>4, <1>5

(* An entry changes only with its inode or with a sector the inode names.  *)
LEMMA SameEntry ==
  ASSUME NEW i \in Inodes, inode'[i] = inode[i],
         \A s \in 0 .. inode[i].size - 1 :
           sector'[inode[i].blocks[s]] = sector[inode[i].blocks[s]]
  PROVE  Entry(i)' = Entry(i)
BY DEF Entry, Content

(* The blocks up to the size of an inode are data blocks. *)
LEMMA NamedByContent ==
  ASSUME Inv, NEW i \in Inodes, NEW s \in 0 .. inode[i].size - 1
  PROVE  s \in Slot /\ inode[i].blocks[s] \in Block
<1> USE SizesAssumption
<1>1. inode[i] \in Inode
  BY DEF Inv, TypeOK
<1>2. inode[i].size \in 0 .. DirectBlocks /\ inode[i].blocks \in [Slot -> Block \cup {NoBlock}]
  BY <1>1 DEF Inode
<1>3. s \in Slot /\ s < inode[i].size
  BY <1>2 DEF Slot
<1> QED BY <1>2, <1>3 DEF Inv, BlocksOK, SizesMatch

LEMMA UnchangedEntries ==
  ASSUME UNCHANGED <<inode, sector>>
  PROVE  Entries' = Entries
BY DEF Entries, Used, Content

-------------------------------------------------------------------------------
(* Each operation is a step of the tree. *)

LEMMA AddIsAdd ==
  ASSUME Inv, NEW name \in Names, NEW isDir \in BOOLEAN, AddEntry(name, isDir)
  PROVE  Tree!Add(name, isDir)
<1>1. PICK i \in Inodes :
        /\ ~inode[i].used
        /\ inode' = [inode EXCEPT ![i] =
                       [used |-> TRUE, isDir |-> isDir, parent |-> cwd, name |-> name,
                        size |-> 0, blocks |-> NoBlocks]]
        /\ UNCHANGED <<bitmap, sector, cwd>>
  BY AddEffect
<1>2. inode \in [Inodes -> Inode]
  BY DEF Inv, TypeOK
<1>3. /\ inode'[i].used /\ inode'[i].isDir = isDir /\ inode'[i].parent = cwd
      /\ inode'[i].name = name /\ inode'[i].size = 0
      /\ \A j \in Inodes : j # i => inode'[j] = inode[j]
  BY <1>1, <1>2
<1>4. Used' = Used \cup {i} /\ i \notin Used
  BY <1>1, <1>3 DEF Used
<1>5. Entry(i)' = Tree!NewNode(name, isDir)
  <2>1. Content(i)' = Tree!Nothing
    BY <1>3 DEF Content, Tree!Nothing
  <2> QED BY <2>1, <1>3 DEF Entry, Tree!NewNode
<1>6. \A j \in Used : Entry(j)' = Entry(j)
  BY <1>1, <1>3, <1>4, SameEntry DEF Used
<1>7. Entries' = [j \in Used \cup {i} |->
                    IF j = i THEN Tree!NewNode(name, isDir) ELSE Entries[j]]
  <2>1. Entries' = [j \in Used' |-> Entry(j)']
    BY DEF Entries, Entry
  <2> QED BY <2>1, <1>4, <1>5, <1>6, Lookups
<1>8. Matches(name) = {}
  BY DEF AddEntry
<1> QED BY <1>1, <1>4, <1>7, <1>8, Lookups DEF Tree!Add, Tree!Ids, Inodes

LEMMA WriteIsWrite ==
  ASSUME Inv, NEW name \in Names, NEW data \in Contents, Write(name, data)
  PROVE  Tree!Write(name, data)
<1> USE SizesAssumption
<1>1. PICK i \in Inodes, need \in 0 .. DirectBlocks :
      \E lba \in [0 .. need - 1 -> Block \ (bitmap \ BlocksOf(i))] :
        Writes(name, data, i, need, lba)
  BY WriteEffect
<1>2. PICK lba \in [0 .. need - 1 -> Block \ (bitmap \ BlocksOf(i))] :
         /\ i = Find(name) /\ inode[i].used /\ ~inode[i].isDir
         /\ data \in [0 .. need - 1 -> Payload]
         /\ \A k \in 0 .. need - 1 : sector'[lba[k]] = data[k]
         /\ \A b \in Block \ Range(lba) : sector'[b] = sector[b]
         /\ inode' = Rewritten(i, need, lba)
         /\ cwd' = cwd
  BY <1>1 DEF Writes
<1> DEFINE new == [s \in Slot |-> IF s < need THEN lba[s] ELSE NoBlock]
<1>3. inode \in [Inodes -> Inode] /\ inode[i] \in Inode
  BY DEF Inv, TypeOK
<1>4. /\ \A j \in Inodes : j # i => inode'[j] = inode[j]
      /\ inode'[i] = [inode[i] EXCEPT !.size = need, !.blocks = new]
  BY <1>2, <1>3 DEF Rewritten
<1>5. /\ inode'[i].used /\ inode'[i].isDir = inode[i].isDir /\ inode'[i].name = inode[i].name
      /\ inode'[i].parent = inode[i].parent /\ inode'[i].size = need
      /\ inode'[i].blocks = new
  <2> HIDE DEF new
  <2> QED BY <1>2, <1>3, <1>4 DEF Inode
<1>6. Used' = Used /\ i \in Used
  <2>1. \A j \in Inodes : inode'[j].used <=> inode[j].used
    <3> HIDE DEF new
    <3> QED BY <1>2, <1>4, <1>5
  <2> QED BY <2>1, <1>2 DEF Used
<1>7. Content(i)' = data
  <2>1. ASSUME NEW s \in 0 .. need - 1 PROVE sector'[inode'[i].blocks[s]] = data[s]
    <3>1. s \in Slot /\ s < need
      BY DEF Slot
    <3> QED BY <3>1, <1>2, <1>5
  <2>2. Content(i)' = [s \in 0 .. need - 1 |-> sector'[inode'[i].blocks[s]]]
    BY <1>5 DEF Content
  <2> QED BY <2>1, <2>2, <1>2
<1>8. Entry(i)' = [Entry(i) EXCEPT !.content = data]
  BY <1>5, <1>7 DEF Entry
<1>9. ASSUME NEW j \in Used, j # i PROVE Entry(j)' = Entry(j)
  <2>1. ASSUME NEW s \in 0 .. inode[j].size - 1
        PROVE  sector'[inode[j].blocks[s]] = sector[inode[j].blocks[s]]
    <3>1. j \in Inodes /\ s \in Slot /\ inode[j].blocks[s] \in Block
      BY NamedByContent DEF Used
    <3>2. inode[j].blocks[s] \in bitmap
      BY <3>1, Constants, MarkedIsNamed
    <3>3. inode[j].blocks[s] \notin BlocksOf(i)
      <4>1. ASSUME NEW u \in Slot PROVE inode[i].blocks[u] # inode[j].blocks[s]
        BY <3>1, <1>9, Constants DEF Inv, BlocksOK, NotShared
      <4> QED BY <3>1, <4>1 DEF BlocksOf
    <3>4. inode[j].blocks[s] \notin Range(lba)
      BY <3>2, <3>3 DEF Range
    <3> QED BY <3>1, <3>4, <1>2
  <2>2. j \in Inodes /\ inode'[j] = inode[j]
    BY <1>4, <1>9 DEF Used
  <2> QED BY <2>1, <2>2, SameEntry
<1>10. Entries' = [Entries EXCEPT ![i].content = data]
  <2>1. Entries' = [j \in Used |-> Entry(j)'] /\ Entries = [j \in Used |-> Entry(j)]
    BY <1>6 DEF Entries, Entry
  <2>2. [Entries EXCEPT ![i].content = data] =
          [j \in Used |-> IF j = i THEN [Entry(i) EXCEPT !.content = data] ELSE Entry(j)]
    BY <2>1, <1>6
  <2> HIDE DEF Entry
  <2> QED BY <2>1, <2>2, <1>8, <1>9
<1>11. i \in Tree!Named(name) /\ ~Entries[i].dir
  <2>1. i \in Matches(name)
    BY <1>2, FindFinds DEF Matches, Children, Used, Write
  <2> QED BY <2>1, <1>2, <1>6, Lookups
<1> QED BY <1>2, <1>10, <1>11 DEF Tree!Write

LEMMA RemoveIsRemove ==
  ASSUME Inv, TreeOK, NEW name \in Names, Remove(name)
  PROVE  Tree!Remove(name)
<1>1. PICK i \in Inodes :
        /\ i = Find(name) /\ inode[i].used
        /\ inode[i].isDir => Children(i) = {}
        /\ inode' = [inode EXCEPT ![i] = EmptyInode]
        /\ UNCHANGED <<sector, cwd>>
  BY RemoveEffect
<1>2. inode \in [Inodes -> Inode]
  BY DEF Inv, TypeOK
<1>3. Children(i) = {}
  <2>1. ASSUME NEW j \in Children(i) PROVE inode[i].isDir
    <3>1. j \in Used /\ Entries[j].parent = i
      BY Lookups DEF Children
    <3>2. i \in Used /\ Entries[i].dir
      BY <3>1, Lookups DEF TreeOK, Tree!TreeInv, Tree!ParentsLive
    <3> QED BY <3>2, Lookups
  <2> QED BY <2>1, <1>1
<1>4. /\ ~inode'[i].used /\ \A j \in Inodes : j # i => inode'[j] = inode[j]
      /\ Used' = Used \ {i}
  BY <1>1, <1>2 DEF Used, EmptyInode
<1>5. \A j \in Used \ {i} : Entry(j)' = Entry(j)
  BY <1>1, <1>4, SameEntry DEF Used
<1>6. Entries' = [j \in Used \ {i} |-> Entries[j]]
  <2>1. Entries' = [j \in Used' |-> Entry(j)']
    BY DEF Entries, Entry
  <2> QED BY <2>1, <1>4, <1>5, Lookups
<1>7. i \in Matches(name)
  BY <1>1, FindFinds DEF Matches, Children, Used, Remove
<1> QED BY <1>1, <1>3, <1>6, <1>7, Lookups DEF Tree!Remove

LEMMA IntoIsInto ==
  ASSUME NEW name \in Names, ChdirInto(name)
  PROVE  Tree!GoInto(name)
<1>1. Find(name) \in Matches(name) /\ Find(name) \in Used
  BY FindFinds DEF ChdirInto, Matches, Children, Used
<1>2. Entries[Find(name)].dir
  BY <1>1, Lookups DEF ChdirInto
<1>3. Entries' = Entries
  BY UnchangedEntries DEF ChdirInto
<1> QED BY <1>1, <1>2, <1>3, Lookups DEF Tree!GoInto, ChdirInto

LEMMA UpIsUp ==
  ASSUME TreeOK, ChdirUp
  PROVE  Tree!GoUp
<1>1. cwd \in Used
  BY Lookups DEF TreeOK, Tree!TreeInv, Tree!CwdLive
<1>2. Entries[cwd].parent = inode[cwd].parent
  BY <1>1, Lookups
<1> QED BY <1>2, UnchangedEntries DEF ChdirUp, Tree!GoUp

LEMMA NextIsTreeNext == Inv /\ TreeOK /\ [Next]_vars => [Tree!Next]_(Tree!vars)
<1> SUFFICES ASSUME Inv, TreeOK, [Next]_vars PROVE [Tree!Next]_(Tree!vars)
  OBVIOUS
<1>1. ASSUME NEW name \in Names, NEW isDir \in BOOLEAN, AddEntry(name, isDir)
      PROVE  Tree!Next
  BY <1>1, AddIsAdd DEF Tree!Next
<1>2. ASSUME NEW name \in Names, NEW data \in Contents, Write(name, data) PROVE Tree!Next
  BY <1>2, WriteIsWrite DEF Tree!Next
<1>3. ASSUME NEW name \in Names, Remove(name) PROVE Tree!Next
  BY <1>3, RemoveIsRemove DEF Tree!Next
<1>4. ASSUME NEW name \in Names, ChdirInto(name) PROVE Tree!Next
  BY <1>4, IntoIsInto DEF Tree!Next
<1>5. CASE ChdirRoot \/ Boot
  BY <1>5, UnchangedEntries DEF ChdirRoot, Boot, Tree!Next, Tree!GoRoot, Tree!Root, Root
<1>6. CASE ChdirUp
  BY <1>6, UpIsUp DEF Tree!Next
<1>7. CASE UNCHANGED vars
  BY <1>7, UnchangedEntries DEF vars, Tree!vars
<1> QED
  BY <1>1, <1>2, <1>3, <1>4, <1>5, <1>6, <1>7 DEF Next, Create, Mkdir

LEMMA InitIsTreeInit == Init => Tree!Init
<1> SUFFICES ASSUME Init PROVE Tree!Init
  OBVIOUS
<1>1. inode[Root] = RootInode /\ \A i \in Inodes : i # Root => inode[i] = EmptyInode
  BY Constants DEF Init
<1>2. Used = {Root}
  <2>1. RootInode.used /\ ~EmptyInode.used
    BY DEF RootInode, EmptyInode
  <2> QED BY <2>1, <1>1, Constants DEF Used
<1>3. Content(Root) = Tree!Nothing
  BY <1>1 DEF Content, RootInode, Tree!Nothing
<1>4. Entry(Root) = Tree!RootNode
  <2>1. /\ RootInode.isDir = TRUE /\ RootInode.parent = Tree!Root /\ RootInode.name = "/"
    BY DEF RootInode, Root, Tree!Root
  <2> QED BY <2>1, <1>1, <1>3 DEF Entry, Tree!RootNode
<1>5. Entries = [i \in {Root} |-> Tree!RootNode]
  BY <1>2, <1>4, Lookups DEF Entries
<1> QED BY <1>5 DEF Init, Tree!Init, Tree!Root, Root

-------------------------------------------------------------------------------
(* The theorems of FileTreeProofs are about this tree. *)

LEMMA SameInit == Tree!Init <=> TreeFacts!Init
BY DEF Tree!Init, TreeFacts!Init, Tree!Root, TreeFacts!Root, Tree!RootNode,
       TreeFacts!RootNode, Tree!Nothing, TreeFacts!Nothing

LEMMA SameNext == [Tree!Next]_(Tree!vars) <=> [TreeFacts!Next]_(TreeFacts!vars)
BY DEF Tree!Next, TreeFacts!Next, Tree!vars, TreeFacts!vars, Tree!Add, TreeFacts!Add,
       Tree!Write, TreeFacts!Write, Tree!Remove, TreeFacts!Remove, Tree!GoRoot,
       TreeFacts!GoRoot, Tree!GoUp, TreeFacts!GoUp, Tree!GoInto, TreeFacts!GoInto,
       Tree!Named, TreeFacts!Named, Tree!Children, TreeFacts!Children, Tree!Live,
       TreeFacts!Live, Tree!NewNode, TreeFacts!NewNode, Tree!Root, TreeFacts!Root,
       Tree!Nothing, TreeFacts!Nothing, Tree!Ids, TreeFacts!Ids

LEMMA SameInv == TreeOK <=> TreeFacts!TreeInv
BY DEF TreeOK, Tree!TreeInv, TreeFacts!TreeInv, Tree!RootStays, TreeFacts!RootStays,
       Tree!ParentsLive, TreeFacts!ParentsLive, Tree!Rooted, TreeFacts!Rooted,
       Tree!NamesUnique, TreeFacts!NamesUnique, Tree!CwdLive, TreeFacts!CwdLive,
       Tree!Live, TreeFacts!Live, Tree!Root, TreeFacts!Root, Tree!RootNode,
       TreeFacts!RootNode, Tree!Nothing, TreeFacts!Nothing

LEMMA TreeIsKeptHere == Spec => [](Inv /\ TreeKept)
<1>1. Init => Inv /\ TreeKept
  BY InitInv, InitIsTreeInit, SameInit, TreeFacts!TreeInit DEF TreeKept
<1>2. Inv /\ TreeKept /\ [Next]_vars => (Inv /\ TreeKept)'
  <2>1. Inv /\ TreeKept /\ [Next]_vars => [TreeFacts!Next]_(TreeFacts!vars)
    BY NextIsTreeNext, SameNext, SameInv DEF TreeKept
  <2>2. TreeKept /\ [TreeFacts!Next]_(TreeFacts!vars) => TreeKept'
    BY TreeFacts!NextKeepsTree DEF TreeKept
  <2> QED BY <2>1, <2>2, NextInv
<1> QED BY <1>1, <1>2, PTL DEF Spec

(* Whatever the operations do in whatever order, the used inodes form a    *)
(* tree below inode 0, no folder holds a name twice, and the current       *)
(* directory is one of its folders.                                        *)
THEOREM InodesFormATree == Spec => []TreeOK
<1>1. TreeKept => TreeOK
  BY SameInv DEF TreeKept
<1> QED BY <1>1, TreeIsKeptHere, PTL

(* Every operation on inodes, bitmap and sectors does to the entries what  *)
(* FileTree says: a file reads as what was last written to it.             *)
THEOREM FileSystemImplementsFileTree == Spec => ImplementsFileTree
<1>1. Inv /\ TreeKept /\ [Next]_vars => [Tree!Next]_(Tree!vars)
  BY NextIsTreeNext, SameInv DEF TreeKept
<1>2. Init => Tree!Init
  BY InitIsTreeInit
<1> QED BY <1>1, <1>2, TreeIsKeptHere, PTL DEF Spec, ImplementsFileTree, Tree!Spec
===============================================================================
