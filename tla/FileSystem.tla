------------------------------ MODULE FileSystem ------------------------------
(***************************************************************************)
(* The file system of src/kernel/src/fs/mod.rs, one action per public      *)
(* operation, over what it keeps: the inode table, the block bitmap and    *)
(* the data sectors of the disk, and the current directory in memory.      *)
(*                                                                         *)
(* An operation that returns Err before it wrote anything leaves the state *)
(* as it was and shows as a guard here.  File sizes are counted in sectors:*)
(* what a partly filled last sector holds is one Payload value.            *)
(* FsDisk splits the operations into single sector writes.                 *)
(***************************************************************************)
EXTENDS Integers, FiniteSets, Functions

CONSTANTS
  MaxFiles,      \* MAX_FILES: inodes in the table, 64
  DirectBlocks,  \* DIRECT_BLOCKS: block numbers in an inode, 12
  TotalBlocks,   \* TOTAL_DATA_BLOCKS: bits in the bitmap, 2000
  DataStart,     \* DATA_START: the first data sector, 35
  Names,         \* the names callers use: non-empty, at most NAME_MAX bytes
  Payload        \* what one data sector can hold

VARIABLES
  inode,   \* the inode table
  bitmap,  \* the data blocks whose bit is set
  sector,  \* what the data sectors hold
  cwd      \* CWD

vars == <<inode, bitmap, sector, cwd>>

Inodes == 0 .. MaxFiles - 1
Root == 0
Slot == 0 .. DirectBlocks - 1
Block == DataStart .. DataStart + TotalBlocks - 1
NoBlock == 0
NoBlocks == [s \in Slot |-> NoBlock]

(* The inode table has room for the root, a block number of 0 is no data   *)
(* block, and there are data blocks for every inode that can be a file.    *)
ASSUME SizesAssumption ==
  /\ MaxFiles \in Nat \ {0}
  /\ DirectBlocks \in Nat
  /\ TotalBlocks \in Nat
  /\ DataStart \in Nat \ {0}
  /\ (MaxFiles - 1) * DirectBlocks <= TotalBlocks
ASSUME NamesAssumption == "/" \in Names

Inode ==
  [used: BOOLEAN, isDir: BOOLEAN, parent: Inodes, name: Names \cup {""},
   size: 0 .. DirectBlocks, blocks: [Slot -> Block \cup {NoBlock}]]

EmptyInode ==
  [used |-> FALSE, isDir |-> FALSE, parent |-> Root, name |-> "",
   size |-> 0, blocks |-> NoBlocks]

RootInode ==
  [used |-> TRUE, isDir |-> TRUE, parent |-> Root, name |-> "/",
   size |-> 0, blocks |-> NoBlocks]

(* What one call of write can be given: the data cut into sectors. *)
Contents == UNION {[0 .. n - 1 -> Payload] : n \in 0 .. DirectBlocks}

-------------------------------------------------------------------------------
(* Looking things up. *)

Used == {i \in Inodes : inode[i].used}

Least(S) == CHOOSE i \in S : \A j \in S : i <= j

(* Every used inode whose parent is dir, the root in itself included. *)
Children(dir) == {i \in Used : inode[i].parent = dir}

(* Mistake: a scan for a name that leaves out the parent. *)
MatchesAnywhere(name) == {i \in Used : inode[i].name = name}

(* find_in_dir returns the first match of a scan from inode 0 up. *)
Matches(name) == {i \in Children(cwd) : inode[i].name = name}
Find(name) == Least(Matches(name))

(* alloc_inode: the first inode not in use. *)
FreeInode == Least(Inodes \ Used)

(* The blocks an inode names. *)
BlocksOf(i) == {inode[i].blocks[s] : s \in Slot} \ {NoBlock}

(* Mistakes: an allocation that does not mark its block, and one that      *)
(* returns the number of the bit instead of the sector.                    *)
FirstFitUnmarked(free, n) == [k \in 0 .. n - 1 |-> Least(free)]
FirstFitOfBits(free, n) == [k \in 0 .. n - 1 |-> Least(free) - DataStart]

(* n calls of alloc_block when the blocks of free are free: each takes the *)
(* lowest free block, so the k-th call takes the one with k free below it. *)
FirstFit(free, n) ==
  [k \in 0 .. n - 1 |-> CHOOSE b \in free : Cardinality({c \in free : c < b}) = k]

(* read: the sectors named by the first entries of the block array. *)
Content(i) == [s \in 0 .. inode[i].size - 1 |-> sector[inode[i].blocks[s]]]

-------------------------------------------------------------------------------
(* The operations. *)

(* A freshly formatted disk, booted: whatever the image held stays in the  *)
(* data sectors.                                                           *)
Init ==
  /\ inode = [i \in Inodes |-> IF i = Root THEN RootInode ELSE EmptyInode]
  /\ bitmap = {}
  /\ sector \in [Block -> Payload]
  /\ cwd = Root

(* init on a disk that carries the magic number. *)
Boot == cwd' = Root /\ UNCHANGED <<inode, bitmap, sector>>

AddEntry(name, isDir) ==
  /\ Matches(name) = {}
  /\ Used # Inodes
  /\ inode' = [inode EXCEPT ![FreeInode] =
                 [used |-> TRUE, isDir |-> isDir, parent |-> cwd, name |-> name,
                  size |-> 0, blocks |-> NoBlocks]]
  /\ UNCHANGED <<bitmap, sector, cwd>>

Create(name) == AddEntry(name, FALSE)
Mkdir(name) == AddEntry(name, TRUE)

(* chdir looks at the names "/", ".." and "." before it looks in the       *)
(* directory; "." changes nothing.                                         *)
ChdirRoot == cwd' = Root /\ UNCHANGED <<inode, bitmap, sector>>

ChdirUp == cwd' = inode[cwd].parent /\ UNCHANGED <<inode, bitmap, sector>>

ChdirInto(name) ==
  /\ name \notin {"/", "..", "."}
  /\ Matches(name) # {}
  /\ inode[Find(name)].isDir
  /\ cwd' = Find(name)
  /\ UNCHANGED <<inode, bitmap, sector>>

(* The file's old blocks are freed, then one block after the other is      *)
(* allocated and written, and the inode is written last.  When the blocks  *)
(* run out the inode stays as it was on the disk.                          *)
Write(name, data) ==
  LET i == Find(name)
      need == Cardinality(DOMAIN data)
      kept == bitmap \ BlocksOf(i)
      free == Block \ kept
      fits == need <= Cardinality(free)
      lba == FirstFit(free, IF fits THEN need ELSE Cardinality(free))
  IN /\ Matches(name) # {}
     /\ ~inode[i].isDir
     /\ bitmap' = kept \cup Range(lba)
     /\ sector' = [b \in Block |->
                     IF b \in Range(lba) THEN data[CHOOSE k \in DOMAIN lba : lba[k] = b]
                                         ELSE sector[b]]
     /\ inode' = IF fits
                 THEN [inode EXCEPT ![i] = [inode[i] EXCEPT
                          !.size = need,
                          !.blocks = [s \in Slot |-> IF s < need THEN lba[s] ELSE NoBlock]]]
                 ELSE inode
     /\ UNCHANGED cwd

(* Mistakes: a remove that leaves the blocks marked, and one that takes a  *)
(* folder away under its entries.                                          *)
RemoveLeaks(name) ==
  /\ Matches(name) # {}
  /\ inode[Find(name)].isDir => Children(Find(name)) = {}
  /\ inode' = [inode EXCEPT ![Find(name)] = EmptyInode]
  /\ UNCHANGED <<bitmap, sector, cwd>>

RemoveUnchecked(name) ==
  /\ Matches(name) # {}
  /\ Find(name) # Root
  /\ bitmap' = bitmap \ BlocksOf(Find(name))
  /\ inode' = [inode EXCEPT ![Find(name)] = EmptyInode]
  /\ UNCHANGED <<sector, cwd>>

Remove(name) ==
  LET i == Find(name)
  IN /\ Matches(name) # {}
     /\ inode[i].isDir => Children(i) = {}
     /\ bitmap' = bitmap \ BlocksOf(i)
     /\ inode' = [inode EXCEPT ![i] = EmptyInode]
     /\ UNCHANGED <<sector, cwd>>

Next ==
  \/ \E name \in Names :
       \/ Create(name)
       \/ Mkdir(name)
       \/ ChdirInto(name)
       \/ Remove(name)
       \/ \E data \in Contents : Write(name, data)
  \/ ChdirRoot
  \/ ChdirUp
  \/ Boot

Spec == Init /\ [][Next]_vars

-------------------------------------------------------------------------------
(* Correctness. *)

TypeOK ==
  /\ inode \in [Inodes -> Inode]
  /\ bitmap \in SUBSET Block
  /\ sector \in [Block -> Payload]
  /\ cwd \in Inodes

(* An inode names exactly as many blocks as its size says, first entries   *)
(* first; folders and free inodes name none.                               *)
SizesMatch ==
  \A i \in Inodes :
    /\ \A s \in Slot : inode[i].blocks[s] # NoBlock <=> s < inode[i].size
    /\ inode[i].isDir => inode[i].used
    /\ inode[i].size > 0 => inode[i].used /\ ~inode[i].isDir

(* No data block is named twice, by two files or twice by one. *)
NotShared ==
  \A i, j \in Inodes : \A s, t \in Slot :
    inode[i].blocks[s] = inode[j].blocks[t] /\ inode[i].blocks[s] # NoBlock
      => i = j /\ s = t

(* The bitmap marks exactly the blocks that files name: none is free while *)
(* in use, which a later write would overwrite, and none is lost.          *)
BitmapExact == bitmap = UNION {BlocksOf(i) : i \in Inodes}

BlocksOK == SizesMatch /\ NotShared /\ BitmapExact

(* The root directory is inode 0, as format wrote it. *)
RootKept == inode[Root] = RootInode

(* What every step preserves.  The root is part of it because it is the    *)
(* one inode that never needs data blocks, which is what leaves room for   *)
(* all the others.                                                         *)
Inv == TypeOK /\ RootKept /\ BlocksOK

(* write never answers "disk full": once a file's old blocks are freed     *)
(* there are at least as many free blocks as an inode can name.            *)
NeverFull ==
  \A i \in Used \ {Root} :
    DirectBlocks <= Cardinality(Block \ (bitmap \ BlocksOf(i)))

(* The entries as the callers see them. *)
Entries ==
  [i \in Used |-> [dir |-> inode[i].isDir, parent |-> inode[i].parent,
                   name |-> inode[i].name, content |-> Content(i)]]

Tree == INSTANCE FileTree WITH node <- Entries

(* The entries always form a tree below a root that stays, no directory    *)
(* holds a name twice, and the current directory is a directory of it.     *)
TreeOK == Tree!TreeInv

(* Every operation does to the entries what FileTree says and nothing      *)
(* more: a file holds what was written to it last, whatever was created,   *)
(* written or removed meanwhile.                                           *)
ImplementsFileTree == Tree!Spec
===============================================================================
