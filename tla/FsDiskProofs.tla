----------------------------- MODULE FsDiskProofs -----------------------------
(***************************************************************************)
(* The sector writes of the file system, for every size of the disk, every *)
(* set of names and payloads and any number of crashes: a crash leaves a   *)
(* tree, it costs at most the file under way, and without crashes the      *)
(* writes amount to the operations of FileSystem.                          *)
(***************************************************************************)
EXTENDS FsDisk, FileSystemProofs

-------------------------------------------------------------------------------
(* The tree without what its files hold. *)

Bare ==
  [i \in Used |-> [dir |-> inode[i].isDir, parent |-> inode[i].parent,
                   name |-> inode[i].name, content |-> Tree!Nothing]]
Shape == INSTANCE FileTreeProofs WITH node <- Bare
ShapeOK == Shape!TreeTypeOK /\ Shape!TreeInv

LEMMA ShapeLookups ==
  /\ Shape!Live = Used
  /\ \A i \in Used : /\ Bare[i].dir = inode[i].isDir
                     /\ Bare[i].parent = inode[i].parent
                     /\ Bare[i].name = inode[i].name
  /\ \A d : Shape!Children(d) = Children(d)
  /\ \A name : Shape!Named(name) = Matches(name)
<1>1. /\ Shape!Live = Used
      /\ \A i \in Used : /\ Bare[i].dir = inode[i].isDir
                         /\ Bare[i].parent = inode[i].parent
                         /\ Bare[i].name = inode[i].name
  BY DEF Shape!Live, Bare
<1>2. \A d : Shape!Children(d) = Children(d)
  BY <1>1 DEF Shape!Children, Children
<1>3. \A name : Shape!Named(name) = Matches(name)
  BY <1>1, <1>2 DEF Shape!Named, Matches, Children
<1> QED BY <1>1, <1>2, <1>3

(* The tree conditions look at no content but that of the root, which has none. *)
LEMMA ShapeIsTree ==
  ASSUME RootKept, Shape!TreeInv
  PROVE  TreeOK
<1>1. /\ Tree!Live = Shape!Live /\ Tree!Live = Used
      /\ \A i \in Used : /\ Entries[i].dir = Bare[i].dir /\ Entries[i].parent = Bare[i].parent
                         /\ Entries[i].name = Bare[i].name
  BY Lookups, ShapeLookups
<1>2. Root \in Used /\ Entries[Root] = Tree!RootNode
  <2>1. Root \in Used
    BY Constants DEF RootKept, RootInode, Used
  <2>2. Content(Root) = Tree!Nothing
    BY DEF Content, RootKept, RootInode, Tree!Nothing
  <2>3. /\ RootInode.isDir = TRUE /\ RootInode.parent = Tree!Root /\ RootInode.name = "/"
    BY DEF RootInode, Root, Tree!Root
  <2>4. Entry(Root) = Tree!RootNode
    BY <2>2, <2>3 DEF Entry, Tree!RootNode, RootKept
  <2> QED BY <2>1, <2>4, Lookups
<1>3. Tree!RootStays
  BY <1>1, <1>2 DEF Tree!RootStays, Tree!Root, Root
<1>4. Tree!ParentsLive /\ Tree!NamesUnique /\ Tree!CwdLive
  BY <1>1 DEF Shape!TreeInv, Shape!ParentsLive, Shape!NamesUnique, Shape!CwdLive,
    Tree!ParentsLive, Tree!NamesUnique, Tree!CwdLive
<1>5. Tree!Rooted
  BY <1>1 DEF Shape!TreeInv, Shape!Rooted, Tree!Rooted, Shape!Root, Tree!Root
<1> QED BY <1>3, <1>4, <1>5 DEF TreeOK, Tree!TreeInv

LEMMA SameShape ==
  ASSUME \A i \in Inodes : /\ inode'[i].used = inode[i].used /\ inode'[i].isDir = inode[i].isDir
                           /\ inode'[i].parent = inode[i].parent /\ inode'[i].name = inode[i].name
  PROVE  Bare' = Bare
<1>1. Used' = Used
  BY DEF Used
<1> QED BY <1>1 DEF Bare, Used, Tree!Nothing

LEMMA StillShape ==
  ASSUME ShapeOK, Bare' = Bare, cwd' = cwd
  PROVE  ShapeOK'
BY Shape!NextKeepsTree DEF ShapeOK, Shape!vars

LEMMA AddKeepsShape ==
  ASSUME ShapeOK, inode \in [Inodes -> Inode], NEW name \in Names, NEW isDir \in BOOLEAN,
         AddEntry(name, isDir)
  PROVE  ShapeOK'
<1> DEFINE n == [used |-> TRUE, isDir |-> isDir, parent |-> cwd, name |-> name,
                 size |-> 0, blocks |-> NoBlocks]
<1>1. PICK i \in Inodes : ~inode[i].used /\ inode' = [inode EXCEPT ![i] = n]
  BY FreeInodeIsFree DEF AddEntry
<1>2. /\ inode'[i] = n
      /\ \A j \in Inodes : j # i => inode'[j] = inode[j]
  BY <1>1
<1>3. Used' = Used \cup {i} /\ i \notin Used
  BY <1>1, <1>2 DEF Used
<1>4. Bare' = [j \in Used \cup {i} |-> IF j = i THEN Shape!NewNode(name, isDir) ELSE Bare[j]]
  BY <1>2, <1>3 DEF Bare, Used, Shape!NewNode, Shape!Nothing, Tree!Nothing
<1>5. Matches(name) = {} /\ cwd' = cwd
  BY DEF AddEntry
<1>6. Shape!Add(name, isDir)
  BY <1>3, <1>4, <1>5, ShapeLookups DEF Shape!Add, Shape!Ids, Inodes
<1> QED BY <1>6, Shape!AddKeepsTree DEF ShapeOK

LEMMA EraseKeepsShape ==
  ASSUME ShapeOK, inode \in [Inodes -> Inode], NEW i \in Used, inode[i].parent = cwd, Children(i) = {},
         inode[i].name \in Names,
         inode' = [inode EXCEPT ![i] = EmptyInode], cwd' = cwd
  PROVE  ShapeOK'
<1>1. ~inode'[i].used /\ \A j \in Inodes : j # i => inode'[j] = inode[j]
  BY DEF Used, EmptyInode
<1>2. Used' = Used \ {i}
  BY <1>1 DEF Used
<1>3. Bare' = [j \in Used \ {i} |-> Bare[j]]
  BY <1>1, <1>2 DEF Bare, Used, Tree!Nothing
<1>4. i \in Matches(inode[i].name)
  BY DEF Matches, Children
<1>5. Shape!Remove(inode[i].name)
  BY <1>3, <1>4, ShapeLookups DEF Shape!Remove
<1> QED BY <1>5, Shape!RemoveKeepsTree DEF ShapeOK

LEMMA GoKeepsShape ==
  ASSUME ShapeOK, UNCHANGED inode,
         \/ cwd' = Root
         \/ cwd' = inode[cwd].parent
         \/ \E name : Matches(name) # {} /\ cwd' = Find(name) /\ inode[Find(name)].isDir
  PROVE  ShapeOK'
<1>1. Bare' = Bare
  BY SameShape
<1>2. \A i \in Used : inode[i].isDir = Bare[i].dir
  BY ShapeLookups
<1>3. cwd' \in Used /\ Bare[cwd'].dir
  <2>1. CASE cwd' = Root
    BY <2>1, ShapeLookups DEF ShapeOK, Shape!TreeInv, Shape!RootStays, Shape!RootNode, Shape!Root, Root
  <2>2. CASE cwd' = inode[cwd].parent
    BY <2>2, ShapeLookups DEF ShapeOK, Shape!TreeInv, Shape!ParentsLive, Shape!CwdLive
  <2>3. CASE \E name : Matches(name) # {} /\ cwd' = Find(name) /\ inode[Find(name)].isDir
    BY <2>3, <1>2, FindFinds DEF Used
  <2> QED BY <2>1, <2>2, <2>3
<1> QED BY <1>1, <1>3, ShapeLookups, Shape!GoKeepsTree DEF ShapeOK

(* A disk just formatted. *)
LEMMA FormattedHasShape == inode = FormattedTable /\ cwd = Root => ShapeOK /\ RootKept /\ SizesMatch
<1> SUFFICES ASSUME inode = FormattedTable, cwd = Root  PROVE ShapeOK /\ RootKept /\ SizesMatch
  OBVIOUS
<1>1. inode[Root] = RootInode /\ \A i \in Inodes : i # Root => inode[i] = EmptyInode
  BY Constants DEF FormattedTable, BlankTable
<1>2. Used = {Root}
  <2>1. RootInode.used /\ ~EmptyInode.used
    BY DEF RootInode, EmptyInode
  <2> QED BY <2>1, <1>1, Constants DEF Used
<1>3. Bare = [i \in {Root} |-> Shape!RootNode]
  <2>1. /\ RootInode.isDir = TRUE /\ RootInode.parent = Shape!Root /\ RootInode.name = "/"
        /\ Tree!Nothing = Shape!Nothing
    BY DEF RootInode, Root, Shape!Root, Tree!Nothing, Shape!Nothing
  <2> QED BY <2>1, <1>1, <1>2 DEF Bare, Shape!RootNode
<1>4. ShapeOK
  BY <1>3, Shape!TreeInit DEF ShapeOK, Shape!Init, Shape!Root, Root
<1>5. SizesMatch
  <2>1. \A i \in Inodes : inode[i].blocks = NoBlocks /\ inode[i].size = 0
                          /\ (inode[i].isDir => inode[i].used)
    <3>1. RootInode.blocks = NoBlocks /\ RootInode.size = 0 /\ RootInode.used
      BY DEF RootInode
    <3>2. EmptyInode.blocks = NoBlocks /\ EmptyInode.size = 0 /\ ~EmptyInode.isDir
      BY DEF EmptyInode
    <3> QED BY <1>1, <3>1, <3>2
  <2> QED BY <2>1, Constants, SizesAssumption DEF SizesMatch, NoBlocks, Slot
<1> QED BY <1>1, <1>4, <1>5 DEF RootKept

LEMMA FormattedHasShapeNext == (inode = FormattedTable /\ cwd = Root)' => (ShapeOK /\ RootKept /\ SizesMatch)'
BY FormattedHasShape, PTL

-------------------------------------------------------------------------------
(* What holds at every sector write, however often the machine stopped. *)

Jobs == [op: {"none", "write", "remove"}, idx: Inodes, node: Inode, data: Contents, next: Nat]
Snapshots == [bitmap: SUBSET Block, sector: [Block -> Payload]]

DTypes ==
  /\ inode \in [Inodes -> Inode] /\ bitmap \in SUBSET Block /\ sector \in [Block -> Payload]
  /\ cwd \in Inodes /\ magic \in BOOLEAN /\ pc \in Steps /\ job \in Jobs /\ crashes \in Nat
  /\ done \in Snapshots

(* The first n slots of the inode in memory name blocks. *)
Filled(n) == \A s \in Slot : job.node.blocks[s] # NoBlock <=> s < n

Need == Cardinality(DOMAIN job.data)

(* The call under way is about an entry of cwd; the inode in memory differs   *)
(* from the one on the disk in its blocks at most.                           *)
UnderWay ==
  /\ job.idx \in Used \ {Root} /\ inode[job.idx].parent = cwd /\ inode[job.idx].name \in Names
  /\ job.node.used /\ job.node.isDir = inode[job.idx].isDir
  /\ job.node.parent = inode[job.idx].parent /\ job.node.name = inode[job.idx].name
  /\ job.op = "write" => ~inode[job.idx].isDir
  /\ job.op = "remove" => Children(job.idx) = {}
  /\ pc = "free" => job.op # "none" /\ job.next = 0 /\ InMemory # {}
  /\ pc = "fill" => job.op = "write" /\ Filled(job.next) /\ job.next <= Need
  /\ pc = "data" => job.op = "write" /\ Filled(job.next + 1) /\ job.next < Need
  /\ pc = "erase" => job.op = "remove"

AtWork == {"free", "fill", "data", "erase"}

Unformatted == pc \in Formatting \/ (pc = "off" /\ ~magic)

DiskKept ==
  IF Unformatted THEN inode = BlankTable /\ cwd = Root /\ (pc \in Formatting => magic)
  ELSE /\ magic /\ RootKept /\ SizesMatch /\ ShapeOK
       /\ pc \in AtWork => UnderWay

DiskOK == DTypes /\ DiskKept

(* A crash in the middle of formatting leaves a disk that is no file system,  *)
(* see FormattedHasRoot; until one happens the rest holds.                   *)
DiskInv == crashes \in Nat /\ (crashes = 0 \/ ~CrashInFormat => DiskOK)

-------------------------------------------------------------------------------
(* Facts for the steps. *)

LEMMA DataIs ==
  ASSUME NEW data \in Contents
  PROVE  /\ Cardinality(DOMAIN data) \in 0 .. DirectBlocks
         /\ data \in [0 .. Cardinality(DOMAIN data) - 1 -> Payload]
<1>1. PICK n \in 0 .. DirectBlocks : data \in [0 .. n - 1 -> Payload]
  BY DEF Contents
<1>2. n = Cardinality(DOMAIN data)
  <2>1. 0 \in Int /\ n - 1 \in Int /\ (0 > n - 1 => n = 0) /\ n - 1 - 0 + 1 = n
    BY SizesAssumption
  <2>2. Cardinality(0 .. n - 1) = n
    BY <2>1, FS_Interval
  <2> QED BY <1>1, <2>2
<1> QED BY <1>1, <1>2

LEMMA NoJobIsJob == NoJob \in Jobs
<1>1. [k \in {} |-> 0] \in Contents
  <2>1. 0 .. 0 - 1 = {}
    OBVIOUS
  <2>2. [k \in {} |-> 0] \in [0 .. 0 - 1 -> Payload]
    BY <2>1
  <2> QED BY <2>2, SizesAssumption DEF Contents
<1> QED BY <1>1, Constants DEF NoJob, Jobs

WithBlock(j, s, b) == [j EXCEPT !.node.blocks[s] = b]

LEMMA SetBlock ==
  ASSUME NEW j \in Jobs, NEW s \in Slot, NEW b \in Block \cup {NoBlock},
         NEW k, k = WithBlock(j, s, b)
  PROVE  /\ k \in Jobs /\ k.op = j.op /\ k.idx = j.idx /\ k.data = j.data /\ k.next = j.next
         /\ k.node.used = j.node.used /\ k.node.isDir = j.node.isDir
         /\ k.node.parent = j.node.parent /\ k.node.name = j.node.name
         /\ k.node.blocks[s] = b
         /\ \A t \in Slot : t # s => k.node.blocks[t] = j.node.blocks[t]
<1>1. PICK blocks : blocks = [j.node.blocks EXCEPT ![s] = b]
  OBVIOUS
<1>2. PICK n : n = [j.node EXCEPT !.blocks = blocks]
  OBVIOUS
<1>3. k = [j EXCEPT !.node = n]
  BY <1>1, <1>2 DEF WithBlock
<1>4. j.node \in Inode
  BY DEF Jobs
<1>5. blocks \in [Slot -> Block \cup {NoBlock}] /\ blocks[s] = b /\ \A t \in Slot : t # s => blocks[t] = j.node.blocks[t]
  BY <1>1, <1>4 DEF Inode
<1>6. /\ n \in Inode /\ n.blocks = blocks /\ n.used = j.node.used /\ n.isDir = j.node.isDir
      /\ n.parent = j.node.parent /\ n.name = j.node.name
  BY <1>2, <1>4, <1>5 DEF Inode
<1>7. k \in Jobs /\ k.op = j.op /\ k.idx = j.idx /\ k.data = j.data /\ k.next = j.next /\ k.node = n
  BY <1>3, <1>6 DEF Jobs
<1> QED BY <1>5, <1>6, <1>7

LEMMA NextJob ==
  ASSUME NEW j \in Jobs, NEW k, k = [j EXCEPT !.next = @ + 1]
  PROVE  /\ k \in Jobs /\ k.op = j.op /\ k.idx = j.idx /\ k.data = j.data /\ k.next = j.next + 1
         /\ k.node = j.node
BY DEF Jobs

(* What the table and cwd decide. *)
LEMMA SameTable ==
  ASSUME UNCHANGED <<inode, cwd>>
  PROVE  /\ RootKept => RootKept'
         /\ SizesMatch => SizesMatch'
         /\ ShapeOK => ShapeOK'
         /\ Used' = Used /\ \A i : Children(i)' = Children(i)
<1>1. Bare' = Bare
  BY DEF Bare, Used, Tree!Nothing
<1>2. ShapeOK => ShapeOK'
  BY <1>1, StillShape
<1> QED BY <1>2 DEF RootKept, SizesMatch, Used, Children

-------------------------------------------------------------------------------
(* Starting the machine. *)

LEMMA DoneTypes ==
  ASSUME bitmap' \in SUBSET Block, sector' \in [Block -> Payload],
         done' = [bitmap |-> bitmap', sector |-> sector']
  PROVE  done' \in Snapshots
BY DEF Snapshots

LEMMA BootKeeps ==
  ASSUME DiskOK, BootFormatted
  PROVE  DiskOK'
<1>1. /\ pc = "off" /\ magic /\ pc' = "idle" /\ cwd' = Root
      /\ done' = [bitmap |-> bitmap, sector |-> sector]
      /\ UNCHANGED <<inode, bitmap, sector, magic, job, crashes>>
  BY DEF BootFormatted, diskVars
<1>2. DTypes /\ ~Unformatted /\ RootKept /\ SizesMatch /\ ShapeOK
  BY <1>1 DEF DiskOK, DiskKept, Unformatted, Formatting
<1>3. DTypes'
  BY <1>1, <1>2, DoneTypes, Constants DEF DTypes, Steps
<1>4. ShapeOK'
  BY <1>1, <1>2, GoKeepsShape
<1>5. RootKept' /\ SizesMatch'
  BY <1>1, <1>2 DEF RootKept, SizesMatch
<1>6. ~Unformatted' /\ pc' \notin AtWork
  BY <1>1 DEF Unformatted, Formatting, AtWork
<1> QED BY <1>1, <1>2, <1>3, <1>4, <1>5, <1>6 DEF DiskOK, DiskKept

LEMMA FormatKeeps ==
  ASSUME DiskOK, FormatSuperblock \/ FormatBitmap \/ FormatInodes
  PROVE  DiskOK'
<1>1. /\ Unformatted /\ Unformatted' /\ pc' \in Steps /\ magic' \in BOOLEAN /\ bitmap' \in SUBSET Block
      /\ UNCHANGED <<sector, cwd, crashes, done>> /\ DTypes /\ inode = BlankTable /\ cwd = Root
  BY DEF DiskOK, DiskKept, DTypes, FormatSuperblock, FormatBitmap, FormatInodes, Unformatted, Formatting, Steps
<1>2. inode' = inode
  <2>1. CASE FormatInodes
    <3> DEFINE in(i) == job.next * InodesPerSector <= i /\ i < job.next * InodesPerSector + InodesPerSector
    <3>1. inode' = [i \in Inodes |-> IF in(i) THEN EmptyInode ELSE inode[i]]
      BY <2>1 DEF FormatInodes
    <3> HIDE DEF in
    <3> QED BY <1>1, <3>1 DEF BlankTable
  <2> QED BY <2>1 DEF FormatSuperblock, FormatBitmap
<1>3. job' \in Jobs
  BY <1>1, NoJobIsJob, NextJob DEF DTypes, FormatSuperblock, FormatBitmap, FormatInodes
<1>4. DTypes'
  BY <1>1, <1>2, <1>3 DEF DTypes
<1>5. magic'
  <2>1. CASE FormatSuperblock
    BY <2>1 DEF FormatSuperblock
  <2>2. CASE FormatBitmap \/ FormatInodes
    <3>1. pc \in Formatting /\ UNCHANGED magic
      BY <2>2 DEF FormatBitmap, FormatInodes, Formatting
    <3>2. magic
      BY <1>1, <3>1 DEF DiskOK, DiskKept
    <3> QED BY <3>1, <3>2
  <2> QED BY <2>1, <2>2
<1> QED BY <1>1, <1>2, <1>4, <1>5 DEF DiskOK, DiskKept

LEMMA FormatRootKeeps ==
  ASSUME DiskOK, FormatRoot
  PROVE  DiskOK'
<1>1. /\ pc = "format root" /\ inode' = [inode EXCEPT ![Root] = RootInode]
      /\ cwd' = Root /\ pc' = "idle" /\ done' = [bitmap |-> bitmap, sector |-> sector]
      /\ UNCHANGED <<bitmap, sector, magic, job, crashes>>
  BY DEF FormatRoot
<1>2. DTypes /\ Unformatted /\ inode = BlankTable /\ magic
  BY <1>1 DEF DiskOK, DiskKept, Unformatted, Formatting
<1>3. inode' = FormattedTable
  BY <1>1, <1>2 DEF FormattedTable
<1>4. ShapeOK' /\ RootKept' /\ SizesMatch'
  BY <1>1, <1>3, FormattedHasShapeNext DEF FormattedTable, BlankTable
<1>5. DTypes'
  BY <1>1, <1>2, DoneTypes, Constants DEF DTypes, Steps
<1>6. ~Unformatted' /\ pc' \notin AtWork
  BY <1>1 DEF Unformatted, Formatting, AtWork
<1> QED BY <1>1, <1>2, <1>4, <1>5, <1>6 DEF DiskOK, DiskKept

-------------------------------------------------------------------------------
(* Operations of one sector. *)

LEMMA AtomicKeeps ==
  ASSUME DiskOK, NEW name \in Names, NEW isDir \in BOOLEAN, Atomic(AddEntry(name, isDir))
  PROVE  DiskOK'
<1> DEFINE n == [used |-> TRUE, isDir |-> isDir, parent |-> cwd, name |-> name,
                 size |-> 0, blocks |-> NoBlocks]
<1>1. /\ pc = "idle" /\ AddEntry(name, isDir) /\ UNCHANGED <<bitmap, sector, cwd, magic, pc, job, crashes, done>>
  BY DEF Atomic, AddEntry
<1>2. /\ DTypes /\ ~Unformatted /\ magic /\ RootKept /\ SizesMatch /\ ShapeOK
      /\ ~Unformatted' /\ pc' \notin AtWork
  BY <1>1 DEF DiskOK, DiskKept, Unformatted, Formatting, AtWork
<1>3. PICK i \in Inodes : ~inode[i].used /\ inode' = [inode EXCEPT ![i] = n]
  BY FreeInodeIsFree, <1>1 DEF AddEntry
<1>4. n \in Inode /\ n.blocks = NoBlocks /\ n.size = 0 /\ (n.isDir => n.used)
  <2>1. NoBlocks \in [Slot -> Block \cup {NoBlock}]
    BY DEF NoBlocks
  <2>2. cwd \in Inodes /\ 0 \in 0 .. DirectBlocks
    BY <1>2, SizesAssumption DEF DTypes
  <2> QED BY <2>1, <2>2 DEF Inode
<1> HIDE DEF n
<1>5. /\ inode' \in [Inodes -> Inode] /\ inode'[i] = n
      /\ \A j \in Inodes : j # i => inode'[j] = inode[j]
  BY <1>2, <1>3, <1>4 DEF DTypes
<1>6. i # Root
  BY <1>2, <1>3 DEF RootKept, RootInode
<1>7. RootKept'
  BY <1>2, <1>5, <1>6, Constants DEF RootKept
<1>8. SizesMatch'
  BY <1>2, <1>4, <1>5, Constants, SizesAssumption DEF SizesMatch, NoBlocks, Slot
<1>9. ShapeOK'
  BY <1>1, <1>2, AddKeepsShape DEF DTypes
<1>10. DTypes'
  BY <1>1, <1>2, <1>5 DEF DTypes
<1> QED BY <1>1, <1>2, <1>7, <1>8, <1>9, <1>10 DEF DiskOK, DiskKept

LEMMA ChdirKeeps ==
  ASSUME DiskOK, Atomic(ChdirRoot) \/ Atomic(ChdirUp) \/ \E name \in Names : Atomic(ChdirInto(name))
  PROVE  DiskOK'
<1>1. /\ pc = "idle" /\ UNCHANGED <<inode, bitmap, sector, magic, pc, job, crashes, done>>
      /\ \/ cwd' = Root
         \/ cwd' = inode[cwd].parent
         \/ \E name : Matches(name) # {} /\ cwd' = Find(name) /\ inode[Find(name)].isDir
  BY DEF Atomic, ChdirRoot, ChdirUp, ChdirInto
<1>2. /\ DTypes /\ ~Unformatted /\ magic /\ RootKept /\ SizesMatch /\ ShapeOK
      /\ ~Unformatted' /\ pc' \notin AtWork
  BY <1>1 DEF DiskOK, DiskKept, Unformatted, Formatting, AtWork
<1>3. ShapeOK'
  BY <1>1, <1>2, GoKeepsShape
<1>4. cwd' \in Inodes
  <2>1. cwd \in Inodes /\ inode[cwd] \in Inode
    BY <1>2 DEF DTypes
  <2>2. inode[cwd].parent \in Inodes
    BY <2>1 DEF Inode
  <2> QED BY <1>1, <2>2, FindFinds, Constants
<1>5. DTypes' /\ RootKept' /\ SizesMatch'
  BY <1>1, <1>2, <1>4 DEF DTypes, RootKept, SizesMatch
<1> QED BY <1>1, <1>2, <1>3, <1>5 DEF DiskOK, DiskKept

-------------------------------------------------------------------------------
(* write and remove, sector by sector. *)

(* A step that leaves the table and cwd as they are. *)
LEMMA WorkKeeps ==
  ASSUME DiskOK, pc \in AtWork \cup {"idle"}, UNCHANGED <<inode, cwd, magic>>,
         pc' \in AtWork \cup {"idle"}, pc' \in AtWork => UnderWay', DTypes'
  PROVE  DiskOK'
<1>1. /\ ~Unformatted /\ magic /\ RootKept /\ SizesMatch /\ ShapeOK
      /\ ~Unformatted'
  BY DEF DiskOK, DiskKept, Unformatted, Formatting, AtWork
<1> QED BY <1>1, SameTable DEF DiskOK, DiskKept

LEMMA CallKeeps ==
  ASSUME DiskOK, NEW name \in Names,
         CallRemove(name) \/ \E data \in Contents : CallWrite(name, data)
  PROVE  DiskOK'
<1>0. PICK i : i = Find(name)
  OBVIOUS
<1>1. PICK op \in {"write", "remove"}, data \in Contents :
        /\ Matches(name) # {} /\ Call(op, i, data)
        /\ op = "write" => ~inode[i].isDir
        /\ op = "remove" => (inode[i].isDir => Children(i) = {})
  <2>1. NoJob.data \in Contents
    BY NoJobIsJob DEF Jobs
  <2> QED BY <1>0, <2>1 DEF CallRemove, CallWrite
<1>2. /\ pc = "idle" /\ UNCHANGED <<inode, bitmap, sector, magic, cwd, crashes, done>>
      /\ job' = [op |-> op, idx |-> i, node |-> inode[i], data |-> data, next |-> 0]
      /\ pc' = IF BlocksOf(i) = {} THEN (IF op = "write" THEN "fill" ELSE "erase") ELSE "free"
  BY <1>1 DEF Call, diskVars
<1>3. /\ DTypes /\ ~Unformatted /\ RootKept /\ SizesMatch /\ ShapeOK
  BY <1>2 DEF DiskOK, DiskKept, Unformatted, Formatting
<1>4. i \in Inodes /\ i \in Used /\ inode[i].used /\ inode[i].parent = cwd /\ inode[i].name = name
  BY <1>0, <1>1, FindFinds DEF Used
<1>5. i # Root
  <2>1. inode[Root].isDir /\ Root \in Children(Root)
    BY <1>3, Constants DEF RootKept, RootInode, Children, Used
  <2> QED BY <1>1, <2>1
<1>6. op = "remove" => Children(i) = {}
  <2> SUFFICES ASSUME op = "remove", ~inode[i].isDir, NEW j \in Children(i)  PROVE FALSE
    BY <1>1
  <2>1. j \in Used /\ Bare[j].parent = i
    BY ShapeLookups DEF Children
  <2>2. Bare[i].dir
    BY <1>3, <2>1, ShapeLookups DEF ShapeOK, Shape!TreeInv, Shape!ParentsLive
  <2> QED BY <1>4, <2>2, ShapeLookups
<1>7. job' \in Jobs
  BY <1>2, <1>3, <1>4 DEF Jobs, DTypes
<1>8. /\ job'.op = op /\ job'.idx = i /\ job'.node = inode[i] /\ job'.data = data /\ job'.next = 0
  BY <1>2
<1>9. DTypes'
  BY <1>2, <1>3, <1>7 DEF DTypes, Steps
<1>10. Used' = Used /\ Children(i)' = Children(i)
  BY <1>2 DEF Used, Children
<1>11. pc' = "free" => InMemory' # {}
  BY <1>2, <1>8 DEF InMemory, BlocksOf
<1>12. pc' = "fill" => Filled(0)'
  <2>1. \A s \in Slot : ~(s < 0)
    BY Constants
  <2> QED BY <1>2, <1>8, <2>1 DEF Filled, BlocksOf
<1>13. 0 <= Need'
  BY <1>8, DataIs DEF Need
<1>14. UnderWay'
  BY <1>1, <1>2, <1>4, <1>5, <1>6, <1>8, <1>10, <1>11, <1>12, <1>13 DEF UnderWay
<1>15. pc' \in AtWork
  BY <1>2 DEF AtWork
<1> QED BY <1>2, <1>9, <1>14, <1>15, WorkKeeps DEF AtWork

LEMMA FreeKeeps ==
  ASSUME DiskOK, FreeBlock
  PROVE  DiskOK'
<1>1. PICK s : s = Least(InMemory)
  OBVIOUS
<1>2. /\ pc = "free" /\ bitmap' = bitmap \ {job.node.blocks[s]}
      /\ job' = [job EXCEPT !.node.blocks[s] = NoBlock]
      /\ pc' = IF InMemory # {s} THEN "free" ELSE IF job.op = "write" THEN "fill" ELSE "erase"
      /\ UNCHANGED <<inode, sector, cwd, magic, crashes, done>>
  BY <1>1 DEF FreeBlock
<1>3. DTypes /\ UnderWay
  BY <1>2 DEF DiskOK, DiskKept, Unformatted, Formatting, AtWork
<1>4. s \in Slot /\ s \in InMemory
  <2>1. InMemory \in SUBSET Nat /\ InMemory # {} /\ InMemory \in SUBSET Slot
    BY <1>2, <1>3, Constants DEF UnderWay, InMemory
  <2> QED BY <1>1, <2>1, LeastIsLeast
<1>5. /\ job' \in Jobs /\ job'.op = job.op /\ job'.idx = job.idx /\ job'.data = job.data /\ job'.next = job.next
      /\ job'.node.used = job.node.used /\ job'.node.isDir = job.node.isDir
      /\ job'.node.parent = job.node.parent /\ job'.node.name = job.node.name
      /\ job'.node.blocks[s] = NoBlock
      /\ \A t \in Slot : t # s => job'.node.blocks[t] = job.node.blocks[t]
  <2>1. job \in Jobs /\ NoBlock \in Block \cup {NoBlock} /\ job' = WithBlock(job, s, NoBlock)
    BY <1>2, <1>3 DEF DTypes, WithBlock
  <2> QED BY <2>1, <1>4, SetBlock
<1>6. InMemory' = InMemory \ {s}
  BY <1>4, <1>5 DEF InMemory
<1>7. DTypes'
  BY <1>2, <1>3, <1>5 DEF DTypes, Steps
<1>8. Used' = Used /\ \A i : Children(i)' = Children(i)
  BY <1>2, SameTable
<1>9. pc' # "free" => InMemory' = {}
  BY <1>2, <1>6
<1>10. pc' = "fill" => Filled(0)' /\ 0 <= Need'
  <2>1. \A t \in Slot : ~(t < 0)
    BY Constants
  <2>2. 0 <= Need'
    BY <1>5, DataIs DEF Need, Jobs
  <2> QED BY <1>9, <2>1, <2>2 DEF Filled, InMemory
<1>11. UnderWay'
  <2>1. /\ (job.idx \in Used \ {Root} /\ inode[job.idx].parent = cwd /\ inode[job.idx].name \in Names)'
        /\ (job.node.used /\ job.node.isDir = inode[job.idx].isDir)'
        /\ (job.node.parent = inode[job.idx].parent /\ job.node.name = inode[job.idx].name)'
        /\ (job.op = "write" => ~inode[job.idx].isDir)'
        /\ (job.op = "remove" => Children(job.idx) = {})'
    <3>1. inode' = inode /\ cwd' = cwd /\ job'.idx = job.idx /\ job'.op = job.op
      BY <1>2, <1>5
    <3>2. Children(job.idx)' = Children(job.idx)
      BY <3>1, <1>2 DEF Children, Used
    <3>3. (job.idx \in Used \ {Root} /\ inode[job.idx].parent = cwd /\ inode[job.idx].name \in Names)'
      BY <3>1, <1>3, <1>8 DEF UnderWay
    <3>4. (job.node.used /\ job.node.isDir = inode[job.idx].isDir)'
      BY <3>1, <1>3, <1>5 DEF UnderWay
    <3>5. (job.node.parent = inode[job.idx].parent /\ job.node.name = inode[job.idx].name)'
      BY <3>1, <1>3, <1>5 DEF UnderWay
    <3> QED BY <3>1, <3>2, <3>3, <3>4, <3>5, <1>3 DEF UnderWay
  <2>2. job'.op # "none" /\ job'.next = 0 /\ job.op \in {"none", "write", "remove"}
    BY <1>2, <1>3, <1>5 DEF UnderWay, DTypes, Jobs
  <2>3. pc' = "free" => InMemory' # {}
    BY <1>2, <1>4, <1>6
  <2>4. (pc' = "fill" => job.op = "write") /\ (pc' = "erase" => job.op # "write") /\ pc' # "data"
    BY <1>2
  <2> QED BY <1>5, <1>10, <2>1, <2>2, <2>3, <2>4 DEF UnderWay
<1> QED BY <1>2, <1>7, <1>11, WorkKeeps DEF AtWork

LEMMA AllocKeeps ==
  ASSUME DiskOK, AllocBlock
  PROVE  DiskOK'
<1>1. PICK b : b = Least(Block \ bitmap)
  OBVIOUS
<1>2. /\ pc = "fill" /\ job.next \in DOMAIN job.data /\ Block \ bitmap # {} /\ bitmap' = bitmap \cup {b}
      /\ job' = [job EXCEPT !.node.blocks[job.next] = b]
      /\ pc' = "data"
      /\ UNCHANGED <<inode, sector, cwd, magic, crashes, done>>
  BY <1>1 DEF AllocBlock
<1>3. DTypes /\ UnderWay
  BY <1>2 DEF DiskOK, DiskKept, Unformatted, Formatting, AtWork
<1>4. b \in Block /\ b # NoBlock
  BY <1>1, <1>2, Constants, LeastIsLeast
<1>5. PICK n : n = job.next
  OBVIOUS
<1>6. n \in Nat /\ n < Need /\ n \in Slot
  <2>1. job.data \in Contents /\ n \in Nat
    BY <1>3, <1>5 DEF DTypes, Jobs
  <2>2. Need \in 0 .. DirectBlocks /\ n \in 0 .. Need - 1
    BY <1>2, <1>5, <2>1, DataIs DEF Need
  <2> QED BY <2>2, SizesAssumption DEF Slot
<1>7. /\ job' \in Jobs /\ job'.op = job.op /\ job'.idx = job.idx /\ job'.data = job.data /\ job'.next = n
      /\ job'.node.used = job.node.used /\ job'.node.isDir = job.node.isDir
      /\ job'.node.parent = job.node.parent /\ job'.node.name = job.node.name
      /\ job'.node.blocks[n] = b
      /\ \A t \in Slot : t # n => job'.node.blocks[t] = job.node.blocks[t]
  <2>1. job \in Jobs /\ b \in Block \cup {NoBlock} /\ job' = WithBlock(job, n, b)
    BY <1>2, <1>3, <1>4, <1>5 DEF DTypes, WithBlock
  <2> QED BY <2>1, <1>5, <1>6, SetBlock
<1>8. DTypes'
  BY <1>2, <1>3, <1>4, <1>7 DEF DTypes, Steps
<1>9. Used' = Used /\ \A i : Children(i)' = Children(i)
  BY <1>2, SameTable
<1>10. Filled(n + 1)'
  <2>1. \A t \in Slot : job.node.blocks[t] # NoBlock <=> t < n
    BY <1>2, <1>3, <1>5 DEF UnderWay, Filled
  <2>2. Slot \in SUBSET Nat
    BY Constants
  <2> QED BY <1>4, <1>6, <1>7, <2>1, <2>2 DEF Filled
<1>11. Need' = Need
  BY <1>7 DEF Need
<1>12. UnderWay'
  <2>1. /\ (job.idx \in Used \ {Root} /\ inode[job.idx].parent = cwd /\ inode[job.idx].name \in Names)'
        /\ (job.node.used /\ job.node.isDir = inode[job.idx].isDir)'
        /\ (job.node.parent = inode[job.idx].parent /\ job.node.name = inode[job.idx].name)'
        /\ (job.op = "write" => ~inode[job.idx].isDir)'
        /\ (job.op = "remove" => Children(job.idx) = {})'
    BY <1>2, <1>3, <1>7, <1>9 DEF UnderWay, Children, Used
  <2>2. job'.op = "write"
    BY <1>2, <1>3, <1>7 DEF UnderWay
  <2> QED BY <1>2, <1>6, <1>7, <1>10, <1>11, <2>1, <2>2 DEF UnderWay
<1> QED BY <1>2, <1>8, <1>12, WorkKeeps DEF AtWork

LEMMA DataKeeps ==
  ASSUME DiskOK, WriteData
  PROVE  DiskOK'
<1>1. /\ pc = "data" /\ sector' = [sector EXCEPT ![job.node.blocks[job.next]] = job.data[job.next]]
      /\ job' = [job EXCEPT !.next = @ + 1] /\ pc' = "fill"
      /\ UNCHANGED <<inode, bitmap, cwd, magic, crashes, done>>
  BY DEF WriteData
<1>2. DTypes /\ UnderWay
  BY <1>1 DEF DiskOK, DiskKept, Unformatted, Formatting, AtWork
<1>3. PICK n : n = job.next
  OBVIOUS
<1>4. n \in Nat /\ n < Need /\ Need \in Nat /\ job.data[n] \in Payload
  <2>1. job.data \in Contents /\ n \in Nat /\ n < Need
    BY <1>1, <1>2, <1>3 DEF DTypes, Jobs, UnderWay
  <2>2. Need \in 0 .. DirectBlocks /\ job.data \in [0 .. Need - 1 -> Payload]
    BY <2>1, DataIs DEF Need
  <2>3. Need \in Nat /\ n \in 0 .. Need - 1
    BY <2>1, <2>2
  <2> QED BY <2>1, <2>2, <2>3
<1>5. /\ job' \in Jobs /\ job'.op = job.op /\ job'.idx = job.idx /\ job'.data = job.data /\ job'.next = n + 1
      /\ job'.node = job.node
  BY <1>1, <1>2, <1>3, NextJob DEF DTypes
<1>6. sector' \in [Block -> Payload]
  BY <1>1, <1>2, <1>3, <1>4 DEF DTypes
<1>7. DTypes'
  BY <1>1, <1>2, <1>5, <1>6 DEF DTypes, Steps
<1>8. Used' = Used /\ \A i : Children(i)' = Children(i)
  BY <1>1, SameTable
<1>9. Filled(n + 1)' /\ Need' = Need /\ n + 1 <= Need
  BY <1>1, <1>2, <1>3, <1>4, <1>5 DEF UnderWay, Filled, Need
<1>10. UnderWay'
  <2>1. /\ (job.idx \in Used \ {Root} /\ inode[job.idx].parent = cwd /\ inode[job.idx].name \in Names)'
        /\ (job.node.used /\ job.node.isDir = inode[job.idx].isDir)'
        /\ (job.node.parent = inode[job.idx].parent /\ job.node.name = inode[job.idx].name)'
        /\ (job.op = "write" => ~inode[job.idx].isDir)'
        /\ (job.op = "remove" => Children(job.idx) = {})'
    BY <1>1, <1>2, <1>5, <1>8 DEF UnderWay, Children, Used
  <2>2. job'.op = "write"
    BY <1>1, <1>2, <1>5 DEF UnderWay
  <2> QED BY <1>1, <1>5, <1>9, <2>1, <2>2 DEF UnderWay
<1> QED BY <1>1, <1>7, <1>10, WorkKeeps DEF AtWork

LEMMA FullKeeps ==
  ASSUME DiskOK, DiskFull
  PROVE  DiskOK'
<1>1. /\ pc = "fill" /\ UNCHANGED <<inode, bitmap, sector, magic, cwd, crashes>>
      /\ pc' = "idle" /\ job' = NoJob /\ done' = [bitmap |-> bitmap', sector |-> sector']
  BY DEF DiskFull, diskVars, Return
<1>2. DTypes
  BY DEF DiskOK
<1>3. DTypes'
  BY <1>1, <1>2, NoJobIsJob, DoneTypes DEF DTypes, Steps
<1> QED BY <1>1, <1>3, WorkKeeps DEF AtWork

LEMMA InodeKeeps ==
  ASSUME DiskOK, WriteInode
  PROVE  DiskOK'
<1>1. PICK i, n : i = job.idx /\ n = job.next
  OBVIOUS
<1>2. PICK node : node = [job.node EXCEPT !.size = n]
  OBVIOUS
<1>3. /\ pc = "fill" /\ n \notin DOMAIN job.data /\ inode' = [inode EXCEPT ![i] = node]
      /\ UNCHANGED <<bitmap, sector, cwd, magic, crashes>>
      /\ pc' = "idle" /\ job' = NoJob /\ done' = [bitmap |-> bitmap', sector |-> sector']
  BY <1>1, <1>2 DEF WriteInode, Return
<1>4. DTypes /\ UnderWay /\ magic /\ RootKept /\ SizesMatch /\ ShapeOK
  BY <1>3 DEF DiskOK, DiskKept, Unformatted, Formatting, AtWork
<1>5. n \in 0 .. DirectBlocks /\ job.node \in Inode /\ i \in Used /\ i \in Inodes /\ i # Root /\ ~inode[i].isDir
  <2>1. job.data \in Contents /\ n \in Nat /\ n <= Need
    BY <1>1, <1>3, <1>4 DEF DTypes, Jobs, UnderWay
  <2>2. Need \in 0 .. DirectBlocks
    BY <2>1, DataIs DEF Need
  <2>3. i \in Used /\ i # Root /\ ~inode[i].isDir
    BY <1>1, <1>3, <1>4 DEF UnderWay
  <2> QED BY <1>4, <2>1, <2>2, <2>3, SizesAssumption DEF DTypes, Jobs, Used
<1>6. /\ node \in Inode /\ node.size = n /\ node.used = job.node.used /\ node.isDir = job.node.isDir
      /\ node.parent = job.node.parent /\ node.name = job.node.name /\ node.blocks = job.node.blocks
  BY <1>2, <1>5 DEF Inode
<1>7. /\ inode' \in [Inodes -> Inode] /\ inode'[i] = node
      /\ \A j \in Inodes : j # i => inode'[j] = inode[j]
  BY <1>3, <1>4, <1>5, <1>6 DEF DTypes
<1>8. /\ node.used /\ inode[i].used /\ ~node.isDir /\ node.isDir = inode[i].isDir
      /\ node.parent = inode[i].parent /\ node.name = inode[i].name
      /\ \A s \in Slot : node.blocks[s] # NoBlock <=> s < n
  BY <1>1, <1>3, <1>4, <1>5, <1>6 DEF UnderWay, Filled, Used
<1>9. RootKept'
  BY <1>4, <1>5, <1>7, Constants DEF RootKept
<1>10. SizesMatch'
  BY <1>4, <1>6, <1>7, <1>8 DEF SizesMatch
<1>11. ShapeOK'
  <2>1. \A j \in Inodes : /\ (inode'[j].used <=> inode[j].used) /\ inode'[j].isDir = inode[j].isDir
                           /\ inode'[j].parent = inode[j].parent /\ inode'[j].name = inode[j].name
    BY <1>7, <1>8
  <2>2. Bare' = Bare
    <3>1. Used' = Used
      BY <2>1 DEF Used
    <3> QED BY <2>1, <3>1 DEF Bare, Used, Tree!Nothing
  <2> QED BY <1>3, <1>4, <2>2, StillShape
<1>12. DTypes'
  BY <1>3, <1>4, <1>7, NoJobIsJob, DoneTypes DEF DTypes, Steps
<1>13. ~Unformatted' /\ pc' \notin AtWork
  BY <1>3 DEF Unformatted, Formatting, AtWork
<1> QED BY <1>3, <1>4, <1>9, <1>10, <1>11, <1>12, <1>13 DEF DiskOK, DiskKept

LEMMA EraseKeeps ==
  ASSUME DiskOK, EraseInode
  PROVE  DiskOK'
<1>1. PICK i : i = job.idx
  OBVIOUS
<1>2. /\ pc = "erase" /\ inode' = [inode EXCEPT ![i] = EmptyInode]
      /\ UNCHANGED <<bitmap, sector, cwd, magic, crashes>>
      /\ pc' = "idle" /\ job' = NoJob /\ done' = [bitmap |-> bitmap', sector |-> sector']
  BY <1>1 DEF EraseInode, Return
<1>3. DTypes /\ UnderWay /\ magic /\ RootKept /\ SizesMatch /\ ShapeOK
  BY <1>2 DEF DiskOK, DiskKept, Unformatted, Formatting, AtWork
<1>4. /\ i \in Used /\ i \in Inodes /\ i # Root /\ inode[i].parent = cwd /\ inode[i].name \in Names
      /\ Children(i) = {}
  BY <1>1, <1>2, <1>3 DEF UnderWay, Used
<1>5. ShapeOK'
  BY <1>2, <1>3, <1>4, EraseKeepsShape DEF DTypes
<1>6. /\ inode' \in [Inodes -> Inode] /\ inode'[i] = EmptyInode
      /\ \A j \in Inodes : j # i => inode'[j] = inode[j]
  BY <1>2, <1>3, <1>4, Constants DEF DTypes
<1>7. RootKept'
  BY <1>3, <1>4, <1>6, Constants DEF RootKept
<1>8. SizesMatch'
  <2>1. EmptyInode.size = 0 /\ EmptyInode.blocks = NoBlocks /\ ~EmptyInode.isDir
    BY DEF EmptyInode
  <2> QED BY <1>3, <1>6, <2>1, Constants, SizesAssumption DEF SizesMatch, NoBlocks, Slot
<1>9. DTypes'
  BY <1>2, <1>3, <1>6, NoJobIsJob, DoneTypes DEF DTypes, Steps
<1>10. ~Unformatted' /\ pc' \notin AtWork
  BY <1>2 DEF Unformatted, Formatting, AtWork
<1> QED BY <1>2, <1>3, <1>5, <1>7, <1>8, <1>9, <1>10 DEF DiskOK, DiskKept

LEMMA CrashKeeps ==
  ASSUME DiskOK, Crash, pc \notin Formatting
  PROVE  DiskOK'
<1>1. /\ pc # "off" /\ pc' = "off" /\ cwd' = Root /\ job' = NoJob /\ crashes' = crashes + 1
      /\ UNCHANGED <<inode, bitmap, sector, magic, done>>
  BY DEF Crash, diskVars
<1>2. DTypes /\ magic /\ RootKept /\ SizesMatch /\ ShapeOK
  BY <1>1 DEF DiskOK, DiskKept, Unformatted
<1>3. DTypes'
  <2>1. Root \in Inodes /\ "off" \in Steps /\ crashes + 1 \in Nat
    <3>1. crashes \in Nat
      BY <1>2 DEF DTypes
    <3> QED BY <3>1, Constants DEF Steps
  <2> QED BY <1>1, <1>2, <2>1, NoJobIsJob DEF DTypes
<1>4. ShapeOK' /\ RootKept' /\ SizesMatch'
  BY <1>1, <1>2, GoKeepsShape DEF RootKept, SizesMatch
<1>5. ~Unformatted' /\ pc' \notin AtWork
  BY <1>1, <1>2 DEF Unformatted, Formatting, AtWork
<1> QED BY <1>1, <1>2, <1>3, <1>4, <1>5 DEF DiskOK, DiskKept

LEMMA StillKeeps ==
  ASSUME DiskOK, UNCHANGED dvars
  PROVE  DiskOK'
<1>1. UNCHANGED <<inode, bitmap, sector, cwd, magic, pc, job, crashes, done>>
  BY DEF dvars
<1>2. DTypes' /\ Unformatted' = Unformatted
  BY <1>1 DEF DiskOK, DTypes, Unformatted
<1>3. UnderWay => UnderWay'
  BY <1>1 DEF UnderWay, InMemory, Filled, Need, Used, Children
<1> QED BY <1>1, <1>2, <1>3, SameTable DEF DiskOK, DiskKept

LEMMA NextKeepsDisk ==
  ASSUME DiskOK, [DNext]_dvars, ~(Crash /\ pc \in Formatting)
  PROVE  DiskOK'
<1>1. ASSUME NEW name \in Names, Atomic(Create(name)) \/ Atomic(Mkdir(name))
      PROVE  DiskOK'
  <2>1. Atomic(AddEntry(name, FALSE)) \/ Atomic(AddEntry(name, TRUE))
    BY <1>1 DEF Atomic, Create, Mkdir
  <2> QED BY <2>1, AtomicKeeps
<1>2. ASSUME NEW name \in Names, Atomic(ChdirInto(name))
      PROVE  DiskOK'
  BY <1>2, ChdirKeeps
<1>3. ASSUME NEW name \in Names, CallRemove(name) \/ \E data \in Contents : CallWrite(name, data)
      PROVE  DiskOK'
  BY <1>3, CallKeeps
<1>4. CASE BootFormatted \/ FormatSuperblock \/ FormatBitmap \/ FormatInodes \/ FormatRoot
  BY <1>4, BootKeeps, FormatKeeps, FormatRootKeeps
<1>5. CASE Atomic(ChdirRoot) \/ Atomic(ChdirUp)
  BY <1>5, ChdirKeeps
<1>6. CASE FreeBlock \/ AllocBlock \/ DiskFull \/ WriteData \/ WriteInode \/ EraseInode
  BY <1>6, FreeKeeps, AllocKeeps, FullKeeps, DataKeeps, InodeKeeps, EraseKeeps
<1>7. CASE Crash
  BY <1>7, CrashKeeps
<1>8. CASE UNCHANGED dvars
  BY <1>8, StillKeeps
<1> QED BY <1>1, <1>2, <1>3, <1>4, <1>5, <1>6, <1>7, <1>8 DEF DNext

LEMMA InitDisk == DInit => DiskInv /\ DiskOK /\ crashes = 0
<1> SUFFICES ASSUME DInit  PROVE DiskInv /\ DiskOK /\ crashes = 0
  OBVIOUS
<1>1. inode = BlankTable /\ cwd = Root /\ pc = "off" /\ magic = FALSE /\ crashes = 0 /\ bitmap = {}
      /\ sector \in [Block -> Payload] /\ job = NoJob /\ done = [bitmap |-> bitmap, sector |-> sector]
  BY DEF DInit
<1>2. BlankTable \in [Inodes -> Inode]
  BY Constants DEF BlankTable
<1>3. done \in Snapshots
  BY <1>1 DEF Snapshots
<1>4. DTypes
  BY <1>1, <1>2, <1>3, NoJobIsJob, Constants DEF DTypes, Steps
<1>5. DiskKept
  BY <1>1 DEF DiskKept, Unformatted, Formatting
<1> QED BY <1>1, <1>4, <1>5 DEF DiskInv, DiskOK

(* A machine never stops often enough to have stopped never. *)
LEMMA CrashesGrow ==
  ASSUME crashes \in Nat, [DNext]_dvars
  PROVE  crashes' \in Nat /\ (Crash => crashes' # 0) /\ (~Crash => crashes' = crashes)
<1>1. CASE Crash
  BY <1>1 DEF Crash
<1>2. CASE ~Crash
  BY <1>2 DEF DNext, dvars, Atomic, BootFormatted, FormatSuperblock, FormatBitmap, FormatInodes, FormatRoot,
    CallRemove, CallWrite, Call, FreeBlock, AllocBlock, DiskFull, WriteData, WriteInode, EraseInode
<1> QED BY <1>1, <1>2

LEMMA DiskInvNext == DiskInv /\ [DNext]_dvars => DiskInv'
<1> SUFFICES ASSUME DiskInv, [DNext]_dvars  PROVE DiskInv'
  OBVIOUS
<1>1. crashes \in Nat /\ crashes' \in Nat /\ (Crash => crashes' # 0) /\ (~Crash => crashes' = crashes)
  BY CrashesGrow DEF DiskInv
<1>2. ASSUME crashes' = 0 \/ ~CrashInFormat  PROVE DiskOK'
  <2>1. DiskOK
    BY <1>1, <1>2 DEF DiskInv, Crash
  <2>2. ~(Crash /\ pc \in Formatting)
    BY <1>1, <1>2 DEF Crash
  <2> QED BY <2>1, <2>2, NextKeepsDisk
<1> QED BY <1>1, <1>2 DEF DiskInv

LEMMA DiskInvAlways == DSpec => []DiskInv
BY InitDisk, DiskInvNext, PTL DEF DSpec

(* However often the machine stops between two sector writes of whatever is   *)
(* written and removed: what fs::init finds is a tree, and every inode names   *)
(* as many blocks as its size says.  Only a crash while the disk is formatted  *)
(* is left out, which leaves no file system.                                  *)
THEOREM TreeSurvivesTheorem ==
  ASSUME ~CrashInFormat
  PROVE  DSpec => []TreeSurvives
<1>1. DiskInv => TreeSurvives
  BY ShapeIsTree DEF DiskInv, DiskOK, DiskKept, TreeSurvives, Running, Unformatted, ShapeOK
<1> QED BY <1>1, DiskInvAlways, PTL

-------------------------------------------------------------------------------
(* Without crashes: the writes amount to the operations of FileSystem. *)

(* What FileSystemProofs shows, of the disk as the last operation left it. *)
WholeFacts == INSTANCE FileSystemProofs WITH
  inode <- IF inode[Root].used THEN inode ELSE FormattedTable,
  bitmap <- done.bitmap,
  sector <- done.sector

LEMMA SameConstants ==
  /\ Whole!Inodes = Inodes /\ Whole!Root = Root /\ Whole!Slot = Slot /\ Whole!Block = Block
  /\ Whole!NoBlock = NoBlock /\ Whole!NoBlocks = NoBlocks /\ Whole!Inode = Inode
  /\ Whole!EmptyInode = EmptyInode /\ Whole!RootInode = RootInode /\ Whole!Contents = Contents
  /\ WholeFacts!Inodes = Inodes /\ WholeFacts!Root = Root /\ WholeFacts!Slot = Slot /\ WholeFacts!Block = Block
  /\ WholeFacts!NoBlock = NoBlock /\ WholeFacts!NoBlocks = NoBlocks /\ WholeFacts!Inode = Inode
  /\ WholeFacts!EmptyInode = EmptyInode /\ WholeFacts!RootInode = RootInode /\ WholeFacts!Contents = Contents
<1>1. /\ Whole!Inodes = Inodes /\ Whole!Root = Root /\ Whole!Slot = Slot /\ Whole!Block = Block
      /\ Whole!NoBlock = NoBlock /\ Whole!NoBlocks = NoBlocks
      /\ WholeFacts!Inodes = Inodes /\ WholeFacts!Root = Root /\ WholeFacts!Slot = Slot /\ WholeFacts!Block = Block
      /\ WholeFacts!NoBlock = NoBlock /\ WholeFacts!NoBlocks = NoBlocks
  BY DEF Whole!Inodes, Inodes, Whole!Root, Root, Whole!Slot, Slot, Whole!Block, Block, Whole!NoBlock, NoBlock,
    Whole!NoBlocks, NoBlocks, WholeFacts!Inodes, WholeFacts!Root, WholeFacts!Slot, WholeFacts!Block,
    WholeFacts!NoBlock, WholeFacts!NoBlocks
<1>2. Whole!Inode = Inode /\ Whole!EmptyInode = EmptyInode /\ Whole!RootInode = RootInode
  BY <1>1 DEF Whole!Inode, Inode, Whole!EmptyInode, EmptyInode, Whole!RootInode, RootInode
<1>3. WholeFacts!Inode = Inode /\ WholeFacts!EmptyInode = EmptyInode /\ WholeFacts!RootInode = RootInode
  BY <1>1 DEF WholeFacts!Inode, Inode, WholeFacts!EmptyInode, EmptyInode, WholeFacts!RootInode, RootInode
<1>4. Whole!Contents = Contents /\ WholeFacts!Contents = Contents
  BY DEF Whole!Contents, Contents, WholeFacts!Contents
<1> QED BY <1>1, <1>2, <1>3, <1>4

LEMMA SameCounting ==
  /\ \A S : Whole!Cardinality(S) = Cardinality(S) /\ WholeFacts!Cardinality(S) = Cardinality(S)
  /\ \A f : Whole!Range(f) = Range(f) /\ WholeFacts!Range(f) = Range(f)
  /\ \A S : Whole!Least(S) = Least(S) /\ WholeFacts!Least(S) = Least(S)
  /\ \A S, n : Whole!FirstFit(S, n) = FirstFit(S, n) /\ WholeFacts!FirstFit(S, n) = FirstFit(S, n)
<1>1. \A S : Whole!Cardinality(S) = Cardinality(S) /\ WholeFacts!Cardinality(S) = Cardinality(S)
  BY DEF Cardinality, Whole!Cardinality, WholeFacts!Cardinality
<1>2. \A f : Whole!Range(f) = Range(f) /\ WholeFacts!Range(f) = Range(f)
  BY DEF Range, Whole!Range, WholeFacts!Range
<1>3. \A S : Whole!Least(S) = Least(S) /\ WholeFacts!Least(S) = Least(S)
  BY DEF Least, Whole!Least, WholeFacts!Least
<1>4. \A S, n : Whole!FirstFit(S, n) = FirstFit(S, n) /\ WholeFacts!FirstFit(S, n) = FirstFit(S, n)
  BY DEF FirstFit, Whole!FirstFit, WholeFacts!FirstFit, Cardinality, Whole!Cardinality, WholeFacts!Cardinality
<1> QED BY <1>1, <1>2, <1>3, <1>4

LEMMA SameWholeInv == Whole!Inv <=> WholeFacts!Inv
<1>1. \A i : Whole!BlocksOf(i) = WholeFacts!BlocksOf(i)
  BY SameConstants DEF Whole!BlocksOf, WholeFacts!BlocksOf
<1>2. Whole!TypeOK <=> WholeFacts!TypeOK
  BY SameConstants DEF Whole!TypeOK, WholeFacts!TypeOK
<1>3. Whole!BlocksOK <=> WholeFacts!BlocksOK
  BY <1>1, SameConstants DEF Whole!BlocksOK, WholeFacts!BlocksOK, Whole!SizesMatch, WholeFacts!SizesMatch,
    Whole!NotShared, WholeFacts!NotShared, Whole!BitmapExact, WholeFacts!BitmapExact
<1>4. Whole!RootKept <=> WholeFacts!RootKept
  BY SameConstants DEF Whole!RootKept, WholeFacts!RootKept
<1> QED BY <1>2, <1>3, <1>4 DEF Whole!Inv, WholeFacts!Inv

LEMMA SameWholeNext == [Whole!Next]_(Whole!vars) <=> [WholeFacts!Next]_(WholeFacts!vars)
<1>1. /\ \A i : Whole!BlocksOf(i) = WholeFacts!BlocksOf(i)
      /\ \A d : Whole!Children(d) = WholeFacts!Children(d)
      /\ \A name : Whole!Matches(name) = WholeFacts!Matches(name)
      /\ Whole!Used = WholeFacts!Used
  BY SameConstants DEF Whole!BlocksOf, WholeFacts!BlocksOf, Whole!Children, WholeFacts!Children,
    Whole!Matches, WholeFacts!Matches, Whole!Used, WholeFacts!Used
<1>2. /\ \A name : Whole!Find(name) = WholeFacts!Find(name)
      /\ Whole!FreeInode = WholeFacts!FreeInode
  BY <1>1, SameConstants, SameCounting DEF Whole!Find, WholeFacts!Find, Whole!FreeInode, WholeFacts!FreeInode
<1>3. \A name, data : Whole!Write(name, data) <=> WholeFacts!Write(name, data)
  BY DEF Whole!Write, Whole!Find, Whole!Matches, Whole!Children, Whole!Used, Whole!Least, Whole!Inodes,
    Whole!BlocksOf, Whole!Slot, Whole!Block, Whole!NoBlock, Whole!FirstFit, Whole!Cardinality, Whole!Range,
    WholeFacts!Write, WholeFacts!Find, WholeFacts!Matches, WholeFacts!Children, WholeFacts!Used,
    WholeFacts!Least, WholeFacts!Inodes, WholeFacts!BlocksOf, WholeFacts!Slot, WholeFacts!Block,
    WholeFacts!NoBlock, WholeFacts!FirstFit, WholeFacts!Cardinality, WholeFacts!Range
<1>4. \A name : Whole!Remove(name) <=> WholeFacts!Remove(name)
  BY <1>1, <1>2, SameConstants DEF Whole!Remove, WholeFacts!Remove
<1>5. \A name, isDir : Whole!AddEntry(name, isDir) <=> WholeFacts!AddEntry(name, isDir)
  BY <1>1, <1>2, SameConstants DEF Whole!AddEntry, WholeFacts!AddEntry
<1>6. \A name : Whole!ChdirInto(name) <=> WholeFacts!ChdirInto(name)
  BY <1>1, <1>2 DEF Whole!ChdirInto, WholeFacts!ChdirInto
<1> QED BY <1>3, <1>4, <1>5, <1>6, SameConstants DEF Whole!Next, WholeFacts!Next, Whole!Create, WholeFacts!Create,
  Whole!Mkdir, WholeFacts!Mkdir, Whole!ChdirRoot, WholeFacts!ChdirRoot, Whole!ChdirUp, WholeFacts!ChdirUp,
  Whole!Boot, WholeFacts!Boot, Whole!vars, WholeFacts!vars

LEMMA WholeStep == Whole!Inv /\ [Whole!Next]_(Whole!vars) => Whole!Inv'
<1>1. Whole!Inv' <=> WholeFacts!Inv'
  BY SameWholeInv, PTL
<1>2. WholeFacts!Inv /\ [WholeFacts!Next]_(WholeFacts!vars) => WholeFacts!Inv'
  BY SizesAssumption, NamesAssumption, WholeFacts!NextInv
<1> QED BY <1>1, <1>2, SameWholeInv, SameWholeNext

(* What FileSystem looks up in the disk as the last operation left it. *)
LEMMA WholeLookups ==
  ASSUME inode[Root].used
  PROVE  /\ (IF inode[Root].used THEN inode ELSE FormattedTable) = inode
         /\ Whole!Used = Used
         /\ \A i : Whole!BlocksOf(i) = BlocksOf(i)
         /\ \A d : Whole!Children(d) = Children(d)
         /\ \A name : Whole!Matches(name) = Matches(name)
         /\ \A name : Whole!Find(name) = Find(name)
<1>1. /\ (IF inode[Root].used THEN inode ELSE FormattedTable) = inode
      /\ Whole!Used = Used
      /\ \A i : Whole!BlocksOf(i) = BlocksOf(i)
  BY SameConstants DEF Whole!Used, Used, Whole!BlocksOf, BlocksOf
<1>2. \A d : Whole!Children(d) = Children(d)
  BY <1>1 DEF Whole!Children, Children
<1>3. \A name : Whole!Matches(name) = Matches(name)
  BY <1>1, <1>2 DEF Whole!Matches, Matches
<1>4. \A name : Whole!Find(name) = Find(name)
  BY <1>3, SameCounting DEF Whole!Find, Find
<1> QED BY <1>1, <1>2, <1>3, <1>4

(* The blocks of different inodes differ, and the bitmap then marked them. *)
LEMMA WholeInvIs ==
  ASSUME inode[Root].used
  PROVE  Whole!Inv <=> /\ inode \in [Inodes -> Inode] /\ done.bitmap \in SUBSET Block
                       /\ done.sector \in [Block -> Payload] /\ cwd \in Inodes
                       /\ RootKept /\ SizesMatch /\ NotShared
                       /\ done.bitmap = UNION {BlocksOf(i) : i \in Inodes}
<1>1. Whole!TypeOK <=> /\ inode \in [Inodes -> Inode] /\ done.bitmap \in SUBSET Block
                       /\ done.sector \in [Block -> Payload] /\ cwd \in Inodes
  BY SameConstants, WholeLookups DEF Whole!TypeOK
<1>2. Whole!RootKept <=> RootKept
  BY SameConstants, WholeLookups DEF Whole!RootKept, RootKept
<1>3. (Whole!SizesMatch <=> SizesMatch) /\ (Whole!NotShared <=> NotShared)
  BY SameConstants, WholeLookups DEF Whole!SizesMatch, SizesMatch, Whole!NotShared, NotShared
<1>4. Whole!BitmapExact <=> done.bitmap = UNION {BlocksOf(i) : i \in Inodes}
  BY SameConstants, WholeLookups DEF Whole!BitmapExact
<1> QED BY <1>1, <1>2, <1>3, <1>4 DEF Whole!Inv, Whole!BlocksOK

LEMMA RoomForWork ==
  ASSUME inode[Root].used, Whole!Inv, NEW i \in Inodes, i # Root
  PROVE  DirectBlocks <= Cardinality(Block \ (done.bitmap \ BlocksOf(i)))
<1>1. DirectBlocks <= WholeFacts!Cardinality(WholeFacts!Block \ (done.bitmap \ WholeFacts!BlocksOf(i)))
  BY SizesAssumption, NamesAssumption, SameConstants, SameWholeInv, WholeFacts!RoomForOne
<1>2. WholeFacts!BlocksOf(i) = BlocksOf(i)
  BY SameConstants DEF WholeFacts!BlocksOf, BlocksOf
<1> QED BY <1>1, <1>2, SameConstants, SameCounting

-------------------------------------------------------------------------------
(* Allocating block after block. *)

(* The least block that is left is the one first fit has for the next call. *)
LEMMA LeastIsNext ==
  ASSUME NEW F \in SUBSET Nat, IsFiniteSet(F), NEW n \in 0 .. Cardinality(F), NEW k \in 0 .. n - 1
  PROVE  /\ F \ {FirstFit(F, n)[j] : j \in 0 .. k - 1} # {}
         /\ Least(F \ {FirstFit(F, n)[j] : j \in 0 .. k - 1}) = FirstFit(F, n)[k]
<1> DEFINE Below(b) == {c \in F : c < b}
           Rank(b) == Cardinality(Below(b))
           p(j) == FirstFit(F, n)[j]
           Left == F \ {p(j) : j \in 0 .. k - 1}
<1>1. Cardinality(F) \in Nat
  BY FS_CardinalityType
<1>2. \A j \in 0 .. n - 1 : p(j) \in F /\ Rank(p(j)) = j
  <2> TAKE j \in 0 .. n - 1
  <2>1. j \in 0 .. Cardinality(F) - 1
    BY <1>1
  <2>2. \E b \in F : Cardinality({c \in F : c < b}) = j
    BY <2>1, EveryRankIsTaken
  <2> QED BY <2>2 DEF FirstFit
<1>3. \A b, c \in F : b < c => Rank(b) < Rank(c)
  <2> SUFFICES ASSUME NEW b \in F, NEW c \in F, b < c  PROVE Rank(b) < Rank(c)
    OBVIOUS
  <2>1. Below(b) \in SUBSET Below(c) /\ Below(b) # Below(c) /\ IsFiniteSet(Below(c))
    <3>1. b \in Nat /\ c \in Nat /\ \A d \in F : d \in Nat
      OBVIOUS
    <3>2. b \in Below(c) /\ b \notin Below(b) /\ Below(b) \in SUBSET Below(c)
      <4>1. ~(b < b) /\ \A d \in F : d < b => d < c
        BY <3>1
      <4> QED BY <4>1
    <3>3. IsFiniteSet(Below(c))
      BY FS_Subset, Below(c) \in SUBSET F
    <3> QED BY <3>2, <3>3
  <2> QED BY <2>1, FS_Subset, FS_CardinalityType
<1>4. \A b \in F : Rank(b) \in Nat
  <2> TAKE b \in F
  <2>1. IsFiniteSet(Below(b))
    BY FS_Subset, Below(b) \in SUBSET F
  <2> QED BY <2>1, FS_CardinalityType
<1> HIDE DEF Rank, p
<1>5. \A b, c \in F : Rank(b) = Rank(c) => b = c
  BY <1>3, <1>4
<1>6. p(k) \in Left
  BY <1>2
<1>7. \A c \in Left : p(k) <= c
  <2> SUFFICES ASSUME NEW c \in Left, ~(p(k) <= c)  PROVE FALSE
    OBVIOUS
  <2>1. c \in F /\ c < p(k) /\ p(k) \in F /\ Rank(p(k)) = k
    <3>1. c \in F /\ p(k) \in F /\ Rank(p(k)) = k
      BY <1>2
    <3>2. c \in Nat /\ p(k) \in Nat
      BY <3>1
    <3> QED BY <3>1, <3>2
  <2>2. Rank(c) < k /\ Rank(c) \in Nat
    BY <1>3, <1>4, <2>1
  <2>3. Rank(c) \in 0 .. k - 1 /\ Rank(c) \in 0 .. n - 1
    BY <2>2
  <2>4. p(Rank(c)) = c
    BY <1>2, <1>5, <2>1, <2>3
  <2> QED BY <2>3, <2>4
<1>8. Least(Left) \in Left /\ \A c \in Left : Least(Left) <= c
  <2> HIDE DEF Left
  <2>1. Left \in SUBSET Nat /\ Left # {}
    BY <1>6 DEF Left
  <2> QED BY <2>1, LeastIsLeast
<1>9. Least(Left) = p(k)
  <2>1. Least(Left) \in Nat /\ p(k) \in Nat
    BY <1>6, <1>8
  <2> QED BY <1>6, <1>7, <1>8, <2>1
<1> QED BY <1>6, <1>9 DEF p

-------------------------------------------------------------------------------
(* How far the disk is with the operation under way. *)

Kept == done.bitmap \ BlocksOf(job.idx)
Free == Block \ Kept
Lba == FirstFit(Free, Need)
Taken(n) == {Lba[k] : k \in 0 .. n - 1}

(* The blocks not yet freed are marked. *)
Freed ==
  /\ bitmap = Kept \cup {job.node.blocks[s] : s \in InMemory}
  /\ \A s \in Slot : job.node.blocks[s] \in {NoBlock, inode[job.idx].blocks[s]}
  /\ sector = done.sector

(* The first n blocks are allocated and the first m of them written. *)
Laid(n, m) ==
  /\ bitmap = Kept \cup Taken(n)
  /\ \A k \in 0 .. n - 1 : job.node.blocks[k] = Lba[k]
  /\ \A k \in 0 .. m - 1 : sector[Lba[k]] = job.data[k]
  /\ \A b \in Block \ Taken(n) : sector[b] = done.sector[b]

InStep ==
  /\ pc \notin AtWork => bitmap = done.bitmap /\ sector = done.sector
  /\ Unformatted => done.bitmap = {}
  /\ pc = "free" => Freed
  /\ pc = "fill" => Laid(job.next, job.next)
  /\ pc = "data" => Laid(job.next + 1, job.next)
  /\ pc = "erase" => bitmap = Kept /\ sector = done.sector

StepOK == DiskOK /\ InStep /\ Whole!Inv

LEMMA RootUsed == DiskOK => (inode[Root].used <=> ~Unformatted)
<1> SUFFICES ASSUME DiskOK  PROVE inode[Root].used <=> ~Unformatted
  OBVIOUS
<1>1. CASE Unformatted
  <2>1. inode = BlankTable
    BY <1>1 DEF DiskOK, DiskKept
  <2>2. inode[Root] = EmptyInode
    BY <2>1, Constants DEF BlankTable
  <2>3. ~EmptyInode.used
    BY DEF EmptyInode
  <2> QED BY <1>1, <2>2, <2>3
<1>2. CASE ~Unformatted
  BY <1>2 DEF DiskOK, DiskKept, RootKept, RootInode
<1> QED BY <1>1, <1>2

LEMMA RootUsedNext == DiskOK' => (inode[Root].used <=> ~Unformatted)'
BY RootUsed, PTL

(* What the proofs below need of a write or remove under way. *)
LEMMA AtWorkHas ==
  ASSUME StepOK, pc \in AtWork
  PROVE  /\ DTypes /\ UnderWay /\ inode[Root].used /\ job.idx \in Inodes /\ job.idx # Root
         /\ SizesMatch /\ NotShared /\ ShapeOK /\ RootKept
         /\ done.bitmap = UNION {BlocksOf(i) : i \in Inodes} /\ done.bitmap \in SUBSET Block
<1>1. ~Unformatted
  BY DEF AtWork, Unformatted, Formatting
<1>2. inode[Root].used
  BY <1>1, RootUsed DEF StepOK
<1> QED BY <1>1, <1>2, WholeInvIs DEF StepOK, DiskOK, DiskKept, UnderWay, Used

(* First fit has room for the data of a write and spares what other files name. *)
LEMMA LbaIs ==
  ASSUME StepOK, pc \in AtWork
  PROVE  /\ Free \in SUBSET Nat /\ Free \in SUBSET Block /\ IsFiniteSet(Free)
         /\ Need \in 0 .. DirectBlocks /\ Need \in 0 .. Cardinality(Free) /\ Cardinality(Free) \in Nat
         /\ job.data \in [0 .. Need - 1 -> Payload]
         /\ Lba \in [0 .. Need - 1 -> Free]
         /\ \A j, k \in 0 .. Need - 1 : Lba[j] = Lba[k] => j = k
<1>1. /\ Free \in SUBSET Nat /\ Free \in SUBSET Block /\ IsFiniteSet(Free) /\ Cardinality(Free) \in Nat
  BY Constants, FS_Subset, FS_CardinalityType DEF Free
<1>2. job.data \in Contents
  BY AtWorkHas DEF DTypes, Jobs
<1>3. Need \in 0 .. DirectBlocks /\ job.data \in [0 .. Need - 1 -> Payload]
  BY <1>2, DataIs DEF Need
<1>4. DirectBlocks <= Cardinality(Free)
  BY AtWorkHas, RoomForWork DEF Free, Kept, StepOK
<1>5. Need \in 0 .. Cardinality(Free)
  BY <1>1, <1>3, <1>4, SizesAssumption
<1>6. /\ Lba \in [0 .. Need - 1 -> Free]
      /\ \A j, k \in 0 .. Need - 1 : Lba[j] = Lba[k] => j = k
  BY <1>1, <1>5, FirstFitIsSound DEF Lba
<1> QED BY <1>1, <1>3, <1>5, <1>6

(* Steps that FileSystem does not see. *)
LEMMA Hidden ==
  ASSUME UNCHANGED <<inode, cwd, done>>
  PROVE  UNCHANGED Whole!vars
BY DEF Whole!vars

LEMMA FormatInStep ==
  ASSUME StepOK, DiskOK', FormatSuperblock \/ FormatBitmap \/ FormatInodes \/ FormatRoot
  PROVE  UNCHANGED Whole!vars /\ InStep'
<1>1. /\ Unformatted /\ pc \notin AtWork /\ pc' \notin AtWork /\ DTypes
      /\ UNCHANGED sector /\ inode = BlankTable /\ cwd = Root /\ bitmap = done.bitmap /\ sector = done.sector
      /\ done.bitmap = {}
  BY DEF StepOK, InStep, DiskOK, DiskKept, FormatSuperblock, FormatBitmap, FormatInodes, FormatRoot,
    Unformatted, Formatting, AtWork
<1>2. ~inode[Root].used
  BY <1>1, RootUsed DEF StepOK
<1>3. CASE FormatRoot
  <2>1. /\ inode' = FormattedTable /\ cwd' = cwd /\ UNCHANGED <<bitmap, sector>> /\ pc' = "idle"
        /\ done' = [bitmap |-> bitmap, sector |-> sector]
    BY <1>1, <1>3 DEF FormatRoot, FormattedTable
  <2>2. inode'[Root].used
    BY <2>1, <1>1, RootUsedNext DEF Unformatted, Formatting
  <2>3. done'.bitmap = done.bitmap /\ done'.sector = done.sector
    BY <1>1, <2>1
  <2>4. UNCHANGED Whole!vars
    BY <1>2, <2>1, <2>2, <2>3 DEF Whole!vars
  <2>5. InStep'
    BY <1>1, <2>1, <2>3 DEF InStep, Unformatted, Formatting, AtWork
  <2> QED BY <2>4, <2>5
<1>4. CASE FormatSuperblock \/ FormatBitmap \/ FormatInodes
  <2>1. UNCHANGED <<sector, cwd, done>> /\ pc' \in Formatting /\ bitmap' = {}
    BY <1>1, <1>4 DEF FormatSuperblock, FormatBitmap, FormatInodes, Formatting
  <2>2. ~inode'[Root].used
    BY <2>1, RootUsedNext DEF Unformatted
  <2>3. UNCHANGED Whole!vars
    BY <1>2, <2>1, <2>2 DEF Whole!vars
  <2>4. InStep'
    BY <1>1, <2>1 DEF InStep, Unformatted, Formatting, AtWork
  <2> QED BY <2>3, <2>4
<1> QED BY <1>3, <1>4

(* Steps while nothing is under way. *)
LEMMA IdleInStep ==
  ASSUME StepOK, DiskOK', ~Unformatted, UNCHANGED <<bitmap, sector, magic>>, pc \in {"off", "idle"}, pc' = "idle",
         done' = done
  PROVE  InStep'
<1>1. bitmap = done.bitmap /\ sector = done.sector
  BY DEF StepOK, InStep, AtWork
<1> QED BY <1>1 DEF InStep, Unformatted, Formatting, AtWork

LEMMA BootInStep ==
  ASSUME StepOK, DiskOK', BootFormatted
  PROVE  Whole!Boot /\ InStep'
<1>1. /\ pc = "off" /\ magic /\ pc' = "idle" /\ cwd' = Root /\ done' = [bitmap |-> bitmap, sector |-> sector]
      /\ UNCHANGED <<inode, bitmap, sector, magic>>
  BY DEF BootFormatted, diskVars
<1>2. ~Unformatted
  BY <1>1 DEF Unformatted, Formatting
<1>3. done.bitmap = bitmap /\ done.sector = sector
  BY <1>1 DEF StepOK, InStep, AtWork
<1>4. done' = done
  <2>1. done \in Snapshots
    BY DEF StepOK, DiskOK, DTypes
  <2> QED BY <1>1, <1>3, <2>1 DEF Snapshots
<1>5. Whole!Boot
  BY <1>1, <1>4, SameConstants DEF Whole!Boot
<1> QED BY <1>1, <1>2, <1>4, <1>5, IdleInStep

LEMMA AtomicInStep ==
  ASSUME StepOK, DiskOK', NEW name \in Names,
         \/ Atomic(Create(name))
         \/ Atomic(Mkdir(name))
         \/ Atomic(ChdirInto(name))
         \/ Atomic(ChdirRoot)
         \/ Atomic(ChdirUp)
  PROVE  Whole!Next /\ InStep'
<1>1. /\ pc = "idle" /\ pc' = "idle" /\ UNCHANGED <<bitmap, sector, magic, done>>
  BY DEF Atomic, Create, Mkdir, AddEntry, ChdirInto, ChdirRoot, ChdirUp
<1>2. inode[Root].used /\ inode'[Root].used /\ ~Unformatted
  <2>1. ~Unformatted /\ ~Unformatted'
    BY <1>1 DEF Unformatted, Formatting
  <2> QED BY <2>1, RootUsed, RootUsedNext DEF StepOK
<1>3. /\ (IF inode[Root].used THEN inode ELSE FormattedTable) = inode
      /\ (IF inode[Root].used THEN inode ELSE FormattedTable)' = inode'
  BY <1>2
<1>4. \A isDir \in BOOLEAN : AddEntry(name, isDir) => Whole!AddEntry(name, isDir)
  <2>1. Whole!FreeInode = FreeInode
    BY <1>2, WholeLookups, SameConstants, SameCounting DEF Whole!FreeInode, FreeInode
  <2> QED BY <1>1, <1>2, <1>3, <2>1, WholeLookups, SameConstants DEF AddEntry, Whole!AddEntry
<1>5. CASE Atomic(Create(name)) \/ Atomic(Mkdir(name))
  <2>1. Whole!Create(name) \/ Whole!Mkdir(name)
    BY <1>4, <1>5 DEF Atomic, Create, Mkdir, Whole!Create, Whole!Mkdir
  <2> QED BY <1>1, <1>2, <2>1, IdleInStep DEF Whole!Next
<1>6. CASE Atomic(ChdirInto(name))
  <2>1. Whole!ChdirInto(name)
    BY <1>1, <1>2, <1>3, <1>6, WholeLookups DEF Atomic, ChdirInto, Whole!ChdirInto
  <2> QED BY <1>1, <1>2, <2>1, IdleInStep DEF Whole!Next
<1>7. CASE Atomic(ChdirRoot) \/ Atomic(ChdirUp)
  <2>1. Whole!ChdirRoot \/ Whole!ChdirUp
    BY <1>1, <1>3, <1>7, SameConstants DEF Atomic, ChdirRoot, ChdirUp, Whole!ChdirRoot, Whole!ChdirUp
  <2> QED BY <1>1, <1>2, <2>1, IdleInStep DEF Whole!Next
<1> QED BY <1>5, <1>6, <1>7

LEMMA CallInStep ==
  ASSUME StepOK, DiskOK', NEW name \in Names,
         CallRemove(name) \/ \E data \in Contents : CallWrite(name, data)
  PROVE  UNCHANGED Whole!vars /\ InStep'
<1>1. PICK op, i, data : op \in {"write", "remove"} /\ Matches(name) # {} /\ i = Find(name) /\ Call(op, i, data)
  BY DEF CallRemove, CallWrite
<1>2. /\ pc = "idle" /\ UNCHANGED <<inode, bitmap, sector, magic, cwd, done>>
      /\ job' = [op |-> op, idx |-> i, node |-> inode[i], data |-> data, next |-> 0]
      /\ pc' = IF BlocksOf(i) = {} THEN IF op = "write" THEN "fill" ELSE "erase" ELSE "free"
  BY <1>1 DEF Call, diskVars
<1>3. UNCHANGED Whole!vars
  BY <1>2, Hidden
<1>4. job'.idx = i /\ job'.node = inode[i] /\ job'.next = 0
  BY <1>2
<1>5. bitmap = done.bitmap /\ sector = done.sector /\ i \in Inodes /\ inode[Root].used
  <2>1. ~Unformatted
    BY <1>2 DEF Unformatted, Formatting
  <2> QED BY <1>1, <1>2, <2>1, FindFinds, RootUsed DEF StepOK, InStep, AtWork
<1>6. BlocksOf(i) \in SUBSET done.bitmap
  BY <1>5, WholeInvIs DEF StepOK
<1>7. BlocksOf(i)' = BlocksOf(i)
  BY <1>2 DEF BlocksOf
<1>8. Kept' = done.bitmap \ BlocksOf(i)
  BY <1>2, <1>4, <1>7 DEF Kept
<1>9. CASE pc' = "free"
  <2>1. {inode[i].blocks[s] : s \in InMemory'} = BlocksOf(i)
    BY <1>4 DEF InMemory, BlocksOf
  <2>2. bitmap' = Kept' \cup {job'.node.blocks[s] : s \in InMemory'}
    BY <1>2, <1>4, <1>5, <1>6, <1>8, <2>1
  <2>3. Freed'
    BY <1>2, <1>4, <1>5, <2>2 DEF Freed
  <2>4. ~Unformatted' /\ pc' \in AtWork
    BY <1>9 DEF Unformatted, Formatting, AtWork
  <2> QED BY <1>3, <1>9, <2>3, <2>4 DEF InStep
<1>10. CASE pc' # "free"
  <2>1. BlocksOf(i) = {} /\ pc' \in {"fill", "erase"}
    BY <1>2, <1>10
  <2>2. bitmap' = Kept' /\ sector' = done'.sector
    BY <1>2, <1>5, <1>8, <2>1
  <2>3. Laid(0, 0)'
    <3>1. \A k \in 0 .. 0 - 1 : FALSE
      OBVIOUS
    <3>2. Taken(0)' = {}
      BY <3>1 DEF Taken
    <3> QED BY <2>2, <3>1, <3>2 DEF Laid
  <2>4. pc' = "fill" => Laid(job.next, job.next)'
    BY <1>4, <2>3
  <2>5. ~Unformatted' /\ pc' \in AtWork
    BY <2>1 DEF Unformatted, Formatting, AtWork
  <2> QED BY <1>3, <2>1, <2>2, <2>4, <2>5 DEF InStep
<1> QED BY <1>3, <1>9, <1>10

(* The part of the disk that the next write does not change. *)
LEMMA SameOp ==
  ASSUME UNCHANGED <<inode, done>>, job'.idx = job.idx, job'.data = job.data
  PROVE  /\ Kept' = Kept /\ Free' = Free /\ Need' = Need /\ Lba' = Lba
         /\ \A n : Taken(n)' = Taken(n)
<1>1. BlocksOf(job.idx)' = BlocksOf(job.idx)
  BY DEF BlocksOf
<1>2. Kept' = Kept /\ Need' = Need
  BY <1>1 DEF Kept, Need
<1>3. Free' = Free
  BY <1>2 DEF Free
<1>4. Lba' = Lba
  BY <1>2, <1>3 DEF Lba
<1>5. \A n : Taken(n)' = Taken(n)
  BY <1>4 DEF Taken
<1> QED BY <1>2, <1>3, <1>4, <1>5

(* Two slots of one inode never name the same block. *)
LEMMA OwnBlocks ==
  ASSUME NotShared, NEW i \in Inodes, NEW s \in Slot, NEW t \in Slot, s # t,
         inode[i].blocks[s] = inode[i].blocks[t]
  PROVE  inode[i].blocks[s] = NoBlock
BY DEF NotShared

LEMMA FreeInStep ==
  ASSUME StepOK, FreeBlock
  PROVE  UNCHANGED Whole!vars /\ InStep'
<1>1. PICK s, i : s = Least(InMemory) /\ i = job.idx
  OBVIOUS
<1>2. /\ pc = "free" /\ bitmap' = bitmap \ {job.node.blocks[s]}
      /\ job' = [job EXCEPT !.node.blocks[s] = NoBlock]
      /\ pc' = IF InMemory # {s} THEN "free" ELSE IF job.op = "write" THEN "fill" ELSE "erase"
      /\ UNCHANGED <<inode, sector, cwd, magic, crashes, done>>
  BY <1>1 DEF FreeBlock
<1>3. /\ DTypes /\ UnderWay /\ i \in Inodes /\ NotShared
      /\ Freed /\ InMemory # {} /\ job.next = 0
  BY <1>1, <1>2, AtWorkHas DEF StepOK, InStep, AtWork, UnderWay
<1>4. s \in Slot /\ s \in InMemory
  <2>1. InMemory \in SUBSET Nat /\ InMemory # {} /\ InMemory \in SUBSET Slot
    BY <1>3, Constants DEF InMemory
  <2> QED BY <1>1, <2>1, LeastIsLeast
<1>5. /\ job'.idx = job.idx /\ job'.data = job.data /\ job'.next = job.next
      /\ job'.node.blocks[s] = NoBlock
      /\ \A t \in Slot : t # s => job'.node.blocks[t] = job.node.blocks[t]
  <2>1. job \in Jobs /\ NoBlock \in Block \cup {NoBlock} /\ job' = WithBlock(job, s, NoBlock)
    BY <1>2, <1>3 DEF DTypes, WithBlock
  <2> QED BY <2>1, <1>4, SetBlock
<1>6. InMemory' = InMemory \ {s}
  BY <1>4, <1>5 DEF InMemory
<1>7. UNCHANGED Whole!vars
  BY <1>2, Hidden
<1>8. Kept' = Kept
  BY <1>2, <1>5, SameOp
<1>9. \A t \in Slot : job'.node.blocks[t] \in {NoBlock, inode'[job'.idx].blocks[t]}
  BY <1>2, <1>3, <1>5 DEF Freed
<1>10. bitmap' = Kept \cup {job'.node.blocks[t] : t \in InMemory'}
  <2>1. PICK b : b = job.node.blocks[s]
    OBVIOUS
  <2>2. b # NoBlock /\ b = inode[i].blocks[s]
    BY <1>1, <1>3, <1>4, <2>1 DEF InMemory, Freed
  <2>3. b \notin Kept
    BY <1>1, <1>4, <2>2 DEF Kept, BlocksOf
  <2>4. \A t \in InMemory \ {s} : job'.node.blocks[t] = job.node.blocks[t] /\ job.node.blocks[t] # b
    <3> TAKE t \in InMemory \ {s}
    <3>1. t \in Slot /\ t # s /\ job.node.blocks[t] # NoBlock
      BY DEF InMemory
    <3>2. job.node.blocks[t] = inode[i].blocks[t]
      BY <1>1, <1>3, <3>1 DEF Freed
    <3>3. inode[i].blocks[t] # inode[i].blocks[s]
      BY <1>3, <1>4, <2>2, <3>1, OwnBlocks
    <3> QED BY <1>5, <2>2, <3>1, <3>2, <3>3
  <2>5. {job'.node.blocks[t] : t \in InMemory'} = {job.node.blocks[t] : t \in InMemory} \ {b}
    BY <1>4, <1>6, <2>1, <2>4
  <2> QED BY <1>2, <1>3, <2>1, <2>3, <2>5 DEF Freed
<1>11. sector' = done'.sector
  BY <1>2, <1>3 DEF Freed
<1>12. ~Unformatted' /\ pc' \in {"free", "fill", "erase"} /\ pc' \in AtWork
  BY <1>2 DEF Unformatted, Formatting, AtWork
<1>13. pc' = "free" => Freed'
  BY <1>8, <1>9, <1>10, <1>11 DEF Freed
<1>14. pc' # "free" => bitmap' = Kept'
  BY <1>2, <1>6, <1>8, <1>10
<1>15. pc' = "fill" => Laid(job.next, job.next)'
  <2> SUFFICES ASSUME pc' = "fill"  PROVE Laid(0, 0)'
    BY <1>3, <1>5
  <2>1. \A k \in 0 .. 0 - 1 : FALSE
    OBVIOUS
  <2>2. Taken(0)' = {}
    BY <2>1 DEF Taken
  <2> QED BY <1>11, <1>14, <2>1, <2>2 DEF Laid
<1> QED BY <1>7, <1>11, <1>12, <1>13, <1>14, <1>15 DEF InStep

LEMMA TakenOneMore ==
  ASSUME NEW n \in Nat
  PROVE  Taken(n + 1) = Taken(n) \cup {Lba[n]}
<1>1. 0 .. (n + 1) - 1 = (0 .. n - 1) \cup {n}
  OBVIOUS
<1> QED BY <1>1 DEF Taken

LEMMA AllocInStep ==
  ASSUME StepOK, AllocBlock
  PROVE  UNCHANGED Whole!vars /\ InStep'
<1>1. PICK b, n : b = Least(Block \ bitmap) /\ n = job.next
  OBVIOUS
<1>2. /\ pc = "fill" /\ n \in DOMAIN job.data /\ bitmap' = bitmap \cup {b}
      /\ job' = [job EXCEPT !.node.blocks[n] = b] /\ pc' = "data"
      /\ UNCHANGED <<inode, sector, cwd, magic, crashes, done>>
  BY <1>1 DEF AllocBlock
<1>3. DTypes /\ Laid(n, n)
  BY <1>1, <1>2, AtWorkHas DEF StepOK, InStep, AtWork
<1>4. /\ n \in 0 .. Need - 1 /\ n \in Nat /\ n \in Slot /\ Need \in 0 .. Cardinality(Free)
      /\ Free \in SUBSET Nat /\ Free \in SUBSET Block /\ IsFiniteSet(Free)
      /\ Lba \in [0 .. Need - 1 -> Free]
      /\ \A j, k \in 0 .. Need - 1 : Lba[j] = Lba[k] => j = k
  <2>1. pc \in AtWork
    BY <1>2 DEF AtWork
  <2>2. Need \in 0 .. DirectBlocks /\ job.data \in [0 .. Need - 1 -> Payload]
    BY <2>1, LbaIs
  <2>3. n \in 0 .. Need - 1
    BY <1>2, <2>2
  <2>4. n \in Nat /\ n \in Slot
    BY <2>2, <2>3, SizesAssumption DEF Slot
  <2> QED BY <2>1, <2>3, <2>4, LbaIs
<1>5. b = Lba[n]
  <2>1. Least(Free \ {Lba[j] : j \in 0 .. n - 1}) = Lba[n]
    BY <1>4, LeastIsNext DEF Lba
  <2>2. Block \ bitmap = Free \ {Lba[j] : j \in 0 .. n - 1}
    BY <1>3 DEF Laid, Taken, Free
  <2> QED BY <1>1, <2>1, <2>2
<1>6. b \in Block
  BY <1>4, <1>5
<1>7. /\ job'.idx = job.idx /\ job'.data = job.data /\ job'.next = n
      /\ job'.node.blocks[n] = b
      /\ \A t \in Slot : t # n => job'.node.blocks[t] = job.node.blocks[t]
  <2>1. job \in Jobs /\ b \in Block \cup {NoBlock} /\ job' = WithBlock(job, n, b)
    BY <1>2, <1>3, <1>6 DEF DTypes, WithBlock
  <2>2. n = job.next /\ n \in Slot
    BY <1>1, <1>4
  <2> QED BY <2>1, <2>2, SetBlock
<1>8. Kept' = Kept /\ Lba' = Lba /\ \A m : Taken(m)' = Taken(m)
  BY <1>2, <1>7, SameOp
<1>9. Taken(n + 1) = Taken(n) \cup {b}
  BY <1>4, <1>5, TakenOneMore
<1>10. Laid(n + 1, n)'
  <2>1. bitmap' = Kept' \cup Taken(n + 1)'
    BY <1>2, <1>3, <1>8, <1>9 DEF Laid
  <2>2. \A k \in 0 .. (n + 1) - 1 : job'.node.blocks[k] = Lba'[k]
    <3> TAKE k \in 0 .. (n + 1) - 1
    <3>1. k = n \/ (k \in 0 .. n - 1 /\ k \in Slot /\ k # n)
      BY <1>4, SizesAssumption DEF Slot
    <3> QED BY <1>3, <1>5, <1>7, <1>8, <3>1 DEF Laid
  <2>3. \A k \in 0 .. n - 1 : sector'[Lba'[k]] = job'.data[k]
    BY <1>2, <1>3, <1>7, <1>8 DEF Laid
  <2>4. \A c \in Block \ Taken(n + 1)' : sector'[c] = done'.sector[c]
    BY <1>2, <1>3, <1>8, <1>9 DEF Laid
  <2> QED BY <2>1, <2>2, <2>3, <2>4 DEF Laid
<1>11. UNCHANGED Whole!vars
  BY <1>2, Hidden
<1>12. ~Unformatted' /\ pc' \in AtWork
  BY <1>2 DEF Unformatted, Formatting, AtWork
<1> QED BY <1>2, <1>7, <1>10, <1>11, <1>12 DEF InStep

LEMMA DataInStep ==
  ASSUME StepOK, WriteData
  PROVE  UNCHANGED Whole!vars /\ InStep'
<1>1. PICK n : n = job.next
  OBVIOUS
<1>2. /\ pc = "data" /\ sector' = [sector EXCEPT ![job.node.blocks[n]] = job.data[n]]
      /\ job' = [job EXCEPT !.next = @ + 1] /\ pc' = "fill"
      /\ UNCHANGED <<inode, bitmap, cwd, magic, crashes, done>>
  BY <1>1 DEF WriteData
<1>3. DTypes /\ UnderWay /\ Laid(n + 1, n) /\ pc \in AtWork
  BY <1>1, <1>2, AtWorkHas DEF StepOK, InStep, AtWork
<1>4. /\ n \in 0 .. Need - 1 /\ n \in Nat
      /\ Free \in SUBSET Block /\ Need \in Nat
      /\ Lba \in [0 .. Need - 1 -> Free]
      /\ \A j, k \in 0 .. Need - 1 : Lba[j] = Lba[k] => j = k
  <2>1. Need \in 0 .. DirectBlocks /\ n \in Nat /\ n < Need
    BY <1>1, <1>2, <1>3, LbaIs DEF UnderWay, DTypes, Jobs
  <2>2. n \in 0 .. Need - 1
    BY <2>1
  <2> QED BY <1>3, <2>1, <2>2, LbaIs
<1>5. job.node.blocks[n] = Lba[n] /\ Lba[n] \in Block
  <2>1. n \in 0 .. (n + 1) - 1
    BY <1>4
  <2> QED BY <1>3, <1>4, <2>1 DEF Laid
<1>6. /\ job'.idx = job.idx /\ job'.data = job.data /\ job'.next = n + 1 /\ job'.node = job.node
  BY <1>1, <1>2, <1>3, NextJob DEF DTypes
<1>7. Kept' = Kept /\ Lba' = Lba /\ \A m : Taken(m)' = Taken(m)
  BY <1>2, <1>6, SameOp
<1>8. sector'[Lba[n]] = job.data[n] /\ \A c \in Block : c # Lba[n] => sector'[c] = sector[c]
  BY <1>2, <1>3, <1>5 DEF DTypes
<1>9. Laid(n + 1, n + 1)'
  <2>1. bitmap' = Kept' \cup Taken(n + 1)'
    BY <1>2, <1>3, <1>7 DEF Laid
  <2>2. \A k \in 0 .. (n + 1) - 1 : job'.node.blocks[k] = Lba'[k]
    BY <1>3, <1>6, <1>7 DEF Laid
  <2>3. \A k \in 0 .. (n + 1) - 1 : sector'[Lba'[k]] = job'.data[k]
    <3> TAKE k \in 0 .. (n + 1) - 1
    <3>1. k = n \/ (k \in 0 .. n - 1 /\ k \in 0 .. Need - 1 /\ k # n)
      BY <1>4
    <3>2. CASE k = n
      BY <1>6, <1>7, <1>8, <3>2
    <3>3. CASE k \in 0 .. n - 1 /\ k \in 0 .. Need - 1 /\ k # n
      <4>1. Lba[k] # Lba[n] /\ Lba[k] \in Block
        BY <1>4, <3>3
      <4>2. sector[Lba[k]] = job.data[k]
        BY <1>3, <3>3 DEF Laid
      <4> QED BY <1>6, <1>7, <1>8, <4>1, <4>2
    <3> QED BY <3>1, <3>2, <3>3
  <2>4. \A c \in Block \ Taken(n + 1)' : sector'[c] = done'.sector[c]
    <3>1. Lba[n] \in Taken(n + 1)
      BY <1>4, TakenOneMore
    <3> QED BY <1>2, <1>3, <1>7, <1>8, <3>1 DEF Laid
  <2> QED BY <2>1, <2>2, <2>3, <2>4 DEF Laid
<1>10. UNCHANGED Whole!vars
  BY <1>2, Hidden
<1>11. ~Unformatted' /\ pc' \in AtWork
  BY <1>2 DEF Unformatted, Formatting, AtWork
<1> QED BY <1>2, <1>6, <1>9, <1>10, <1>11 DEF InStep

(* "disk full" does not happen: the next block is free. *)
LEMMA NotFull ==
  ASSUME StepOK
  PROVE  ~DiskFull
<1> SUFFICES ASSUME DiskFull  PROVE FALSE
  OBVIOUS
<1>1. PICK n : n = job.next
  OBVIOUS
<1>2. pc = "fill" /\ n \in DOMAIN job.data /\ bitmap = Block
  BY <1>1 DEF DiskFull
<1>3. Laid(n, n) /\ pc \in AtWork
  BY <1>1, <1>2 DEF StepOK, InStep, AtWork
<1>4. /\ n \in 0 .. Need - 1 /\ Need \in 0 .. Cardinality(Free)
      /\ Free \in SUBSET Nat /\ Free \in SUBSET Block /\ IsFiniteSet(Free)
  BY <1>2, <1>3, LbaIs
<1>5. Free \ {Lba[j] : j \in 0 .. n - 1} # {}
  BY <1>4, LeastIsNext DEF Lba
<1> QED BY <1>2, <1>3, <1>4, <1>5 DEF Laid, Taken, Free

(* The name of the entry under way still finds it. *)
LEMMA FindsJob ==
  ASSUME StepOK, pc \in AtWork
  PROVE  \E name \in Names : Matches(name) # {} /\ Find(name) = job.idx
<1>1. PICK name, i : name = inode[job.idx].name /\ i = job.idx
  OBVIOUS
<1>2. name \in Names /\ i \in Used /\ inode[i].parent = cwd /\ i \in Matches(name)
  BY <1>1, AtWorkHas DEF UnderWay, Matches, Children
<1>3. Find(name) \in Used /\ inode[Find(name)].parent = cwd /\ inode[Find(name)].name = name
  BY <1>2, FindFinds DEF Used
<1>4. Find(name) = i
  BY <1>1, <1>2, <1>3, AtWorkHas, ShapeLookups DEF ShapeOK, Shape!TreeInv, Shape!NamesUnique
<1> QED BY <1>1, <1>2, <1>4

(* When a write returns it did what FileSystem's Write does in one step. *)
LEMMA WriteInStep ==
  ASSUME StepOK, DiskOK', WriteInode
  PROVE  Whole!Next /\ InStep'
<1>1. PICK i, n, data, node : i = job.idx /\ n = job.next /\ data = job.data /\ node = [job.node EXCEPT !.size = n]
  OBVIOUS
<1>2. /\ pc = "fill" /\ n \notin DOMAIN data /\ inode' = [inode EXCEPT ![i] = node]
      /\ UNCHANGED <<bitmap, sector, cwd, magic, crashes>>
      /\ pc' = "idle" /\ job' = NoJob /\ done' = [bitmap |-> bitmap', sector |-> sector']
  BY <1>1 DEF WriteInode, Return
<1>3. /\ DTypes /\ UnderWay /\ inode[Root].used /\ i \in Inodes /\ i # Root /\ Laid(n, n) /\ pc \in AtWork
      /\ Filled(n) /\ n \in Nat /\ n <= Need /\ data \in Contents
  BY <1>1, <1>2, AtWorkHas DEF StepOK, InStep, AtWork, UnderWay, DTypes, Jobs
<1>4. /\ Need \in 0 .. DirectBlocks /\ Need \in 0 .. Cardinality(Free) /\ Cardinality(Free) \in Nat
      /\ data \in [0 .. Need - 1 -> Payload]
      /\ Lba \in [0 .. Need - 1 -> Free]
      /\ \A j, k \in 0 .. Need - 1 : Lba[j] = Lba[k] => j = k
  BY <1>1, <1>3, LbaIs
<1>5. n = Need
  <2>1. n \notin 0 .. Need - 1
    BY <1>2, <1>4
  <2> QED BY <1>3, <1>4, <2>1
<1>6. ~Unformatted' /\ pc' \notin AtWork
  BY <1>2 DEF Unformatted, Formatting, AtWork
<1>7. inode'[Root].used
  BY <1>6, RootUsedNext
<1>8. done'.bitmap = bitmap /\ done'.sector = sector
  BY <1>2
<1>9. InStep'
  BY <1>2, <1>6, <1>8 DEF InStep, AtWork
<1>10. PICK name \in Names : Matches(name) # {} /\ Find(name) = i
  BY <1>1, <1>3, FindsJob
<1>11. DOMAIN Lba = 0 .. Need - 1 /\ Range(Lba) = Taken(Need)
  BY <1>4 DEF Range, Taken
<1>12. done'.bitmap = (done.bitmap \ BlocksOf(i)) \cup Range(Lba)
  BY <1>1, <1>3, <1>5, <1>8, <1>11 DEF Laid, Kept
<1>13. done'.sector = [b \in Block |-> IF b \in Range(Lba) THEN data[CHOOSE k \in DOMAIN Lba : Lba[k] = b]
                                                             ELSE done.sector[b]]
  <2>1. sector \in [Block -> Payload]
    BY <1>3 DEF DTypes
  <2>2. ASSUME NEW b \in Block
        PROVE  sector[b] = IF b \in Range(Lba) THEN data[CHOOSE k \in DOMAIN Lba : Lba[k] = b] ELSE done.sector[b]
    <3>1. CASE b \in Range(Lba)
      <4>1. PICK k \in 0 .. Need - 1 : Lba[k] = b
        BY <3>1, <1>11 DEF Range
      <4>2. k = CHOOSE m \in DOMAIN Lba : Lba[m] = b
        BY <4>1, <1>4, <1>11
      <4>3. sector[Lba[k]] = data[k]
        BY <4>1, <1>1, <1>3, <1>5 DEF Laid
      <4> QED BY <3>1, <4>1, <4>2, <4>3
    <3>2. CASE b \notin Range(Lba)
      BY <3>2, <1>3, <1>5, <1>11 DEF Laid
    <3> QED BY <3>1, <3>2
  <2> QED BY <1>8, <2>1, <2>2
<1>14. node = [inode[i] EXCEPT !.size = Need, !.blocks = [s \in Slot |-> IF s < Need THEN Lba[s] ELSE NoBlock]]
  <2>1. PICK b : b = [s \in Slot |-> IF s < Need THEN Lba[s] ELSE NoBlock]
    OBVIOUS
  <2>2. job.node \in Inode /\ inode[i] \in Inode /\ job.node.blocks \in [Slot -> Block \cup {NoBlock}]
    BY <1>3 DEF DTypes, Jobs, Inode
  <2>3. job.node.blocks = b
    <3>1. ASSUME NEW s \in Slot  PROVE job.node.blocks[s] = b[s]
      <4>1. CASE s < Need
        <5>1. s \in 0 .. n - 1
          BY <4>1, <1>3, <1>5, SizesAssumption DEF Slot
        <5> QED BY <4>1, <5>1, <2>1, <1>3 DEF Laid
      <4>2. CASE ~(s < Need)
        BY <4>2, <2>1, <1>3, <1>5 DEF Filled
      <4> QED BY <4>1, <4>2
    <3> QED BY <2>1, <2>2, <3>1
  <2>4. /\ job.node.used /\ inode[i].used /\ job.node.isDir = inode[i].isDir
        /\ job.node.parent = inode[i].parent /\ job.node.name = inode[i].name
    BY <1>1, <1>3 DEF UnderWay, Used
  <2>5. job.node.used = inode[i].used
    BY <2>2, <2>4 DEF Inode
  <2>6. PICK q, r : q = job.node /\ r = inode[i]
    OBVIOUS
  <2>7. [q EXCEPT !.size = Need] = [r EXCEPT !.size = Need, !.blocks = b]
    <3>1. /\ q \in Inode /\ r \in Inode /\ q.blocks = b
          /\ q.isDir = r.isDir /\ q.parent = r.parent /\ q.name = r.name
      BY <2>2, <2>3, <2>4, <2>6
    <3>2. q.used = r.used
      BY <2>5, <2>6
    <3> QED BY <3>1, <3>2 DEF Inode
  <2> QED BY <1>1, <1>5, <2>1, <2>6, <2>7
<1>15. /\ Whole!Find(name) = i /\ Whole!Matches(name) # {} /\ Whole!BlocksOf(i) = BlocksOf(i)
       /\ (IF inode[Root].used THEN inode ELSE FormattedTable) = inode
       /\ (IF inode[Root].used THEN inode ELSE FormattedTable)' = inode'
  BY <1>3, <1>7, <1>10, WholeLookups
<1>16. Need = Cardinality(DOMAIN data) /\ Need <= Cardinality(Free)
       /\ Free = Block \ (done.bitmap \ BlocksOf(i)) /\ Lba = FirstFit(Free, Need)
       /\ ~inode[i].isDir /\ cwd' = cwd
  BY <1>1, <1>2, <1>3, <1>4 DEF Need, Free, Kept, Lba, UnderWay
<1>17. Whole!Write(name, data)
  <2> DEFINE table == IF inode[Root].used THEN inode ELSE FormattedTable
             find == Whole!Find(name)
             need == Whole!Cardinality(DOMAIN data)
             kept == done.bitmap \ Whole!BlocksOf(find)
             free == Whole!Block \ kept
             fits == need <= Whole!Cardinality(free)
             lba == Whole!FirstFit(free, IF fits THEN need ELSE Whole!Cardinality(free))
             blocks == [s \in Whole!Slot |-> IF s < need THEN lba[s] ELSE Whole!NoBlock]
  <2>1. find = i /\ need = Need /\ kept = done.bitmap \ BlocksOf(i) /\ free = Free
    BY <1>15, <1>16, SameConstants, SameCounting
  <2>2. Whole!Cardinality(free) = Cardinality(Free)
    BY <2>1, SameCounting
  <2>3. fits /\ lba = Lba
    <3>1. fits
      BY <1>16, <2>1, <2>2
    <3>2. lba = Whole!FirstFit(free, need)
      BY <3>1
    <3> QED BY <1>16, <2>1, <3>1, <3>2, SameCounting
  <2> HIDE DEF need, free, fits, lba, kept, find
  <2>4. Whole!Range(lba) = Range(Lba)
    BY <2>3, SameCounting
  <2>5. blocks = [s \in Slot |-> IF s < Need THEN Lba[s] ELSE NoBlock]
    BY <2>1, <2>3, SameConstants
  <2> HIDE DEF blocks
  <2>6. done'.bitmap = kept \cup Whole!Range(lba)
    BY <1>12, <2>1, <2>4
  <2>7. done'.sector = [b \in Whole!Block |->
          IF b \in Whole!Range(lba) THEN data[CHOOSE k \in DOMAIN lba : lba[k] = b] ELSE done.sector[b]]
    BY <1>13, <2>3, <2>4, SameConstants
  <2>8. [table[find] EXCEPT !.size = need, !.blocks = blocks] = node
    BY <1>14, <1>15, <2>1, <2>5
  <2>9. table' = [table EXCEPT ![find] = [table[find] EXCEPT !.size = need, !.blocks = blocks]]
    BY <1>2, <1>15, <2>1, <2>8
  <2>10. Whole!Matches(name) # {} /\ ~table[find].isDir /\ cwd' = cwd
    BY <1>15, <1>16, <2>1
  <2> HIDE DEF table
  <2> QED BY <2>3, <2>6, <2>7, <2>9, <2>10 DEF Whole!Write, table, find, need, kept, free, fits, lba, blocks
<1> QED BY <1>3, <1>9, <1>17, SameConstants DEF Whole!Next

(* When a remove returns it did what FileSystem's Remove does in one step. *)
LEMMA EraseInStep ==
  ASSUME StepOK, DiskOK', EraseInode
  PROVE  Whole!Next /\ InStep'
<1>1. PICK i : i = job.idx
  OBVIOUS
<1>2. /\ pc = "erase" /\ inode' = [inode EXCEPT ![i] = EmptyInode]
      /\ UNCHANGED <<bitmap, sector, cwd, magic, crashes>>
      /\ pc' = "idle" /\ job' = NoJob /\ done' = [bitmap |-> bitmap', sector |-> sector']
  BY <1>1 DEF EraseInode, Return
<1>3. /\ inode[Root].used /\ i \in Inodes /\ pc \in AtWork /\ Children(i) = {}
      /\ bitmap = done.bitmap \ BlocksOf(i) /\ sector = done.sector
  BY <1>1, <1>2, AtWorkHas DEF StepOK, InStep, AtWork, UnderWay, Kept
<1>4. ~Unformatted' /\ pc' \notin AtWork
  BY <1>2 DEF Unformatted, Formatting, AtWork
<1>5. inode'[Root].used
  BY <1>4, RootUsedNext
<1>6. done'.bitmap = bitmap /\ done'.sector = sector
  BY <1>2
<1>7. InStep'
  BY <1>2, <1>4, <1>6 DEF InStep, AtWork
<1>8. PICK name \in Names : Matches(name) # {} /\ Find(name) = i
  BY <1>1, <1>3, FindsJob
<1>9. /\ Whole!Find(name) = i /\ Whole!Matches(name) # {} /\ Whole!BlocksOf(i) = BlocksOf(i)
      /\ Whole!Children(i) = {}
      /\ (IF inode[Root].used THEN inode ELSE FormattedTable) = inode
      /\ (IF inode[Root].used THEN inode ELSE FormattedTable)' = inode'
  BY <1>3, <1>5, <1>8, WholeLookups
<1>10. Whole!Remove(name)
  BY <1>2, <1>3, <1>6, <1>9, SameConstants DEF Whole!Remove
<1> QED BY <1>7, <1>10 DEF Whole!Next

(* Every step but a crash is a step of FileSystem or hidden from it. *)
LEMMA NextInStep ==
  ASSUME StepOK, DiskOK', [DNext]_dvars, ~Crash
  PROVE  [Whole!Next]_(Whole!vars) /\ InStep'
<1>1. CASE UNCHANGED dvars
  <2>1. UNCHANGED <<inode, bitmap, sector, cwd, magic, pc, job, crashes, done>>
    BY <1>1 DEF dvars
  <2>2. UNCHANGED Whole!vars
    BY <2>1, Hidden
  <2>3. InMemory' = InMemory /\ (Unformatted' <=> Unformatted)
    BY <2>1 DEF InMemory, Unformatted
  <2>4. Kept' = Kept /\ Lba' = Lba /\ \A n : Taken(n)' = Taken(n)
    BY <2>1, SameOp
  <2>5. (Freed' <=> Freed) /\ (Laid(job.next, job.next)' <=> Laid(job.next, job.next))
        /\ (Laid(job.next + 1, job.next)' <=> Laid(job.next + 1, job.next))
    BY <2>1, <2>3, <2>4 DEF Freed, Laid
  <2> QED BY <2>1, <2>2, <2>3, <2>4, <2>5 DEF StepOK, InStep
<1>2. CASE BootFormatted
  BY <1>2, BootInStep DEF Whole!Next
<1>3. CASE FormatSuperblock \/ FormatBitmap \/ FormatInodes \/ FormatRoot
  BY <1>3, FormatInStep
<1>4. ASSUME NEW name \in Names, Atomic(Create(name)) \/ Atomic(Mkdir(name)) \/ Atomic(ChdirInto(name))
      PROVE  [Whole!Next]_(Whole!vars) /\ InStep'
  BY <1>4, AtomicInStep
<1>5. CASE Atomic(ChdirRoot) \/ Atomic(ChdirUp)
  BY <1>5, NamesAssumption, AtomicInStep
<1>6. ASSUME NEW name \in Names, CallRemove(name) \/ \E data \in Contents : CallWrite(name, data)
      PROVE  [Whole!Next]_(Whole!vars) /\ InStep'
  BY <1>6, CallInStep
<1>7. CASE FreeBlock \/ AllocBlock \/ WriteData
  BY <1>7, FreeInStep, AllocInStep, DataInStep
<1>8. CASE WriteInode \/ EraseInode
  BY <1>8, WriteInStep, EraseInStep
<1> QED BY <1>1, <1>2, <1>3, <1>4, <1>5, <1>6, <1>7, <1>8, NotFull DEF DNext

-------------------------------------------------------------------------------
(* The theorems. *)

WorkInv == crashes \in Nat /\ (crashes = 0 => StepOK)

LEMMA InitIsWholeInit == DInit => Whole!Init
<1> SUFFICES ASSUME DInit  PROVE Whole!Init
  OBVIOUS
<1>1. inode = BlankTable /\ bitmap = {} /\ sector \in [Block -> Payload] /\ cwd = Root
      /\ done.bitmap = {} /\ done.sector = sector
  BY DEF DInit
<1>2. ~inode[Root].used
  <2>1. inode[Root] = EmptyInode
    BY <1>1, Constants DEF BlankTable
  <2>2. ~EmptyInode.used
    BY DEF EmptyInode
  <2> QED BY <2>1, <2>2
<1>3. FormattedTable = [i \in Inodes |-> IF i = Root THEN RootInode ELSE EmptyInode]
  BY DEF FormattedTable, BlankTable
<1> QED BY <1>1, <1>2, <1>3, SameConstants DEF Whole!Init

LEMMA InitInStep == DInit => WorkInv
<1> SUFFICES ASSUME DInit  PROVE WorkInv
  OBVIOUS
<1>1. DiskOK /\ crashes = 0
  BY InitDisk
<1>2. Whole!Init => WholeFacts!Init
  BY SameConstants DEF Whole!Init, WholeFacts!Init
<1>3. WholeFacts!Init => WholeFacts!Inv
  BY SizesAssumption, NamesAssumption, WholeFacts!InitInv
<1>4. Whole!Inv
  BY <1>2, <1>3, InitIsWholeInit, SameWholeInv
<1>5. pc = "off" /\ bitmap = {} /\ done.bitmap = bitmap /\ done.sector = sector
  BY DEF DInit
<1>6. InStep
  BY <1>5 DEF InStep, AtWork
<1> QED BY <1>1, <1>4, <1>6 DEF WorkInv, StepOK

LEMMA StepWhole ==
  ASSUME crashes \in Nat, StepOK, [DNext]_dvars, crashes = 0, crashes' = 0
  PROVE  [Whole!Next]_(Whole!vars) /\ StepOK'
<1>1. ~Crash
  BY CrashesGrow
<1>2. DiskOK'
  BY <1>1, NextKeepsDisk DEF StepOK
<1>3. [Whole!Next]_(Whole!vars) /\ InStep'
  BY <1>1, <1>2, NextInStep
<1>4. Whole!Inv'
  BY <1>3, WholeStep DEF StepOK
<1> QED BY <1>2, <1>3, <1>4 DEF StepOK

LEMMA WorkInvNext == WorkInv /\ [DNext]_dvars => WorkInv'
<1> SUFFICES ASSUME WorkInv, [DNext]_dvars  PROVE WorkInv'
  OBVIOUS
<1>1. crashes' \in Nat /\ (Crash => crashes' # 0) /\ (~Crash => crashes' = crashes)
  BY CrashesGrow DEF WorkInv
<1>2. ASSUME crashes' = 0  PROVE StepOK'
  BY <1>1, <1>2, StepWhole DEF WorkInv
<1> QED BY <1>1, <1>2 DEF WorkInv

LEMMA WorkInvAlways == DSpec => []WorkInv
BY InitInStep, WorkInvNext, PTL DEF DSpec

(* Up to the first crash every sector of every file but the one being written  *)
(* or removed is as the last operation left it: free_block and alloc_block in  *)
(* the middle of a write never hand out a sector that another file names.      *)
THEOREM OthersUntouchedTheorem == DSpec => []OthersUntouched
<1>1. WorkInv => OthersUntouched
  <2> SUFFICES ASSUME StepOK, NEW i \in Used \ {job.idx}, NEW b \in BlocksOf(i)
               PROVE  sector[b] = done.sector[b]
    BY DEF WorkInv, OthersUntouched
  <2>1. CASE pc \notin AtWork
    BY <2>1 DEF StepOK, InStep
  <2>2. CASE pc \in {"free", "erase"}
    BY <2>2 DEF StepOK, InStep, Freed
  <2>3. CASE pc \in {"fill", "data"}
    <3>1. PICK n, m : Laid(n, m) /\ n \in Nat /\ n <= Need
      <4>1. pc = "fill" => Laid(job.next, job.next) /\ job.next <= Need
        BY <2>3, AtWorkHas DEF StepOK, InStep, AtWork, UnderWay
      <4>2. pc = "data" => Laid(job.next + 1, job.next) /\ job.next < Need
        BY <2>3, AtWorkHas DEF StepOK, InStep, AtWork, UnderWay
      <4>3. job.next \in Nat /\ Need \in Nat
        BY <2>3, AtWorkHas, LbaIs DEF AtWork, DTypes, Jobs
      <4> QED BY <2>3, <4>1, <4>2, <4>3
    <3>2. /\ NotShared /\ done.bitmap = UNION {BlocksOf(j) : j \in Inodes} /\ job.idx \in Inodes
          /\ Lba \in [0 .. Need - 1 -> Free] /\ Need \in Nat /\ inode \in [Inodes -> Inode]
      BY <2>3, AtWorkHas, LbaIs DEF AtWork, DTypes
    <3>3. i \in Inodes /\ i # job.idx
      BY DEF Used
    <3>4. b \in done.bitmap /\ b \notin BlocksOf(job.idx)
      BY <3>2, <3>3 DEF NotShared, BlocksOf
    <3>5. b \notin Taken(n)
      <4>1. \A k \in 0 .. n - 1 : Lba[k] \in Free
        BY <3>1, <3>2
      <4> QED BY <3>4, <4>1 DEF Taken, Free, Kept
    <3>6. b \in Block
      BY <3>4, <2>3, AtWorkHas DEF AtWork
    <3> QED BY <3>1, <3>5, <3>6 DEF Laid
  <2> QED BY <2>1, <2>2, <2>3 DEF AtWork
<1> QED BY <1>1, WorkInvAlways, PTL

(* As long as the machine does not stop, the sector writes of every operation  *)
(* amount to exactly one step of FileSystem, taken when the operation returns. *)
THEOREM FsDiskImplementsFileSystem == DSpec /\ [](crashes = 0) => ImplementsFileSystem
<1>1. WorkInv /\ crashes = 0 /\ (crashes = 0)' /\ [DNext]_dvars => [Whole!Next]_(Whole!vars)
  BY StepWhole DEF WorkInv
<1> QED BY <1>1, InitIsWholeInit, WorkInvAlways, PTL DEF DSpec, ImplementsFileSystem, Whole!Spec
===============================================================================
