-------------------------------- MODULE FsDisk --------------------------------
(***************************************************************************)
(* The operations of FileSystem, one sector write at a time, and the disk  *)
(* they leave behind when the machine stops between two of them.           *)
(*                                                                         *)
(* A sector write is atomic and reads see the last write.  Each call of    *)
(* alloc_block and free_block rewrites the bitmap and is one step; so is a *)
(* data sector and an inode.  create and mkdir write a single inode and    *)
(* are FileSystem's actions.  Only cwd and the call under way are lost in  *)
(* a crash: everything else is on the disk.                                *)
(***************************************************************************)
EXTENDS FileSystem

CONSTANTS
  InodesPerSector,  \* INODES_PER_SECTOR: inodes that one sector holds, 2
  MaxCrashes,       \* bound on the crashes of a behaviour
  CrashInFormat     \* whether the machine may also stop while it formats

ASSUME DiskAssumption ==
  InodesPerSector \in Nat \ {0} /\ MaxCrashes \in Nat /\ CrashInFormat \in BOOLEAN

VARIABLES
  magic,    \* the superblock carries MAGIC
  pc,       \* what the machine does next
  job,      \* the locals of the write or remove under way, NoJob otherwise
  crashes,  \* how often the machine stopped so far
  done      \* history: bitmap and sector when the last operation returned

diskVars == <<inode, bitmap, sector, magic>>
dvars == <<inode, bitmap, sector, cwd, magic, pc, job, crashes, done>>

Steps == {"off", "format bitmap", "format inodes", "format root",
          "idle", "free", "fill", "data", "erase"}
Formatting == {"format bitmap", "format inodes", "format root"}

NoJob == [op |-> "none", idx |-> Root, node |-> EmptyInode,
          data |-> [k \in {} |-> 0], next |-> 0]

BlankTable == [i \in Inodes |-> EmptyInode]
FormattedTable == [BlankTable EXCEPT ![Root] = RootInode]

(* An image that was never formatted, all zero but for its data area. *)
DInit ==
  /\ inode = BlankTable
  /\ bitmap = {}
  /\ sector \in [Block -> Payload]
  /\ magic = FALSE
  /\ cwd = Root
  /\ pc = "off"
  /\ job = NoJob
  /\ crashes = 0
  /\ done = [bitmap |-> bitmap, sector |-> sector]

-------------------------------------------------------------------------------
(* init, and format with its writes in the order of the code. *)

BootFormatted ==
  /\ pc = "off" /\ magic
  /\ pc' = "idle"
  /\ cwd' = Root
  /\ done' = [bitmap |-> bitmap, sector |-> sector]
  /\ UNCHANGED <<diskVars, job, crashes>>

FormatSuperblock ==
  /\ pc = "off" /\ ~magic
  /\ magic' = TRUE
  /\ pc' = "format bitmap"
  /\ UNCHANGED <<inode, bitmap, sector, cwd, job, crashes, done>>

FormatBitmap ==
  /\ pc = "format bitmap"
  /\ bitmap' = {}
  /\ pc' = "format inodes"
  /\ UNCHANGED <<inode, sector, cwd, magic, job, crashes, done>>

FormatInodes ==
  LET first == job.next * InodesPerSector
      behind == first + InodesPerSector
  IN /\ pc = "format inodes"
     /\ inode' = [i \in Inodes |-> IF first <= i /\ i < behind THEN EmptyInode ELSE inode[i]]
     /\ IF behind < MaxFiles
        THEN pc' = pc /\ job' = [job EXCEPT !.next = @ + 1]
        ELSE pc' = "format root" /\ job' = NoJob
     /\ UNCHANGED <<bitmap, sector, cwd, magic, crashes, done>>

FormatRoot ==
  /\ pc = "format root"
  /\ inode' = [inode EXCEPT ![Root] = RootInode]
  /\ cwd' = Root
  /\ pc' = "idle"
  /\ done' = [bitmap |-> bitmap, sector |-> sector]
  /\ UNCHANGED <<bitmap, sector, magic, job, crashes>>

-------------------------------------------------------------------------------
(* Operations that write at most one sector. *)

Atomic(op) ==
  /\ pc = "idle"
  /\ op
  /\ UNCHANGED <<magic, pc, job, crashes, done>>

-------------------------------------------------------------------------------
(* write and remove. *)

(* The slots of the inode in memory that still name a block. *)
InMemory == {s \in Slot : job.node.blocks[s] # NoBlock}

(* Mistake: a write that does not free the blocks it replaces. *)
CallWithoutFree(op, i, data) ==
  /\ pc = "idle"
  /\ job' = [op |-> op, idx |-> i, node |-> inode[i], data |-> data, next |-> 0]
  /\ pc' = IF op = "write" THEN "fill" ELSE "erase"
  /\ UNCHANGED <<diskVars, cwd, crashes, done>>

(* Both free the old blocks first, if there are any; then write goes on to *)
(* allocate new ones, and remove to clear the inode.                       *)
Call(op, i, data) ==
  LET next == IF op = "write" THEN "fill" ELSE "erase"
  IN /\ pc = "idle"
     /\ job' = [op |-> op, idx |-> i, node |-> inode[i], data |-> data, next |-> 0]
     /\ pc' = IF BlocksOf(i) = {} THEN next ELSE "free"
     /\ UNCHANGED <<diskVars, cwd, crashes, done>>

CallWrite(name, data) ==
  /\ Matches(name) # {}
  /\ ~inode[Find(name)].isDir
  /\ Call("write", Find(name), data)

(* Mistake: the check for an empty folder forgotten. *)
CallRemoveUnchecked(name) ==
  /\ Matches(name) \ {Root} # {}
  /\ Call("remove", Find(name), NoJob.data)

CallRemove(name) ==
  /\ Matches(name) # {}
  /\ inode[Find(name)].isDir => Children(Find(name)) = {}
  /\ Call("remove", Find(name), NoJob.data)

(* free_block for the next block of the inode. *)
FreeBlock ==
  LET s == Least(InMemory)
  IN /\ pc = "free"
     /\ bitmap' = bitmap \ {job.node.blocks[s]}
     /\ job' = [job EXCEPT !.node.blocks[s] = NoBlock]
     /\ pc' = IF InMemory # {s} THEN "free"
              ELSE IF job.op = "write" THEN "fill" ELSE "erase"
     /\ UNCHANGED <<inode, sector, cwd, magic, crashes, done>>

(* The operation returns; what the disk holds now is what it promised. *)
Return ==
  /\ pc' = "idle"
  /\ job' = NoJob
  /\ done' = [bitmap |-> bitmap', sector |-> sector']

(* Mistake: an allocation that returns the sector after the one it marked. *)
AllocBlockBehind ==
  /\ pc = "fill"
  /\ job.next \in DOMAIN job.data
  /\ Block \ bitmap # {}
  /\ bitmap' = bitmap \cup {Least(Block \ bitmap)}
  /\ job' = [job EXCEPT !.node.blocks[job.next] = Least(Block \ bitmap) + 1]
  /\ pc' = "data"
  /\ UNCHANGED <<inode, sector, cwd, magic, crashes, done>>

(* alloc_block: the lowest block the bitmap has free. *)
AllocBlock ==
  LET free == Block \ bitmap
      b == Least(free)
  IN /\ pc = "fill"
     /\ job.next \in DOMAIN job.data
     /\ free # {}
     /\ bitmap' = bitmap \cup {b}
     /\ job' = [job EXCEPT !.node.blocks[job.next] = b]
     /\ pc' = "data"
     /\ UNCHANGED <<inode, sector, cwd, magic, crashes, done>>

(* "disk full": write returns and leaves the inode on the disk as it was. *)
DiskFull ==
  /\ pc = "fill"
  /\ job.next \in DOMAIN job.data
  /\ bitmap = Block
  /\ UNCHANGED <<diskVars, cwd, crashes>>
  /\ Return

WriteData ==
  /\ pc = "data"
  /\ sector' = [sector EXCEPT ![job.node.blocks[job.next]] = job.data[job.next]]
  /\ job' = [job EXCEPT !.next = @ + 1]
  /\ pc' = "fill"
  /\ UNCHANGED <<inode, bitmap, cwd, magic, crashes, done>>

WriteInode ==
  /\ pc = "fill"
  /\ job.next \notin DOMAIN job.data
  /\ inode' = [inode EXCEPT ![job.idx] = [job.node EXCEPT !.size = job.next]]
  /\ UNCHANGED <<bitmap, sector, cwd, magic, crashes>>
  /\ Return

EraseInode ==
  /\ pc = "erase"
  /\ inode' = [inode EXCEPT ![job.idx] = EmptyInode]
  /\ UNCHANGED <<bitmap, sector, cwd, magic, crashes>>
  /\ Return

-------------------------------------------------------------------------------
(* The machine stops: power cut, closed emulator, halted kernel. *)
Crash ==
  /\ pc # "off"
  /\ crashes < MaxCrashes
  /\ pc \in Formatting => CrashInFormat
  /\ pc' = "off"
  /\ cwd' = Root
  /\ job' = NoJob
  /\ crashes' = crashes + 1
  /\ UNCHANGED <<diskVars, done>>

DNext ==
  \/ BootFormatted
  \/ FormatSuperblock
  \/ FormatBitmap
  \/ FormatInodes
  \/ FormatRoot
  \/ \E name \in Names :
       \/ Atomic(Create(name))
       \/ Atomic(Mkdir(name))
       \/ Atomic(ChdirInto(name))
       \/ CallRemove(name)
       \/ \E data \in Contents : CallWrite(name, data)
  \/ Atomic(ChdirRoot)
  \/ Atomic(ChdirUp)
  \/ FreeBlock
  \/ AllocBlock
  \/ DiskFull
  \/ WriteData
  \/ WriteInode
  \/ EraseInode
  \/ Crash

DSpec == DInit /\ [][DNext]_dvars

-------------------------------------------------------------------------------
(* Correctness. *)

Running == pc \notin Formatting \cup {"off"}

(* Without crashes the sector writes of an operation amount to one step of *)
(* FileSystem when the operation returns: its state is the one the last    *)
(* operation left, a disk not yet formatted counting as freshly formatted. *)
Whole == INSTANCE FileSystem WITH
  inode <- IF inode[Root].used THEN inode ELSE FormattedTable,
  bitmap <- done.bitmap,
  sector <- done.sector

ImplementsFileSystem == Whole!Spec

(* As long as nothing went wrong before, the sectors of every file but the *)
(* one under way are at every moment as the last operation left them: the  *)
(* first crash costs at most the file that was being written or removed.   *)
OthersUntouched ==
  crashes = 0 =>
    \A i \in Used \ {job.idx} : \A b \in BlocksOf(i) : sector[b] = done.sector[b]

(* A crash at any sector write of write or remove, in any number, leaves a *)
(* tree: every inode was written whole, so no entry hangs in the air and   *)
(* every inode names as many blocks as its size says.                      *)
TreeSurvives == Running => TreeOK /\ SizesMatch

(* A crash leaves no data block that two files name, so that a write to    *)
(* one file cannot reach another.  The bitmap and the inodes are written   *)
(* by different steps: a crash between them breaks this.                   *)
FilesApart == Running => NotShared

(* A disk that is taken for formatted has its root directory. *)
FormattedHasRoot == pc = "idle" => inode[Root] = RootInode
===============================================================================
