-------------------------------- MODULE Memory --------------------------------
(***************************************************************************)
(* Physical memory of the kernel: the bitmap of frames, the page tables,   *)
(* the heap that grows when a page of it is first touched, and the frames  *)
(* the drivers take for their buffers.  Addresses are counted in frames    *)
(* and pages of 4096 bytes; a page is counted from the start of the heap.  *)
(* No caller gives a frame back, so the bitmap only fills up.              *)
(***************************************************************************)
EXTENDS Integers, FiniteSets, Sequences

CONSTANTS
  MemoryMaps,    \* what the bootloader may report: sequences of regions
  BitsPerFrame,  \* how many frames one frame of the bitmap describes
  HeapInitial,   \* HEAP_INITIAL and EMERGENCY_HEAP_SIZE, in pages
  HeapMax,       \* HEAP_MAX, in pages
  PagesPerTable, \* how many pages one page table of the last level maps
  RxFrames,      \* frames of the network card's receive buffer
  DmaLimit       \* ISA_DMA_LIMIT, in frames

Regions == [base: Nat, length: Nat, usable: BOOLEAN]

ASSUME MemoryAssumption ==
  /\ MemoryMaps \subseteq Seq(Regions)
  /\ BitsPerFrame \in Nat \ {0} /\ PagesPerTable \in Nat \ {0}
  /\ HeapMax \in Nat \ {0} /\ HeapInitial \in 0 .. HeapMax
  /\ RxFrames \in Nat \ {0} /\ DmaLimit \in Nat

VARIABLES
  memmap,     \* the map the bootloader reported
  frames,     \* the frames that have a bit, none when there is no bitmap
  used,       \* the frames whose bit is set
  bitmap,     \* the frames the bitmap itself is in
  root,       \* ROOT_PML4
  tables,     \* the page tables below it that cover the heap
  pages,      \* the frame each page of the heap is mapped to
  mapping,    \* the page being mapped and its frame, while map runs
  addr,       \* how far map_and_commit got, in pages
  committed,  \* COMMITTED, in pages
  dynamic,    \* DYNAMIC
  nic,        \* buffers of the network card: to receive, and four to send
  gathered,   \* buffers that rtl8139::init has got so far
  dsp,        \* buffers of the sound card: for beeps (0) and for streams (1)
  phase

allocator == <<memmap, frames, bitmap>>
heap == <<addr, committed, dynamic>>
vars == <<allocator, used, root, tables, pages, mapping, heap, nic, gathered, dsp, phase>>

NoFrame == -1
NoMapping == [page |-> 0, frame |-> NoFrame]
Pages == 0 .. HeapMax - 1

(* The tables on the way to a page: one of the third level, one of the     *)
(* second (the heap lies within what it maps), and one of the last level.  *)
TableIds == 0 .. 2 + (HeapMax - 1) \div PagesPerTable
TablesOf(page) == {0, 1, 2 + page \div PagesPerTable}

Buffers == 5
Dsps == 0 .. 1
Phases == {"allocator", "paging", "heap", "run", "out of memory", "fault"}

Init ==
  /\ memmap \in MemoryMaps
  /\ frames = {} /\ used = {} /\ bitmap = {} /\ root = NoFrame
  /\ tables = [t \in TableIds |-> NoFrame]
  /\ pages = [p \in Pages |-> NoFrame]
  /\ mapping = NoMapping
  /\ addr = 0 /\ committed = 0 /\ dynamic = FALSE
  /\ nic = <<>> /\ gathered = <<>> /\ dsp = [d \in Dsps |-> NoFrame]
  /\ phase = "allocator"

-------------------------------------------------------------------------------
(* The allocator. *)

Run(base, length) == base .. base + length - 1
End(i) == memmap[i].base + memmap[i].length
UsableRegions == {i \in DOMAIN memmap : memmap[i].usable}
Usable == UNION {Run(memmap[i].base, memmap[i].length) : i \in UsableRegions}

(* The regions that can hold a bitmap of so many frames; the first is taken. *)
Fitting(need) == {i \in UsableRegions : memmap[i].length >= need}

(* try_init_from_memory_map: the bitmap describes everything below the     *)
(* highest address.  Without a map or a place for the bitmap there is none.*)
InitAllocator ==
  /\ phase = "allocator"
  /\ phase' = "paging"
  /\ \/ \E last \in DOMAIN memmap :
          LET need == (End(last) + BitsPerFrame - 1) \div BitsPerFrame
          IN /\ \A i \in DOMAIN memmap : End(i) <= End(last)
             /\ End(last) > 0
             /\ \E i \in Fitting(need) :
                  /\ \A j \in Fitting(need) : i <= j
                  /\ bitmap' = Run(memmap[i].base, need)
             /\ frames' = 0 .. End(last) - 1
             /\ used' = (frames' \ Usable) \cup bitmap'
     \/ /\ \A last \in DOMAIN memmap :
             (\A i \in DOMAIN memmap : End(i) <= End(last)) =>
                \/ End(last) = 0
                \/ Fitting((End(last) + BitsPerFrame - 1) \div BitsPerFrame) = {}
        /\ UNCHANGED <<bitmap, frames, used>>
  /\ UNCHANGED <<memmap, root, tables, pages, mapping, heap, nic, gathered, dsp>>

(* Mistake: a run accepted one frame too late. *)
RunsTooLong(n) == {s \in frames : \A f \in Run(s, n + 1) : f \in frames \ used}

(* find_free_run: the lowest run of n free frames, none when there is none. *)
Runs(n) == {s \in frames : \A f \in Run(s, n) : f \in frames \ used}
FirstRun(n) == {s \in Runs(n) : \A t \in Runs(n) : s <= t}

(* Mistakes: the first frame marked only, and one frame too many marked. *)
AllocFirst(s, n) == s \in FirstRun(n) /\ used' = used \cup {s}
AllocTooMuch(s, n) == s \in FirstRun(n) /\ used' = used \cup Run(s, n + 1)

(* alloc_frames *)
Alloc(s, n) == s \in FirstRun(n) /\ used' = used \cup Run(s, n)

(* expect and the page fault handler halt the machine. *)
Halt(why) ==
  /\ phase' = why
  /\ UNCHANGED <<allocator, used, root, tables, pages, mapping, heap, nic, gathered, dsp>>

-------------------------------------------------------------------------------
(* Page tables. *)

(* paging::init *)
InitPaging ==
  /\ phase = "paging"
  /\ \/ /\ frames = {}
        /\ phase' = "heap"
        /\ UNCHANGED <<used, root>>
     \/ \E s \in frames :
        /\ Alloc(s, 1)
        /\ root' = s
        /\ phase' = "heap"
  /\ UNCHANGED <<allocator, tables, pages, mapping, heap, nic, gathered, dsp>>

InitPagingFails ==
  /\ phase = "paging" /\ frames # {} /\ Runs(1) = {}
  /\ Halt("out of memory")

Mapping == mapping.frame # NoFrame
Missing == {t \in TablesOf(mapping.page) : tables[t] = NoFrame}

(* next_table, which map calls from the third level down. *)
NextTable ==
  /\ Mapping /\ phase \in {"heap", "run"}
  /\ \E t \in Missing, s \in frames :
       /\ \A u \in Missing : t <= u
       /\ Alloc(s, 1)
       /\ tables' = [tables EXCEPT ![t] = s]
  /\ UNCHANGED <<allocator, root, pages, mapping, heap, nic, gathered, dsp, phase>>

NextTableFails ==
  /\ Mapping /\ phase \in {"heap", "run"}
  /\ Missing # {} /\ Runs(1) = {}
  /\ Halt("out of memory")

(* The entry itself, and the bookkeeping of the caller. *)
SetEntry ==
  /\ Mapping /\ phase \in {"heap", "run"}
  /\ Missing = {}
  /\ pages' = [pages EXCEPT ![mapping.page] = mapping.frame]
  /\ mapping' = NoMapping
  /\ IF phase = "heap" THEN addr' = addr + 1 /\ UNCHANGED committed
                       ELSE committed' = committed + 1 /\ UNCHANGED addr
  /\ UNCHANGED <<allocator, used, root, tables, dynamic, nic, gathered, dsp, phase>>

-------------------------------------------------------------------------------
(* The heap. *)

(* Both callers take a frame and have it mapped. *)
TakePage(page) ==
  /\ \E s \in frames :
       /\ Alloc(s, 1)
       /\ mapping' = [page |-> page, frame |-> s]
  /\ UNCHANGED <<allocator, root, tables, pages, heap, nic, gathered, dsp, phase>>

(* map_and_commit, one turn of its loop *)
CommitPage ==
  /\ phase = "heap" /\ root # NoFrame /\ ~Mapping /\ addr < HeapInitial
  /\ TakePage(addr)

CommitPageFails ==
  /\ phase = "heap" /\ root # NoFrame /\ ~Mapping /\ addr < HeapInitial
  /\ Runs(1) = {}
  /\ Halt("out of memory")

(* Mistake: the loop ends one page early. *)
HeapReadyEarly ==
  /\ phase = "heap" /\ ~Mapping
  /\ root = NoFrame \/ addr = HeapInitial - 1
  /\ committed' = HeapInitial
  /\ dynamic' = (root # NoFrame)
  /\ phase' = "run"
  /\ UNCHANGED <<allocator, used, root, tables, pages, mapping, addr, nic, gathered, dsp>>

(* The end of heap::init; without tables of our own the heap stays as it is. *)
HeapReady ==
  /\ phase = "heap" /\ ~Mapping
  /\ root = NoFrame \/ addr = HeapInitial
  /\ committed' = HeapInitial
  /\ dynamic' = (root # NoFrame)
  /\ phase' = "run"
  /\ UNCHANGED <<allocator, used, root, tables, pages, mapping, addr, nic, gathered, dsp>>

Idle == phase = "run" /\ ~Mapping /\ gathered = <<>>

(* Mistake: a page taken for missing whatever its entry says. *)
GrowableAny(page) == dynamic /\ page \in Pages

(* A page of the heap that can be brought in by grow. *)
Growable(page) == dynamic /\ page \in Pages /\ pages[page] = NoFrame

(* page_fault at a page of the heap, or outside it (HeapMax).  The check   *)
(* in the handler and the one in grow ask for the same bit.                *)
PageFault(page) ==
  /\ Idle /\ Growable(page)
  /\ TakePage(page)

PageFaultFails(page) ==
  /\ Idle
  /\ IF Growable(page) THEN Runs(1) = {} /\ Halt("out of memory")
                       ELSE Halt("fault")

-------------------------------------------------------------------------------
(* Buffers of the drivers. *)

NicSize == IF gathered = <<>> THEN RxFrames ELSE 1

(* rtl8139::init, called again by each command that uses the network. *)
NicBuffer ==
  /\ phase = "run" /\ ~Mapping /\ Len(gathered) < Buffers
  /\ \E s \in frames :
       /\ Alloc(s, NicSize)
       /\ gathered' = Append(gathered, Run(s, NicSize))
  /\ UNCHANGED <<allocator, root, tables, pages, mapping, heap, nic, dsp, phase>>

NicBufferFails ==
  /\ phase = "run" /\ ~Mapping /\ Len(gathered) < Buffers
  /\ Runs(NicSize) = {}
  /\ gathered' = <<>>
  /\ UNCHANGED <<allocator, used, root, tables, pages, mapping, heap, nic, dsp, phase>>

NicReady ==
  /\ Len(gathered) = Buffers
  /\ nic' = gathered
  /\ gathered' = <<>>
  /\ UNCHANGED <<allocator, used, root, tables, pages, mapping, heap, dsp, phase>>

(* ensure_beep_buffer and ensure_stream_buffer; the card cannot reach a    *)
(* frame above the limit, which is then neither used nor given back.       *)
DspBuffer(d) ==
  /\ Idle /\ dsp[d] = NoFrame
  /\ \E s \in frames :
       /\ Alloc(s, 1)
       /\ dsp' = IF s < DmaLimit THEN [dsp EXCEPT ![d] = s] ELSE dsp
  /\ UNCHANGED <<allocator, root, tables, pages, mapping, heap, nic, gathered, phase>>

Next ==
  \/ InitAllocator
  \/ InitPaging \/ InitPagingFails
  \/ NextTable \/ NextTableFails \/ SetEntry
  \/ CommitPage \/ CommitPageFails \/ HeapReady
  \/ \E page \in 0 .. HeapMax : PageFault(page) \/ PageFaultFails(page)
  \/ NicBuffer \/ NicBufferFails \/ NicReady
  \/ \E d \in Dsps : DspBuffer(d)

Spec == Init /\ [][Next]_vars

-------------------------------------------------------------------------------
(* Correctness. *)

TypeOK ==
  /\ memmap \in Seq(Regions)
  /\ frames \subseteq Nat /\ used \subseteq frames /\ bitmap \subseteq used
  /\ root \in Nat \cup {NoFrame}
  /\ tables \in [TableIds -> Nat \cup {NoFrame}]
  /\ pages \in [Pages -> Nat \cup {NoFrame}]
  /\ mapping \in [page: Pages, frame: Nat \cup {NoFrame}]
  /\ addr \in 0 .. HeapInitial /\ committed \in Nat /\ dynamic \in BOOLEAN
  /\ nic \in Seq(SUBSET Nat) /\ Len(nic) \in {0, Buffers}
  /\ gathered \in Seq(SUBSET Nat) /\ Len(gathered) <= Buffers
  /\ dsp \in [Dsps -> Nat \cup {NoFrame}]
  /\ phase \in Phases

(* What holds frames, and the frames each of it holds. *)
Holders ==
  {<<"bitmap", 0>>, <<"root", 0>>, <<"mapping", 0>>} \cup ({"table"} \X TableIds)
    \cup ({"page"} \X Pages) \cup ({"nic", "gathered"} \X (1 .. Buffers)) \cup ({"dsp"} \X Dsps)

One(frame) == IF frame = NoFrame THEN {} ELSE {frame}
Buffer(buffers, i) == IF i \in DOMAIN buffers THEN buffers[i] ELSE {}

Held(h) ==
  CASE h[1] = "bitmap"   -> bitmap
    [] h[1] = "root"     -> One(root)
    [] h[1] = "mapping"  -> One(mapping.frame)
    [] h[1] = "table"    -> One(tables[h[2]])
    [] h[1] = "page"     -> One(pages[h[2]])
    [] h[1] = "nic"      -> Buffer(nic, h[2])
    [] h[1] = "gathered" -> Buffer(gathered, h[2])
    [] h[1] = "dsp"      -> One(dsp[h[2]])

(* No frame has two uses: none of the bitmap, the page tables, the pages   *)
(* of the heap and the buffers the cards write to overlap.  All lie in     *)
(* usable memory and are marked in the bitmap.                             *)
FramesApart ==
  /\ \A g, h \in Holders : g # h => Held(g) \cap Held(h) = {}
  /\ \A h \in Holders : Held(h) \subseteq used \cap Usable

(* Between two faults COMMITTED is the memory the heap has, and the part   *)
(* the heap started with is there.                                         *)
CommittedIsBacked ==
  phase = "run" /\ ~Mapping /\ dynamic =>
    /\ committed = Cardinality({p \in Pages : pages[p] # NoFrame})
    /\ \A p \in 0 .. HeapInitial - 1 : pages[p] # NoFrame

(* The machine stops for want of memory only when every frame is taken.    *)
HaltsOnlyWhenFull == phase = "out of memory" => used = frames

(* A page and a table stay where they were mapped, until the machine stops. *)
MappingsKept ==
  [][/\ \A p \in Pages : pages[p] # NoFrame => pages'[p] = pages[p]
     /\ \A t \in TableIds : tables[t] # NoFrame => tables'[t] = tables[t]]_vars
===============================================================================
