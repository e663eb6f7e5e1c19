----------------------------- MODULE MemoryProofs -----------------------------
(* Memory is kept apart, for every memory map and every size of the heap.   *)
EXTENDS Memory, FiniteSetTheorems, TLAPS

Backed == {p \in Pages : pages[p] # NoFrame}

(* What the phases of the boot leave, and why a page is mapped once.        *)
PhaseInv ==
  /\ frames \ used \subseteq Usable
  /\ phase = "allocator" => used = {}
  /\ phase \in {"allocator", "paging"} => addr = 0 /\ ~Mapping
  /\ phase \in {"allocator", "paging", "heap"} =>
       \A p \in Pages : pages[p] # NoFrame <=> p < addr
  /\ phase = "heap" /\ Mapping => mapping.page = addr /\ addr < HeapInitial
  /\ phase = "run" /\ Mapping => dynamic /\ pages[mapping.page] = NoFrame
  /\ phase = "run" /\ dynamic =>
       /\ committed = Cardinality(Backed)
       /\ \A p \in 0 .. HeapInitial - 1 : pages[p] # NoFrame

Inv == TypeOK /\ FramesApart /\ PhaseInv /\ HaltsOnlyWhenFull

USE DEF NoFrame

-------------------------------------------------------------------------------
(* The constants. *)

LEMMA TablesAreTables ==
  ASSUME NEW page \in Pages
  PROVE  TablesOf(page) \subseteq TableIds
<1>1. page \div PagesPerTable \in Nat /\ (HeapMax - 1) \div PagesPerTable \in Nat
  BY MemoryAssumption DEF Pages
<1>2. page \div PagesPerTable <= (HeapMax - 1) \div PagesPerTable
  BY MemoryAssumption DEF Pages
<1>3. QED
  BY <1>1, <1>2 DEF TablesOf, TableIds

LEMMA InitialPages == HeapInitial \in Nat /\ 0 .. HeapInitial - 1 \subseteq Pages
  BY MemoryAssumption DEF Pages

-------------------------------------------------------------------------------
(* Who holds what. *)

LEMMA HolderKinds ==
  ASSUME NEW h \in Holders
  PROVE  \/ h = <<"bitmap", 0>> \/ h = <<"root", 0>> \/ h = <<"mapping", 0>>
         \/ \E t \in TableIds : h = <<"table", t>>
         \/ \E p \in Pages : h = <<"page", p>>
         \/ \E i \in 1 .. Buffers : h = <<"nic", i>> \/ h = <<"gathered", i>>
         \/ \E d \in Dsps : h = <<"dsp", d>>
  BY DEF Holders

LEMMA HeldByKind ==
  /\ Held(<<"bitmap", 0>>) = bitmap
  /\ Held(<<"root", 0>>) = One(root)
  /\ Held(<<"mapping", 0>>) = One(mapping.frame)
  /\ \A t \in TableIds : Held(<<"table", t>>) = One(tables[t])
  /\ \A p \in Pages : Held(<<"page", p>>) = One(pages[p])
  /\ \A i \in 1 .. Buffers : Held(<<"nic", i>>) = Buffer(nic, i)
  /\ \A i \in 1 .. Buffers : Held(<<"gathered", i>>) = Buffer(gathered, i)
  /\ \A d \in Dsps : Held(<<"dsp", d>>) = One(dsp[d])
  BY DEF Held

(* The same of the next state. *)
LEMMA HeldByKindNext ==
  /\ Held(<<"bitmap", 0>>)' = bitmap'
  /\ Held(<<"root", 0>>)' = One(root')
  /\ Held(<<"mapping", 0>>)' = One(mapping'.frame)
  /\ \A t \in TableIds : Held(<<"table", t>>)' = One(tables'[t])
  /\ \A p \in Pages : Held(<<"page", p>>)' = One(pages'[p])
  /\ \A i \in 1 .. Buffers : Held(<<"nic", i>>)' = Buffer(nic', i)
  /\ \A i \in 1 .. Buffers : Held(<<"gathered", i>>)' = Buffer(gathered', i)
  /\ \A d \in Dsps : Held(<<"dsp", d>>)' = One(dsp'[d])
  BY DEF Held, One, Buffer

(* Steps that touch none of the allocations leave every holder as it was.   *)
LEMMA HoldingsKept ==
  ASSUME UNCHANGED <<bitmap, root, tables, pages, mapping, nic, gathered, dsp>>
  PROVE  \A h \in Holders : Held(h)' = Held(h)
  BY DEF Held, One, Buffer

(* Frames stay apart when one holder gets fresh frames and no other gains   *)
(* any.                                                                     *)
LEMMA OneMore ==
  ASSUME FramesApart, Usable' = Usable,
         NEW g \in Holders, NEW F,
         F \cap used = {}, F \subseteq Usable, used' = used \cup F,
         Held(g)' \subseteq F,
         \A h \in Holders : h # g => Held(h)' \subseteq Held(h)
  PROVE  FramesApart'
<1>1. \A h \in Holders : h # g => Held(h)' \cap Held(g)' = {}
  BY DEF FramesApart
<1>2. \A h, k \in Holders : h # k /\ h # g /\ k # g => Held(h)' \cap Held(k)' = {}
  BY DEF FramesApart
<1>3. \A h \in Holders : Held(h)' \subseteq used' \cap Usable'
  BY DEF FramesApart
<1>4. \A h, k \in Holders : h # k => Held(h)' \cap Held(k)' = {}
  BY <1>1, <1>2
<1>5. QED
  BY <1>3, <1>4 DEF FramesApart

(* They stay apart when holders exchange what they hold. *)
LEMMA Exchanged ==
  ASSUME FramesApart, Usable' = Usable, used' = used,
         NEW r \in [Holders -> Holders],
         \A h, k \in Holders : h # k => r[h] # r[k],
         \A h \in Holders : Held(h)' \subseteq Held(r[h])
  PROVE  FramesApart'
<1>1. \A h \in Holders : r[h] \in Holders
  OBVIOUS
<1>2. \A h, k \in Holders : h # k => Held(h)' \cap Held(k)' = {}
  BY <1>1 DEF FramesApart
<1>3. \A h \in Holders : Held(h)' \subseteq used' \cap Usable'
  BY <1>1 DEF FramesApart
<1>4. QED
  BY <1>2, <1>3 DEF FramesApart

LEMMA SingleRun == \A s \in Int : Run(s, 1) = {s}
  BY DEF Run

(* What alloc_frames returns was free and is usable memory. *)
LEMMA AllocIsFresh ==
  ASSUME TypeOK, PhaseInv, NEW s, NEW n \in Nat, Alloc(s, n)
  PROVE  /\ s \in frames
         /\ Run(s, n) \cap used = {}
         /\ Run(s, n) \subseteq Usable
         /\ used' = used \cup Run(s, n)
         /\ used' \subseteq frames
<1>1. s \in frames /\ Run(s, n) \subseteq frames \ used
  BY DEF Alloc, FirstRun, Runs
<1>2. QED
  BY <1>1 DEF Alloc, TypeOK, PhaseInv

-------------------------------------------------------------------------------
(* Boot. *)

LEMMA InitInv ==
  ASSUME Init
  PROVE  Inv
<1>1. TypeOK
  <2>1. memmap \in Seq(Regions)
    BY MemoryAssumption DEF Init
  <2>2. 0 \in Pages /\ 0 \in 0 .. HeapInitial
    BY MemoryAssumption DEF Pages
  <2>3. mapping \in [page: Pages, frame: Nat \cup {NoFrame}]
    BY <2>2 DEF Init, NoMapping
  <2>4. /\ nic \in Seq(SUBSET Nat) /\ Len(nic) \in {0, Buffers}
        /\ gathered \in Seq(SUBSET Nat) /\ Len(gathered) <= Buffers
    BY DEF Init, Buffers
  <2>5. /\ tables \in [TableIds -> Nat \cup {NoFrame}]
        /\ pages \in [Pages -> Nat \cup {NoFrame}]
        /\ dsp \in [Dsps -> Nat \cup {NoFrame}]
    BY DEF Init
  <2>6. QED
    BY <2>1, <2>2, <2>3, <2>4, <2>5 DEF Init, TypeOK, Phases
<1>2. FramesApart
  <2>1. \A h \in Holders : Held(h) = {}
    <3>1. TAKE h \in Holders
    <3>2. \A i : Buffer(nic, i) = {} /\ Buffer(gathered, i) = {}
      BY DEF Init, Buffer
    <3>3. One(root) = {} /\ One(mapping.frame) = {}
      BY DEF Init, One, NoMapping
    <3>4. /\ \A t \in TableIds : One(tables[t]) = {}
          /\ \A p \in Pages : One(pages[p]) = {}
          /\ \A d \in Dsps : One(dsp[d]) = {}
      BY DEF Init, One
    <3>5. bitmap = {}
      BY DEF Init
    <3>6. QED
      BY <3>2, <3>3, <3>4, <3>5, HolderKinds, HeldByKind
  <2>2. QED
    BY <2>1 DEF FramesApart
<1>3. PhaseInv
  BY DEF Init, PhaseInv, Mapping, NoMapping, Pages
<1>4. HaltsOnlyWhenFull
  BY DEF Init, HaltsOnlyWhenFull
<1>5. QED
  BY <1>1, <1>2, <1>3, <1>4 DEF Inv

(* The bitmap's own frames, which are usable, are marked again after the    *)
(* usable ones were opened.                                                 *)
LEMMA InitAllocatorInv ==
  ASSUME Inv, InitAllocator
  PROVE  Inv'
<1> USE DEF Inv
<1>1. phase = "allocator" /\ phase' = "paging" /\ used = {}
  BY DEF InitAllocator, PhaseInv
<1>2. Usable' = Usable
  BY DEF InitAllocator, Usable, UsableRegions
<1>3. \A h \in Holders : h # <<"bitmap", 0>> => Held(h)' = {}
  <2>1. \A h \in Holders : Held(h) = {}
    BY <1>1 DEF FramesApart
  <2>2. UNCHANGED <<root, tables, pages, mapping, nic, gathered, dsp>>
    BY DEF InitAllocator
  <2>3. \A h \in Holders : h # <<"bitmap", 0>> => Held(h)' = Held(h)
    BY <2>2, HolderKinds, HeldByKind, HeldByKindNext, SMTT(30)
  <2>4. QED
    BY <2>1, <2>3
<1>4. /\ frames' \subseteq Nat /\ used' \subseteq frames'
      /\ bitmap' \subseteq used' /\ bitmap' \subseteq Usable
      /\ frames' \ used' \subseteq Usable
  <2>1. CASE UNCHANGED <<bitmap, frames, used>>
    BY <2>1, <1>1 DEF TypeOK, PhaseInv
  <2>2. ASSUME NEW last \in DOMAIN memmap,
               NEW i \in Fitting((End(last) + BitsPerFrame - 1) \div BitsPerFrame),
               \A j \in DOMAIN memmap : End(j) <= End(last),
               bitmap' = Run(memmap[i].base, (End(last) + BitsPerFrame - 1) \div BitsPerFrame),
               frames' = 0 .. End(last) - 1,
               used' = (frames' \ Usable) \cup bitmap'
        PROVE  /\ frames' \subseteq Nat /\ used' \subseteq frames'
               /\ bitmap' \subseteq used' /\ bitmap' \subseteq Usable
               /\ frames' \ used' \subseteq Usable
    <3> DEFINE need == (End(last) + BitsPerFrame - 1) \div BitsPerFrame
    <3>1. \A j \in DOMAIN memmap : memmap[j] \in Regions
      BY DEF TypeOK
    <3>2. \A j \in DOMAIN memmap : End(j) \in Nat /\ memmap[j].base \in Nat /\ memmap[j].length \in Nat
      BY <3>1 DEF Regions, End
    <3>3. need \in Nat
      BY <3>2, MemoryAssumption
    <3>4. i \in UsableRegions /\ i \in DOMAIN memmap /\ memmap[i].length >= need
      BY <2>2 DEF Fitting, UsableRegions
    <3>5. bitmap' \subseteq Run(memmap[i].base, memmap[i].length)
      BY <2>2, <3>2, <3>3, <3>4 DEF Run
    <3>6. bitmap' \subseteq Usable
      BY <3>4, <3>5 DEF Usable
    <3>7. bitmap' \subseteq frames'
      BY <2>2, <3>2, <3>4, <3>5 DEF Run, End
    <3>8. frames' \subseteq Nat
      BY <2>2, <3>2
    <3>9. QED
      BY <2>2, <3>6, <3>7, <3>8
  <2>3. QED
    BY <2>1, <2>2 DEF InitAllocator
<1>5. TypeOK'
  BY <1>1, <1>4 DEF TypeOK, InitAllocator, heap, Phases
<1>6. FramesApart'
  <2>1. Held(<<"bitmap", 0>>)' = bitmap'
    BY HeldByKindNext
  <2>2. \A h \in Holders : Held(h)' \subseteq used' \cap Usable'
    BY <1>2, <1>3, <1>4, <2>1
  <2>3. \A g, h \in Holders : g # h => Held(g)' \cap Held(h)' = {}
    BY <1>3
  <2>4. QED
    BY <2>2, <2>3 DEF FramesApart
<1>7. PhaseInv'
  BY <1>1, <1>2, <1>4 DEF PhaseInv, InitAllocator, heap, Mapping
<1>8. HaltsOnlyWhenFull'
  BY <1>1 DEF HaltsOnlyWhenFull
<1>9. QED
  BY <1>5, <1>6, <1>7, <1>8

LEMMA UsableStays == UNCHANGED allocator => Usable' = Usable
  BY DEF allocator, Usable, UsableRegions

LEMMA HaltInv ==
  ASSUME Inv, NEW why \in {"out of memory", "fault"}, Halt(why),
         why = "out of memory" => used = frames
  PROVE  Inv'
<1>1. TypeOK'
  BY DEF Inv, TypeOK, Halt, allocator, heap, Phases
<1>2. FramesApart'
  <2>1. UNCHANGED <<bitmap, root, tables, pages, mapping, nic, gathered, dsp, used>> /\ Usable' = Usable
    BY UsableStays DEF Halt, allocator
  <2>2. \A h \in Holders : Held(h)' = Held(h)
    BY <2>1, HoldingsKept
  <2>3. QED
    BY <2>1, <2>2 DEF Inv, FramesApart
<1>3. PhaseInv'
  <2>1. UNCHANGED <<used, frames, pages, mapping, addr, committed, dynamic>> /\ Usable' = Usable
    BY UsableStays DEF Halt, allocator, heap
  <2>2. phase' \notin {"allocator", "paging", "heap", "run"}
    BY DEF Halt
  <2>3. QED
    BY <2>1, <2>2 DEF Inv, PhaseInv
<1>4. HaltsOnlyWhenFull'
  BY DEF HaltsOnlyWhenFull, Halt, allocator
<1>5. QED
  BY <1>1, <1>2, <1>3, <1>4 DEF Inv

(* No run of one frame: none is free. *)
LEMMA NoRunIsFull ==
  ASSUME TypeOK, Runs(1) = {}
  PROVE  used = frames
<1>1. \A s \in frames : Run(s, 1) = {s}
  BY SingleRun DEF TypeOK
<1>2. \A s \in frames \ used : s \in Runs(1)
  BY <1>1 DEF Runs
<1>3. QED
  BY <1>2 DEF TypeOK

LEMMA InitPagingInv ==
  ASSUME Inv, InitPaging
  PROVE  Inv'
<1> USE DEF Inv
<1>1. CASE frames = {} /\ UNCHANGED <<used, root>>
  <2>1. /\ UNCHANGED <<bitmap, root, tables, pages, mapping, nic, gathered, dsp, used, frames>>
        /\ Usable' = Usable /\ phase' = "heap" /\ phase = "paging"
    BY <1>1, UsableStays DEF InitPaging, allocator
  <2>2. \A h \in Holders : Held(h)' = Held(h)
    BY <2>1, HoldingsKept
  <2>3. FramesApart'
    BY <2>1, <2>2 DEF FramesApart
  <2>4. TypeOK'
    BY <2>1 DEF TypeOK, InitPaging, allocator, heap, Phases
  <2>5. PhaseInv'
    BY <2>1 DEF PhaseInv, InitPaging, heap, Mapping
  <2>6. QED
    BY <2>1, <2>3, <2>4, <2>5 DEF HaltsOnlyWhenFull
<1>2. ASSUME NEW s \in frames, Alloc(s, 1), root' = s
      PROVE  Inv'
  <2>1. /\ UNCHANGED <<bitmap, tables, pages, mapping, nic, gathered, dsp, frames>>
        /\ Usable' = Usable /\ phase' = "heap" /\ phase = "paging"
    BY <1>2, UsableStays DEF InitPaging, allocator
  <2>2. /\ {s} \cap used = {} /\ {s} \subseteq Usable
        /\ used' = used \cup {s} /\ used' \subseteq frames
    BY <1>2, AllocIsFresh, SingleRun DEF TypeOK
  <2>3. FramesApart'
    <3>1. \A h \in Holders : h # <<"root", 0>> => Held(h)' \subseteq Held(h)
      BY <2>1, HolderKinds, HeldByKind, HeldByKindNext, SMTT(30)
    <3>2. Held(<<"root", 0>>)' \subseteq {s} /\ <<"root", 0>> \in Holders
      BY <1>2, HeldByKindNext DEF One, Holders
    <3>3. QED
      BY <2>1, <2>2, <3>1, <3>2, OneMore
  <2>4. TypeOK'
    BY <1>2, <2>1, <2>2 DEF TypeOK, InitPaging, allocator, heap, Phases
  <2>5. PhaseInv'
    BY <2>1, <2>2 DEF PhaseInv, InitPaging, heap, Mapping
  <2>6. QED
    BY <2>1, <2>3, <2>4, <2>5 DEF HaltsOnlyWhenFull
<1>3. QED
  BY <1>1, <1>2 DEF InitPaging

-------------------------------------------------------------------------------
(* Mapping a page. *)

LEMMA NextTableInv ==
  ASSUME Inv, NextTable
  PROVE  Inv'
<1> USE DEF Inv
<1>1. PICK t \in Missing, s \in frames :
        Alloc(s, 1) /\ tables' = [tables EXCEPT ![t] = s]
  BY DEF NextTable
<1>2. t \in TableIds
  BY TablesAreTables DEF Missing, TypeOK
<1>3. /\ UNCHANGED <<bitmap, root, pages, mapping, nic, gathered, dsp, frames, phase, addr,
                     committed, dynamic>>
      /\ Usable' = Usable /\ phase \in {"heap", "run"}
  BY UsableStays DEF NextTable, allocator, heap
<1>4. /\ {s} \cap used = {} /\ {s} \subseteq Usable
      /\ used' = used \cup {s} /\ used' \subseteq frames
  BY <1>1, AllocIsFresh, SingleRun DEF TypeOK
<1>5. tables' \in [TableIds -> Nat \cup {NoFrame}] /\ tables'[t] = s
      /\ \A u \in TableIds : u # t => tables'[u] = tables[u]
  BY <1>1, <1>2 DEF TypeOK
<1>6. FramesApart'
  <2>1. \A h \in Holders : h # <<"table", t>> => Held(h)' \subseteq Held(h)
    BY <1>3, <1>5, HolderKinds, HeldByKind, HeldByKindNext, SMTT(30)
  <2>2. Held(<<"table", t>>)' \subseteq {s} /\ <<"table", t>> \in Holders
    BY <1>2, <1>5, HeldByKindNext DEF One, Holders
  <2>3. QED
    BY <1>3, <1>4, <2>1, <2>2, OneMore
<1>7. TypeOK'
  BY <1>3, <1>4, <1>5 DEF TypeOK, NextTable, allocator
<1>8. PhaseInv'
  BY <1>3, <1>4 DEF PhaseInv, Mapping, Backed
<1>9. QED
  BY <1>3, <1>6, <1>7, <1>8 DEF HaltsOnlyWhenFull

LEMMA TakePageInv ==
  ASSUME Inv, NEW page \in Pages, ~Mapping, TakePage(page),
         \/ phase = "heap" /\ page = addr /\ addr < HeapInitial
         \/ phase = "run" /\ dynamic /\ pages[page] = NoFrame
  PROVE  Inv'
<1> USE DEF Inv
<1>1. PICK s \in frames : Alloc(s, 1) /\ mapping' = [page |-> page, frame |-> s]
  BY DEF TakePage
<1>2. /\ UNCHANGED <<bitmap, root, tables, pages, nic, gathered, dsp, frames, phase, addr,
                     committed, dynamic>>
      /\ Usable' = Usable
  BY UsableStays DEF TakePage, allocator, heap
<1>3. /\ {s} \cap used = {} /\ {s} \subseteq Usable
      /\ used' = used \cup {s} /\ used' \subseteq frames
  BY <1>1, AllocIsFresh, SingleRun DEF TypeOK
<1>4. FramesApart'
  <2>1. \A h \in Holders : h # <<"mapping", 0>> => Held(h)' \subseteq Held(h)
    BY <1>2, HolderKinds, HeldByKind, HeldByKindNext, SMTT(30)
  <2>2. Held(<<"mapping", 0>>)' \subseteq {s} /\ <<"mapping", 0>> \in Holders
    BY <1>1, HeldByKindNext DEF One, Holders
  <2>3. QED
    BY <1>2, <1>3, <2>1, <2>2, OneMore
<1>5. TypeOK'
  <2>1. mapping' \in [page: Pages, frame: Nat \cup {NoFrame}]
    BY <1>1 DEF TypeOK
  <2>2. QED
    BY <2>1, <1>2, <1>3 DEF TypeOK, TakePage, allocator
<1>6. PhaseInv'
  BY <1>1, <1>2, <1>3 DEF PhaseInv, Mapping, Backed
<1>7. QED
  BY <1>2, <1>4, <1>5, <1>6 DEF HaltsOnlyWhenFull

(* The frame goes from the mapping to the page, which had none.             *)
LEMMA SetEntryInv ==
  ASSUME Inv, SetEntry
  PROVE  Inv'
<1> USE DEF Inv
<1>1. /\ UNCHANGED <<bitmap, root, tables, nic, gathered, dsp, frames, used, phase, dynamic>>
      /\ Usable' = Usable /\ phase \in {"heap", "run"} /\ Mapping
  BY UsableStays DEF SetEntry, allocator
<1>2. PICK page \in Pages : page = mapping.page /\ mapping.frame \in Nat
  BY <1>1 DEF TypeOK, Mapping
<1>3. /\ pages' \in [Pages -> Nat \cup {NoFrame}]
      /\ pages'[page] = mapping.frame
      /\ \A p \in Pages : p # page => pages'[p] = pages[p]
  BY <1>2 DEF SetEntry, TypeOK
<1>4. mapping' = NoMapping /\ ~Mapping'
  BY DEF SetEntry, Mapping, NoMapping
<1>5. pages[page] = NoFrame
  BY <1>1, <1>2 DEF PhaseInv, Mapping, TypeOK
<1>6. FramesApart'
  <2> DEFINE hp == <<"page", page>>
             hm == <<"mapping", 0>>
             r == [h \in Holders |-> IF h = hp THEN hm ELSE IF h = hm THEN hp ELSE h]
  <2>1. hp \in Holders /\ hm \in Holders /\ hp # hm
    BY <1>2 DEF Holders
  <2>2. r \in [Holders -> Holders] /\ \A h, k \in Holders : h # k => r[h] # r[k]
    BY <2>1
  <2>3. Held(hp)' = Held(hm)
    BY <1>2, <1>3, HeldByKind, HeldByKindNext
  <2>4. Held(hm)' = {}
    BY <1>4, HeldByKindNext DEF One, NoMapping
  <2>5. \A h \in Holders : h # hp /\ h # hm => Held(h)' = Held(h)
    BY <1>1, <1>3, HolderKinds, HeldByKind, HeldByKindNext, SMTT(30)
  <2>6. \A h \in Holders : Held(h)' \subseteq Held(r[h])
    BY <2>1, <2>3, <2>4, <2>5
  <2>7. QED
    BY <1>1, <2>2, <2>6, Exchanged
<1>7. CASE phase = "heap"
  <2>1. page = addr /\ addr < HeapInitial /\ addr' = addr + 1 /\ UNCHANGED committed
    BY <1>1, <1>2, <1>7 DEF PhaseInv, SetEntry
  <2>2. TypeOK'
    BY <1>1, <1>3, <1>4, <2>1, InitialPages, MemoryAssumption
       DEF TypeOK, SetEntry, allocator, NoMapping, Pages
  <2>3. \A p \in Pages : pages'[p] # NoFrame <=> p < addr'
    BY <1>2, <1>3, <1>7, <2>1 DEF PhaseInv, TypeOK, Pages
  <2>4. PhaseInv'
    BY <1>1, <1>4, <1>7, <2>1, <2>3 DEF PhaseInv
  <2>5. QED
    BY <1>1, <1>6, <2>2, <2>4 DEF HaltsOnlyWhenFull
<1>8. CASE phase = "run"
  <2>1. committed' = committed + 1 /\ UNCHANGED addr /\ dynamic
    BY <1>1, <1>8 DEF PhaseInv, SetEntry
  <2>2. TypeOK'
    BY <1>1, <1>3, <1>4, <2>1, MemoryAssumption
       DEF TypeOK, SetEntry, allocator, NoMapping, Pages
  <2>3. committed' = Cardinality(Backed')
    <3>1. IsFiniteSet(Backed)
      <4>1. IsFiniteSet(Pages)
        BY FS_Interval, MemoryAssumption DEF Pages
      <4>2. Backed \subseteq Pages
        BY DEF Backed
      <4>3. QED
        BY <4>1, <4>2, FS_Subset
    <3>2. Backed' = Backed \cup {page} /\ page \notin Backed
      BY <1>2, <1>3, <1>5 DEF Backed
    <3>3. QED
      BY <1>8, <2>1, <3>1, <3>2, FS_AddElement DEF PhaseInv
  <2>4. \A p \in 0 .. HeapInitial - 1 : pages'[p] # NoFrame
    BY <1>2, <1>3, <1>8, <2>1, InitialPages DEF PhaseInv
  <2>5. PhaseInv'
    BY <1>1, <1>4, <1>8, <2>3, <2>4 DEF PhaseInv
  <2>6. QED
    BY <1>1, <1>6, <2>2, <2>5 DEF HaltsOnlyWhenFull
<1>9. QED
  BY <1>1, <1>7, <1>8

(* When the loop of map_and_commit ends its pages are mapped and no other.  *)
LEMMA HeapReadyInv ==
  ASSUME Inv, HeapReady
  PROVE  Inv'
<1> USE DEF Inv
<1>1. /\ UNCHANGED <<bitmap, root, tables, pages, mapping, nic, gathered, dsp, frames, used>>
      /\ Usable' = Usable /\ phase = "heap" /\ phase' = "run" /\ ~Mapping
      /\ committed' = HeapInitial /\ dynamic' = (root # NoFrame)
      /\ root = NoFrame \/ addr = HeapInitial
  BY UsableStays DEF HeapReady, allocator
<1>2. FramesApart'
  <2>1. \A h \in Holders : Held(h)' = Held(h)
    BY <1>1, HoldingsKept
  <2>2. QED
    BY <1>1, <2>1 DEF FramesApart
<1>3. TypeOK'
  BY <1>1, InitialPages DEF TypeOK, HeapReady, allocator, Phases
<1>4. PhaseInv'
  <2>1. ASSUME addr = HeapInitial
        PROVE  /\ HeapInitial = Cardinality(Backed)
               /\ \A p \in 0 .. HeapInitial - 1 : pages[p] # NoFrame
    <3>1. Backed = 0 .. HeapInitial - 1
      BY <1>1, <2>1, InitialPages DEF PhaseInv, Backed, Pages
    <3>2. Cardinality(0 .. HeapInitial - 1) = HeapInitial
      BY FS_Interval, InitialPages
    <3>3. QED
      BY <3>1, <3>2 DEF Backed
  <2>2. Backed' = Backed /\ ~Mapping'
    BY <1>1 DEF Backed, Mapping
  <2>3. QED
    BY <1>1, <2>1, <2>2 DEF PhaseInv
<1>5. QED
  BY <1>1, <1>2, <1>3, <1>4 DEF HaltsOnlyWhenFull

-------------------------------------------------------------------------------
(* Buffers of the drivers. *)

LEMMA NicBufferInv ==
  ASSUME Inv, NicBuffer
  PROVE  Inv'
<1> USE DEF Inv
<1>1. PICK s \in frames : Alloc(s, NicSize) /\ gathered' = Append(gathered, Run(s, NicSize))
  BY DEF NicBuffer
<1>2. /\ UNCHANGED <<bitmap, root, tables, pages, mapping, nic, dsp, frames, phase, addr,
                     committed, dynamic>>
      /\ Usable' = Usable /\ phase = "run" /\ Len(gathered) < Buffers
  BY UsableStays DEF NicBuffer, allocator, heap
<1>3. NicSize \in Nat
  BY MemoryAssumption DEF NicSize
<1>4. /\ Run(s, NicSize) \cap used = {} /\ Run(s, NicSize) \subseteq Usable
      /\ used' = used \cup Run(s, NicSize) /\ used' \subseteq frames
  BY <1>1, <1>3, AllocIsFresh
<1>5. PICK n \in 1 .. Buffers : n = Len(gathered) + 1
  BY <1>2 DEF TypeOK, Buffers
<1>6. /\ gathered' \in Seq(SUBSET Nat) /\ Len(gathered') = n
      /\ gathered'[n] = Run(s, NicSize)
      /\ \A i \in 1 .. Buffers : i # n => Buffer(gathered', i) = Buffer(gathered, i)
  <2>1. Run(s, NicSize) \in SUBSET Nat
    BY <1>1, <1>4 DEF TypeOK
  <2>2. gathered \in Seq(SUBSET Nat)
    BY DEF TypeOK
  <2>3. /\ gathered' \in Seq(SUBSET Nat) /\ Len(gathered') = n
        /\ gathered'[n] = Run(s, NicSize)
    BY <1>1, <1>5, <2>1, <2>2
  <2>4. /\ DOMAIN gathered' = 1 .. n /\ DOMAIN gathered = 1 .. n - 1
        /\ \A i \in 1 .. n - 1 : gathered'[i] = gathered[i]
    BY <1>1, <1>5, <2>1, <2>2, <2>3
  <2>5. \A i \in 1 .. Buffers : i # n => Buffer(gathered', i) = Buffer(gathered, i)
    BY <2>4 DEF Buffer
  <2>6. QED
    BY <2>3, <2>5
<1>7. FramesApart'
  <2>1. ASSUME NEW h \in Holders, h # <<"gathered", n>>
        PROVE  Held(h)' \subseteq Held(h)
    <3>1. CASE \E i \in 1 .. Buffers : h = <<"gathered", i>>
      <4>1. PICK i \in 1 .. Buffers : h = <<"gathered", i>>
        BY <3>1
      <4>2. Buffer(gathered', i) = Buffer(gathered, i)
        BY <1>6, <2>1, <4>1
      <4>3. QED
        BY <4>1, <4>2, HeldByKind, HeldByKindNext
    <3>2. CASE \A i \in 1 .. Buffers : h # <<"gathered", i>>
      BY <1>2, <3>2, HolderKinds, HeldByKind, HeldByKindNext, SMTT(30)
    <3>3. QED
      BY <3>1, <3>2
  <2>2. Held(<<"gathered", n>>)' \subseteq Run(s, NicSize) /\ <<"gathered", n>> \in Holders
    BY <1>6, HeldByKindNext DEF Buffer, Holders
  <2>3. QED
    BY <1>2, <1>4, <2>1, <2>2, OneMore
<1>8. TypeOK'
  BY <1>2, <1>4, <1>5, <1>6 DEF TypeOK, NicBuffer, allocator
<1>9. PhaseInv'
  BY <1>2, <1>4 DEF PhaseInv, Mapping, Backed
<1>10. QED
  BY <1>2, <1>7, <1>8, <1>9 DEF HaltsOnlyWhenFull

(* Buffers are dropped, their frames stay marked. *)
LEMMA NicBufferFailsInv ==
  ASSUME Inv, NicBufferFails
  PROVE  Inv'
<1> USE DEF Inv
<1>1. /\ UNCHANGED <<bitmap, root, tables, pages, mapping, nic, dsp, frames, used, phase, addr,
                     committed, dynamic>>
      /\ Usable' = Usable /\ phase = "run" /\ gathered' = <<>>
  BY UsableStays DEF NicBufferFails, allocator, heap
<1>2. FramesApart'
  <2>1. \A i : Buffer(gathered', i) = {}
    BY <1>1 DEF Buffer
  <2>2. \A h \in Holders : Held(h)' \subseteq Held(h)
    BY <1>1, <2>1, HolderKinds, HeldByKind, HeldByKindNext, SMTT(30)
  <2>3. QED
    BY <1>1, <2>2 DEF FramesApart
<1>3. TypeOK'
  <2>1. gathered' \in Seq(SUBSET Nat) /\ Len(gathered') <= Buffers
    BY <1>1 DEF Buffers
  <2>2. QED
    BY <1>1, <2>1 DEF TypeOK, NicBufferFails, allocator
<1>4. PhaseInv'
  BY <1>1 DEF PhaseInv, Mapping, Backed
<1>5. QED
  BY <1>1, <1>2, <1>3, <1>4 DEF HaltsOnlyWhenFull

LEMMA NicReadyInv ==
  ASSUME Inv, NicReady
  PROVE  Inv'
<1> USE DEF Inv
<1>1. /\ UNCHANGED <<bitmap, root, tables, pages, mapping, dsp, frames, used, phase, addr,
                     committed, dynamic>>
      /\ Usable' = Usable /\ nic' = gathered /\ gathered' = <<>> /\ Len(gathered) = Buffers
  BY UsableStays DEF NicReady, allocator, heap
<1>2. FramesApart'
  <2> DEFINE r == [h \in Holders |-> IF h[1] = "nic" THEN <<"gathered", h[2]>>
                                     ELSE IF h[1] = "gathered" THEN <<"nic", h[2]>> ELSE h]
  <2>1. \A i \in 1 .. Buffers : <<"nic", i>> \in Holders /\ <<"gathered", i>> \in Holders
    BY DEF Holders
  <2>2. /\ \A i \in 1 .. Buffers : /\ r[<<"nic", i>>] = <<"gathered", i>>
                                   /\ r[<<"gathered", i>>] = <<"nic", i>>
        /\ \A h \in Holders : h[1] \notin {"nic", "gathered"} => r[h] = h
    BY <2>1
  <2> HIDE DEF r
  <2>3. /\ \A i \in 1 .. Buffers : r[<<"nic", i>>] \in Holders /\ r[<<"gathered", i>>] \in Holders
        /\ \A i \in 1 .. Buffers : /\ r[r[<<"nic", i>>]] = <<"nic", i>>
                                   /\ r[r[<<"gathered", i>>]] = <<"gathered", i>>
    BY <2>1, <2>2
  <2>4. \A h \in Holders : \/ \E i \in 1 .. Buffers : h = <<"nic", i>> \/ h = <<"gathered", i>>
                           \/ h[1] \notin {"nic", "gathered"}
    BY HolderKinds
  <2>5. ASSUME NEW h \in Holders PROVE r[h] \in Holders /\ r[r[h]] = h
    <3>1. CASE \E i \in 1 .. Buffers : h = <<"nic", i>> \/ h = <<"gathered", i>>
      BY <2>3, <3>1
    <3>2. CASE h[1] \notin {"nic", "gathered"}
      BY <2>2, <3>2
    <3>3. QED
      BY <2>4, <3>1, <3>2
  <2>6. r \in [Holders -> Holders] /\ \A h, k \in Holders : h # k => r[h] # r[k]
    <3>1. \A h, k \in Holders : h # k => r[h] # r[k]
      BY <2>5
    <3>2. DOMAIN r = Holders /\ r = [h \in DOMAIN r |-> r[h]]
      BY DEF r
    <3>3. QED
      BY <2>5, <3>1, <3>2
  <2>7. \A i : Buffer(gathered', i) = {} /\ Buffer(nic', i) = Buffer(gathered, i)
    BY <1>1 DEF Buffer
  <2>8. ASSUME NEW h \in Holders PROVE Held(h)' \subseteq Held(r[h])
    <3>1. CASE \E i \in 1 .. Buffers : h = <<"nic", i>> \/ h = <<"gathered", i>>
      <4>1. PICK i \in 1 .. Buffers : h = <<"nic", i>> \/ h = <<"gathered", i>>
        BY <3>1
      <4>2. CASE h = <<"nic", i>>
        BY <2>2, <2>7, <4>2, HeldByKind, HeldByKindNext
      <4>3. CASE h = <<"gathered", i>>
        BY <2>7, <4>3, HeldByKindNext
      <4>4. QED
        BY <4>1, <4>2, <4>3
    <3>2. CASE h[1] \notin {"nic", "gathered"}
      <4>1. Held(h)' = Held(h)
        BY <1>1, <3>2 DEF Held, One
      <4>2. QED
        BY <2>2, <3>2, <4>1
    <3>3. QED
      BY <2>4, <3>1, <3>2
  <2>9. QED
    BY <1>1, <2>6, <2>8, Exchanged
<1>3. TypeOK'
  <2>1. /\ gathered' \in Seq(SUBSET Nat) /\ Len(gathered') <= Buffers
        /\ nic' \in Seq(SUBSET Nat) /\ Len(nic') \in {0, Buffers}
    BY <1>1 DEF Buffers, TypeOK
  <2>2. QED
    BY <1>1, <2>1 DEF TypeOK, NicReady, allocator
<1>4. PhaseInv'
  BY <1>1 DEF PhaseInv, Mapping, Backed
<1>5. QED
  BY <1>1, <1>2, <1>3, <1>4 DEF HaltsOnlyWhenFull

(* The frame becomes the card's buffer, or nobody's. *)
LEMMA DspBufferInv ==
  ASSUME Inv, NEW d \in Dsps, DspBuffer(d)
  PROVE  Inv'
<1> USE DEF Inv
<1>1. PICK s \in frames :
        Alloc(s, 1) /\ dsp' = IF s < DmaLimit THEN [dsp EXCEPT ![d] = s] ELSE dsp
  BY DEF DspBuffer
<1>2. /\ UNCHANGED <<bitmap, root, tables, pages, mapping, nic, gathered, frames, phase, addr,
                     committed, dynamic>>
      /\ Usable' = Usable /\ phase = "run" /\ dsp[d] = NoFrame
  BY UsableStays DEF DspBuffer, Idle, allocator, heap
<1>3. /\ {s} \cap used = {} /\ {s} \subseteq Usable
      /\ used' = used \cup {s} /\ used' \subseteq frames
  BY <1>1, AllocIsFresh, SingleRun DEF TypeOK
<1>4. /\ dsp' \in [Dsps -> Nat \cup {NoFrame}] /\ dsp'[d] \in {s, NoFrame}
      /\ \A e \in Dsps : e # d => dsp'[e] = dsp[e]
  BY <1>1, <1>2 DEF TypeOK
<1>5. FramesApart'
  <2>1. \A h \in Holders : h # <<"dsp", d>> => Held(h)' \subseteq Held(h)
    BY <1>2, <1>4, HolderKinds, HeldByKind, HeldByKindNext, SMTT(30)
  <2>2. Held(<<"dsp", d>>)' \subseteq {s} /\ <<"dsp", d>> \in Holders
    BY <1>4, HeldByKindNext DEF One, Holders
  <2>3. QED
    BY <1>2, <1>3, <2>1, <2>2, OneMore
<1>6. TypeOK'
  BY <1>2, <1>3, <1>4 DEF TypeOK, DspBuffer, allocator
<1>7. PhaseInv'
  BY <1>2, <1>3 DEF PhaseInv, Mapping, Backed
<1>8. QED
  BY <1>2, <1>5, <1>6, <1>7 DEF HaltsOnlyWhenFull

-------------------------------------------------------------------------------
(* Every step keeps the invariant. *)

LEMMA NextInv ==
  ASSUME Inv, [Next]_vars
  PROVE  Inv'
<1>1. CASE InitAllocator
  BY <1>1, InitAllocatorInv
<1>2. CASE InitPaging
  BY <1>2, InitPagingInv
<1>3. CASE InitPagingFails \/ NextTableFails \/ CommitPageFails
  <2>1. Halt("out of memory") /\ Runs(1) = {}
    BY <1>3 DEF InitPagingFails, NextTableFails, CommitPageFails
  <2>2. QED
    BY <2>1, NoRunIsFull, HaltInv DEF Inv
<1>4. CASE NextTable
  BY <1>4, NextTableInv
<1>5. CASE SetEntry
  BY <1>5, SetEntryInv
<1>6. CASE CommitPage
  <2>1. /\ phase = "heap" /\ ~Mapping /\ addr < HeapInitial /\ TakePage(addr)
    BY <1>6 DEF CommitPage
  <2>2. addr \in Pages
    BY <2>1, InitialPages DEF Inv, TypeOK
  <2>3. QED
    BY <2>1, <2>2, TakePageInv
<1>7. CASE HeapReady
  BY <1>7, HeapReadyInv
<1>8. ASSUME NEW page \in 0 .. HeapMax, PageFault(page)
      PROVE  Inv'
  <2>1. /\ phase = "run" /\ ~Mapping /\ dynamic /\ page \in Pages
        /\ pages[page] = NoFrame /\ TakePage(page)
    BY <1>8 DEF PageFault, Idle, Growable
  <2>2. QED
    BY <2>1, TakePageInv
<1>9. ASSUME NEW page \in 0 .. HeapMax, PageFaultFails(page)
      PROVE  Inv'
  <2>1. \/ Runs(1) = {} /\ Halt("out of memory")
        \/ Halt("fault")
    BY <1>9 DEF PageFaultFails
  <2>2. QED
    BY <2>1, NoRunIsFull, HaltInv DEF Inv
<1>10. CASE NicBuffer
  BY <1>10, NicBufferInv
<1>11. CASE NicBufferFails
  BY <1>11, NicBufferFailsInv
<1>12. CASE NicReady
  BY <1>12, NicReadyInv
<1>13. ASSUME NEW d \in Dsps, DspBuffer(d)
       PROVE  Inv'
  BY <1>13, DspBufferInv
<1>14. CASE UNCHANGED vars
  <2>1. /\ UNCHANGED <<memmap, frames, used, bitmap, root, tables, pages, mapping>>
        /\ UNCHANGED <<addr, committed, dynamic, nic, gathered, dsp, phase>>
    BY <1>14 DEF vars, allocator, heap
  <2>2. Usable' = Usable
    BY <1>14, UsableStays DEF vars
  <2>3. \A h \in Holders : Held(h)' = Held(h)
    BY <2>1, HoldingsKept
  <2>4. TypeOK' /\ HaltsOnlyWhenFull'
    BY <2>1 DEF Inv, TypeOK, HaltsOnlyWhenFull
  <2>5. FramesApart'
    BY <2>1, <2>2, <2>3 DEF Inv, FramesApart
  <2>6. PhaseInv'
    BY <2>1, <2>2 DEF Inv, PhaseInv, Mapping, Backed
  <2>7. QED
    BY <2>4, <2>5, <2>6 DEF Inv
<1>15. QED
  BY <1>1, <1>2, <1>3, <1>4, <1>5, <1>6, <1>7, <1>8, <1>9, <1>10, <1>11, <1>12, <1>13, <1>14
     DEF Next

(* The invariant holds in every state of every behaviour. *)
THEOREM InvIsKept == Spec => []Inv
<1>1. Init => Inv
  BY InitInv
<1>2. Inv /\ [Next]_vars => Inv'
  BY NextInv
<1>3. QED
  BY <1>1, <1>2, PTL DEF Spec

(* The allocator, the tables and the drivers keep the forms their types say. *)
THEOREM TypeIsKept == Spec => []TypeOK
<1>1. Inv => TypeOK
  BY DEF Inv
<1>2. QED
  BY <1>1, InvIsKept, PTL

(* alloc_frames never hands out a frame twice, nor one that is not usable    *)
(* memory: bitmap, tables, heap and the cards' buffers are disjoint.         *)
THEOREM FramesStayApart == Spec => []FramesApart
<1>1. Inv => FramesApart
  BY DEF Inv
<1>2. QED
  BY <1>1, InvIsKept, PTL

(* What heap_size reports is what grow and map_and_commit mapped.            *)
THEOREM CommittedStaysBacked == Spec => []CommittedIsBacked
<1>1. Inv => CommittedIsBacked
  BY DEF Inv, PhaseInv, CommittedIsBacked, Backed
<1>2. QED
  BY <1>1, InvIsKept, PTL

(* The panics of paging and heap and the halt after a failed grow happen     *)
(* only when every frame is taken.                                           *)
THEOREM HaltMeansFull == Spec => []HaltsOnlyWhenFull
<1>1. Inv => HaltsOnlyWhenFull
  BY DEF Inv
<1>2. QED
  BY <1>1, InvIsKept, PTL

(* No page or table that was mapped gets another frame.                      *)
THEOREM MappingsStay == Spec => MappingsKept
<1> DEFINE Kept == /\ \A p \in Pages : pages[p] # NoFrame => pages'[p] = pages[p]
                   /\ \A t \in TableIds : tables[t] # NoFrame => tables'[t] = tables[t]
<1>1. Inv /\ [Next]_vars => [Kept]_vars
  <2> SUFFICES ASSUME Inv, Next
               PROVE  Kept
    OBVIOUS
  <2>1. CASE SetEntry
    <3>1. tables' = tables /\ pages' = [pages EXCEPT ![mapping.page] = mapping.frame]
      BY <2>1 DEF SetEntry
    <3>2. pages[mapping.page] = NoFrame
      BY <2>1 DEF SetEntry, Inv, PhaseInv, TypeOK, Mapping
    <3>3. QED
      BY <3>1, <3>2 DEF Inv, TypeOK
  <2>2. CASE NextTable
    <3>1. pages' = pages
      BY <2>2 DEF NextTable
    <3>2. PICK t \in Missing, s \in frames : tables' = [tables EXCEPT ![t] = s]
      BY <2>2 DEF NextTable
    <3>3. tables[t] = NoFrame
      BY DEF Missing
    <3>4. QED
      BY <3>1, <3>2, <3>3 DEF Inv, TypeOK
  <2>3. CASE UNCHANGED <<pages, tables>>
    BY <2>3
  <2>4. UNCHANGED <<pages, tables>> \/ SetEntry \/ NextTable
    BY DEF Next, InitAllocator, InitPaging, InitPagingFails, NextTableFails, CommitPage,
           CommitPageFails, HeapReady, PageFault, PageFaultFails, NicBuffer, NicBufferFails,
           NicReady, DspBuffer, TakePage, Halt
  <2>5. QED
    BY <2>1, <2>2, <2>3, <2>4
<1>2. QED
  BY <1>1, InvIsKept, PTL DEF Spec, MappingsKept
================================================================================
