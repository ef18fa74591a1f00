--------------------------- MODULE PhysicalMemory ---------------------------
(***************************************************************************)
(* How boot.rs finds the physical memory it may use and how                *)
(* memory/physical.rs divides it into page frames for the kernel and for   *)
(* user processes.                                                         *)
(*                                                                         *)
(* Addresses of the memory map are counted in units of which PageUnits     *)
(* make a page frame, everything else in frames.  The Vec of regions is a  *)
(* set: its order is not used before init() sorts it.                      *)
(***************************************************************************)
EXTENDS FrameList, PageTableSize

CONSTANTS
    PageUnits,    \* PAGE_SIZE
    MemoryMaps,   \* memory maps of the bootloader: sets of areas, disjoint
    KernelImage,  \* the frames of the kernel image
    HeapPages,    \* INIT_HEAP_PAGES
    AllocSizes    \* frame_count of the allocations

\* The first whole frame from addr.
UpFrame(addr) == AlignUp(addr, PageUnits) \div PageUnits

ASSUME MemoryAssumption ==
    /\ PageUnits \in Nat \ {0}
    /\ KernelImage \in [start : Nat \ {0}, end : Nat]
    /\ KernelImage.start < KernelImage.end
    /\ HeapPages \in Nat \ {0}
    /\ AllocSizes \subseteq Nat \ {0}
    \* Areas do not overlap and hold a whole page each.
    /\ \A map \in MemoryMaps : map \subseteq [start : Nat, end : Nat, usable : BOOLEAN]
    /\ \A map \in MemoryMaps : \A a \in map :
        /\ UpFrame(a.start) < a.end \div PageUnits
        /\ \A b \in map : a # b => a.end <= b.start \/ b.end <= a.start

VARIABLES
    memory_map,
    stage,              \* how far boot has come
    regions,            \* available_memory_regions
    reserved,           \* the ranges that are still to be cut out of regions
    heap_region,
    phys_limit,         \* PHYS_LIMIT
    region_iter,        \* the regions that init() has not yet given to the kernel
    available_kernel_memory,
    kernel_phys_limit,
    free_list,          \* KERNEL_PAGE_FRAME_ALLOCATOR, USER_PAGE_FRAME_ALLOCATOR
    owned               \* the blocks that alloc() has handed out

limitVars == <<phys_limit, region_iter, available_kernel_memory, kernel_phys_limit>>
bootVars  == <<memory_map, regions, reserved, heap_region, limitVars>>
vars      == <<bootVars, stage, free_list, owned>>

Space == {"Kernel", "User"}
None  == [start |-> 0, end |-> 0]

\* Frame 0 is not handed out.
NullPage == [start |-> 0, end |-> 1]

Init ==
    /\ memory_map \in MemoryMaps
    /\ stage = "scan"
    /\ regions = {}
    /\ reserved = <<>>
    /\ heap_region = None
    /\ phys_limit = 0
    /\ region_iter = {}
    /\ available_kernel_memory = 0
    /\ kernel_phys_limit = 0
    /\ free_list = [s \in Space |-> <<>>]
    /\ owned = {}

Panic(why) == stage' = why /\ UNCHANGED <<bootVars, free_list, owned>>

-----------------------------------------------------------------------------
(* boot.rs: the memory map. *)

Usable == {a \in memory_map : a.usable}

\* Areas of the scan_ functions that can hold the heap.
HeapAreas ==
    {a \in Usable : /\ (a.end - a.start) \div PageUnits >= HeapPages
                    /\ a.start >= KernelImage.end * PageUnits}

ScanMemoryMap ==
    /\ stage = "scan"
    /\ \E a \in HeapAreas :
        /\ \A b \in HeapAreas : a.start <= b.start
        /\ heap_region' = [start |-> UpFrame(a.start), end |-> UpFrame(a.start) + HeapPages]
    /\ regions' = {[start |-> UpFrame(a.start), end |-> a.end \div PageUnits] : a \in Usable}
    /\ reserved' = <<NullPage, KernelImage, heap_region'>>
    /\ stage' = "cut"
    /\ UNCHANGED <<memory_map, limitVars, free_list, owned>>

\* expect("Failed to find memory region usable for kernel heap!")
NoHeap ==
    /\ stage = "scan" /\ HeapAreas = {}
    /\ Panic("noheap")

\* Mutant: a region that reaches over the cut loses its upper part.
CutUpper(r, cut) ==
    IF r.start <= cut.end /\ r.end >= cut.start
    THEN {p \in {[start |-> r.start, end |-> cut.start]} : p.start < p.end}
    ELSE {r}

\* Mutant: a region inside the cut is not skipped.
CutInside(r, cut) ==
    IF r.start <= cut.end /\ r.end >= cut.start
    THEN {[start |-> r.start, end |-> cut.start], [start |-> cut.end, end |-> r.end]}
    ELSE {r}

\* What is left of r: the part below and the part above the cut.
CutOne(r, cut) ==
    IF r.start <= cut.end /\ r.end >= cut.start
    THEN {p \in {[start |-> r.start, end |-> cut.start], [start |-> cut.end, end |-> r.end]} :
            p.start < p.end}
    ELSE {r}

CutRegion ==
    /\ stage = "cut"
    /\ regions' = UNION {CutOne(r, Head(reserved)) : r \in regions}
    /\ reserved' = Tail(reserved)
    /\ stage' = IF Len(reserved) = 1 THEN "limit" ELSE "cut"
    /\ UNCHANGED <<memory_map, heap_region, limitVars, free_list, owned>>

-----------------------------------------------------------------------------
(* physical::init *)

\* PHYS_LIMIT is the end of the highest region.
InitLimits ==
    /\ stage = "limit"
    /\ \E r \in regions :
        /\ \A q \in regions : q.end <= r.end
        /\ phys_limit' = r.end
    /\ region_iter' = regions
    /\ available_kernel_memory' = 0
    /\ stage' = "tables"
    /\ UNCHANGED <<memory_map, regions, reserved, heap_region, kernel_phys_limit, free_list, owned>>

\* region_iter.next(): the regions are sorted.
NextRegion == {r \in region_iter : \A q \in region_iter : r.start <= q.start}

\* A region that is smaller than what is still required is the kernel's.
TakeRegion ==
    /\ stage = "tables"
    /\ \E r \in NextRegion :
        /\ available_kernel_memory + Count(r) < PageTables(phys_limit)
        /\ available_kernel_memory' = available_kernel_memory + Count(r)
        /\ region_iter' = region_iter \ {r}
    /\ UNCHANGED <<memory_map, regions, reserved, heap_region, phys_limit, kernel_phys_limit,
                   stage, free_list, owned>>

\* Mutant: the limit is the last frame that is needed, not the one after it.
LimitTooLow(r, required) ==
    IF r.start + required - 1 < heap_region.end THEN heap_region.end ELSE r.start + required - 1

\* The kernel has the first frames of r, and the heap.
KernelLimit(r, required) ==
    IF r.start + required < heap_region.end THEN heap_region.end ELSE r.start + required

\* The region with which the kernel has the memory for its page tables.
TakeRequired ==
    /\ stage = "tables"
    /\ \E r \in NextRegion : \E required \in 1..Count(r) :
        /\ available_kernel_memory + required = PageTables(phys_limit)
        /\ available_kernel_memory' = available_kernel_memory + required
        /\ region_iter' = region_iter \ {r}
        /\ kernel_phys_limit' = KernelLimit(r, required)
    /\ stage' = "fill"
    /\ UNCHANGED <<memory_map, regions, reserved, heap_region, phys_limit, free_list, owned>>

\* unwrap() of the highest region; expect("Not enough physical memory ...")
NoTables ==
    /\ \/ stage = "limit" /\ regions = {}
       \/ stage = "tables" /\ region_iter = {}
    /\ Panic("notables")

\* free: the allocator that frames belong to.
Owner(frames) == IF frames.start < kernel_phys_limit THEN "Kernel" ELSE "User"

Freed(lists, frames) ==
    [lists EXCEPT ![Owner(frames)] = FreeBlock(@, frames)]

\* A region that reaches over the limit is divided.
Filled(r) ==
    IF r.start < kernel_phys_limit /\ r.end >= kernel_phys_limit
    THEN Freed(Freed(free_list, [start |-> r.start, end |-> kernel_phys_limit]),
               [start |-> kernel_phys_limit, end |-> r.end])
    ELSE Freed(free_list, r)

InitRegion ==
    /\ stage = "fill"
    /\ \E r \in regions :
        /\ \A q \in regions : r.start <= q.start
        /\ free_list' = Filled(r)
        /\ regions' = regions \ {r}
    /\ stage' = IF regions' = {} THEN "up" ELSE "fill"
    /\ UNCHANGED <<memory_map, reserved, heap_region, limitVars, owned>>

-----------------------------------------------------------------------------
(* physical::alloc and physical::free, once memory is up. *)

Alloc(s, n) ==
    /\ stage = "up"
    /\ \E i \in FindFreeBlock(free_list[s], n) :
        /\ owned' = owned \cup {Taken(free_list[s], i, n)}
        /\ free_list' = [free_list EXCEPT ![s] = Rest(@, i, n)]
    /\ UNCHANGED <<bootVars, stage>>

\* panic!("PageFrameAllocator: Out of memory!")
OutOfMemory(s, n) ==
    /\ stage = "up"
    /\ FindFreeBlock(free_list[s], n) = {}
    /\ Panic("exhausted")

Free(b) ==
    /\ stage = "up"
    /\ b \in owned
    /\ free_list' = Freed(free_list, b)
    /\ owned' = owned \ {b}
    /\ UNCHANGED <<bootVars, stage>>

Halted ==
    /\ stage \in {"noheap", "notables", "exhausted"}
    /\ UNCHANGED vars

BootMemory ==
    \/ ScanMemoryMap \/ NoHeap \/ CutRegion
    \/ InitLimits \/ TakeRegion \/ TakeRequired \/ NoTables \/ InitRegion

\* The kernel as it is: nothing but init() calls free().
Next ==
    \/ BootMemory
    \/ \E s \in Space, n \in AllocSizes : Alloc(s, n) \/ OutOfMemory(s, n)
    \/ Halted

Spec == Init /\ [][Next]_vars

\* With callers that give their blocks back.
FreeSpec == Init /\ [][Next \/ \E b \in owned : Free(b)]_vars

-----------------------------------------------------------------------------

Span   == [start : Nat, end : Nat]
Region == {r \in Span : r.start < r.end}

\* Every variable of the boot code and of the allocators has its type; regions
\* and allocated blocks are not empty.  (Blocks of a free list may be: init()
\* files the rest of a region that ends at the kernel limit.)
TypeOK ==
    /\ memory_map \subseteq [start : Nat, end : Nat, usable : BOOLEAN]
    /\ stage \in {"scan", "cut", "limit", "tables", "fill", "up", "noheap", "notables", "exhausted"}
    /\ regions \subseteq Region
    /\ reserved \in Seq(Span)
    /\ heap_region \in Span
    /\ phys_limit \in Nat
    /\ region_iter \subseteq Region
    /\ available_kernel_memory \in Nat
    /\ kernel_phys_limit \in Nat
    /\ free_list \in [Space -> Seq(Span)]
    /\ owned \subseteq Region

\* The frames that the kernel may hand out: whole usable pages of the memory
\* map without frame 0, the kernel image and the heap.
WholePages(a) ==
    {f \in 0..(a.end \div PageUnits) :
        a.start <= f * PageUnits /\ (f + 1) * PageUnits <= a.end}
Available ==
    (UNION {WholePages(a) : a \in Usable}) \ ({0} \cup Frames(KernelImage) \cup Frames(heap_region))

Blocks(s) == {free_list[s][i] : i \in DOMAIN free_list[s]}

\* The places a frame can be in: a range, and where it is kept.
Places ==
    {<<r, "region", 0>> : r \in regions} \cup {<<b, "owned", 0>> : b \in owned}
        \cup UNION {{<<free_list[s][i], s, i>> : i \in DOMAIN free_list[s]} : s \in Space}

\* From the memory map to the last allocation every available frame is in
\* exactly one place: a region not yet filed, one block of one free list, or one
\* allocated block; and nothing else is.  Cutting, dividing at the kernel limit,
\* fusing and first fit neither lose a frame nor hand one out twice, and never
\* touch the kernel image, the heap or frame 0.
Conserved ==
    stage \in {"limit", "tables", "fill", "up", "exhausted"} =>
        /\ UNION {Frames(p[1]) : p \in Places} = Available
        /\ \A p, q \in Places : p # q => Frames(p[1]) \cap Frames(q[1]) = {}

\* The kernel's frames are below the limit and the user's are not, and after
\* boot the kernel has the frames that calc_page_table_memory() asks for.
KernelReserve ==
    /\ stage \in {"fill", "up", "exhausted"} =>
        /\ \A b \in Blocks("Kernel") : b.end <= kernel_phys_limit
        /\ \A b \in Blocks("User") : b.start >= kernel_phys_limit
        /\ heap_region.end <= kernel_phys_limit
    /\ stage = "up" =>
        Cardinality({f \in Available : f < kernel_phys_limit})
          >= PageTables(Max(Available) + 1)

-----------------------------------------------------------------------------
(* Why: the inductive invariant. *)

\* Two ranges one of which is above the other.
Clear(p, q) == p.end <= q.start \/ q.end <= p.start

\* A free list is sorted and its blocks do not touch, so a run of free frames is
\* inside one block.
Separated(list) ==
    /\ \A i \in DOMAIN list : list[i].start <= list[i].end
    /\ \A i, j \in DOMAIN list : i < j => list[i].end < list[j].start

FramesOf(rs) == UNION {Frames(r) : r \in rs}
ReservedFrames == UNION {Frames(reserved[i]) : i \in DOMAIN reserved}

\* Which collections are in use, by stage.
StageInv ==
    /\ memory_map \in MemoryMaps
    /\ stage \in {"scan", "cut", "limit", "tables"} => free_list = [s \in Space |-> <<>>]
    /\ stage \in {"scan", "cut", "limit", "tables", "fill"} => owned = {}
    /\ stage \in {"up", "exhausted"} => regions = {}

\* Cutting: the regions hold the available frames and what is still reserved.
CutInv ==
    /\ heap_region.start <= heap_region.end
    /\ \A p, q \in regions : p # q => Clear(p, q)
    /\ stage = "cut" =>
        /\ reserved \in {<<NullPage, KernelImage, heap_region>>,
                         <<KernelImage, heap_region>>, <<heap_region>>}
        /\ FramesOf(regions) \ ReservedFrames = Available

\* The loop for the kernel limit counts the frames of the regions it has passed,
\* which are below those to come.
LimitInv ==
    /\ stage = "tables" =>
        /\ \E r \in regions : r.end = phys_limit
        /\ \A r \in regions : r.end <= phys_limit
        /\ region_iter \subseteq regions
        /\ \A r \in regions \ region_iter, q \in region_iter : r.end <= q.start
        /\ available_kernel_memory = Cardinality(FramesOf(regions \ region_iter))
    /\ stage \in {"fill", "up", "exhausted"} =>
        /\ heap_region.end <= kernel_phys_limit
        /\ Cardinality({f \in Available : f < kernel_phys_limit}) >= PageTables(Max(Available) + 1)

\* Lists are separated, divided by the limit, and below the regions to be filed.
ListsInv ==
    stage \in {"fill", "up", "exhausted"} =>
        /\ \A s \in Space : Separated(free_list[s])
        /\ \A i \in DOMAIN free_list["Kernel"] : free_list["Kernel"][i].end <= kernel_phys_limit
        /\ \A i \in DOMAIN free_list["User"] : free_list["User"][i].start >= kernel_phys_limit
        /\ \A s \in Space : \A i \in DOMAIN free_list[s], r \in regions : free_list[s][i].end <= r.start

\* Allocated blocks are clear of each other and of the free ones.
OwnedInv ==
    /\ \A p, q \in owned : p # q => Clear(p, q)
    /\ \A b \in owned, s \in Space : \A i \in DOMAIN free_list[s] : Clear(b, free_list[s][i])

\* The first half of Conserved.
HeldInv ==
    stage \in {"limit", "tables", "fill", "up", "exhausted"} =>
        FramesOf(regions) \cup FramesOf(owned)
            \cup FramesOf(Blocks("Kernel")) \cup FramesOf(Blocks("User")) = Available

MemoryInv == TypeOK /\ StageInv /\ CutInv /\ LimitInv /\ ListsInv /\ OwnedInv /\ HeldInv

-----------------------------------------------------------------------------

\* The pools of the abstract store: the frames in the blocks of each list.
Opened     == stage \in {"up", "exhausted"}
Exhausted  == stage = "exhausted"
FreeFrames == [s \in Space |-> IF Opened THEN UNION {Frames(b) : b \in Blocks(s)} ELSE {}]

\* The list allocators implement the two pools: what is handed out is a run of
\* free frames, and "Out of memory" is reported only when the pool has no run of
\* that length, so first fit and the order of the list never hide one.
Store == INSTANCE FrameStore WITH
    opened <- Opened, free <- FreeFrames, exhausted <- Exhausted

ImplementsStore == Store!Spec
=============================================================================
