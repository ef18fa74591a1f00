---------------------------- MODULE AddressSpace ----------------------------
(***************************************************************************)
(* Page tables and address spaces: memory/virtual.rs, and the calls of     *)
(* boot.rs, device/apic.rs and thread/thread.rs that map pages.            *)
(*                                                                         *)
(* Pages and frames are numbered from 0; a table is the frame it is in.    *)
(* physical::alloc() hands out ascending single frames, which is what its  *)
(* sorted list does while nothing is freed.  A frame it hands out still    *)
(* holds what was in it before, here leftover in every entry.              *)
(*                                                                         *)
(* map_in_table() and copy_table() call themselves for the next level.  A  *)
(* round of one of their loops is a step, since threads that set up their  *)
(* own address spaces do so at the same time; the calls an address space   *)
(* is in are its path, from the root table to the current level.           *)
(***************************************************************************)
EXTENDS PageTableSize, Sequences

CONSTANTS
    Memories,     \* [phys_limit, kernel_phys_limit] of the machines
    Leftovers,    \* what a fresh frame may hold
    Devices,      \* ranges of pages with a frame buffer or an APIC
    MaxDevices,   \* ranges that boot maps: frame buffer, local APIC, IO APIC
    StackPage,    \* the page of USER_STACK_ADDRESS
    StackPages,   \* STACK_SIZE_PAGES
    MaxSpaces     \* bound on the user address spaces

\* A page's number without its lowest bits: Prefix(page)[l] is the number of the
\* table of level l that the page is in.
Prefix(page) ==
    LET prefix[l \in 0..Levels] == IF l = 0 THEN page ELSE prefix[l - 1] \div Entries
    IN  prefix

page_table_index(page, level) == Prefix(page)[level - 1] % Entries

\* How many pages there are.
PageCount ==
    LET count[l \in 0..Levels] == IF l = 0 THEN 1 ELSE count[l - 1] * Entries
    IN  count[Levels]

Pages == 0..(PageCount - 1)

\* Page table flags: none, PRESENT | WRITABLE | USER_ACCESSIBLE, and NO_CACHE too.
Flag   == {"none", "present", "no_cache"}
Entry  == [addr : Nat, flags : Flag]
Slots  == 0..(Entries - 1)

ASSUME AddressSpaceAssumption ==
    /\ Levels >= 2
    \* physical::init leaves the kernel the frames that it expects it to need.
    /\ \A m \in Memories : /\ m.kernel_phys_limit \in Nat /\ m.phys_limit \in Pages
                           /\ PageTables(m.phys_limit) < m.kernel_phys_limit
                           /\ m.kernel_phys_limit <= m.phys_limit
    /\ Leftovers \subseteq Entry
    /\ \A d \in Devices : d.start \in Pages /\ d.end \in Pages /\ d.start < d.end
    /\ MaxDevices \in Nat /\ MaxSpaces \in Nat
    /\ StackPage \in Pages /\ StackPages \in Nat \ {0} /\ StackPage + StackPages <= PageCount
    \* Root entries of the stack are its own.
    /\ \A m \in Memories : m.phys_limit <= StackPage
    /\ \A d \in Devices : d.end <= StackPage
    /\ \A l \in 1..(Levels - 1) : page_table_index(StackPage, l) = 0

VARIABLES
    memory,       \* PHYS_LIMIT and KERNEL_PHYS_LIMIT
    leftover,
    mem,          \* the tables: the frames that hold one, and their entries
    place,        \* history: the address space of each table, its level and its number
    next_frame,   \* the frame that alloc() hands out next, of each MemorySpace
    root,         \* the root tables of the address spaces; the first is ADDRESS_SPACES[0]
    asked,        \* history: what has been mapped in each address space
    work,         \* the operation that has the lock of each address space
    booted,       \* the scheduler runs
    fault         \* the panic that stopped the kernel

tables == <<mem, place, next_frame>>
vars   == <<memory, leftover, tables, root, asked, work, booted, fault>>

Unused == [addr |-> 0, flags |-> "none"]
Zero   == [i \in Slots |-> Unused]

\* Arguments of map().
Request(from, to, space, flags) ==
    [start |-> from, end |-> to, space |-> space, flags |-> flags]

MemoryRequest    == Request(0, memory.phys_limit, "Kernel", "present")
DeviceRequest(d) == Request(d.start, d.end, "Kernel", "no_cache")
StackRequest     == Request(StackPage, StackPage + StackPages, "User", "present")

\* A call of map_in_table or copy_table; the table copied from is 0 for the former.
Activation(table, source, index) == [table |-> table, source |-> source, index |-> index]

\* An operation, called for the root table.
Operation(op, request, activation) ==
    [op |-> op, request |-> request, page |-> request.start, level |-> Levels,
     path |-> [l \in 1..Levels |-> IF l = Levels THEN activation ELSE Activation(0, 0, 0)]]

NoRequest == Request(0, 0, "Kernel", "none")
Idle      == Operation("idle", NoRequest, Activation(0, 0, 0))

Init ==
    /\ memory \in Memories
    /\ leftover \in Leftovers
    /\ mem = [t \in {} |-> Zero]
    /\ place = [t \in {} |-> 0]
    /\ next_frame = [Kernel |-> 1, User |-> memory.kernel_phys_limit]
    /\ root = <<>> /\ asked = <<>> /\ work = <<>>
    /\ booted = FALSE
    /\ fault = "none"

-----------------------------------------------------------------------------
(* Frames and tables. *)

\* The first frame that is not the space's.
PoolEnd(space) == IF space = "Kernel" THEN memory.kernel_phys_limit ELSE memory.phys_limit

\* physical::alloc(1, space) finds a frame, and takes it.
Free(space) == next_frame[space] # PoolEnd(space)
alloc(space) == next_frame' = [next_frame EXCEPT ![space] = @ + 1]

\* alloc_block() panics; so does, here, following an address that is no table's.
Panic(why) == fault' = why /\ UNCHANGED <<tables, root, asked, work>>

\* The tables m and one more in frame f.
WithTable(m, f, contents) ==
    [t \in DOMAIN m \cup {f} |-> IF t = f THEN contents ELSE m[t]]

SetEntry(m, table, i, addr, flags) ==
    [m EXCEPT ![table][i] = [addr |-> addr, flags |-> flags]]

Placed(s, level, number) == [space |-> s, level |-> level, number |-> number]

\* The frame that becomes the next table.
Fresh == next_frame["Kernel"]

\* Mutant: the root table is not zeroed.
NewAsFound == [i \in Slots |-> leftover]

\* AddressSpace::new zeroes the root table.
New == Zero

\* The next address space.
NewSpace(operation) ==
    IF Free("Kernel")
    THEN /\ alloc("Kernel")
         /\ mem' = WithTable(mem, Fresh, New)
         /\ place' = WithTable(place, Fresh, Placed(Len(root) + 1, Levels, 0))
         /\ root' = Append(root, Fresh)
         /\ asked' = Append(asked, {})
         /\ work' = Append(work, operation)
         /\ UNCHANGED fault
    ELSE Panic("exhausted")

-----------------------------------------------------------------------------
(* The calls of an operation. *)

\* Where operation w is: the call of the current level.
Top(w) == w.path[w.level]

\* The call for the next level, ...
Called(w, table, source, index) ==
    [w EXCEPT !.level = @ - 1, !.path[w.level - 1] = Activation(table, source, index)]

\* ... the next round of the loop, ...
NextRound(w) == [w EXCEPT !.path[w.level].index = @ + 1]

\* ... and the return to the loop of the level above, or from the operation.
Returned(w, page) ==
    IF w.level = Levels THEN Idle
    ELSE [w EXCEPT !.page = page, !.level = @ + 1, !.path[w.level + 1].index = @ + 1]

\* A new table behind the current entry.
Grow(s, contents, flags, source, index) ==
    LET w == work[s]
        c == Top(w)
    IN  IF Free("Kernel")
        THEN /\ alloc("Kernel")
             /\ mem' = WithTable(SetEntry(mem, c.table, c.index, Fresh, flags), Fresh, contents)
             /\ place' = WithTable(place, Fresh,
                            Placed(s, w.level - 1, place[c.table].number * Entries + c.index))
             /\ work' = [work EXCEPT ![s] = Called(w, Fresh, source, index)]
             /\ UNCHANGED <<root, asked, fault>>
        ELSE Panic("exhausted")

Goes(s, op) == fault = "none" /\ work[s].op = op /\ UNCHANGED <<memory, leftover, booted>>

-----------------------------------------------------------------------------
(* map_in_table *)

\* AddressSpace::map
map(table, request) ==
    Operation("map", request,
              Activation(table, 0, page_table_index(request.start, Levels)))

\* Mutant: a table that is there already is replaced.
AlwaysMissing(entry) == TRUE

\* An entry that has no address gets a table.
Missing(entry) == entry.addr = 0

\* The loop of a level above the last ends with the table or with the pages.
Ends(w) == Top(w).index = Entries \/ w.page >= w.request.end

MapTable(s) ==
    LET w     == work[s]
        entry == mem[Top(w).table][Top(w).index]
        index == page_table_index(w.page, w.level - 1)
    IN  /\ Goes(s, "map")
        /\ w.level > 1 /\ ~Ends(w)
        /\ \/ Missing(entry) /\ Grow(s, Zero, "present", 0, index)
           \/ /\ ~Missing(entry) /\ entry.addr \in DOMAIN mem
              /\ work' = [work EXCEPT ![s] = Called(w, entry.addr, 0, index)]
              /\ UNCHANGED <<tables, root, asked, fault>>
           \/ ~Missing(entry) /\ entry.addr \notin DOMAIN mem /\ Panic("wild")

start_index(w) == page_table_index(w.page, 1)
alloc_count(w) == Min({w.request.end - w.page, Entries - start_index(w)})

\* Mutant: the loop of the last level has no end.
WritesToEnd(w) == Top(w).index < Entries

\* Does the loop of the last level go on?  The index that is compared with
\* start_index + alloc_count counts from the first entry that it writes.
Writes(w) ==
    /\ Top(w).index < Entries
    /\ Top(w).index - start_index(w) < start_index(w) + alloc_count(w)

\* A page of the kernel is the frame of the same number, one of a user process
\* gets a frame of its own.
MapPage(s) ==
    LET w == work[s]
        c == Top(w)
        own == w.request.space = "User"
        frame == IF own THEN next_frame["User"] ELSE w.page + (c.index - start_index(w))
    IN  /\ Goes(s, "map")
        /\ w.level = 1 /\ Writes(w)
        /\ IF own /\ ~Free("User") THEN Panic("exhausted")
           ELSE /\ mem' = SetEntry(mem, c.table, c.index, frame, w.request.flags)
                /\ IF own THEN alloc("User") ELSE UNCHANGED next_frame
                /\ work' = [work EXCEPT ![s] = NextRound(w)]
                /\ UNCHANGED <<place, root, asked, fault>>

\* The callers add up what was mapped: page is the first page that was not.
MapReturn(s) ==
    LET w == work[s] IN
    /\ Goes(s, "map")
    /\ IF w.level = 1 THEN ~Writes(w) ELSE Ends(w)
    /\ work' = [work EXCEPT ![s] = Returned(w, IF w.level = 1 THEN w.page + alloc_count(w) ELSE w.page)]
    /\ asked' = IF w.level = Levels THEN [asked EXCEPT ![s] = @ \cup {w.request}] ELSE asked
    /\ UNCHANGED <<tables, root, fault>>

-----------------------------------------------------------------------------
(* copy_table *)

\* Mutant: the first entry of the root table is not copied.
from_other_skips(table, other) == Operation("copy", NoRequest, Activation(table, other, 1))

\* AddressSpace::from_other: what follows the creation of the root table.
from_other(table, other) == Operation("copy", NoRequest, Activation(table, other, 0))

\* Mutant: the tables of the next level are shared.
CopyTableShared(s) ==
    LET w == work[s]
        c == Top(w)
        entry == mem[c.source][c.index]
    IN  /\ Goes(s, "copy")
        /\ w.level > 1 /\ c.index < Entries /\ entry # Unused
        /\ mem' = [mem EXCEPT ![c.table][c.index] = entry]
        /\ work' = [work EXCEPT ![s] = NextRound(w)]
        /\ UNCHANGED <<place, next_frame, root, asked, fault>>

\* Above the last level the target gets tables of its own, in the state alloc()
\* returns them.
CopyTable(s) ==
    LET w == work[s]
        entry == mem[Top(w).source][Top(w).index]
    IN  /\ Goes(s, "copy")
        /\ w.level > 1 /\ Top(w).index < Entries /\ entry # Unused
        /\ Grow(s, [i \in Slots |-> leftover], entry.flags, entry.addr, 0)

\* Empty entries are skipped.
CopySkip(s) ==
    LET w == work[s] IN
    /\ Goes(s, "copy")
    /\ w.level > 1 /\ Top(w).index < Entries /\ mem[Top(w).source][Top(w).index] = Unused
    /\ work' = [work EXCEPT ![s] = NextRound(w)]
    /\ UNCHANGED <<tables, root, asked, fault>>

\* The last level is copied as it is.
CopyLast(s) ==
    LET w == work[s] IN
    /\ Goes(s, "copy")
    /\ w.level = 1
    /\ mem' = [mem EXCEPT ![Top(w).table] = mem[Top(w).source]]
    /\ work' = [work EXCEPT ![s] = Returned(w, 0)]
    /\ UNCHANGED <<place, next_frame, root, asked, fault>>

CopyReturn(s) ==
    LET w == work[s] IN
    /\ Goes(s, "copy")
    /\ w.level > 1 /\ Top(w).index = Entries
    /\ work' = [work EXCEPT ![s] = Returned(w, 0)]
    /\ UNCHANGED <<tables, root, asked, fault>>

-----------------------------------------------------------------------------
(* The operations. *)

\* create_address_space, the first call: all memory, page by page at its own
\* address.  boot.rs loads it into CR3.
CreateKernelSpace ==
    /\ fault = "none" /\ root = <<>>
    /\ NewSpace(map(Fresh, MemoryRequest))
    /\ UNCHANGED <<memory, leftover, booted>>

\* The frame buffer, the local APIC and the IO APIC, while boot.rs runs on the
\* kernel address space, which is the one current_address_space() finds.
MapDevice(d) ==
    /\ fault = "none" /\ root # <<>> /\ ~booted /\ work[1].op = "idle"
    /\ DeviceRequest(d) \notin asked[1] /\ Cardinality(asked[1]) <= MaxDevices
    /\ work' = [work EXCEPT ![1] = map(root[1], DeviceRequest(d))]
    /\ UNCHANGED <<memory, leftover, tables, root, asked, booted, fault>>

StartScheduler ==
    /\ fault = "none" /\ root # <<>> /\ ~booted /\ work[1].op = "idle"
    /\ booted' = TRUE
    /\ UNCHANGED <<memory, leftover, tables, root, asked, work, fault>>

\* new_user_thread: create_address_space, not the first call.  It holds the lock of
\* ADDRESS_SPACES; the new address space is not pushed to them.
CreateUserSpace ==
    /\ fault = "none" /\ booted /\ Len(root) <= MaxSpaces
    /\ \A s \in DOMAIN work : work[s].op # "copy"
    /\ NewSpace(from_other(Fresh, root[1]))
    /\ UNCHANGED <<memory, leftover, booted>>

\* new_user_thread: the stack, in the thread's own time.
MapStack(s) ==
    /\ fault = "none" /\ s # 1 /\ work[s].op = "idle" /\ asked[s] = {}
    /\ work' = [work EXCEPT ![s] = map(root[s], StackRequest)]
    /\ UNCHANGED <<memory, leftover, tables, root, asked, booted, fault>>

\* A panic stops the kernel; so does the bound.
Done ==
    /\ \/ fault # "none"
       \/ Len(root) = MaxSpaces + 1 /\ \A s \in DOMAIN root : asked[s] # {} /\ work[s].op = "idle"
    /\ UNCHANGED vars

Next ==
    \/ CreateKernelSpace
    \/ \E d \in Devices : MapDevice(d)
    \/ StartScheduler
    \/ CreateUserSpace
    \/ \E s \in DOMAIN root :
        \/ MapStack(s)
        \/ MapTable(s)
        \/ MapPage(s)
        \/ MapReturn(s)
        \/ CopyTable(s)
        \/ CopySkip(s)
        \/ CopyLast(s)
        \/ CopyReturn(s)
    \/ Done

Spec == Init /\ [][Next]_vars

-----------------------------------------------------------------------------
(* Properties. *)

\* What the processor finds for a page in the table behind an entry; a walk that
\* leaves the tables is lost.
Lost == [addr |-> 0, flags |-> "lost"]
Follow(entry, page, level) ==
    IF entry.flags \in {"none", "lost"} THEN entry
    ELSE IF entry.addr \notin DOMAIN mem THEN Lost
    ELSE mem[entry.addr][page_table_index(page, level)]

\* The processor's walk of the tables, from the root to the last level.
Translate(table, page) ==
    LET walk[d \in 0..(Levels - 1)] ==
          IF d = 0 THEN mem[table][page_table_index(page, Levels)]
          ELSE Follow(walk[d - 1], page, Levels - d)
    IN  walk[Levels - 1]

IsMapped(table, page) == Translate(table, page).flags # "none"
OfStack == StackPage..(StackPage + StackPages - 1)

\* The tables behind the entries of ts, ...
Behind(ts) == {a \in DOMAIN mem : \E t \in ts, i \in Slots : mem[t][i].addr = a}

\* ... and those that a walk may come to, level by level.
TablesOf(table) ==
    LET level[d \in 0..(Levels - 1)] ==
          IF d = 0 THEN {table} ELSE Behind(level[d - 1])
    IN  UNION {level[d] : d \in 0..(Levels - 1)}

\* Whatever is mapped later, in whatever address space, and however many entries
\* the loop of the last level writes, every page that was asked for stays mapped:
\* all of memory and the devices at their own addresses, devices without the
\* cache, and the stack of every user thread.  The pages that the kernel's address
\* space maps beyond those are at their own addresses too.
AskedIsMapped ==
    /\ \A s \in DOMAIN root : \A a \in asked[s] : \A p \in a.start..(a.end - 1) :
        LET entry == Translate(root[s], p) IN
        /\ entry.flags = a.flags \/ (a = MemoryRequest /\ entry.flags = "no_cache")
        /\ a.space = "Kernel" => entry.addr = p
    /\ root # <<>> => \A p \in Pages :
        LET entry == Translate(root[1], p) IN entry.flags # "none" => entry.addr = p
    /\ booted => MemoryRequest \in asked[1]

\* A user address space sees the kernel, its devices included, as the kernel
\* does: copy_table() loses nothing and boot maps nothing afterwards.  If alloc()
\* returns frames that happen to be zero, it has nothing else but its stack.
\* (copy_table() does not zero the tables it allocates: what is left in a frame
\* becomes entries of the copy.)
KernelVisible ==
    \A s \in DOMAIN root \ {1} : work[s].op # "copy" =>
        \A p \in Pages :
            LET kernel == Translate(root[1], p)
                user   == Translate(root[s], p)
            IN  IF kernel.flags # "none" THEN user = kernel
                ELSE leftover = Unused /\ user.flags # "none" => p \in OfStack

\* No table is part of two address spaces, so that mapping in one never changes
\* another, and every table is in a frame of the kernel.  What is left in a frame
\* becomes entries of a copy: that must not happen to be the address of a table.
TablesPrivate ==
    /\ DOMAIN mem \subseteq 1..(memory.kernel_phys_limit - 1)
    /\ leftover.addr \notin DOMAIN mem =>
        \A r, s \in DOMAIN root : r # s => TablesOf(root[r]) \cap TablesOf(root[s]) = {}

\* A frame of a user process is a page of one stack, and every frame that was
\* taken from the pool is one: however threads take turns, and whatever the extra
\* entries of the last level, no frame is taken twice or for nobody.
OwnFrames ==
    LET pages == {x \in (DOMAIN root \ {1}) \X OfStack : IsMapped(root[x[1]], x[2])}
        frame(x) == Translate(root[x[1]], x[2]).addr
    IN  /\ \A x, y \in pages : frame(x) = frame(y) => x = y
        /\ {frame(x) : x \in pages} = memory.kernel_phys_limit..(next_frame["User"] - 1)

\* No operation follows an address that was never written: what is left in the
\* tables of a copy is not in the way of a stack, which has a root entry of its
\* own.
NoWildTable == fault # "wild"

\* Mapping all of memory never runs out of frames: the kernel has what init()
\* reserves, the "memory required for page tables to map the whole physical
\* memory".  (It does run out: calc_page_table_memory() rounds the tables of a
\* level down when the last of them is not full.)
ReserveCovers ==
    (\A s \in DOMAIN root : asked[s] = {} /\ s = 1) => fault = "none"

\* One table has the entries of a level, or full tables have them, on every level
\* between the first and the root: there calc_page_table_memory() rounds nothing
\* down.  (With 512 entries and four levels: up to one gigabyte, or whole
\* gigabytes up to 512.)
WholeTables(limit) ==
    LET last == Prefix(limit - 1) IN
    \A l \in 1..(Levels - 2) : last[l + 1] = 0 \/ (last[l] + 1) % Entries = 0

\* For memory of that size mapping all of it never runs out of frames, with no
\* more than what init() reserves: map_in_table() allocates no table twice and
\* none for pages beyond memory, and the levels that calc_page_table_memory()
\* rounds up to one table have it.
ReserveSuffices == WholeTables(memory.phys_limit) => ReserveCovers
=============================================================================
