# A verification project for hhuTOSr

hhuTOSr is a teaching operating system for x86-64, written in Rust. It runs on
one CPU, with preemptive threads in kernel and user mode, page frame allocation,
paging, and drivers for timer, keyboard, serial port and a frame buffer
terminal. This directory holds TLA+ models of its core, the TLC runs that check
them, and TLAPS proofs about them. All paths below are relative to
`src/os/kernel/src/` unless they begin with `src/`.

## The system: an inventory

| Component | State | Operations | What makes it correct |
|---|---|---|---|
| Scheduler, `thread/scheduler.rs` | `ReadyState` (`initialized`, `current_thread`, `ready_queue`), `sleep_list`, `join_map`, one mutex each | `ready`, `start`, `sleep`, `switch_thread`, `block`, `join`, `exit` | no thread is lost or filed twice; sleep and join return when they should; first in, first out; who is ready or asleep runs again |
| Thread switch, `thread/thread.rs`, TSS in `lib.rs` | saved stack pointer `old_rsp0` of each thread, `rsp0` of the TSS | `kickoff_kernel_thread`, `start_first`, `switch`, `thread_switch` | the thread that runs is the one the scheduler calls current, on its own stack |
| Timer, `device/pit.rs` | `systime_ns`, `pending_incs` | `trigger`, `systime_ms`, `wait` | time is never lost; every 10 ms somebody else may run |
| Physical memory, `memory/physical.rs` | two free lists kept inside the free frames, `PHYS_LIMIT`, `KERNEL_PHYS_LIMIT` | `init`, `alloc`, `free` | every frame is in one place; kernel and user frames are apart |
| Boot, `boot.rs` | regions, heap region | `scan_*`, `cut_region`, and the order of `start` | exactly the usable memory is given to `init`; a device is up before it interrupts |
| Virtual memory, `memory/virtual.rs` | page tables, `ADDRESS_SPACES` | `create_address_space`, `map`, `copy_table` | what was asked for is mapped, in every address space; no table is shared |
| Kernel heap, `memory/alloc.rs` | the external `linked_list_allocator` behind a mutex | `alloc`, `dealloc` | |
| Interrupt dispatcher, `interrupt/` | a handler list per vector, a mutex each | `setup_idt`, `assign`, `dispatch` | every interrupt reaches its handlers and is ended once |
| APIC, `device/apic.rs` | redirection table, overrides, non-maskable sources | `new`, `allow`, `end_of_interrupt` | the vector enabled is the one assigned |
| Keyboard and serial port, `device/ps2.rs`, `device/serial.rs` | a bounded queue between interrupt and reader | `init_*`, `plugin`, `trigger`, `read_byte` | bytes arrive in order, the oldest is dropped when full, none waits unannounced |
| Terminal, `device/lfb_terminal.rs` | cursor, colours, character buffer, two frame buffers, parser, decoder | `write_str`, `read_byte`, the `Perform` callbacks, `CursorThread::run` | the cursor stays on the screen, the buffer shows what was written |
| System calls, `syscall/`, `src/os/library/` | none | dispatch to the above | |
| Graphics library, `src/os/library/graphic/` | a pixel buffer | colours, pixel formats, `draw_char`, `fill_rect`, `scroll_up` | a pixel keeps its colour; the table of colours agrees with the ANSI colours |
| Logger, speaker, QEMU configuration | output only | | |

Components meet in three ways. They call each other directly, with spin locks
(`spin::Mutex`, `spin::RwLock`) around shared state. The timer interrupt enters
the scheduler in the middle of anything that runs with interrupts on, which
includes system calls and the scheduler's own operations; it may only *try* a
lock, since the holder cannot go on. And threads are switched by exchanging
stacks, also inside the interrupt.

The hard behaviours follow from that: what an interrupt sees between two
critical sections of one operation (enlisting and blocking; dispatching and
switching), locks taken by interrupt and thread, a clock that cannot be written
while it is read, and wakeups that overtake the sleep they end. Devices add
edges that are lost while an input is masked, interrupts ended twice, and a
buffer that overflows under a reader. In the memory code the edges of ranges are hard,
as they are on the terminal's screen; threads meet there only when they set up their
address spaces at the same time. `PROJECT.json` lists these hazards with the properties
that watch them.

## Modules

* `Scheduler` - scheduler, thread switch, TSS and timer interrupt together: the
  properties are about their interleaving.
* `Scheduler_proofs`, `Scheduler_refs_proofs` - the theorems about it: who runs and on
  which stack; where every thread is filed, with laws about counting references.
* `MCScheduler` - instances for TLC.
* `FrameList` - the free list of `PageFrameListAllocator`, as operators.
* `PageTableSize` - `calc_page_table_memory`.
* `PhysicalMemory` - the way from the boot loader's memory map to the two
  allocators, and `alloc` and `free`; uses `FrameList` and `PageTableSize`.
* `FrameStore` - what page frame allocation promises; `PhysicalMemory`
  implements it.
* `PhysicalMemory_proofs` - the theorems about both.
* `MCPhysicalMemory` - instances for TLC.
* `AddressSpace` - page tables, the kernel's address space and its copies; uses
  `PageTableSize` for what the kernel's pool is known to hold.
* `AddressSpace_proofs` - the theorems about it.
* `Interrupts` - boot of the devices, APIC, dispatcher, keyboard, serial port and
  readers together: the properties are about what happens in between.
* `Interrupts_proofs`, `Interrupts_bytes_proofs` - the theorems about it: control,
  and what becomes of the bytes.
* `Color` - the colours of the graphics library, as operators.
* `Terminal` - the output of the terminal; uses `Color`.
* `Terminal_color_proofs`, `Terminal_proofs` - laws about colours, and the theorems
  about the terminal.
* `MCAddressSpace`, `MCInterrupts`, `MCTerminal` - instances for TLC.

### Scheduler

A *flow* is a line of execution with a stack: a thread, or the boot code `Boot`.
`cpu` is the flow that runs and `pc` says where each is. An operation is cut
into actions at the points where a timer interrupt makes a difference: around
each critical section and at each shared access of `Thread::switch`. The handler
has interrupts off and is one action.

| Code | Actions |
|---|---|
| `start`, `kickoff_kernel_thread` | `Start`; `Kickoff`, `SetInit`, `KickoffTss` |
| `ready`, `join`, `exit` | `CallReady`, `Ready`; `CallJoin`, `Join`; `CallExit`, `Exit` |
| `sleep` | `CallSleep`, `ReadClock`, `LockSleep`, `Enlist` |
| `block` | `LockBlock`, `ScanStart`, `ScanDone`, `Block` |
| `sys_thread_switch` | `CallYield`, `ScanStart`, `ScanDone`, `YieldPop` |
| `Thread::switch`, `thread_switch` | `Fetch`, `Save`, `SetTss`, `Load` |
| `TimerInterruptHandler::trigger` | `TickPending`, `Tick` (with `SwitchThread`) |

A held lock is not a variable: it follows from the program counters
(`StateLocked`, `TimerRead`, `TssLocked`). A saved stack pointer is the stack it
points into and the place where that flow goes on; `Stale` is a pointer to a
frame that has been overwritten because its stack was used again. Loading one
stops the model with the fault `context`; other faults are `hang`, a spin lock
that is never released, and `panic`. `rsp0` of the TSS is an address: a stack and a
distance in words from its beginning, as `kernel_stack_addr` computes it.

Time is relative to the present: `wakeup_time` counts down, and of the system
time only `phase`, the time modulo the quantum, is kept. So time has no bound in
the model. The bounds are the number of threads, each used once; `SleepTimes`;
`Quantum`, 2 instead of 10; and `MaxPending`, the interrupts that hit one reader
of the timer. `Capacity` is the size of a kernel stack in words, 8192 as in the code.

### PhysicalMemory

Boot is a chain of stages: `ScanMemoryMap`, three times `CutRegion` (frame 0,
kernel image, heap), `InitLimits`, the loop that looks for the kernel limit
(`TakeRegion` for a region the kernel gets as a whole, `TakeRequired` for the one
of which it gets the rest it requires), and one `InitRegion` for each region; then
memory is "up" and `Alloc` and `Free` are possible. The vector of regions is a
set since its order is not used before `init` sorts it. A block of a free list
is a range of frames; the links in memory are the order of a sequence. What
`free_block` does to links is part of `FreeBlock`: a link that is dropped cuts
the sequence, a node that is never linked does not enter it.

Nothing but `init` calls `free` in this kernel, so `Spec` has no `Free`;
`FreeSpec` adds it.

### AddressSpace

Pages and frames are numbers, a table is the frame it is in, and `mem` holds the
entries of the frames that are tables. `map_in_table` and `copy_table` call themselves
for the next level; a round of one of their loops is an action, and `work[s].path` has
the calls that the operation on address space `s` is in, from the root table down to
`level`. An operation holds the lock of its own address space only, so the steps of
several threads alternate in any order. `leftover` is what a fresh frame holds: tables
that the code zeroes are zero, those of `copy_table` are not. Two variables are history:
`place`, the address space, level and number of each table, and `asked`, what has been
mapped.

| Code | Actions |
|---|---|
| `create_address_space` | `CreateKernelSpace`, `CreateUserSpace`, with `NewSpace` for `AddressSpace::new` |
| `map_in_table`, levels above the last | `MapTable` (a round: an old table or, with `Grow`, a new one), `MapReturn` |
| `map_in_table`, last level | `MapPage` (a round, with `Writes` for its end), `MapReturn` |
| `copy_table`, levels above the last | `CopyTable` (a new table), `CopySkip` (an empty entry), `CopyReturn` |
| `copy_table`, last level | `CopyLast` |
| frame buffer (`boot.rs`), local and IO APIC (`device/apic.rs`) | `MapDevice` |
| `Thread::new_user_thread` | `CreateUserSpace`, then `MapStack` |

`physical::alloc` is a counter for each pool: as long as nothing is freed the
sorted free list hands out ascending frames. `CreateUserSpace` waits for other copies,
since `create_address_space` keeps the lock of `ADDRESS_SPACES`; nobody maps in the kernel's
address space once the scheduler runs. `Translate` is the processor's walk
and the reference the properties use. `AddressSpaceAssumption` says that the stack
has a root entry of its own and begins with it, as `USER_STACK_ADDRESS` does, that memory
and devices are below it, and that the kernel has the frames `init` reserves
(`KernelReserve` of `PhysicalMemory`).

### Interrupts

`step` counts the steps of `boot.rs` in `BootSequence`; each is one action, and
interrupts come in between from the moment they are enabled. `irr` and `isr` are
the local APIC's registers, `table` the redirection table, `ctx` says for each
thread whether it is in its own code or in the dispatcher. A switch inside the
timer's handler leaves that dispatcher suspended.

| Code | Actions |
|---|---|
| `init_serial_port`, `Apic::new`, `init_controller`, `init_keyboard` | `InitSerialPort`, `InitApic`, `InitController`, `InitKeyboard` |
| `plugin` of timer, keyboard and serial port | `AssignLock`, `AssignPush`, `Allow`; `EnableUart` |
| processor, and `dispatch` | `Accept`; `DispatchBytes` or `DispatchTimer`; `Finish` |
| `KeyboardInterruptHandler`, `SerialInterruptHandler` | `KeyboardTrigger`, `SerialTrigger`, with `Store` |
| `switch_thread`, `block` | `SwitchTo`, `Block` |
| `read_byte` of terminal, keyboard and serial port | `ReadLock`, `ReadTake`, `ReadGive` |
| devices (external) | `Tick`, `KeyPress`, `SerialByte`, `Nmi` |

Bytes are numbered as they arrive, which makes order and loss visible. The queue
of the `nolock` crate is external: a dequeue is two steps, taking an index and
giving its slot back, and in between the slot is with the reader.
`end_of_interrupt` ends the vector in service, whoever calls it.

### Terminal

A *stream* is what the writers of one behaviour may write. `write_str` copies the
parser (`write_str`), feeds it byte by byte (`advance`) and swaps it back (`swap`);
each byte's callback holds all locks and is one step. `Blink` is a round of the
cursor thread. The display has three layers: `cells` (the character buffer),
`back` (the buffer of `BufferedLFB`) and `front` (the frame buffer), each in
characters. A NUL, a space and an area of background look alike and are one
value. The colour of a cell is not kept: colours have properties of their own.
A character printed in the column right of the screen is not drawn and is stored in
the first cell of the next line; `stray`, a history field of the display, has the
cells in which one is stored at the time.
For streams without escape sequences a history variable, `text`, says where each byte
belongs on a page without end (`Laid`), which is what the screen is compared with.
`TerminalAssumption` says that positions and indexes of the screen fit into `u16`, that
escape sequences have parameters (the parser adds a 0 if there are none), and that
streams called plain or whole are.
Numbers are `u16` of a development build, where an overflow panics; what a release
build makes of it (wrap-around) is not modelled.

## Runs

| Run | Shows |
|---|---|
| `scheduler_safety` | Three threads, 1.3 million states. `TypeOK`; `LockHolderRuns`: no lock is held by a flow that is off the CPU; `RunsAsCurrent`: outside the switch code the flow on the CPU is `current_thread`; `ThreadConserved`: each live thread is filed exactly once, with one more reference between enlisting and blocking; `SleepsFully` and `JoinWaits`: no early return; `TssFollows`: the TSS has the address computed for the thread that runs and not for another; `OnlyJoinPanics`; `ServedInOrder`: the ready queue is first in, first out at every step. |
| `scheduler_liveness` | Two threads, 20 thousand states. `ReadyRuns`, `SleeperWakes`: who is ready, or asleep, gets the CPU again or the machine has stopped with a fault. |
| `switch_window` | *Violation.* A timer interrupt between the unlock and the end of the switch files the half-switched flow as the next thread's context and resumes it from the frame it has just saved, on the same stack; a later switch to that next thread loads what has been overwritten. |
| `switch_hang` | *Violation.* The timer interrupt can spin on the TSS mutex for ever. |
| `memory_boot` | 924 memory maps of three areas, 172 thousand states. `Conserved`: from map to last allocation every available frame is in exactly one place; `KernelReserve`; `ImplementsStore`: refinement of `FrameStore`, so "Out of memory" only comes when no run of that length is free. |
| `free_loses` | *Violation.* A freed block adjacent to a free one is lost. |
| `terminal` | Seven streams on a screen of 2 by 2, 627 thousand states. `TypeOK`; `NeverOutOfBuffer`: wherever the cursor goes, it is inside the character buffer; `ShownIsBuffered`, `NothingElseShown`: character buffer, back buffer and frame buffer agree in all cells but those with a stray character and, for the first, a line that `clear_line` erased; `TextShown`: the screen shows the last lines of any text and the cursor is at its end; `NoTornSequence`: writers of whole sequences never tear one; `SequencesCompose`: a colour sequence is the composition of its parts; `TableMatchesAnsi`: the table's 8 plain colours look like those chosen by number in every state, its 8 bright ones while neither bright nor inverted is on; `PixelKeepsColor`. |
| `clear_line` | *Violation.* Erasing a line stores an `a` in each of its cells, which the cursor thread draws. |
| `cursor_edge` | *Violation.* Moving up or left from the edge underflows and panics. |
| `address_spaces` | Three levels of six entries, two user threads at the same time, 64 thousand states. `AskedIsMapped`: whatever is mapped later, what was asked for stays mapped; `KernelVisible`: a user address space has the kernel, and nothing else but its stack if fresh frames are zero; `TablesPrivate`: no table is in two address spaces; `OwnFrames`: the frames taken for users are the pages of their stacks, each once; `NoWildTable`: no address that was not written is followed; `ReserveSuffices`: the reserve is enough for mapping memory if each level between the first and the root has one table or full tables. |
| `reserve_short` | *Violation.* Memory one page larger than a table of the second level covers needs a table more than is reserved; the kernel panics while mapping memory (`ReserveCovers`). |
| `interrupts` | Three machines, 196 thousand states. `TypeOK`; `EoiBalanced`: no interrupt is in service while interrupts are on; `Routed`: overrides are undone by the redirection table; `NoTornAssign`: the forced unlock never hits `assign`; `NoInterruptPanic`; `Accounted`, `InOrder`, `DropsOldest`: bytes are in one place, in order, and the oldest goes when the buffer is full; `Announced`: no byte waits without an interrupt; `KeysRead`: keys do not wait forever. |

Some of these say how far the code can be trusted rather than that all is well.
`Announced` and `KeysRead` leave out a key that is pressed between
`enable_scanning()` and `allow()`: its edge is lost and the keyboard stays silent.
`ReserveSuffices` has a condition on the size of memory because
`calc_page_table_memory` rounds down; with 512 entries it allows one gigabyte or less, and
whole gigabytes up to 512. `ShownIsBuffered` and `NothingElseShown` leave out the cells named above. Why
these conditions are needed `reserve_short` and `clear_line` show.
`TssFollows` is about whose address is in the TSS, not where it points: that it is
beyond the end of the stack is a theorem, `TssBeyondStack`. `OnlyJoinPanics` excludes
all panics but one: `exit` removes the entry of `join_map` that a later `join` of the same
thread expects (`thread/scheduler.rs:163`). And the handler can wake and pick the thread
that it has interrupted between enlisting and blocking, which switches the thread to
itself and loads an old frame (`thread/scheduler.rs:111`; `block` tests for this, line 146):
one of the faults with which the liveness properties allow the machine to stop.
`copy_table` does not zero its tables: `KernelVisible` has "nothing else" only for
frames that are zero, and `TablesPrivate` leaves out frames in which the address of a
table is left, which would become part of a user's address space.

The findings in `PROJECT.json` quote the comments the violations contradict.

**Bounds.** Three threads give a thread in each wait list at once, a join of a
thread that is itself switching, and a queue in which order can be wrong. The
quantum of 2 lets ticks with and without rescheduling occur; the sleep times 1
and 3 are below and above it, so that an entry may expire before it is filed and
may survive a reschedule. One pending increment is enough to skip a multiple of
the quantum. Threads are interchangeable, so symmetry is used for safety and not
for liveness. In memory, 17 frames of two units with boundaries on and between
frames give every position of a region to a reserved range and to the kernel
limit; page tables have 8 entries and 2 levels, the heap 2 frames.

Address spaces have three levels, so that there is one between root and last. The
memories need part of a table of the second level, one page more than all of it, and two
full ones; the kernel
has exactly what is reserved, one frame more, and room for one or two copies.
Devices lie in memory's range or behind it, in one table or across two; the stack is
one page longer than a table. A fresh frame holds zeros, an entry without address, the
address of the kernel's root table, or an address of no table. Two user address spaces
are enough for one to be set up between any two steps of the other.
Machines have the usual override of the timer, two crossing ones, and a
non-maskable source at the keyboard's input, with no serial port or one of either
interrupt; none has more than seven inputs, since only 0, 1, 3 and 4 are used.
The buffers hold two bytes, one less than the keyboard sends, so they overflow
with and without a reader in the middle; the serial FIFO fills up. Both threads
read keys, one also the serial port. `InterruptsAssumption` bounds the readers of
a device that have no lock between them: as many as slots would make the panic in
the handler possible (here 2, in the code 128). The screen of 2 by 2 wraps,
scrolls and has inner and outer columns; movements are by 0, 1, 2 and 65535, so
that both ends of `u16` are met. Plain text is at most five bytes, more than the
screen holds; the streams with escape sequences are not bounded.

`InterruptsAssumption` also says what the ACPI tables have to be like: an input is
in one override, and the input of a device the kernel uses is given to another
source only if the device itself is moved. Otherwise two sources would share an
input and `Routed` would be false.

**Fairness** (`FairSpec`). A flow that gets the CPU again and again takes its
next step again and again: a quantum is long enough for an instruction. The
timer fires again and again, and not only during the few instructions that read
the clock (`SF` of `Tick`). Nothing is assumed of what threads decide to call.
The liveness properties hold up to faults: after one the machine does nothing.

In `Interrupts` (`Fairness`) the processor accepts interrupts that wait and goes
on in the dispatcher, the timer does not stop, and a thread that runs reads on.
That every thread is switched to in its turn is assumed here and is what
`scheduler_liveness` shows of the scheduler. Nothing is assumed of keys, bytes or
`block`.

Each property has a mutant, an operator marked as such next to the definition it
changes, that stands for a plausible bug: a dropped guard, an off-by-one, a
missing update. With it TLC finds the property violated.

## Proofs

TLC checks instances; the theorems hold for all values of the constants that
satisfy the named assumptions (`SchedulerAssumption`, `InterruptsAssumption`,
`MemoryAssumption`, `PageTableAssumption`, `AddressSpaceAssumption`, `TerminalAssumption`), and TLC evaluates those on its instances.

| Module | Theorem | Property |
|---|---|---|
| `Scheduler_proofs` | `TypeCorrect` | `TypeOK` |
| | `LockHoldersRun` | `LockHolderRuns` |
| | `RunningIsCurrent` | `RunsAsCurrent` |
| | `TssCorrect` | `TssFollows` |
| | `TssBeyondStack` | (no run: where the address in the TSS is) |
| | `QueueInOrder` | `ServedInOrder` |
| `Scheduler_refs_proofs` | `ThreadsConserved` | `ThreadConserved` |
| | `PanicsOnlyInJoin` | `OnlyJoinPanics` |
| | `SleepIsFull` | `SleepsFully` |
| | `JoinReturnsAfterExit` | `JoinWaits` |
| `Interrupts_proofs` | `TypeCorrect` | `TypeOK` |
| | `EoisBalanced` | `EoiBalanced` |
| | `RoutesCorrect` | `Routed` |
| | `AssignNotTorn` | `NoTornAssign` |
| | `InterruptsDoNotPanic` | `NoInterruptPanic` |
| `Interrupts_bytes_proofs` | `BytesInOrder` | `InOrder` |
| | `BytesAnnounced` | `Announced` |
| | `BytesAccounted` | `Accounted` |
| | `OldestDropped` | `DropsOldest` |
| `PhysicalMemory_proofs` | `TypeCorrect` | `TypeOK` |
| | `FramesConserved` | `Conserved` |
| | `ReserveKept` | `KernelReserve` |
| | `StoreImplemented` | `ImplementsStore` |
| `AddressSpace_proofs` | `AskedTheorem` | `AskedIsMapped` |
| | `VisibleTheorem` | `KernelVisible` |
| | `PrivateTheorem` | `TablesPrivate` |
| | `FramesTheorem` | `OwnFrames` |
| | `NoWildTheorem` | `NoWildTable` |
| | `ReserveTheorem` | `ReserveSuffices` |
| `Terminal_proofs` | `TypeCorrect` | `TypeOK` |
| | `IndexSafe` | `NeverOutOfBuffer` |
| | `BufferShown` | `ShownIsBuffered` |
| | `OnlyTextShown` | `NothingElseShown` |
| | `LastLinesShown` | `TextShown` |
| | `SequencesWhole` | `NoTornSequence` |
| | `ColorsCompose` | `SequencesCompose` |
| | `TableAgrees` | `TableMatchesAnsi` |
| | `PixelsFaithful` | `PixelKeepsColor` |

Each proof rests on an inductive invariant that is defined next to the properties or at
the beginning of the proofs, in named parts, and has one lemma for each kind of step.

**Scheduler, who runs.** `LockHolderRuns` and `RunsAsCurrent` are not inductive: a
preempted flow goes on from a saved frame, so one has to know what frames say. The
inductive invariant `Inv` adds `SwitchInv`: the frame saved for thread `t`
(`LeadsTo`) lies on `t`'s own stack and outside all locks, or belongs to a flow that
was preempted in `Thread::switch` while it was about to become `t`. This is what
makes it sound to save a half-switched flow under the name of the next thread.
`TssInv` says when the TSS agrees with `current_thread`; for the place of its address
`TssBeyondStack` only needs that a stack has more than one word. `ServedInOrder` is a property
of steps and needs only `TypeOK`: every change of the queue is an extension at its
end, a removal of its head, or the handler's both at once, and for each a lemma says
that the order stays.

**Scheduler, where threads are filed.** `ThreadConserved` counts the references to
each thread in `current_thread`, ready queue, sleep list and join map; how many there
should be follows from where its flow is (one more between enlisting and blocking).
`RefInv` adds what makes the count and the early-return properties inductive:
`FramesInv`, a frame that can be loaded is where its flow stopped, on a stack nobody
uses, and belongs to a thread that has not exited; `WaitInv`, whoever waits for an
exit or a point in time is in the list that only `exit` or expiry takes it from. The
counts are about sequences; the first lemmas say what appending, removing and filtering
do to them.

**Interrupts, control.** `ControlInv`: how far boot has come (`step`) decides which
inputs are open, which lists have a handler and who may hold a list's mutex. So an
interrupt always finds its handler, its device set up and nothing locked, which gives
`NoTornAssign` and `NoInterruptPanic`. At most one
vector is in service, that of the dispatcher the running thread is in; a dispatcher
that a switch has suspended has had its end of interrupt sent.

**Interrupts, bytes.** `ByteInv`: along the way from device through buffer and
reader to what was read, the numbers of the bytes fall, so the places are disjoint
and nothing overtakes.

**Memory.** `MemoryInv`. While boot cuts, regions stay clear of each other and hold
the available frames and what is still reserved. The loop of `init` has counted the
frames of the regions it has passed, which are below those to come; when it ends,
they and the required ones are different frames below the limit, and the highest
frame is the one before `PHYS_LIMIT`. Regions are filed from below, so each is put
at the end of its list or fused with the last block, and lists stay sorted with gaps
between blocks. A run of free frames is therefore always inside one block: first fit
finds it, and the panic of `alloc_block` maps to a step of `FrameStore` that is
allowed only if there is no run. `Conserved` and `KernelReserve` follow from the
invariant.

That the size of the page tables is a number is not used in these proofs; so the end of the loop is the existence of
the part of the region that makes up the size, as the code's subtraction has it, and
not a difference.

**Address spaces.** `SpaceInv`. A walk of the processor is only as good as every entry
it meets, so the invariant describes all tables at once. `TreeInv`: each table knows its
place (address space, level, number); no place has two tables, every table but a root
hangs from the entry its number says, and every entry is empty, leads to the table of
its place, or, in copies below the stack, is what was left in the frame. `KernelInv` and
`KernelGot`: entries of the kernel's last level are at their own address, which is why
the extra entries that the last loop writes do no harm there, and the pages up to
where `map_in_table` has come are mapped. `StackInv`: a stack begins a table of its own, so
the last loop writes exactly the pages asked for; the entries of the tables of stacks are
the frames taken for users, each once. `WorkInv`: the calls of an operation lie on a path
of places; `page` is where the path points; and a copy has the tables of the kernel's
that it has passed, and none of those to come. From `TreeInv`, by induction over levels,
`Translate` finds the table whose number is the page's prefix (`TranslateExact`), and
`TablesOf` stays inside an address space; with the other parts this gives the properties.
`NoWildTable` is part of the invariant: tables of the stack's part of the tree are zeroed,
since its root entry is its own.

`ReserveSuffices` is a matter of counting. While memory is mapped no table has a number above
that of memory's last page (`ReserveInv`), and places are distinct; so a level has at most
one table more than the last page's prefix. Where tables are full or one, rounding down to
at least one is rounding up (`RoundedUp`), and by induction over levels `PageTables` is the
sum of these; by the pigeonhole principle the frame that is asked for next is there.

**Terminal.** `TerminalInv` holds the properties of the display themselves, which
support each other, and two parts more. `TextInv`: text is laid out from left to right
and from top to bottom, so nothing of it is where the next byte goes or below.
`WriterInv`: what a writer has left to write continues what its copy of the parser has
seen; in streams of whole strings each copy ends in the ground state, so it does not
matter whose copy is swapped in last. Every handler fills, scrolls or prints and then
places the cursor; each of these has a lemma about the three layers and one about the
lines of the page, and a handler's lemma combines them. A position in the column right
of the screen (from `H` or `f`) has an index that is still in the buffer, because the
buffer is `CharacterSize` times too large: `NeverOutOfBuffer` needs that factor to be
above 1 in the last line.

**Colours.** The loop of `handle_ansi_color` is a recursive function of the position in
the list of parameters. That it is defined, stays in the type of colour states and
does the same for a list after another as for the list alone is shown by induction.
`SequencesCompose` then needs that rendering does not change what rendering depends on.
The table and the pixel formats are arithmetic, for every colour.

The library's induction rules take an operator and cannot be instantiated by the
provers. The proofs use its theorem that a nonempty set of numbers has a least element
(`WFMin`), with the set of counterexamples.

Only checked by TLC: liveness under fairness (`ReadyRuns`, `SleeperWakes`, `KeysRead`),
which is out of the prover's reach. Every safety property of a passing run is a theorem.

## Not modelled

* `Color::blend` and `with_alpha`: floating point; the kernel does not use them.
* Register programming: baud rates, the PIT's divisor, the tests and commands of
  the PS/2 controller (each step of its initialization succeeds or panics).
* Output of serial port and logger, speaker, QEMU configuration: port I/O without
  state.
* The kernel heap: a thin wrapper around an external crate. That the ready queue
  may grow inside the timer interrupt is listed as a hazard.
* The keyboard decoder, the parser of escape sequences and the lock-free queue:
  external, modelled by how they are used here.
* Boot assembly and the assembly of system calls: saving of registers.
* `Drop` of an address space: `todo!()`. It is not reached, since no thread is
  ever dropped.
* Polarity and trigger mode of interrupts; bytes that overrun the serial FIFO.
* Instructions below the accesses of the code above, such as the non-atomic
  counts of `Rc`.

## Plan

What could come next: `Free` with a `free_block` that fuses its neighbours, and `Drop` of
an address space, once the kernel has them; a model of the heap's lock in the timer
interrupt; the composition of `AddressSpace` with `PhysicalMemory` in place of the two
counters.
