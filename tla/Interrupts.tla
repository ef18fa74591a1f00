----------------------------- MODULE Interrupts -----------------------------
(***************************************************************************)
(* Interrupts from the device to the thread that reads its bytes:          *)
(* interrupt/interrupt_dispatcher.rs, device/apic.rs, device/ps2.rs,       *)
(* device/serial.rs, the input side of device/lfb_terminal.rs, and the     *)
(* order in which boot.rs brings them up.                                  *)
(*                                                                         *)
(* There is one processor.  Handlers run with interrupts disabled, so an   *)
(* interrupt is three steps: the processor accepts it, the dispatcher runs *)
(* the handlers, the dispatcher returns.  In between devices go on, and a  *)
(* switch in the timer's handler leaves the dispatcher on the stack of the *)
(* thread until that thread runs again.  Which thread is next is module    *)
(* Scheduler's; here it is any.  Bytes are numbered as they arrive.        *)
(***************************************************************************)
EXTENDS Integers, FiniteSetsExt, SequencesExt

CONSTANTS
    Machines,     \* [overrides, nmis, ports]: MADT and serial ports
    MaxEntry,     \* max_table_entry() of the IO APIC, its last input
    Threads,      \* threads once the scheduler runs; Boot is one of them before
    Boot,
    Readers,      \* the threads that read each byte device
    Capacity,     \* of the byte buffers (128)
    FifoDepth,    \* of the serial port's own buffer
    MaxBytes      \* bound on the bytes that arrive at each device

ByteDevice == {"keyboard", "serial"}
Device     == ByteDevice \cup {"timer"}
Gsi        == 0..MaxEntry

\* The ISA interrupts of the devices that the kernel plugs in.
UsedIrq == {0, 1, 3, 4}

ASSUME InterruptsAssumption ==
    /\ Boot \in Threads /\ IsFiniteSet(Threads)
    /\ MaxEntry \in Nat /\ MaxEntry > Max(UsedIrq)
    /\ MaxBytes \in [ByteDevice -> Nat] /\ FifoDepth \in Nat \ {0}
    /\ Readers \in [ByteDevice -> SUBSET Threads]
    \* Readers never hold every slot; the decoder's mutex leaves one for keys.
    /\ Capacity \in Nat /\ Capacity > 1 /\ Cardinality(Readers["serial"]) <= 1
    \* An input or a source is in one override; none of them is the last input.
    \* The input of a device is given away only if the device has another one.
    /\ \A m \in Machines :
        /\ m.overrides \in Seq([isa : Nat, gsi : 0..(MaxEntry - 1)])
        /\ \A i, j \in DOMAIN m.overrides :
            i # j => /\ m.overrides[i].gsi # m.overrides[j].gsi
                     /\ m.overrides[i].isa # m.overrides[j].isa
        /\ \A i \in DOMAIN m.overrides : m.overrides[i].gsi \in UsedIrq =>
            \E j \in DOMAIN m.overrides : m.overrides[j].isa = m.overrides[i].gsi

VARIABLES
    machine,
    step,         \* the step of BootSequence that is next
    port,         \* the ComPort of SERIAL_PORT, "none" without one
    ps2,          \* the PS/2 controller: its mutex, its output buffer, scanning
    uart,         \* the serial port: its FIFO, its interrupt enable register
    table,        \* redirection table of the IO APIC
    irr, isr,     \* local APIC: vectors that wait and that are in service
    int_vectors,  \* handlers of each vector and who holds their mutex
    cpu,          \* the thread that runs
    enabled,      \* the interrupt flag of the processor
    ctx,          \* where each thread is: its own code or the dispatcher
    queue,        \* buffer of each byte device
    reader,       \* what each thread does in read_byte(): [dev, at, byte]
    decoder,      \* the threads that hold the mutex of the decoder
    arrived, delivered, dropped, \* history of the bytes
    unannounced,  \* keys that came while the interrupt was masked
    torn,         \* the dispatcher took a mutex from assign()
    fault

hardware == <<ps2, uart>>
input    == <<queue, reader, decoder>>
history  == <<arrived, delivered, dropped, unannounced>>
vars == <<machine, step, port, hardware, table, irr, isr, int_vectors, cpu, enabled, ctx,
          input, history, torn, fault>>

-----------------------------------------------------------------------------
(* Vectors. *)

Pit        == 32
Rtc        == 40
Exceptions == (0..14) \cup (16..21) \cup (28..30)
Legacy     == (32..40) \cup (44..47)
LocalApic  == 248..255
InterruptVector == Exceptions \cup Legacy \cup LocalApic

\* The vectors for which try_from() returns a name: it has no arm for Rtc.
Known == InterruptVector \ {Rtc}

\* Vectors with a list of handlers: as many as there are vectors from 32 on,
\* but found by the vector's own number.
MAX_VECTORS == 256
HasList(v)  == v < MAX_VECTORS - 32

\* setup_idt: the function behind a vector; the ranges exclude their ends.
Idt(v) == CASE v = 14              -> "handle_page_fault"
            [] v \in (0..30) \ {14} -> "handle_exception"
            [] v \in 32..254        -> "handle_interrupt"
            [] OTHER                -> "none"

\* The panic that an interrupt with this vector ends in, if any.
VectorFault(v) ==
    CASE Idt(v) = "handle_interrupt" -> IF HasList(v) THEN "none" ELSE "no_list"
      [] Idt(v) = "handle_exception" -> IF v \in Known THEN "exception" ELSE "unknown"
      [] OTHER                       -> Idt(v)

\* The ISA interrupt of a device; Com1 and Com3 share one, Com2 and Com4 another.
Irq(d) == CASE d = "timer"    -> 0
            [] d = "keyboard" -> 1
            [] OTHER          -> IF port \in {"Com1", "Com3"} THEN 4 ELSE 3

Vector(d) == Pit + Irq(d)
Used      == {Pit + irq : irq \in UsedIrq}

-----------------------------------------------------------------------------
(* device/apic.rs *)

Overrides == machine.overrides

\* Indices of the first override from this source and to this input, 0 for None.
override_for_source(irq) == SelectInSeq(Overrides, LAMBDA o : o.isa = irq)
override_for_target(gsi) == SelectInSeq(Overrides, LAMBDA o : o.gsi = gsi)

target_gsi(irq) ==
    LET i == override_for_source(irq) IN IF i = 0 THEN irq ELSE Overrides[i].gsi

is_nmi(gsi) == gsi \in machine.nmis

Masked(v) == [vector |-> v, mode |-> "fixed", masked |-> TRUE]

\* Mutant: every input gets the vector of its own number.
RedirectionPlain ==
    [g \in Gsi |-> IF is_nmi(g) THEN [vector |-> 0, mode |-> "nmi", masked |-> FALSE]
                   ELSE Masked(Pit + g)]

\* The table that Apic::new() writes: the loop leaves out the last input, which
\* keeps what IoApic::init() wrote; inputs of NMIs are written last.
Redirection ==
    [g \in Gsi |->
       LET i == override_for_target(g) IN
       IF is_nmi(g)         THEN [vector |-> 0, mode |-> "nmi", masked |-> FALSE]
       ELSE IF g = MaxEntry THEN Masked(g)
       ELSE Masked(Pit + IF i = 0 THEN g ELSE Overrides[i].isa)]

\* The input a device is wired to, by the machine's own account.
Wired(irq) ==
    IF \E i \in DOMAIN Overrides : Overrides[i].isa = irq
    THEN CHOOSE g \in Gsi : \E i \in DOMAIN Overrides : Overrides[i] = [isa |-> irq, gsi |-> g]
    ELSE irq

\* An edge at a device's input is lost while the input is masked.
Raised(d) == LET e == table[Wired(Irq(d))] IN
             IF e.masked \/ e.mode = "nmi" THEN irr ELSE irr \cup {e.vector}

\* end_of_interrupt: the vector in service is done; without one nothing happens.  The
\* loop of try_lock and force_unlock always ends with the local APIC locked, and
\* nobody else locks it after Apic::new, so the mutex decides nothing.
EndOfInterrupt(s) == IF s = {} THEN s ELSE s \ {Max(s)}

-----------------------------------------------------------------------------
(* boot.rs: what is done in which order. *)

\* Mutant: the interrupt is allowed before it has a handler.
plugin_early(d) == <<<<"allow", d>>, <<"lock", d>>, <<"push", d>>>>

\* plugin() of a device: assign() locks the list and pushes, then allow().
plugin(d) == <<<<"lock", d>>, <<"push", d>>, <<"allow", d>>>>

\* Mutant: the keyboard is plugged in before the controller is set up.
BootSequenceEarly ==
    <<<<"init", "serial">>, <<"init", "apic">>>> \o plugin("timer")
      \o <<<<"enable", "cpu">>>> \o plugin("keyboard")
      \o <<<<"init", "controller">>, <<"init", "keyboard">>>>
      \o IF port = "none" THEN <<>> ELSE plugin("serial") \o <<<<"enable", "uart">>>>

\* Without a serial port there is none to plug in.
BootSequence ==
    <<<<"init", "serial">>, <<"init", "apic">>>> \o plugin("timer")
      \o <<<<"enable", "cpu">>, <<"init", "controller">>, <<"init", "keyboard">>>>
      \o plugin("keyboard")
      \o IF port = "none" THEN <<>> ELSE plugin("serial") \o <<<<"enable", "uart">>>>

Init ==
    /\ machine \in Machines
    /\ step = 1
    /\ port = "none"
    /\ ps2 = [locked |-> FALSE, data |-> 0, scanning |-> TRUE, ready |-> FALSE]
    /\ uart = [fifo |-> <<>>, ier |-> FALSE]
    /\ table = [g \in Gsi |-> Masked(0)]
    /\ irr = {} /\ isr = {}
    /\ int_vectors = [v \in Used |-> [handlers |-> <<>>, held |-> "no"]]
    /\ cpu = Boot
    /\ enabled = FALSE
    /\ ctx = [t \in Threads |-> 0]
    /\ queue = [d \in ByteDevice |-> <<>>]
    /\ reader = [t \in Threads |-> [dev |-> "none", at |-> "idle", byte |-> 0]]
    /\ decoder = {}
    /\ arrived = [d \in ByteDevice |-> 0]
    /\ delivered = [d \in ByteDevice |-> <<>>]
    /\ dropped = [d \in ByteDevice |-> {}]
    /\ unannounced = {}
    /\ torn = FALSE
    /\ fault = "none"

\* ctx is 0 in a thread's own code, v in the dispatcher of vector v before the
\* handlers run, -v after them.
Running == fault = "none" /\ ctx[cpu] = 0
Booting(op) ==
    /\ Running
    /\ step <= Len(BootSequence) /\ BootSequence[step] = op
    /\ step' = step + 1
Booted == step > Len(BootSequence)

\* A port is there if its scratch register keeps what is written to it.
check_port(p) == p \in machine.ports

\* SerialPort::init: interrupts are off and the FIFO is cleared.
Cleared == [fifo |-> <<>>, ier |-> FALSE]

\* lib.rs init_serial_port: the first port that answers.
Ports == <<"Com1", "Com2", "Com3", "Com4">>
InitSerialPort ==
    /\ Booting(<<"init", "serial">>)
    /\ LET i == SelectInSeq(Ports, check_port) IN
        IF i = 0 THEN UNCHANGED <<port, uart>>
                 ELSE port' = Ports[i] /\ uart' = Cleared
    /\ UNCHANGED <<machine, ps2, table, irr, isr, int_vectors, cpu, enabled, ctx, input, history, torn, fault>>

\* Apic::new, which panics unless there are a local APIC and one IO APIC.
InitApic ==
    /\ Booting(<<"init", "apic">>)
    /\ \/ table' = Redirection /\ UNCHANGED fault
       \/ fault' = "no_apic" /\ UNCHANGED table
    /\ UNCHANGED <<machine, port, hardware, irr, isr, int_vectors, cpu, enabled, ctx, input, history, torn>>

\* assign: the mutex of the list is held while the handler is pushed.
AssignLock(d) ==
    /\ Booting(<<"lock", d>>)
    /\ int_vectors[Vector(d)].held = "no"
    /\ int_vectors' = [int_vectors EXCEPT ![Vector(d)].held = "assign"]
    /\ UNCHANGED <<machine, port, hardware, table, irr, isr, cpu, enabled, ctx, input, history, torn, fault>>

AssignPush(d) ==
    /\ Booting(<<"push", d>>)
    /\ int_vectors' = [int_vectors EXCEPT ![Vector(d)] =
                         [handlers |-> Append(@.handlers, d), held |-> "no"]]
    /\ UNCHANGED <<machine, port, hardware, table, irr, isr, cpu, enabled, ctx, input, history, torn, fault>>

\* allow: "Trying to mask a non-maskable interrupt"
Allow(d) ==
    /\ Booting(<<"allow", d>>)
    /\ LET gsi == target_gsi(Irq(d)) IN
        IF is_nmi(gsi)
        THEN fault' = "allow_nmi" /\ UNCHANGED table
        ELSE table' = [table EXCEPT ![gsi].masked = FALSE] /\ UNCHANGED fault
    /\ UNCHANGED <<machine, port, hardware, irr, isr, int_vectors, cpu, enabled, ctx, input, history, torn>>

EnableInterrupts ==
    /\ Booting(<<"enable", "cpu">>)
    /\ enabled' = TRUE
    /\ UNCHANGED <<machine, port, hardware, table, irr, isr, int_vectors, cpu, ctx, input, history, torn, fault>>

\* init_controller: the keyboard is disabled, the output buffer flushed, and
\* what does not answer is a panic.  Keys from before, when the firmware had the
\* keyboard, are not counted.  The mutex stays with init_keyboard() here: nothing
\* happens between the two.
InitController ==
    /\ Booting(<<"init", "controller">>)
    /\ \/ /\ ps2' = [ps2 EXCEPT !.locked = TRUE, !.data = 0, !.scanning = FALSE]
          /\ arrived' = [arrived EXCEPT !["keyboard"] = 0]
          /\ unannounced' = {}
          /\ UNCHANGED fault
       \/ fault' = "no_keyboard" /\ UNCHANGED <<ps2, arrived, unannounced>>
    /\ UNCHANGED <<machine, port, uart, table, irr, isr, int_vectors, cpu, enabled, ctx, input,
                   delivered, dropped, torn>>

\* init_keyboard: enable_scanning() is its last command; PS2.call_once ends.
InitKeyboard ==
    /\ Booting(<<"init", "keyboard">>)
    /\ \/ /\ ps2' = [ps2 EXCEPT !.locked = FALSE, !.scanning = TRUE, !.ready = TRUE]
          /\ UNCHANGED fault
       \/ fault' = "no_keyboard" /\ UNCHANGED ps2
    /\ UNCHANGED <<machine, port, uart, table, irr, isr, int_vectors, cpu, enabled, ctx, input, history, torn>>

\* The end of SerialPort::plugin.  Bytes that are there already interrupt.
EnableUart ==
    /\ Booting(<<"enable", "uart">>)
    /\ uart' = [uart EXCEPT !.ier = TRUE]
    /\ irr' = IF uart.fifo # <<>> THEN Raised("serial") ELSE irr
    /\ UNCHANGED <<machine, port, ps2, table, isr, int_vectors, cpu, enabled, ctx, input, history, torn, fault>>

BootStep ==
    \/ InitSerialPort \/ InitApic \/ EnableInterrupts \/ InitController \/ InitKeyboard \/ EnableUart
    \/ \E d \in Device : AssignLock(d) \/ AssignPush(d) \/ Allow(d)

-----------------------------------------------------------------------------
(* Devices. *)

Tick ==
    /\ fault = "none"
    /\ irr' = Raised("timer") /\ irr' # irr
    /\ UNCHANGED <<machine, step, port, hardware, table, isr, int_vectors, cpu, enabled, ctx, input, history, torn, fault>>

\* The keyboard keeps its keys until the output buffer is empty.
KeyPress ==
    /\ fault = "none"
    /\ ps2.scanning /\ ps2.data = 0 /\ arrived["keyboard"] < MaxBytes["keyboard"]
    /\ arrived' = [arrived EXCEPT !["keyboard"] = @ + 1]
    /\ ps2' = [ps2 EXCEPT !.data = arrived'["keyboard"]]
    /\ irr' = Raised("keyboard")
    /\ unannounced' = IF Vector("keyboard") \in irr' THEN unannounced
                      ELSE unannounced \cup {arrived'["keyboard"]}
    /\ UNCHANGED <<machine, step, port, uart, table, isr, int_vectors, cpu, enabled, ctx, input,
                   delivered, dropped, torn, fault>>

\* Bytes that overrun the FIFO are not counted.  The line rises with the first.
SerialByte ==
    /\ fault = "none"
    /\ port # "none" /\ Len(uart.fifo) < FifoDepth /\ arrived["serial"] < MaxBytes["serial"]
    /\ arrived' = [arrived EXCEPT !["serial"] = @ + 1]
    /\ uart' = [uart EXCEPT !.fifo = Append(@, arrived'["serial"])]
    /\ irr' = IF uart.ier /\ uart.fifo = <<>> THEN Raised("serial") ELSE irr
    /\ UNCHANGED <<machine, step, port, ps2, table, isr, int_vectors, cpu, enabled, ctx, input,
                   delivered, dropped, unannounced, torn, fault>>

\* A non-maskable interrupt is exception 2.
Nmi ==
    /\ fault = "none"
    /\ \E g \in Gsi : table[g].mode = "nmi"
    /\ fault' = VectorFault(2)
    /\ UNCHANGED <<machine, step, port, hardware, table, irr, isr, int_vectors, cpu, enabled, ctx,
                   input, history, torn>>

-----------------------------------------------------------------------------
(* Handlers.  An index of the buffer is free, in the queue, or with a reader *)
(* that was interrupted in try_dequeue().                                    *)

Taken(d) == Cardinality({t \in Threads : reader[t].dev = d /\ reader[t].at = "taken"})

\* Mutant: the buffer grows past its capacity.
StoreUnbounded(q, d, byte) == Append(q, byte)

\* Mutant: when the buffer is full the byte overwrites the newest.
StoreOverwrites(q, d, byte) ==
    IF Len(q) + Taken(d) < Capacity THEN Append(q, byte) ELSE Append(Front(q), byte)

\* try_enqueue; when the buffer is full, try_dequeue makes room.
Store(q, d, byte) ==
    IF Len(q) + Taken(d) < Capacity THEN Append(q, byte) ELSE Append(Tail(q), byte)

\* Both fail: the panic "Failed to store received byte in buffer!".
NoRoom(d) == queue[d] = <<>> /\ Taken(d) >= Capacity

\* A handler stores a byte; what the queue has then lost is dropped.
Receive(d, byte) ==
    LET q == Store(queue[d], d, byte) IN
    /\ queue' = [queue EXCEPT ![d] = q]
    /\ dropped' = [dropped EXCEPT ![d] = @ \cup (ToSet(Append(queue[d], byte)) \ ToSet(q))]

\* KeyboardInterruptHandler::trigger: one byte, if there is one.
KeyboardTrigger ==
    /\ fault' = IF ~ps2.ready                              THEN "no_ps2"
                ELSE IF ps2.locked                         THEN "controller_locked"
                ELSE IF ps2.data # 0 /\ NoRoom("keyboard") THEN "buffer"
                ELSE "none"
    /\ IF ps2.data # 0 /\ fault' = "none"
       THEN Receive("keyboard", ps2.data) ELSE UNCHANGED <<queue, dropped>>
    /\ ps2' = [ps2 EXCEPT !.data = 0]
    /\ UNCHANGED uart

\* SerialInterruptHandler::trigger: the bytes one by one until the FIFO is empty,
\* which the port goes on filling.
Pending == uart.ier /\ uart.fifo # <<>>
SerialTrigger ==
    /\ Pending
    /\ fault' = IF NoRoom("serial") THEN "buffer" ELSE "none"
    /\ IF fault' = "none"
       THEN Receive("serial", Head(uart.fifo)) ELSE UNCHANGED <<queue, dropped>>
    /\ uart' = [uart EXCEPT !.fifo = Tail(@)]
    /\ UNCHANGED ps2

-----------------------------------------------------------------------------
(* The processor and interrupt_dispatcher.rs *)

\* All vectors of the IO APIC are of one priority class: one at a time.
Accept ==
    /\ fault = "none" /\ enabled /\ isr = {} /\ irr # {}
    /\ LET v == Max(irr) IN
        /\ irr' = irr \ {v}
        /\ isr' = {v}
        /\ fault' = VectorFault(v)
        /\ ctx' = [ctx EXCEPT ![cpu] = v]
    /\ enabled' = FALSE
    /\ UNCHANGED <<machine, step, port, hardware, table, int_vectors, cpu, input, history, torn>>

InDispatch(v) == fault = "none" /\ v \in Used /\ ctx[cpu] = v

\* dispatch: the mutex of the list, by force if it is held.
Seize(v) ==
    /\ torn' = (torn \/ int_vectors[v].held = "assign")
    /\ int_vectors' = [int_vectors EXCEPT ![v].held = "dispatch"]

Triggered(v) == ctx' = [ctx EXCEPT ![cpu] = -v]

Handling(v, d) == InDispatch(v) /\ int_vectors[v].handlers = <<d>>

\* Mutant: one byte, however many there are.
DispatchBytesOne(v) ==
    /\ InDispatch(v) /\ Seize(v) /\ Triggered(v)
    /\ \/ Handling(v, "keyboard") /\ KeyboardTrigger
       \/ Handling(v, "serial") /\ SerialTrigger
       \/ /\ ~Handling(v, "keyboard") /\ ~(Handling(v, "serial") /\ Pending)
          /\ UNCHANGED <<hardware, queue, dropped, fault>>
    /\ UNCHANGED <<machine, step, port, table, irr, isr, cpu, enabled, reader, decoder,
                   arrived, delivered, unannounced>>

\* The handlers of v run: those of byte devices, the timer's without a switch, or
\* none.  (The test for an empty list is made on the Option around it, which is
\* never empty: an interrupt without handlers is not a panic.)
DispatchBytes(v) ==
    /\ InDispatch(v) /\ Seize(v)
    /\ \/ Handling(v, "keyboard") /\ KeyboardTrigger /\ Triggered(v)
       \/ Handling(v, "serial") /\ SerialTrigger /\ UNCHANGED ctx
       \/ /\ ~Handling(v, "keyboard") /\ ~(Handling(v, "serial") /\ Pending)
          /\ Triggered(v)
          /\ UNCHANGED <<hardware, queue, dropped, fault>>
    /\ UNCHANGED <<machine, step, port, table, irr, isr, cpu, enabled, reader, decoder,
                   arrived, delivered, unannounced>>

\* Mutant: switch_thread() leaves the end of the interrupt to the dispatcher.
SwitchToNoEoi(n) ==
    /\ cpu' = n /\ enabled' = (ctx[n] = 0)
    /\ UNCHANGED isr

\* switch_thread: the interrupt ends here, and the flags of n are loaded.
SwitchTo(n) ==
    /\ cpu' = n /\ enabled' = (ctx[n] = 0)
    /\ isr' = EndOfInterrupt(isr)

\* TimerInterruptHandler::trigger, every tenth time with a switch.
DispatchTimer(v, n) ==
    /\ Handling(v, "timer")
    /\ Seize(v) /\ Triggered(v)
    /\ Booted /\ n # cpu
    /\ SwitchTo(n)
    /\ UNCHANGED <<machine, step, port, hardware, table, irr, input, history, fault>>

\* The dispatcher drops the mutex, ends the interrupt and returns.
Finish ==
    /\ fault = "none" /\ ctx[cpu] < 0
    /\ int_vectors' = [int_vectors EXCEPT ![-ctx[cpu]].held = "no"]
    /\ isr' = EndOfInterrupt(isr)
    /\ ctx' = [ctx EXCEPT ![cpu] = 0]
    /\ enabled' = TRUE
    /\ UNCHANGED <<machine, step, port, hardware, table, irr, cpu, input, history, torn, fault>>

\* Scheduler::block: a switch outside of interrupts.
Block(n) ==
    /\ Running /\ Booted /\ n # cpu /\ reader[cpu].at = "idle"
    /\ cpu' = n /\ enabled' = (ctx[n] = 0)
    /\ UNCHANGED <<machine, step, port, hardware, table, irr, isr, int_vectors, ctx, input, history, torn, fault>>

-----------------------------------------------------------------------------
(* read_byte() of the thread that runs. *)

\* Mutant: the terminal locks the decoder only to decode.
ReadLockLate(d) ==
    /\ Running /\ Booted /\ cpu \in Readers[d] /\ reader[cpu].at = "idle"
    /\ d = "serial" => port # "none"
    /\ reader' = [reader EXCEPT ![cpu] = [dev |-> d, at |-> "waiting", byte |-> 0]]
    /\ UNCHANGED <<machine, step, port, hardware, table, irr, isr, int_vectors, cpu, enabled, ctx,
                   queue, decoder, history, torn, fault>>

\* The terminal holds its decoder while it waits for a key.
ReadLock(d) ==
    /\ Running /\ Booted /\ cpu \in Readers[d] /\ reader[cpu].at = "idle"
    /\ d = "serial" => port # "none"
    /\ d = "keyboard" => decoder = {}
    /\ decoder' = IF d = "keyboard" THEN {cpu} ELSE decoder
    /\ reader' = [reader EXCEPT ![cpu] = [dev |-> d, at |-> "waiting", byte |-> 0]]
    /\ UNCHANGED <<machine, step, port, hardware, table, irr, isr, int_vectors, cpu, enabled, ctx,
                   queue, history, torn, fault>>

\* Mutant: the byte stays in the queue until it is freed.
ReadTakePeek ==
    /\ Running /\ reader[cpu].at = "waiting"
    /\ LET d == reader[cpu].dev IN
        /\ queue[d] # <<>>
        /\ reader' = [reader EXCEPT ![cpu] = [dev |-> d, at |-> "taken", byte |-> Head(queue[d])]]
    /\ UNCHANGED <<machine, step, port, hardware, table, irr, isr, int_vectors, cpu, enabled, ctx,
                   queue, decoder, history, torn, fault>>

\* try_dequeue takes an index from the queue ...
ReadTake ==
    /\ Running /\ reader[cpu].at = "waiting"
    /\ LET d == reader[cpu].dev IN
        /\ queue[d] # <<>>
        /\ reader' = [reader EXCEPT ![cpu] = [dev |-> d, at |-> "taken", byte |-> Head(queue[d])]]
        /\ queue' = [queue EXCEPT ![d] = Tail(@)]
    /\ UNCHANGED <<machine, step, port, hardware, table, irr, isr, int_vectors, cpu, enabled, ctx,
                   decoder, history, torn, fault>>

\* Mutant: the decoder stays locked.
ReadGiveLocked ==
    /\ Running /\ reader[cpu].at = "taken"
    /\ delivered' = [delivered EXCEPT ![reader[cpu].dev] = Append(@, reader[cpu].byte)]
    /\ reader' = [reader EXCEPT ![cpu] = [dev |-> "none", at |-> "idle", byte |-> 0]]
    /\ UNCHANGED <<machine, step, port, hardware, table, irr, isr, int_vectors, cpu, enabled, ctx,
                   queue, decoder, arrived, dropped, unannounced, torn, fault>>

\* ... and frees it.  The byte goes to the decoder or to the caller.
ReadGive ==
    /\ Running /\ reader[cpu].at = "taken"
    /\ delivered' = [delivered EXCEPT ![reader[cpu].dev] = Append(@, reader[cpu].byte)]
    /\ reader' = [reader EXCEPT ![cpu] = [dev |-> "none", at |-> "idle", byte |-> 0]]
    /\ decoder' = decoder \ {cpu}
    /\ UNCHANGED <<machine, step, port, hardware, table, irr, isr, int_vectors, cpu, enabled, ctx,
                   queue, arrived, dropped, unannounced, torn, fault>>

Read == ReadTake \/ ReadGive \/ \E d \in ByteDevice : ReadLock(d)

Halted == fault # "none" /\ UNCHANGED vars

Next ==
    \/ BootStep
    \/ Tick \/ KeyPress \/ SerialByte \/ Nmi
    \/ Accept \/ Finish
    \/ \E v \in Used : DispatchBytes(v)
    \/ \E v \in Used, n \in Threads : DispatchTimer(v, n)
    \/ \E n \in Threads : Block(n)
    \/ Read
    \/ Halted

(* The processor goes on, accepts interrupts and ends them; the timer does   *)
(* not stop; every thread is switched to in its turn (what module Scheduler  *)
(* checks of the scheduler) and reads on when it runs.                       *)
Fairness ==
    /\ WF_vars(Tick)
    /\ SF_vars(Accept)
    /\ WF_vars(\E v \in Used : DispatchBytes(v))
    /\ WF_vars(Finish)
    /\ \A n \in Threads : SF_vars(\E v \in Used : DispatchTimer(v, n))
    /\ \A t \in Threads : SF_vars(cpu = t /\ Read)

Spec == Init /\ [][Next]_vars /\ Fairness

-----------------------------------------------------------------------------

\* Types of what the processor, the dispatcher and the buffers keep.
TypeOK ==
    /\ machine \in Machines
    /\ step \in 1..(Len(BootSequence) + 1)
    /\ port \in {"none", "Com1", "Com2", "Com3", "Com4"}
    /\ ps2 \in [locked : BOOLEAN, data : 0..MaxBytes["keyboard"], scanning : BOOLEAN, ready : BOOLEAN]
    /\ uart \in [fifo : Seq(Nat), ier : BOOLEAN] /\ Len(uart.fifo) <= FifoDepth
    /\ table \in [Gsi -> [vector : Nat, mode : {"fixed", "nmi"}, masked : BOOLEAN]]
    /\ irr \subseteq Used /\ isr \subseteq Used
    /\ int_vectors \in [Used -> [handlers : Seq(Device), held : {"no", "assign", "dispatch"}]]
    /\ cpu \in Threads /\ enabled \in BOOLEAN
    /\ ctx \in [Threads -> {0} \cup Used \cup {-v : v \in Used}]
    /\ queue \in [ByteDevice -> Seq(Nat)]
    /\ reader \in [Threads -> [dev : ByteDevice \cup {"none"}, at : {"idle", "waiting", "taken"}, byte : Nat]]
    /\ decoder \subseteq Threads
    /\ arrived \in [ByteDevice -> Nat] /\ delivered \in [ByteDevice -> Seq(Nat)]
    /\ dropped \in [ByteDevice -> SUBSET Nat] /\ unannounced \subseteq Nat
    /\ torn \in BOOLEAN
    /\ fault = "none" => \A d \in ByteDevice : Len(queue[d]) + Taken(d) <= Capacity

\* While interrupts are enabled none is in service, or the local APIC would hold
\* back all others: switch_thread() ends the interrupt that a suspended
\* dispatcher would end too late, and the second end_of_interrupt() of that
\* dispatcher never ends another one.
EoiBalanced == fault = "none" /\ enabled => isr = {}

\* plugin() of d has come as far as allow().
Allowed(d) == \A k \in step..Len(BootSequence) : BootSequence[k] # <<"allow", d>>

\* A device whose interrupt is allowed interrupts with the vector its handler is
\* assigned to, wherever the overrides of the MADT put it, and no other input is
\* open: target_gsi() and override_for_target() are inverse to each other.
Routed ==
    LET plugged == {d \in Device : \E v \in Used : d \in ToSet(int_vectors[v].handlers)}
        open    == {g \in Gsi : ~table[g].masked /\ table[g].mode = "fixed"}
    IN  /\ \A d \in plugged :
              fault = "none" /\ Allowed(d) =>
                /\ Wired(Irq(d)) \in open
                /\ table[Wired(Irq(d))].vector = Vector(d)
                /\ d \in ToSet(int_vectors[Vector(d)].handlers)
        /\ open \subseteq {Wired(Irq(d)) : d \in plugged}

\* The dispatcher never takes the mutex of a list from an assign() that is
\* pushing to it: a vector is masked until its handler is assigned.
NoTornAssign == ~torn

\* No interrupt panics: not for want of a list, of the PS/2 devices or of a slot
\* in the buffer (even if a reader was interrupted while it held one), and never
\* with the controller's mutex held by what it interrupts.  What remains is
\* a device that boot misses and a non-maskable interrupt.
NoInterruptPanic == fault \in {"none", "no_apic", "no_keyboard", "exception", "allow_nmi"}

InReaders(d) == {reader[t].byte : t \in {t \in Threads : reader[t].dev = d /\ reader[t].at = "taken"}}
AtDevice(d)  == IF d = "keyboard" THEN {ps2.data} \ {0} ELSE ToSet(uart.fifo)

\* Every byte is in exactly one place: the device, the buffer, a reader's hands,
\* what was read or what was dropped.
Accounted ==
    fault = "none" => \A d \in ByteDevice :
        /\ AtDevice(d) \cup ToSet(queue[d]) \cup InReaders(d) \cup ToSet(delivered[d])
             \cup dropped[d] = 1..arrived[d]
        /\ Cardinality(AtDevice(d)) + Len(queue[d]) + Taken(d) + Len(delivered[d])
             + Cardinality(dropped[d]) = arrived[d]

\* Bytes are read in the order they arrived, whichever threads read them: the
\* terminal keeps its decoder locked from before a key is taken.
InOrder ==
    \A d \in ByteDevice : \A i, j \in DOMAIN delivered[d] :
        i < j => delivered[d][i] < delivered[d][j]

\* Every byte that a device holds has an interrupt coming: the keyboard's edge
\* is not lost, and the serial handler leaves nothing in the FIFO that would
\* raise no edge.  (A key between enable_scanning() and allow() has none, and
\* the keyboard is silent from then on.)
Announced ==
    LET coming(d) == Vector(d) \in irr \/ ctx[cpu] = Vector(d) IN
    fault = "none" =>
        /\ ps2.data \notin {0} \cup unannounced => coming("keyboard")
        /\ uart.ier /\ uart.fifo # <<>> => coming("serial")

\* A byte is dropped only for want of room, and it is the oldest: all other
\* slots hold younger bytes or are in a reader's hands.
DropsOldest ==
    [][\A d \in ByteDevice : \A b \in dropped'[d] \ dropped[d] :
         fault' = "none" =>
           Cardinality({c \in ToSet(queue'[d]) : c > b}) + Taken(d) = Capacity]_vars

\* Keys whose interrupt was not lost do not wait forever: again and again they
\* have all been decoded, or dropped for younger ones.
KeysRead ==
    []<>(Booted /\ fault = "none" =>
           ps2.data \in {0} \cup unannounced /\ queue["keyboard"] = <<>> /\ InReaders("keyboard") = {})
-----------------------------------------------------------------------------
(* The inductive strengthening.  Control: how far boot has come decides what *)
(* is open, listed and locked, and with it which interrupts can come.        *)

\* The step of BootSequence at which plugin() of d begins.
PluginAt(d) == IF d = "timer" THEN 3 ELSE IF d = "keyboard" THEN 9 ELSE 12

\* The devices whose plugin() is complete, their inputs and their vectors.
Opened  == {d \in Device : step > PluginAt(d) + 2}
Inputs  == {target_gsi(Irq(d)) : d \in Opened}
Serving == {Vector(d) : d \in Opened}

BootInv ==
    /\ step = 1 => port = "none"
    /\ ps2.locked <=> step = 8
    /\ ps2.ready <=> step > 8
    /\ uart.ier => step = 16
    /\ ~Booted => cpu = Boot /\ \A t \in Threads : t # Boot => ctx[t] = 0

TableInv ==
    /\ \A d \in Opened : ~is_nmi(target_gsi(Irq(d)))
    /\ \A g \in Gsi :
        IF step <= 2
        THEN table[g] = Masked(0)
        ELSE table[g] = [vector |-> Redirection[g].vector, mode |-> Redirection[g].mode,
                         masked |-> Redirection[g].masked /\ g \notin Inputs]

ListInv ==
    /\ \A d \in Device : step > PluginAt(d) + 1 => int_vectors[Vector(d)].handlers = <<d>>
    /\ \A v \in Used : int_vectors[v].handlers # <<>> =>
          \E d \in Device : step > PluginAt(d) + 1 /\ v = Vector(d)
    /\ \A v \in Used : int_vectors[v].held = "assign" =>
          \E d \in Device : step = PluginAt(d) + 1 /\ v = Vector(d)

DispatchInv ==
    /\ enabled <=> step > 6 /\ ctx[cpu] = 0
    /\ \A t \in Threads : ctx[t] # 0 => step > 6 /\ ctx[t] \in Serving \cup {-v : v \in Serving}
    /\ irr \subseteq Serving
    /\ isr = {} \/ \E v \in Serving : isr = {v} /\ ctx[cpu] \in {v, -v}

\* Whoever reads a device may, and there is one at a time.
ReaderInv ==
    /\ \A t \in Threads : reader[t].at # "idle" =>
          /\ reader[t].dev \in ByteDevice /\ t \in Readers[reader[t].dev]
          /\ reader[t].dev = "serial" => port # "none"
          /\ reader[t].dev = "keyboard" => t \in decoder
    /\ \A t, u \in decoder : t = u
    /\ ~Booted => \A t \in Threads : reader[t].at = "idle"

Control == BootInv /\ TableInv /\ ListInv /\ DispatchInv

ControlInv ==
    /\ TypeOK /\ Routed /\ NoTornAssign /\ NoInterruptPanic /\ ReaderInv
    /\ fault = "none" => Control

(* Bytes: older ones are further on their way. *)

Rising(s)   == \A i, j \in DOMAIN s : i < j => s[i] < s[j]
Below(S, T) == \A a \in S, b \in T : a < b

Flow(d) ==
    /\ Rising(delivered[d]) /\ Rising(queue[d])
    /\ Below(ToSet(delivered[d]), InReaders(d) \cup ToSet(queue[d]) \cup AtDevice(d))
    /\ Below(InReaders(d), ToSet(queue[d]) \cup AtDevice(d))
    /\ Below(dropped[d], ToSet(queue[d]))
    /\ Below(dropped[d] \cup ToSet(queue[d]), AtDevice(d))
    /\ dropped[d] \cap (ToSet(delivered[d]) \cup InReaders(d)) = {}
    /\ AtDevice(d) \cup ToSet(queue[d]) \cup InReaders(d) \cup ToSet(delivered[d])
         \cup dropped[d] = 1..arrived[d]
    /\ d \notin Opened => queue[d] = <<>> /\ dropped[d] = {} /\ delivered[d] = <<>>

ByteInv ==
    fault = "none" =>
        /\ Flow("keyboard") /\ Flow("serial")
        /\ Rising(uart.fifo)
        /\ port = "none" => uart.fifo = <<>> /\ arrived["serial"] = 0
=============================================================================
