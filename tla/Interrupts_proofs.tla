-------------------------- MODULE Interrupts_proofs --------------------------
(***************************************************************************)
(* Interrupts are routed, served and ended as they should be, for every    *)
(* machine, number of threads and buffer size: the invariant ControlInv.   *)
(*                                                                         *)
(* How far boot has come decides which inputs are open, which lists have a *)
(* handler and who may hold a mutex.  An interrupt therefore always finds  *)
(* its handler, its device set up and nothing locked.                      *)
(***************************************************************************)
EXTENDS Interrupts, FiniteSetTheorems, TLAPS

\* BootSequence of a machine with a serial port.
Ops == <<<<"init", "serial">>, <<"init", "apic">>,
         <<"lock", "timer">>, <<"push", "timer">>, <<"allow", "timer">>,
         <<"enable", "cpu">>, <<"init", "controller">>, <<"init", "keyboard">>,
         <<"lock", "keyboard">>, <<"push", "keyboard">>, <<"allow", "keyboard">>,
         <<"lock", "serial">>, <<"push", "serial">>, <<"allow", "serial">>,
         <<"enable", "uart">>>>

\* BootSequence is Ops, without its last four steps if there is no serial port.
LEMMA BootOps ==
    /\ Len(BootSequence) = IF port = "none" THEN 11 ELSE 15
    /\ \A k \in 1..Len(BootSequence) : BootSequence[k] = Ops[k]
  <1>1. CASE port = "none"
    BY <1>1 DEF BootSequence, Ops, plugin
  <1>2. CASE port # "none"
    BY <1>2 DEF BootSequence, Ops, plugin
  <1> QED
    BY <1>1, <1>2

\* The highest interrupt that the kernel uses.
LEMMA MaxIrq == Max(UsedIrq) = 4
  BY DEF Max, UsedIrq

\* The vectors that have handlers, in numbers.
LEMMA UsedVectors == Used = {32, 33, 35, 36}
  BY DEF Used, UsedIrq, Pit

\* The dispatcher serves every vector that the kernel uses.
LEMMA NoVectorFault == \A v \in Used : VectorFault(v) = "none"
  <1> SUFFICES ASSUME NEW v \in Used PROVE VectorFault(v) = "none"
    OBVIOUS
  <1>1. v # 14 /\ v \notin (0..30) \ {14} /\ v \in 32..254 /\ HasList(v)
    BY UsedVectors DEF HasList, MAX_VECTORS
  <1>2. Idt(v) = "handle_interrupt"
    BY <1>1, Zenon DEF Idt
  <1> QED
    BY <1>1, <1>2, Zenon DEF VectorFault

\* A non-maskable interrupt ends in handle_exception().
LEMMA NmiFault == VectorFault(2) = "exception"
  <1>1. 2 # 14 /\ 2 \in (0..30) \ {14} /\ 2 \notin 32..254 /\ 2 \in Known
    BY DEF Known, InterruptVector, Exceptions, Rtc
  <1>2. Idt(2) = "handle_exception"
    BY <1>1, Zenon DEF Idt
  <1>3. Idt(2) # "handle_interrupt"
    BY <1>2
  <1> QED
    BY <1>1, <1>2, <1>3, Zenon DEF VectorFault

-----------------------------------------------------------------------------

\* The least and the greatest member of a set of one.
LEMMA Select ==
    ASSUME NEW S \in SUBSET Nat, NEW i \in S, \A j \in S : j = i
    PROVE  Min(S) = i /\ Max(S) = i
  <1>1. S = {i}
    BY Zenon
  <1>2. i <= i /\ i >= i
    OBVIOUS
  <1> QED
    BY <1>1, <1>2, Zenon DEF Min, Max

\* An element of a sequence is in the set the sequence is over.
LEMMA Elements ==
    ASSUME NEW S, NEW s \in Seq(S), NEW i \in DOMAIN s
    PROVE  s[i] \in S
  OBVIOUS

\* What the assumption says of the machine that is booted.
LEMMA Distinct ==
    ASSUME machine \in Machines
    PROVE  /\ Overrides \in Seq([isa : Nat, gsi : 0..(MaxEntry - 1)])
           /\ \A i, j \in DOMAIN Overrides :
                Overrides[i].gsi = Overrides[j].gsi \/ Overrides[i].isa = Overrides[j].isa => i = j
           /\ \A i \in DOMAIN Overrides : Overrides[i].gsi \in UsedIrq =>
                \E j \in DOMAIN Overrides : Overrides[j].isa = Overrides[i].gsi
           /\ \A i \in DOMAIN Overrides : Overrides[i] \in [isa : Nat, gsi : 0..(MaxEntry - 1)]
  <1> DEFINE m == machine
             ok(n) ==
               /\ n.overrides \in Seq([isa : Nat, gsi : 0..(MaxEntry - 1)])
               /\ \A i, j \in DOMAIN n.overrides :
                    i # j => /\ n.overrides[i].gsi # n.overrides[j].gsi
                             /\ n.overrides[i].isa # n.overrides[j].isa
               /\ \A i \in DOMAIN n.overrides : n.overrides[i].gsi \in UsedIrq =>
                    \E j \in DOMAIN n.overrides : n.overrides[j].isa = n.overrides[i].gsi
  <1>1. \A n \in Machines : ok(n)
    BY InterruptsAssumption, Zenon
  <1>2. ok(m)
    BY <1>1
  <1>3. Overrides \in Seq([isa : Nat, gsi : 0..(MaxEntry - 1)])
    BY <1>2 DEF Overrides
  <1>4. \A i \in DOMAIN Overrides : Overrides[i] \in [isa : Nat, gsi : 0..(MaxEntry - 1)]
    BY <1>3, Elements
  <1>5. \A i, j \in DOMAIN Overrides :
           Overrides[i].gsi = Overrides[j].gsi \/ Overrides[i].isa = Overrides[j].isa => i = j
    BY <1>2, Zenon DEF Overrides
  <1>6. \A i \in DOMAIN Overrides : Overrides[i].gsi \in UsedIrq =>
           \E j \in DOMAIN Overrides : Overrides[j].isa = Overrides[i].gsi
    BY <1>2, Zenon DEF Overrides
  <1> QED
    BY <1>3, <1>4, <1>5, <1>6, Zenon

\* override_for_source() finds the override of an interrupt if there is one.
LEMMA Sources ==
    ASSUME machine \in Machines, NEW irq \in Nat
    PROVE  /\ override_for_source(irq) = 0 => \A j \in DOMAIN Overrides : Overrides[j].isa # irq
           /\ override_for_source(irq) # 0 =>
                 /\ override_for_source(irq) \in DOMAIN Overrides
                 /\ Overrides[override_for_source(irq)].isa = irq
  <1> DEFINE S == {j \in 1..Len(Overrides) : Overrides[j].isa = irq}
  <1>1. Overrides \in Seq([isa : Nat, gsi : 0..(MaxEntry - 1)])
    BY Distinct
  <1>2. DOMAIN Overrides = 1..Len(Overrides) /\ Len(Overrides) \in Nat
    BY <1>1
  <1>3. override_for_source(irq) = IF S # {} THEN Min(S) ELSE 0
    BY DEF override_for_source, SelectInSeq
  <1>4. ASSUME NEW j \in S PROVE Min(S) = j
    <2>1. S \in SUBSET Nat
      BY <1>2
    <2>2. \A k \in S : k = j
      BY <1>2, Distinct
    <2> QED
      BY <2>1, <2>2, Select
  <1> QED
    BY <1>2, <1>3, <1>4

\* override_for_target() finds the override to an input if there is one.
LEMMA Targets ==
    ASSUME machine \in Machines, NEW g \in Nat
    PROVE  /\ override_for_target(g) = 0 => \A j \in DOMAIN Overrides : Overrides[j].gsi # g
           /\ override_for_target(g) # 0 =>
                 /\ override_for_target(g) \in DOMAIN Overrides
                 /\ Overrides[override_for_target(g)].gsi = g
  <1> DEFINE S == {j \in 1..Len(Overrides) : Overrides[j].gsi = g}
  <1>1. Overrides \in Seq([isa : Nat, gsi : 0..(MaxEntry - 1)])
    BY Distinct
  <1>2. DOMAIN Overrides = 1..Len(Overrides) /\ Len(Overrides) \in Nat
    BY <1>1
  <1>3. override_for_target(g) = IF S # {} THEN Min(S) ELSE 0
    BY DEF override_for_target, SelectInSeq
  <1>4. ASSUME NEW j \in S PROVE Min(S) = j
    <2>1. S \in SUBSET Nat
      BY <1>2
    <2>2. \A k \in S : k = j
      BY <1>2, Distinct
    <2> QED
      BY <2>1, <2>2, Select
  <1> QED
    BY <1>2, <1>3, <1>4

\* The interrupt of each device.
LEMMA IrqOf ==
    /\ Irq("timer") = 0 /\ Irq("keyboard") = 1
    /\ Irq("serial") = IF port \in {"Com1", "Com3"} THEN 4 ELSE 3
  <1>1. "timer" # "keyboard" /\ "serial" # "timer" /\ "serial" # "keyboard"
    OBVIOUS
  <1> QED
    BY <1>1, Zenon DEF Irq

\* Devices have interrupts and vectors of their own.
LEMMA DeviceIrq ==
    /\ \A d \in Device : Irq(d) \in UsedIrq /\ Irq(d) \in Nat /\ Vector(d) \in Used
    /\ \A d, e \in Device : Vector(d) = Vector(e) => d = e
  BY IrqOf, UsedVectors DEF Device, ByteDevice, UsedIrq, Vector, Pit

\* target_gsi() is the input that the device is wired to, and the override that
\* override_for_target() finds there, if any, is the one that target_gsi() used.
LEMMA Routes ==
    ASSUME machine \in Machines, NEW irq \in UsedIrq
    PROVE  /\ target_gsi(irq) \in 0..(MaxEntry - 1)
           /\ Wired(irq) = target_gsi(irq)
           /\ override_for_target(target_gsi(irq)) = 0 => target_gsi(irq) = irq
           /\ override_for_target(target_gsi(irq)) # 0 =>
                 Overrides[override_for_target(target_gsi(irq))].isa = irq
  <1> DEFINE i == override_for_source(irq)
             g == target_gsi(irq)
             j == override_for_target(g)
  <1>1. irq \in Nat /\ irq < MaxEntry /\ MaxEntry \in Nat
    BY InterruptsAssumption, MaxIrq DEF UsedIrq
  <1>2. CASE i = 0
    <2>1. g = irq /\ \A k \in DOMAIN Overrides : Overrides[k].isa # irq
      BY <1>1, <1>2, Sources DEF target_gsi
    <2>2. j = 0
      BY <1>1, <2>1, Targets, Distinct
    <2>3. Wired(irq) = irq
      BY <2>1 DEF Wired
    <2> QED
      BY <1>1, <2>1, <2>2, <2>3
  <1>3. CASE i # 0
    <2>1. i \in DOMAIN Overrides /\ Overrides[i].isa = irq /\ g = Overrides[i].gsi
      BY <1>1, <1>3, Sources DEF target_gsi
    <2>2. Overrides[i] \in [isa : Nat, gsi : 0..(MaxEntry - 1)]
      BY <2>1, Distinct
    <2>3. g \in 0..(MaxEntry - 1) /\ g \in Nat /\ g \in Gsi
      BY <1>1, <2>1, <2>2 DEF Gsi
    <2>4. j = i
      BY <2>1, <2>3, Targets, Distinct
    <2>5. Overrides[i] = [isa |-> irq, gsi |-> g]
      BY <2>1, <2>2
    <2>6. \A h \in Gsi : (\E k \in DOMAIN Overrides : Overrides[k] = [isa |-> irq, gsi |-> h]) => h = g
      BY <2>1, Distinct
    <2>7. Wired(irq) = g
      BY <2>1, <2>3, <2>5, <2>6, Zenon DEF Wired
    <2> QED
      BY <1>3, <2>1, <2>3, <2>4, <2>7, Zenon
  <1> QED
    BY <1>2, <1>3

\* Apic::new() masks every input but those of NMIs, and gives the input of every
\* interrupt that is used the vector of that interrupt.
LEMMA Redirected ==
    ASSUME machine \in Machines
    PROVE  /\ Redirection \in [Gsi -> [vector : Nat, mode : {"fixed", "nmi"}, masked : BOOLEAN]]
           /\ \A g \in Gsi : IF is_nmi(g) THEN Redirection[g].mode = "nmi"
                             ELSE Redirection[g].mode = "fixed" /\ Redirection[g].masked
           /\ \A irq \in UsedIrq : ~is_nmi(target_gsi(irq)) =>
                 Redirection[target_gsi(irq)].vector = Pit + irq
  <1> DEFINE i(g) == override_for_target(g)
             own(g) == IF i(g) = 0 THEN g ELSE Overrides[i(g)].isa
  <1>1. \A g \in Gsi : g \in Nat /\ own(g) \in Nat
    <2> SUFFICES ASSUME NEW g \in Gsi PROVE g \in Nat /\ own(g) \in Nat
      OBVIOUS
    <2>1. g \in Nat
      BY InterruptsAssumption DEF Gsi
    <2> QED
      BY <2>1, Targets, Distinct
  <1>2. \A g \in Gsi : is_nmi(g) =>
            Redirection[g] = [vector |-> 0, mode |-> "nmi", masked |-> FALSE]
    BY DEF Redirection
  <1>3. \A g \in Gsi : ~is_nmi(g) /\ g = MaxEntry => Redirection[g] = Masked(g)
    BY DEF Redirection
  <1>4. \A g \in Gsi : ~is_nmi(g) /\ g # MaxEntry => Redirection[g] = Masked(Pit + own(g))
    BY DEF Redirection
  <1> HIDE DEF own
  <1>5. \A g \in Gsi : Redirection[g] \in [vector : Nat, mode : {"fixed", "nmi"}, masked : BOOLEAN]
    <2> SUFFICES ASSUME NEW g \in Gsi
                 PROVE  Redirection[g] \in [vector : Nat, mode : {"fixed", "nmi"}, masked : BOOLEAN]
      OBVIOUS
    <2>1. PICK n \in Nat : n = own(g)
      BY <1>1
    <2>2. g \in Nat /\ Pit + n \in Nat
      BY <1>1 DEF Pit
    <2>3. Redirection[g] \in {[vector |-> 0, mode |-> "nmi", masked |-> FALSE], Masked(g), Masked(Pit + n)}
      BY <1>2, <1>3, <1>4, <2>1
    <2>4. \A v \in Nat : Masked(v) \in [vector : Nat, mode : {"fixed", "nmi"}, masked : BOOLEAN]
      BY DEF Masked
    <2>5. [vector |-> 0, mode |-> "nmi", masked |-> FALSE]
            \in [vector : Nat, mode : {"fixed", "nmi"}, masked : BOOLEAN]
      OBVIOUS
    <2> QED
      BY <2>2, <2>3, <2>4, <2>5, Zenon
  <1>6. Redirection \in [Gsi -> [vector : Nat, mode : {"fixed", "nmi"}, masked : BOOLEAN]]
    <2>1. Redirection = [g \in Gsi |-> Redirection[g]]
      BY DEF Redirection
    <2> QED
      BY <1>5, <2>1
  <1>7. ASSUME NEW irq \in UsedIrq, ~is_nmi(target_gsi(irq))
        PROVE  Redirection[target_gsi(irq)].vector = Pit + irq
    <2> DEFINE h == target_gsi(irq)
    <2>1. h \in Gsi /\ h # MaxEntry
      BY Routes, InterruptsAssumption DEF Gsi
    <2>2. own(h) = irq
      BY Routes DEF own
    <2>3. Redirection[h] = Masked(Pit + irq)
      BY <1>4, <1>7, <2>1, <2>2
    <2> QED
      BY <2>3 DEF Masked
  <1> QED
    BY <1>2, <1>3, <1>4, <1>6, <1>7 DEF Masked

-----------------------------------------------------------------------------

\* The number of steps of BootSequence.
LastStep == IF port = "none" THEN 11 ELSE 15

\* TypeOK in parts.
BootType   == machine \in Machines /\ port \in {"none", "Com1", "Com2", "Com3", "Com4"}
                /\ step \in 1..(LastStep + 1)
DeviceType == /\ ps2 \in [locked : BOOLEAN, data : 0..MaxBytes["keyboard"], scanning : BOOLEAN, ready : BOOLEAN]
              /\ uart \in [fifo : Seq(Nat), ier : BOOLEAN] /\ Len(uart.fifo) <= FifoDepth
ApicType   == /\ table \in [Gsi -> [vector : Nat, mode : {"fixed", "nmi"}, masked : BOOLEAN]]
              /\ irr \subseteq Used /\ isr \subseteq Used
ListType   == int_vectors \in [Used -> [handlers : Seq(Device), held : {"no", "assign", "dispatch"}]]
CpuType    == /\ cpu \in Threads /\ enabled \in BOOLEAN
              /\ ctx \in [Threads -> {0} \cup Used \cup {-v : v \in Used}]
ReaderType == /\ reader \in [Threads -> [dev : ByteDevice \cup {"none"}, at : {"idle", "waiting", "taken"}, byte : Nat]]
              /\ decoder \subseteq Threads
BufferType == queue \in [ByteDevice -> Seq(Nat)] /\ dropped \in [ByteDevice -> SUBSET Nat]
HistType   == /\ arrived \in [ByteDevice -> Nat] /\ delivered \in [ByteDevice -> Seq(Nat)]
              /\ unannounced \subseteq Nat /\ torn \in BOOLEAN
RoomInv    == \A d \in ByteDevice : Len(queue[d]) + Taken(d) <= Capacity

Types == /\ BootType /\ DeviceType /\ ApicType /\ ListType /\ CpuType
         /\ ReaderType /\ BufferType /\ HistType
\* ControlInv while there is no panic.
Whole == Types /\ RoomInv /\ NoTornAssign /\ ReaderInv /\ Control

\* The number of steps of boot.
LEMMA LastIs == Len(BootSequence) = LastStep /\ LastStep \in {11, 15}
  BY BootOps DEF LastStep

\* TypeOK, divided by what the steps change together.
LEMMA TypeParts == TypeOK <=> Types /\ (fault = "none" => RoomInv)
  <1>1. Len(BootSequence) = LastStep
    BY LastIs
  <1> QED
    BY <1>1, Zenon DEF TypeOK, Types, BootType, DeviceType, ApicType, ListType, CpuType, ReaderType,
          BufferType, HistType, RoomInv

\* What depends on the machine and its serial port alone.
LEMMA Stable ==
    ASSUME machine' = machine, port' = port
    PROVE  /\ \A d : Irq(d)' = Irq(d) /\ Vector(d)' = Vector(d)
           /\ \A irq : target_gsi(irq)' = target_gsi(irq) /\ Wired(irq)' = Wired(irq)
           /\ \A g : is_nmi(g)' = is_nmi(g)
           /\ Redirection' = Redirection
           /\ LastStep' = LastStep
  <1>1. \A d : Irq(d)' = Irq(d) /\ Vector(d)' = Vector(d)
    BY Zenon DEF Irq, Vector
  <1>2. Overrides' = Overrides
    BY DEF Overrides
  <1>3. \A irq : override_for_source(irq)' = override_for_source(irq)
    BY <1>2 DEF override_for_source, SelectInSeq
  <1>4. \A g : override_for_target(g)' = override_for_target(g)
    BY <1>2 DEF override_for_target, SelectInSeq
  <1>5. \A irq : target_gsi(irq)' = target_gsi(irq)
    BY <1>2, <1>3 DEF target_gsi
  <1>6. \A irq : Wired(irq)' = Wired(irq)
    BY <1>2 DEF Wired
  <1>7. \A g : is_nmi(g)' = is_nmi(g)
    BY DEF is_nmi
  <1>8. Redirection' = Redirection
    BY <1>2, <1>4, <1>7 DEF Redirection
  <1>9. LastStep' = LastStep
    BY DEF LastStep
  <1> QED
    BY <1>1, <1>5, <1>6, <1>7, <1>8, <1>9

\* A step of boot is the one whose turn it is.
LEMMA BootAt ==
    ASSUME BootType, NEW op, Booting(op)
    PROVE  fault = "none" /\ ctx[cpu] = 0 /\ step \in 1..LastStep /\ step' = step + 1 /\ Ops[step] = op
  BY BootOps, LastIs DEF Booting, Running, BootType

\* Every step of boot is at one place of Ops.
LEMMA OpAt ==
    ASSUME NEW k \in 1..15
    PROVE  /\ Ops[k] = <<"init", "serial">> => k = 1
           /\ Ops[k] = <<"init", "apic">> => k = 2
           /\ Ops[k] = <<"enable", "cpu">> => k = 6
           /\ Ops[k] = <<"init", "controller">> => k = 7
           /\ Ops[k] = <<"init", "keyboard">> => k = 8
           /\ Ops[k] = <<"enable", "uart">> => k = 15
           /\ \A d \in Device :
                /\ Ops[k] = <<"lock", d>> => k = PluginAt(d)
                /\ Ops[k] = <<"push", d>> => k = PluginAt(d) + 1
                /\ Ops[k] = <<"allow", d>> => k = PluginAt(d) + 2
  <1>1. \/ k = 1 \/ k = 2 \/ k = 3 \/ k = 4 \/ k = 5 \/ k = 6 \/ k = 7 \/ k = 8 \/ k = 9
        \/ k = 10 \/ k = 11 \/ k = 12 \/ k = 13 \/ k = 14 \/ k = 15
    OBVIOUS
  <1> QED
    BY <1>1 DEF Ops, Device, ByteDevice, PluginAt

\* Boot is over after the last step.
LEMMA BootedIs == Booted <=> step > LastStep
  BY LastIs DEF Booted

\* Without a step of boot the same devices are plugged in.
LEMMA OpenedFrame ==
    ASSUME machine' = machine, port' = port, step' = step
    PROVE  Opened' = Opened /\ Inputs' = Inputs /\ Serving' = Serving /\ (Booted' <=> Booted)
  <1>1. Opened' = Opened
    BY DEF Opened, PluginAt
  <1>2. Inputs' = Inputs /\ Serving' = Serving
    BY <1>1, Stable DEF Inputs, Serving
  <1>3. (Booted <=> step > LastStep)'
    BY BootedIs, PTL
  <1> QED
    BY <1>1, <1>2, <1>3, BootedIs, Stable

\* What is served is in use.
LEMMA ServingUsed == Opened \subseteq Device /\ Serving \subseteq Used
  BY DeviceIrq DEF Opened, Serving

\* The open inputs are those of the devices that are plugged in.
LEMMA TableFacts ==
    ASSUME BootType, ApicType, TableInv
    PROVE  /\ \A g \in Gsi : ~table[g].masked /\ table[g].mode = "fixed" <=> g \in Inputs
           /\ \A d \in Device : target_gsi(Irq(d)) \in Inputs => d \in Opened
           /\ \A d \in Opened : target_gsi(Irq(d)) \in Gsi /\ table[target_gsi(Irq(d))].vector = Vector(d)
  <1>1. machine \in Machines /\ step \in Nat
    BY LastIs DEF BootType
  <1>2. step <= 2 => Opened = {} /\ Inputs = {}
    BY <1>1 DEF Opened, Inputs, PluginAt
  <1>3. \A d \in Device : target_gsi(Irq(d)) \in Gsi
    BY <1>1, Routes, DeviceIrq, InterruptsAssumption DEF Gsi
  <1>4. \A d \in Device : ~is_nmi(target_gsi(Irq(d))) =>
            Redirection[target_gsi(Irq(d))].vector = Vector(d)
    BY <1>1, DeviceIrq, Redirected DEF Vector
  <1>5. \A g \in Inputs : g \in Gsi /\ ~is_nmi(g)
    BY <1>3, ServingUsed DEF Inputs, TableInv
  <1>9. ASSUME NEW g \in Gsi, ~(step <= 2)
        PROVE  /\ table[g].masked = (Redirection[g].masked /\ g \notin Inputs)
               /\ table[g].mode = Redirection[g].mode /\ table[g].vector = Redirection[g].vector
    <2>1. table[g] = [vector |-> Redirection[g].vector, mode |-> Redirection[g].mode,
                      masked |-> Redirection[g].masked /\ g \notin Inputs]
      BY <1>9, Zenon DEF TableInv
    <2> QED
      BY <2>1
  <1>6. \A g \in Gsi : ~table[g].masked /\ table[g].mode = "fixed" <=> g \in Inputs
    <2> SUFFICES ASSUME NEW g \in Gsi
                 PROVE  ~table[g].masked /\ table[g].mode = "fixed" <=> g \in Inputs
      OBVIOUS
    <2>1. CASE step <= 2
      BY <1>2, <2>1 DEF TableInv, Masked
    <2>2. CASE ~(step <= 2)
      <3>1. table[g].masked = (Redirection[g].masked /\ g \notin Inputs) /\ table[g].mode = Redirection[g].mode
        BY <2>2, <1>9
      <3>2. IF is_nmi(g) THEN Redirection[g].mode = "nmi"
                           ELSE Redirection[g].mode = "fixed" /\ Redirection[g].masked
        BY <1>1, Redirected
      <3> QED
        BY <1>5, <3>1, <3>2
    <2> QED
      BY <2>1, <2>2
  <1>7. ASSUME NEW d \in Device, target_gsi(Irq(d)) \in Inputs PROVE d \in Opened
    <2>1. PICK e \in Opened : target_gsi(Irq(d)) = target_gsi(Irq(e))
      BY <1>7 DEF Inputs
    <2>2. Vector(d) = Vector(e)
      BY <1>4, <1>5, <1>7, <2>1, ServingUsed
    <2> QED
      BY <2>1, <2>2, DeviceIrq, ServingUsed
  <1>8. ASSUME NEW d \in Opened PROVE table[target_gsi(Irq(d))].vector = Vector(d)
    <2>1. ~(step <= 2) /\ d \in Device /\ ~is_nmi(target_gsi(Irq(d)))
      BY <1>2, ServingUsed DEF TableInv
    <2>2. table[target_gsi(Irq(d))].vector = Redirection[target_gsi(Irq(d))].vector
      BY <1>3, <1>9, <2>1
    <2> QED
      BY <1>4, <2>1, <2>2
  <1> QED
    BY <1>3, <1>6, <1>7, <1>8, ServingUsed

\* An edge reaches the local APIC once plugin() has opened the input.
LEMMA RaisedIs ==
    ASSUME BootType, ApicType, TableInv, NEW d \in Device
    PROVE  Raised(d) = IF d \in Opened THEN irr \cup {Vector(d)} ELSE irr
  <1> DEFINE g == target_gsi(Irq(d))
  <1>1. g \in Gsi /\ Wired(Irq(d)) = g
    BY Routes, DeviceIrq, InterruptsAssumption DEF Gsi, BootType
  <1>2. table[g].mode \in {"fixed", "nmi"} /\ table[g].masked \in BOOLEAN
    BY <1>1 DEF ApicType
  <1>3. g \in Inputs <=> d \in Opened
    BY TableFacts DEF Inputs
  <1>4. Raised(d) = IF table[g].masked \/ table[g].mode = "nmi" THEN irr ELSE irr \cup {table[g].vector}
    BY <1>1 DEF Raised
  <1>5. CASE d \in Opened
    <2>1. ~table[g].masked /\ table[g].mode = "fixed" /\ table[g].vector = Vector(d)
      BY <1>1, <1>3, <1>5, TableFacts
    <2> QED
      BY <1>4, <1>5, <2>1
  <1>6. CASE d \notin Opened
    <2>1. table[g].masked \/ table[g].mode = "nmi"
      BY <1>1, <1>2, <1>3, <1>6, TableFacts
    <2> QED
      BY <1>4, <1>6, <2>1
  <1> QED
    BY <1>5, <1>6

\* Which devices have a handler is known from how far boot has come.
LEMMA PluggedIs ==
    ASSUME ListInv
    PROVE  \A d \in Device : (\E v \in Used : d \in ToSet(int_vectors[v].handlers))
                               <=> step > PluginAt(d) + 1
  <1> SUFFICES ASSUME NEW d \in Device
               PROVE  (\E v \in Used : d \in ToSet(int_vectors[v].handlers)) <=> step > PluginAt(d) + 1
    OBVIOUS
  <1>1. \A e : ToSet(<<e>>) = {e}
    BY DEF ToSet
  <1>2. ToSet(<<>>) = {}
    BY DEF ToSet
  <1>3. ASSUME step > PluginAt(d) + 1
        PROVE  \E v \in Used : d \in ToSet(int_vectors[v].handlers)
    BY <1>1, <1>3, DeviceIrq DEF ListInv
  <1>4. ASSUME NEW v \in Used, d \in ToSet(int_vectors[v].handlers)
        PROVE  step > PluginAt(d) + 1
    <2>1. int_vectors[v].handlers # <<>>
      BY <1>2, <1>4
    <2>2. PICK e \in Device : step > PluginAt(e) + 1 /\ v = Vector(e)
      BY <2>1 DEF ListInv
    <2>3. int_vectors[v].handlers = <<e>>
      BY <2>2 DEF ListInv
    <2> QED
      BY <1>1, <1>4, <2>2, <2>3
  <1> QED
    BY <1>3, <1>4

\* How far boot has come, the table and the lists together route every device.
LEMMA WholeRouted ==
    ASSUME BootType, ApicType, TableInv, ListInv
    PROVE  Routed
  <1> DEFINE plugged == {d \in Device : \E v \in Used : d \in ToSet(int_vectors[v].handlers)}
             open    == {g \in Gsi : ~table[g].masked /\ table[g].mode = "fixed"}
  <1>1. open = Inputs
    BY TableFacts DEF Inputs
  <1>2. \A d \in Device : Wired(Irq(d)) = target_gsi(Irq(d))
    BY Routes, DeviceIrq DEF BootType
  <1>3. ASSUME NEW d \in plugged, Allowed(d) PROVE d \in Opened
    <2>1. d \in Device /\ step > PluginAt(d) + 1
      BY PluggedIs
    <2>2. step \in Nat /\ step <= LastStep + 1 /\ PluginAt(d) \in {3, 9, 12}
      BY LastIs DEF BootType, PluginAt
    <2>3. CASE step = PluginAt(d) + 2
      <3>1. step <= LastStep
        BY <2>1, <2>2, <2>3, LastIs DEF PluginAt, Device, ByteDevice
      <3>2. Ops[step] = <<"allow", d>>
        BY <2>1, <2>3 DEF Ops, PluginAt, Device, ByteDevice
      <3>3. BootSequence[step] = <<"allow", d>> /\ step \in step..Len(BootSequence)
        BY <2>2, <3>1, <3>2, BootOps, LastIs DEF BootType
      <3> QED
        BY <1>3, <3>3 DEF Allowed
    <2> QED
      BY <2>1, <2>2, <2>3 DEF Opened
  <1>4. Opened \subseteq plugged
    <2> SUFFICES ASSUME NEW d \in Opened PROVE d \in plugged
      OBVIOUS
    <2>1. d \in Device /\ step > PluginAt(d) + 1
      BY LastIs DEF Opened, PluginAt, BootType
    <2> QED
      BY <2>1, PluggedIs
  <1>5. ASSUME NEW d \in Opened
        PROVE  /\ Wired(Irq(d)) \in open /\ table[Wired(Irq(d))].vector = Vector(d)
               /\ d \in ToSet(int_vectors[Vector(d)].handlers)
    <2>1. d \in Device /\ step > PluginAt(d) + 1
      BY <1>4, PluggedIs
    <2>2. int_vectors[Vector(d)].handlers = <<d>>
      BY <2>1 DEF ListInv
    <2>3. Wired(Irq(d)) \in open /\ table[Wired(Irq(d))].vector = Vector(d)
      BY <1>1, <1>2, <2>1, TableFacts DEF Inputs
    <2> QED
      BY <2>2, <2>3 DEF ToSet
  <1>6. open \subseteq {Wired(Irq(d)) : d \in plugged}
    BY <1>1, <1>2, <1>4, ServingUsed DEF Inputs
  <1> QED
    BY <1>3, <1>5, <1>6, Zenon DEF Routed

-----------------------------------------------------------------------------

\* A step that is not one of boot keeps the type of the boot variables,
LEMMA BootTypeFrame ==
    ASSUME BootType, UNCHANGED <<machine, port, step>> PROVE BootType'
  BY DEF BootType, LastStep

\* what is known of boot,
LEMMA BootFrame ==
    ASSUME BootInv, UNCHANGED <<machine, port, step, cpu, ctx>>, ps2'.locked = ps2.locked,
           ps2'.ready = ps2.ready, uart'.ier = uart.ier
    PROVE  BootInv'
  BY OpenedFrame DEF BootInv

\* the redirection table,
LEMMA TableFrame ==
    ASSUME TableInv, UNCHANGED <<machine, port, step, table>> PROVE TableInv'
  <1>1. Opened' = Opened /\ Inputs' = Inputs
    BY OpenedFrame
  <1>2. \A d : Irq(d)' = Irq(d)
    BY Stable
  <1>3. \A irq : target_gsi(irq)' = target_gsi(irq)
    BY Stable
  <1>4. Redirection' = Redirection /\ \A g : is_nmi(g)' = is_nmi(g)
    BY Stable
  <1>5. (\A d \in Opened : ~is_nmi(target_gsi(Irq(d))))'
    BY <1>1, <1>2, <1>3, <1>4 DEF TableInv
  <1> QED
    BY <1>1, <1>4, <1>5, Zenon DEF TableInv, Masked

\* the lists of handlers,
LEMMA ListFrame ==
    ASSUME ListInv, UNCHANGED <<machine, port, step>>,
           \A v \in Used : /\ int_vectors'[v].handlers = int_vectors[v].handlers
                           /\ int_vectors'[v].held = "assign" => int_vectors[v].held = "assign"
    PROVE  ListInv'
  <1>1. \A d \in Device : Vector(d)' = Vector(d) /\ Vector(d) \in Used
    BY Stable, DeviceIrq
  <1> QED
    BY <1>1 DEF ListInv, PluginAt

\* what is in service,
LEMMA DispatchFrame ==
    ASSUME DispatchInv, UNCHANGED <<machine, port, step, enabled, ctx, cpu, isr>>,
           irr' \subseteq irr \cup Serving
    PROVE  DispatchInv'
  <1>1. Serving' = Serving
    BY OpenedFrame
  <1> QED
    BY <1>1 DEF DispatchInv

\* the readers
LEMMA ReaderFrame ==
    ASSUME ReaderInv, UNCHANGED <<machine, port, step, reader, decoder>> PROVE ReaderInv'
  BY OpenedFrame DEF ReaderInv

\* and the room in the buffers.
LEMMA RoomFrame ==
    ASSUME RoomInv, UNCHANGED <<queue, reader>> PROVE RoomInv'
  BY DEF RoomInv, Taken

\* From the state of the kernel without a panic to the invariant.
LEMMA WholeControl == Whole /\ fault = "none" => ControlInv
  BY TypeParts, WholeRouted DEF Whole, Types, ControlInv, Control, NoInterruptPanic

\* Without a panic the invariant says everything of Whole.
LEMMA ControlWhole ==
    ASSUME ControlInv, fault = "none" PROVE Whole
  BY TypeParts DEF Whole, ControlInv

\* The same of the state after a step.
LEMMA WholeControlNext == (Whole /\ fault = "none" => ControlInv)'
  BY WholeControl, PTL

\* Routed without its local definitions.
LEMMA RoutedIs ==
    Routed <=>
      /\ \A d \in Device : (\E v \in Used : d \in ToSet(int_vectors[v].handlers)) =>
            (fault = "none" /\ Allowed(d) =>
                /\ Wired(Irq(d)) \in Gsi /\ ~table[Wired(Irq(d))].masked /\ table[Wired(Irq(d))].mode = "fixed"
                /\ table[Wired(Irq(d))].vector = Vector(d)
                /\ d \in ToSet(int_vectors[Vector(d)].handlers))
      /\ \A g \in Gsi : ~table[g].masked /\ table[g].mode = "fixed" =>
            \E d \in Device : g = Wired(Irq(d)) /\ \E v \in Used : d \in ToSet(int_vectors[v].handlers)
  BY Zenon DEF Routed

\* Routed after a panic: only the second half is left.
LEMMA RoutedIsNext ==
    ASSUME fault' # "none",
           \A g \in Gsi : ~table'[g].masked /\ table'[g].mode = "fixed" =>
              \E d \in Device : g = Wired(Irq(d))' /\ \E v \in Used : d \in ToSet(int_vectors'[v].handlers)
    PROVE  Routed'
  BY Zenon DEF Routed

\* A panic leaves the table and the lists as they are.
LEMMA FaultKeeps ==
    ASSUME Types, NoTornAssign, ReaderInv, Routed, fault' \in {"no_apic", "no_keyboard", "exception", "allow_nmi"},
           UNCHANGED <<machine, port, hardware, table, irr, isr, int_vectors, cpu, enabled, ctx,
                       input, history, torn>>,
           step' \in {step, step + 1}, BootType'
    PROVE  ControlInv'
  <1>1. Types'
    BY DEF Types, hardware, input, history, DeviceType, ApicType, ListType, CpuType,
           ReaderType, BufferType, HistType
  <1>2. (Booted <=> step > LastStep)'
    BY BootedIs, PTL
  <1>3. ReaderInv'
    <2>1. ~Booted' => ~Booted
      <3>1. LastStep \in Nat /\ LastStep' = LastStep
        BY LastIs, Stable DEF hardware, input, history
      <3>2. step \in Nat
        BY <3>1 DEF Types, BootType, hardware, input, history
      <3> QED
        BY <1>2, <3>1, <3>2, BootedIs DEF hardware, input, history
    <2> QED
      BY <2>1 DEF ReaderInv, input
  <1>4. Routed'
    <2>1. Routed
      BY WholeRouted DEF Types, Control
    <2>2. \A d : Wired(Irq(d))' = Wired(Irq(d))
      BY Stable
    <2> QED
      BY <2>1, <2>2, RoutedIs, RoutedIsNext
  <1>5. (TypeOK <=> Types /\ (fault = "none" => RoomInv))'
    BY TypeParts, PTL
  <1> QED
    BY <1>1, <1>3, <1>4, <1>5 DEF ControlInv, NoTornAssign, NoInterruptPanic

\* A panic of boot or of an exception.
LEMMA FaultStep ==
    ASSUME Whole, fault' \in {"no_apic", "no_keyboard", "exception", "allow_nmi"},
           UNCHANGED <<machine, port, hardware, table, irr, isr, int_vectors, cpu, enabled, ctx,
                       input, history, torn>>,
           step' \in {step, step + 1}, BootType'
    PROVE  ControlInv'
  BY FaultKeeps, WholeRouted DEF Whole, Types, Control

-----------------------------------------------------------------------------

\* In a step of boot the boot thread runs, outside of interrupts, and nobody reads.
LEMMA NotBooted ==
    ASSUME Whole, NEW op, Booting(op)
    PROVE  /\ step \in 1..LastStep /\ step \in 1..15 /\ step' = step + 1 /\ Ops[step] = op /\ ~Booted
           /\ fault = "none" /\ cpu = Boot /\ (\A t \in Threads : ctx[t] = 0) /\ isr = {}
           /\ \A t \in Threads : reader[t].at = "idle"
  <1>1. step \in 1..LastStep /\ step \in 1..15 /\ step' = step + 1 /\ Ops[step] = op /\ fault = "none" /\ ctx[cpu] = 0
    BY BootAt, LastIs DEF Whole, Types
  <1>2. ~Booted
    BY <1>1, BootedIs, LastIs
  <1>3. cpu = Boot /\ \A t \in Threads : ctx[t] = 0
    BY <1>1, <1>2 DEF Whole, Control, BootInv
  <1>4. isr = {}
    BY <1>1, UsedVectors, ServingUsed DEF Whole, Control, DispatchInv
  <1> QED
    BY <1>1, <1>2, <1>3, <1>4 DEF Whole, ReaderInv

\* A step of boot keeps the type of the boot variables,
LEMMA BootTypeAdvance ==
    ASSUME Whole, NEW op, Booting(op), machine' = machine, port' = port
    PROVE  BootType' /\ (Booted' <=> step + 1 > LastStep)
  <1>1. step \in 1..LastStep /\ step' = step + 1 /\ LastStep' = LastStep
    BY NotBooted, Stable
  <1>2. (Booted <=> step > LastStep)'
    BY BootedIs, PTL
  <1> QED
    BY <1>1, <1>2, LastIs DEF Whole, Types, BootType

\* lets nobody read,
LEMMA ReaderAdvance ==
    ASSUME Whole, NEW op, Booting(op), UNCHANGED <<reader, decoder>>
    PROVE  ReaderInv'
  BY NotBooted DEF Whole, ReaderInv

\* opens the input of a device if it is the last of its plugin(),
LEMMA OpenedAdvance ==
    ASSUME Whole, NEW op, Booting(op), machine' = machine, port' = port
    PROVE  /\ Opened' = Opened \cup {d \in Device : step = PluginAt(d) + 2}
           /\ Serving \subseteq Serving'
           /\ Inputs' = Inputs \cup {target_gsi(Irq(d)) : d \in {e \in Device : step = PluginAt(e) + 2}}
  <1>1. step \in Nat /\ step' = step + 1
    BY NotBooted
  <1>2. Opened' = Opened \cup {d \in Device : step = PluginAt(d) + 2}
    BY <1>1 DEF Opened, PluginAt
  <1> QED
    BY <1>2, Stable DEF Serving, Inputs

\* changes nothing that is in service,
LEMMA DispatchAdvance ==
    ASSUME Whole, NEW op, Booting(op), UNCHANGED <<machine, port, ctx, cpu, isr>>,
           irr' \subseteq irr \cup Serving, enabled' <=> step >= 6
    PROVE  DispatchInv'
  <1>1. /\ step \in Nat /\ step' = step + 1 /\ Serving \subseteq Serving' /\ isr = {}
        /\ cpu \in Threads /\ \A t \in Threads : ctx[t] = 0
    BY NotBooted, OpenedAdvance DEF Whole, Types, CpuType
  <1> QED
    BY <1>1 DEF Whole, Control, DispatchInv

\* keeps the table unless it opens an input
LEMMA TableAdvance ==
    ASSUME Whole, NEW op, Booting(op), UNCHANGED <<machine, port, table>>,
           step > 2, \A d \in Device : step # PluginAt(d) + 2
    PROVE  TableInv'
  <1>1. step \in Nat /\ step' = step + 1
    BY NotBooted
  <1>2. Opened' = Opened /\ Inputs' = Inputs
    BY OpenedAdvance
  <1>3. \A d : target_gsi(Irq(d))' = target_gsi(Irq(d))
    BY Stable
  <1>4. Redirection' = Redirection /\ \A g : is_nmi(g)' = is_nmi(g)
    BY Stable
  <1>5. (\A d \in Opened : ~is_nmi(target_gsi(Irq(d))))'
    BY <1>2, <1>3, <1>4 DEF Whole, Control, TableInv
  <1>6. ~(step <= 2) /\ ~(step' <= 2)
    BY <1>1
  <1> QED
    BY <1>2, <1>4, <1>5, <1>6, Zenon DEF Whole, Control, TableInv

\* and keeps the lists unless it pushes a handler.
LEMMA ListAdvance ==
    ASSUME Whole, NEW op, Booting(op), UNCHANGED <<machine, port, int_vectors>>,
           \A d \in Device : step # PluginAt(d) + 1
    PROVE  ListInv'
  <1>1. step \in Nat /\ step' = step + 1
    BY NotBooted
  <1>2. \A d \in Device : Vector(d)' = Vector(d)
    BY Stable
  <1> QED
    BY <1>1, <1>2 DEF Whole, Control, ListInv, PluginAt

\* init_serial_port() keeps the invariant: nothing is plugged in yet.
LEMMA InitSerialPortStep ==
    ASSUME Whole, InitSerialPort PROVE ControlInv'
  <1>1. Booting(<<"init", "serial">>)
    BY DEF InitSerialPort
  <1>2. /\ step = 1 /\ step' = 2 /\ fault = "none" /\ cpu = Boot /\ \A t \in Threads : ctx[t] = 0
        /\ isr = {} /\ ~Booted /\ port = "none"
    BY <1>1, NotBooted, OpAt DEF Whole, Control, BootInv
  <1>3. UNCHANGED <<machine, ps2, table, irr, isr, int_vectors, cpu, enabled, ctx, queue, reader,
                    decoder, arrived, delivered, dropped, unannounced, torn, fault>>
    BY DEF InitSerialPort, input, history
  <1>4. /\ port' \in {"none", "Com1", "Com2", "Com3", "Com4"}
        /\ uart' \in {uart, Cleared}
    <2> DEFINE i == SelectInSeq(Ports, check_port)
    <2>1. CASE i = 0
      BY <1>2, <2>1 DEF InitSerialPort
    <2>2. CASE i # 0
      <3>1. i \in 1..4
        <4> DEFINE I == {k \in 1..Len(Ports) : check_port(Ports[k])}
        <4>1. i = Min(I) /\ I # {} /\ I \subseteq 1..4
          BY <2>2 DEF SelectInSeq, Ports
        <4>2. \E x \in I : \A y \in I : x =< y
          BY <4>1
        <4>3. Min(I) \in I
          BY <4>2 DEF Min
        <4> QED
          BY <4>1, <4>3
      <3>2. port' = Ports[i] /\ uart' = Cleared
        BY <2>2, Zenon DEF InitSerialPort
      <3> QED
        BY <3>1, <3>2 DEF Ports
    <2> QED
      BY <2>1, <2>2
  <1>5. BootType'
    <2>1. LastStep' = 11 \/ LastStep' = 15
      BY DEF LastStep
    <2>2. machine' \in Machines
      BY <1>3 DEF Whole, Types, BootType
    <2>3. step' \in 1..(LastStep' + 1)
      BY <1>2, <2>1
    <2> QED
      BY <1>4, <2>2, <2>3 DEF BootType
  <1>6. DeviceType'
    <2>1. FifoDepth \in Nat
      BY InterruptsAssumption
    <2>2. CASE uart' = uart
      BY <1>3, <2>2 DEF Whole, Types, DeviceType
    <2>3. CASE uart' = Cleared
      <3>1. Cleared \in [fifo : Seq(Nat), ier : BOOLEAN] /\ Len(Cleared.fifo) <= FifoDepth
        BY <2>1 DEF Cleared
      <3> QED
        BY <1>3, <2>3, <3>1 DEF Whole, Types, DeviceType
    <2> QED
      BY <1>4, <2>2, <2>3
  <1>7. Types'
    BY <1>3, <1>5, <1>6 DEF Whole, Types, ApicType, ListType, CpuType, ReaderType, BufferType, HistType
  <1>8. RoomInv' /\ ReaderInv' /\ NoTornAssign'
    BY <1>1, <1>3, RoomFrame, ReaderAdvance DEF Whole, NoTornAssign
  <1>9. Opened' = {} /\ Serving' = {} /\ Inputs' = {} /\ Opened = {} /\ Serving = {}
    BY <1>2 DEF Opened, Serving, Inputs, PluginAt
  <1>10. BootInv'
    BY <1>2, <1>3, <1>4 DEF Whole, Control, BootInv, Cleared
  <1>11. TableInv'
    BY <1>2, <1>3, <1>9 DEF Whole, Control, TableInv
  <1>12. ListInv'
    BY <1>2, <1>3 DEF Whole, Control, ListInv, PluginAt
  <1>13. DispatchInv'
    BY <1>2, <1>3, <1>9 DEF Whole, Control, DispatchInv
  <1> QED
    BY <1>2, <1>3, <1>7, <1>8, <1>10, <1>11, <1>12, <1>13, WholeControlNext DEF Whole, Control

\* Apic::new() keeps the invariant: all inputs are masked.
LEMMA InitApicStep ==
    ASSUME Whole, InitApic PROVE ControlInv'
  <1>1. Booting(<<"init", "apic">>)
    BY DEF InitApic
  <1>2. /\ step = 2 /\ step' = 3 /\ fault = "none" /\ cpu = Boot /\ \A t \in Threads : ctx[t] = 0
        /\ isr = {} /\ ~Booted
    BY <1>1, NotBooted, OpAt
  <1>3. UNCHANGED <<machine, port, ps2, uart, irr, isr, int_vectors, cpu, enabled, ctx, queue, reader,
                    decoder, arrived, delivered, dropped, unannounced, torn>>
    BY DEF InitApic, hardware, input, history
  <1>4. BootType'
    BY <1>1, <1>3, BootTypeAdvance
  <1>5. CASE fault' = "no_apic"
    <2>1. table' = table
      BY <1>2, <1>5 DEF InitApic
    <2> QED
      BY <1>2, <1>3, <1>4, <1>5, <2>1, FaultStep DEF hardware, input, history
  <1>6. CASE table' = Redirection /\ fault' = fault
    <2>1. machine \in Machines
      BY DEF Whole, Types, BootType
    <2>2. Types'
      BY <1>3, <1>4, <1>6, <2>1, Redirected
         DEF Whole, Types, DeviceType, ApicType, ListType, CpuType, ReaderType, BufferType, HistType
    <2>3. RoomInv' /\ ReaderInv' /\ NoTornAssign'
      BY <1>1, <1>3, RoomFrame, ReaderAdvance DEF Whole, NoTornAssign
    <2>4. Opened' = {} /\ Inputs' = {}
      BY <1>2 DEF Opened, Inputs, PluginAt
    <2>5. BootInv'
      BY <1>2, <1>3 DEF Whole, Control, BootInv
    <2>6. TableInv'
      <3>1. \A g \in Gsi : Redirection[g] \in [vector : Nat, mode : {"fixed", "nmi"}, masked : BOOLEAN]
        BY <2>1, Redirected
      <3>2. ASSUME NEW g \in Gsi
            PROVE  Redirection[g] = [vector |-> Redirection[g].vector, mode |-> Redirection[g].mode,
                                     masked |-> Redirection[g].masked /\ g \notin Inputs']
        <4>1. PICK r \in [vector : Nat, mode : {"fixed", "nmi"}, masked : BOOLEAN] : r = Redirection[g]
          BY <3>1
        <4>2. (r.masked /\ g \notin Inputs') = r.masked
          BY <2>4
        <4>3. r = [vector |-> r.vector, mode |-> r.mode, masked |-> r.masked]
          OBVIOUS
        <4> QED
          BY <4>1, <4>2, <4>3, Zenon
      <3>3. Redirection' = Redirection /\ ~(step' <= 2)
        BY <1>2, <1>3, Stable
      <3> QED
        BY <1>6, <2>4, <3>2, <3>3, Zenon DEF TableInv
    <2>7. ListInv'
      BY <1>1, <1>2, <1>3, ListAdvance DEF PluginAt
    <2>8. DispatchInv'
      <3>1. enabled' <=> step >= 6
        BY <1>2, <1>3 DEF Whole, Control, DispatchInv
      <3> QED
        BY <1>1, <1>3, <3>1, DispatchAdvance
    <2> QED
      BY <1>2, <1>6, <2>2, <2>3, <2>5, <2>6, <2>7, <2>8, WholeControlNext DEF Whole, Control
  <1> QED
    BY <1>5, <1>6 DEF InitApic

\* Enabling interrupts keeps the invariant.
LEMMA EnableInterruptsStep ==
    ASSUME Whole, EnableInterrupts PROVE ControlInv'
  <1>1. Booting(<<"enable", "cpu">>)
    BY DEF EnableInterrupts
  <1>2. step = 6 /\ step' = 7 /\ fault = "none" /\ ~Booted
    BY <1>1, NotBooted, OpAt
  <1>3. UNCHANGED <<machine, port, ps2, uart, table, irr, isr, int_vectors, cpu, ctx, queue, reader,
                    decoder, arrived, delivered, dropped, unannounced, torn, fault>> /\ enabled' = TRUE
    BY DEF EnableInterrupts, hardware, input, history
  <1>4. BootType'
    BY <1>1, <1>3, BootTypeAdvance
  <1>5. Types'
    BY <1>3, <1>4 DEF Whole, Types, DeviceType, ApicType, ListType, CpuType, ReaderType, BufferType, HistType
  <1>6. RoomInv' /\ ReaderInv' /\ NoTornAssign'
    BY <1>1, <1>3, RoomFrame, ReaderAdvance DEF Whole, NoTornAssign
  <1>7. BootInv'
    BY <1>2, <1>3 DEF Whole, Control, BootInv
  <1>8. TableInv' /\ ListInv'
    BY <1>1, <1>2, <1>3, TableAdvance, ListAdvance DEF PluginAt
  <1>9. DispatchInv'
    BY <1>1, <1>2, <1>3, DispatchAdvance
  <1> QED
    BY <1>2, <1>3, <1>5, <1>6, <1>7, <1>8, <1>9, WholeControlNext DEF Whole, Control

\* init_controller() keeps the invariant: the keyboard cannot interrupt yet.
LEMMA InitControllerStep ==
    ASSUME Whole, InitController PROVE ControlInv'
  <1>1. Booting(<<"init", "controller">>)
    BY DEF InitController
  <1>2. step = 7 /\ step' = 8 /\ fault = "none" /\ ~Booted
    BY <1>1, NotBooted, OpAt
  <1>3. UNCHANGED <<machine, port, uart, table, irr, isr, int_vectors, cpu, enabled, ctx, queue, reader,
                    decoder, delivered, dropped, torn>>
    BY DEF InitController, input
  <1>4. BootType'
    BY <1>1, <1>3, BootTypeAdvance
  <1>5. CASE fault' = "no_keyboard"
    <2>1. UNCHANGED <<ps2, arrived, unannounced>>
      BY <1>2, <1>5 DEF InitController
    <2> QED
      BY <1>2, <1>3, <1>4, <1>5, <2>1, FaultStep DEF hardware, input, history
  <1>6. CASE /\ ps2' = [ps2 EXCEPT !.locked = TRUE, !.data = 0, !.scanning = FALSE]
             /\ arrived' = [arrived EXCEPT !["keyboard"] = 0]
             /\ unannounced' = {}
             /\ fault' = fault
    <2>1. MaxBytes["keyboard"] \in Nat
      BY InterruptsAssumption DEF ByteDevice
    <2>2. DeviceType' /\ HistType' /\ ps2'.locked = TRUE /\ ps2'.ready = ps2.ready
      <3>1. DeviceType' /\ ps2'.locked = TRUE /\ ps2'.ready = ps2.ready
        <4>1. PICK r \in BOOLEAN : ps2.ready = r
          BY DEF Whole, Types, DeviceType
        <4>2. ps2' = [locked |-> TRUE, data |-> 0, scanning |-> FALSE, ready |-> r]
          BY <1>6, <4>1 DEF Whole, Types, DeviceType
        <4>3. 0 \in 0..MaxBytes["keyboard"]
          BY <2>1
        <4> QED
          BY <1>3, <4>1, <4>2, <4>3 DEF Whole, Types, DeviceType
      <3>2. HistType'
        BY <1>3, <1>6 DEF Whole, Types, HistType
      <3> QED
        BY <3>1, <3>2
    <2>3. Types'
      BY <1>3, <1>4, <2>2 DEF Whole, Types, ApicType, ListType, CpuType, ReaderType, BufferType
    <2>4. RoomInv' /\ ReaderInv' /\ NoTornAssign'
      BY <1>1, <1>3, RoomFrame, ReaderAdvance DEF Whole, NoTornAssign
    <2>5. BootInv'
      BY <1>2, <1>3, <2>2 DEF Whole, Control, BootInv
    <2>6. TableInv' /\ ListInv'
      BY <1>1, <1>2, <1>3, TableAdvance, ListAdvance DEF PluginAt
    <2>7. DispatchInv'
      <3>1. enabled' <=> step >= 6
        BY <1>1, <1>2, <1>3, NotBooted DEF Whole, Control, DispatchInv, Types, CpuType
      <3> QED
        BY <1>1, <1>3, <3>1, DispatchAdvance
    <2> QED
      BY <1>2, <1>6, <2>3, <2>4, <2>5, <2>6, <2>7, WholeControlNext DEF Whole, Control
  <1> QED
    BY <1>5, <1>6 DEF InitController

\* init_keyboard() keeps the invariant.
LEMMA InitKeyboardStep ==
    ASSUME Whole, InitKeyboard PROVE ControlInv'
  <1>1. Booting(<<"init", "keyboard">>)
    BY DEF InitKeyboard
  <1>2. step = 8 /\ step' = 9 /\ fault = "none" /\ ~Booted
    BY <1>1, NotBooted, OpAt
  <1>3. UNCHANGED <<machine, port, uart, table, irr, isr, int_vectors, cpu, enabled, ctx, queue, reader,
                    decoder, arrived, delivered, dropped, unannounced, torn>>
    BY DEF InitKeyboard, input, history
  <1>4. BootType'
    BY <1>1, <1>3, BootTypeAdvance
  <1>5. CASE fault' = "no_keyboard"
    <2>1. ps2' = ps2
      BY <1>2, <1>5 DEF InitKeyboard
    <2> QED
      BY <1>2, <1>3, <1>4, <1>5, <2>1, FaultStep DEF hardware, input, history
  <1>6. CASE ps2' = [ps2 EXCEPT !.locked = FALSE, !.scanning = TRUE, !.ready = TRUE] /\ fault' = fault
    <2>1. DeviceType' /\ ps2'.locked = FALSE /\ ps2'.ready = TRUE
      BY <1>3, <1>6 DEF Whole, Types, DeviceType
    <2>2. Types'
      BY <1>3, <1>4, <2>1 DEF Whole, Types, ApicType, ListType, CpuType, ReaderType, BufferType, HistType
    <2>3. RoomInv' /\ ReaderInv' /\ NoTornAssign'
      BY <1>1, <1>3, RoomFrame, ReaderAdvance DEF Whole, NoTornAssign
    <2>4. BootInv'
      BY <1>2, <1>3, <2>1 DEF Whole, Control, BootInv
    <2>5. TableInv' /\ ListInv'
      BY <1>1, <1>2, <1>3, TableAdvance, ListAdvance DEF PluginAt
    <2>6. DispatchInv'
      <3>1. enabled' <=> step >= 6
        BY <1>1, <1>2, <1>3, NotBooted DEF Whole, Control, DispatchInv, Types, CpuType
      <3> QED
        BY <1>1, <1>3, <3>1, DispatchAdvance
    <2> QED
      BY <1>2, <1>6, <2>2, <2>3, <2>4, <2>5, <2>6, WholeControlNext DEF Whole, Control
  <1> QED
    BY <1>5, <1>6 DEF InitKeyboard

\* The end of SerialPort::plugin() keeps the invariant: the port is served by then.
LEMMA EnableUartStep ==
    ASSUME Whole, EnableUart PROVE ControlInv'
  <1>1. Booting(<<"enable", "uart">>)
    BY DEF EnableUart
  <1>2. step = 15 /\ step' = 16 /\ fault = "none" /\ ~Booted
    BY <1>1, NotBooted, OpAt
  <1>3. UNCHANGED <<machine, port, ps2, table, isr, int_vectors, cpu, enabled, ctx, queue, reader,
                    decoder, arrived, delivered, dropped, unannounced, torn, fault>>
    BY DEF EnableUart, input, history
  <1>4. BootType'
    BY <1>1, <1>3, BootTypeAdvance
  <1>5. irr' \subseteq irr \cup Serving
    <2>1. Raised("serial") \subseteq irr \cup Serving
      BY RaisedIs DEF Whole, Types, Control, Serving, Device, ByteDevice
    <2> QED
      BY <2>1 DEF EnableUart
  <1>6. DeviceType'
    BY <1>3 DEF EnableUart, Whole, Types, DeviceType
  <1>7. ApicType'
    BY <1>3, <1>5, ServingUsed DEF Whole, Types, ApicType
  <1>8. Types'
    BY <1>3, <1>4, <1>6, <1>7 DEF Whole, Types, ListType, CpuType, ReaderType, BufferType, HistType
  <1>9. RoomInv' /\ ReaderInv' /\ NoTornAssign'
    BY <1>1, <1>3, RoomFrame, ReaderAdvance DEF Whole, NoTornAssign
  <1>10. BootInv'
    BY <1>2, <1>3 DEF Whole, Control, BootInv
  <1>11. TableInv' /\ ListInv'
    BY <1>1, <1>2, <1>3, TableAdvance, ListAdvance DEF PluginAt
  <1>12. DispatchInv'
    <2>1. enabled' <=> step >= 6
      BY <1>1, <1>2, <1>3, NotBooted DEF Whole, Control, DispatchInv, Types, CpuType
    <2> QED
      BY <1>1, <1>3, <1>5, <2>1, DispatchAdvance
  <1> QED
    BY <1>2, <1>3, <1>8, <1>9, <1>10, <1>11, <1>12, WholeControlNext DEF Whole, Control

\* assign() locks a list that no interrupt uses yet.
LEMMA AssignLockStep ==
    ASSUME Whole, NEW d \in Device, AssignLock(d) PROVE ControlInv'
  <1>1. Booting(<<"lock", d>>)
    BY DEF AssignLock
  <1>2. step \in 1..15 /\ step = PluginAt(d) /\ step' = step + 1 /\ fault = "none" /\ ~Booted
    BY <1>1, NotBooted, OpAt
  <1>3. /\ UNCHANGED <<machine, port, ps2, uart, table, irr, isr, cpu, enabled, ctx, queue, reader,
                       decoder, arrived, delivered, dropped, unannounced, torn, fault>>
        /\ int_vectors' = [int_vectors EXCEPT ![Vector(d)].held = "assign"]
    BY DEF AssignLock, hardware, input, history
  <1>4. BootType'
    BY <1>1, <1>3, BootTypeAdvance
  <1>5. Vector(d) \in Used /\ PluginAt(d) \in {3, 9, 12}
    BY DeviceIrq DEF PluginAt
  <1>6. ListType' /\ \A v \in Used : /\ int_vectors'[v].handlers = int_vectors[v].handlers
                                     /\ int_vectors'[v].held = "assign" =>
                                          int_vectors[v].held = "assign" \/ v = Vector(d)
    BY <1>3, <1>5 DEF Whole, Types, ListType
  <1>7. Types'
    BY <1>3, <1>4, <1>6 DEF Whole, Types, DeviceType, ApicType, CpuType, ReaderType, BufferType, HistType
  <1>8. RoomInv' /\ ReaderInv' /\ NoTornAssign'
    BY <1>1, <1>3, RoomFrame, ReaderAdvance DEF Whole, NoTornAssign
  <1>9. BootInv'
    BY <1>2, <1>3, <1>5 DEF Whole, Control, BootInv
  <1>10. TableInv'
    BY <1>1, <1>2, <1>3, <1>5, TableAdvance DEF PluginAt
  <1>11. ListInv'
    <2>1. \A e \in Device : Vector(e)' = Vector(e) /\ Vector(e) \in Used
      BY <1>3, Stable, DeviceIrq
    <2>2. \A e \in Device : PluginAt(e) \in {3, 9, 12} /\ step # PluginAt(e) + 1
      BY <1>2, <1>5 DEF PluginAt
    <2>3. (\A e \in Device : step > PluginAt(e) + 1 => int_vectors[Vector(e)].handlers = <<e>>)'
      BY <1>2, <1>6, <2>1, <2>2 DEF Whole, Control, ListInv, PluginAt
    <2>4. (\A v \in Used : int_vectors[v].handlers # <<>> =>
             \E e \in Device : step > PluginAt(e) + 1 /\ v = Vector(e))'
      BY <1>2, <1>6, <2>1, <2>2 DEF Whole, Control, ListInv, PluginAt
    <2>5. (\A v \in Used : int_vectors[v].held = "assign" =>
             \E e \in Device : step = PluginAt(e) + 1 /\ v = Vector(e))'
      BY <1>2, <1>6, <2>1, <2>2 DEF Whole, Control, ListInv, PluginAt
    <2> QED
      BY <2>3, <2>4, <2>5 DEF ListInv
  <1>12. DispatchInv'
    <2>1. enabled' <=> step >= 6
      BY <1>1, <1>2, <1>3, <1>5, NotBooted DEF Whole, Control, DispatchInv, Types, CpuType
    <2> QED
      BY <1>1, <1>3, <2>1, DispatchAdvance
  <1> QED
    BY <1>2, <1>3, <1>7, <1>8, <1>9, <1>10, <1>11, <1>12, WholeControlNext DEF Whole, Control

\* assign() pushes the handler and unlocks the list.
LEMMA AssignPushStep ==
    ASSUME Whole, NEW d \in Device, AssignPush(d) PROVE ControlInv'
  <1>1. Booting(<<"push", d>>)
    BY DEF AssignPush
  <1>2. step \in 1..15 /\ step = PluginAt(d) + 1 /\ step' = step + 1 /\ fault = "none" /\ ~Booted
    BY <1>1, NotBooted, OpAt
  <1>3. /\ UNCHANGED <<machine, port, ps2, uart, table, irr, isr, cpu, enabled, ctx, queue, reader,
                       decoder, arrived, delivered, dropped, unannounced, torn, fault>>
        /\ int_vectors' = [int_vectors EXCEPT ![Vector(d)] =
                             [handlers |-> Append(@.handlers, d), held |-> "no"]]
    BY DEF AssignPush, hardware, input, history
  <1>4. BootType'
    BY <1>1, <1>3, BootTypeAdvance
  <1>5. /\ Vector(d) \in Used /\ PluginAt(d) \in {3, 9, 12}
        /\ \A e \in Device : Vector(e)' = Vector(e) /\ Vector(e) \in Used /\ (Vector(e) = Vector(d) => e = d)
    BY <1>3, DeviceIrq, Stable DEF PluginAt
  <1>6. int_vectors[Vector(d)].handlers = <<>>
    <2>1. ASSUME NEW e \in Device, step > PluginAt(e) + 1, Vector(d) = Vector(e) PROVE FALSE
      BY <1>2, <1>5, <2>1
    <2> QED
      BY <1>5, <2>1 DEF Whole, Control, ListInv
  <1>7. \A v \in Used : int_vectors'[v] = IF v = Vector(d) THEN [handlers |-> <<d>>, held |-> "no"]
                                           ELSE int_vectors[v]
    <2>1. Append(<<>>, d) = <<d>>
      OBVIOUS
    <2> QED
      BY <1>3, <1>5, <1>6, <2>1 DEF Whole, Types, ListType
  <1>8. ListType'
    <2>1. <<d>> \in Seq(Device)
      OBVIOUS
    <2>2. [handlers |-> <<d>>, held |-> "no"] \in [handlers : Seq(Device), held : {"no", "assign", "dispatch"}]
      BY <2>1
    <2>3. int_vectors' = [v \in Used |-> int_vectors'[v]]
      BY <1>3 DEF Whole, Types, ListType
    <2>4. \A v \in Used : int_vectors'[v] \in [handlers : Seq(Device), held : {"no", "assign", "dispatch"}]
      BY <1>7, <2>2 DEF Whole, Types, ListType
    <2> QED
      BY <2>3, <2>4 DEF ListType
  <1>9. Types'
    BY <1>3, <1>4, <1>8 DEF Whole, Types, DeviceType, ApicType, CpuType, ReaderType, BufferType, HistType
  <1>10. RoomInv' /\ ReaderInv' /\ NoTornAssign'
    BY <1>1, <1>3, RoomFrame, ReaderAdvance DEF Whole, NoTornAssign
  <1>11. BootInv'
    BY <1>2, <1>3, <1>5 DEF Whole, Control, BootInv
  <1>12. TableInv'
    BY <1>1, <1>2, <1>3, <1>5, TableAdvance DEF PluginAt
  <1>13. ListInv'
    <2>1. \A e \in Device : PluginAt(e) \in {3, 9, 12} /\ (step = PluginAt(e) + 1 => e = d)
      BY <1>2 DEF PluginAt, Device, ByteDevice
    <2>2. (\A e \in Device : step > PluginAt(e) + 1 => int_vectors[Vector(e)].handlers = <<e>>)'
      <3> SUFFICES ASSUME NEW e \in Device, step' > PluginAt(e) + 1
                   PROVE  int_vectors'[Vector(e)].handlers = <<e>>
        BY <1>5 DEF PluginAt
      <3>1. CASE e = d
        BY <1>5, <1>7, <3>1
      <3>2. CASE e # d
        <4>1. step > PluginAt(e) + 1
          BY <1>2, <2>1, <3>2
        <4> QED
          BY <1>5, <1>7, <3>2, <4>1 DEF Whole, Control, ListInv
      <3> QED
        BY <3>1, <3>2
    <2>3. (\A v \in Used : int_vectors[v].handlers # <<>> =>
             \E e \in Device : step > PluginAt(e) + 1 /\ v = Vector(e))'
      <3> SUFFICES ASSUME NEW v \in Used, int_vectors'[v].handlers # <<>>
                   PROVE  \E e \in Device : step' > PluginAt(e) + 1 /\ v = Vector(e)
        BY <1>5 DEF PluginAt
      <3>1. CASE v = Vector(d)
        BY <1>2, <1>5, <3>1
      <3>2. CASE v # Vector(d)
        <4>1. PICK e \in Device : step > PluginAt(e) + 1 /\ v = Vector(e)
          BY <1>7, <3>2 DEF Whole, Control, ListInv
        <4> QED
          BY <1>2, <2>1, <4>1
      <3> QED
        BY <3>1, <3>2
    <2>4. ASSUME NEW v \in Used PROVE int_vectors'[v].held # "assign"
      <3>1. CASE v = Vector(d)
        BY <1>7, <3>1
      <3>2. CASE v # Vector(d)
        BY <1>7, <2>1, <3>2 DEF Whole, Control, ListInv
      <3> QED
        BY <3>1, <3>2
    <2> QED
      BY <2>2, <2>3, <2>4 DEF ListInv
  <1>14. DispatchInv'
    <2>1. enabled' <=> step >= 6
      BY <1>1, <1>2, <1>3, <1>5, NotBooted DEF Whole, Control, DispatchInv, Types, CpuType
    <2> QED
      BY <1>1, <1>3, <2>1, DispatchAdvance
  <1> QED
    BY <1>2, <1>3, <1>9, <1>10, <1>11, <1>12, <1>13, <1>14, WholeControlNext DEF Whole, Control

\* An entry of the table without its mask.
LEMMA Unmask ==
    ASSUME NEW M, NEW r \in [vector : Nat, mode : M, masked : BOOLEAN],
           NEW e, e = [r EXCEPT !.masked = FALSE]
    PROVE  e = [vector |-> r.vector, mode |-> r.mode, masked |-> FALSE]
  OBVIOUS

\* allow() opens the input whose vector has the handler, or panics.
LEMMA AllowStep ==
    ASSUME Whole, NEW d \in Device, Allow(d) PROVE ControlInv'
  <1> DEFINE gsi == target_gsi(Irq(d))
  <1>1. Booting(<<"allow", d>>)
    BY DEF Allow
  <1>2. step \in 1..15 /\ step = PluginAt(d) + 2 /\ step' = step + 1 /\ fault = "none" /\ ~Booted
    BY <1>1, NotBooted, OpAt
  <1>3. UNCHANGED <<machine, port, ps2, uart, irr, isr, int_vectors, cpu, enabled, ctx, queue, reader,
                    decoder, arrived, delivered, dropped, unannounced, torn>>
    BY DEF Allow, hardware, input, history
  <1>4. BootType'
    BY <1>1, <1>3, BootTypeAdvance
  <1>5. CASE is_nmi(gsi)
    <2>1. fault' = "allow_nmi" /\ table' = table
      BY <1>5 DEF Allow
    <2> QED
      BY <1>2, <1>3, <1>4, <2>1, FaultStep DEF hardware, input, history
  <1>6. CASE ~is_nmi(gsi)
    <2>1. table' = [table EXCEPT ![gsi].masked = FALSE] /\ fault' = fault
      BY <1>6 DEF Allow
    <2>2. machine \in Machines /\ gsi \in Gsi
      BY Routes, DeviceIrq, InterruptsAssumption DEF Whole, Types, BootType, Gsi
    <2>3. ApicType'
      BY <1>3, <2>1, <2>2 DEF Whole, Types, ApicType
    <2>4. Types'
      BY <1>3, <1>4, <2>3 DEF Whole, Types, DeviceType, ListType, CpuType, ReaderType, BufferType, HistType
    <2>5. RoomInv' /\ ReaderInv' /\ NoTornAssign'
      BY <1>1, <1>3, RoomFrame, ReaderAdvance DEF Whole, NoTornAssign
    <2>6. PluginAt(d) \in {3, 9, 12} /\ \A e \in Device : step = PluginAt(e) + 2 => e = d
      BY <1>2 DEF PluginAt, Device, ByteDevice
    <2>7. BootInv'
      BY <1>2, <1>3, <2>6 DEF Whole, Control, BootInv
    <2>8. TableInv'
      <3>1. Opened' = Opened \cup {d} /\ Inputs' = Inputs \cup {gsi}
        BY <1>1, <1>2, <1>3, <2>6, OpenedAdvance
      <3>2. Redirection' = Redirection /\ (\A g : is_nmi(g)' = is_nmi(g))
            /\ \A e : target_gsi(Irq(e))' = target_gsi(Irq(e))
        BY <1>3, Stable
      <3>3. (\A e \in Opened : ~is_nmi(target_gsi(Irq(e))))'
        BY <1>6, <3>1, <3>2 DEF Whole, Control, TableInv
      <3>4. ~(step <= 2) /\ ~(step' <= 2)
        BY <1>2, <2>6
      <3>5. ASSUME NEW g \in Gsi
            PROVE  table'[g] = [vector |-> Redirection[g].vector, mode |-> Redirection[g].mode,
                                masked |-> Redirection[g].masked /\ g \notin Inputs']
        <4>1. table[g] = [vector |-> Redirection[g].vector, mode |-> Redirection[g].mode,
                          masked |-> Redirection[g].masked /\ g \notin Inputs]
          BY <3>4, Zenon DEF Whole, Control, TableInv
        <4>2. CASE g = gsi
          <5>1. table'[g] = [table[g] EXCEPT !.masked = FALSE]
            BY <2>1, <2>2, <4>2 DEF Whole, Types, ApicType
          <5>2. (Redirection[g].masked /\ g \notin Inputs') = FALSE
            BY <3>1, <4>2
          <5>3. table[g] \in [vector : Nat, mode : {"fixed", "nmi"}, masked : BOOLEAN]
            BY DEF Whole, Types, ApicType
          <5>4. table'[g] = [vector |-> table[g].vector, mode |-> table[g].mode, masked |-> FALSE]
            BY <5>1, <5>3, Unmask
          <5>5. table[g].vector = Redirection[g].vector /\ table[g].mode = Redirection[g].mode
            BY <4>1
          <5> QED
            BY <5>2, <5>4, <5>5, Zenon
        <4>3. CASE g # gsi
          <5>1. table'[g] = table[g]
            BY <2>1, <2>2, <4>3 DEF Whole, Types, ApicType
          <5>2. g \notin Inputs' <=> g \notin Inputs
            BY <3>1, <4>3
          <5>3. (Redirection[g].masked /\ g \notin Inputs') = (Redirection[g].masked /\ g \notin Inputs)
            BY <5>2, Zenon
          <5> QED
            BY <4>1, <5>1, <5>3, Zenon
        <4> QED
          BY <4>2, <4>3
      <3> QED
        BY <3>2, <3>3, <3>4, <3>5, Zenon DEF TableInv
    <2>9. ListInv'
      <3>1. \A e \in Device : step # PluginAt(e) + 1
        BY <1>2, <2>6 DEF PluginAt
      <3> QED
        BY <1>1, <1>3, <3>1, ListAdvance
    <2>10. DispatchInv'
      <3>1. enabled' <=> step >= 6
        BY <1>1, <1>2, <1>3, <2>6, NotBooted DEF Whole, Control, DispatchInv, Types, CpuType
      <3> QED
        BY <1>1, <1>3, <3>1, DispatchAdvance
    <2> QED
      BY <1>2, <2>1, <2>4, <2>5, <2>7, <2>8, <2>9, <2>10, WholeControlNext DEF Whole, Control
  <1> QED
    BY <1>5, <1>6

\* Every step of boot keeps the invariant.
LEMMA BootSteps ==
    ASSUME Whole, BootStep PROVE ControlInv'
  BY InitSerialPortStep, InitApicStep, EnableInterruptsStep, InitControllerStep, InitKeyboardStep,
     EnableUartStep, AssignLockStep, AssignPushStep, AllowStep DEF BootStep

-----------------------------------------------------------------------------

\* A step that changes nothing keeps the invariant.
LEMMA StutterStep ==
    ASSUME ControlInv, UNCHANGED vars PROVE ControlInv'
  <1>1. UNCHANGED <<machine, step, port, ps2, uart, table, irr, isr, int_vectors, cpu, enabled, ctx, queue,
                    reader, decoder, arrived, delivered, dropped, unannounced, torn, fault>>
    BY DEF vars, hardware, input, history
  <1>2. Types /\ BootType'
    BY <1>1, TypeParts, BootTypeFrame DEF ControlInv, Types
  <1>3. CASE fault # "none"
    BY <1>1, <1>2, <1>3, FaultKeeps DEF ControlInv, NoInterruptPanic, hardware, input, history
  <1>4. CASE fault = "none"
    <2>1. Whole
      BY <1>4, ControlWhole
    <2>2. Types'
      BY <1>1, <1>2 DEF Types, DeviceType, ApicType, ListType, CpuType, ReaderType, BufferType, HistType
    <2>3. RoomInv' /\ ReaderInv' /\ NoTornAssign'
      BY <1>1, <2>1, RoomFrame, ReaderFrame DEF Whole, NoTornAssign
    <2>4. BootInv' /\ TableInv' /\ ListInv' /\ DispatchInv'
      BY <1>1, <2>1, BootFrame, TableFrame, ListFrame, DispatchFrame DEF Whole, Control
    <2> QED
      BY <1>1, <1>4, <2>2, <2>3, <2>4, WholeControlNext DEF Whole, Control
  <1> QED
    BY <1>3, <1>4

\* What a device does: its own state and the local APIC's.
LEMMA DeviceStep ==
    ASSUME Whole, fault = "none", DeviceType', HistType', irr' \subseteq irr \cup Serving,
           UNCHANGED <<machine, step, port, table, isr, int_vectors, cpu, enabled, ctx, queue, reader,
                       decoder, dropped, torn, fault>>,
           ps2'.locked = ps2.locked, ps2'.ready = ps2.ready, uart'.ier = uart.ier
    PROVE  ControlInv'
  <1>1. BootType'
    BY BootTypeFrame DEF Whole, Types
  <1>2. ApicType'
    BY ServingUsed DEF Whole, Types, ApicType
  <1>3. Types'
    BY <1>1, <1>2 DEF Whole, Types, ListType, CpuType, ReaderType, BufferType
  <1>4. RoomInv' /\ ReaderInv' /\ NoTornAssign'
    BY RoomFrame, ReaderFrame DEF Whole, NoTornAssign
  <1>5. BootInv' /\ TableInv' /\ ListInv' /\ DispatchInv'
    BY BootFrame, TableFrame, ListFrame, DispatchFrame DEF Whole, Control
  <1> QED
    BY <1>3, <1>4, <1>5, WholeControlNext DEF Whole, Control

\* An edge asks for service only where there is a handler.
LEMMA RaisedServes ==
    ASSUME Whole, NEW d \in Device PROVE Raised(d) \subseteq irr \cup Serving
  BY RaisedIs DEF Whole, Types, Control, Serving

\* The timer keeps the invariant,
LEMMA TickStep ==
    ASSUME Whole, Tick PROVE ControlInv'
  <1>1. /\ UNCHANGED <<machine, step, port, ps2, uart, table, isr, int_vectors, cpu, enabled, ctx, queue, reader,
                       decoder, arrived, delivered, dropped, unannounced, torn, fault>>
        /\ fault = "none"
    BY DEF Tick, hardware, input, history
  <1>2. irr' \subseteq irr \cup Serving
    BY RaisedServes DEF Tick, Device
  <1>3. DeviceType' /\ HistType'
    BY <1>1 DEF Whole, Types, DeviceType, HistType
  <1> QED
    BY <1>1, <1>2, <1>3, DeviceStep

\* the keyboard does,
LEMMA KeyPressStep ==
    ASSUME Whole, KeyPress PROVE ControlInv'
  <1>1. /\ UNCHANGED <<machine, step, port, uart, table, isr, int_vectors, cpu, enabled, ctx, queue, reader,
                       decoder, delivered, dropped, torn, fault>>
        /\ fault = "none"
    BY DEF KeyPress, input
  <1>2. irr' \subseteq irr \cup Serving
    BY RaisedServes DEF KeyPress, Device, ByteDevice
  <1>3. arrived["keyboard"] \in Nat /\ MaxBytes["keyboard"] \in Nat /\ arrived["keyboard"] < MaxBytes["keyboard"]
    BY InterruptsAssumption DEF KeyPress, Whole, Types, HistType, ByteDevice
  <1>4. arrived' = [arrived EXCEPT !["keyboard"] = arrived["keyboard"] + 1]
        /\ arrived'["keyboard"] = arrived["keyboard"] + 1
    BY DEF KeyPress, Whole, Types, HistType, ByteDevice
  <1>5. DeviceType' /\ ps2'.locked = ps2.locked /\ ps2'.ready = ps2.ready
    <2>1. PICK n \in 0..MaxBytes["keyboard"] : n = arrived'["keyboard"]
      BY <1>3, <1>4
    <2>2. ps2' = [ps2 EXCEPT !.data = n]
      BY <2>1 DEF KeyPress
    <2> QED
      BY <1>1, <2>2 DEF Whole, Types, DeviceType
  <1>6. HistType'
    <2>1. arrived' \in [ByteDevice -> Nat] /\ arrived'["keyboard"] \in Nat
      BY <1>3, <1>4 DEF Whole, Types, HistType
    <2>2. unannounced' \subseteq Nat
      BY <2>1 DEF KeyPress, Whole, Types, HistType
    <2> QED
      BY <1>1, <2>1, <2>2 DEF Whole, Types, HistType
  <1> QED
    BY <1>1, <1>2, <1>5, <1>6, DeviceStep

\* the serial port does,
LEMMA SerialByteStep ==
    ASSUME Whole, SerialByte PROVE ControlInv'
  <1>1. /\ UNCHANGED <<machine, step, port, ps2, table, isr, int_vectors, cpu, enabled, ctx, queue, reader,
                       decoder, delivered, dropped, unannounced, torn, fault>>
        /\ fault = "none"
    BY DEF SerialByte, input
  <1>2. irr' \subseteq irr \cup Serving
    <2>1. Raised("serial") \subseteq irr \cup Serving
      BY RaisedServes DEF Device, ByteDevice
    <2> QED
      BY <2>1 DEF SerialByte
  <1>3. /\ arrived' = [arrived EXCEPT !["serial"] = arrived["serial"] + 1]
        /\ arrived["serial"] \in Nat /\ arrived'["serial"] = arrived["serial"] + 1
    BY DEF SerialByte, Whole, Types, HistType, ByteDevice
  <1>4. DeviceType' /\ uart'.ier = uart.ier
    <2>1. PICK n \in Nat : n = arrived'["serial"]
      BY <1>3
    <2>2. PICK f \in Seq(Nat) : f = uart.fifo
      BY DEF Whole, Types, DeviceType
    <2>3. uart' = [uart EXCEPT !.fifo = Append(f, n)] /\ Len(f) < FifoDepth
      BY <2>1, <2>2 DEF SerialByte
    <2>4. Append(f, n) \in Seq(Nat) /\ Len(Append(f, n)) = Len(f) + 1 /\ Len(f) \in Nat /\ FifoDepth \in Nat
      BY InterruptsAssumption
    <2>5. uart'.fifo = Append(f, n) /\ uart'.ier = uart.ier /\ uart' \in [fifo : Seq(Nat), ier : BOOLEAN]
      BY <2>3, <2>4 DEF Whole, Types, DeviceType
    <2> QED
      BY <1>1, <2>3, <2>4, <2>5 DEF Whole, Types, DeviceType
  <1>5. HistType'
    BY <1>1, <1>3 DEF Whole, Types, HistType
  <1> QED
    BY <1>1, <1>2, <1>4, <1>5, DeviceStep

\* and a non-maskable interrupt does.
LEMMA NmiStep ==
    ASSUME Whole, Nmi PROVE ControlInv'
  <1>1. fault' = "exception" /\ step' = step /\ machine' = machine /\ port' = port
    BY NmiFault DEF Nmi
  <1>2. BootType'
    BY <1>1, BootTypeFrame DEF Whole, Types
  <1> QED
    BY <1>1, <1>2, FaultStep DEF Nmi

-----------------------------------------------------------------------------

\* Some vector that waits is the highest.
LEMMA Highest ==
    ASSUME NEW S, S \subseteq Used, S # {} PROVE Max(S) \in S
  <1>1. \E x \in S : \A y \in S : x >= y
    <2>1. \A y \in S : y = 32 \/ y = 33 \/ y = 35 \/ y = 36
      BY UsedVectors
    <2>2. CASE 36 \in S
      BY <2>1, <2>2
    <2>3. CASE 36 \notin S /\ 35 \in S
      BY <2>1, <2>3
    <2>4. CASE 36 \notin S /\ 35 \notin S /\ 33 \in S
      BY <2>1, <2>4
    <2>5. CASE 36 \notin S /\ 35 \notin S /\ 33 \notin S
      BY <2>1, <2>5
    <2> QED
      BY <2>2, <2>3, <2>4, <2>5
  <1> QED
    BY <1>1 DEF Max

\* end_of_interrupt() with at most one interrupt in service leaves none.
LEMMA EndOfOne == EndOfInterrupt({}) = {} /\ \A v \in Used : EndOfInterrupt({v}) = {}
  <1>1. ASSUME NEW v \in Used PROVE Max({v}) = v
    <2>1. v \in Nat /\ {v} \in SUBSET Nat /\ v \in {v} /\ \A j \in {v} : j = v
      BY UsedVectors
    <2> QED
      BY <2>1, Select
  <1> QED
    BY <1>1 DEF EndOfInterrupt

\* The processor is in the dispatcher of a device that is plugged in.
LEMMA DispatchOf ==
    ASSUME Whole
    PROVE  /\ \A v \in Used : v \in Nat /\ v > 0
           /\ \A v \in Serving : v \in Used /\ \E d \in Opened : v = Vector(d) /\ int_vectors[v].handlers = <<d>>
           /\ \A v \in Serving : int_vectors[v].held # "assign"
           /\ \A t \in Threads : \A v \in Used : ctx[t] \in {v, -v} => v \in Serving /\ step > 6
           /\ isr = {} \/ \E v \in Serving : isr = {v} /\ ctx[cpu] \in {v, -v}
           /\ EndOfInterrupt(isr) = {} /\ step \in Nat
  <1>1. step \in Nat
    BY LastIs DEF Whole, Types, BootType
  <1>2. \A v \in Used : v \in Nat /\ v > 0
    BY UsedVectors
  <1>3. ASSUME NEW v \in Serving
        PROVE  /\ v \in Used /\ int_vectors[v].held # "assign"
               /\ \E d \in Opened : v = Vector(d) /\ int_vectors[v].handlers = <<d>>
    <2>1. PICK d \in Opened : v = Vector(d)
      BY DEF Serving
    <2>2. d \in Device /\ step > PluginAt(d) + 2 /\ PluginAt(d) \in Nat /\ v \in Used
      BY <2>1, DeviceIrq DEF Opened, PluginAt
    <2>3. int_vectors[v].handlers = <<d>>
      BY <1>1, <2>1, <2>2 DEF Whole, Control, ListInv
    <2>4. int_vectors[v].held # "assign"
      BY <1>1, <2>1, <2>2, DeviceIrq DEF Whole, Control, ListInv
    <2> QED
      BY <2>1, <2>2, <2>3, <2>4
  <1>4. ASSUME NEW t \in Threads, NEW v \in Used, ctx[t] \in {v, -v} PROVE v \in Serving /\ step > 6
    BY <1>2, <1>3, <1>4 DEF Whole, Control, DispatchInv
  <1>5. isr = {} \/ \E v \in Serving : isr = {v} /\ ctx[cpu] \in {v, -v}
    BY DEF Whole, Control, DispatchInv
  <1>6. EndOfInterrupt(isr) = {}
    BY <1>3, <1>5, EndOfOne
  <1> QED
    BY <1>1, <1>2, <1>3, <1>4, <1>5, <1>6

\* What the processor does: no byte moves and boot does not go on.
LEMMA ProcessorStep ==
    ASSUME Whole, fault' = "none",
           UNCHANGED <<machine, step, port, ps2, uart, table, queue, reader, decoder, arrived,
                       delivered, dropped, unannounced, torn>>,
           irr' \subseteq irr, isr' \subseteq Used, ListType', CpuType', ListInv', DispatchInv',
           ~Booted => cpu' = cpu /\ \A t \in Threads : t # cpu => ctx'[t] = ctx[t]
    PROVE  ControlInv'
  <1>1. BootType'
    BY BootTypeFrame DEF Whole, Types
  <1>2. Types'
    BY <1>1 DEF Whole, Types, DeviceType, ApicType, ReaderType, BufferType, HistType
  <1>3. RoomInv' /\ ReaderInv' /\ NoTornAssign'
    BY RoomFrame, ReaderFrame DEF Whole, NoTornAssign
  <1>4. TableInv'
    BY TableFrame DEF Whole, Control
  <1>5. BootInv'
    BY OpenedFrame DEF Whole, Control, BootInv
  <1> QED
    BY <1>2, <1>3, <1>4, <1>5, WholeControlNext DEF Whole, Control

\* The processor accepts an interrupt that has a handler.
LEMMA AcceptStep ==
    ASSUME Whole, Accept PROVE ControlInv'
  <1> DEFINE v == Max(irr)
  <1>1. /\ UNCHANGED <<machine, step, port, ps2, uart, table, int_vectors, cpu, queue, reader, decoder,
                       arrived, delivered, dropped, unannounced, torn>>
        /\ enabled /\ irr # {} /\ irr' = irr \ {v} /\ isr' = {v} /\ ctx' = [ctx EXCEPT ![cpu] = v]
        /\ enabled' = FALSE /\ fault' = VectorFault(v)
    BY DEF Accept, hardware, input, history
  <1>2. v \in irr /\ v \in Used /\ v \in Serving /\ v > 0 /\ v \in Nat
    BY <1>1, Highest, DispatchOf DEF Whole, Types, ApicType, Control, DispatchInv
  <1>3. fault' = "none"
    BY <1>1, <1>2, NoVectorFault
  <1> HIDE DEF v
  <1>4. cpu \in Threads /\ ctx'[cpu] = v /\ (\A t \in Threads : t # cpu => ctx'[t] = ctx[t])
    BY <1>1 DEF Whole, Types, CpuType
  <1>5. CpuType'
    BY <1>1, <1>2 DEF Whole, Types, CpuType
  <1>6. ListType' /\ ListInv'
    BY <1>1, ListFrame DEF Whole, Types, ListType, Control
  <1>7. DispatchInv'
    <2>1. Serving' = Serving
      BY <1>1, OpenedFrame
    <2>2. step > 6
      BY <1>1 DEF Whole, Control, DispatchInv
    <2> QED
      BY <1>1, <1>2, <1>4, <2>1, <2>2 DEF Whole, Control, DispatchInv
  <1> QED
    BY <1>1, <1>2, <1>3, <1>4, <1>5, <1>6, <1>7, ProcessorStep

\* The dispatcher returns: even if switch_thread() has ended the interrupt before,
\* no other one is in service that this would end.
LEMMA FinishStep ==
    ASSUME Whole, Finish PROVE ControlInv'
  <1>1. /\ UNCHANGED <<machine, step, port, ps2, uart, table, irr, cpu, queue, reader, decoder,
                       arrived, delivered, dropped, unannounced, torn, fault>>
        /\ fault = "none" /\ ctx[cpu] < 0
        /\ int_vectors' = [int_vectors EXCEPT ![-ctx[cpu]].held = "no"]
        /\ isr' = EndOfInterrupt(isr) /\ ctx' = [ctx EXCEPT ![cpu] = 0] /\ enabled' = TRUE
    BY DEF Finish, hardware, input, history
  <1>2. cpu \in Threads /\ \A t \in Threads : ctx[t] \in {0} \cup Used \cup {-v : v \in Used}
    BY DEF Whole, Types, CpuType
  <1>3. PICK v \in Used : ctx[cpu] = -v /\ -ctx[cpu] = v
    BY <1>1, <1>2, DispatchOf
  <1>4. v \in Serving /\ step > 6 /\ isr' = {}
    BY <1>1, <1>2, <1>3, DispatchOf
  <1>5. ctx'[cpu] = 0 /\ (\A t \in Threads : t # cpu => ctx'[t] = ctx[t])
    BY <1>1, <1>2 DEF Whole, Types, CpuType
  <1>6. CpuType'
    BY <1>1 DEF Whole, Types, CpuType
  <1>7. /\ ListType'
        /\ \A w \in Used : /\ int_vectors'[w].handlers = int_vectors[w].handlers
                           /\ int_vectors'[w].held = "assign" => int_vectors[w].held = "assign"
    BY <1>1, <1>3 DEF Whole, Types, ListType
  <1>8. ListInv'
    BY <1>1, <1>7, ListFrame DEF Whole, Control
  <1>9. DispatchInv'
    <2>1. Serving' = Serving
      BY <1>1, OpenedFrame
    <2> QED
      BY <1>1, <1>2, <1>4, <1>5, <2>1 DEF Whole, Control, DispatchInv
  <1> QED
    BY <1>1, <1>4, <1>5, <1>6, <1>7, <1>8, <1>9, ProcessorStep

\* The timer switches: the thread that goes on has no interrupt in service.
LEMMA DispatchTimerStep ==
    ASSUME Whole, NEW v \in Used, NEW n \in Threads, DispatchTimer(v, n) PROVE ControlInv'
  <1>1. /\ UNCHANGED <<machine, step, port, ps2, uart, table, irr, queue, reader, decoder,
                       arrived, delivered, dropped, unannounced, fault>>
        /\ fault = "none" /\ ctx[cpu] = v /\ Booted /\ n # cpu
        /\ torn' = (torn \/ int_vectors[v].held = "assign")
        /\ int_vectors' = [int_vectors EXCEPT ![v].held = "dispatch"]
        /\ ctx' = [ctx EXCEPT ![cpu] = -v]
        /\ cpu' = n /\ enabled' = (ctx[n] = 0) /\ isr' = EndOfInterrupt(isr)
    BY DEF DispatchTimer, Handling, InDispatch, Seize, Triggered, SwitchTo, hardware, input, history
  <1>2. cpu \in Threads /\ v \in Serving /\ step > 6 /\ isr' = {} /\ int_vectors[v].held # "assign"
    BY <1>1, DispatchOf DEF Whole, Types, CpuType
  <1>3. torn' = torn
    BY <1>1, <1>2, Zenon DEF Whole, Types, HistType, NoTornAssign
  <1>4. /\ ctx'[n] = ctx[n] /\ ctx'[cpu] = -v
        /\ \A t \in Threads : t # cpu => ctx'[t] = ctx[t]
    BY <1>1, <1>2 DEF Whole, Types, CpuType
  <1>5. CpuType'
    <2>1. ctx' \in [Threads -> {0} \cup Used \cup {-w : w \in Used}]
      BY <1>1 DEF Whole, Types, CpuType
    <2>2. cpu' \in Threads /\ enabled' \in BOOLEAN
      BY <1>1
    <2> QED
      BY <2>1, <2>2 DEF CpuType
  <1>6. /\ ListType'
        /\ \A w \in Used : /\ int_vectors'[w].handlers = int_vectors[w].handlers
                           /\ int_vectors'[w].held = "assign" => int_vectors[w].held = "assign"
    BY <1>1 DEF Whole, Types, ListType
  <1>7. ListInv'
    BY <1>1, <1>6, ListFrame DEF Whole, Control
  <1>8. DispatchInv'
    <2>1. Serving' = Serving
      BY <1>1, OpenedFrame
    <2>2. enabled' <=> step' > 6 /\ ctx'[cpu'] = 0
      BY <1>1, <1>2, <1>4
    <2>3. \A t \in Threads : ctx'[t] # 0 => step' > 6 /\ ctx'[t] \in Serving' \cup {-w : w \in Serving'}
      BY <1>1, <1>2, <1>4, <2>1 DEF Whole, Control, DispatchInv
    <2> QED
      BY <1>1, <1>2, <2>1, <2>2, <2>3 DEF Whole, Control, DispatchInv
  <1> QED
    BY <1>1, <1>2, <1>3, <1>5, <1>6, <1>7, <1>8, ProcessorStep

\* A switch outside of interrupts keeps the invariant.
LEMMA BlockStep ==
    ASSUME Whole, NEW n \in Threads, Block(n) PROVE ControlInv'
  <1>1. /\ UNCHANGED <<machine, step, port, ps2, uart, table, irr, isr, int_vectors, ctx, queue, reader, decoder,
                       arrived, delivered, dropped, unannounced, torn, fault>>
        /\ fault = "none" /\ ctx[cpu] = 0 /\ Booted /\ cpu' = n /\ enabled' = (ctx[n] = 0)
    BY DEF Block, Running, hardware, input, history
  <1>2. isr = {} /\ step > 6
    <2>1. isr = {}
      BY <1>1, DispatchOf
    <2>2. step > 6
      BY <1>1, BootedIs, LastIs, DispatchOf
    <2> QED
      BY <2>1, <2>2
  <1>3. CpuType'
    BY <1>1 DEF Whole, Types, CpuType
  <1>4. ListType' /\ ListInv'
    BY <1>1, ListFrame DEF Whole, Types, ListType, Control
  <1>5. DispatchInv'
    <2>1. Serving' = Serving
      BY <1>1, OpenedFrame
    <2>2. enabled' <=> step' > 6 /\ ctx'[cpu'] = 0
      BY <1>1, <1>2
    <2> QED
      BY <1>1, <1>2, <2>1, <2>2 DEF Whole, Control, DispatchInv
  <1> QED
    BY <1>1, <1>2, <1>3, <1>4, <1>5, ProcessorStep

-----------------------------------------------------------------------------

\* The threads that hold a slot of the buffer of d.
TakenBy(d) == {t \in Threads : reader[t].dev = d /\ reader[t].at = "taken"}

\* A set whose members are equal has at most one.
LEMMA AtMostOne ==
    ASSUME NEW S, \A t, u \in S : t = u
    PROVE  IsFiniteSet(S) /\ Cardinality(S) \in {0, 1} /\ (Cardinality(S) = 0 <=> S = {})
  <1>1. CASE S = {}
    BY <1>1, FS_EmptySet
  <1>2. CASE S # {}
    <2>1. PICK t : t \in S
      BY <1>2
    <2>2. S = {t}
      BY <2>1
    <2> QED
      BY <1>2, <2>2, FS_Singleton
  <1> QED
    BY <1>1, <1>2

\* A set of at most one has equal members.
LEMMA OneMember ==
    ASSUME NEW S, IsFiniteSet(S), Cardinality(S) <= 1
    PROVE  \A a, b \in S : a = b
  <1>1. Cardinality(S) = 0 \/ Cardinality(S) = 1
    BY FS_CardinalityType
  <1>2. CASE Cardinality(S) = 0
    BY <1>2, FS_EmptySet
  <1>3. CASE Cardinality(S) = 1
    BY <1>3, FS_Singleton
  <1> QED
    BY <1>1, <1>2, <1>3

\* Readers hold at most one slot of a buffer.
LEMMA TakenOne ==
    ASSUME ReaderInv, NEW d \in ByteDevice
    PROVE  /\ \A t, u \in Threads : (/\ reader[t].dev = d /\ reader[t].at = "taken"
                                     /\ reader[u].dev = d /\ reader[u].at # "idle") => t = u
           /\ Taken(d) \in {0, 1} /\ (Taken(d) = 0 <=> TakenBy(d) = {}) /\ Taken(d) = Cardinality(TakenBy(d))
  <1>1. ASSUME NEW t \in Threads, NEW u \in Threads, reader[t].dev = d, reader[t].at = "taken",
               reader[u].dev = d, reader[u].at # "idle"
        PROVE  t = u
    <2>1. CASE d = "keyboard"
      BY <1>1, <2>1 DEF ReaderInv
    <2>2. CASE d = "serial"
      <3>1. t \in Readers["serial"] /\ u \in Readers["serial"]
        BY <1>1, <2>2 DEF ReaderInv
      <3>2. IsFiniteSet(Readers["serial"]) /\ Cardinality(Readers["serial"]) <= 1
        <4>1. Readers["serial"] \in SUBSET Threads /\ IsFiniteSet(Threads)
          BY InterruptsAssumption DEF ByteDevice
        <4> QED
          BY <4>1, InterruptsAssumption, FS_Subset
      <3>3. \A a, b \in Readers["serial"] : a = b
        BY <3>2, OneMember
      <3> QED
        BY <3>1, <3>3
    <2> QED
      BY <2>1, <2>2 DEF ByteDevice
  <1>2. \A t, u \in TakenBy(d) : t = u
    BY <1>1 DEF TakenBy
  <1>3. Taken(d) = Cardinality(TakenBy(d))
    BY DEF Taken, TakenBy
  <1>4. Cardinality(TakenBy(d)) \in {0, 1} /\ (Cardinality(TakenBy(d)) = 0 <=> TakenBy(d) = {})
    BY <1>2, AtMostOne
  <1>5. \A t, u \in Threads : (/\ reader[t].dev = d /\ reader[t].at = "taken"
                               /\ reader[u].dev = d /\ reader[u].at # "idle") => t = u
    BY <1>1
  <1>6. Taken(d) \in {0, 1} /\ (Taken(d) = 0 <=> TakenBy(d) = {})
    BY <1>3, <1>4, Zenon
  <1> QED
    BY <1>3, <1>5, <1>6, Zenon

\* A handler finds room: at worst it drops the oldest byte.
LEMMA StoreFits ==
    ASSUME BufferType, ReaderInv, RoomInv, NEW d \in ByteDevice, NEW byte \in Nat
    PROVE  /\ ~NoRoom(d)
           /\ Store(queue[d], d, byte) \in Seq(Nat)
           /\ Len(Store(queue[d], d, byte)) + Taken(d) <= Capacity
           /\ queue[d] \in Seq(Nat)
           /\ Len(queue[d]) + Taken(d) >= Capacity =>
                queue[d] # <<>> /\ Len(queue[d]) + Taken(d) = Capacity
  <1>1. PICK q \in Seq(Nat) : q = queue[d]
    BY DEF BufferType
  <1>2. PICK k \in {0, 1} : k = Taken(d)
    BY TakenOne
  <1>3. Capacity \in Nat /\ Capacity > 1 /\ Len(q) + k <= Capacity /\ Len(q) \in Nat
    BY <1>1, <1>2, InterruptsAssumption DEF RoomInv
  <1>4. ~NoRoom(d)
    BY <1>2, <1>3 DEF NoRoom
  <1>5. Append(q, byte) \in Seq(Nat) /\ Len(Append(q, byte)) = Len(q) + 1
    OBVIOUS
  <1>6. q # <<>> => Append(Tail(q), byte) \in Seq(Nat) /\ Len(Append(Tail(q), byte)) = Len(q)
    BY SMT
  <1>7. Len(q) + k >= Capacity => q # <<>>
    BY <1>3
  <1>8. Store(q, d, byte) = IF Len(q) + k < Capacity THEN Append(q, byte) ELSE Append(Tail(q), byte)
    BY <1>2 DEF Store
  <1>9. Store(q, d, byte) \in Seq(Nat) /\ Len(Store(q, d, byte)) + k <= Capacity
    BY <1>3, <1>5, <1>6, <1>7, <1>8
  <1> QED
    BY <1>1, <1>2, <1>3, <1>4, <1>7, <1>9

\* Receiving a byte keeps the type of the buffers and their bound.
LEMMA ReceiveTypes ==
    ASSUME BufferType, ReaderInv, RoomInv, NEW d \in ByteDevice, NEW byte \in Nat, Receive(d, byte),
           reader' = reader
    PROVE  BufferType' /\ RoomInv'
  <1>1. PICK q \in Seq(Nat) : q = Store(queue[d], d, byte)
    BY StoreFits
  <1>2. queue' = [queue EXCEPT ![d] = q]
    BY <1>1, Zenon DEF Receive
  <1>3. queue' \in [ByteDevice -> Seq(Nat)]
    BY <1>2 DEF BufferType
  <1>4. ToSet(Append(queue[d], byte)) \subseteq Nat
    <2>1. queue[d] \in Seq(Nat)
      BY DEF BufferType
    <2>2. Append(queue[d], byte) \in Seq(Nat)
      BY <2>1
    <2> QED
      BY <2>2, Elements DEF ToSet
  <1>5. dropped' = [dropped EXCEPT ![d] = dropped[d] \cup (ToSet(Append(queue[d], byte)) \ ToSet(q))]
    BY <1>1 DEF Receive
  <1>6. dropped' \in [ByteDevice -> SUBSET Nat]
    BY <1>4, <1>5 DEF BufferType
  <1>7. \A e \in ByteDevice : Taken(e)' = Taken(e)
    BY DEF Taken
  <1>8. RoomInv'
    <2> SUFFICES ASSUME NEW e \in ByteDevice PROVE Len(queue'[e]) + Taken(e) <= Capacity
      BY <1>7 DEF RoomInv
    <2>1. CASE e = d
      BY <1>1, <1>2, <2>1, StoreFits DEF BufferType
    <2>2. CASE e # d
      BY <1>2, <2>2 DEF BufferType, RoomInv
    <2> QED
      BY <2>1, <2>2
  <1> QED
    BY <1>3, <1>6, <1>8 DEF BufferType

\* The handlers of keyboard and serial port keep the invariant and do not panic.
LEMMA DispatchBytesStep ==
    ASSUME Whole, NEW v \in Used, DispatchBytes(v) PROVE ControlInv'
  <1>1. /\ UNCHANGED <<machine, step, port, table, irr, isr, cpu, enabled, reader, decoder,
                       arrived, delivered, unannounced>>
        /\ fault = "none" /\ ctx[cpu] = v
        /\ torn' = (torn \/ int_vectors[v].held = "assign")
        /\ int_vectors' = [int_vectors EXCEPT ![v].held = "dispatch"]
    BY DEF DispatchBytes, InDispatch, Seize
  <1>2. cpu \in Threads /\ v \in Serving /\ step > 6 /\ int_vectors[v].held # "assign" /\ v > 0 /\ v \in Nat
    BY <1>1, DispatchOf DEF Whole, Types, CpuType
  <1>3. torn' = torn
    BY <1>1, <1>2, Zenon DEF Whole, Types, HistType, NoTornAssign
  <1>4. ctx' = ctx \/ ctx' = [ctx EXCEPT ![cpu] = -v]
    BY DEF DispatchBytes, Triggered
  <1>5. /\ ctx'[cpu] \in {v, -v} /\ ctx'[cpu] # 0
        /\ \A t \in Threads : t # cpu => ctx'[t] = ctx[t]
    BY <1>1, <1>2, <1>4 DEF Whole, Types, CpuType
  <1>6. BufferType /\ ReaderInv /\ RoomInv
    BY DEF Whole, Types
  <1>7. fault' = "none" /\ DeviceType' /\ BufferType' /\ RoomInv'
        /\ ps2'.locked = ps2.locked /\ ps2'.ready = ps2.ready /\ uart'.ier = uart.ier
    <2>1. CASE Handling(v, "keyboard") /\ KeyboardTrigger
      <3>1. PICK d \in Opened : v = Vector(d) /\ int_vectors[v].handlers = <<d>>
        BY <1>2, DispatchOf
      <3>2. d = "keyboard" /\ step > 11
        BY <2>1, <3>1 DEF Handling, Opened, PluginAt
      <3>3. ps2.ready /\ ~ps2.locked
        BY <1>2, <3>2, DispatchOf DEF Whole, Control, BootInv
      <3>4. "keyboard" \in ByteDevice /\ ps2.data \in Nat
        BY InterruptsAssumption DEF ByteDevice, Whole, Types, DeviceType
      <3>5. ~NoRoom("keyboard")
        BY <1>6, <3>4, StoreFits
      <3>6. fault' = "none"
        BY <2>1, <3>3, <3>5 DEF KeyboardTrigger
      <3>7. DeviceType' /\ ps2'.locked = ps2.locked /\ ps2'.ready = ps2.ready /\ uart'.ier = uart.ier
        <4>1. ps2' = [ps2 EXCEPT !.data = 0] /\ uart' = uart /\ 0 \in 0..MaxBytes["keyboard"]
          BY <2>1, InterruptsAssumption DEF KeyboardTrigger, ByteDevice
        <4> QED
          BY <4>1 DEF Whole, Types, DeviceType
      <3>8. BufferType' /\ RoomInv'
        <4>1. CASE ps2.data # 0
          <5>1. Receive("keyboard", ps2.data)
            BY <2>1, <3>6, <4>1 DEF KeyboardTrigger
          <5> QED
            BY <1>1, <1>6, <3>4, <5>1, ReceiveTypes
        <4>2. CASE ps2.data = 0
          <5>1. UNCHANGED <<queue, dropped>>
            BY <2>1, <4>2 DEF KeyboardTrigger
          <5> QED
            BY <1>1, <1>6, <5>1, RoomFrame DEF BufferType
        <4> QED
          BY <4>1, <4>2
      <3> QED
        BY <3>6, <3>7, <3>8
    <2>2. CASE Handling(v, "serial") /\ SerialTrigger
      <3>1. PICK f \in Seq(Nat) : f = uart.fifo
        BY DEF Whole, Types, DeviceType
      <3>2. f # <<>> /\ Head(f) \in Nat /\ Tail(f) \in Seq(Nat) /\ Len(Tail(f)) = Len(f) - 1 /\ Len(f) \in Nat
        BY <2>2, <3>1 DEF SerialTrigger, Pending
      <3>3. "serial" \in ByteDevice
        BY DEF ByteDevice
      <3>4. fault' = "none"
        BY <1>6, <2>2, <3>2, <3>3, StoreFits DEF SerialTrigger
      <3>5. Receive("serial", Head(f))
        BY <2>2, <3>1, <3>4 DEF SerialTrigger
      <3>6. BufferType' /\ RoomInv'
        BY <1>1, <1>6, <3>2, <3>3, <3>5, ReceiveTypes
      <3>7. ps2' = ps2 /\ uart' = [uart EXCEPT !.fifo = Tail(f)]
        BY <2>2, <3>1 DEF SerialTrigger
      <3>8. uart'.fifo = Tail(f) /\ uart'.ier = uart.ier /\ uart' \in [fifo : Seq(Nat), ier : BOOLEAN]
        BY <3>2, <3>7 DEF Whole, Types, DeviceType
      <3>9. FifoDepth \in Nat /\ Len(f) <= FifoDepth
        BY <3>1, InterruptsAssumption DEF Whole, Types, DeviceType
      <3>10. DeviceType'
        BY <3>2, <3>7, <3>8, <3>9 DEF Whole, Types, DeviceType
      <3> QED
        BY <3>4, <3>6, <3>7, <3>8, <3>10
    <2>3. CASE UNCHANGED <<hardware, queue, dropped, fault>>
      BY <1>1, <1>6, <2>3, RoomFrame DEF hardware, Whole, Types, DeviceType, BufferType
    <2> QED
      BY <2>1, <2>2, <2>3 DEF DispatchBytes
  <1>8. BootType' /\ TableInv' /\ ReaderInv'
    BY <1>1, BootTypeFrame, TableFrame, ReaderFrame DEF Whole, Types, Control
  <1>9. CpuType'
    BY <1>1, <1>4 DEF Whole, Types, CpuType
  <1>10. /\ ListType'
         /\ \A w \in Used : /\ int_vectors'[w].handlers = int_vectors[w].handlers
                            /\ int_vectors'[w].held = "assign" => int_vectors[w].held = "assign"
    BY <1>1 DEF Whole, Types, ListType
  <1>11. ListInv'
    BY <1>1, <1>10, ListFrame DEF Whole, Control
  <1>12. Types' /\ NoTornAssign'
    BY <1>1, <1>3, <1>7, <1>8, <1>9, <1>10 DEF Whole, Types, ApicType, ReaderType, HistType, NoTornAssign
  <1>13. DispatchInv'
    <2>1. Serving' = Serving
      BY <1>1, OpenedFrame
    <2>2. ~enabled
      BY <1>1, <1>2 DEF Whole, Control, DispatchInv
    <2>3. isr = {} \/ isr = {v}
      BY <1>1, <1>2, DispatchOf
    <2> QED
      BY <1>1, <1>2, <1>5, <2>1, <2>2, <2>3 DEF Whole, Control, DispatchInv
  <1>14. BootInv'
    BY <1>1, <1>5, <1>7, OpenedFrame DEF Whole, Control, BootInv
  <1> QED
    BY <1>7, <1>8, <1>11, <1>12, <1>13, <1>14, WholeControlNext DEF Whole, Control

-----------------------------------------------------------------------------

\* What a thread does in read_byte(): buffers and readers.
LEMMA ReaderStep ==
    ASSUME Whole, fault = "none",
           UNCHANGED <<machine, step, port, ps2, uart, table, irr, isr, int_vectors, cpu, enabled, ctx, torn, fault>>,
           ReaderType', BufferType', HistType', RoomInv', ReaderInv'
    PROVE  ControlInv'
  <1>1. Types'
    BY BootTypeFrame DEF Whole, Types, DeviceType, ApicType, ListType, CpuType
  <1>2. BootInv' /\ TableInv' /\ ListInv' /\ DispatchInv' /\ NoTornAssign'
    BY BootFrame, TableFrame, ListFrame, DispatchFrame DEF Whole, Control, NoTornAssign
  <1> QED
    BY <1>1, <1>2, WholeControlNext DEF Whole, Control

\* read_byte() begins: for the keyboard, with the lock of the decoder.
LEMMA ReadLockStep ==
    ASSUME Whole, NEW d \in ByteDevice, ReadLock(d) PROVE ControlInv'
  <1>1. /\ UNCHANGED <<machine, step, port, ps2, uart, table, irr, isr, int_vectors, cpu, enabled, ctx,
                       queue, arrived, delivered, dropped, unannounced, torn, fault>>
        /\ fault = "none" /\ Booted /\ cpu \in Readers[d] /\ reader[cpu].at = "idle"
        /\ (d = "serial" => port # "none") /\ (d = "keyboard" => decoder = {})
        /\ decoder' = (IF d = "keyboard" THEN {cpu} ELSE decoder)
        /\ reader' = [reader EXCEPT ![cpu] = [dev |-> d, at |-> "waiting", byte |-> 0]]
    BY DEF ReadLock, Running, hardware, history
  <1>2. cpu \in Threads
    BY DEF Whole, Types, CpuType
  <1>3. ReaderType'
    BY <1>1, <1>2 DEF Whole, Types, ReaderType
  <1>4. BufferType' /\ HistType'
    BY <1>1 DEF Whole, Types, BufferType, HistType
  <1>5. /\ reader'[cpu].dev = d /\ reader'[cpu].at = "waiting"
        /\ \A t \in Threads : t # cpu => reader'[t] = reader[t]
    BY <1>1, <1>2 DEF Whole, Types, ReaderType
  <1>6. RoomInv'
    <2>1. \A e : {t \in Threads : reader'[t].dev = e /\ reader'[t].at = "taken"}
                   = {t \in Threads : reader[t].dev = e /\ reader[t].at = "taken"}
      BY <1>1, <1>2, <1>5
    <2> QED
      BY <1>1, <2>1 DEF Whole, RoomInv, Taken
  <1>7. ReaderInv'
    <2>1. Booted'
      BY <1>1, OpenedFrame
    <2>2. \A t, u \in decoder' : t = u
      BY <1>1 DEF Whole, ReaderInv
    <2>3. ASSUME NEW t \in Threads, reader'[t].at # "idle"
          PROVE  /\ reader'[t].dev \in ByteDevice /\ t \in Readers[reader'[t].dev]
                 /\ reader'[t].dev = "serial" => port' # "none"
                 /\ reader'[t].dev = "keyboard" => t \in decoder'
      <3>1. CASE t = cpu
        BY <1>1, <1>5, <3>1
      <3>2. CASE t # cpu
        BY <1>1, <1>5, <2>3, <3>2 DEF Whole, ReaderInv
      <3> QED
        BY <3>1, <3>2
    <2> QED
      BY <2>1, <2>2, <2>3 DEF ReaderInv
  <1> QED
    BY <1>1, <1>3, <1>4, <1>6, <1>7, ReaderStep

\* try_dequeue() takes an index of the queue: the slot stays in use.
LEMMA ReadTakeStep ==
    ASSUME Whole, ReadTake PROVE ControlInv'
  <1> DEFINE d == reader[cpu].dev
  <1>1. /\ UNCHANGED <<machine, step, port, ps2, uart, table, irr, isr, int_vectors, cpu, enabled, ctx,
                       decoder, arrived, delivered, dropped, unannounced, torn, fault>>
        /\ fault = "none" /\ reader[cpu].at = "waiting" /\ queue[d] # <<>>
        /\ reader' = [reader EXCEPT ![cpu] = [dev |-> d, at |-> "taken", byte |-> Head(queue[d])]]
        /\ queue' = [queue EXCEPT ![d] = Tail(queue[d])]
    BY DEF ReadTake, Running, hardware, history
  <1>2. cpu \in Threads /\ d \in ByteDevice
    BY <1>1 DEF Whole, Types, CpuType, ReaderInv
  <1>3. PICK q \in Seq(Nat) : q = queue[d]
    BY <1>2 DEF Whole, Types, BufferType
  <1>4. q # <<>> /\ Head(q) \in Nat /\ Tail(q) \in Seq(Nat) /\ Len(Tail(q)) = Len(q) - 1 /\ Len(q) \in Nat
    BY <1>1, <1>3
  <1> HIDE DEF d
  <1>5. ReaderType'
    BY <1>1, <1>2, <1>3, <1>4 DEF Whole, Types, ReaderType
  <1>6. BufferType' /\ HistType'
    BY <1>1, <1>2, <1>3, <1>4 DEF Whole, Types, BufferType, HistType
  <1>7. /\ reader'[cpu].dev = d /\ reader'[cpu].at = "taken"
        /\ \A t \in Threads : t # cpu => reader'[t] = reader[t]
    BY <1>1, <1>2 DEF Whole, Types, ReaderType
  <1>8. ReaderInv'
    <2>1. Booted' <=> Booted
      BY <1>1, OpenedFrame
    <2>2. ASSUME NEW t \in Threads, reader'[t].at # "idle"
          PROVE  /\ reader'[t].dev \in ByteDevice /\ t \in Readers[reader'[t].dev]
                 /\ reader'[t].dev = "serial" => port' # "none"
                 /\ reader'[t].dev = "keyboard" => t \in decoder'
      <3>1. CASE t = cpu
        BY <1>1, <1>2, <1>7, <3>1 DEF Whole, ReaderInv, d
      <3>2. CASE t # cpu
        BY <1>1, <1>7, <2>2, <3>2 DEF Whole, ReaderInv
      <3> QED
        BY <3>1, <3>2
    <2>3. Booted
      BY <1>1, <1>2 DEF Whole, ReaderInv
    <2> QED
      BY <1>1, <2>1, <2>2, <2>3 DEF Whole, ReaderInv
  <1>9. RoomInv'
    <2> SUFFICES ASSUME NEW e \in ByteDevice PROVE Len(queue'[e]) + Taken(e)' <= Capacity
      BY DEF RoomInv
    <2>1. CASE e = d
      <3>1. TakenBy(d) = {}
        BY <1>1, <1>2, TakenOne DEF Whole, TakenBy, d
      <3>2. Taken(d) = 0
        BY <1>2, <3>1, TakenOne DEF Whole
      <3>3. {t \in Threads : reader'[t].dev = e /\ reader'[t].at = "taken"} = {cpu}
        BY <1>2, <1>7, <2>1, <3>1 DEF TakenBy
      <3>4. Taken(e)' = 1
        BY <3>3, FS_Singleton DEF Taken
      <3>5. Len(q) + 0 <= Capacity /\ queue'[d] = Tail(q)
        BY <1>1, <1>2, <1>3, <3>2 DEF Whole, RoomInv, Types, BufferType
      <3> QED
        BY <1>4, <2>1, <3>4, <3>5, InterruptsAssumption
    <2>2. CASE e # d
      <3>1. {t \in Threads : reader'[t].dev = e /\ reader'[t].at = "taken"}
              = {t \in Threads : reader[t].dev = e /\ reader[t].at = "taken"}
        BY <1>2, <1>7, <2>2 DEF d
      <3>2. queue'[e] = queue[e]
        BY <1>1, <1>2, <2>2 DEF Whole, Types, BufferType
      <3> QED
        BY <3>1, <3>2 DEF Whole, RoomInv, Taken
    <2> QED
      BY <2>1, <2>2
  <1> QED
    BY <1>1, <1>5, <1>6, <1>8, <1>9, ReaderStep

\* try_dequeue() frees the slot.
LEMMA ReadGiveStep ==
    ASSUME Whole, ReadGive PROVE ControlInv'
  <1> DEFINE d == reader[cpu].dev
  <1>1. /\ UNCHANGED <<machine, step, port, ps2, uart, table, irr, isr, int_vectors, cpu, enabled, ctx,
                       queue, arrived, dropped, unannounced, torn, fault>>
        /\ fault = "none" /\ reader[cpu].at = "taken"
        /\ delivered' = [delivered EXCEPT ![d] = Append(delivered[d], reader[cpu].byte)]
        /\ reader' = [reader EXCEPT ![cpu] = [dev |-> "none", at |-> "idle", byte |-> 0]]
        /\ decoder' = decoder \ {cpu}
    BY DEF ReadGive, Running, hardware
  <1>2. cpu \in Threads /\ d \in ByteDevice
    BY <1>1 DEF Whole, Types, CpuType, ReaderInv
  <1>3. ReaderType'
    BY <1>1, <1>2 DEF Whole, Types, ReaderType
  <1>4. BufferType' /\ HistType'
    <2>1. delivered[d] \in Seq(Nat) /\ reader[cpu].byte \in Nat
      BY <1>2 DEF Whole, Types, HistType, ReaderType
    <2>2. Append(delivered[d], reader[cpu].byte) \in Seq(Nat)
      BY <2>1
    <2>3. delivered' \in [ByteDevice -> Seq(Nat)]
      BY <1>1, <1>2, <2>2 DEF Whole, Types, HistType
    <2> QED
      BY <1>1, <2>3 DEF Whole, Types, BufferType, HistType
  <1> HIDE DEF d
  <1>5. /\ reader'[cpu].dev = "none" /\ reader'[cpu].at = "idle"
        /\ \A t \in Threads : t # cpu => reader'[t] = reader[t]
    BY <1>1, <1>2 DEF Whole, Types, ReaderType
  <1>6. ReaderInv'
    <2>1. Booted'
      BY <1>1, <1>2, OpenedFrame DEF Whole, ReaderInv
    <2>2. ASSUME NEW t \in Threads, reader'[t].at # "idle"
          PROVE  /\ reader'[t].dev \in ByteDevice /\ t \in Readers[reader'[t].dev]
                 /\ reader'[t].dev = "serial" => port' # "none"
                 /\ reader'[t].dev = "keyboard" => t \in decoder'
      <3>1. t # cpu
        BY <1>5, <2>2
      <3> QED
        BY <1>1, <1>5, <2>2, <3>1 DEF Whole, ReaderInv
    <2> QED
      BY <1>1, <2>1, <2>2 DEF Whole, ReaderInv
  <1>7. RoomInv'
    <2> SUFFICES ASSUME NEW e \in ByteDevice PROVE Len(queue[e]) + Taken(e)' <= Capacity
      BY <1>1 DEF RoomInv
    <2>1. Taken(e)' \in {0, 1} /\ Taken(e)' <= Taken(e)
      <3> DEFINE S == {t \in Threads : reader'[t].dev = e /\ reader'[t].at = "taken"}
      <3>1. S \in SUBSET TakenBy(e)
        BY <1>1, <1>5 DEF TakenBy
      <3>2. Cardinality(S) \in {0, 1} /\ (Cardinality(S) = 0 <=> S = {})
        <4>1. \A t, u \in S : t = u
          BY <3>1, TakenOne DEF Whole, TakenBy
        <4> QED
          BY <4>1, AtMostOne
      <3>3. Taken(e)' = Cardinality(S)
        BY DEF Taken
      <3>4. Taken(e) \in {0, 1} /\ (Taken(e) = 0 <=> TakenBy(e) = {})
        BY TakenOne DEF Whole
      <3> HIDE DEF S
      <3> QED
        BY <3>1, <3>2, <3>3, <3>4
    <2>2. Taken(e) \in {0, 1} /\ Len(queue[e]) \in Nat /\ Len(queue[e]) + Taken(e) <= Capacity /\ Capacity \in Nat
      BY TakenOne, InterruptsAssumption DEF Whole, RoomInv, Types, BufferType
    <2> QED
      BY <2>1, <2>2
  <1> QED
    BY <1>1, <1>3, <1>4, <1>6, <1>7, ReaderStep

\* Every step keeps the invariant.
LEMMA ControlStep ==
    ControlInv /\ [Next]_vars => ControlInv'
  <1> SUFFICES ASSUME ControlInv, [Next]_vars PROVE ControlInv'
    OBVIOUS
  <1>1. CASE UNCHANGED vars
    BY <1>1, StutterStep
  <1>2. CASE fault # "none" /\ Next
    <2>1. UNCHANGED vars
      BY <1>2 DEF Next, BootStep, InitSerialPort, InitApic, EnableInterrupts, InitController, InitKeyboard,
         EnableUart, AssignLock, AssignPush, Allow, Booting, Running, Tick, KeyPress, SerialByte, Nmi,
         Accept, Finish, DispatchBytes, DispatchTimer, Handling, InDispatch, Block, Read, ReadTake, ReadGive, ReadLock,
         Halted
    <2> QED
      BY <2>1, StutterStep
  <1>3. CASE fault = "none" /\ Next
    <2>1. Whole
      BY <1>3, ControlWhole
    <2> QED
      BY <1>3, <2>1, BootSteps, TickStep, KeyPressStep, SerialByteStep, NmiStep, AcceptStep, FinishStep,
         DispatchBytesStep, DispatchTimerStep, BlockStep, ReadTakeStep, ReadGiveStep, ReadLockStep
         DEF Next, Read, Halted
  <1> QED
    BY <1>1, <1>2, <1>3

\* The invariant holds before boot.
LEMMA ControlInit == Init => ControlInv
  <1> SUFFICES ASSUME Init PROVE ControlInv
    OBVIOUS
  <1> USE DEF Init
  <1>1. BootType
    <2>1. LastStep = 11
      BY DEF LastStep
    <2> QED
      BY <2>1 DEF BootType
  <1>2. DeviceType
    <2>1. MaxBytes["keyboard"] \in Nat /\ FifoDepth \in Nat
      BY InterruptsAssumption DEF ByteDevice
    <2>2. ps2 \in [locked : BOOLEAN, data : 0..MaxBytes["keyboard"], scanning : BOOLEAN, ready : BOOLEAN]
      BY <2>1
    <2>3. uart \in [fifo : Seq(Nat), ier : BOOLEAN] /\ Len(uart.fifo) <= FifoDepth
      BY <2>1
    <2> QED
      BY <2>2, <2>3 DEF DeviceType
  <1>3. ApicType /\ ListType
    BY DEF ApicType, ListType, Masked
  <1>4. CpuType /\ ReaderType
    BY InterruptsAssumption DEF CpuType, ReaderType
  <1>5. BufferType /\ HistType
    <2>1. <<>> \in Seq(Nat) /\ {} \in SUBSET Nat
      OBVIOUS
    <2>2. queue \in [ByteDevice -> Seq(Nat)] /\ delivered \in [ByteDevice -> Seq(Nat)]
      BY <2>1
    <2>3. dropped \in [ByteDevice -> SUBSET Nat]
      BY <2>1
    <2>4. arrived \in [ByteDevice -> Nat] /\ unannounced \subseteq Nat /\ torn \in BOOLEAN
      OBVIOUS
    <2> QED
      BY <2>2, <2>3, <2>4, Zenon DEF BufferType, HistType
  <1>6. RoomInv
    <2>1. \A d \in ByteDevice : Taken(d) = 0
      <3>1. \A d \in ByteDevice : {t \in Threads : reader[t].dev = d /\ reader[t].at = "taken"} = {}
        OBVIOUS
      <3> QED
        BY <3>1, FS_EmptySet DEF Taken
    <2> QED
      BY <2>1, InterruptsAssumption DEF RoomInv
  <1>7. NoTornAssign /\ ReaderInv
    BY DEF NoTornAssign, ReaderInv
  <1>8. Opened = {} /\ Serving = {} /\ Inputs = {}
    BY DEF Opened, Serving, Inputs, PluginAt
  <1>9. BootInv
    <2>1. ps2.locked = FALSE /\ ps2.ready = FALSE /\ uart.ier = FALSE
      OBVIOUS
    <2> QED
      BY <2>1 DEF BootInv
  <1>10. TableInv
    BY <1>8 DEF TableInv
  <1>11. ListInv
    <2>1. \A v \in Used : int_vectors[v].handlers = <<>> /\ int_vectors[v].held = "no"
      OBVIOUS
    <2>2. \A d \in Device : ~(step > PluginAt(d) + 1)
      BY DEF PluginAt
    <2> QED
      BY <2>1, <2>2 DEF ListInv
  <1>12. DispatchInv
    BY <1>8, InterruptsAssumption DEF DispatchInv
  <1> QED
    BY <1>1, <1>2, <1>3, <1>4, <1>5, <1>6, <1>7, <1>9, <1>10, <1>11, <1>12, WholeControl
       DEF Whole, Types, Control

\* The invariant holds in every reachable state.
LEMMA ControlCorrect == Spec => []ControlInv
  BY ControlInit, ControlStep, PTL DEF Spec

\* Everything that the processor, the APIC, the dispatcher, the devices and the
\* buffers keep has its type at all times, and no buffer exceeds its capacity.
THEOREM TypeCorrect == Spec => []TypeOK
  <1>1. ControlInv => TypeOK
    BY DEF ControlInv
  <1> QED
    BY <1>1, ControlCorrect, PTL

\* end_of_interrupt() is called once for each interrupt that is in service, whether
\* by switch_thread() or by the dispatcher: with interrupts enabled none is.
THEOREM EoisBalanced == Spec => []EoiBalanced
  <1>1. ControlInv => EoiBalanced
    <2> SUFFICES ASSUME ControlInv, fault = "none", enabled PROVE isr = {}
      BY DEF EoiBalanced
    <2>1. Whole
      BY ControlWhole
    <2>2. ctx[cpu] = 0
      BY <2>1 DEF Whole, Control, DispatchInv
    <2> QED
      BY <2>1, <2>2, DispatchOf
  <1> QED
    BY <1>1, ControlCorrect, PTL

\* Apic::new() and allow() agree, for every MADT: a device that is allowed to
\* interrupt does so with the vector of its handler, and no other input is open.
THEOREM RoutesCorrect == Spec => []Routed
  <1>1. ControlInv => Routed
    BY DEF ControlInv
  <1> QED
    BY <1>1, ControlCorrect, PTL

\* dispatch() never takes the mutex of a list by force from assign().
THEOREM AssignNotTorn == Spec => []NoTornAssign
  <1>1. ControlInv => NoTornAssign
    BY DEF ControlInv
  <1> QED
    BY <1>1, ControlCorrect, PTL

\* No interrupt handler panics, whatever the interleaving of boot, devices,
\* interrupts and readers.
THEOREM InterruptsDoNotPanic == Spec => []NoInterruptPanic
  <1>1. ControlInv => NoInterruptPanic
    BY DEF ControlInv
  <1> QED
    BY <1>1, ControlCorrect, PTL
=============================================================================
