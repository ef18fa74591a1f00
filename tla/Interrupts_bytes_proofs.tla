----------------------- MODULE Interrupts_bytes_proofs -----------------------
(***************************************************************************)
(* What becomes of the bytes that arrive, on top of ControlInv: the        *)
(* invariant ByteInv.  Bytes are numbered as they arrive, and along their  *)
(* way from the device through the buffer and a reader to what was read    *)
(* the numbers fall: the places are disjoint, and nothing overtakes.       *)
(***************************************************************************)
EXTENDS Interrupts_proofs

\* What Append adds to a sequence of bytes.
LEMMA AppendSet ==
    ASSUME NEW s \in Seq(Nat), NEW b \in Nat
    PROVE  /\ Append(s, b) \in Seq(Nat) /\ Len(Append(s, b)) = Len(s) + 1 /\ Len(s) \in Nat
           /\ ToSet(Append(s, b)) = ToSet(s) \cup {b} /\ ToSet(s) \subseteq Nat
  <1>1. /\ DOMAIN Append(s, b) = 1..(Len(s) + 1) /\ DOMAIN s = 1..Len(s) /\ Len(s) \in Nat
        /\ Append(s, b)[Len(s) + 1] = b /\ \A i \in 1..Len(s) : Append(s, b)[i] = s[i] /\ s[i] \in Nat
    OBVIOUS
  <1>2. \A i \in 1..(Len(s) + 1) : i \in 1..Len(s) \/ i = Len(s) + 1
    BY <1>1
  <1>3. ASSUME NEW x \in ToSet(Append(s, b)) PROVE x \in ToSet(s) \cup {b}
    BY <1>1, <1>2 DEF ToSet
  <1>4. ASSUME NEW x \in ToSet(s) PROVE x \in ToSet(Append(s, b)) /\ x \in Nat
    <2>1. PICK i \in 1..Len(s) : x = s[i]
      BY <1>1 DEF ToSet
    <2>2. i \in 1..(Len(s) + 1)
      BY <1>1
    <2> QED
      BY <1>1, <2>1, <2>2 DEF ToSet
  <1>5. b \in ToSet(Append(s, b))
    BY <1>1 DEF ToSet
  <1> QED
    BY <1>1, <1>3, <1>4, <1>5

\* What Tail takes from a sequence of bytes.
LEMMA TailSet ==
    ASSUME NEW s \in Seq(Nat), s # <<>>
    PROVE  /\ Tail(s) \in Seq(Nat) /\ Len(Tail(s)) = Len(s) - 1 /\ Len(s) \in Nat \ {0} /\ Head(s) \in Nat
           /\ ToSet(s) = {Head(s)} \cup ToSet(Tail(s))
           /\ \A i \in 1..(Len(s) - 1) : Tail(s)[i] = s[i + 1]
  <1>1. /\ DOMAIN s = 1..Len(s) /\ Len(s) \in Nat \ {0} /\ DOMAIN Tail(s) = 1..(Len(s) - 1)
        /\ Head(s) = s[1] /\ Head(s) \in Nat /\ Tail(s) \in Seq(Nat) /\ Len(Tail(s)) = Len(s) - 1
    OBVIOUS
  <1>2. \A i \in 1..(Len(s) - 1) : Tail(s)[i] = s[i + 1]
    BY <1>1
  <1>3. ASSUME NEW x \in ToSet(s) PROVE x = Head(s) \/ x \in ToSet(Tail(s))
    <2>1. PICK i \in 1..Len(s) : x = s[i]
      BY <1>1 DEF ToSet
    <2>2. CASE i = 1
      BY <1>1, <2>1, <2>2
    <2>3. CASE i # 1
      <3>1. i - 1 \in 1..(Len(s) - 1) /\ (i - 1) + 1 = i
        BY <1>1, <2>3
      <3>2. Tail(s)[i - 1] = x
        BY <1>2, <2>1, <3>1
      <3> QED
        BY <1>1, <3>1, <3>2 DEF ToSet
    <2> QED
      BY <2>2, <2>3
  <1>4. ASSUME NEW x \in ToSet(Tail(s)) PROVE x \in ToSet(s)
    <2>1. PICK i \in 1..(Len(s) - 1) : x = Tail(s)[i]
      BY <1>1 DEF ToSet
    <2>2. i + 1 \in 1..Len(s) /\ x = s[i + 1]
      BY <1>1, <1>2, <2>1
    <2> QED
      BY <1>1, <2>2 DEF ToSet
  <1>5. Head(s) \in ToSet(s)
    BY <1>1 DEF ToSet
  <1> QED
    BY <1>1, <1>2, <1>3, <1>4, <1>5

\* A byte that is younger than all others keeps the order at the end.
LEMMA RisingAppend ==
    ASSUME NEW s \in Seq(Nat), NEW b \in Nat, Rising(s), Below(ToSet(s), {b})
    PROVE  Rising(Append(s, b))
  <1>1. /\ DOMAIN Append(s, b) = 1..(Len(s) + 1) /\ DOMAIN s = 1..Len(s) /\ Len(s) \in Nat
        /\ Append(s, b)[Len(s) + 1] = b /\ \A i \in 1..Len(s) : Append(s, b)[i] = s[i]
    OBVIOUS
  <1> SUFFICES ASSUME NEW i \in 1..(Len(s) + 1), NEW j \in 1..(Len(s) + 1), i < j
               PROVE  Append(s, b)[i] < Append(s, b)[j]
    BY <1>1 DEF Rising
  <1>2. i \in 1..Len(s)
    BY <1>1
  <1>3. CASE j \in 1..Len(s)
    BY <1>1, <1>2, <1>3 DEF Rising
  <1>4. CASE j = Len(s) + 1
    BY <1>1, <1>2, <1>4 DEF Below, ToSet
  <1> QED
    BY <1>1, <1>3, <1>4

\* The head of a rising sequence is the oldest.
LEMMA RisingTail ==
    ASSUME NEW s \in Seq(Nat), s # <<>>, Rising(s)
    PROVE  Rising(Tail(s)) /\ Below({Head(s)}, ToSet(Tail(s)))
  <1>1. /\ DOMAIN s = 1..Len(s) /\ Len(s) \in Nat \ {0} /\ DOMAIN Tail(s) = 1..(Len(s) - 1) /\ Head(s) = s[1]
    OBVIOUS
  <1>2. \A i \in 1..(Len(s) - 1) : Tail(s)[i] = s[i + 1] /\ i + 1 \in 1..Len(s) /\ 1 < i + 1
    BY <1>1, TailSet
  <1>3. Rising(Tail(s))
    <2> SUFFICES ASSUME NEW i \in 1..(Len(s) - 1), NEW j \in 1..(Len(s) - 1), i < j
                 PROVE  Tail(s)[i] < Tail(s)[j]
      BY <1>1 DEF Rising
    <2>1. i + 1 < j + 1
      BY <1>1
    <2> QED
      BY <1>1, <1>2, <2>1 DEF Rising
  <1>4. Below({Head(s)}, ToSet(Tail(s)))
    <2> SUFFICES ASSUME NEW x \in ToSet(Tail(s)) PROVE Head(s) < x
      BY DEF Below
    <2>1. PICK i \in 1..(Len(s) - 1) : x = Tail(s)[i]
      BY <1>1 DEF ToSet
    <2>2. 1 \in 1..Len(s)
      BY <1>1
    <2> QED
      BY <1>1, <1>2, <2>1, <2>2 DEF Rising
  <1> QED
    BY <1>3, <1>4

\* A rising sequence has as many members as elements.
LEMMA RisingCard ==
    ASSUME NEW s \in Seq(Nat), Rising(s)
    PROVE  IsFiniteSet(ToSet(s)) /\ Cardinality(ToSet(s)) = Len(s)
  <1>1. DOMAIN s = 1..Len(s) /\ Len(s) \in Nat /\ \A i \in 1..Len(s) : s[i] \in Nat
    OBVIOUS
  <1>2. \A i, j \in 1..Len(s) : s[i] = s[j] => i = j
    BY <1>1 DEF Rising
  <1>3. s \in Bijection(1..Len(s), ToSet(s))
    <2>1. s \in [1..Len(s) -> ToSet(s)]
      BY <1>1 DEF ToSet
    <2> QED
      BY <1>1, <1>2, <2>1 DEF Bijection, Injection, Surjection, IsInjective, ToSet
  <1>4. IsFiniteSet(1..Len(s)) /\ Cardinality(1..Len(s)) = Len(s)
    BY <1>1, FS_Interval
  <1>5. ExistsBijection(1..Len(s), ToSet(s))
    BY <1>3 DEF ExistsBijection
  <1> QED
    BY <1>4, <1>5, FS_Bijection

-----------------------------------------------------------------------------

\* Flow(d), of the places that the bytes of a device are in.
FlowOf(dl, rd, q, dv, dr, n) ==
    /\ Rising(dl) /\ Rising(q)
    /\ Below(ToSet(dl), rd \cup ToSet(q) \cup dv)
    /\ Below(rd, ToSet(q) \cup dv)
    /\ Below(dr, ToSet(q))
    /\ Below(dr \cup ToSet(q), dv)
    /\ dr \cap (ToSet(dl) \cup rd) = {}
    /\ dv \cup ToSet(q) \cup rd \cup ToSet(dl) \cup dr = 1..n

\* The youngest byte arrives at the device.
LEMMA FlowArrive ==
    ASSUME NEW dl \in Seq(Nat), NEW rd \in SUBSET Nat, NEW q \in Seq(Nat), NEW dv \in SUBSET Nat,
           NEW dr \in SUBSET Nat, NEW n \in Nat, FlowOf(dl, rd, q, dv, dr, n)
    PROVE  FlowOf(dl, rd, q, dv \cup {n + 1}, dr, n + 1)
  <1>1. PICK D \in SUBSET Nat, Q \in SUBSET Nat : D = ToSet(dl) /\ Q = ToSet(q)
    BY AppendSet
  <1>2. dv \cup Q \cup rd \cup D \cup dr = 1..n
    BY <1>1 DEF FlowOf
  <1>3. \A x \in dv \cup Q \cup rd \cup D \cup dr : x < n + 1
    BY <1>2
  <1>4. (dv \cup {n + 1}) \cup Q \cup rd \cup D \cup dr = 1..(n + 1)
    BY <1>2
  <1> QED
    BY <1>1, <1>3, <1>4 DEF FlowOf, Below

\* The oldest byte of the device goes to the end of the buffer; if the oldest of the
\* buffer is dropped for it, that one is older than all that stay.
LEMMA FlowStore ==
    ASSUME NEW dl \in Seq(Nat), NEW rd \in SUBSET Nat, NEW q \in Seq(Nat), NEW dv \in SUBSET Nat,
           NEW dr \in SUBSET Nat, NEW n \in Nat, FlowOf(dl, rd, q, dv, dr, n),
           NEW b \in dv, Below({b}, dv \ {b})
    PROVE  /\ FlowOf(dl, rd, Append(q, b), dv \ {b}, dr, n)
           /\ q # <<>> => /\ FlowOf(dl, rd, Append(Tail(q), b), dv \ {b}, dr \cup {Head(q)}, n)
                          /\ ToSet(Append(q, b)) \ ToSet(Append(Tail(q), b)) = {Head(q)}
                          /\ Below({Head(q)}, ToSet(Append(Tail(q), b)))
  <1>1. PICK D \in SUBSET Nat, Q \in SUBSET Nat : D = ToSet(dl) /\ Q = ToSet(q)
    BY AppendSet
  <1>2. b \in Nat /\ ToSet(Append(q, b)) = Q \cup {b} /\ Append(q, b) \in Seq(Nat)
    BY <1>1, AppendSet
  <1>3. Below(Q, {b}) /\ Below(D, {b}) /\ Below(rd, {b}) /\ Below(dr, {b})
    BY <1>1 DEF FlowOf, Below
  <1>4. Rising(Append(q, b))
    BY <1>1, <1>2, <1>3, RisingAppend DEF FlowOf
  <1>5. dv \cup Q \cup rd \cup D \cup dr = 1..n
    BY <1>1 DEF FlowOf
  <1>6. FlowOf(dl, rd, Append(q, b), dv \ {b}, dr, n)
    <2>1. (dv \ {b}) \cup (Q \cup {b}) \cup rd \cup D \cup dr = 1..n
      BY <1>5
    <2>2. Below(D, rd \cup (Q \cup {b}) \cup (dv \ {b})) /\ Below(rd, (Q \cup {b}) \cup (dv \ {b}))
          /\ Below(dr, Q \cup {b}) /\ Below(dr \cup (Q \cup {b}), dv \ {b})
      BY <1>1, <1>3 DEF FlowOf, Below
    <2> QED
      BY <1>1, <1>2, <1>4, <2>1, <2>2 DEF FlowOf
  <1>7. ASSUME q # <<>>
        PROVE  /\ FlowOf(dl, rd, Append(Tail(q), b), dv \ {b}, dr \cup {Head(q)}, n)
               /\ ToSet(Append(q, b)) \ ToSet(Append(Tail(q), b)) = {Head(q)}
               /\ Below({Head(q)}, ToSet(Append(Tail(q), b)))
    <2>1. PICK h \in Nat, T \in SUBSET Nat : h = Head(q) /\ T = ToSet(Tail(q))
      BY <1>7, TailSet, AppendSet
    <2>2. Tail(q) \in Seq(Nat) /\ Q = {h} \cup T
      BY <1>1, <1>7, <2>1, TailSet
    <2>3. Rising(Tail(q)) /\ Below({h}, T)
      BY <1>7, <2>1, RisingTail DEF FlowOf
    <2>4. ToSet(Append(Tail(q), b)) = T \cup {b}
      BY <1>2, <2>1, <2>2, AppendSet
    <2>5. Below(T, {b}) /\ Below({h}, {b})
      BY <1>3, <2>2 DEF Below
    <2>6. Rising(Append(Tail(q), b))
      BY <1>2, <2>1, <2>2, <2>3, <2>5, RisingAppend
    <2>7. (dv \ {b}) \cup (T \cup {b}) \cup rd \cup D \cup (dr \cup {h}) = 1..n
      BY <1>5, <2>2
    <2>8. Below(D, rd \cup (T \cup {b}) \cup (dv \ {b})) /\ Below(rd, (T \cup {b}) \cup (dv \ {b}))
      BY <1>1, <1>3, <2>2 DEF FlowOf, Below
    <2>9. Below(dr \cup {h}, T \cup {b}) /\ Below((dr \cup {h}) \cup (T \cup {b}), dv \ {b})
      BY <1>1, <1>3, <2>2, <2>3, <2>5 DEF FlowOf, Below
    <2>10. (dr \cup {h}) \cap (D \cup rd) = {}
      <3>1. dr \cap (D \cup rd) = {}
        BY <1>1 DEF FlowOf
      <3>2. h \notin D /\ h \notin rd
        BY <1>1, <2>2 DEF FlowOf, Below
      <3> QED
        BY <3>1, <3>2
    <2>11. FlowOf(dl, rd, Append(Tail(q), b), dv \ {b}, dr \cup {h}, n)
      BY <1>1, <2>4, <2>6, <2>7, <2>8, <2>9, <2>10 DEF FlowOf
    <2>12. (Q \cup {b}) \ (T \cup {b}) = {h}
      BY <2>2, <2>3, <2>5 DEF Below
    <2>13. Below({h}, T \cup {b})
      BY <2>3, <2>5 DEF Below
    <2> QED
      BY <1>2, <2>1, <2>4, <2>11, <2>12, <2>13
  <1> QED
    BY <1>6, <1>7

\* The oldest byte of the buffer goes to a reader, who had none.
LEMMA FlowTake ==
    ASSUME NEW dl \in Seq(Nat), NEW q \in Seq(Nat), NEW dv \in SUBSET Nat,
           NEW dr \in SUBSET Nat, NEW n \in Nat, FlowOf(dl, {}, q, dv, dr, n), q # <<>>
    PROVE  FlowOf(dl, {Head(q)}, Tail(q), dv, dr, n)
  <1>1. PICK D \in SUBSET Nat, Q \in SUBSET Nat : D = ToSet(dl) /\ Q = ToSet(q)
    BY AppendSet
  <1>2. PICK h \in Nat, T \in SUBSET Nat : h = Head(q) /\ T = ToSet(Tail(q))
    BY TailSet, AppendSet
  <1>3. Tail(q) \in Seq(Nat) /\ Q = {h} \cup T
    BY <1>1, <1>2, TailSet
  <1>4. Rising(Tail(q)) /\ Below({h}, T)
    BY <1>2, RisingTail DEF FlowOf
  <1>5. dv \cup Q \cup {} \cup D \cup dr = 1..n
    BY <1>1 DEF FlowOf
  <1>6. dv \cup T \cup {h} \cup D \cup dr = 1..n
    BY <1>3, <1>5
  <1>7. Below(D, {h} \cup T \cup dv) /\ Below({h}, T \cup dv) /\ Below(dr, T) /\ Below(dr \cup T, dv)
    BY <1>1, <1>3, <1>4 DEF FlowOf, Below
  <1>8. dr \cap (D \cup {h}) = {}
    BY <1>1, <1>3 DEF FlowOf, Below
  <1> QED
    BY <1>1, <1>2, <1>4, <1>6, <1>7, <1>8 DEF FlowOf

\* The byte of the only reader is delivered.
LEMMA FlowGive ==
    ASSUME NEW dl \in Seq(Nat), NEW q \in Seq(Nat), NEW dv \in SUBSET Nat,
           NEW dr \in SUBSET Nat, NEW n \in Nat, NEW b \in Nat, FlowOf(dl, {b}, q, dv, dr, n)
    PROVE  FlowOf(Append(dl, b), {}, q, dv, dr, n)
  <1>1. PICK D \in SUBSET Nat, Q \in SUBSET Nat : D = ToSet(dl) /\ Q = ToSet(q)
    BY AppendSet
  <1>2. ToSet(Append(dl, b)) = D \cup {b}
    BY <1>1, AppendSet
  <1>3. Rising(Append(dl, b))
    BY <1>1, RisingAppend DEF FlowOf, Below
  <1>4. dv \cup Q \cup {b} \cup D \cup dr = 1..n
    BY <1>1 DEF FlowOf
  <1>5. dv \cup Q \cup {} \cup (D \cup {b}) \cup dr = 1..n
    BY <1>4
  <1>6. Below(D \cup {b}, {} \cup Q \cup dv) /\ Below({}, Q \cup dv)
    BY <1>1 DEF FlowOf, Below
  <1>7. dr \cap ((D \cup {b}) \cup {}) = {}
    BY <1>1 DEF FlowOf
  <1> QED
    BY <1>1, <1>2, <1>3, <1>5, <1>6, <1>7 DEF FlowOf

-----------------------------------------------------------------------------

\* ByteInv while there is no panic.
Bytes ==
    /\ Flow("keyboard") /\ Flow("serial") /\ Rising(uart.fifo)
    /\ port = "none" => uart.fifo = <<>> /\ arrived["serial"] = 0

\* The whole invariant while there is no panic.
Calm == Whole /\ Bytes /\ Announced /\ fault = "none"

\* The places of the bytes have their types.
LEMMA FlowTypes ==
    ASSUME Types, NEW d \in ByteDevice
    PROVE  /\ delivered[d] \in Seq(Nat) /\ InReaders(d) \in SUBSET Nat /\ queue[d] \in Seq(Nat)
           /\ AtDevice(d) \in SUBSET Nat /\ dropped[d] \in SUBSET Nat /\ arrived[d] \in Nat
  <1>1. delivered[d] \in Seq(Nat) /\ queue[d] \in Seq(Nat) /\ dropped[d] \in SUBSET Nat /\ arrived[d] \in Nat
    BY DEF Types, BufferType, HistType
  <1>2. InReaders(d) \in SUBSET Nat
    BY DEF InReaders, Types, ReaderType
  <1>3. AtDevice(d) \in SUBSET Nat
    <2>1. ps2.data \in Nat
      BY InterruptsAssumption DEF Types, DeviceType, ByteDevice
    <2>2. ToSet(uart.fifo) \in SUBSET Nat
      <3>1. uart.fifo \in Seq(Nat)
        BY DEF Types, DeviceType
      <3> QED
        BY <3>1, Elements DEF ToSet
    <2> QED
      BY <2>1, <2>2 DEF AtDevice
  <1> QED
    BY <1>1, <1>2, <1>3

\* Flow(d), of the places of the bytes of d.
LEMMA FlowIs ==
    ASSUME NEW d
    PROVE  Flow(d) <=>
             /\ FlowOf(delivered[d], InReaders(d), queue[d], AtDevice(d), dropped[d], arrived[d])
             /\ d \notin Opened => queue[d] = <<>> /\ dropped[d] = {} /\ delivered[d] = <<>>
  BY Zenon DEF Flow, FlowOf

\* Flow after a step, from its places.
LEMMA FlowNext ==
    ASSUME NEW d, NEW dl, NEW rd, NEW q, NEW dv, NEW dr, NEW n,
           delivered'[d] = dl, InReaders(d)' = rd, queue'[d] = q, AtDevice(d)' = dv,
           dropped'[d] = dr, arrived'[d] = n, FlowOf(dl, rd, q, dv, dr, n),
           d \notin Opened' => q = <<>> /\ dr = {} /\ dl = <<>>
    PROVE  Flow(d)'
  <1>1. Flow(d)' <=>
             /\ FlowOf(delivered'[d], InReaders(d)', queue'[d], AtDevice(d)', dropped'[d], arrived'[d])
             /\ d \notin Opened' => queue'[d] = <<>> /\ dropped'[d] = {} /\ delivered'[d] = <<>>
    BY Zenon DEF Flow, FlowOf
  <1> QED
    BY <1>1

\* A step that moves no byte of d.
LEMMA FlowFrame ==
    ASSUME NEW d, Flow(d), Opened \subseteq Opened',
           delivered'[d] = delivered[d], InReaders(d)' = InReaders(d), queue'[d] = queue[d],
           AtDevice(d)' = AtDevice(d), dropped'[d] = dropped[d], arrived'[d] = arrived[d]
    PROVE  Flow(d)'
  BY FlowIs, FlowNext

\* A step that moves no byte.
LEMMA BytesFrame ==
    ASSUME Bytes, UNCHANGED <<port, queue, dropped, delivered, reader, arrived>>,
           ps2'.data = ps2.data, uart'.fifo = uart.fifo, Opened \subseteq Opened'
    PROVE  Bytes'
  <1>1. \A d : InReaders(d)' = InReaders(d) /\ AtDevice(d)' = AtDevice(d)
    BY DEF InReaders, AtDevice
  <1> QED
    BY <1>1, FlowFrame DEF Bytes

\* A device that is plugged in stays so.
LEMMA OpenedKept ==
    ASSUME Whole, UNCHANGED <<machine, port>>, step' \in {step, step + 1}
    PROVE  Opened \subseteq Opened'
  <1>1. step \in Nat
    BY LastIs DEF Whole, Types, BootType
  <1> QED
    BY <1>1 DEF Opened, PluginAt

\* The interrupt of d is coming.
Coming(d) == Vector(d) \in irr \/ ctx[cpu] = Vector(d)

\* Announced, while there is no panic.
LEMMA AnnouncedIs ==
    ASSUME fault = "none"
    PROVE  Announced <=> /\ ps2.data \notin {0} \cup unannounced => Coming("keyboard")
                         /\ uart.ier /\ uart.fifo # <<>> => Coming("serial")
  BY DEF Announced, Coming

\* Announced after a step.
LEMMA AnnouncedNext ==
    ASSUME ps2'.data \notin {0} \cup unannounced' => Coming("keyboard")',
           uart'.ier /\ uart'.fifo # <<>> => Coming("serial")'
    PROVE  Announced'
  BY DEF Announced, Coming

\* An interrupt that is coming still is while the processor does not take it.
LEMMA AnnouncedFrame ==
    ASSUME Calm, UNCHANGED <<machine, port, ctx, cpu, unannounced>>, irr \subseteq irr',
           ps2'.data = ps2.data, uart'.ier = uart.ier, uart'.fifo = uart.fifo
    PROVE  Announced'
  <1>1. \A d : Coming(d) => Coming(d)'
    BY Stable DEF Coming
  <1> QED
    BY <1>1, AnnouncedIs, AnnouncedNext DEF Calm

\* A step that moves no byte and takes no interrupt.
LEMMA CalmFrame ==
    ASSUME Calm, UNCHANGED <<machine, port, ctx, cpu, unannounced, queue, dropped, delivered, reader, arrived>>,
           irr \subseteq irr', step' \in {step, step + 1},
           ps2'.data = ps2.data, uart'.ier = uart.ier, uart'.fifo = uart.fifo
    PROVE  Bytes' /\ Announced'
  BY AnnouncedFrame, BytesFrame, OpenedKept DEF Calm

-----------------------------------------------------------------------------

\* init_serial_port() clears a FIFO that is empty still.
LEMMA BootSerialBytes ==
    ASSUME Calm, InitSerialPort PROVE Bytes' /\ Announced'
  <1>1. step = 1 /\ step' = 2 /\ port = "none"
    BY NotBooted, OpAt DEF InitSerialPort, Calm, Whole, Control, BootInv
  <1>2. UNCHANGED <<machine, ps2, irr, cpu, ctx, queue, reader, arrived, delivered, dropped, unannounced>>
    BY DEF InitSerialPort, input, history
  <1>3. uart.ier = FALSE /\ uart.fifo = <<>> /\ arrived["serial"] = 0
    BY <1>1 DEF Calm, Bytes, Whole, Control, BootInv, Types, DeviceType
  <1>4. uart'.ier = FALSE /\ uart'.fifo = <<>>
    <2>1. uart' \in {uart, Cleared}
      BY Zenon DEF InitSerialPort
    <2> QED
      BY <1>3, <2>1 DEF Cleared
  <1>5. Opened = {}
    BY <1>1 DEF Opened, PluginAt
  <1>6. \A d : InReaders(d)' = InReaders(d) /\ AtDevice(d)' = AtDevice(d)
    BY <1>2, <1>3, <1>4 DEF InReaders, AtDevice
  <1>7. Flow("keyboard")' /\ Flow("serial")'
    BY <1>2, <1>5, <1>6, FlowFrame DEF Calm, Bytes
  <1>8. Bytes'
    BY <1>2, <1>3, <1>4, <1>7 DEF Bytes, Rising
  <1>9. Announced'
    <2>1. Vector("keyboard") = 33 /\ Vector("keyboard")' = 33
      <3>1. Irq("keyboard")' = 1
        <4>1. "keyboard" # "timer"
          OBVIOUS
        <4> QED
          BY <4>1, Zenon DEF Irq
      <3> QED
        BY <3>1, IrqOf DEF Vector, Pit
    <2>2. ps2.data \notin {0} \cup unannounced => Coming("keyboard")
      BY AnnouncedIs DEF Calm
    <2>3. ps2'.data \notin {0} \cup unannounced' => Coming("keyboard")'
      BY <1>2, <2>1, <2>2 DEF Coming
    <2> QED
      BY <1>4, <2>3, AnnouncedNext
  <1> QED
    BY <1>8, <1>9

\* init_controller() flushes the keys of the firmware.
LEMMA InitControllerBytes ==
    ASSUME Calm, InitController, fault' = "none" PROVE Bytes' /\ Announced'
  <1>1. Booting(<<"init", "controller">>)
    BY DEF InitController
  <1>2. step = 7 /\ step' = step + 1 /\ \A t \in Threads : reader[t].at = "idle"
    BY <1>1, NotBooted, OpAt DEF Calm
  <1>3. /\ UNCHANGED <<machine, port, uart, irr, cpu, ctx, queue, reader, delivered, dropped>>
        /\ ps2' = [ps2 EXCEPT !.locked = TRUE, !.data = 0, !.scanning = FALSE]
        /\ arrived' = [arrived EXCEPT !["keyboard"] = 0]
        /\ unannounced' = {}
    BY DEF InitController, input
  <1>4. ps2'.data = 0
    BY <1>3 DEF Calm, Whole, Types, DeviceType
  <1>5. arrived'["keyboard"] = 0 /\ arrived'["serial"] = arrived["serial"]
    BY <1>3 DEF Calm, Whole, Types, HistType, ByteDevice
  <1>6. Opened \subseteq Opened'
    BY <1>2, <1>3, OpenedKept DEF Calm
  <1>7. Flow("serial")'
    <2>1. InReaders("serial")' = InReaders("serial") /\ AtDevice("serial")' = AtDevice("serial")
      BY <1>3 DEF InReaders, AtDevice
    <2> QED
      BY <1>3, <1>5, <1>6, <2>1, FlowFrame DEF Calm, Bytes
  <1>8. Flow("keyboard")'
    <2>1. "keyboard" \notin Opened
      BY <1>2 DEF Opened, PluginAt
    <2>2. queue["keyboard"] = <<>> /\ dropped["keyboard"] = {} /\ delivered["keyboard"] = <<>>
      BY <2>1, FlowIs DEF Calm, Bytes
    <2>3. InReaders("keyboard")' = {} /\ AtDevice("keyboard")' = {}
      BY <1>2, <1>3, <1>4 DEF InReaders, AtDevice
    <2>4. FlowOf(<<>>, {}, <<>>, {}, {}, 0)
      <3>1. ToSet(<<>>) = {} /\ 1..0 = {} /\ Rising(<<>>)
        BY DEF ToSet, Rising
      <3> QED
        BY <3>1 DEF FlowOf, Below
    <2> QED
      BY <1>3, <1>5, <2>2, <2>3, <2>4, FlowNext
  <1>9. Bytes'
    BY <1>3, <1>5, <1>7, <1>8 DEF Calm, Bytes
  <1>10. Announced'
    <2>1. Coming("serial") => Coming("serial")'
      BY <1>3, Stable DEF Coming
    <2> QED
      BY <1>3, <1>4, <2>1, AnnouncedIs, AnnouncedNext DEF Calm
  <1> QED
    BY <1>9, <1>10

\* Bytes that are in the FIFO when the port may interrupt do interrupt.
LEMMA EnableUartBytes ==
    ASSUME Calm, EnableUart PROVE Bytes' /\ Announced'
  <1>1. Booting(<<"enable", "uart">>)
    BY DEF EnableUart
  <1>2. step = 15 /\ step' = step + 1
    BY <1>1, NotBooted, OpAt DEF Calm
  <1>3. /\ UNCHANGED <<machine, port, ps2, cpu, ctx, queue, reader, arrived, delivered, dropped, unannounced>>
        /\ uart' = [uart EXCEPT !.ier = TRUE]
        /\ irr' = IF uart.fifo # <<>> THEN Raised("serial") ELSE irr
    BY DEF EnableUart, input, history
  <1>4. uart'.fifo = uart.fifo
    BY <1>3 DEF Calm, Whole, Types, DeviceType
  <1>5. Bytes'
    BY <1>2, <1>3, <1>4, BytesFrame, OpenedKept DEF Calm
  <1>6. "serial" \in Opened /\ "serial" \in Device
    BY <1>2 DEF Opened, PluginAt, Device, ByteDevice
  <1>7. Raised("serial") = irr \cup {Vector("serial")}
    BY <1>6, RaisedIs DEF Calm, Whole, Types, Control
  <1>8. Coming("keyboard") => Coming("keyboard")'
    BY <1>3, <1>7, Stable DEF Coming
  <1>9. uart'.fifo # <<>> => Coming("serial")'
    BY <1>3, <1>4, <1>7, Stable DEF Coming
  <1>10. Announced'
    BY <1>3, <1>8, <1>9, AnnouncedIs, AnnouncedNext DEF Calm
  <1> QED
    BY <1>5, <1>10

\* No step of boot moves a byte that counts.
LEMMA BootBytes ==
    ASSUME Calm, BootStep, fault' = "none" PROVE Bytes' /\ Announced'
  <1>1. CASE InitSerialPort
    BY <1>1, BootSerialBytes
  <1>2. CASE InitController
    BY <1>2, InitControllerBytes
  <1>3. CASE EnableUart
    BY <1>3, EnableUartBytes
  <1>4. CASE InitApic
    <2>1. step' = step + 1
      BY <1>4 DEF InitApic, Booting
    <2> QED
      BY <1>4, <2>1, CalmFrame DEF InitApic, hardware, input, history
  <1>5. CASE EnableInterrupts
    <2>1. step' = step + 1
      BY <1>5 DEF EnableInterrupts, Booting
    <2> QED
      BY <1>5, <2>1, CalmFrame DEF EnableInterrupts, hardware, input, history
  <1>6. CASE InitKeyboard
    <2>1. step' = step + 1
      BY <1>6 DEF InitKeyboard, Booting
    <2>2. ps2' = [ps2 EXCEPT !.locked = FALSE, !.scanning = TRUE, !.ready = TRUE]
      BY <1>6 DEF InitKeyboard
    <2>3. ps2'.data = ps2.data
      BY <2>2 DEF Calm, Whole, Types, DeviceType
    <2> QED
      BY <1>6, <2>1, <2>3, CalmFrame DEF InitKeyboard, input, history
  <1>7. ASSUME NEW d \in Device, AssignLock(d) \/ AssignPush(d) \/ Allow(d) PROVE Bytes' /\ Announced'
    <2>1. step' = step + 1
      BY <1>7 DEF AssignLock, AssignPush, Allow, Booting
    <2>2. UNCHANGED <<machine, port, ps2, uart, irr, ctx, cpu, unannounced, queue, dropped, delivered, reader, arrived>>
      BY <1>7 DEF AssignLock, AssignPush, Allow, hardware, input, history
    <2> QED
      BY <2>1, <2>2, CalmFrame
  <1> QED
    BY <1>1, <1>2, <1>3, <1>4, <1>5, <1>6, <1>7 DEF BootStep

-----------------------------------------------------------------------------

\* The timer moves no byte.
LEMMA TickBytes ==
    ASSUME Calm, Tick PROVE Bytes' /\ Announced'
  <1>1. irr \subseteq irr'
    BY RaisedIs DEF Tick, Calm, Whole, Types, Control, Device
  <1> QED
    BY <1>1, CalmFrame DEF Tick, hardware, input, history

\* A key arrives with an interrupt, or while its input is masked.
LEMMA KeyPressBytes ==
    ASSUME Calm, KeyPress PROVE Bytes' /\ Announced'
  <1>1. /\ UNCHANGED <<machine, step, port, uart, cpu, ctx, queue, reader, delivered, dropped>>
        /\ ps2.data = 0 /\ irr' = Raised("keyboard")
        /\ arrived' = [arrived EXCEPT !["keyboard"] = arrived["keyboard"] + 1]
        /\ ps2' = [ps2 EXCEPT !.data = arrived'["keyboard"]]
        /\ unannounced' = IF Vector("keyboard") \in irr' THEN unannounced
                          ELSE unannounced \cup {arrived'["keyboard"]}
    BY DEF KeyPress, input
  <1>2. PICK n \in Nat : n = arrived["keyboard"]
    BY DEF Calm, Whole, Types, HistType, ByteDevice
  <1>3. arrived'["keyboard"] = n + 1 /\ arrived'["serial"] = arrived["serial"] /\ ps2'.data = n + 1
    BY <1>1, <1>2 DEF Calm, Whole, Types, HistType, DeviceType, ByteDevice
  <1>4. Opened' = Opened
    BY <1>1, OpenedFrame
  <1>5. Flow("serial")'
    <2>1. InReaders("serial")' = InReaders("serial") /\ AtDevice("serial")' = AtDevice("serial")
      BY <1>1 DEF InReaders, AtDevice
    <2> QED
      BY <1>1, <1>3, <1>4, <2>1, FlowFrame DEF Calm, Bytes
  <1>6. Flow("keyboard")'
    <2>1. InReaders("keyboard")' = InReaders("keyboard") /\ AtDevice("keyboard") = {} /\ AtDevice("keyboard")' = {n + 1}
      BY <1>1, <1>3 DEF InReaders, AtDevice
    <2>2. Flow("keyboard") /\ "keyboard" \in ByteDevice /\ Types
      BY DEF Calm, Bytes, Whole, ByteDevice
    <2>3. FlowOf(delivered["keyboard"], InReaders("keyboard"), queue["keyboard"], {}, dropped["keyboard"], n)
      BY <1>2, <2>1, <2>2, FlowIs
    <2>4. FlowOf(delivered["keyboard"], InReaders("keyboard"), queue["keyboard"], {} \cup {n + 1},
                 dropped["keyboard"], n + 1)
      <3>1. {} \in SUBSET Nat
        OBVIOUS
      <3> QED
        BY <2>2, <2>3, <3>1, FlowTypes, FlowArrive
    <2>5. {} \cup {n + 1} = {n + 1}
      OBVIOUS
    <2>6. "keyboard" \notin Opened' => queue["keyboard"] = <<>> /\ dropped["keyboard"] = {} /\ delivered["keyboard"] = <<>>
      BY <1>4, <2>2, FlowIs
    <2> QED
      BY <1>1, <1>3, <2>1, <2>4, <2>5, <2>6, FlowNext
  <1>7. Bytes'
    BY <1>1, <1>3, <1>5, <1>6 DEF Calm, Bytes
  <1>8. Announced'
    <2>1. irr \subseteq irr'
      BY <1>1, RaisedIs DEF Calm, Whole, Types, Control, Device, ByteDevice
    <2>2. Vector("keyboard")' = Vector("keyboard") /\ (Coming("serial") => Coming("serial")')
      BY <1>1, <2>1, Stable DEF Coming
    <2>3. ps2'.data \notin {0} \cup unannounced' => Coming("keyboard")'
      BY <1>1, <1>3, <2>2 DEF Coming
    <2> QED
      BY <1>1, <2>2, <2>3, AnnouncedIs, AnnouncedNext DEF Calm
  <1> QED
    BY <1>7, <1>8

\* A byte arrives at the serial port: the first with an interrupt, the others while
\* that is still coming.
LEMMA SerialByteBytes ==
    ASSUME Calm, SerialByte PROVE Bytes' /\ Announced'
  <1>1. /\ UNCHANGED <<machine, step, port, ps2, cpu, ctx, queue, reader, delivered, dropped, unannounced>>
        /\ port # "none"
        /\ arrived' = [arrived EXCEPT !["serial"] = arrived["serial"] + 1]
        /\ uart' = [uart EXCEPT !.fifo = Append(uart.fifo, arrived'["serial"])]
        /\ irr' = IF uart.ier /\ uart.fifo = <<>> THEN Raised("serial") ELSE irr
    BY DEF SerialByte, input
  <1>2. PICK n \in Nat : n = arrived["serial"]
    BY DEF Calm, Whole, Types, HistType, ByteDevice
  <1>3. arrived'["serial"] = n + 1 /\ arrived'["keyboard"] = arrived["keyboard"]
    BY <1>1, <1>2 DEF Calm, Whole, Types, HistType, ByteDevice
  <1>4. PICK f \in Seq(Nat) : f = uart.fifo
    BY DEF Calm, Whole, Types, DeviceType
  <1>5. uart'.fifo = Append(f, n + 1) /\ uart'.ier = uart.ier
    BY <1>1, <1>3, <1>4 DEF Calm, Whole, Types, DeviceType
  <1>6. ToSet(Append(f, n + 1)) = ToSet(f) \cup {n + 1}
    BY AppendSet
  <1>7. Opened' = Opened
    BY <1>1, OpenedFrame
  <1>8. Flow("keyboard")'
    <2>1. InReaders("keyboard")' = InReaders("keyboard") /\ AtDevice("keyboard")' = AtDevice("keyboard")
      BY <1>1 DEF InReaders, AtDevice
    <2> QED
      BY <1>1, <1>3, <1>7, <2>1, FlowFrame DEF Calm, Bytes
  <1>9. Flow("serial") /\ "serial" \in ByteDevice /\ Types
    BY DEF Calm, Bytes, Whole, ByteDevice
  <1>10. FlowOf(delivered["serial"], InReaders("serial"), queue["serial"], ToSet(f), dropped["serial"], n)
    BY <1>2, <1>4, <1>9, FlowIs DEF AtDevice
  <1>11. Flow("serial")'
    <2>1. InReaders("serial")' = InReaders("serial") /\ AtDevice("serial")' = ToSet(f) \cup {n + 1}
      BY <1>1, <1>5, <1>6 DEF InReaders, AtDevice
    <2>2. ToSet(f) \in SUBSET Nat
      BY AppendSet
    <2>3. FlowOf(delivered["serial"], InReaders("serial"), queue["serial"], ToSet(f) \cup {n + 1},
                 dropped["serial"], n + 1)
      BY <1>9, <1>10, <2>2, FlowTypes, FlowArrive
    <2>4. "serial" \notin Opened' => queue["serial"] = <<>> /\ dropped["serial"] = {} /\ delivered["serial"] = <<>>
      BY <1>7, <1>9, FlowIs
    <2> QED
      BY <1>1, <1>3, <2>1, <2>3, <2>4, FlowNext
  <1>12. Rising(Append(f, n + 1))
    <2>1. Below(ToSet(f), {n + 1})
      <3>1. ToSet(f) \subseteq 1..n
        BY <1>10 DEF FlowOf
      <3> QED
        BY <3>1 DEF Below
    <2> QED
      BY <1>4, <2>1, RisingAppend DEF Calm, Bytes
  <1>13. Bytes'
    BY <1>1, <1>5, <1>8, <1>11, <1>12 DEF Calm, Bytes
  <1>14. Announced'
    <2>1. uart.ier => "serial" \in Opened
      BY DEF Calm, Whole, Control, BootInv, Opened, PluginAt, Device, ByteDevice
    <2>2. Raised("serial") = IF "serial" \in Opened THEN irr \cup {Vector("serial")} ELSE irr
      BY RaisedIs DEF Calm, Whole, Types, Control, Device, ByteDevice
    <2>3. irr \subseteq irr' /\ (uart.ier /\ uart.fifo = <<>> => Vector("serial") \in irr')
      BY <1>1, <2>1, <2>2
    <2>4. \A d : Vector(d)' = Vector(d) /\ (Coming(d) => Coming(d)')
      BY <1>1, <2>3, Stable DEF Coming
    <2>5. uart'.ier => Coming("serial")'
      BY <1>5, <2>3, <2>4, AnnouncedIs DEF Calm, Coming
    <2> QED
      BY <1>1, <2>4, <2>5, AnnouncedIs, AnnouncedNext DEF Calm
  <1> QED
    BY <1>13, <1>14

\* The processor moves no byte; what it must not do is to forget an interrupt.
LEMMA ProcessorBytes ==
    ASSUME Calm, UNCHANGED <<machine, step, port, ps2, uart, unannounced, queue, dropped, delivered, reader, arrived>>,
           \A d \in ByteDevice : Coming(d) => Vector(d) \in irr' \/ ctx'[cpu'] = Vector(d)
    PROVE  Bytes' /\ Announced'
  <1>1. Bytes'
    BY BytesFrame, OpenedKept DEF Calm
  <1>2. \A d \in ByteDevice : Coming(d) => Coming(d)'
    BY Stable DEF Coming
  <1> QED
    BY <1>1, <1>2, AnnouncedIs, AnnouncedNext DEF Calm, ByteDevice

\* An interrupt that is accepted is in the dispatcher then.
LEMMA AcceptBytes ==
    ASSUME Calm, Accept PROVE Bytes' /\ Announced'
  <1> DEFINE v == Max(irr)
  <1>1. /\ UNCHANGED <<machine, step, port, ps2, uart, cpu, queue, reader,
                       arrived, delivered, dropped, unannounced>>
        /\ enabled /\ irr' = irr \ {v} /\ ctx' = [ctx EXCEPT ![cpu] = v]
    BY DEF Accept, hardware, input, history
  <1> HIDE DEF v
  <1>2. ctx[cpu] = 0 /\ ctx'[cpu] = v
    BY <1>1 DEF Calm, Whole, Control, DispatchInv, Types, CpuType
  <1>3. \A d \in ByteDevice : Vector(d) # 0
    BY DeviceIrq, UsedVectors DEF Device
  <1> QED
    BY <1>1, <1>2, <1>3, ProcessorBytes DEF Coming

\* The dispatcher returns only after its handlers.
LEMMA FinishBytes ==
    ASSUME Calm, Finish PROVE Bytes' /\ Announced'
  <1>1. /\ UNCHANGED <<machine, step, port, ps2, uart, irr, cpu, queue, reader,
                       arrived, delivered, dropped, unannounced>>
        /\ ctx[cpu] < 0
    BY DEF Finish, hardware, input, history
  <1>2. \A d \in ByteDevice : Vector(d) \in Nat
    BY DeviceIrq, UsedVectors DEF Device
  <1> QED
    BY <1>1, <1>2, ProcessorBytes DEF Coming

\* A switch outside of interrupts leaves no dispatcher behind.
LEMMA BlockBytes ==
    ASSUME Calm, NEW n \in Threads, Block(n) PROVE Bytes' /\ Announced'
  <1>1. /\ UNCHANGED <<machine, step, port, ps2, uart, irr, queue, reader,
                       arrived, delivered, dropped, unannounced>>
        /\ ctx[cpu] = 0
    BY DEF Block, Running, hardware, input, history
  <1>2. \A d \in ByteDevice : Vector(d) # 0
    BY DeviceIrq, UsedVectors DEF Device
  <1> QED
    BY <1>1, <1>2, ProcessorBytes DEF Coming

\* The handlers of a vector are those of the device it belongs to.
LEMMA HandlerIs ==
    ASSUME Whole, NEW v \in Used, ctx[cpu] = v
    PROVE  \E d \in Opened : /\ v = Vector(d) /\ int_vectors[v].handlers = <<d>>
                             /\ \A e \in Device : v = Vector(e) => e = d
  <1>1. v \in Serving
    BY DispatchOf DEF Whole, Types, CpuType
  <1> QED
    BY <1>1, DispatchOf, DeviceIrq, ServingUsed

\* The timer's dispatcher is left behind, but no byte waits for it.
LEMMA DispatchTimerBytes ==
    ASSUME Calm, NEW v \in Used, NEW n \in Threads, DispatchTimer(v, n) PROVE Bytes' /\ Announced'
  <1>1. /\ UNCHANGED <<machine, step, port, ps2, uart, irr, queue, reader,
                       arrived, delivered, dropped, unannounced>>
        /\ ctx[cpu] = v /\ int_vectors[v].handlers = <<"timer">>
    BY DEF DispatchTimer, Handling, InDispatch, hardware, input, history
  <1>2. PICK d \in Opened : int_vectors[v].handlers = <<d>> /\ \A e \in Device : v = Vector(e) => e = d
    BY <1>1, HandlerIs DEF Calm
  <1>3. \A e \in ByteDevice : v # Vector(e)
    BY <1>1, <1>2 DEF Device, ByteDevice
  <1> QED
    BY <1>1, <1>3, ProcessorBytes DEF Coming

\* A handler stores the oldest byte of its device; what it drops is the oldest of the buffer.
LEMMA ReceiveFlow ==
    ASSUME Whole, NEW d \in ByteDevice, d \in Opened, Flow(d), NEW b \in AtDevice(d), Below({b}, AtDevice(d) \ {b}),
           Receive(d, b), UNCHANGED <<machine, port, step, reader, delivered, arrived>>,
           AtDevice(d)' = AtDevice(d) \ {b}
    PROVE  /\ Flow(d)'
           /\ \A e \in ByteDevice : e # d => queue'[e] = queue[e] /\ dropped'[e] = dropped[e]
           /\ \A x \in dropped'[d] \ dropped[d] :
                 Below({x}, ToSet(queue'[d])) /\ Len(queue'[d]) + Taken(d) = Capacity
  <1>1. PICK q \in Seq(Nat) : q = queue[d]
    BY FlowTypes DEF Whole
  <1>2. PICK k \in {0, 1} : k = Taken(d)
    BY TakenOne DEF Whole
  <1>3. b \in Nat /\ AtDevice(d) \in SUBSET Nat /\ Types
    BY FlowTypes DEF Whole
  <1>4. Len(q) \in Nat /\ Capacity \in Nat /\ (Len(q) + k >= Capacity => q # <<>> /\ Len(q) + k = Capacity)
    <2>1. Len(queue[d]) + Taken(d) >= Capacity => queue[d] # <<>> /\ Len(queue[d]) + Taken(d) = Capacity
      BY <1>3, StoreFits DEF Whole, Types
    <2> QED
      BY <1>1, <1>2, <2>1, InterruptsAssumption
  <1>5. PICK s : s = Store(q, d, b)
    OBVIOUS
  <1>6. s = IF Len(q) + k < Capacity THEN Append(q, b) ELSE Append(Tail(q), b)
    BY <1>2, <1>5 DEF Store
  <1>7. PICK dr \in SUBSET Nat : dr = dropped[d]
    BY <1>3, FlowTypes
  <1>8. /\ queue' = [queue EXCEPT ![d] = s]
        /\ dropped' = [dropped EXCEPT ![d] = dr \cup (ToSet(Append(q, b)) \ ToSet(s))]
    BY <1>1, <1>5, <1>7, Zenon DEF Receive
  <1>9. /\ queue'[d] = s /\ dropped'[d] = dr \cup (ToSet(Append(q, b)) \ ToSet(s))
        /\ \A e \in ByteDevice : e # d => queue'[e] = queue[e] /\ dropped'[e] = dropped[e]
    BY <1>3, <1>8 DEF Types, BufferType
  <1>10. FlowOf(delivered[d], InReaders(d), q, AtDevice(d), dr, arrived[d])
    BY <1>1, <1>7, FlowIs
  <1>11. /\ FlowOf(delivered[d], InReaders(d), Append(q, b), AtDevice(d) \ {b}, dr, arrived[d])
         /\ q # <<>> =>
              /\ FlowOf(delivered[d], InReaders(d), Append(Tail(q), b), AtDevice(d) \ {b}, dr \cup {Head(q)}, arrived[d])
              /\ ToSet(Append(q, b)) \ ToSet(Append(Tail(q), b)) = {Head(q)}
              /\ Below({Head(q)}, ToSet(Append(Tail(q), b)))
    BY <1>3, <1>10, FlowTypes, FlowStore
  <1>12. InReaders(d)' = InReaders(d) /\ d \in Opened' /\ delivered'[d] = delivered[d] /\ arrived'[d] = arrived[d]
    BY OpenedFrame DEF InReaders
  <1>13. CASE Len(q) + k < Capacity
    <2>1. s = Append(q, b) /\ dropped'[d] = dr
      BY <1>6, <1>9, <1>13
    <2>2. Flow(d)'
      BY <1>9, <1>11, <1>12, <2>1, FlowNext
    <2> QED
      BY <1>7, <1>9, <2>1, <2>2
  <1>14. CASE ~(Len(q) + k < Capacity)
    <2>1. q # <<>> /\ Len(q) + k = Capacity
      BY <1>4, <1>14
    <2>2. s = Append(Tail(q), b) /\ dropped'[d] = dr \cup {Head(q)}
      BY <1>6, <1>9, <1>11, <1>14, <2>1
    <2>3. Flow(d)'
      BY <1>9, <1>11, <1>12, <2>1, <2>2, FlowNext
    <2>4. Len(s) = Len(q)
      BY <1>3, <2>1, <2>2, TailSet, AppendSet
    <2>5. Below({Head(q)}, ToSet(s)) /\ Len(s) + k = Capacity
      BY <1>11, <2>1, <2>2, <2>4
    <2>6. \A x \in dropped'[d] \ dropped[d] : x = Head(q)
      BY <1>7, <2>2
    <2> QED
      BY <1>2, <1>9, <2>3, <2>5, <2>6
  <1> QED
    BY <1>13, <1>14

\* What a handler does to the buffers: it takes the oldest byte of its device, or nothing.
LEMMA DispatchBytesIs ==
    ASSUME Calm, NEW v \in Used, DispatchBytes(v)
    PROVE  \/ /\ ps2'.data = 0 /\ uart' = uart /\ v = Vector("keyboard") /\ "keyboard" \in Opened
              /\ ps2.data # 0 /\ Receive("keyboard", ps2.data)
           \/ /\ ps2' = ps2 /\ uart' = [uart EXCEPT !.fifo = Tail(uart.fifo)] /\ v = Vector("serial") /\ "serial" \in Opened
              /\ uart.ier /\ uart.fifo # <<>> /\ Receive("serial", Head(uart.fifo)) /\ ctx' = ctx
           \/ /\ ps2'.data = ps2.data /\ uart' = uart /\ UNCHANGED <<queue, dropped>>
              /\ (v = Vector("keyboard") => ps2.data = 0)
              /\ (v = Vector("serial") => ~(uart.ier /\ uart.fifo # <<>>))
  <1>1. ctx[cpu] = v /\ fault = "none"
    BY DEF DispatchBytes, InDispatch
  <1>2. PICK d \in Opened : v = Vector(d) /\ int_vectors[v].handlers = <<d>> /\ \A e \in Device : v = Vector(e) => e = d
    BY <1>1, HandlerIs DEF Calm
  <1>3. \A e \in Device : Handling(v, e) <=> d = e
    BY <1>1, <1>2 DEF Handling, InDispatch
  <1>4. "keyboard" \in ByteDevice /\ "serial" \in ByteDevice /\ "keyboard" \in Device /\ "serial" \in Device
    BY DEF ByteDevice, Device
  <1>5. CASE Handling(v, "keyboard") /\ KeyboardTrigger
    <2>1. d = "keyboard"
      BY <1>3, <1>4, <1>5
    <2>2. ps2.ready /\ ~ps2.locked
      <3>1. step > 11 /\ step \in Nat
        BY <2>1, DispatchOf DEF Opened, PluginAt, Calm
      <3> QED
        BY <3>1 DEF Calm, Whole, Control, BootInv
    <2>3. ps2.data \in Nat
      BY InterruptsAssumption DEF ByteDevice, Calm, Whole, Types, DeviceType
    <2>4. ~NoRoom("keyboard")
      BY <1>4, <2>3, StoreFits DEF Calm, Whole, Types
    <2>5. fault' = "none"
      BY <1>5, <2>2, <2>4 DEF KeyboardTrigger
    <2>6. ps2'.data = 0 /\ uart' = uart
      <3>1. ps2' = [ps2 EXCEPT !.data = 0] /\ uart' = uart
        BY <1>5 DEF KeyboardTrigger
      <3> QED
        BY <3>1 DEF Calm, Whole, Types, DeviceType
    <2>7. v # Vector("serial")
      BY <1>2, <1>4, <2>1
    <2>8. CASE ps2.data # 0
      <3>1. Receive("keyboard", ps2.data)
        BY <1>5, <2>5, <2>8 DEF KeyboardTrigger
      <3> QED
        BY <1>2, <2>1, <2>6, <2>8, <3>1
    <2>9. CASE ps2.data = 0
      <3>1. UNCHANGED <<queue, dropped>>
        BY <1>5, <2>9 DEF KeyboardTrigger
      <3> QED
        BY <2>6, <2>7, <2>9, <3>1
    <2> QED
      BY <2>8, <2>9
  <1>6. CASE Handling(v, "serial") /\ SerialTrigger /\ UNCHANGED ctx
    <2>1. d = "serial" /\ uart.ier /\ uart.fifo # <<>>
      BY <1>3, <1>4, <1>6 DEF SerialTrigger, Pending
    <2>2. Head(uart.fifo) \in Nat
      <3>1. uart.fifo \in Seq(Nat)
        BY DEF Calm, Whole, Types, DeviceType
      <3> QED
        BY <2>1, <3>1, TailSet
    <2>3. ~NoRoom("serial")
      BY <1>4, <2>2, StoreFits DEF Calm, Whole, Types
    <2>4. fault' = "none"
      BY <1>6, <2>3 DEF SerialTrigger
    <2>5. Receive("serial", Head(uart.fifo)) /\ ps2' = ps2 /\ uart' = [uart EXCEPT !.fifo = Tail(uart.fifo)]
      BY <1>6, <2>4 DEF SerialTrigger
    <2> QED
      BY <1>2, <1>6, <2>1, <2>5
  <1>7. CASE /\ ~Handling(v, "keyboard") /\ ~(Handling(v, "serial") /\ Pending)
             /\ UNCHANGED <<hardware, queue, dropped, fault>>
    <2>1. d # "keyboard" /\ (d = "serial" => ~(uart.ier /\ uart.fifo # <<>>))
      BY <1>3, <1>4, <1>7 DEF Pending
    <2>2. v # Vector("keyboard") /\ (v = Vector("serial") => d = "serial")
      BY <1>2, <1>4, <2>1
    <2> QED
      BY <1>7, <2>1, <2>2 DEF hardware
  <1> QED
    BY <1>5, <1>6, <1>7 DEF DispatchBytes

\* The handlers of keyboard and serial port keep the order of the bytes, and leave
\* no byte that nobody announces.
LEMMA DispatchBytesBytes ==
    ASSUME Calm, NEW v \in Used, DispatchBytes(v) PROVE Bytes' /\ Announced'
  <1>1. /\ UNCHANGED <<machine, step, port, irr, cpu, reader, arrived, delivered, unannounced>>
        /\ ctx[cpu] = v
    BY DEF DispatchBytes, InDispatch
  <1>2. \A d : Vector(d)' = Vector(d)
    BY <1>1, Stable
  <1>3. Opened' = Opened /\ "keyboard" \in ByteDevice /\ "serial" \in ByteDevice /\ "keyboard" # "serial"
    BY <1>1, OpenedFrame DEF ByteDevice
  <1>4. Flow("keyboard") /\ Flow("serial") /\ Whole /\ Types /\ Announced /\ fault = "none"
    BY DEF Calm, Bytes, Whole
  <1>5. \A d : InReaders(d)' = InReaders(d)
    BY <1>1 DEF InReaders
  <1>6. \A d \in ByteDevice : Vector(d) # v /\ Coming(d) => Coming(d)'
    BY <1>1, <1>2 DEF Coming
  <1>7. Vector("keyboard") # Vector("serial")
    BY <1>3, DeviceIrq DEF Device
  <1>8. CASE /\ ps2'.data = 0 /\ uart' = uart /\ v = Vector("keyboard") /\ "keyboard" \in Opened
             /\ ps2.data # 0 /\ Receive("keyboard", ps2.data)
    <2>1. AtDevice("keyboard") = {ps2.data} /\ AtDevice("keyboard")' = {} /\ AtDevice("serial")' = AtDevice("serial")
      BY <1>8 DEF AtDevice
    <2>2. Below({ps2.data}, {}) /\ {ps2.data} \ {ps2.data} = {}
      BY DEF Below
    <2>3. /\ Flow("keyboard")'
          /\ \A e \in ByteDevice : e # "keyboard" => queue'[e] = queue[e] /\ dropped'[e] = dropped[e]
      BY <1>1, <1>3, <1>4, <1>8, <2>1, <2>2, ReceiveFlow
    <2>4. Flow("serial")'
      BY <1>1, <1>3, <1>4, <1>5, <2>1, <2>3, FlowFrame
    <2>5. Bytes'
      BY <1>1, <1>8, <2>3, <2>4 DEF Calm, Bytes
    <2>6. Announced'
      BY <1>3, <1>4, <1>6, <1>7, <1>8, AnnouncedIs, AnnouncedNext
    <2> QED
      BY <2>5, <2>6
  <1>9. CASE /\ ps2' = ps2 /\ uart' = [uart EXCEPT !.fifo = Tail(uart.fifo)] /\ v = Vector("serial") /\ "serial" \in Opened
             /\ uart.ier /\ uart.fifo # <<>> /\ Receive("serial", Head(uart.fifo)) /\ ctx' = ctx
    <2>1. PICK f \in Seq(Nat) : f = uart.fifo
      BY <1>4 DEF Types, DeviceType
    <2>2. uart'.fifo = Tail(f) /\ uart'.ier = uart.ier
      BY <1>4, <1>9, <2>1 DEF Types, DeviceType
    <2>3. f # <<>> /\ Rising(f)
      BY <1>9, <2>1 DEF Calm, Bytes
    <2>4. PICK h \in Nat, T \in SUBSET Nat : h = Head(f) /\ T = ToSet(Tail(f))
      BY <2>3, TailSet, AppendSet
    <2>5. Rising(Tail(f)) /\ Below({h}, T)
      BY <2>3, <2>4, RisingTail
    <2>6. ToSet(f) = {h} \cup T /\ h \notin T
      BY <2>3, <2>4, <2>5, TailSet DEF Below
    <2>7. AtDevice("serial") = {h} \cup T /\ AtDevice("serial")' = T /\ AtDevice("keyboard")' = AtDevice("keyboard")
      BY <1>3, <1>9, <2>1, <2>2, <2>4, <2>6 DEF AtDevice
    <2>8. ({h} \cup T) \ {h} = T
      BY <2>6
    <2>9. /\ Flow("serial")'
          /\ \A e \in ByteDevice : e # "serial" => queue'[e] = queue[e] /\ dropped'[e] = dropped[e]
      <3>1. h \in AtDevice("serial") /\ Below({h}, AtDevice("serial") \ {h}) /\ AtDevice("serial")' = AtDevice("serial") \ {h}
        BY <2>5, <2>7, <2>8
      <3>2. Receive("serial", h)
        BY <1>9, <2>1, <2>4
      <3> QED
        BY <1>1, <1>3, <1>4, <1>9, <3>1, <3>2, ReceiveFlow
    <2>10. Flow("keyboard")'
      BY <1>1, <1>3, <1>4, <1>5, <2>7, <2>9, FlowFrame
    <2>11. Bytes'
      <3>1. port # "none"
        BY <1>9 DEF Calm, Bytes
      <3> QED
        BY <1>1, <2>2, <2>5, <2>9, <2>10, <3>1 DEF Bytes
    <2>12. Announced'
      <3>1. Coming("serial")'
        BY <1>1, <1>2, <1>9 DEF Coming
      <3>2. Coming("keyboard") => Coming("keyboard")'
        BY <1>3, <1>6, <1>7, <1>9
      <3> QED
        BY <1>1, <1>4, <1>9, <3>1, <3>2, AnnouncedIs, AnnouncedNext
    <2> QED
      BY <2>11, <2>12
  <1>10. CASE /\ ps2'.data = ps2.data /\ uart' = uart /\ UNCHANGED <<queue, dropped>>
              /\ (v = Vector("keyboard") => ps2.data = 0)
              /\ (v = Vector("serial") => ~(uart.ier /\ uart.fifo # <<>>))
    <2>1. Bytes'
      BY <1>1, <1>3, <1>10, BytesFrame DEF Calm
    <2>2. Announced'
      BY <1>1, <1>3, <1>4, <1>6, <1>10, AnnouncedIs, AnnouncedNext
    <2> QED
      BY <2>1, <2>2
  <1> QED
    BY <1>8, <1>9, <1>10, DispatchBytesIs

-----------------------------------------------------------------------------

\* Who reads a device finds it plugged in.
LEMMA ReaderOpened ==
    ASSUME Whole, NEW t \in Threads, reader[t].at # "idle"
    PROVE  reader[t].dev \in ByteDevice /\ reader[t].dev \in Opened
  <1>1. /\ reader[t].dev \in ByteDevice /\ (reader[t].dev = "serial" => port # "none") /\ Booted
    BY DEF Whole, ReaderInv
  <1>2. step > LastStep /\ step \in Nat
    BY <1>1, BootedIs, LastIs DEF Whole, Types, BootType
  <1>3. step > 11 /\ (port # "none" => step > 15)
    BY <1>2 DEF LastStep
  <1>4. \A e \in ByteDevice : e \in Device /\ (step > PluginAt(e) + 2 => e \in Opened)
    BY DEF Opened, Device
  <1>5. PluginAt("keyboard") = 9 /\ PluginAt("serial") = 12
    BY DEF PluginAt
  <1>6. reader[t].dev = "keyboard" \/ reader[t].dev = "serial"
    BY <1>1 DEF ByteDevice
  <1> QED
    BY <1>1, <1>2, <1>3, <1>4, <1>5, <1>6

\* What the readers of a device hold.
LEMMA HeldIs ==
    ASSUME NEW d
    PROVE  InReaders(d) = {reader[t].byte : t \in TakenBy(d)}
  BY DEF InReaders, TakenBy

\* The same after a step.
LEMMA HeldIsNext ==
    ASSUME NEW d
    PROVE  InReaders(d)' = {reader'[t].byte : t \in {t \in Threads : reader'[t].dev = d /\ reader'[t].at = "taken"}}
  BY DEF InReaders

\* read_byte() begins without a byte.
LEMMA ReadLockBytes ==
    ASSUME Calm, NEW d \in ByteDevice, ReadLock(d) PROVE Bytes' /\ Announced'
  <1>1. /\ UNCHANGED <<machine, step, port, ps2, uart, irr, cpu, ctx, queue, arrived, delivered, dropped, unannounced>>
        /\ reader[cpu].at = "idle"
        /\ reader' = [reader EXCEPT ![cpu] = [dev |-> d, at |-> "waiting", byte |-> 0]]
    BY DEF ReadLock, hardware, history
  <1>2. /\ cpu \in Threads /\ reader'[cpu].at = "waiting"
        /\ \A t \in Threads : t # cpu => reader'[t] = reader[t]
    BY <1>1 DEF Calm, Whole, Types, CpuType, ReaderType
  <1>3. \A e : InReaders(e)' = InReaders(e)
    <2> SUFFICES ASSUME NEW e PROVE InReaders(e)' = InReaders(e)
      OBVIOUS
    <2>1. {t \in Threads : reader'[t].dev = e /\ reader'[t].at = "taken"} = TakenBy(e)
      BY <1>1, <1>2 DEF TakenBy
    <2>2. \A t \in TakenBy(e) : reader'[t].byte = reader[t].byte
      BY <1>1, <1>2 DEF TakenBy
    <2> QED
      BY <2>1, <2>2, HeldIs, HeldIsNext
  <1>4. \A e : AtDevice(e)' = AtDevice(e)
    BY <1>1 DEF AtDevice
  <1>5. Opened' = Opened
    BY <1>1, OpenedFrame
  <1>6. Flow("keyboard")' /\ Flow("serial")'
    BY <1>1, <1>3, <1>4, <1>5, FlowFrame DEF Calm, Bytes
  <1>7. Bytes'
    BY <1>1, <1>6 DEF Calm, Bytes
  <1> QED
    BY <1>1, <1>7, AnnouncedFrame

\* A reader takes a byte: no other reader of the device holds one.
LEMMA ReadTakeBytes ==
    ASSUME Calm, ReadTake PROVE Bytes' /\ Announced'
  <1>1. PICK d : d = reader[cpu].dev
    OBVIOUS
  <1>2. /\ UNCHANGED <<machine, step, port, ps2, uart, irr, cpu, ctx, arrived, delivered, dropped, unannounced>>
        /\ reader[cpu].at = "waiting" /\ queue[d] # <<>>
        /\ reader' = [reader EXCEPT ![cpu] = [dev |-> d, at |-> "taken", byte |-> Head(queue[d])]]
        /\ queue' = [queue EXCEPT ![d] = Tail(queue[d])]
    BY <1>1 DEF ReadTake, hardware, history
  <1>3. cpu \in Threads /\ Whole /\ Types
    BY DEF Calm, Whole, Types, CpuType
  <1>4. d \in ByteDevice /\ d \in Opened
    BY <1>1, <1>2, <1>3, ReaderOpened
  <1>5. PICK q \in Seq(Nat) : q = queue[d]
    BY <1>3, <1>4, FlowTypes
  <1>6. /\ reader'[cpu].dev = d /\ reader'[cpu].at = "taken" /\ reader'[cpu].byte = Head(q)
        /\ \A t \in Threads : t # cpu => reader'[t] = reader[t]
    BY <1>2, <1>3, <1>5 DEF Types, ReaderType
  <1>7. queue'[d] = Tail(q) /\ \A e \in ByteDevice : e # d => queue'[e] = queue[e]
    BY <1>2, <1>3, <1>4, <1>5 DEF Types, BufferType
  <1>8. TakenBy(d) = {}
    BY <1>1, <1>2, <1>3, <1>4, TakenOne DEF Whole, TakenBy
  <1>9. InReaders(d) = {} /\ InReaders(d)' = {Head(q)}
    <2>1. {t \in Threads : reader'[t].dev = d /\ reader'[t].at = "taken"} = {cpu}
      BY <1>3, <1>6, <1>8 DEF TakenBy
    <2> QED
      BY <1>6, <1>8, <2>1, HeldIs, HeldIsNext
  <1>10. \A e \in ByteDevice : e # d => InReaders(e)' = InReaders(e)
    <2> SUFFICES ASSUME NEW e \in ByteDevice, e # d PROVE InReaders(e)' = InReaders(e)
      OBVIOUS
    <2>1. {t \in Threads : reader'[t].dev = e /\ reader'[t].at = "taken"} = TakenBy(e)
      BY <1>1, <1>2, <1>6 DEF TakenBy
    <2>2. \A t \in TakenBy(e) : reader'[t].byte = reader[t].byte
      BY <1>1, <1>2, <1>6 DEF TakenBy
    <2> QED
      BY <2>1, <2>2, HeldIs, HeldIsNext
  <1>11. (\A e : AtDevice(e)' = AtDevice(e)) /\ Opened' = Opened
    BY <1>2, OpenedFrame DEF AtDevice
  <1>12. \A e \in ByteDevice : Flow(e)
    BY DEF Calm, Bytes, ByteDevice
  <1>13. Flow(d)'
    <2>1. FlowOf(delivered[d], {}, q, AtDevice(d), dropped[d], arrived[d])
      BY <1>4, <1>5, <1>9, <1>12, FlowIs
    <2>2. FlowOf(delivered[d], {Head(q)}, Tail(q), AtDevice(d), dropped[d], arrived[d])
      BY <1>2, <1>3, <1>4, <1>5, <2>1, FlowTypes, FlowTake
    <2> QED
      BY <1>2, <1>4, <1>7, <1>9, <1>11, <2>2, FlowNext
  <1>14. \A e \in ByteDevice : e # d => Flow(e)'
    BY <1>2, <1>7, <1>10, <1>11, <1>12, FlowFrame
  <1>15. Bytes'
    <2>1. Flow("keyboard")' /\ Flow("serial")'
      BY <1>13, <1>14 DEF ByteDevice
    <2> QED
      BY <1>2, <2>1 DEF Calm, Bytes
  <1> QED
    BY <1>2, <1>15, AnnouncedFrame

\* A reader delivers the byte it holds, which is younger than all that were.
LEMMA ReadGiveBytes ==
    ASSUME Calm, ReadGive PROVE Bytes' /\ Announced'
  <1>1. PICK d : d = reader[cpu].dev
    OBVIOUS
  <1>2. PICK b : b = reader[cpu].byte
    OBVIOUS
  <1>3. /\ UNCHANGED <<machine, step, port, ps2, uart, irr, cpu, ctx, queue, arrived, dropped, unannounced>>
        /\ reader[cpu].at = "taken"
        /\ delivered' = [delivered EXCEPT ![d] = Append(delivered[d], b)]
        /\ reader' = [reader EXCEPT ![cpu] = [dev |-> "none", at |-> "idle", byte |-> 0]]
    BY <1>1, <1>2 DEF ReadGive, hardware
  <1>4. cpu \in Threads /\ Whole /\ Types /\ b \in Nat
    BY <1>2 DEF Calm, Whole, Types, CpuType, ReaderType
  <1>5. d \in ByteDevice /\ d \in Opened
    BY <1>1, <1>3, <1>4, ReaderOpened
  <1>6. /\ reader'[cpu].at = "idle"
        /\ \A t \in Threads : t # cpu => reader'[t] = reader[t]
    BY <1>3, <1>4 DEF Types, ReaderType
  <1>7. delivered'[d] = Append(delivered[d], b) /\ \A e \in ByteDevice : e # d => delivered'[e] = delivered[e]
    BY <1>3, <1>4, <1>5 DEF Types, HistType
  <1>8. TakenBy(d) = {cpu}
    BY <1>1, <1>3, <1>4, <1>5, TakenOne DEF Whole, TakenBy
  <1>9. InReaders(d) = {b} /\ InReaders(d)' = {}
    <2>1. {t \in Threads : reader'[t].dev = d /\ reader'[t].at = "taken"} = {}
      BY <1>4, <1>6, <1>8 DEF TakenBy
    <2> QED
      BY <1>2, <1>8, <2>1, HeldIs, HeldIsNext
  <1>10. \A e \in ByteDevice : e # d => InReaders(e)' = InReaders(e)
    <2> SUFFICES ASSUME NEW e \in ByteDevice, e # d PROVE InReaders(e)' = InReaders(e)
      OBVIOUS
    <2>1. {t \in Threads : reader'[t].dev = e /\ reader'[t].at = "taken"} = TakenBy(e)
      BY <1>1, <1>3, <1>6 DEF TakenBy
    <2>2. \A t \in TakenBy(e) : reader'[t].byte = reader[t].byte
      BY <1>1, <1>3, <1>6 DEF TakenBy
    <2> QED
      BY <2>1, <2>2, HeldIs, HeldIsNext
  <1>11. (\A e : AtDevice(e)' = AtDevice(e)) /\ Opened' = Opened
    BY <1>3, OpenedFrame DEF AtDevice
  <1>12. \A e \in ByteDevice : Flow(e)
    BY DEF Calm, Bytes, ByteDevice
  <1>13. Flow(d)'
    <2>1. FlowOf(delivered[d], {b}, queue[d], AtDevice(d), dropped[d], arrived[d])
      BY <1>5, <1>9, <1>12, FlowIs
    <2>2. FlowOf(Append(delivered[d], b), {}, queue[d], AtDevice(d), dropped[d], arrived[d])
      BY <1>4, <1>5, <2>1, FlowTypes, FlowGive
    <2> QED
      BY <1>3, <1>5, <1>7, <1>9, <1>11, <2>2, FlowNext
  <1>14. \A e \in ByteDevice : e # d => Flow(e)'
    BY <1>3, <1>7, <1>10, <1>11, <1>12, FlowFrame
  <1>15. Bytes'
    <2>1. Flow("keyboard")' /\ Flow("serial")'
      BY <1>13, <1>14 DEF ByteDevice
    <2> QED
      BY <1>3, <2>1 DEF Calm, Bytes
  <1> QED
    BY <1>3, <1>15, AnnouncedFrame

-----------------------------------------------------------------------------

\* The inductive invariant.
BytesInv == ControlInv /\ ByteInv /\ Announced /\ InOrder

\* ByteInv in terms of Bytes.
LEMMA ByteInvIs == ByteInv <=> (fault = "none" => Bytes)
  BY DEF ByteInv, Bytes

\* InOrder in terms of Rising.
LEMMA InOrderIs == InOrder <=> \A d \in ByteDevice : Rising(delivered[d])
  BY DEF InOrder, Rising

\* The order of what was delivered is part of Bytes.
LEMMA BytesOrder == Bytes => InOrder
  BY InOrderIs DEF Bytes, Flow, ByteDevice

\* The same after a step.
LEMMA BytesOrderNext == (Bytes => InOrder)'
  BY BytesOrder, PTL

\* ByteInv after a step.
LEMMA ByteInvNext == (ByteInv <=> (fault = "none" => Bytes))'
  BY ByteInvIs, PTL

\* What a step without a panic has to keep.
LEMMA BytesFromCalm ==
    ASSUME Bytes', Announced' PROVE ByteInv' /\ Announced' /\ InOrder'
  BY ByteInvNext, BytesOrderNext

\* After a panic nothing more is said of the bytes, and nothing more is read.
LEMMA BytesAfterFault ==
    ASSUME InOrder, fault' # "none", delivered' = delivered PROVE ByteInv' /\ Announced' /\ InOrder'
  <1>1. InOrder'
    BY DEF InOrder
  <1>2. ByteInv' /\ Announced'
    BY DEF ByteInv, Announced
  <1> QED
    BY <1>1, <1>2

\* The invariant holds before boot.
LEMMA BytesInit == Init => BytesInv
  <1> SUFFICES ASSUME Init PROVE BytesInv
    OBVIOUS
  <1>1. /\ step = 1 /\ port = "none" /\ ps2.data = 0 /\ uart.fifo = <<>> /\ uart.ier = FALSE
        /\ \A d \in ByteDevice : queue[d] = <<>> /\ arrived[d] = 0 /\ delivered[d] = <<>> /\ dropped[d] = {}
        /\ \A t \in Threads : reader[t].at = "idle"
    BY DEF Init
  <1>2. ToSet(<<>>) = {} /\ 1..0 = {} /\ Rising(<<>>)
    BY DEF ToSet, Rising
  <1>3. \A d \in ByteDevice : InReaders(d) = {} /\ AtDevice(d) = {}
    BY <1>1, <1>2 DEF InReaders, AtDevice, ByteDevice
  <1>4. FlowOf(<<>>, {}, <<>>, {}, {}, 0)
    BY <1>2 DEF FlowOf, Below
  <1>5. Flow("keyboard") /\ Flow("serial")
    BY <1>1, <1>3, <1>4, FlowIs DEF ByteDevice
  <1>6. Bytes
    BY <1>1, <1>2, <1>5 DEF Bytes, ByteDevice
  <1>7. Announced
    BY <1>1 DEF Announced
  <1> QED
    BY <1>6, <1>7, ControlInit, ByteInvIs, BytesOrder DEF BytesInv

\* Only read_byte() delivers, and it does not panic.
LEMMA FaultDelivers ==
    ASSUME Next, fault = "none", fault' # "none" PROVE delivered' = delivered
  BY DEF Next, BootStep, InitSerialPort, InitApic, EnableInterrupts, InitController, InitKeyboard,
         EnableUart, AssignLock, AssignPush, Allow, Tick, KeyPress, SerialByte, Nmi,
         Accept, Finish, DispatchBytes, DispatchTimer, Block, Read, ReadTake, ReadGive, ReadLock,
         Halted, vars, history

\* Nothing happens after a panic.
LEMMA FaultHalts ==
    ASSUME Next, fault # "none" PROVE UNCHANGED vars
  BY DEF Next, BootStep, InitSerialPort, InitApic, EnableInterrupts, InitController, InitKeyboard,
         EnableUart, AssignLock, AssignPush, Allow, Booting, Running, Tick, KeyPress, SerialByte, Nmi,
         Accept, Finish, DispatchBytes, DispatchTimer, Handling, InDispatch, Block, Read, ReadTake, ReadGive,
         ReadLock, Halted

\* Every step keeps the invariant.
LEMMA BytesStep == BytesInv /\ [Next]_vars => BytesInv'
  <1> SUFFICES ASSUME BytesInv, [Next]_vars PROVE ByteInv' /\ Announced' /\ InOrder'
    BY ControlStep DEF BytesInv
  <1>1. CASE fault' # "none"
    <2>1. delivered' = delivered
      <3>1. CASE UNCHANGED vars
        BY <3>1 DEF vars, history
      <3>2. CASE Next /\ fault # "none"
        BY <3>2, FaultHalts DEF vars, history
      <3>3. CASE Next /\ fault = "none"
        BY <1>1, <3>3, FaultDelivers
      <3> QED
        BY <3>1, <3>2, <3>3
    <2> QED
      BY <1>1, <2>1, BytesAfterFault DEF BytesInv
  <1>2. CASE fault' = "none" /\ UNCHANGED vars
    <2>1. Calm
      BY <1>2, ControlWhole, ByteInvIs DEF BytesInv, Calm, vars
    <2> QED
      BY <1>2, <2>1, CalmFrame, BytesFromCalm DEF vars, hardware, input, history
  <1>3. CASE fault' = "none" /\ Next
    <2>1. fault = "none"
      BY <1>3, FaultHalts DEF vars
    <2>2. Calm
      BY <2>1, ControlWhole, ByteInvIs DEF BytesInv, Calm
    <2>3. Bytes' /\ Announced'
      <3>1. CASE BootStep
        BY <1>3, <2>2, <3>1, BootBytes
      <3>2. CASE Tick \/ KeyPress \/ SerialByte \/ Accept \/ Finish
        BY <2>2, <3>2, TickBytes, KeyPressBytes, SerialByteBytes, AcceptBytes, FinishBytes
      <3>3. ASSUME NEW v \in Used, DispatchBytes(v) PROVE Bytes' /\ Announced'
        BY <2>2, <3>3, DispatchBytesBytes
      <3>4. ASSUME NEW v \in Used, NEW n \in Threads, DispatchTimer(v, n) PROVE Bytes' /\ Announced'
        BY <2>2, <3>4, DispatchTimerBytes
      <3>5. ASSUME NEW n \in Threads, Block(n) PROVE Bytes' /\ Announced'
        BY <2>2, <3>5, BlockBytes
      <3>6. CASE Read
        BY <2>2, <3>6, ReadTakeBytes, ReadGiveBytes, ReadLockBytes DEF Read
      <3>7. CASE Nmi
        BY <1>3, <3>7, NmiFault DEF Nmi
      <3>8. CASE Halted
        BY <2>1, <3>8 DEF Halted
      <3> QED
        BY <1>3, <3>1, <3>2, <3>3, <3>4, <3>5, <3>6, <3>7, <3>8 DEF Next
    <2> QED
      BY <2>3, BytesFromCalm
  <1> QED
    BY <1>1, <1>2, <1>3

\* The invariant holds in every reachable state.
LEMMA BytesCorrect == Spec => []BytesInv
  BY BytesInit, BytesStep, PTL DEF Spec

\* Whichever threads call read_byte(), bytes are read in the order they arrived.
THEOREM BytesInOrder == Spec => []InOrder
  <1>1. BytesInv => InOrder
    BY DEF BytesInv
  <1> QED
    BY <1>1, BytesCorrect, PTL

\* No byte is left at its device without an interrupt that is coming for it, except
\* the key of enable_scanning() before allow().
THEOREM BytesAnnounced == Spec => []Announced
  <1>1. BytesInv => Announced
    BY DEF BytesInv
  <1> QED
    BY <1>1, BytesCorrect, PTL

-----------------------------------------------------------------------------

\* The size of two disjoint sets.
LEMMA DisjointCard ==
    ASSUME NEW S, NEW T, IsFiniteSet(S), IsFiniteSet(T), S \cap T = {}
    PROVE  /\ IsFiniteSet(S \cup T) /\ Cardinality(S \cup T) = Cardinality(S) + Cardinality(T)
           /\ Cardinality(S) \in Nat /\ Cardinality(T) \in Nat
  <1>1. IsFiniteSet(S \cup T)
        /\ Cardinality(S \cup T) = Cardinality(S) + Cardinality(T) - Cardinality(S \cap T)
    BY FS_Union
  <1>2. Cardinality(S \cap T) = 0 /\ Cardinality(S) \in Nat /\ Cardinality(T) \in Nat
    BY FS_EmptySet, FS_CardinalityType
  <1> QED
    BY <1>1, <1>2

\* The places of the bytes are disjoint, and finite.
LEMMA FlowCount ==
    ASSUME NEW dl \in Seq(Nat), NEW rd \in SUBSET Nat, NEW q \in Seq(Nat), NEW dv \in SUBSET Nat,
           NEW dr \in SUBSET Nat, NEW n \in Nat, FlowOf(dl, rd, q, dv, dr, n)
    PROVE  Cardinality(dv) + Len(q) + Cardinality(rd) + Len(dl) + Cardinality(dr) = n
  <1>1. PICK D \in SUBSET Nat, Q \in SUBSET Nat : D = ToSet(dl) /\ Q = ToSet(q)
    BY AppendSet
  <1>2. Cardinality(D) = Len(dl) /\ Cardinality(Q) = Len(q)
    BY <1>1, RisingCard DEF FlowOf
  <1>3. dv \cup Q \cup rd \cup D \cup dr = 1..n
    BY <1>1 DEF FlowOf
  <1>4. IsFiniteSet(1..n) /\ Cardinality(1..n) = n
    BY FS_Interval
  <1>5. IsFiniteSet(dv) /\ IsFiniteSet(Q) /\ IsFiniteSet(rd) /\ IsFiniteSet(D) /\ IsFiniteSet(dr)
    <2>1. dv \subseteq 1..n /\ Q \subseteq 1..n /\ rd \subseteq 1..n /\ D \subseteq 1..n /\ dr \subseteq 1..n
      BY <1>3
    <2> QED
      BY <1>4, <2>1, FS_Subset
  <1>6. dv \cap Q = {}
    BY <1>1 DEF FlowOf, Below
  <1>7. (dv \cup Q) \cap rd = {}
    BY <1>1 DEF FlowOf, Below
  <1>8. (dv \cup Q \cup rd) \cap D = {}
    BY <1>1 DEF FlowOf, Below
  <1>9. (dv \cup Q \cup rd \cup D) \cap dr = {}
    <2>1. dr \cap (D \cup rd) = {}
      BY <1>1 DEF FlowOf
    <2>2. dr \cap (dv \cup Q) = {}
      BY <1>1 DEF FlowOf, Below
    <2> QED
      BY <2>1, <2>2
  <1>10. /\ IsFiniteSet(dv \cup Q) /\ Cardinality(dv \cup Q) = Cardinality(dv) + Cardinality(Q)
         /\ Cardinality(dv) \in Nat /\ Cardinality(Q) \in Nat
    BY <1>5, <1>6, DisjointCard
  <1>11. /\ IsFiniteSet(dv \cup Q \cup rd)
         /\ Cardinality(dv \cup Q \cup rd) = Cardinality(dv \cup Q) + Cardinality(rd) /\ Cardinality(rd) \in Nat
    BY <1>5, <1>7, <1>10, DisjointCard
  <1>12. /\ IsFiniteSet(dv \cup Q \cup rd \cup D)
         /\ Cardinality(dv \cup Q \cup rd \cup D) = Cardinality(dv \cup Q \cup rd) + Cardinality(D) /\ Cardinality(D) \in Nat
    BY <1>5, <1>8, <1>11, DisjointCard
  <1>13. Cardinality(1..n) = Cardinality(dv \cup Q \cup rd \cup D) + Cardinality(dr) /\ Cardinality(dr) \in Nat
    BY <1>3, <1>5, <1>9, <1>12, DisjointCard
  <1> QED
    BY <1>2, <1>4, <1>10, <1>11, <1>12, <1>13

\* A reader that holds a slot holds one byte.
LEMMA HeldCount ==
    ASSUME ReaderInv, NEW d \in ByteDevice PROVE Cardinality(InReaders(d)) = Taken(d)
  <1>1. \A t, u \in TakenBy(d) : t = u
    BY TakenOne DEF TakenBy
  <1>2. CASE TakenBy(d) = {}
    BY <1>2, TakenOne, HeldIs, FS_EmptySet
  <1>3. CASE TakenBy(d) # {}
    <2>1. PICK t : TakenBy(d) = {t}
      BY <1>1, <1>3
    <2>2. InReaders(d) = {reader[t].byte}
      BY <2>1, HeldIs
    <2>3. Cardinality(InReaders(d)) = 1 /\ Cardinality(TakenBy(d)) = 1
      BY <2>1, <2>2, FS_Singleton
    <2> QED
      BY <2>3, TakenOne
  <1> QED
    BY <1>2, <1>3

\* Every byte that arrived is in exactly one place, between device and reader.
THEOREM BytesAccounted == Spec => []Accounted
  <1>1. BytesInv => Accounted
    <2> SUFFICES ASSUME BytesInv, fault = "none", NEW d \in ByteDevice
                 PROVE  /\ AtDevice(d) \cup ToSet(queue[d]) \cup InReaders(d) \cup ToSet(delivered[d])
                             \cup dropped[d] = 1..arrived[d]
                        /\ Cardinality(AtDevice(d)) + Len(queue[d]) + Taken(d) + Len(delivered[d])
                             + Cardinality(dropped[d]) = arrived[d]
      BY DEF Accounted
    <2>1. Whole /\ Types /\ ReaderInv /\ Bytes
      BY ControlWhole, ByteInvIs DEF BytesInv, Whole
    <2>2. Flow(d)
      BY <2>1 DEF Bytes, ByteDevice
    <2>3. FlowOf(delivered[d], InReaders(d), queue[d], AtDevice(d), dropped[d], arrived[d])
      BY <2>2, FlowIs
    <2>4. Cardinality(AtDevice(d)) + Len(queue[d]) + Cardinality(InReaders(d)) + Len(delivered[d])
             + Cardinality(dropped[d]) = arrived[d]
      BY <2>1, <2>3, FlowTypes, FlowCount
    <2>5. Cardinality(InReaders(d)) = Taken(d)
      BY <2>1, HeldCount
    <2> QED
      BY <2>3, <2>4, <2>5 DEF FlowOf
  <1> QED
    BY <1>1, BytesCorrect, PTL

\* What a handler drops is older than all that the full buffer holds then.
LEMMA DispatchDrops ==
    ASSUME Calm, NEW v \in Used, DispatchBytes(v), NEW d \in ByteDevice, NEW x \in dropped'[d] \ dropped[d]
    PROVE  Below({x}, ToSet(queue'[d])) /\ Len(queue'[d]) + Taken(d) = Capacity
  <1>1. UNCHANGED <<machine, step, port, reader, arrived, delivered>>
    BY DEF DispatchBytes
  <1>2. Flow("keyboard") /\ Flow("serial") /\ Whole /\ "keyboard" \in ByteDevice /\ "serial" \in ByteDevice
    BY DEF Calm, Bytes, ByteDevice
  <1>3. CASE /\ ps2'.data = 0 /\ "keyboard" \in Opened
             /\ ps2.data # 0 /\ Receive("keyboard", ps2.data)
    <2>1. AtDevice("keyboard") = {ps2.data} /\ AtDevice("keyboard")' = {}
      BY <1>3 DEF AtDevice
    <2>2. Below({ps2.data}, {}) /\ {ps2.data} \ {ps2.data} = {}
      BY DEF Below
    <2> QED
      BY <1>1, <1>2, <1>3, <2>1, <2>2, ReceiveFlow DEF ByteDevice
  <1>4. CASE /\ uart' = [uart EXCEPT !.fifo = Tail(uart.fifo)] /\ "serial" \in Opened
             /\ uart.fifo # <<>> /\ Receive("serial", Head(uart.fifo))
    <2>1. PICK f \in Seq(Nat) : f = uart.fifo
      BY <1>2 DEF Whole, Types, DeviceType
    <2>2. uart'.fifo = Tail(f)
      BY <1>2, <1>4, <2>1 DEF Whole, Types, DeviceType
    <2>3. f # <<>> /\ Rising(f)
      BY <1>4, <2>1 DEF Calm, Bytes
    <2>4. PICK h \in Nat, T \in SUBSET Nat : h = Head(f) /\ T = ToSet(Tail(f))
      BY <2>3, TailSet, AppendSet
    <2>5. Below({h}, T)
      BY <2>3, <2>4, RisingTail
    <2>6. ToSet(f) = {h} \cup T /\ ({h} \cup T) \ {h} = T
      BY <2>3, <2>4, <2>5, TailSet DEF Below
    <2>7. AtDevice("serial") = {h} \cup T /\ AtDevice("serial")' = T
      BY <2>1, <2>2, <2>4, <2>6 DEF AtDevice
    <2>8. Receive("serial", h) /\ h \in AtDevice("serial") /\ Below({h}, AtDevice("serial") \ {h})
          /\ AtDevice("serial")' = AtDevice("serial") \ {h}
      BY <1>4, <2>1, <2>4, <2>5, <2>6, <2>7
    <2> QED
      BY <1>1, <1>2, <1>4, <2>8, ReceiveFlow DEF ByteDevice
  <1>5. CASE UNCHANGED <<queue, dropped>>
    BY <1>5
  <1> QED
    BY <1>3, <1>4, <1>5, DispatchBytesIs

\* Only the handlers of byte devices drop bytes.
LEMMA OnlyDispatchDrops ==
    ASSUME Next, fault = "none", \A v \in Used : ~DispatchBytes(v) PROVE dropped' = dropped
  BY DEF Next, BootStep, InitSerialPort, InitApic, EnableInterrupts, InitController, InitKeyboard,
         EnableUart, AssignLock, AssignPush, Allow, Tick, KeyPress, SerialByte, Nmi,
         Accept, Finish, DispatchTimer, Block, Read, ReadTake, ReadGive, ReadLock, Halted, history

\* The bytes that are younger than one that is older than all.
LEMMA RisingAbove ==
    ASSUME NEW s \in Seq(Nat), Rising(s), NEW x, Below({x}, ToSet(s))
    PROVE  Cardinality({c \in ToSet(s) : c > x}) = Len(s)
  <1>1. ToSet(s) \subseteq Nat
    BY AppendSet
  <1>2. {c \in ToSet(s) : c > x} = ToSet(s)
    BY <1>1 DEF Below
  <1> QED
    BY <1>2, RisingCard

\* What TypeOK says of the buffers,
LEMMA TypeBuffers == TypeOK => queue \in [ByteDevice -> Seq(Nat)] /\ dropped \in [ByteDevice -> SUBSET Nat]
  BY TypeParts DEF Types, BufferType

\* also after a step.
LEMMA TypeBuffersNext == (TypeOK => queue \in [ByteDevice -> Seq(Nat)] /\ dropped \in [ByteDevice -> SUBSET Nat])'
  BY TypeBuffers, PTL

\* A handler drops a byte only when the buffer is full, and then the oldest.
THEOREM OldestDropped == Spec => DropsOldest
  <1> DEFINE A == \A d \in ByteDevice : \A b \in dropped'[d] \ dropped[d] :
                     fault' = "none" => Cardinality({c \in ToSet(queue'[d]) : c > b}) + Taken(d) = Capacity
  <1>1. BytesInv /\ [Next]_vars => [A]_vars
    <2> SUFFICES ASSUME BytesInv, Next, fault' = "none", NEW d \in ByteDevice, NEW b \in dropped'[d] \ dropped[d]
                 PROVE  Cardinality({c \in ToSet(queue'[d]) : c > b}) + Taken(d) = Capacity
      OBVIOUS
    <2>1. fault = "none"
      BY FaultHalts DEF vars
    <2>2. Calm
      BY <2>1, ControlWhole, ByteInvIs DEF BytesInv, Calm
    <2>3. PICK v \in Used : DispatchBytes(v)
      BY <2>1, OnlyDispatchDrops
    <2>4. Below({b}, ToSet(queue'[d])) /\ Len(queue'[d]) + Taken(d) = Capacity
      BY <2>2, <2>3, DispatchDrops
    <2>5. BytesInv'
      BY BytesStep
    <2>6. queue'[d] \in Seq(Nat)
      BY <2>5, TypeBuffersNext DEF BytesInv, ControlInv
    <2>7. Rising(queue'[d])
      BY <2>5, ByteInvNext DEF BytesInv, Bytes, Flow, ByteDevice
    <2> QED
      BY <2>4, <2>6, <2>7, RisingAbove
  <1> QED
    BY <1>1, BytesCorrect, PTL DEF Spec, DropsOldest
=============================================================================
