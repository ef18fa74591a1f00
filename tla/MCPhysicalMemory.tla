-------------------------- MODULE MCPhysicalMemory --------------------------
(* Instances of PhysicalMemory for TLC: 17 frames of 2 units each. *)
EXTENDS PhysicalMemory

Image == [start |-> 3, end |-> 5]
Sizes == {1, 2}

\* Areas between these addresses, aligned to frames and not.  Three of them make
\* a map; the one in the middle may be reserved by the firmware.
Bounds   == {0, 2, 5, 9, 12, 14, 20, 24, 34}
Areas(B) == {a \in [start : Bounds, end : Bounds, usable : B] :
               UpFrame(a.start) < a.end \div PageUnits}
Maps == UNION {
          {{low, mid, high} : low \in {a \in Areas({TRUE}) : a.end <= mid.start},
                              high \in {a \in Areas({TRUE}) : a.start >= mid.end}} :
          mid \in Areas(BOOLEAN)}
=============================================================================
