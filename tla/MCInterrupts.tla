---------------------------- MODULE MCInterrupts ----------------------------
(* Instances of Interrupts for TLC. *)
EXTENDS Interrupts

Override(from, to) == [isa |-> from, gsi |-> to]

\* The timer's override, as on most machines, and an NMI on an unused input; two
\* overrides that cross; ports of either interrupt; an NMI on the keyboard's input.
MCMachines == {
    [overrides |-> <<Override(0, 2)>>, nmis |-> {5}, ports |-> {"Com2", "Com3"}],
    [overrides |-> <<Override(0, 1), Override(1, 0)>>, nmis |-> {}, ports |-> {}],
    [overrides |-> <<>>, nmis |-> {1}, ports |-> {"Com3"}]}

MCReaders == [d \in ByteDevice |-> IF d = "keyboard" THEN {1, 2} ELSE {2}]
MCMaxBytes == [d \in ByteDevice |-> IF d = "keyboard" THEN 3 ELSE 2]
=============================================================================
