--------------------------- MODULE MCAddressSpace ---------------------------
(* Instances of AddressSpace for TLC: three levels of six entries. *)
EXTENDS AddressSpace

\* Part of a level's table, one page more than all of it, and two full ones; what
\* the kernel must have, one frame more, and room for user address spaces.
MCMemories ==
    UNION {{[phys_limit |-> l, kernel_phys_limit |-> k] :
              k \in {PageTables(l) + 1, PageTables(l) + 2, 28} \cap 0..l} :
           l \in {8, 30, 37}}
    \cup {[phys_limit |-> 72, kernel_phys_limit |-> PageTables(72) + 1]}

\* Zeros, the frame_count of the free list, the address of the kernel's root table,
\* and anything.
MCLeftovers == {Unused, [addr |-> 0, flags |-> "present"], [addr |-> 1, flags |-> "present"],
                [addr |-> 500, flags |-> "present"]}

\* In a hole of memory, next to its end, over the border of a table.
MCDevices == {[start |-> 8, end |-> 9], [start |-> 33, end |-> 37]}
=============================================================================
