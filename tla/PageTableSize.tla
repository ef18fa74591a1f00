--------------------------- MODULE PageTableSize ---------------------------
(* How much memory calc_page_table_memory() expects the page tables to need. *)
EXTENDS Naturals, FiniteSetsExt

CONSTANTS
    Entries,      \* entries of a page table (512)
    Levels        \* levels of page tables (4)

ASSUME PageTableAssumption == Entries \in Nat \ {0, 1} /\ Levels \in Nat \ {0}

\* The next multiple of to.
AlignUp(n, to) == ((n + to - 1) \div to) * to

\* Mutant: a level that has less than one table's worth of entries needs none.
NoMinimum(limit) ==
    LET size[level \in 0..(Levels - 1)] ==
          IF level = 0 THEN AlignUp(limit, Entries) \div Entries
          ELSE size[level - 1] \div Entries
        total[level \in 0..(Levels - 1)] ==
          IF level = 0 THEN size[0] ELSE total[level - 1] + size[level]
    IN  total[Levels - 1]

\* calc_page_table_memory, in frames: one page table per Entries frames, one
\* table of the next level per Entries tables, at least one on every level.
PageTables(limit) ==
    LET size[level \in 0..(Levels - 1)] ==
          IF level = 0 THEN AlignUp(limit, Entries) \div Entries
          ELSE Max({1, size[level - 1] \div Entries})
        total[level \in 0..(Levels - 1)] ==
          IF level = 0 THEN size[0] ELSE total[level - 1] + size[level]
    IN  total[Levels - 1]
=============================================================================
