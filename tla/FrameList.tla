----------------------------- MODULE FrameList -----------------------------
(***************************************************************************)
(* The free list of memory/physical.rs, PageFrameListAllocator, as         *)
(* operators on sequences of blocks.  A block is a range of page frames    *)
(* from start up to, but not including, end; the code keeps it as a node   *)
(* with a frame_count, written into the first frame of the range.          *)
(***************************************************************************)
EXTENDS Integers, Sequences

\* PhysFrameRange::count and the frames it counts.
Count(r)  == IF r.start < r.end THEN r.end - r.start ELSE 0
Frames(r) == r.start..(r.end - 1)

\* The node that represents the range r.
Node(r) == [start |-> r.start, end |-> r.start + Count(r)]

\* The least of a set of indices, as a set of at most one.
First(D) == {i \in D : \A j \in D : i <= j}

\* The list without the block at i, with b put before the block at i, cut after i.
Without(list, i)   == SubSeq(list, 1, i - 1) \o SubSeq(list, i + 1, Len(list))
Before(list, i, b) == SubSeq(list, 1, i - 1) \o <<b>> \o SubSeq(list, i, Len(list))
UpTo(list, i)      == SubSeq(list, 1, i)

\* insert: before the first block that starts above r, else at the end.
Insert(list, r) ==
    LET at == First({i \in DOMAIN list : list[i].start > r.start})
    IN  IF at = {} THEN Append(list, Node(r))
                   ELSE Before(list, CHOOSE i \in at : TRUE, Node(r))

\* Mutant: a block must be larger than the request.
FindLargerBlock(list, n) == First({i \in DOMAIN list : Count(list[i]) > n})

\* find_free_block: first fit.
FindFreeBlock(list, n) == First({i \in DOMAIN list : Count(list[i]) >= n})

\* The frames alloc_block hands out of the block at i, and the list it leaves.
Taken(list, i, n) == [start |-> list[i].start, end |-> list[i].start + n]

Rest(list, i, n) ==
    LET remaining == [start |-> list[i].start + n, end |-> list[i].end] IN
    IF Count(remaining) > 0 THEN Insert(Without(list, i), remaining)
                            ELSE Without(list, i)

(* free_block.  The search stops at the first block that r touches or that   *)
(* ends above r.  A block extended from the top is written anew, without the *)
(* link to its successor.  For a block extended from the bottom the fused    *)
(* node is written to the start of r, but its predecessor still links to the *)
(* old node, which has lost its successor.  (When r is empty and starts with *)
(* the block the two nodes are one.)                                         *)
FreeBlock(list, r) ==
    LET at == First({i \in DOMAIN list : r.end = list[i].start \/ list[i].end >= r.start})
        i  == CHOOSE j \in at : TRUE
        b  == list[i]
    IN  IF at = {} THEN Insert(list, r)
        ELSE IF r.end = b.start THEN (IF r.start = b.start THEN list ELSE UpTo(list, i))
        ELSE IF b.end = r.start
             THEN Append(UpTo(list, i - 1), [start |-> b.start, end |-> b.end + Count(r)])
        ELSE Insert(list, r)
=============================================================================
