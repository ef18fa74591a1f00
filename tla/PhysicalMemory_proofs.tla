----------------------- MODULE PhysicalMemory_proofs -----------------------
(***************************************************************************)
(* How boot finds the memory and how init() and alloc() divide it lose no  *)
(* frame and give none away twice, for every memory map: the invariant     *)
(* MemoryInv, and with it the refinement of FrameStore.                    *)
(*                                                                         *)
(* Regions stay clear of each other and hold what is available and what is *)
(* still to be cut.  init() files them from below, so each block is put at *)
(* the end of its list or fused with the last one, and lists stay sorted   *)
(* with gaps between the blocks.  Therefore a run of free frames is always *)
(* in one block, which first fit finds.                                    *)
(***************************************************************************)
EXTENDS PhysicalMemory, FiniteSetTheorems, WellFoundedInduction, TLAPS

-----------------------------------------------------------------------------
(* Numbers. *)

\* A set of numbers that is not empty has a least element.
LEMMA LeastExists ==
    ASSUME NEW D \in SUBSET Nat, D # {}
    PROVE  \E i \in D : \A j \in D : i <= j
<1> DEFINE R == {ss \in Nat \X Nat : ss[1] < ss[2]}
<1>1. IsWellFoundedOn(R, Nat)
  BY NatLessThanWellFounded DEF OpToRel
<1>2. \A x, y \in Nat : y < x => <<y, x>> \in R
  OBVIOUS
<1> HIDE DEF R
<1>3. PICK x \in D : \A y \in D : ~(<<y, x>> \in R)
  BY <1>1, WFMin
<1>4. ASSUME NEW y \in D
      PROVE  x <= y
  <2>1. x \in Nat /\ y \in Nat
    OBVIOUS
  <2>2. ~(y < x)
    BY <1>2, <1>3, <2>1
  <2> QED BY <2>1, <2>2
<1> QED BY <1>4

\* First, the search through a list from its head, finds something if
\* there is something to find, ...
LEMMA FirstExists ==
    ASSUME NEW D \in SUBSET Nat, D # {}
    PROVE  First(D) # {}
BY LeastExists DEF First

\* ... and what it finds is the least index.
LEMMA FirstIsLeast ==
    ASSUME NEW D \in SUBSET Nat, NEW k \in D, \A j \in D : k <= j
    PROVE  First(D) = {k}
<1>1. k \in First(D)
  BY DEF First
<1>2. ASSUME NEW i \in First(D)
      PROVE  i = k
  <2>1. i \in D /\ i <= k /\ k <= i
    BY DEF First
  <2> QED BY <2>1
<1> QED BY <1>1, <1>2

\* align_up: a frame is at or above the aligned address iff it starts at
\* or above the address.
LEMMA UpFrameLaw ==
    ASSUME NEW n \in Nat, NEW f \in Nat
    PROVE  /\ UpFrame(n) \in Nat
           /\ UpFrame(n) <= f <=> n <= f * PageUnits
<1> DEFINE p == PageUnits
           k == (n + p - 1) \div p
<1>0. p \in Nat \ {0}
  BY MemoryAssumption
<1> HIDE DEF p
<1>1. k \in Nat /\ k * p <= n + p - 1 /\ n + p - 1 < k * p + p
  BY <1>0, Z3T(30)
<1>2. (k * p) \div p = k
  BY <1>0, <1>1, Z3T(30)
<1>3. UpFrame(n) = k
  BY <1>2 DEF UpFrame, AlignUp, p
<1> HIDE DEF k
<1>4. CASE k <= f
  <2>1. k * p <= f * p
    BY <1>0, <1>1, <1>4, Z3T(30)
  <2>2. f * p \in Nat /\ k * p \in Nat
    BY <1>0, <1>1, Z3T(30)
  <2>3. n <= f * p
    BY <1>0, <1>1, <2>1, <2>2
  <2> QED BY <1>1, <1>3, <1>4, <2>3 DEF p
<1>5. CASE f < k
  <2>1. f * p + p <= k * p
    BY <1>0, <1>1, <1>5, Z3T(30)
  <2>2. f * p \in Nat /\ k * p \in Nat
    BY <1>0, <1>1, Z3T(30)
  <2>3. ~(n <= f * p)
    BY <1>0, <1>1, <2>1, <2>2
  <2> QED BY <1>1, <1>3, <1>5, <2>3 DEF p
<1> QED BY <1>1, <1>4, <1>5

\* Rounding down: a frame is below iff it ends at or below the address.
LEMMA DownFrameLaw ==
    ASSUME NEW n \in Nat, NEW f \in Nat
    PROVE  /\ n \div PageUnits \in Nat
           /\ f < n \div PageUnits <=> (f + 1) * PageUnits <= n
<1> DEFINE p == PageUnits
           k == n \div p
<1>0. p \in Nat \ {0}
  BY MemoryAssumption
<1> HIDE DEF p
<1>1. k \in Nat /\ k * p <= n /\ n < k * p + p
  BY <1>0, Z3T(30)
<1> HIDE DEF k
<1>2. f * p \in Nat /\ k * p \in Nat /\ (f + 1) * p = f * p + p
  BY <1>0, <1>1, Z3T(30)
<1>4. CASE f < k
  <2>1. f * p + p <= k * p
    BY <1>0, <1>1, <1>4, Z3T(30)
  <2>3. (f + 1) * p <= n
    BY <1>0, <1>1, <1>2, <2>1
  <2> QED BY <1>1, <1>4, <2>3 DEF p, k
<1>5. CASE k <= f
  <2>1. k * p <= f * p
    BY <1>0, <1>1, <1>5, Z3T(30)
  <2>3. ~((f + 1) * p <= n)
    BY <1>0, <1>1, <1>2, <2>1
  <2> QED BY <1>1, <1>5, <2>3 DEF p, k
<1> QED BY <1>1, <1>4, <1>5 DEF p, k

\* The whole pages of an area are those between its aligned ends.
LEMMA WholePagesLaw ==
    ASSUME NEW a, a.start \in Nat, a.end \in Nat
    PROVE  WholePages(a) = UpFrame(a.start)..(a.end \div PageUnits - 1)
<1>1. ASSUME NEW f
      PROVE  f \in WholePages(a) <=> f \in UpFrame(a.start)..(a.end \div PageUnits - 1)
  <2>0. UpFrame(a.start) \in Nat /\ a.end \div PageUnits \in Nat
    BY UpFrameLaw, DownFrameLaw
  <2>1. CASE f \notin Nat
    BY <2>0, <2>1 DEF WholePages
  <2>2. CASE f \in Nat
    <3>1. UpFrame(a.start) <= f <=> a.start <= f * PageUnits
      BY <2>2, UpFrameLaw
    <3>2. f < a.end \div PageUnits <=> (f + 1) * PageUnits <= a.end
      BY <2>2, DownFrameLaw
    <3> QED BY <2>0, <2>2, <3>1, <3>2 DEF WholePages
  <2> QED BY <2>1, <2>2
<1> QED BY <1>1

-----------------------------------------------------------------------------
(* Sequences. *)

\* Length and elements of a concatenation, ...
LEMMA ConcatLaw ==
    ASSUME NEW S, NEW a \in Seq(S), NEW b \in Seq(S)
    PROVE  /\ a \o b \in Seq(S)
           /\ Len(a \o b) = Len(a) + Len(b)
           /\ \A k \in 1..(Len(a) + Len(b)) :
                (a \o b)[k] = IF k <= Len(a) THEN a[k] ELSE b[k - Len(a)]
OBVIOUS

\* ... of an extended sequence, ...
LEMMA AppendLaw ==
    ASSUME NEW S, NEW a \in Seq(S), NEW e \in S
    PROVE  /\ Append(a, e) \in Seq(S)
           /\ Len(Append(a, e)) = Len(a) + 1
           /\ Append(a, e)[Len(a) + 1] = e
           /\ \A k \in 1..Len(a) : Append(a, e)[k] = a[k]
OBVIOUS

\* ... of a list from which a node is taken, ...
LEMMA WithoutLaw ==
    ASSUME NEW S, NEW list \in Seq(S), NEW i \in 1..Len(list)
    PROVE  /\ Without(list, i) \in Seq(S)
           /\ Len(Without(list, i)) = Len(list) - 1
           /\ \A k \in 1..(Len(list) - 1) :
                Without(list, i)[k] = IF k < i THEN list[k] ELSE list[k + 1]
<1> DEFINE a == SubSeq(list, 1, i - 1)
           b == SubSeq(list, i + 1, Len(list))
<1>0. Len(list) \in Nat /\ i \in Nat
  OBVIOUS
<1>1. a \in Seq(S) /\ Len(a) = i - 1 /\ \A k \in 1..(i - 1) : a[k] = list[k]
  OBVIOUS
<1>2. b \in Seq(S) /\ Len(b) = Len(list) - i /\ \A k \in 1..(Len(list) - i) : b[k] = list[k + i]
  <2>1. b \in Seq(S) /\ Len(b) = Len(list) - i
    BY <1>0
  <2>2. ASSUME NEW k \in 1..(Len(list) - i)
        PROVE  b[k] = list[k + i]
    <3>1. b[k] = list[(i + 1) + k - 1]
      BY <1>0
    <3>2. (i + 1) + k - 1 = k + i
      BY <1>0
    <3> QED BY <3>1, <3>2
  <2> QED BY <2>1, <2>2
<1>3. Without(list, i) = a \o b
  BY DEF Without
<1> HIDE DEF a, b
<1>4. Without(list, i) \in Seq(S) /\ Len(Without(list, i)) = Len(list) - 1
  <2>1. a \o b \in Seq(S) /\ Len(a \o b) = Len(a) + Len(b)
    BY <1>1, <1>2, ConcatLaw
  <2> QED BY <1>0, <1>1, <1>2, <1>3, <2>1
<1>5. ASSUME NEW k \in 1..(Len(list) - 1)
      PROVE  Without(list, i)[k] = IF k < i THEN list[k] ELSE list[k + 1]
  <2>1. CASE k < i
    BY <1>0, <1>1, <1>2, <1>3, <2>1
  <2>2. CASE ~(k < i)
    <3>1. (a \o b)[k] = b[k - (i - 1)]
      BY <1>0, <1>1, <1>2, <2>2
    <3>2. k - (i - 1) \in 1..(Len(list) - i) /\ (k - (i - 1)) + i = k + 1
      BY <1>0, <2>2
    <3>3. b[k - (i - 1)] = list[k + 1]
      BY <1>2, <3>2
    <3> QED BY <1>3, <2>2, <3>1, <3>3
  <2> QED BY <2>1, <2>2
<1> QED BY <1>4, <1>5

\* ... and of a list into which one is linked.
LEMMA BeforeLaw ==
    ASSUME NEW S, NEW list \in Seq(S), NEW i \in 1..Len(list), NEW e \in S
    PROVE  /\ Before(list, i, e) \in Seq(S)
           /\ Len(Before(list, i, e)) = Len(list) + 1
           /\ \A k \in 1..(Len(list) + 1) :
                Before(list, i, e)[k] = IF k < i THEN list[k] ELSE IF k = i THEN e ELSE list[k - 1]
<1> DEFINE a == SubSeq(list, 1, i - 1)
           m == a \o <<e>>
           b == SubSeq(list, i, Len(list))
<1>0. Len(list) \in Nat /\ i \in Nat
  OBVIOUS
<1>1. a \in Seq(S) /\ Len(a) = i - 1 /\ \A k \in 1..(i - 1) : a[k] = list[k]
  OBVIOUS
<1>2. b \in Seq(S) /\ Len(b) = Len(list) - i + 1
        /\ \A k \in 1..(Len(list) - i + 1) : b[k] = list[k + i - 1]
  OBVIOUS
<1>3. Before(list, i, e) = m \o b
  BY DEF Before
<1> HIDE DEF a, b
<1>4. m \in Seq(S) /\ Len(m) = i /\ (\A k \in 1..(i - 1) : m[k] = list[k]) /\ m[i] = e
  BY <1>0, <1>1
<1> HIDE DEF m
<1>5. Before(list, i, e) \in Seq(S) /\ Len(Before(list, i, e)) = Len(list) + 1
  BY <1>0, <1>2, <1>3, <1>4
<1>6. ASSUME NEW k \in 1..(Len(list) + 1)
      PROVE  Before(list, i, e)[k] = IF k < i THEN list[k] ELSE IF k = i THEN e ELSE list[k - 1]
  <2>1. CASE k <= i
    <3>1. (m \o b)[k] = m[k]
      BY <1>0, <1>2, <1>4, <2>1
    <3> QED BY <1>0, <1>3, <1>4, <2>1, <3>1
  <2>2. CASE ~(k <= i)
    <3>1. (m \o b)[k] = b[k - i]
      BY <1>0, <1>2, <1>4, <2>2
    <3>2. k - i \in 1..(Len(list) - i + 1) /\ (k - i) + i - 1 = k - 1
      BY <1>0, <2>2
    <3>3. b[k - i] = list[k - 1]
      BY <1>2, <3>2
    <3> QED BY <1>0, <1>3, <2>2, <3>1, <3>3
  <2> QED BY <1>0, <2>1, <2>2
<1> QED BY <1>5, <1>6

\* Sequences of the same length with the same elements are the same.
LEMMA SameSeq ==
    ASSUME NEW S, NEW a \in Seq(S), NEW b \in Seq(S), NEW n \in Nat, Len(a) = n, Len(b) = n,
           \A k \in 1..n : a[k] = b[k]
    PROVE  a = b
OBVIOUS

-----------------------------------------------------------------------------
(* The free list. *)

\* A node that is written into a free range has that range again.
LEMMA NodeLaw ==
    ASSUME NEW r \in Span, r.start <= r.end
    PROVE  Node(r) = r /\ Count(r) = r.end - r.start
<1>1. r.start \in Nat /\ r.end \in Nat
  BY DEF Span
<1>2. Count(r) = r.end - r.start
  BY <1>1 DEF Count
<1>3. r.start + (r.end - r.start) = r.end
  BY <1>1
<1>4. r = [start |-> r.start, end |-> r.end]
  BY DEF Span
<1> QED BY <1>2, <1>3, <1>4 DEF Node

\* insert() of a block above all others puts it at the end.
LEMMA InsertLast ==
    ASSUME NEW list \in Seq(Span), NEW r \in Span, r.start <= r.end,
           \A i \in 1..Len(list) : list[i].start <= r.start
    PROVE  Insert(list, r) = Append(list, r)
<1> DEFINE D == {i \in DOMAIN list : list[i].start > r.start}
<1>1. ASSUME NEW i \in DOMAIN list
      PROVE  ~(list[i].start > r.start)
  <2>1. i \in 1..Len(list) /\ list[i] \in Span
    OBVIOUS
  <2>2. list[i].start \in Nat /\ r.start \in Nat /\ list[i].start <= r.start
    BY <2>1 DEF Span
  <2> QED BY <2>2
<1>2. D = {}
  BY <1>1
<1>3. First(D) = {}
  BY <1>2 DEF First
<1>4. Node(r) = r
  BY NodeLaw
<1> HIDE DEF D
<1> QED BY <1>3, <1>4 DEF Insert, D

\* insert() of any other puts it before the first block above it.
LEMMA InsertBefore ==
    ASSUME NEW list \in Seq(Span), NEW r \in Span, r.start <= r.end,
           NEW k \in 1..Len(list), list[k].start > r.start,
           \A i \in 1..(k - 1) : list[i].start <= r.start
    PROVE  Insert(list, r) = Before(list, k, r)
<1> DEFINE D == {i \in DOMAIN list : list[i].start > r.start}
<1>0. DOMAIN list = 1..Len(list) /\ Len(list) \in Nat
  OBVIOUS
<1>1. k \in D
  BY <1>0
<1>2. ASSUME NEW j \in D
      PROVE  k <= j
  <2>0. j \in 1..Len(list) /\ list[j].start > r.start /\ list[j] \in Span
    BY <1>0
  <2>1. j \in 1..Len(list) /\ list[j].start > r.start /\ list[j].start \in Nat /\ r.start \in Nat
    BY <2>0 DEF Span
  <2>2. j \notin 1..(k - 1)
    BY <2>1
  <2> QED BY <1>0, <2>1, <2>2
<1>3. D \in SUBSET Nat
  BY <1>0
<1> HIDE DEF D
<1>4. First(D) = {k}
  BY <1>1, <1>2, <1>3, FirstIsLeast
<1>5. Node(r) = r
  BY NodeLaw
<1> QED BY <1>4, <1>5 DEF Insert, D

\* first fit in a sorted list: the block at i loses its first n frames.
LEMMA RestLaw ==
    ASSUME NEW list \in Seq(Span), Separated(list), NEW i \in 1..Len(list),
           NEW n \in Nat \ {0}, Count(list[i]) >= n
    PROVE  \/ /\ list[i].start + n < list[i].end
              /\ Rest(list, i, n) =
                   [list EXCEPT ![i] = [start |-> list[i].start + n, end |-> list[i].end]]
           \/ /\ list[i].start + n = list[i].end
              /\ Rest(list, i, n) = Without(list, i)
<1> DEFINE rem  == [start |-> list[i].start + n, end |-> list[i].end]
           rest == Without(list, i)
<1>0. /\ DOMAIN list = 1..Len(list) /\ Len(list) \in Nat /\ i \in Nat
      /\ \A k \in 1..Len(list) : list[k].start \in Nat /\ list[k].end \in Nat
  <2>1. \A k \in 1..Len(list) : list[k] \in Span
    OBVIOUS
  <2> QED BY <2>1 DEF Span
<1>1. list[i].start + n <= list[i].end
  BY <1>0 DEF Count, Separated
<1>2. rem \in Span
  BY <1>0 DEF Span
<1>3. /\ rest \in Seq(Span)
      /\ Len(rest) = Len(list) - 1
      /\ \A k \in 1..(Len(list) - 1) : rest[k] = IF k < i THEN list[k] ELSE list[k + 1]
  BY WithoutLaw
<1>6. rest \in Seq(Span)
  BY <1>3
<1> HIDE DEF rest
<1>4. CASE list[i].start + n = list[i].end
  <2>1. Count(rem) = 0
    BY <1>0, <1>4 DEF Count
  <2>2. ~(Count(rem) > 0)
    BY <2>1
  <2>3. Rest(list, i, n) = Without(list, i)
    BY <2>2 DEF Rest
  <2> QED BY <1>4, <2>3
<1>5. CASE list[i].start + n < list[i].end
  <2>1. rem.start <= rem.end /\ rem.start = list[i].start + n
    BY <1>0, <1>5
  <2>2. Count(rem) > 0
    BY <1>0, <1>5 DEF Count
  <2>3. Rest(list, i, n) = Insert(rest, rem)
    BY <2>2 DEF Rest, rest
  <2> HIDE DEF rem
  <2>4. ASSUME NEW k \in 1..(i - 1)
        PROVE  rest[k] = list[k] /\ k \in 1..Len(list) /\ k < i
    <3>1. k \in 1..(Len(list) - 1) /\ k \in 1..Len(list) /\ k < i
      BY <1>0
    <3> QED BY <1>3, <3>1
  <2>5. ASSUME NEW k \in 1..(i - 1)
        PROVE  rest[k].start <= rem.start
    <3>1. rest[k] = list[k] /\ k \in 1..Len(list) /\ k < i
      BY <2>4
    <3>2. list[k].start <= list[k].end /\ list[k].end < list[i].start
      BY <1>0, <3>1 DEF Separated
    <3>3. list[k].start \in Nat /\ list[k].end \in Nat /\ list[i].start \in Nat
      BY <1>0, <3>1
    <3>4. list[k].start <= list[i].start + n
      BY <3>2, <3>3
    <3> QED BY <2>1, <3>1, <3>4
  <2> DEFINE new == [list EXCEPT ![i] = rem]
  <2>6. new \in Seq(Span) /\ Len(new) = Len(list) /\ new[i] = rem
          /\ \A k \in 1..Len(list) : k # i => new[k] = list[k]
    BY <1>2
  <2> HIDE DEF new
  <2>7. CASE i = Len(list)
    <3>1. Len(rest) = i - 1
      BY <1>3, <2>7
    <3>2. Insert(rest, rem) = Append(rest, rem)
      BY <1>2, <1>6, <2>1, <2>5, <3>1, InsertLast
    <3>3. /\ Append(rest, rem) \in Seq(Span)
          /\ Len(Append(rest, rem)) = Len(rest) + 1
          /\ Append(rest, rem)[Len(rest) + 1] = rem
          /\ \A k \in 1..Len(rest) : Append(rest, rem)[k] = rest[k]
      BY <1>2, <1>6, AppendLaw
    <3>6. Len(rest) + 1 = Len(list) /\ Len(rest) + 1 = i
      BY <1>0, <2>7, <3>1
    <3>4. ASSUME NEW k \in 1..Len(list)
          PROVE  Append(rest, rem)[k] = new[k]
      <4>1. CASE k = i
        BY <2>6, <3>3, <3>6, <4>1
      <4>2. CASE k # i
        <5>1. k \in 1..(i - 1)
          <6>1. k \in 1..i /\ i \in Nat
            BY <1>0, <2>7
          <6> QED BY <4>2, <6>1
        <5>2. Append(rest, rem)[k] = rest[k] /\ rest[k] = list[k]
          BY <2>4, <3>1, <3>3, <5>1
        <5> QED BY <2>6, <4>2, <5>2
      <4> QED BY <4>1, <4>2
    <3>5. Append(rest, rem) = new
      <4>1. Append(rest, rem) \in Seq(Span) /\ new \in Seq(Span)
        BY <2>6, <3>3
      <4>2. Len(Append(rest, rem)) = Len(list) /\ Len(new) = Len(list)
        BY <2>6, <3>3, <3>6
      <4> DEFINE app == Append(rest, rem)
      <4>3. app \in Seq(Span) /\ Len(app) = Len(list) /\ \A k \in 1..Len(list) : app[k] = new[k]
        BY <3>4, <4>1, <4>2
      <4> HIDE DEF app
      <4>4. app = new
        BY <1>0, <4>1, <4>2, <4>3, SameSeq
      <4> QED BY <4>4 DEF app
    <3> QED BY <1>5, <2>3, <3>2, <3>5 DEF new, rem
  <2>8. CASE i < Len(list)
    <3>1. i \in 1..Len(rest) /\ rest[i] = list[i + 1]
      BY <1>0, <1>3, <2>8
    <3>2. i + 1 \in 1..Len(list) /\ i < i + 1
      BY <1>0, <2>8
    <3>3. list[i].end < list[i + 1].start
      BY <1>0, <3>2 DEF Separated
    <3>4. list[i + 1].start \in Nat
      BY <1>0, <3>2
    <3>5. rest[i].start > rem.start
      BY <1>0, <1>5, <2>1, <3>1, <3>3, <3>4
    <3>6. Insert(rest, rem) = Before(rest, i, rem)
      BY <1>2, <1>6, <2>1, <2>5, <3>1, <3>5, InsertBefore
    <3>7. /\ Before(rest, i, rem) \in Seq(Span)
          /\ Len(Before(rest, i, rem)) = Len(rest) + 1
          /\ \A k \in 1..(Len(rest) + 1) :
               Before(rest, i, rem)[k] = IF k < i THEN rest[k] ELSE IF k = i THEN rem ELSE rest[k - 1]
      BY <1>2, <1>6, <3>1, BeforeLaw
    <3>8. Len(Before(rest, i, rem)) = Len(list)
      BY <1>0, <1>3, <3>7
    <3>9. ASSUME NEW k \in 1..Len(list)
          PROVE  Before(rest, i, rem)[k] = new[k]
      <4>0. k \in 1..(Len(rest) + 1)
        BY <1>0, <1>3
      <4>1. CASE k < i
        BY <1>0, <2>4, <2>6, <3>7, <4>0, <4>1
      <4>2. CASE k = i
        BY <1>0, <2>6, <3>7, <4>0, <4>2
      <4>3. CASE k > i
        <5>1. k - 1 \in 1..(Len(list) - 1) /\ ~(k - 1 < i) /\ (k - 1) + 1 = k
          BY <1>0, <4>3
        <5>2. rest[k - 1] = list[k]
          BY <1>3, <5>1
        <5> QED BY <1>0, <2>6, <3>7, <4>0, <4>3, <5>2
      <4> QED BY <1>0, <4>1, <4>2, <4>3
    <3>10. Before(rest, i, rem) = new
      BY <1>0, <2>6, <3>7, <3>8, <3>9, SameSeq
    <3> QED BY <1>5, <2>3, <3>6, <3>10 DEF new, rem
  <2> QED BY <1>0, <2>7, <2>8
<1> QED BY <1>0, <1>1, <1>4, <1>5

\* free_block of a range above all blocks: the last block grows or a block is added.
LEMMA FileLaw ==
    ASSUME NEW list \in Seq(Span), Separated(list), NEW r \in Span, r.start <= r.end,
           r.start < r.end \/ list = <<>>,
           \A i \in 1..Len(list) : list[i].end <= r.start
    PROVE  \/ /\ \A i \in 1..Len(list) : list[i].end < r.start
              /\ FreeBlock(list, r) = Append(list, r)
           \/ /\ Len(list) \in 1..Len(list)
              /\ list[Len(list)].end = r.start
              /\ FreeBlock(list, r) =
                   [list EXCEPT ![Len(list)] = [start |-> list[Len(list)].start, end |-> r.end]]
<1> DEFINE D == {i \in DOMAIN list : r.end = list[i].start \/ list[i].end >= r.start}
           m == Len(list)
<1>0. /\ DOMAIN list = 1..Len(list) /\ Len(list) \in Nat /\ r.start \in Nat /\ r.end \in Nat
      /\ \A k \in 1..Len(list) : list[k].start \in Nat /\ list[k].end \in Nat
  <2>1. \A k \in 1..Len(list) : list[k] \in Span
    OBVIOUS
  <2> QED BY <2>1 DEF Span
<1>1. \A i \in 1..Len(list) : list[i].start <= list[i].end
  BY <1>0 DEF Separated
<1>2. \A i \in 1..Len(list) : r.end # list[i].start
  BY <1>0, <1>1
<1>3. D = {i \in 1..Len(list) : list[i].end = r.start}
  BY <1>0, <1>2
<1> HIDE DEF D
<1>4. CASE D = {}
  <2>1. First(D) = {}
    BY <1>4 DEF First
  <2>2. FreeBlock(list, r) = Insert(list, r)
    BY <2>1 DEF FreeBlock, D
  <2>3. \A i \in 1..Len(list) : list[i].end < r.start
    BY <1>0, <1>3, <1>4
  <2>4. \A i \in 1..Len(list) : list[i].start <= r.start
    BY <1>0, <1>1, <2>3
  <2>5. Insert(list, r) = Append(list, r)
    BY <2>4, InsertLast
  <2> QED BY <2>2, <2>3, <2>5
<1>5. CASE D # {}
  <2>1. PICK k \in D : TRUE
    BY <1>5
  <2>2. k \in 1..Len(list) /\ list[k].end = r.start
    BY <1>3
  <2>3. ASSUME NEW j \in D
        PROVE  j = m
    <3>1. j \in 1..Len(list) /\ list[j].end = r.start /\ m \in 1..Len(list)
      BY <1>0, <1>3
    <3>3. list[m].start \in Nat /\ list[m].end \in Nat /\ m \in Nat /\ j \in Nat /\ j <= m
      BY <1>0, <3>1
    <3>2. CASE j < m
      <4>1. list[j].end < list[m].start
        BY <1>0, <3>1, <3>2 DEF Separated
      <4>2. list[m].start <= list[m].end /\ list[m].end <= r.start
        BY <1>1, <3>1
      <4>3. r.start \in Nat /\ list[j].end = r.start
        BY <1>0, <3>1
      <4>4. FALSE
        BY <3>3, <4>1, <4>2, <4>3
      <4> QED BY <4>4
    <3> HIDE DEF m
    <3> QED BY <3>2, <3>3
  <2>4. D = {m} /\ m \in 1..Len(list) /\ list[m].end = r.start
    BY <2>1, <2>2, <2>3
  <2>5. First(D) = {m}
    BY <1>0, <2>4, FirstIsLeast
  <2>6. (CHOOSE j \in First(D) : TRUE) = m
    BY <2>5
  <2>7. r.end # list[m].start
    BY <1>2, <2>4
  <2>8. FreeBlock(list, r) =
          Append(UpTo(list, m - 1), [start |-> list[m].start, end |-> list[m].end + Count(r)])
    BY <2>4, <2>5, <2>6, <2>7 DEF FreeBlock, D
  <2>9. list[m].end + Count(r) = r.end
    <3>1. Count(r) = r.end - r.start
      BY NodeLaw
    <3> QED BY <1>0, <2>4, <3>1
  <2> DEFINE e   == [start |-> list[m].start, end |-> r.end]
             new == [list EXCEPT ![m] = e]
             a   == UpTo(list, m - 1)
  <2>10. e \in Span
    BY <1>0, <2>4 DEF Span
  <2>11. FreeBlock(list, r) = Append(a, e)
    BY <2>8, <2>9
  <2> HIDE DEF e
  <2>12. new \in Seq(Span) /\ Len(new) = m /\ new[m] = e /\ \A k2 \in 1..m : k2 # m => new[k2] = list[k2]
    BY <2>4, <2>10
  <2>13. a \in Seq(Span) /\ Len(a) = m - 1 /\ \A k2 \in 1..(m - 1) : a[k2] = list[k2]
    BY <1>0, <2>4 DEF UpTo
  <2> HIDE DEF new, a
  <2>14. Append(a, e) \in Seq(Span) /\ Len(Append(a, e)) = m /\ Append(a, e)[m] = e
           /\ \A k2 \in 1..(m - 1) : Append(a, e)[k2] = list[k2]
    BY <1>0, <2>4, <2>10, <2>13
  <2>15. \A k2 \in 1..m : Append(a, e)[k2] = new[k2]
    BY <1>0, <2>4, <2>12, <2>14
  <2>16. Append(a, e) = new
    BY <1>0, <2>12, <2>14, <2>15, SameSeq
  <2> QED BY <2>4, <2>11, <2>16 DEF new, e
<1> QED BY <1>4, <1>5

-----------------------------------------------------------------------------
(* The frames of a list. *)

\* The frames in the blocks of a list.
Cover(list) == UNION {Frames(list[i]) : i \in DOMAIN list}

\* A frame is covered iff it is in some block.
LEMMA CoverLaw ==
    ASSUME NEW S, NEW list \in Seq(S), NEW f
    PROVE  f \in Cover(list) <=> \E i \in 1..Len(list) : f \in Frames(list[i])
<1>1. DOMAIN list = 1..Len(list)
  OBVIOUS
<1> QED BY <1>1 DEF Cover

\* The frames of a range are the numbers from start to before end.
LEMMA FramesLaw ==
    ASSUME NEW r \in Span, NEW f
    PROVE  f \in Frames(r) <=> f \in Nat /\ r.start <= f /\ f < r.end
BY DEF Span, Frames

\* Types of the blocks of a list.
LEMMA SpanLaw ==
    ASSUME NEW list \in Seq(Span)
    PROVE  /\ DOMAIN list = 1..Len(list) /\ Len(list) \in Nat
           /\ \A k \in 1..Len(list) : /\ list[k] \in Span
                                      /\ list[k].start \in Nat /\ list[k].end \in Nat
<1>1. \A k \in 1..Len(list) : list[k] \in Span
  OBVIOUS
<1> QED BY <1>1 DEF Span

\* What FileLaw means for frames: the list stays separated, covers the range
\* as well, and no block reaches beyond it.
LEMMA FiledLaw ==
    ASSUME NEW list \in Seq(Span), Separated(list), NEW r \in Span, r.start <= r.end,
           r.start < r.end \/ list = <<>>,
           \A i \in 1..Len(list) : list[i].end <= r.start
    PROVE  /\ FreeBlock(list, r) \in Seq(Span)
           /\ Separated(FreeBlock(list, r))
           /\ Cover(FreeBlock(list, r)) = Cover(list) \cup Frames(r)
           /\ \A i \in 1..Len(FreeBlock(list, r)) :
                /\ FreeBlock(list, r)[i].end <= r.end
                /\ \/ FreeBlock(list, r)[i].start = r.start
                   \/ \E j \in 1..Len(list) : FreeBlock(list, r)[i].start = list[j].start
<1> DEFINE m == Len(list)
<1>0. /\ DOMAIN list = 1..m /\ m \in Nat /\ r.start \in Nat /\ r.end \in Nat
      /\ \A k \in 1..m : list[k] \in Span /\ list[k].start \in Nat /\ list[k].end \in Nat
  BY SpanLaw DEF Span
<1>1. /\ \A i \in 1..m : list[i].start <= list[i].end
      /\ \A i, j \in 1..m : i < j => list[i].end < list[j].start
  BY <1>0 DEF Separated
<1>2. PICK new : new = FreeBlock(list, r)
  OBVIOUS
<1>3. CASE /\ \A i \in 1..m : list[i].end < r.start
           /\ new = Append(list, r)
  <2>1. new \in Seq(Span) /\ Len(new) = m + 1 /\ new[m + 1] = r /\ \A k \in 1..m : new[k] = list[k]
    BY <1>3, AppendLaw
  <2>2. DOMAIN new = 1..(m + 1) /\ \A k \in 1..(m + 1) : k \in 1..m \/ k = m + 1
    BY <1>0, <2>1
  <2> HIDE DEF m
  <2>3. \A k \in 1..(m + 1) : new[k].start <= new[k].end /\ new[k].end <= r.end
    BY <1>0, <1>1, <1>3, <2>1, <2>2
  <2>4. ASSUME NEW i \in 1..(m + 1), NEW j \in 1..(m + 1), i < j
        PROVE  new[i].end < new[j].start
    <3>1. i \in 1..m
      BY <1>0, <2>4
    <3>2. CASE j \in 1..m
      BY <1>1, <2>1, <2>4, <3>1, <3>2
    <3>3. CASE j = m + 1
      BY <1>3, <2>1, <3>1, <3>3
    <3> QED BY <2>2, <3>2, <3>3
  <2>5. Separated(new)
    BY <2>2, <2>3, <2>4 DEF Separated
  <2>6. ASSUME NEW f
        PROVE  f \in Cover(new) <=> f \in Cover(list) \cup Frames(r)
    <3>1. f \in Cover(new) <=> \E i \in 1..(m + 1) : f \in Frames(new[i])
      BY <2>1, CoverLaw
    <3>2. f \in Cover(list) <=> \E i \in 1..m : f \in Frames(list[i])
      BY CoverLaw DEF m
    <3>3. m + 1 \in 1..(m + 1) /\ \A i \in 1..m : i \in 1..(m + 1)
      BY <1>0
    <3> QED BY <2>1, <2>2, <3>1, <3>2, <3>3
  <2>7. \A i \in 1..(m + 1) : new[i].start = r.start \/ \E j \in 1..m : new[i].start = list[j].start
    BY <2>1, <2>2
  <2> QED BY <1>2, <2>1, <2>3, <2>5, <2>6, <2>7 DEF m
<1>4. CASE /\ m \in 1..m
           /\ list[m].end = r.start
           /\ new = [list EXCEPT ![m] = [start |-> list[m].start, end |-> r.end]]
  <2>1. PICK e : e = [start |-> list[m].start, end |-> r.end]
    OBVIOUS
  <2>2. e \in Span /\ e.start = list[m].start /\ e.end = r.end
    BY <1>0, <1>4, <2>1 DEF Span
  <2>3. new = [list EXCEPT ![m] = e]
    BY <1>4, <2>1
  <2>4. new \in Seq(Span) /\ Len(new) = m /\ new[m] = e /\ \A k \in 1..m : k # m => new[k] = list[k]
    BY <1>4, <2>2, <2>3
  <2>5. DOMAIN new = 1..m
    BY <2>4
  <2> HIDE DEF m
  <2>6. ASSUME NEW k \in 1..m
        PROVE  new[k].start = list[k].start /\ new[k].start <= new[k].end /\ new[k].end <= r.end
    <3>1. CASE k = m
      <4>1. list[m].start <= list[m].end
        BY <1>1, <1>4
      <4> QED BY <1>0, <1>4, <2>2, <2>4, <3>1, <4>1
    <3>2. CASE k # m
      <4>1. list[k].start <= list[k].end /\ list[k].end <= r.start
        BY <1>1 DEF m
      <4> QED BY <1>0, <2>4, <3>2, <4>1
    <3> QED BY <3>1, <3>2
  <2>7. ASSUME NEW i \in 1..m, NEW j \in 1..m, i < j
        PROVE  new[i].end < new[j].start
    <3>1. i # m
      BY <1>0, <2>7
    <3>2. new[i] = list[i] /\ new[j].start = list[j].start
      BY <2>4, <2>6, <3>1
    <3> QED BY <1>1, <2>7, <3>2
  <2>8. Separated(new)
    BY <2>5, <2>6, <2>7 DEF Separated
  <2>9. \A f : f \in Frames(e) <=> f \in Frames(list[m]) \/ f \in Frames(r)
    <3>1. list[m].start <= list[m].end /\ list[m] \in Span /\ list[m].start \in Nat
      BY <1>0, <1>1, <1>4
    <3> QED BY <1>0, <1>4, <2>2, <3>1, FramesLaw
  <2>10. ASSUME NEW f
         PROVE  f \in Cover(new) <=> f \in Cover(list) \cup Frames(r)
    <3>1. f \in Cover(new) <=> \E i \in 1..m : f \in Frames(new[i])
      BY <2>4, CoverLaw
    <3>2. f \in Cover(list) <=> \E i \in 1..m : f \in Frames(list[i])
      BY CoverLaw DEF m
    <3> QED BY <1>4, <2>4, <2>9, <3>1, <3>2
  <2> QED BY <1>2, <2>4, <2>6, <2>8, <2>10 DEF m
<1> QED BY <1>2, <1>3, <1>4, FileLaw

\* A run of n free frames is inside one block, since blocks do not touch:
\* first fit cannot miss it.
LEMMA RunInBlock ==
    ASSUME NEW list \in Seq(Span), Separated(list), NEW n \in Nat \ {0}, NEW f \in Nat,
           f..(f + n - 1) \subseteq Cover(list)
    PROVE  \E i \in 1..Len(list) : Count(list[i]) >= n
<1>0. /\ DOMAIN list = 1..Len(list) /\ Len(list) \in Nat
      /\ \A k \in 1..Len(list) : list[k] \in Span /\ list[k].start \in Nat /\ list[k].end \in Nat
  BY SpanLaw
<1>1. /\ \A i \in 1..Len(list) : list[i].start <= list[i].end
      /\ \A i, j \in 1..Len(list) : i < j => list[i].end < list[j].start
  BY <1>0 DEF Separated
<1>2. f \in Cover(list)
  OBVIOUS
<1>3. PICK i \in 1..Len(list) : f \in Frames(list[i])
  BY <1>2, CoverLaw
<1>4. list[i].start <= f /\ f < list[i].end /\ list[i].start \in Nat /\ list[i].end \in Nat
  BY <1>0, <1>3, FramesLaw
<1>5. CASE f + n <= list[i].end
  <2>1. Count(list[i]) >= n
    BY <1>4, <1>5 DEF Count
  <2> QED BY <2>1
<1>6. CASE list[i].end < f + n
  <2>1. list[i].end \in Cover(list)
    BY <1>4, <1>6
  <2>2. PICK j \in 1..Len(list) : list[i].end \in Frames(list[j])
    BY <2>1, CoverLaw
  <2>3. /\ list[j].start <= list[i].end /\ list[i].end < list[j].end
        /\ list[j].start \in Nat /\ list[j].end \in Nat
    BY <1>0, <2>2, FramesLaw
  <2>4. CASE i < j
    <3>1. list[i].end < list[j].start
      BY <1>1, <2>4
    <3> QED BY <1>4, <2>3, <3>1
  <2>5. CASE j < i
    <3>1. list[j].end < list[i].start
      BY <1>1, <2>5
    <3> QED BY <1>4, <2>3, <3>1
  <2>6. CASE i = j
    BY <1>4, <2>3, <2>6
  <2>7. i < j \/ j < i \/ i = j
    BY <1>0
  <2> QED BY <2>4, <2>5, <2>6, <2>7
<1> QED BY <1>4, <1>5, <1>6

\* What RestLaw means for frames: the list stays separated, and just the n
\* frames are no longer covered.
LEMMA RestInvLaw ==
    ASSUME NEW list \in Seq(Span), Separated(list), NEW i \in 1..Len(list),
           NEW n \in Nat \ {0}, Count(list[i]) >= n
    PROVE  /\ list[i].start + n <= list[i].end
           /\ Rest(list, i, n) \in Seq(Span)
           /\ Separated(Rest(list, i, n))
           /\ Cover(Rest(list, i, n)) = Cover(list) \ (list[i].start)..(list[i].start + n - 1)
           /\ \A k \in 1..Len(Rest(list, i, n)) : \E j \in 1..Len(list) :
                /\ list[j].start <= Rest(list, i, n)[k].start
                /\ Rest(list, i, n)[k].end = list[j].end
                /\ j = i => list[i].start + n <= Rest(list, i, n)[k].start
<1> DEFINE m   == Len(list)
           cut == list[i].start + n
           run == (list[i].start)..(list[i].start + n - 1)
<1>0. /\ DOMAIN list = 1..m /\ m \in Nat /\ i \in 1..m /\ cut \in Nat
      /\ \A k \in 1..m : list[k] \in Span /\ list[k].start \in Nat /\ list[k].end \in Nat
  BY SpanLaw
<1>1. /\ \A k \in 1..m : list[k].start <= list[k].end
      /\ \A k, j \in 1..m : k < j => list[k].end < list[j].start
  BY <1>0 DEF Separated
<1>2. PICK new : new = Rest(list, i, n)
  OBVIOUS
<1>5. \A f : f \in run <=> f \in Nat /\ list[i].start <= f /\ f < cut
  BY <1>0
<1>6. \A f : f \in Cover(list) <=> \E k \in 1..m : f \in Frames(list[k])
  BY CoverLaw
<1>9. i \in Nat /\ list[i].start < cut
  BY <1>0
<1> HIDE DEF m, cut, run
<1>7. ASSUME NEW k \in 1..m, k # i, NEW f \in Frames(list[k]), cut <= list[i].end
      PROVE  f \notin run
  <2>1. f \in Nat /\ list[k].start <= f /\ f < list[k].end
    BY <1>0, FramesLaw
  <2>2. list[k].start \in Nat /\ list[k].end \in Nat /\ list[i].start \in Nat /\ list[i].end \in Nat
    BY <1>0
  <2>3. CASE k < i
    <3>1. list[k].end < list[i].start
      BY <1>0, <1>1, <2>3
    <3>2. ~(list[i].start <= f)
      BY <2>1, <2>2, <3>1
    <3> QED BY <1>5, <3>2
  <2>4. CASE i < k
    <3>1. list[i].end < list[k].start
      BY <1>0, <1>1, <2>4
    <3>2. ~(f < cut)
      BY <1>0, <1>7, <2>1, <2>2, <3>1
    <3> QED BY <1>5, <3>2
  <2> QED BY <1>9, <1>7, <2>3, <2>4
<1>3. CASE /\ cut < list[i].end
           /\ new = [list EXCEPT ![i] = [start |-> cut, end |-> list[i].end]]
  <2>1. PICK e : e = [start |-> cut, end |-> list[i].end]
    OBVIOUS
  <2>2. e \in Span /\ e.start = cut /\ e.end = list[i].end
    BY <1>0, <2>1 DEF Span
  <2>3. new = [list EXCEPT ![i] = e]
    BY <1>3, <2>1
  <2>4. new \in Seq(Span) /\ Len(new) = m /\ new[i] = e /\ \A k \in 1..m : k # i => new[k] = list[k]
    BY <1>0, <2>2, <2>3 DEF m
  <2>5. DOMAIN new = 1..m
    BY <2>4
  <2>6. ASSUME NEW k \in 1..m
        PROVE  /\ list[k].start <= new[k].start /\ new[k].start <= new[k].end
               /\ new[k].end = list[k].end /\ new[k].start \in Nat
    <3>1. CASE k = i
      BY <1>0, <1>3, <1>9, <2>2, <2>4, <3>1
    <3>2. CASE k # i
      BY <1>0, <1>1, <2>4, <3>2
    <3> QED BY <3>1, <3>2
  <2>7. ASSUME NEW k \in 1..m, NEW j \in 1..m, k < j
        PROVE  new[k].end < new[j].start
    <3>1. new[k].end = list[k].end /\ list[j].start <= new[j].start /\ new[j].start \in Nat
      BY <2>6
    <3>2. list[k].end < list[j].start /\ list[k].end \in Nat /\ list[j].start \in Nat
      BY <1>0, <1>1, <2>7
    <3> QED BY <3>1, <3>2
  <2>8. Separated(new)
    BY <2>5, <2>6, <2>7 DEF Separated
  <2>9. \A f : f \in Frames(e) <=> f \in Frames(list[i]) /\ f \notin run
    <3>1. list[i] \in Span /\ list[i].start \in Nat /\ list[i].end \in Nat
      BY <1>0
    <3>2. ASSUME NEW f
          PROVE  f \in Frames(e) <=> f \in Frames(list[i]) /\ f \notin run
      <4>1. f \in Frames(e) <=> f \in Nat /\ cut <= f /\ f < list[i].end
        BY <2>2, FramesLaw
      <4>2. f \in Frames(list[i]) <=> f \in Nat /\ list[i].start <= f /\ f < list[i].end
        BY <3>1, FramesLaw
      <4> QED BY <1>0, <1>5, <1>9, <3>1, <4>1, <4>2
    <3> QED BY <3>2
  <2>10. ASSUME NEW f
         PROVE  f \in Cover(new) <=> f \in Cover(list) \ run
    <3>1. f \in Cover(new) <=> \E k \in 1..m : f \in Frames(new[k])
      BY <2>4, CoverLaw
    <3>2. cut <= list[i].end
      BY <1>0, <1>3
    <3>3. ASSUME f \in Cover(new)
          PROVE  f \in Cover(list) \ run
      <4>1. PICK k \in 1..m : f \in Frames(new[k])
        BY <3>1, <3>3
      <4>2. CASE k = i
        BY <1>0, <1>6, <2>4, <2>9, <4>1, <4>2
      <4>3. CASE k # i
        BY <1>6, <1>7, <2>4, <3>2, <4>1, <4>3
      <4> QED BY <4>2, <4>3
    <3>4. ASSUME f \in Cover(list), f \notin run
          PROVE  f \in Cover(new)
      <4>1. PICK k \in 1..m : f \in Frames(list[k])
        BY <1>6, <3>4
      <4>2. CASE k = i
        BY <1>0, <2>4, <2>9, <3>1, <3>4, <4>1, <4>2
      <4>3. CASE k # i
        BY <2>4, <3>1, <4>1, <4>3
      <4> QED BY <4>2, <4>3
    <3> QED BY <3>3, <3>4
  <2>11. \A k \in 1..m : \E j \in 1..m :
           /\ list[j].start <= new[k].start
           /\ new[k].end = list[j].end
           /\ j = i => cut <= new[k].start
    <3>1. ASSUME NEW k \in 1..m
          PROVE  k = i => cut <= new[k].start
      BY <1>0, <2>2, <2>4
    <3> QED BY <2>6, <3>1
  <2>12. Cover(new) = Cover(list) \ run
    BY <2>10
  <2>13. cut <= list[i].end
    BY <1>0, <1>3
  <2> QED BY <1>2, <2>4, <2>8, <2>11, <2>12, <2>13 DEF m, cut, run
<1>4. CASE /\ cut = list[i].end
           /\ new = Without(list, i)
  <2>1. /\ new \in Seq(Span) /\ Len(new) = m - 1
        /\ \A k \in 1..(m - 1) : new[k] = IF k < i THEN list[k] ELSE list[k + 1]
    BY <1>4, WithoutLaw DEF m
  <2>2. DOMAIN new = 1..(m - 1)
    BY <2>1
  <2>3. ASSUME NEW k \in 1..(m - 1)
        PROVE  \E j \in 1..m : new[k] = list[j] /\ j # i /\ (k < i => j = k) /\ (~(k < i) => j = k + 1)
    <3>1. CASE k < i
      <4>1. k \in 1..m /\ k # i
        BY <1>0, <3>1
      <4> QED BY <2>1, <3>1, <4>1
    <3>2. CASE ~(k < i)
      <4>1. k + 1 \in 1..m /\ k + 1 # i
        BY <1>0, <1>9, <3>2
      <4> QED BY <2>1, <3>2, <4>1
    <3> QED BY <3>1, <3>2
  <2>4. \A k \in 1..(m - 1) : new[k].start <= new[k].end
    BY <1>1, <2>3
  <2>5. ASSUME NEW k \in 1..(m - 1), NEW j \in 1..(m - 1), k < j
        PROVE  new[k].end < new[j].start
    <3>1. PICK k2 \in 1..m : new[k] = list[k2] /\ (k < i => k2 = k) /\ (~(k < i) => k2 = k + 1)
      BY <2>3
    <3>2. PICK j2 \in 1..m : new[j] = list[j2] /\ (j < i => j2 = j) /\ (~(j < i) => j2 = j + 1)
      BY <2>3
    <3>3. k2 < j2
      BY <1>0, <1>9, <2>5, <3>1, <3>2
    <3> QED BY <1>1, <3>1, <3>2, <3>3
  <2>6. Separated(new)
    BY <2>2, <2>4, <2>5 DEF Separated
  <2>7. cut <= list[i].end
    BY <1>0, <1>4
  <2>8. \A f : f \in Frames(list[i]) => f \in run
    <3>1. list[i] \in Span
      BY <1>0
    <3> QED BY <1>4, <1>5, <3>1, FramesLaw
  <2>9. ASSUME NEW j \in 1..m, j # i
        PROVE  \E k \in 1..(m - 1) : new[k] = list[j]
    <3>1. CASE j < i
      <4>1. j \in 1..(m - 1)
        BY <1>0, <1>9, <3>1
      <4> QED BY <2>1, <3>1, <4>1
    <3>2. CASE i < j
      <4>1. j - 1 \in 1..(m - 1) /\ ~(j - 1 < i) /\ (j - 1) + 1 = j
        BY <1>0, <1>9, <3>2
      <4>2. new[j - 1] = list[j]
        BY <2>1, <4>1
      <4> QED BY <4>1, <4>2
    <3> QED BY <1>9, <2>9, <3>1, <3>2
  <2>10. ASSUME NEW f
         PROVE  f \in Cover(new) <=> f \in Cover(list) \ run
    <3>1. f \in Cover(new) <=> \E k \in 1..(m - 1) : f \in Frames(new[k])
      BY <2>1, CoverLaw
    <3>3. ASSUME f \in Cover(new)
          PROVE  f \in Cover(list) \ run
      <4>1. PICK k \in 1..(m - 1) : f \in Frames(new[k])
        BY <3>1, <3>3
      <4>2. PICK j \in 1..m : new[k] = list[j] /\ j # i
        BY <2>3
      <4> QED BY <1>6, <1>7, <2>7, <4>1, <4>2
    <3>4. ASSUME f \in Cover(list), f \notin run
          PROVE  f \in Cover(new)
      <4>1. PICK j \in 1..m : f \in Frames(list[j])
        BY <1>6, <3>4
      <4>2. j # i
        BY <2>8, <3>4, <4>1
      <4>3. PICK k \in 1..(m - 1) : new[k] = list[j]
        BY <2>9, <4>2
      <4> QED BY <3>1, <4>1, <4>3
    <3> QED BY <3>3, <3>4
  <2>11. \A k \in 1..(m - 1) : \E j \in 1..m :
           /\ list[j].start <= new[k].start
           /\ new[k].end = list[j].end
           /\ j = i => cut <= new[k].start
    <3>1. ASSUME NEW k \in 1..(m - 1)
          PROVE  \E j \in 1..m : /\ list[j].start <= new[k].start
                                 /\ new[k].end = list[j].end
                                 /\ j = i => cut <= new[k].start
      <4>1. PICK j \in 1..m : new[k] = list[j] /\ j # i
        BY <2>3
      <4>2. list[j].start <= new[k].start /\ new[k].end = list[j].end
        BY <1>0, <4>1
      <4> QED BY <4>1, <4>2
    <3> QED BY <3>1
  <2>12. Cover(new) = Cover(list) \ run
    BY <2>10
  <2> QED BY <1>2, <2>1, <2>6, <2>7, <2>11, <2>12 DEF m, cut, run
<1>8. \/ cut < list[i].end /\ new = [list EXCEPT ![i] = [start |-> cut, end |-> list[i].end]]
      \/ cut = list[i].end /\ new = Without(list, i)
  BY <1>2, RestLaw DEF cut
<1> QED BY <1>3, <1>4, <1>8

-----------------------------------------------------------------------------
(* Regions. *)

\* A region is a range that is not empty.
LEMMA RegionLaw ==
    ASSUME NEW r \in Region
    PROVE  r \in Span /\ r.start \in Nat /\ r.end \in Nat /\ r.start < r.end
BY DEF Region, Span

\* A range that is not empty is a region.
LEMMA MakeRegion ==
    ASSUME NEW a \in Nat, NEW b \in Nat, a < b
    PROVE  [start |-> a, end |-> b] \in Region
BY DEF Region, Span

\* cut_region on one region: the parts are inside it, clear of each other,
\* and have its frames but those of the cut.
LEMMA CutOneLaw ==
    ASSUME NEW r \in Region, NEW c \in Span, c.start <= c.end
    PROVE  /\ \A p \in CutOne(r, c) : p \in Region /\ r.start <= p.start /\ p.end <= r.end
           /\ \A p, q \in CutOne(r, c) : p # q => Clear(p, q)
           /\ \A f : (\E p \in CutOne(r, c) : f \in Frames(p)) <=> f \in Frames(r) /\ f \notin Frames(c)
<1>0. /\ r \in Span /\ r.start \in Nat /\ r.end \in Nat /\ r.start < r.end
      /\ c.start \in Nat /\ c.end \in Nat
  BY RegionLaw DEF Span
<1>1. \A f : f \in Frames(r) <=> f \in Nat /\ r.start <= f /\ f < r.end
  BY <1>0, FramesLaw
<1>2. \A f : f \in Frames(c) <=> f \in Nat /\ c.start <= f /\ f < c.end
  BY FramesLaw
<1>3. CASE r.start <= c.end /\ r.end >= c.start
  <2>1. PICK low : low = [start |-> r.start, end |-> c.start]
    OBVIOUS
  <2>2. PICK high : high = [start |-> c.end, end |-> r.end]
    OBVIOUS
  <2>3. /\ low \in Span /\ low.start = r.start /\ low.end = c.start
        /\ high \in Span /\ high.start = c.end /\ high.end = r.end
    BY <1>0, <2>1, <2>2 DEF Span
  <2>4. CutOne(r, c) = {p \in {low, high} : p.start < p.end}
    BY <1>3, <2>1, <2>2 DEF CutOne
  <2>5. \A p : p \in CutOne(r, c) <=> (p = low /\ r.start < c.start) \/ (p = high /\ c.end < r.end)
    BY <2>3, <2>4
  <2>6. \A f : f \in Frames(low) <=> f \in Nat /\ r.start <= f /\ f < c.start
    BY <2>3, FramesLaw
  <2>7. \A f : f \in Frames(high) <=> f \in Nat /\ c.end <= f /\ f < r.end
    BY <2>3, FramesLaw
  <2>8. ASSUME NEW p \in CutOne(r, c)
        PROVE  p \in Region /\ r.start <= p.start /\ p.end <= r.end
    <3>1. CASE p = low /\ r.start < c.start
      BY <1>0, <1>3, <2>3, <3>1 DEF Region
    <3>2. CASE p = high /\ c.end < r.end
      BY <1>0, <1>3, <2>3, <3>2 DEF Region
    <3> QED BY <2>5, <3>1, <3>2
  <2>9. Clear(low, high) /\ Clear(high, low)
    BY <2>3 DEF Clear
  <2>10. \A p, q \in CutOne(r, c) : p # q => Clear(p, q)
    BY <2>5, <2>9
  <2>11. ASSUME NEW f
         PROVE  (\E p \in CutOne(r, c) : f \in Frames(p)) <=> f \in Frames(r) /\ f \notin Frames(c)
    <3>1. (\E p \in CutOne(r, c) : f \in Frames(p))
             <=> (r.start < c.start /\ f \in Frames(low)) \/ (c.end < r.end /\ f \in Frames(high))
      BY <2>5
    <3>2. CASE f \in Nat
      BY <1>0, <1>1, <1>2, <1>3, <2>6, <2>7, <3>1, <3>2
    <3>3. CASE f \notin Nat
      BY <1>1, <2>6, <2>7, <3>1, <3>3
    <3> QED BY <3>2, <3>3
  <2> QED BY <2>8, <2>10, <2>11
<1>4. CASE ~(r.start <= c.end /\ r.end >= c.start)
  <2>1. CutOne(r, c) = {r}
    BY <1>4 DEF CutOne
  <2>2. \A f : f \in Frames(r) => f \notin Frames(c)
    BY <1>0, <1>1, <1>2, <1>4
  <2> QED BY <1>0, <2>1, <2>2
<1> QED BY <1>3, <1>4

\* cut_region on all regions.
LEMMA CutAllLaw ==
    ASSUME NEW rs \in SUBSET Region, \A p, q \in rs : p # q => Clear(p, q),
           NEW c \in Span, c.start <= c.end,
           NEW new, \A p : p \in new <=> \E r \in rs : p \in CutOne(r, c)
    PROVE  /\ new \in SUBSET Region
           /\ \A p, q \in new : p # q => Clear(p, q)
           /\ FramesOf(new) = FramesOf(rs) \ Frames(c)
<1>1. \A p : p \in new <=> \E r \in rs : p \in CutOne(r, c)
  OBVIOUS
<1>2. new \in SUBSET Region
  BY <1>1, CutOneLaw
<1>3. ASSUME NEW p \in new, NEW q \in new, p # q
      PROVE  Clear(p, q)
  <2>1. PICK r \in rs : p \in CutOne(r, c)
    BY <1>1
  <2>2. PICK s \in rs : q \in CutOne(s, c)
    BY <1>1
  <2>3. CASE r = s
    BY <1>3, <2>1, <2>2, <2>3, CutOneLaw
  <2>4. CASE r # s
    <3>1. Clear(r, s)
      BY <2>4
    <3>2. p \in Region /\ r.start <= p.start /\ p.end <= r.end
      BY <2>1, CutOneLaw
    <3>3. q \in Region /\ s.start <= q.start /\ q.end <= s.end
      BY <2>2, CutOneLaw
    <3>4. /\ r.start \in Nat /\ r.end \in Nat /\ s.start \in Nat /\ s.end \in Nat
          /\ p.start \in Nat /\ p.end \in Nat /\ q.start \in Nat /\ q.end \in Nat
      BY <3>2, <3>3, RegionLaw
    <3> QED BY <3>1, <3>2, <3>3, <3>4 DEF Clear
  <2> QED BY <2>3, <2>4
<1>4. ASSUME NEW f
      PROVE  f \in FramesOf(new) <=> f \in FramesOf(rs) \ Frames(c)
  <2>1. f \in FramesOf(new) <=> \E p \in new : f \in Frames(p)
    BY DEF FramesOf
  <2>2. f \in FramesOf(rs) <=> \E r \in rs : f \in Frames(r)
    BY DEF FramesOf
  <2>3. \A r \in rs : (\E p \in CutOne(r, c) : f \in Frames(p)) <=> f \in Frames(r) /\ f \notin Frames(c)
    BY CutOneLaw
  <2> QED BY <1>1, <2>1, <2>2, <2>3
<1> QED BY <1>2, <1>3, <1>4

\* What MemoryAssumption says of an area.
LEMMA AreaLaw ==
    ASSUME NEW map \in MemoryMaps, NEW a \in map
    PROVE  /\ a.start \in Nat /\ a.end \in Nat
           /\ UpFrame(a.start) \in Nat /\ a.end \div PageUnits \in Nat
           /\ UpFrame(a.start) < a.end \div PageUnits
           /\ \A b \in map : a # b => a.end <= b.start \/ b.end <= a.start
<1>1. a \in [start : Nat, end : Nat, usable : BOOLEAN]
  BY MemoryAssumption
<1>2. a.start \in Nat /\ a.end \in Nat
  BY <1>1
<1>3. UpFrame(a.start) \in Nat /\ a.end \div PageUnits \in Nat
  BY <1>2, UpFrameLaw, DownFrameLaw
<1> QED BY <1>2, <1>3, MemoryAssumption

\* Areas that do not overlap are still apart when their ends are aligned.
LEMMA AlignedApart ==
    ASSUME NEW m \in Nat, NEW n \in Nat, m <= n
    PROVE  m \div PageUnits <= UpFrame(n)
<1> DEFINE u == UpFrame(n)
           d == m \div PageUnits
           p == PageUnits
<1>1. u \in Nat /\ d \in Nat /\ p \in Nat \ {0}
  BY UpFrameLaw, DownFrameLaw, MemoryAssumption
<1>2. n <= u * p
  <2>1. UpFrame(n) <= u
    BY <1>1
  <2> QED BY <1>1, <2>1, UpFrameLaw
<1>3. u < d => (u + 1) * p <= m
  BY <1>1, DownFrameLaw
<1> HIDE DEF u, d, p
<1>4. (u + 1) * p = u * p + p /\ u * p \in Nat
  BY <1>1, Z3T(30)
<1>5. ~(u < d)
  BY <1>1, <1>2, <1>3, <1>4
<1>6. d <= u
  BY <1>1, <1>5
<1> QED BY <1>6 DEF u, d

-----------------------------------------------------------------------------
(* What does not change. *)

\* The available frames depend on the memory map and the heap.
LEMMA AvailableSame ==
    ASSUME UNCHANGED <<memory_map, heap_region>>
    PROVE  Available' = Available
BY DEF Available, Usable, WholePages

\* Blocks and Cover are about the same frames.
LEMMA BlocksCover ==
    ASSUME NEW s
    PROVE  FramesOf(Blocks(s)) = Cover(free_list[s])
BY DEF FramesOf, Blocks, Cover

-----------------------------------------------------------------------------
(* The steps. *)

\* The lists before init() fills them.
EmptyLists == [s \in Space |-> <<>>]

\* Empty lists are separated and cover nothing.
LEMMA EmptyListsLaw ==
    /\ EmptyLists \in [Space -> Seq(Span)]
    /\ \A s \in Space : EmptyLists[s] = <<>> /\ Separated(EmptyLists[s]) /\ Cover(EmptyLists[s]) = {}
<1>1. \A s \in Space : EmptyLists[s] = <<>>
  BY DEF EmptyLists
<1>2. <<>> \in Seq(Span)
  OBVIOUS
<1>3. EmptyLists \in [Space -> Seq(Span)]
  BY <1>2 DEF EmptyLists
<1>4. Separated(<<>>) /\ Cover(<<>>) = {}
  BY DEF Separated, Cover
<1> QED BY <1>1, <1>3, <1>4

\* Before init() fills the lists there is no block.
LEMMA EmptyNoBlock ==
    ASSUME free_list = EmptyLists
    PROVE  /\ \A s \in Space : DOMAIN free_list[s] = {}
           /\ \A s \in Space : FramesOf(Blocks(s)) = {}
<1>1. \A s \in Space : free_list[s] = <<>>
  BY EmptyListsLaw
<1>2. \A s \in Space : FramesOf(Blocks(s)) = Cover(free_list[s])
  BY BlocksCover
<1> QED BY <1>1, <1>2, EmptyListsLaw

\* The invariant holds when the kernel starts.
LEMMA InitMemoryInv == Init => MemoryInv
<1> SUFFICES ASSUME Init PROVE MemoryInv
  OBVIOUS
<1>1. memory_map \in MemoryMaps /\ stage = "scan"
  BY DEF Init
<1>2. memory_map \subseteq [start : Nat, end : Nat, usable : BOOLEAN]
  BY <1>1, MemoryAssumption
<1>3. free_list \in [Space -> Seq(Span)]
  BY EmptyListsLaw DEF Init, EmptyLists
<1>4. TypeOK
  <2>1. <<>> \in Seq(Span) /\ None \in Span /\ {} \subseteq Region
    BY DEF None, Span
  <2> QED BY <1>2, <1>3, <2>1 DEF TypeOK, Init
<1>5. StageInv
  BY <1>1 DEF StageInv, Init
<1>6. CutInv
  BY DEF CutInv, Init, None
<1>7. LimitInv /\ ListsInv /\ HeldInv
  BY <1>1 DEF LimitInv, ListsInv, HeldInv
<1>8. OwnedInv
  BY DEF OwnedInv, Init
<1> QED BY <1>4, <1>5, <1>6, <1>7, <1>8 DEF MemoryInv

\* Scanning the memory map: aligning areas inwards gives regions that are
\* clear of each other and hold the whole pages.
LEMMA ScanInv ==
    ASSUME MemoryInv, ScanMemoryMap
    PROVE  MemoryInv'
<1>1. /\ stage = "scan" /\ stage' = "cut" /\ memory_map \in MemoryMaps /\ memory_map' = memory_map
      /\ free_list' = free_list /\ owned' = owned /\ owned = {}
      /\ kernel_phys_limit' = kernel_phys_limit /\ phys_limit' = phys_limit
      /\ region_iter' = region_iter /\ available_kernel_memory' = available_kernel_memory
      /\ free_list = [s \in Space |-> <<>>]
  BY DEF MemoryInv, StageInv, ScanMemoryMap, limitVars
<1>2. PICK a \in HeapAreas :
        heap_region' = [start |-> UpFrame(a.start), end |-> UpFrame(a.start) + HeapPages]
  BY DEF ScanMemoryMap
<1>3. a \in memory_map /\ \A b \in Usable : b \in memory_map
  BY DEF HeapAreas, Usable
<1>4. HeapPages \in Nat /\ UpFrame(a.start) \in Nat
  BY <1>1, <1>3, AreaLaw, MemoryAssumption
<1>5. heap_region' \in Span /\ heap_region'.start <= heap_region'.end
  BY <1>2, <1>4 DEF Span
<1>6. NullPage \in Span /\ KernelImage \in Span
  BY MemoryAssumption DEF NullPage, Span
<1>7. reserved' = <<NullPage, KernelImage, heap_region'>>
  BY DEF ScanMemoryMap
<1>8. PICK h : h = heap_region'
  OBVIOUS
<1>9. reserved' \in Seq(Span)
  BY <1>5, <1>6, <1>7, <1>8
<1>10. regions' = {[start |-> UpFrame(b.start), end |-> b.end \div PageUnits] : b \in Usable}
  BY DEF ScanMemoryMap
<1>11. \A p : p \in regions' <=> \E b \in Usable : p = [start |-> UpFrame(b.start), end |-> b.end \div PageUnits]
  BY <1>10
<1>12. ASSUME NEW b \in Usable
       PROVE  /\ UpFrame(b.start) \in Nat /\ b.end \div PageUnits \in Nat
              /\ [start |-> UpFrame(b.start), end |-> b.end \div PageUnits] \in Region
  BY <1>1, <1>3, AreaLaw, MakeRegion
<1>13. regions' \subseteq Region
  BY <1>11, <1>12
<1>14. ASSUME NEW p \in regions', NEW q \in regions', p # q
       PROVE  Clear(p, q)
  <2>1. PICK b \in Usable : p = [start |-> UpFrame(b.start), end |-> b.end \div PageUnits]
    BY <1>11
  <2>2. PICK c \in Usable : q = [start |-> UpFrame(c.start), end |-> c.end \div PageUnits]
    BY <1>11
  <2>3. b # c
    BY <1>14, <2>1, <2>2
  <2>4. b.start \in Nat /\ b.end \in Nat /\ c.start \in Nat /\ c.end \in Nat
    BY <1>1, <1>3, AreaLaw
  <2>5. b.end <= c.start \/ c.end <= b.start
    BY <1>1, <1>3, <2>3, AreaLaw
  <2>6. b.end \div PageUnits <= UpFrame(c.start) \/ c.end \div PageUnits <= UpFrame(b.start)
    BY <2>4, <2>5, AlignedApart
  <2>7. /\ p.start = UpFrame(b.start) /\ p.end = b.end \div PageUnits
        /\ q.start = UpFrame(c.start) /\ q.end = c.end \div PageUnits
    BY <2>1, <2>2
  <2> QED BY <2>6, <2>7 DEF Clear
<1>15. ASSUME NEW f
       PROVE  f \in FramesOf(regions') <=> \E b \in Usable : f \in WholePages(b)
  <2>1. f \in FramesOf(regions') <=> \E p \in regions' : f \in Frames(p)
    BY DEF FramesOf
  <2>2. ASSUME NEW b \in Usable
        PROVE  WholePages(b) = Frames([start |-> UpFrame(b.start), end |-> b.end \div PageUnits])
    <3>1. b.start \in Nat /\ b.end \in Nat
      BY <1>1, <1>3, AreaLaw
    <3>2. WholePages(b) = UpFrame(b.start)..(b.end \div PageUnits - 1)
      BY <3>1, WholePagesLaw
    <3> QED BY <3>2 DEF Frames
  <2> QED BY <1>11, <2>1, <2>2
<1>16. ASSUME NEW f
       PROVE  f \in ReservedFrames' <=> f = 0 \/ f \in Frames(KernelImage) \/ f \in Frames(heap_region')
  <2>1. DOMAIN reserved' = 1..3 /\ reserved'[1] = NullPage /\ reserved'[2] = KernelImage /\ reserved'[3] = heap_region'
    BY <1>7
  <2>2. f \in ReservedFrames' <=> \E i \in 1..3 : f \in Frames(reserved'[i])
    BY <2>1 DEF ReservedFrames
  <2>3. f \in Frames(NullPage) <=> f = 0
    BY DEF Frames, NullPage
  <2>4. \A i : i \in 1..3 <=> i = 1 \/ i = 2 \/ i = 3
    OBVIOUS
  <2> QED BY <2>1, <2>2, <2>3, <2>4
<1>17. ASSUME NEW f
       PROVE  f \in Available' <=> /\ \E b \in Usable : f \in WholePages(b)
                                   /\ ~(f = 0 \/ f \in Frames(KernelImage) \/ f \in Frames(heap_region'))
  <2>1. Usable' = Usable
    BY <1>1 DEF Usable
  <2>2. \A b : WholePages(b)' = WholePages(b)
    BY DEF WholePages
  <2>3. f \in Available' <=> /\ \E b \in Usable' : f \in WholePages(b)'
                             /\ ~(f = 0 \/ f \in Frames(KernelImage) \/ f \in Frames(heap_region)')
    BY DEF Available
  <2>4. Frames(heap_region)' = Frames(heap_region')
    BY DEF Frames
  <2> QED BY <2>1, <2>2, <2>3, <2>4
<1>18. FramesOf(regions') \ ReservedFrames' = Available'
  BY <1>15, <1>16, <1>17
<1>19. CutInv'
  <2>1. FramesOf(regions)' = FramesOf(regions')
    BY DEF FramesOf
  <2>2. \A p, q \in regions' : p # q => Clear(p, q)
    BY <1>14
  <2> QED BY <1>5, <1>7, <1>18, <2>1, <2>2 DEF CutInv
<1>20. TypeOK'
  <2>1. TypeOK
    BY DEF MemoryInv
  <2> QED BY <1>1, <1>5, <1>9, <1>13, <2>1 DEF TypeOK, Span, Region
<1>21. StageInv'
  BY <1>1 DEF StageInv
<1>22. LimitInv' /\ ListsInv' /\ HeldInv'
  BY <1>1 DEF LimitInv, ListsInv, HeldInv
<1>23. OwnedInv'
  BY <1>1 DEF OwnedInv
<1> QED BY <1>19, <1>20, <1>21, <1>22, <1>23 DEF MemoryInv

\* A panic leaves memory as it is.
LEMMA PanicInv ==
    ASSUME MemoryInv, NEW why, Panic(why),
           why \in {"noheap", "notables"} \/ (why = "exhausted" /\ stage = "up")
    PROVE  MemoryInv'
<1>1. /\ stage' = why /\ memory_map' = memory_map /\ regions' = regions /\ reserved' = reserved
      /\ heap_region' = heap_region /\ phys_limit' = phys_limit /\ region_iter' = region_iter
      /\ available_kernel_memory' = available_kernel_memory
      /\ kernel_phys_limit' = kernel_phys_limit /\ free_list' = free_list /\ owned' = owned
  BY DEF Panic, bootVars, limitVars
<1>2. Available' = Available
  BY <1>1, AvailableSame
<1>3. TypeOK'
  BY <1>1 DEF MemoryInv, TypeOK
<1>4. StageInv'
  BY <1>1 DEF MemoryInv, StageInv
<1>5. CutInv'
  BY <1>1 DEF MemoryInv, CutInv
<1>6. LimitInv'
  BY <1>1, <1>2 DEF MemoryInv, LimitInv
<1>7. ListsInv'
  BY <1>1 DEF MemoryInv, ListsInv
<1>8. OwnedInv'
  BY <1>1 DEF MemoryInv, OwnedInv
<1>9. HeldInv'
  <2>1. Blocks("Kernel")' = Blocks("Kernel") /\ Blocks("User")' = Blocks("User")
    BY <1>1 DEF Blocks
  <2> QED BY <1>1, <1>2, <2>1 DEF MemoryInv, HeldInv
<1> QED BY <1>3, <1>4, <1>5, <1>6, <1>7, <1>8, <1>9 DEF MemoryInv

\* Cutting moves the frames of one reserved range out of the regions.
LEMMA CutStepInv ==
    ASSUME MemoryInv, CutRegion
    PROVE  MemoryInv'
<1>1. /\ stage = "cut" /\ memory_map' = memory_map /\ heap_region' = heap_region
      /\ phys_limit' = phys_limit /\ region_iter' = region_iter
      /\ available_kernel_memory' = available_kernel_memory
      /\ kernel_phys_limit' = kernel_phys_limit /\ free_list' = free_list /\ owned' = owned
      /\ free_list = EmptyLists /\ owned = {}
  BY DEF CutRegion, limitVars, MemoryInv, StageInv, EmptyLists
<1>2. Available' = Available
  BY <1>1, AvailableSame
<1>3. PICK c : c = Head(reserved)
  OBVIOUS
<1>4. PICK rest : rest = Tail(reserved)
  OBVIOUS
<1>5. /\ regions' = UNION {CutOne(r, c) : r \in regions}
      /\ reserved' = rest
      /\ stage' = IF Len(reserved) = 1 THEN "limit" ELSE "cut"
  BY <1>3, <1>4 DEF CutRegion
<1>6. /\ heap_region \in Span /\ heap_region.start <= heap_region.end
      /\ regions \in SUBSET Region /\ \A p, q \in regions : p # q => Clear(p, q)
      /\ FramesOf(regions) \ ReservedFrames = Available
  BY <1>1 DEF MemoryInv, TypeOK, CutInv
<1>7. /\ NullPage \in Span /\ NullPage.start <= NullPage.end
      /\ KernelImage \in Span /\ KernelImage.start <= KernelImage.end
  BY MemoryAssumption DEF NullPage, Span
<1>8. \/ reserved = <<NullPage, KernelImage, heap_region>>
      \/ reserved = <<KernelImage, heap_region>>
      \/ reserved = <<heap_region>>
  BY <1>1 DEF MemoryInv, CutInv
<1>9. /\ c \in Span /\ c.start <= c.end
      /\ rest \in Seq(Span)
      /\ \/ Len(reserved) # 1 /\ rest \in {<<KernelImage, heap_region>>, <<heap_region>>}
         \/ Len(reserved) = 1 /\ rest = <<>>
      /\ \A f : f \in ReservedFrames <=> f \in Frames(c) \/ \E i \in DOMAIN rest : f \in Frames(rest[i])
  <2>0. \A f : f \in ReservedFrames <=> \E i \in DOMAIN reserved : f \in Frames(reserved[i])
    BY DEF ReservedFrames
  <2>1. CASE reserved = <<NullPage, KernelImage, heap_region>>
    <3>1. c = NullPage /\ rest = <<KernelImage, heap_region>> /\ Len(reserved) = 3
      BY <1>3, <1>4, <2>1
    <3>2. /\ DOMAIN reserved = {1, 2, 3} /\ reserved[1] = NullPage
          /\ reserved[2] = KernelImage /\ reserved[3] = heap_region
      BY <2>1
    <3>3. DOMAIN rest = {1, 2} /\ rest[1] = KernelImage /\ rest[2] = heap_region
      BY <3>1
    <3>4. rest \in Seq(Span)
      BY <1>6, <1>7, <3>1
    <3>5. \A f : f \in ReservedFrames <=> f \in Frames(c) \/ \E i \in DOMAIN rest : f \in Frames(rest[i])
      BY <2>0, <3>1, <3>2, <3>3
    <3> QED BY <1>7, <3>1, <3>4, <3>5
  <2>2. CASE reserved = <<KernelImage, heap_region>>
    <3>1. c = KernelImage /\ rest = <<heap_region>> /\ Len(reserved) = 2
      BY <1>3, <1>4, <2>2
    <3>2. DOMAIN reserved = {1, 2} /\ reserved[1] = KernelImage /\ reserved[2] = heap_region
      BY <2>2
    <3>3. DOMAIN rest = {1} /\ rest[1] = heap_region
      BY <3>1
    <3>4. rest \in Seq(Span)
      BY <1>6, <3>1
    <3>5. \A f : f \in ReservedFrames <=> f \in Frames(c) \/ \E i \in DOMAIN rest : f \in Frames(rest[i])
      BY <2>0, <3>1, <3>2, <3>3
    <3> QED BY <1>7, <3>1, <3>4, <3>5
  <2>3. CASE reserved = <<heap_region>>
    <3>1. c = heap_region /\ rest = <<>> /\ Len(reserved) = 1
      BY <1>3, <1>4, <2>3
    <3>2. DOMAIN reserved = {1} /\ reserved[1] = heap_region
      BY <2>3
    <3>3. DOMAIN rest = {}
      BY <3>1
    <3>4. rest \in Seq(Span)
      BY <3>1
    <3>5. \A f : f \in ReservedFrames <=> f \in Frames(c) \/ \E i \in DOMAIN rest : f \in Frames(rest[i])
      BY <2>0, <3>1, <3>2, <3>3
    <3> QED BY <1>6, <3>1, <3>4, <3>5
  <2> QED BY <1>8, <2>1, <2>2, <2>3
<1>10. PICK new : new = regions'
  OBVIOUS
<1>11. /\ new \in SUBSET Region
       /\ \A p, q \in new : p # q => Clear(p, q)
       /\ FramesOf(new) = FramesOf(regions) \ Frames(c)
  <2>1. \A p : p \in new <=> \E r \in regions : p \in CutOne(r, c)
    BY <1>5, <1>10
  <2>2. c \in Span /\ c.start <= c.end
    BY <1>9
  <2>3. regions \in SUBSET Region /\ \A p, q \in regions : p # q => Clear(p, q)
    BY <1>6
  <2> QED BY <2>1, <2>2, <2>3, CutAllLaw
<1>12. \A f : f \in ReservedFrames' <=> \E i \in DOMAIN rest : f \in Frames(rest[i])
  BY <1>5 DEF ReservedFrames
<1>13. FramesOf(new) \ ReservedFrames' = Available
  BY <1>6, <1>9, <1>11, <1>12
<1>14. FramesOf(regions)' = FramesOf(new)
  BY <1>10 DEF FramesOf
<1>15. stage' \in {"cut", "limit"}
  BY <1>5
<1>16. TypeOK'
  <2>1. TypeOK
    BY DEF MemoryInv
  <2> QED BY <1>1, <1>5, <1>9, <1>10, <1>11, <1>15, <2>1 DEF TypeOK
<1>17. StageInv'
  <2>1. free_list' = [s \in Space |-> <<>>] /\ owned' = {} /\ memory_map' \in MemoryMaps
    BY <1>1 DEF StageInv, MemoryInv, EmptyLists
  <2> QED BY <1>15, <2>1 DEF StageInv
<1>18. CutInv'
  <2>1. stage' = "cut" => reserved' \in {<<NullPage, KernelImage, heap_region'>>,
                                          <<KernelImage, heap_region'>>, <<heap_region'>>}
    BY <1>1, <1>5, <1>9
  <2> QED BY <1>1, <1>2, <1>6, <1>10, <1>11, <1>13, <1>14, <2>1 DEF CutInv
<1>19. LimitInv' /\ ListsInv'
  BY <1>15 DEF LimitInv, ListsInv
<1>20. OwnedInv'
  BY <1>1 DEF OwnedInv
<1>21. HeldInv'
  <2>1. CASE stage' = "cut"
    BY <2>1 DEF HeldInv
  <2>2. CASE stage' = "limit"
    <3>1. rest = <<>>
      BY <1>5, <1>9, <2>2
    <3>2. \A f : f \notin ReservedFrames'
      BY <1>12, <3>1
    <3>3. FramesOf(new) = Available
      BY <1>13, <3>2
    <3>4. Blocks("Kernel")' = Blocks("Kernel") /\ Blocks("User")' = Blocks("User")
      BY <1>1 DEF Blocks
    <3>5. FramesOf(Blocks("Kernel")) = {} /\ FramesOf(Blocks("User")) = {}
      BY <1>1, EmptyNoBlock DEF Space
    <3>6. FramesOf(owned)' = {}
      BY <1>1 DEF FramesOf
    <3>7. FramesOf(Blocks("Kernel"))' = {} /\ FramesOf(Blocks("User"))' = {}
      BY <3>4, <3>5 DEF FramesOf
    <3> QED BY <1>2, <1>14, <3>3, <3>6, <3>7 DEF HeldInv
  <2> QED BY <1>15, <2>1, <2>2
<1> QED BY <1>16, <1>17, <1>18, <1>19, <1>20, <1>21 DEF MemoryInv

\* A frame is in a set of ranges iff it is in one of them.
LEMMA FramesOfLaw ==
    ASSUME NEW rs, NEW f
    PROVE  f \in FramesOf(rs) <=> \E r \in rs : f \in Frames(r)
BY DEF FramesOf

\* A region has as many frames as count() says.
LEMMA RegionFrames ==
    ASSUME NEW r \in Region
    PROVE  /\ IsFiniteSet(Frames(r)) /\ Cardinality(Frames(r)) = r.end - r.start
           /\ Count(r) = r.end - r.start /\ Count(r) \in Nat
<1>1. r.start \in Nat /\ r.end \in Nat /\ r.start < r.end
  BY RegionLaw
<1>2. PICK a, b : a = r.start /\ b = r.end - 1
  OBVIOUS
<1>5. a \in Int /\ b \in Int /\ ~(a > b) /\ b - a + 1 = r.end - r.start
  BY <1>1, <1>2
<1>6. IsFiniteSet(a..b) /\ Cardinality(a..b) = IF a > b THEN 0 ELSE b - a + 1
  BY <1>5, FS_Interval
<1>3. IsFiniteSet((r.start)..(r.end - 1)) /\ Cardinality((r.start)..(r.end - 1)) = r.end - r.start
  BY <1>2, <1>5, <1>6
<1>4. Count(r) = r.end - r.start
  BY <1>1 DEF Count
<1> QED BY <1>1, <1>3, <1>4 DEF Frames

\* Frames of disjoint sets add up.
LEMMA DisjointUnion ==
    ASSUME NEW S, NEW T, IsFiniteSet(S), IsFiniteSet(T), S \cap T = {}
    PROVE  /\ IsFiniteSet(S \cup T)
           /\ Cardinality(S \cup T) = Cardinality(S) + Cardinality(T)
           /\ Cardinality(S) \in Nat /\ Cardinality(T) \in Nat
<1>1. IsFiniteSet(S \cup T)
        /\ Cardinality(S \cup T) = Cardinality(S) + Cardinality(T) - Cardinality(S \cap T)
  BY FS_Union
<1>2. Cardinality(S \cap T) = 0
  BY FS_EmptySet
<1>3. Cardinality(S) \in Nat /\ Cardinality(T) \in Nat
  BY FS_CardinalityType
<1> QED BY <1>1, <1>2, <1>3

\* PHYS_LIMIT is the end of the highest region.
LEMMA LimitsInv ==
    ASSUME MemoryInv, InitLimits
    PROVE  MemoryInv'
<1>1. /\ stage = "limit" /\ stage' = "tables" /\ memory_map' = memory_map /\ regions' = regions
      /\ reserved' = reserved /\ heap_region' = heap_region /\ kernel_phys_limit' = kernel_phys_limit
      /\ free_list' = free_list /\ owned' = owned
      /\ region_iter' = regions /\ available_kernel_memory' = 0
  BY DEF InitLimits
<1>2. Available' = Available
  BY <1>1, AvailableSame
<1>3. PICK r \in regions : (\A q \in regions : q.end <= r.end) /\ phys_limit' = r.end
  BY DEF InitLimits
<1>4. regions \subseteq Region /\ r.end \in Nat
  BY RegionLaw DEF MemoryInv, TypeOK
<1>5. TypeOK'
  BY <1>1, <1>3, <1>4 DEF MemoryInv, TypeOK
<1>6. StageInv'
  BY <1>1 DEF MemoryInv, StageInv
<1>7. CutInv'
  BY <1>1 DEF MemoryInv, CutInv
<1>8. LimitInv'
  <2>1. regions' \ region_iter' = {}
    BY <1>1
  <2>2. FramesOf({}) = {}
    BY DEF FramesOf
  <2>3. FramesOf(regions \ region_iter)' = FramesOf({})
    BY <2>1 DEF FramesOf
  <2>4. Cardinality(FramesOf(regions \ region_iter)') = 0
    BY <2>2, <2>3, FS_EmptySet
  <2>5. \A p \in regions' \ region_iter', q \in region_iter' : p.end <= q.start
    BY <2>1
  <2>6. available_kernel_memory' = Cardinality(FramesOf(regions \ region_iter))'
    BY <1>1, <2>4
  <2> QED BY <1>1, <1>3, <2>5, <2>6 DEF LimitInv
<1>9. ListsInv'
  BY <1>1 DEF ListsInv
<1>10. OwnedInv'
  BY <1>1 DEF MemoryInv, OwnedInv
<1>11. HeldInv'
  <2>1. Blocks("Kernel")' = Blocks("Kernel") /\ Blocks("User")' = Blocks("User")
    BY <1>1 DEF Blocks
  <2> QED BY <1>1, <1>2, <2>1 DEF MemoryInv, HeldInv
<1> QED BY <1>5, <1>6, <1>7, <1>8, <1>9, <1>10, <1>11 DEF MemoryInv

\* The loop over the regions: what the kernel has got so far and the next region.
LEMMA PassedLaw ==
    ASSUME MemoryInv, stage = "tables", NEW r \in NextRegion
    PROVE  /\ r \in regions /\ r \in region_iter /\ r \in Region
           /\ \A q \in region_iter \ {r} : r.end <= q.start
           /\ \A p \in regions \ region_iter : p.end <= r.start
           /\ IsFiniteSet(FramesOf(regions \ region_iter))
           /\ \A f \in FramesOf(regions \ region_iter) : f \in Nat /\ f < r.start
           /\ available_kernel_memory = Cardinality(FramesOf(regions \ region_iter))
<1>1. r \in region_iter /\ \A q \in region_iter : r.start <= q.start
  BY DEF NextRegion
<1>2. /\ region_iter \subseteq regions /\ regions \subseteq Region
      /\ \A p, q \in regions : p # q => Clear(p, q)
      /\ \A p \in regions \ region_iter, q \in region_iter : p.end <= q.start
      /\ available_kernel_memory = Cardinality(FramesOf(regions \ region_iter))
  BY DEF MemoryInv, TypeOK, CutInv, LimitInv
<1>3. ASSUME NEW q \in region_iter \ {r}
      PROVE  r.end <= q.start
  <2>1. Clear(r, q) /\ r.start <= q.start
    BY <1>1, <1>2
  <2>2. r.start \in Nat /\ r.end \in Nat /\ r.start < r.end
    BY <1>1, <1>2, RegionLaw
  <2>3. q.start \in Nat /\ q.end \in Nat /\ q.start < q.end
    BY <1>2, RegionLaw
  <2> QED BY <2>1, <2>2, <2>3 DEF Clear
<1>4. ASSUME NEW f \in FramesOf(regions \ region_iter)
      PROVE  f \in Nat /\ f < r.start
  <2>1. PICK p \in regions \ region_iter : f \in Frames(p)
    BY FramesOfLaw
  <2>2. p \in Span /\ p.end \in Nat /\ p.end <= r.start
    BY <1>1, <1>2, RegionLaw
  <2>3. f \in Nat /\ f < p.end
    BY <2>1, <2>2, FramesLaw
  <2>4. r.start \in Nat
    BY <1>1, <1>2, RegionLaw
  <2> QED BY <2>2, <2>3, <2>4
<1>5. IsFiniteSet(FramesOf(regions \ region_iter))
  <2>1. r.start \in Nat
    BY <1>1, <1>2, RegionLaw
  <2>2. \A f \in FramesOf(regions \ region_iter) : f <= r.start
    BY <1>4, <2>1
  <2> QED BY <1>4, <2>1, <2>2, FS_BoundedSetOfNaturals
<1> QED BY <1>1, <1>2, <1>3, <1>4, <1>5

\* A region that the loop passes adds its frames to what it has counted.
LEMMA TakeRegionInv ==
    ASSUME MemoryInv, TakeRegion
    PROVE  MemoryInv'
<1>1. /\ stage = "tables" /\ stage' = "tables" /\ memory_map' = memory_map /\ regions' = regions
      /\ reserved' = reserved /\ heap_region' = heap_region /\ kernel_phys_limit' = kernel_phys_limit
      /\ free_list' = free_list /\ owned' = owned /\ phys_limit' = phys_limit
  BY DEF TakeRegion
<1>2. Available' = Available
  BY <1>1, AvailableSame
<1>3. PICK r \in NextRegion : /\ available_kernel_memory' = available_kernel_memory + Count(r)
                              /\ region_iter' = region_iter \ {r}
  BY DEF TakeRegion
<1>4. /\ r \in regions /\ r \in region_iter /\ r \in Region
      /\ \A q \in region_iter \ {r} : r.end <= q.start
      /\ \A p \in regions \ region_iter : p.end <= r.start
      /\ IsFiniteSet(FramesOf(regions \ region_iter))
      /\ \A f \in FramesOf(regions \ region_iter) : f \in Nat /\ f < r.start
      /\ available_kernel_memory = Cardinality(FramesOf(regions \ region_iter))
  BY <1>1, PassedLaw
<1>5. /\ region_iter \subseteq regions /\ regions \subseteq Region
      /\ \A p \in regions \ region_iter, q \in region_iter : p.end <= q.start
      /\ available_kernel_memory \in Nat
  BY <1>1 DEF MemoryInv, TypeOK, LimitInv
<1>6. PICK old : old = regions \ region_iter
  OBVIOUS
<1>7. regions \ region_iter' = old \cup {r}
  BY <1>3, <1>4, <1>6
<1>8. FramesOf(old \cup {r}) = FramesOf(old) \cup Frames(r)
  BY DEF FramesOf
<1>9. FramesOf(old) \cap Frames(r) = {}
  <2>1. r \in Span /\ r.start \in Nat
    BY <1>4, RegionLaw
  <2>2. \A f \in Frames(r) : f \in Nat /\ r.start <= f
    BY <2>1, FramesLaw
  <2>3. \A f \in FramesOf(old) : f \in Nat /\ f < r.start
    BY <1>4, <1>6
  <2>4. ASSUME NEW f \in FramesOf(old), f \in Frames(r)
        PROVE  FALSE
    BY <2>1, <2>2, <2>3, <2>4
  <2> QED BY <2>4
<1>10. Cardinality(FramesOf(old \cup {r})) = available_kernel_memory + Count(r)
  <2>1. IsFiniteSet(Frames(r)) /\ Cardinality(Frames(r)) = Count(r)
    BY <1>4, RegionFrames
  <2>2. IsFiniteSet(FramesOf(old)) /\ Cardinality(FramesOf(old)) = available_kernel_memory
    BY <1>4, <1>6
  <2> QED BY <1>8, <1>9, <2>1, <2>2, DisjointUnion
<1>11. TypeOK'
  <2>1. Count(r) \in Nat
    BY <1>4, RegionFrames
  <2> QED BY <1>1, <1>3, <1>5, <2>1 DEF MemoryInv, TypeOK
<1>12. StageInv'
  BY <1>1 DEF MemoryInv, StageInv
<1>13. CutInv'
  BY <1>1 DEF MemoryInv, CutInv
<1>14. LimitInv'
  <2>1. (regions \ region_iter)' = old \cup {r}
    BY <1>1, <1>7
  <2>2. available_kernel_memory' = Cardinality(FramesOf(regions \ region_iter))'
    BY <1>3, <1>10, <2>1 DEF FramesOf
  <2>3. \A p \in old \cup {r}, q \in region_iter' : p.end <= q.start
    BY <1>3, <1>4, <1>5, <1>6
  <2>4. /\ \E p \in regions : p.end = phys_limit
        /\ \A p \in regions : p.end <= phys_limit
    BY <1>1 DEF MemoryInv, LimitInv
  <2>5. region_iter' \subseteq regions
    BY <1>3, <1>5
  <2> QED BY <1>1, <2>1, <2>2, <2>3, <2>4, <2>5 DEF LimitInv
<1>15. ListsInv'
  BY <1>1 DEF ListsInv
<1>16. OwnedInv'
  BY <1>1 DEF MemoryInv, OwnedInv
<1>17. HeldInv'
  <2>1. Blocks("Kernel")' = Blocks("Kernel") /\ Blocks("User")' = Blocks("User")
    BY <1>1 DEF Blocks
  <2> QED BY <1>1, <1>2, <2>1 DEF MemoryInv, HeldInv
<1> QED BY <1>11, <1>12, <1>13, <1>14, <1>15, <1>16, <1>17 DEF MemoryInv

\* Max is the greatest element.
LEMMA MaxLaw ==
    ASSUME NEW S \in SUBSET Nat, NEW m \in S, \A x \in S : x <= m
    PROVE  Max(S) = m
<1>1. PICK k : k = Max(S)
  OBVIOUS
<1>2. \E x \in S : \A y \in S : x >= y
  BY SMT
<1>3. k \in S /\ \A y \in S : k >= y
  BY <1>1, <1>2 DEF Max
<1>4. k \in Nat /\ m \in Nat /\ k >= m /\ k <= m
  BY <1>3
<1>5. k = m
  BY <1>4
<1> QED BY <1>1, <1>5

\* The loop ends: the frames it has counted and the required ones are
\* different available frames below the limit, and the highest available frame
\* is the one before PHYS_LIMIT.
LEMMA TakeRequiredInv ==
    ASSUME MemoryInv, TakeRequired
    PROVE  MemoryInv'
<1>1. /\ stage = "tables" /\ stage' = "fill" /\ memory_map' = memory_map /\ regions' = regions
      /\ reserved' = reserved /\ heap_region' = heap_region
      /\ free_list' = free_list /\ owned' = owned /\ phys_limit' = phys_limit
      /\ free_list = EmptyLists /\ owned = {}
  BY DEF TakeRequired, MemoryInv, StageInv, EmptyLists
<1>2. Available' = Available
  BY <1>1, AvailableSame
<1>29. PICK r \in NextRegion : \E n \in 1..Count(r) :
         /\ available_kernel_memory + n = PageTables(phys_limit)
         /\ available_kernel_memory' = available_kernel_memory + n
         /\ region_iter' = region_iter \ {r}
         /\ kernel_phys_limit' = KernelLimit(r, n)
  BY DEF TakeRequired
<1>3. PICK n \in 1..Count(r) :
         /\ available_kernel_memory + n = PageTables(phys_limit)
         /\ available_kernel_memory' = available_kernel_memory + n
         /\ region_iter' = region_iter \ {r}
         /\ kernel_phys_limit' = KernelLimit(r, n)
  BY <1>29
<1>4. /\ r \in regions /\ r \in region_iter /\ r \in Region
      /\ IsFiniteSet(FramesOf(regions \ region_iter))
      /\ \A f \in FramesOf(regions \ region_iter) : f \in Nat /\ f < r.start
      /\ available_kernel_memory = Cardinality(FramesOf(regions \ region_iter))
  BY <1>1, PassedLaw
<1>5. /\ region_iter \subseteq regions /\ regions \subseteq Region /\ heap_region \in Span
      /\ available_kernel_memory \in Nat /\ phys_limit \in Nat
      /\ \E p \in regions : p.end = phys_limit
      /\ \A p \in regions : p.end <= phys_limit
  BY <1>1 DEF MemoryInv, TypeOK, LimitInv
<1>6. /\ r \in Span /\ r.start \in Nat /\ r.end \in Nat /\ r.start < r.end
      /\ Count(r) = r.end - r.start /\ n \in Nat /\ n >= 1 /\ r.start + n <= r.end
  <2>1. r \in Span /\ r.start \in Nat /\ r.end \in Nat /\ r.start < r.end
    BY <1>4, RegionLaw
  <2>2. Count(r) = r.end - r.start
    BY <1>4, RegionFrames
  <2>3. n \in Nat /\ n >= 1 /\ n <= r.end - r.start
    BY <2>1, <2>2
  <2> QED BY <2>1, <2>2, <2>3
<1>7. PICK L : L = kernel_phys_limit'
  OBVIOUS
<1>8. L \in Nat /\ heap_region.end <= L /\ r.start + n <= L
  <2>1. heap_region.end \in Nat
    BY <1>5 DEF Span
  <2>2. L = IF r.start + n < heap_region.end THEN heap_region.end ELSE r.start + n
    BY <1>3, <1>7 DEF KernelLimit
  <2> QED BY <1>6, <2>1, <2>2
<1>9. FramesOf(regions) = Available
  <2>1. FramesOf(Blocks("Kernel")) = {} /\ FramesOf(Blocks("User")) = {}
    BY <1>1, EmptyNoBlock DEF Space
  <2>2. FramesOf(owned) = {}
    BY <1>1 DEF FramesOf
  <2> QED BY <1>1, <2>1, <2>2 DEF MemoryInv, HeldInv
<1>10. \A f \in Available : f \in Nat /\ f < phys_limit
  <2>1. ASSUME NEW f \in Available
        PROVE  f \in Nat /\ f < phys_limit
    <3>1. PICK p \in regions : f \in Frames(p)
      BY <1>9, FramesOfLaw
    <3>2. p \in Span /\ p.end \in Nat /\ p.end <= phys_limit
      BY <1>5, RegionLaw
    <3>3. f \in Nat /\ f < p.end
      BY <3>1, <3>2, FramesLaw
    <3> QED BY <1>5, <3>2, <3>3
  <2> QED BY <2>1
<1>11. Max(Available) + 1 = phys_limit
  <2>1. PICK p \in regions : p.end = phys_limit
    BY <1>5
  <2>2. p \in Span /\ p.start \in Nat /\ p.end \in Nat /\ p.start < p.end
    BY <1>5, <2>1, RegionLaw
  <2>3. phys_limit - 1 \in Nat /\ p.start <= phys_limit - 1 /\ phys_limit - 1 < p.end
    BY <2>1, <2>2
  <2>4. phys_limit - 1 \in Frames(p)
    BY <2>2, <2>3, FramesLaw
  <2>5. phys_limit - 1 \in Available
    BY <1>9, <2>4, FramesOfLaw
  <2>6. \A f \in Available : f <= phys_limit - 1
    BY <1>5, <1>10
  <2>7. Available \in SUBSET Nat
    BY <1>10
  <2>8. Max(Available) = phys_limit - 1
    BY <2>5, <2>6, <2>7, MaxLaw
  <2> QED BY <1>5, <2>8
<1>12. PICK old : old = FramesOf(regions \ region_iter)
  OBVIOUS
<1>13. PICK part : part = (r.start)..(r.start + n - 1)
  OBVIOUS
<1>14. IsFiniteSet(part) /\ Cardinality(part) = n
  <2>1. PICK b : b = r.start + n - 1
    OBVIOUS
  <2>2. b \in Int /\ r.start \in Int /\ ~(r.start > b) /\ b - r.start + 1 = n
    BY <1>6, <2>1
  <2>3. IsFiniteSet((r.start)..b) /\ Cardinality((r.start)..b) = IF r.start > b THEN 0 ELSE b - r.start + 1
    BY <2>2, FS_Interval
  <2> QED BY <1>13, <2>1, <2>2, <2>3
<1>15. \A f : f \in part <=> f \in Nat /\ r.start <= f /\ f < r.start + n
  BY <1>6, <1>13
<1>16. old \cap part = {}
  <2>1. \A f \in old : f \in Nat /\ f < r.start
    BY <1>4, <1>12
  <2>2. ASSUME NEW f \in old, f \in part
        PROVE  FALSE
    BY <1>6, <1>15, <2>1, <2>2
  <2> QED BY <2>2
<1>17. Cardinality(old \cup part) = PageTables(phys_limit)
  <2>1. IsFiniteSet(old) /\ Cardinality(old) = available_kernel_memory
    BY <1>4, <1>12
  <2>2. Cardinality(old \cup part) = Cardinality(old) + Cardinality(part)
    BY <1>14, <1>16, <2>1, DisjointUnion
  <2> QED BY <1>3, <1>14, <2>1, <2>2
<1>18. PICK K : K = {f \in Available : f < L}
  OBVIOUS
<1>19. IsFiniteSet(K)
  <2>1. K \in SUBSET Nat /\ \A f \in K : f <= L
    BY <1>8, <1>10, <1>18
  <2> QED BY <1>8, <2>1, FS_BoundedSetOfNaturals
<1>20. old \cup part \in SUBSET K
  <2>1. ASSUME NEW f \in old
        PROVE  f \in K
    <3>1. f \in Nat /\ f < r.start
      BY <1>4, <1>12
    <3>2. PICK p \in regions \ region_iter : f \in Frames(p)
      BY <1>12, FramesOfLaw
    <3>3. f \in Available
      BY <1>9, <3>2, FramesOfLaw
    <3> QED BY <1>6, <1>8, <1>18, <3>1, <3>3
  <2>2. ASSUME NEW f \in part
        PROVE  f \in K
    <3>1. f \in Nat /\ r.start <= f /\ f < r.start + n
      BY <1>15
    <3>2. f \in Frames(r)
      BY <1>6, <3>1, FramesLaw
    <3>3. f \in Available
      BY <1>4, <1>9, <3>2, FramesOfLaw
    <3> QED BY <1>6, <1>8, <1>18, <3>1, <3>3
  <2> QED BY <2>1, <2>2
<1>21. Cardinality(K) >= PageTables(Max(Available) + 1)
  <2>1. Cardinality(old \cup part) <= Cardinality(K)
    BY <1>19, <1>20, FS_Subset
  <2>2. Cardinality(K) \in Nat
    BY <1>19, FS_CardinalityType
  <2>3. available_kernel_memory + n \in Nat
    BY <1>5, <1>6
  <2>4. PageTables(phys_limit) \in Nat
    BY <1>3, <2>3
  <2>5. Cardinality(K) >= PageTables(phys_limit)
    BY <1>17, <2>1, <2>2, <2>4
  <2> QED BY <1>11, <2>5
<1>22. TypeOK'
  <2>1. available_kernel_memory' \in Nat /\ region_iter' \subseteq Region
    BY <1>3, <1>5, <1>6
  <2> QED BY <1>1, <1>7, <1>8, <2>1 DEF MemoryInv, TypeOK
<1>23. StageInv'
  <2>1. memory_map' \in MemoryMaps /\ owned' = {}
    BY <1>1 DEF MemoryInv, StageInv
  <2> QED BY <1>1, <2>1 DEF StageInv
<1>24. CutInv'
  BY <1>1 DEF MemoryInv, CutInv
<1>25. LimitInv'
  <2>1. {f \in Available : f < kernel_phys_limit}' = K
    BY <1>2, <1>7, <1>18
  <2>2. PageTables(Max(Available) + 1)' = PageTables(Max(Available) + 1)
    BY <1>2
  <2>3. Cardinality({f \in Available : f < kernel_phys_limit})' >= PageTables(Max(Available) + 1)'
    BY <1>21, <2>1, <2>2
  <2> QED BY <1>1, <1>7, <1>8, <2>3 DEF LimitInv
<1>26. ListsInv'
  <2>1. \A s \in Space : free_list'[s] = <<>> /\ Separated(free_list'[s])
    BY <1>1, EmptyListsLaw
  <2>2. DOMAIN <<>> = {}
    OBVIOUS
  <2> QED BY <1>1, <2>1, <2>2 DEF ListsInv, Space
<1>27. OwnedInv'
  BY <1>1 DEF OwnedInv
<1>28. HeldInv'
  <2>1. Blocks("Kernel")' = Blocks("Kernel") /\ Blocks("User")' = Blocks("User")
    BY <1>1 DEF Blocks
  <2> QED BY <1>1, <1>2, <2>1 DEF MemoryInv, HeldInv
<1> QED BY <1>22, <1>23, <1>24, <1>25, <1>26, <1>27, <1>28 DEF MemoryInv

\* Filing a region: each of the two lists grows by the part on its side of the limit.
LEMMA FilledLaw ==
    ASSUME TypeOK, ListsInv, stage = "fill", NEW r \in regions, NEW new, new = Filled(r)
    PROVE  /\ new \in [Space -> Seq(Span)]
           /\ \A s \in Space : Separated(new[s])
           /\ Cover(new["Kernel"]) \cup Cover(new["User"])
                = Cover(free_list["Kernel"]) \cup Cover(free_list["User"]) \cup Frames(r)
           /\ \A i \in 1..Len(new["Kernel"]) : new["Kernel"][i].end <= kernel_phys_limit
           /\ \A i \in 1..Len(new["User"]) : new["User"][i].start >= kernel_phys_limit
           /\ \A s \in Space : \A i \in 1..Len(new[s]) : new[s][i].end <= r.end
<1> DEFINE L == kernel_phys_limit
           K == free_list["Kernel"]
           U == free_list["User"]
<1>1. /\ r \in Region /\ L \in Nat /\ K \in Seq(Span) /\ U \in Seq(Span)
      /\ free_list \in [Space -> Seq(Span)]
  BY DEF TypeOK, Space
<1>2. r \in Span /\ r.start \in Nat /\ r.end \in Nat /\ r.start < r.end
  BY <1>1, RegionLaw
<1>3. /\ DOMAIN K = 1..Len(K) /\ Len(K) \in Nat
      /\ \A k \in 1..Len(K) : K[k] \in Span /\ K[k].start \in Nat /\ K[k].end \in Nat
  BY <1>1, SpanLaw
<1>4. /\ DOMAIN U = 1..Len(U) /\ Len(U) \in Nat
      /\ \A k \in 1..Len(U) : U[k] \in Span /\ U[k].start \in Nat /\ U[k].end \in Nat
  BY <1>1, SpanLaw
<1>5. /\ Separated(K) /\ Separated(U)
      /\ \A i \in 1..Len(K) : K[i].end <= L /\ K[i].end <= r.start
      /\ \A i \in 1..Len(U) : U[i].start >= L /\ U[i].end <= r.start
  BY <1>3, <1>4 DEF ListsInv, Space
<1>6. \A i \in 1..Len(U) : U[i].start <= U[i].end
  BY <1>4, <1>5 DEF Separated
<1>7. Space = {"Kernel", "User"} /\ "Kernel" # "User"
  BY DEF Space
<1>8. \A s \in Space : s = "Kernel" \/ s = "User"
  BY <1>7
<1> HIDE DEF L, K, U
<1>9. CASE r.start < L /\ r.end >= L
  <2>1. PICK low : low = [start |-> r.start, end |-> L]
    OBVIOUS
  <2>2. PICK high : high = [start |-> L, end |-> r.end]
    OBVIOUS
  <2>3. /\ low \in Span /\ low.start = r.start /\ low.end = L
        /\ high \in Span /\ high.start = L /\ high.end = r.end
    BY <1>1, <1>2, <2>1, <2>2 DEF Span
  <2>4. Owner(low) = "Kernel" /\ Owner(high) = "User"
    BY <1>1, <1>9, <2>3 DEF Owner, L
  <2>5. new = Freed(Freed(free_list, low), high)
    BY <1>9, <2>1, <2>2 DEF Filled, L
  <2>6. new["Kernel"] = FreeBlock(K, low) /\ new["User"] = FreeBlock(U, high) /\ DOMAIN new = Space
    BY <1>1, <1>7, <2>4, <2>5 DEF Freed, K, U
  <2>7. \A i \in 1..Len(U) : FALSE
    BY <1>1, <1>2, <1>4, <1>5, <1>6, <1>9
  <2>8. U = <<>>
    <3>1. Len(U) = 0
      BY <1>4, <2>7
    <3> QED BY <1>1, <3>1
  <2>9. /\ FreeBlock(K, low) \in Seq(Span)
        /\ Separated(FreeBlock(K, low))
        /\ Cover(FreeBlock(K, low)) = Cover(K) \cup Frames(low)
        /\ \A i \in 1..Len(FreeBlock(K, low)) : FreeBlock(K, low)[i].end <= low.end
    <3>1. low.start < low.end /\ low.start <= low.end
      BY <1>1, <1>2, <1>9, <2>3
    <3>2. \A i \in 1..Len(K) : K[i].end <= low.start
      BY <1>5, <2>3
    <3> QED BY <1>1, <1>5, <2>3, <3>1, <3>2, FiledLaw
  <2>10. /\ FreeBlock(U, high) \in Seq(Span)
         /\ Separated(FreeBlock(U, high))
         /\ Cover(FreeBlock(U, high)) = Cover(U) \cup Frames(high)
         /\ \A i \in 1..Len(FreeBlock(U, high)) :
              /\ FreeBlock(U, high)[i].end <= high.end
              /\ \/ FreeBlock(U, high)[i].start = high.start
                 \/ \E j \in 1..Len(U) : FreeBlock(U, high)[i].start = U[j].start
    <3>1. high.start <= high.end
      BY <1>1, <1>2, <1>9, <2>3
    <3>2. \A i \in 1..Len(U) : U[i].end <= high.start
      BY <2>7
    <3> QED BY <1>1, <1>5, <2>3, <2>8, <3>1, <3>2, FiledLaw
  <2>11. \A f : f \in Frames(r) <=> f \in Frames(low) \/ f \in Frames(high)
    <3>1. ASSUME NEW f
          PROVE  f \in Frames(r) <=> f \in Frames(low) \/ f \in Frames(high)
      <4>1. f \in Frames(r) <=> f \in Nat /\ r.start <= f /\ f < r.end
        BY <1>2, FramesLaw
      <4>2. f \in Frames(low) <=> f \in Nat /\ r.start <= f /\ f < L
        BY <2>3, FramesLaw
      <4>3. f \in Frames(high) <=> f \in Nat /\ L <= f /\ f < r.end
        BY <2>3, FramesLaw
      <4> QED BY <1>1, <1>2, <1>9, <4>1, <4>2, <4>3
    <3> QED BY <3>1
  <2>12. PICK nk, nu : nk = FreeBlock(K, low) /\ nu = FreeBlock(U, high)
    OBVIOUS
  <2>13. new["Kernel"] = nk /\ new["User"] = nu
    BY <2>6, <2>12
  <2>14. /\ nk \in Seq(Span) /\ Separated(nk) /\ Cover(nk) = Cover(K) \cup Frames(low)
         /\ \A i \in 1..Len(nk) : nk[i].end <= L
    BY <2>3, <2>9, <2>12
  <2>15. /\ nu \in Seq(Span) /\ Separated(nu) /\ Cover(nu) = Cover(U) \cup Frames(high)
         /\ \A i \in 1..Len(nu) : nu[i].end <= r.end /\ nu[i].start = L
    BY <2>3, <2>7, <2>10, <2>12
  <2>16. new \in [Space -> Seq(Span)]
    <3>1. new \in [Space -> Seq(Span)] <=> DOMAIN new = Space /\ \A s \in Space : new[s] \in Seq(Span)
      <4>1. \E f0 : new = [s \in Space |-> f0[s]]
        BY <1>1, <2>5 DEF Freed
      <4> QED BY <4>1
    <3> QED BY <1>8, <2>6, <2>13, <2>14, <2>15, <3>1
  <2>17. \A i \in 1..Len(nk) : nk[i].end <= r.end
    <3>1. \A i \in 1..Len(nk) : nk[i] \in Span /\ nk[i].end \in Nat
      BY <2>14, SpanLaw
    <3> QED BY <1>1, <1>2, <1>9, <2>14, <3>1
  <2>18. \A i \in 1..Len(nu) : nu[i].start >= L
    BY <1>1, <2>15
  <2>19. Cover(nk) \cup Cover(nu) = Cover(K) \cup Cover(U) \cup Frames(r)
    BY <2>11, <2>14, <2>15
  <2> QED BY <1>8, <2>13, <2>14, <2>15, <2>16, <2>17, <2>18, <2>19 DEF L, K, U
<1>10. CASE r.start >= L
  <2>1. new = Freed(free_list, r) /\ Owner(r) = "User"
    BY <1>1, <1>2, <1>10 DEF Filled, Owner, L
  <2>2. /\ new["Kernel"] = K /\ new["User"] = FreeBlock(U, r)
    BY <1>1, <1>7, <2>1 DEF Freed, K, U
  <2>3. /\ FreeBlock(U, r) \in Seq(Span)
        /\ Separated(FreeBlock(U, r))
        /\ Cover(FreeBlock(U, r)) = Cover(U) \cup Frames(r)
        /\ \A i \in 1..Len(FreeBlock(U, r)) :
             /\ FreeBlock(U, r)[i].end <= r.end
             /\ \/ FreeBlock(U, r)[i].start = r.start
                \/ \E j \in 1..Len(U) : FreeBlock(U, r)[i].start = U[j].start
    <3>1. r.start <= r.end
      BY <1>2
    <3>2. \A i \in 1..Len(U) : U[i].end <= r.start
      BY <1>5
    <3> QED BY <1>1, <1>2, <1>5, <3>1, <3>2, FiledLaw
  <2>4. PICK nu : nu = FreeBlock(U, r)
    OBVIOUS
  <2>5. /\ nu \in Seq(Span) /\ Separated(nu) /\ Cover(nu) = Cover(U) \cup Frames(r)
        /\ \A i \in 1..Len(nu) : nu[i].end <= r.end
        /\ new["User"] = nu
    BY <2>2, <2>3, <2>4
  <2>6. \A i \in 1..Len(nu) : nu[i].start >= L
    BY <1>5, <1>10, <2>3, <2>4
  <2>7. new \in [Space -> Seq(Span)]
    <3>1. new = [free_list EXCEPT !["User"] = nu]
      BY <2>1, <2>4 DEF Freed, U
    <3> QED BY <1>1, <2>5, <3>1
  <2>8. \A i \in 1..Len(K) : K[i].end <= r.end
    BY <1>2, <1>3, <1>5
  <2>9. Cover(K) \cup Cover(nu) = Cover(K) \cup Cover(U) \cup Frames(r)
    BY <2>5
  <2> QED BY <1>5, <1>8, <2>2, <2>5, <2>6, <2>7, <2>8, <2>9 DEF L, K, U
<1>11. CASE r.start < L /\ r.end < L
  <2>1. new = Freed(free_list, r) /\ Owner(r) = "Kernel"
    BY <1>1, <1>2, <1>11 DEF Filled, Owner, L
  <2>2. /\ new["User"] = U /\ new["Kernel"] = FreeBlock(K, r)
    BY <1>1, <1>7, <2>1 DEF Freed, K, U
  <2>3. /\ FreeBlock(K, r) \in Seq(Span)
        /\ Separated(FreeBlock(K, r))
        /\ Cover(FreeBlock(K, r)) = Cover(K) \cup Frames(r)
        /\ \A i \in 1..Len(FreeBlock(K, r)) : FreeBlock(K, r)[i].end <= r.end
    <3>1. r.start <= r.end
      BY <1>2
    <3>2. \A i \in 1..Len(K) : K[i].end <= r.start
      BY <1>5
    <3> QED BY <1>1, <1>2, <1>5, <3>1, <3>2, FiledLaw
  <2>4. PICK nk : nk = FreeBlock(K, r)
    OBVIOUS
  <2>5. /\ nk \in Seq(Span) /\ Separated(nk) /\ Cover(nk) = Cover(K) \cup Frames(r)
        /\ \A i \in 1..Len(nk) : nk[i].end <= r.end
        /\ new["Kernel"] = nk
    BY <2>2, <2>3, <2>4
  <2>6. \A i \in 1..Len(nk) : nk[i].end <= L
    <3>1. \A i \in 1..Len(nk) : nk[i].end \in Nat
      BY <2>5, SpanLaw
    <3> QED BY <1>1, <1>2, <1>11, <2>5, <3>1
  <2>7. new \in [Space -> Seq(Span)]
    <3>1. new = [free_list EXCEPT !["Kernel"] = nk]
      BY <2>1, <2>4 DEF Freed, K
    <3> QED BY <1>1, <2>5, <3>1
  <2>8. \A i \in 1..Len(U) : U[i].end <= r.end
    BY <1>2, <1>4, <1>5
  <2>9. Cover(nk) \cup Cover(U) = Cover(K) \cup Cover(U) \cup Frames(r)
    BY <2>5
  <2> QED BY <1>5, <1>8, <2>2, <2>5, <2>6, <2>7, <2>8, <2>9 DEF L, K, U
<1> QED BY <1>1, <1>2, <1>9, <1>10, <1>11

\* Filing the lowest region that is left.
LEMMA FillInv ==
    ASSUME MemoryInv, InitRegion
    PROVE  MemoryInv'
<1>1. /\ stage = "fill" /\ memory_map' = memory_map /\ reserved' = reserved
      /\ heap_region' = heap_region /\ phys_limit' = phys_limit /\ region_iter' = region_iter
      /\ available_kernel_memory' = available_kernel_memory
      /\ kernel_phys_limit' = kernel_phys_limit /\ owned' = owned /\ owned = {}
  BY DEF InitRegion, limitVars, MemoryInv, StageInv
<1>2. Available' = Available
  BY <1>1, AvailableSame
<1>3. PICK r \in regions : /\ \A q \in regions : r.start <= q.start
                           /\ free_list' = Filled(r)
                           /\ regions' = regions \ {r}
  BY DEF InitRegion
<1>4. stage' = IF regions' = {} THEN "up" ELSE "fill"
  BY DEF InitRegion
<1>5. PICK new : new = free_list'
  OBVIOUS
<1>6. TypeOK /\ ListsInv /\ CutInv /\ LimitInv /\ HeldInv /\ StageInv
  BY DEF MemoryInv
<1>7. /\ new \in [Space -> Seq(Span)]
      /\ \A s \in Space : Separated(new[s])
      /\ Cover(new["Kernel"]) \cup Cover(new["User"])
           = Cover(free_list["Kernel"]) \cup Cover(free_list["User"]) \cup Frames(r)
      /\ \A i \in 1..Len(new["Kernel"]) : new["Kernel"][i].end <= kernel_phys_limit
      /\ \A i \in 1..Len(new["User"]) : new["User"][i].start >= kernel_phys_limit
      /\ \A s \in Space : \A i \in 1..Len(new[s]) : new[s][i].end <= r.end
  BY <1>1, <1>3, <1>5, <1>6, FilledLaw
<1>8. \A s \in Space : /\ DOMAIN new[s] = 1..Len(new[s])
                       /\ \A i \in 1..Len(new[s]) : new[s][i].end \in Nat
  BY <1>7, SpanLaw
<1>9. regions \subseteq Region /\ \A p, q \in regions : p # q => Clear(p, q)
  BY <1>6 DEF TypeOK, CutInv
<1>10. ASSUME NEW q \in regions'
       PROVE  r.end <= q.start /\ q.start \in Nat /\ r.end \in Nat
  <2>1. q \in regions /\ q # r /\ r.start <= q.start
    BY <1>3
  <2>2. Clear(r, q)
    BY <1>9, <2>1
  <2>3. r.start \in Nat /\ r.end \in Nat /\ r.start < r.end
    BY <1>9, RegionLaw
  <2>4. q.start \in Nat /\ q.end \in Nat /\ q.start < q.end
    BY <1>9, <2>1, RegionLaw
  <2> QED BY <2>1, <2>2, <2>3, <2>4 DEF Clear
<1>11. stage' \in {"fill", "up"}
  BY <1>4
<1>12. TypeOK'
  <2>1. regions' \subseteq Region
    BY <1>3, <1>9
  <2> QED BY <1>1, <1>5, <1>6, <1>7, <1>11, <2>1 DEF TypeOK
<1>13. StageInv'
  <2>1. memory_map' \in MemoryMaps /\ owned' = {} /\ (stage' = "up" => regions' = {})
    BY <1>1, <1>4, <1>6 DEF StageInv
  <2> QED BY <1>11, <2>1 DEF StageInv
<1>14. CutInv'
  <2>1. \A p, q \in regions' : p # q => Clear(p, q)
    BY <1>3, <1>9
  <2> QED BY <1>1, <1>6, <1>11, <2>1 DEF CutInv
<1>15. LimitInv'
  BY <1>1, <1>2, <1>6, <1>11 DEF LimitInv
<1>16. ListsInv'
  <2>1. \A s \in Space : \A i \in DOMAIN new[s], q \in regions' : new[s][i].end <= q.start
    BY <1>7, <1>8, <1>10
  <2>2. "Kernel" \in Space /\ "User" \in Space
    BY DEF Space
  <2> QED BY <1>1, <1>5, <1>7, <1>8, <2>1, <2>2 DEF ListsInv
<1>17. OwnedInv'
  BY <1>1 DEF OwnedInv
<1>18. HeldInv'
  <2>1. FramesOf(Blocks("Kernel")) = Cover(free_list["Kernel"]) /\ FramesOf(Blocks("User")) = Cover(free_list["User"])
    BY BlocksCover
  <2>2. FramesOf(Blocks("Kernel"))' = Cover(new["Kernel"]) /\ FramesOf(Blocks("User"))' = Cover(new["User"])
    BY <1>5 DEF FramesOf, Blocks, Cover
  <2>3. FramesOf(regions) = FramesOf(regions)' \cup Frames(r)
    <3>1. regions = regions' \cup {r}
      BY <1>3
    <3>2. PICK rs : rs = regions'
      OBVIOUS
    <3>3. FramesOf(rs \cup {r}) = FramesOf(rs) \cup Frames(r)
      BY DEF FramesOf
    <3>4. FramesOf(regions)' = FramesOf(rs)
      BY <3>2 DEF FramesOf
    <3> QED BY <3>1, <3>2, <3>3, <3>4
  <2>4. FramesOf(owned)' = FramesOf(owned)
    BY <1>1 DEF FramesOf
  <2>5. FramesOf(regions) \cup FramesOf(owned)
            \cup FramesOf(Blocks("Kernel")) \cup FramesOf(Blocks("User")) = Available
    BY <1>1, <1>6 DEF HeldInv
  <2>6. FramesOf(regions)' \cup FramesOf(owned)'
            \cup FramesOf(Blocks("Kernel"))' \cup FramesOf(Blocks("User"))' = Available
    BY <1>7, <2>1, <2>2, <2>3, <2>4, <2>5
  <2> QED BY <1>2, <2>6 DEF HeldInv
<1> QED BY <1>12, <1>13, <1>14, <1>15, <1>16, <1>17, <1>18 DEF MemoryInv

\* First fit: what the step takes out of the block at i of the list of s.
AllocFrom(s, n, old, new, i) ==
    /\ n \in Nat \ {0}
    /\ old[i].start + n <= old[i].end
    /\ owned' = owned \cup {[start |-> old[i].start, end |-> old[i].start + n]}
    /\ \A t \in Space : t # s => free_list'[t] = free_list[t]
    /\ free_list' \in [Space -> Seq(Span)]
    /\ Separated(new)
    /\ Cover(new) = Cover(old) \ (old[i].start)..(old[i].start + n - 1)
    /\ \A k \in 1..Len(new) : \E j \in 1..Len(old) :
         /\ old[j].start <= new[k].start
         /\ new[k].end = old[j].end
         /\ j = i => old[i].start + n <= new[k].start

\* alloc_block is AllocFrom for some block.
LEMMA AllocLaw ==
    ASSUME MemoryInv, NEW s \in Space, NEW n \in AllocSizes, Alloc(s, n)
    PROVE  \E i \in 1..Len(free_list[s]) : AllocFrom(s, n, free_list[s], free_list'[s], i)
<1>1. stage = "up" /\ TypeOK /\ ListsInv
  BY DEF Alloc, MemoryInv
<1>2. n \in Nat \ {0}
  BY MemoryAssumption
<1>3. PICK list : list = free_list[s]
  OBVIOUS
<1>4. list \in Seq(Span) /\ Separated(list) /\ free_list \in [Space -> Seq(Span)]
  BY <1>1, <1>3 DEF TypeOK, ListsInv
<1>5. PICK i \in FindFreeBlock(list, n) :
        /\ owned' = owned \cup {Taken(list, i, n)}
        /\ free_list' = [free_list EXCEPT ![s] = Rest(list, i, n)]
  <2>1. \E i \in FindFreeBlock(free_list[s], n) :
          /\ owned' = owned \cup {Taken(free_list[s], i, n)}
          /\ free_list' = [free_list EXCEPT ![s] = Rest(free_list[s], i, n)]
    BY DEF Alloc
  <2> QED BY <1>3, <2>1
<1>6. i \in 1..Len(list) /\ Count(list[i]) >= n
  <2>1. DOMAIN list = 1..Len(list)
    BY <1>4
  <2> QED BY <2>1 DEF FindFreeBlock, First
<1>7. PICK rst : rst = Rest(list, i, n)
  OBVIOUS
<1>8. /\ list[i].start + n <= list[i].end
      /\ rst \in Seq(Span)
      /\ Separated(rst)
      /\ Cover(rst) = Cover(list) \ (list[i].start)..(list[i].start + n - 1)
      /\ \A k \in 1..Len(rst) : \E j \in 1..Len(list) :
           /\ list[j].start <= rst[k].start
           /\ rst[k].end = list[j].end
           /\ j = i => list[i].start + n <= rst[k].start
  <2>1. /\ list[i].start + n <= list[i].end
        /\ Rest(list, i, n) \in Seq(Span)
        /\ Separated(Rest(list, i, n))
        /\ Cover(Rest(list, i, n)) = Cover(list) \ (list[i].start)..(list[i].start + n - 1)
        /\ \A k \in 1..Len(Rest(list, i, n)) : \E j \in 1..Len(list) :
             /\ list[j].start <= Rest(list, i, n)[k].start
             /\ Rest(list, i, n)[k].end = list[j].end
             /\ j = i => list[i].start + n <= Rest(list, i, n)[k].start
    <3>1. list \in Seq(Span) /\ Separated(list)
      BY <1>4
    <3> QED BY <1>2, <1>6, <3>1, RestInvLaw
  <2> QED BY <1>7, <2>1
<1>9. free_list' = [free_list EXCEPT ![s] = rst]
  BY <1>5, <1>7
<1>10. /\ free_list'[s] = rst /\ free_list' \in [Space -> Seq(Span)]
       /\ \A t \in Space : t # s => free_list'[t] = free_list[t]
  BY <1>4, <1>8, <1>9
<1>11. owned' = owned \cup {[start |-> list[i].start, end |-> list[i].start + n]}
  BY <1>5 DEF Taken
<1>12. AllocFrom(s, n, list, rst, i)
  BY <1>2, <1>8, <1>10, <1>11 DEF AllocFrom
<1>13. list = free_list[s] /\ rst = free_list'[s]
  BY <1>3, <1>10
<1> QED BY <1>6, <1>12, <1>13

\* An allocation moves frames from a block of the list to a block of the
\* caller's.
LEMMA AllocInv ==
    ASSUME MemoryInv, NEW s \in Space, NEW n \in AllocSizes, Alloc(s, n)
    PROVE  MemoryInv'
<1>1. /\ stage = "up" /\ stage' = "up" /\ memory_map' = memory_map /\ regions' = regions
      /\ reserved' = reserved /\ heap_region' = heap_region /\ phys_limit' = phys_limit
      /\ region_iter' = region_iter /\ available_kernel_memory' = available_kernel_memory
      /\ kernel_phys_limit' = kernel_phys_limit
  BY DEF Alloc, bootVars, limitVars
<1>2. Available' = Available
  BY <1>1, AvailableSame
<1>3. TypeOK /\ StageInv /\ CutInv /\ LimitInv /\ ListsInv /\ OwnedInv /\ HeldInv
  BY DEF MemoryInv
<1>4. PICK old, new : old = free_list[s] /\ new = free_list'[s]
  OBVIOUS
<1>21. PICK i \in 1..Len(old) : AllocFrom(s, n, old, new, i)
  BY <1>4, AllocLaw
<1>5.
             /\ n \in Nat \ {0}
             /\ old[i].start + n <= old[i].end
             /\ owned' = owned \cup {[start |-> old[i].start, end |-> old[i].start + n]}
             /\ \A t \in Space : t # s => free_list'[t] = free_list[t]
             /\ free_list' \in [Space -> Seq(Span)]
             /\ Separated(new)
             /\ Cover(new) = Cover(old) \ (old[i].start)..(old[i].start + n - 1)
             /\ \A k \in 1..Len(new) : \E j \in 1..Len(old) :
                  /\ old[j].start <= new[k].start
                  /\ new[k].end = old[j].end
                  /\ j = i => old[i].start + n <= new[k].start
  BY <1>21 DEF AllocFrom
<1>6. old \in Seq(Span) /\ new \in Seq(Span) /\ free_list \in [Space -> Seq(Span)] /\ Separated(old)
  BY <1>1, <1>3, <1>4, <1>5 DEF TypeOK, ListsInv
<1>7. /\ DOMAIN old = 1..Len(old) /\ Len(old) \in Nat
      /\ \A k \in 1..Len(old) : old[k] \in Span /\ old[k].start \in Nat /\ old[k].end \in Nat
  BY <1>6, SpanLaw
<1>8. /\ DOMAIN new = 1..Len(new) /\ Len(new) \in Nat
      /\ \A k \in 1..Len(new) : new[k] \in Span /\ new[k].start \in Nat /\ new[k].end \in Nat
  BY <1>6, SpanLaw
<1>9. \A k, j \in 1..Len(old) : k < j => old[k].end < old[j].start
  BY <1>6, <1>7 DEF Separated
<1>10. PICK b : b = [start |-> old[i].start, end |-> old[i].start + n]
  OBVIOUS
<1>11. /\ b.start = old[i].start /\ b.end = old[i].start + n /\ b \in Region
       /\ b.start \in Nat /\ b.end \in Nat /\ b.end <= old[i].end /\ b.start <= b.end
       /\ Frames(b) = (old[i].start)..(old[i].start + n - 1)
  <2>1. old[i].start \in Nat /\ old[i].end \in Nat /\ old[i].start + n \in Nat /\ old[i].start < old[i].start + n
    BY <1>5, <1>7
  <2>2. b.start = old[i].start /\ b.end = old[i].start + n
    BY <1>10
  <2> QED BY <1>5, <1>10, <2>1, <2>2, MakeRegion DEF Frames
<1>12. owned' = owned \cup {b} /\ owned \subseteq Region
  BY <1>3, <1>5, <1>10 DEF TypeOK
<1>13. TypeOK'
  BY <1>1, <1>3, <1>5, <1>11, <1>12 DEF TypeOK
<1>14. StageInv'
  BY <1>1, <1>3 DEF StageInv
<1>15. CutInv'
  BY <1>1, <1>3 DEF CutInv
<1>16. LimitInv'
  BY <1>1, <1>2, <1>3 DEF LimitInv
<1>17. \A t \in Space : t = s \/ (t # s /\ free_list'[t] = free_list[t])
  BY <1>5
<1>18. ListsInv'
  <2>1. \A t \in Space : Separated(free_list'[t])
    <3>1. \A t \in Space : Separated(free_list[t])
      BY <1>1, <1>3 DEF ListsInv
    <3> QED BY <1>4, <1>5, <1>17, <3>1
  <2>2. \A k \in DOMAIN free_list'["Kernel"] : free_list'["Kernel"][k].end <= kernel_phys_limit
    <3>0. \A k \in DOMAIN free_list["Kernel"] : free_list["Kernel"][k].end <= kernel_phys_limit
      BY <1>1, <1>3 DEF ListsInv
    <3>1. CASE s = "Kernel"
      <4>1. ASSUME NEW k \in 1..Len(new)
            PROVE  new[k].end <= kernel_phys_limit
        <5>1. PICK j \in 1..Len(old) : new[k].end = old[j].end
          BY <1>5
        <5>2. old[j].end <= kernel_phys_limit
          BY <1>4, <1>7, <3>0, <3>1
        <5> QED BY <5>1, <5>2
      <4> QED BY <1>4, <1>8, <3>1, <4>1
    <3>2. CASE s # "Kernel"
      BY <1>17, <3>0, <3>2 DEF Space
    <3> QED BY <3>1, <3>2
  <2>3. \A k \in DOMAIN free_list'["User"] : free_list'["User"][k].start >= kernel_phys_limit
    <3>0. \A k \in DOMAIN free_list["User"] : free_list["User"][k].start >= kernel_phys_limit
      BY <1>1, <1>3 DEF ListsInv
    <3>1. CASE s = "User"
      <4>1. kernel_phys_limit \in Nat
        BY <1>3 DEF TypeOK
      <4>2. ASSUME NEW k \in 1..Len(new)
            PROVE  new[k].start >= kernel_phys_limit
        <5>1. PICK j \in 1..Len(old) : old[j].start <= new[k].start
          BY <1>5
        <5>2. old[j].start >= kernel_phys_limit /\ old[j].start \in Nat /\ new[k].start \in Nat
          BY <1>4, <1>7, <1>8, <3>0, <3>1
        <5> QED BY <4>1, <5>1, <5>2
      <4> QED BY <1>4, <1>8, <3>1, <4>2
    <3>2. CASE s # "User"
      BY <1>17, <3>0, <3>2 DEF Space
    <3> QED BY <3>1, <3>2
  <2>4. regions' = {}
    BY <1>1, <1>3 DEF StageInv
  <2> QED BY <1>1, <2>1, <2>2, <2>3, <2>4 DEF ListsInv
<1>19. OwnedInv'
  <2>0. /\ \A p, q \in owned : p # q => Clear(p, q)
        /\ \A p \in owned, t \in Space : \A k \in DOMAIN free_list[t] : Clear(p, free_list[t][k])
    BY <1>3 DEF OwnedInv
  <2>1. ASSUME NEW p \in owned
        PROVE  Clear(p, b) /\ Clear(b, p)
    <3>1. Clear(p, old[i])
      BY <1>4, <1>7, <2>0
    <3>2. p.start \in Nat /\ p.end \in Nat /\ old[i].start \in Nat /\ old[i].end \in Nat
      BY <1>7, <1>12, RegionLaw
    <3> QED BY <1>11, <3>1, <3>2 DEF Clear
  <2>2. \A p, q \in owned' : p # q => Clear(p, q)
    BY <1>12, <2>0, <2>1
  <2>3. ASSUME NEW p \in owned', NEW t \in Space, NEW k \in DOMAIN free_list'[t]
        PROVE  Clear(p, free_list'[t][k])
    <3>1. CASE t # s
      <4>1. free_list'[t] = free_list[t]
        BY <1>17, <3>1
      <4>2. CASE p \in owned
        BY <2>0, <4>1, <4>2
      <4>3. CASE p = b
        <5>1. PICK q : q = free_list[t][k]
          OBVIOUS
        <5>2. free_list[t] \in Seq(Span) /\ k \in DOMAIN free_list[t]
          BY <1>6, <4>1
        <5>3. q \in Span /\ q.start \in Nat /\ q.end \in Nat /\ q.start <= q.end
          <6>1. Separated(free_list[t])
            BY <1>1, <1>3 DEF ListsInv
          <6> QED BY <5>1, <5>2, <6>1, SpanLaw DEF Separated
        <5>4. kernel_phys_limit \in Nat
          BY <1>3 DEF TypeOK
        <5>5. CASE s = "Kernel"
          <6>1. t = "User"
            BY <3>1, <5>5 DEF Space
          <6>2. q.start >= kernel_phys_limit /\ old[i].end <= kernel_phys_limit
            BY <1>1, <1>3, <1>4, <1>7, <5>1, <5>2, <5>5, <6>1 DEF ListsInv
          <6> QED BY <1>7, <1>11, <4>1, <4>3, <5>1, <5>3, <5>4, <6>2 DEF Clear
        <5>6. CASE s = "User"
          <6>1. t = "Kernel"
            BY <3>1, <5>6 DEF Space
          <6>2. q.end <= kernel_phys_limit /\ old[i].start >= kernel_phys_limit
            BY <1>1, <1>3, <1>4, <1>7, <5>1, <5>2, <5>6, <6>1 DEF ListsInv
          <6> QED BY <1>7, <1>11, <4>1, <4>3, <5>1, <5>3, <5>4, <6>2 DEF Clear
        <5> QED BY <5>5, <5>6 DEF Space
      <4> QED BY <1>12, <4>2, <4>3
    <3>2. CASE t = s
      <4>1. free_list'[t][k] = new[k] /\ k \in 1..Len(new)
        BY <1>4, <1>8, <3>2
      <4>2. PICK j \in 1..Len(old) : /\ old[j].start <= new[k].start
                                     /\ new[k].end = old[j].end
                                     /\ j = i => old[i].start + n <= new[k].start
        BY <1>5, <4>1
      <4>3. /\ new[k].start \in Nat /\ new[k].end \in Nat /\ old[j].start \in Nat /\ old[j].end \in Nat
            /\ old[i].start \in Nat /\ old[i].end \in Nat
        BY <1>7, <1>8, <4>1, <4>2
      <4>4. CASE p \in owned
        <5>1. Clear(p, old[j])
          BY <1>4, <1>7, <2>0, <4>4
        <5>2. p.start \in Nat /\ p.end \in Nat
          BY <1>12, <4>4, RegionLaw
        <5>3. Clear(p, new[k])
          BY <4>2, <4>3, <5>1, <5>2 DEF Clear
        <5> QED BY <4>1, <5>3
      <4>5. CASE p = b
        <5>1. CASE j = i
          <6>1. b.end <= new[k].start
            BY <1>11, <4>2, <5>1
          <6> QED BY <4>1, <4>5, <6>1 DEF Clear
        <5>2. CASE j < i
          <6>1. old[j].end < old[i].start
            BY <1>9, <5>2
          <6>2. new[k].end <= b.start
            BY <1>11, <4>2, <4>3, <6>1
          <6> QED BY <4>1, <4>5, <6>2 DEF Clear
        <5>3. CASE i < j
          <6>1. old[i].end < old[j].start
            BY <1>9, <5>3
          <6>2. b.end <= new[k].start
            BY <1>11, <4>2, <4>3, <6>1
          <6> QED BY <4>1, <4>5, <6>2 DEF Clear
        <5>4. j = i \/ j < i \/ i < j
          BY <1>7
        <5> QED BY <5>1, <5>2, <5>3, <5>4
      <4> QED BY <1>12, <4>4, <4>5
    <3> QED BY <3>1, <3>2
  <2> QED BY <2>2, <2>3 DEF OwnedInv
<1>20. HeldInv'
  <2>1. FramesOf(Blocks("Kernel")) = Cover(free_list["Kernel"]) /\ FramesOf(Blocks("User")) = Cover(free_list["User"])
    BY BlocksCover
  <2>2. FramesOf(Blocks("Kernel"))' = Cover(free_list'["Kernel"]) /\ FramesOf(Blocks("User"))' = Cover(free_list'["User"])
    BY DEF FramesOf, Blocks, Cover
  <2>3. FramesOf(regions)' = FramesOf(regions)
    BY <1>1 DEF FramesOf
  <2>4. FramesOf(owned)' = FramesOf(owned) \cup Frames(b)
    BY <1>12 DEF FramesOf
  <2>5. FramesOf(regions) \cup FramesOf(owned)
            \cup FramesOf(Blocks("Kernel")) \cup FramesOf(Blocks("User")) = Available
    BY <1>1, <1>3 DEF HeldInv
  <2>6. \A f \in Frames(b) : f \in Cover(old)
    <3>1. ASSUME NEW f \in Frames(b)
          PROVE  f \in Cover(old)
      <4>1. f \in Nat /\ old[i].start <= f /\ f < old[i].start + n /\ f < old[i].end
        BY <1>5, <1>7, <1>11
      <4>2. f \in Frames(old[i])
        BY <1>7, <4>1, FramesLaw
      <4> QED BY <1>6, <4>2, CoverLaw
    <3> QED BY <3>1
  <2>7. Cover(new) \cup Frames(b) = Cover(old)
    BY <1>5, <1>11, <2>6
  <2>8. Cover(free_list'["Kernel"]) \cup Cover(free_list'["User"]) \cup Frames(b)
          = Cover(free_list["Kernel"]) \cup Cover(free_list["User"])
    <3>1. CASE s = "Kernel"
      <4>1. free_list'["User"] = free_list["User"]
        BY <1>17, <3>1 DEF Space
      <4> QED BY <1>4, <2>7, <3>1, <4>1
    <3>2. CASE s = "User"
      <4>1. free_list'["Kernel"] = free_list["Kernel"]
        BY <1>17, <3>2 DEF Space
      <4> QED BY <1>4, <2>7, <3>2, <4>1
    <3> QED BY <3>1, <3>2 DEF Space
  <2>9. FramesOf(regions)' \cup FramesOf(owned)'
            \cup FramesOf(Blocks("Kernel"))' \cup FramesOf(Blocks("User"))' = Available
    BY <2>1, <2>2, <2>3, <2>4, <2>5, <2>8
  <2> QED BY <1>2, <2>9 DEF HeldInv
<1> QED BY <1>13, <1>14, <1>15, <1>16, <1>18, <1>19, <1>20 DEF MemoryInv

\* A step that changes nothing.
LEMMA SameInv ==
    ASSUME MemoryInv, UNCHANGED vars
    PROVE  MemoryInv'
<1>1. /\ stage' = stage /\ memory_map' = memory_map /\ regions' = regions /\ reserved' = reserved
      /\ heap_region' = heap_region /\ phys_limit' = phys_limit /\ region_iter' = region_iter
      /\ available_kernel_memory' = available_kernel_memory
      /\ kernel_phys_limit' = kernel_phys_limit /\ free_list' = free_list /\ owned' = owned
  BY DEF vars, bootVars, limitVars
<1>2. Available' = Available
  BY <1>1, AvailableSame
<1>3. TypeOK'
  BY <1>1 DEF MemoryInv, TypeOK
<1>4. StageInv'
  BY <1>1 DEF MemoryInv, StageInv
<1>5. CutInv'
  <2>1. ReservedFrames' = ReservedFrames
    BY <1>1 DEF ReservedFrames
  <2> QED BY <1>1, <1>2, <2>1 DEF MemoryInv, CutInv
<1>6. LimitInv'
  BY <1>1, <1>2 DEF MemoryInv, LimitInv
<1>7. ListsInv'
  BY <1>1 DEF MemoryInv, ListsInv
<1>8. OwnedInv'
  BY <1>1 DEF MemoryInv, OwnedInv
<1>9. HeldInv'
  <2>1. Blocks("Kernel")' = Blocks("Kernel") /\ Blocks("User")' = Blocks("User")
    BY <1>1 DEF Blocks
  <2> QED BY <1>1, <1>2, <2>1 DEF MemoryInv, HeldInv
<1> QED BY <1>3, <1>4, <1>5, <1>6, <1>7, <1>8, <1>9 DEF MemoryInv

\* Every step keeps the invariant.
LEMMA NextMemoryInv ==
    ASSUME MemoryInv, [Next]_vars
    PROVE  MemoryInv'
<1>1. CASE ScanMemoryMap
  BY <1>1, ScanInv
<1>2. CASE NoHeap
  BY <1>2, PanicInv DEF NoHeap
<1>3. CASE CutRegion
  BY <1>3, CutStepInv
<1>4. CASE InitLimits
  BY <1>4, LimitsInv
<1>5. CASE TakeRegion
  BY <1>5, TakeRegionInv
<1>6. CASE TakeRequired
  BY <1>6, TakeRequiredInv
<1>7. CASE NoTables
  BY <1>7, PanicInv DEF NoTables
<1>8. CASE InitRegion
  BY <1>8, FillInv
<1>9. CASE \E s \in Space, n \in AllocSizes : Alloc(s, n)
  BY <1>9, AllocInv
<1>10. CASE \E s \in Space, n \in AllocSizes : OutOfMemory(s, n)
  BY <1>10, PanicInv DEF OutOfMemory
<1>11. CASE UNCHANGED vars
  BY <1>11, SameInv
<1>12. CASE Halted
  BY <1>12, SameInv DEF Halted
<1> QED
  BY <1>1, <1>2, <1>3, <1>4, <1>5, <1>6, <1>7, <1>8, <1>9, <1>10, <1>11, <1>12 DEF Next, BootMemory

\* The inductive invariant of boot, init(), alloc() and free lists holds in every
\* state, for every memory map, kernel image, heap, page size and set of
\* allocation sizes.
THEOREM MemoryInvariant == Spec => []MemoryInv
<1>1. Init => MemoryInv
  BY InitMemoryInv
<1>2. MemoryInv /\ [Next]_vars => MemoryInv'
  BY NextMemoryInv
<1> QED BY <1>1, <1>2, PTL DEF Spec

\* Everything that the boot code, init() and the allocators keep has its type:
\* no region that cut_region() or a scan leaves is empty, and no block that
\* alloc_block() hands out is.
THEOREM TypeCorrect == Spec => []TypeOK
<1>1. MemoryInv => TypeOK
  BY DEF MemoryInv
<1> QED BY <1>1, MemoryInvariant, PTL

-----------------------------------------------------------------------------
(* The properties. *)

\* Ranges that are clear of each other share no frame.
LEMMA ClearFrames ==
    ASSUME NEW p \in Span, NEW q \in Span, Clear(p, q) \/ Clear(q, p)
    PROVE  Frames(p) \cap Frames(q) = {}
<1>1. p.start \in Nat /\ p.end \in Nat /\ q.start \in Nat /\ q.end \in Nat
  BY DEF Span
<1>2. ASSUME NEW f \in Frames(p), f \in Frames(q)
      PROVE  FALSE
  <2>1. f \in Nat /\ p.start <= f /\ f < p.end
    BY FramesLaw
  <2>2. q.start <= f /\ f < q.end
    BY <1>2, FramesLaw
  <2> QED BY <1>1, <2>1, <2>2 DEF Clear
<1> QED BY <1>2

\* Types of the blocks of the free lists.
LEMMA BlockLaw ==
    ASSUME TypeOK, NEW s \in Space, NEW i \in DOMAIN free_list[s]
    PROVE  /\ free_list[s][i] \in Span /\ i \in Nat
           /\ free_list[s][i].start \in Nat /\ free_list[s][i].end \in Nat
<1>1. free_list[s] \in Seq(Span)
  BY DEF TypeOK
<1>2. DOMAIN free_list[s] = 1..Len(free_list[s])
  BY <1>1
<1> QED BY <1>1, <1>2, SpanLaw

\* The invariant says of each frame where it is and that it is in one place.
LEMMA MemoryConserved == MemoryInv => Conserved
<1> SUFFICES ASSUME MemoryInv, stage \in {"limit", "tables", "fill", "up", "exhausted"}
             PROVE  /\ UNION {Frames(p[1]) : p \in Places} = Available
                    /\ \A p, q \in Places : p # q => Frames(p[1]) \cap Frames(q[1]) = {}
  BY DEF Conserved
<1>1. TypeOK /\ StageInv /\ CutInv /\ ListsInv /\ OwnedInv /\ HeldInv
  BY DEF MemoryInv
<1>2. \A p : p \in Places <=>
          \/ \E r \in regions : p = <<r, "region", 0>>
          \/ \E b \in owned : p = <<b, "owned", 0>>
          \/ \E s \in Space : \E i \in DOMAIN free_list[s] : p = <<free_list[s][i], s, i>>
  BY DEF Places
<1>3. ASSUME NEW f
      PROVE  f \in UNION {Frames(p[1]) : p \in Places} <=> f \in Available
  <2>1. f \in UNION {Frames(p[1]) : p \in Places} <=> \E p \in Places : f \in Frames(p[1])
    OBVIOUS
  <2>2. (\E p \in Places : f \in Frames(p[1])) <=>
          \/ \E r \in regions : f \in Frames(r)
          \/ \E b \in owned : f \in Frames(b)
          \/ \E s \in Space : \E i \in DOMAIN free_list[s] : f \in Frames(free_list[s][i])
    <3>1. ASSUME NEW p \in Places, f \in Frames(p[1])
          PROVE  \/ \E r \in regions : f \in Frames(r)
                 \/ \E b \in owned : f \in Frames(b)
                 \/ \E s \in Space : \E i \in DOMAIN free_list[s] : f \in Frames(free_list[s][i])
      BY <1>2, <3>1
    <3>2. ASSUME NEW r \in regions, f \in Frames(r)
          PROVE  \E p \in Places : f \in Frames(p[1])
      <4>1. <<r, "region", 0>> \in Places /\ <<r, "region", 0>>[1] = r
        BY <1>2
      <4> QED BY <3>2, <4>1
    <3>3. ASSUME NEW b \in owned, f \in Frames(b)
          PROVE  \E p \in Places : f \in Frames(p[1])
      <4>1. <<b, "owned", 0>> \in Places /\ <<b, "owned", 0>>[1] = b
        BY <1>2
      <4> QED BY <3>3, <4>1
    <3>4. ASSUME NEW s \in Space, NEW i \in DOMAIN free_list[s], f \in Frames(free_list[s][i])
          PROVE  \E p \in Places : f \in Frames(p[1])
      <4>1. <<free_list[s][i], s, i>> \in Places /\ <<free_list[s][i], s, i>>[1] = free_list[s][i]
        BY <1>2
      <4> QED BY <3>4, <4>1
    <3> QED BY <3>1, <3>2, <3>3, <3>4
  <2>3. f \in Available <=>
          \/ f \in FramesOf(regions) \/ f \in FramesOf(owned)
          \/ f \in FramesOf(Blocks("Kernel")) \/ f \in FramesOf(Blocks("User"))
    BY <1>1 DEF HeldInv
  <2>4. \A s \in Space : f \in FramesOf(Blocks(s)) <=> \E i \in DOMAIN free_list[s] : f \in Frames(free_list[s][i])
    BY DEF FramesOf, Blocks
  <2>5. (\E s \in Space : f \in FramesOf(Blocks(s)))
           <=> f \in FramesOf(Blocks("Kernel")) \/ f \in FramesOf(Blocks("User"))
    BY DEF Space
  <2> QED BY <2>1, <2>2, <2>3, <2>4, <2>5, FramesOfLaw
<1>4. ASSUME NEW p \in Places, NEW q \in Places, p # q
      PROVE  p[1] \in Span /\ q[1] \in Span /\ (Clear(p[1], q[1]) \/ Clear(q[1], p[1]))
  <2>1. \A r \in regions : r \in Span
    BY <1>1, RegionLaw DEF TypeOK
  <2>2. \A b \in owned : b \in Span
    BY <1>1, RegionLaw DEF TypeOK
  <2>3. \A s \in Space : \A i \in DOMAIN free_list[s] : free_list[s][i] \in Span
    BY <1>1, BlockLaw
  <2>4. p[1] \in Span /\ q[1] \in Span
    BY <1>2, <2>1, <2>2, <2>3
  <2>5. regions = {} \/ owned = {}
    BY <1>1 DEF StageInv
  <2>6. ASSUME NEW r \in regions, NEW s \in Space, NEW i \in DOMAIN free_list[s]
        PROVE  Clear(free_list[s][i], r)
    <3>1. CASE stage \in {"limit", "tables"}
      <4>1. free_list = EmptyLists
        BY <1>1, <3>1 DEF StageInv, EmptyLists
      <4> QED BY <4>1, EmptyNoBlock
    <3>2. CASE stage \in {"fill", "up", "exhausted"}
      BY <1>1, <3>2 DEF ListsInv, Clear
    <3> QED BY <3>1, <3>2
  <2>7. ASSUME NEW s \in Space, NEW i \in DOMAIN free_list[s],
               NEW t \in Space, NEW j \in DOMAIN free_list[t], s # t \/ i # j
        PROVE  Clear(free_list[s][i], free_list[t][j]) \/ Clear(free_list[t][j], free_list[s][i])
    <3>1. stage \in {"fill", "up", "exhausted"}
      <4>1. CASE stage \in {"limit", "tables"}
        <5>1. free_list = EmptyLists
          BY <1>1, <4>1 DEF StageInv, EmptyLists
        <5> QED BY <5>1, EmptyNoBlock
      <4> QED BY <4>1
    <3>2. /\ free_list[s][i].start \in Nat /\ free_list[s][i].end \in Nat /\ i \in Nat
          /\ free_list[t][j].start \in Nat /\ free_list[t][j].end \in Nat /\ j \in Nat
      BY <1>1, BlockLaw
    <3>3. CASE s = t
      <4>1. Separated(free_list[s])
        BY <1>1, <3>1 DEF ListsInv
      <4>2. i < j \/ j < i
        BY <2>7, <3>2, <3>3
      <4>3. free_list[s][i].end < free_list[t][j].start \/ free_list[t][j].end < free_list[s][i].start
        BY <3>3, <4>1, <4>2 DEF Separated
      <4> QED BY <3>2, <4>3 DEF Clear
    <3>4. kernel_phys_limit \in Nat
      BY <1>1 DEF TypeOK
    <3>5. CASE s = "Kernel" /\ t = "User"
      <4>1. free_list[s][i].end <= kernel_phys_limit /\ free_list[t][j].start >= kernel_phys_limit
        BY <1>1, <3>1, <3>5 DEF ListsInv
      <4> QED BY <3>2, <3>4, <4>1 DEF Clear
    <3>6. CASE s = "User" /\ t = "Kernel"
      <4>1. free_list[t][j].end <= kernel_phys_limit /\ free_list[s][i].start >= kernel_phys_limit
        BY <1>1, <3>1, <3>6 DEF ListsInv
      <4> QED BY <3>2, <3>4, <4>1 DEF Clear
    <3> QED BY <3>3, <3>5, <3>6 DEF Space
  <2>8. \A r, v \in regions : r # v => Clear(r, v)
    BY <1>1 DEF CutInv
  <2>9. /\ \A b, v \in owned : b # v => Clear(b, v)
        /\ \A b \in owned : \A s \in Space : \A i \in DOMAIN free_list[s] : Clear(b, free_list[s][i])
    BY <1>1 DEF OwnedInv
  <2>10. CASE \E r \in regions : p = <<r, "region", 0>>
    <3>1. PICK r \in regions : p = <<r, "region", 0>>
      BY <2>10
    <3>2. p[1] = r
      BY <3>1
    <3>3. CASE \E v \in regions : q = <<v, "region", 0>>
      <4>1. PICK v \in regions : q = <<v, "region", 0>>
        BY <3>3
      <4>2. q[1] = v /\ r # v
        BY <1>4, <3>1, <4>1
      <4> QED BY <2>4, <2>8, <3>2, <4>2
    <3>4. CASE \E v \in owned : q = <<v, "owned", 0>>
      BY <2>5, <3>4
    <3>5. CASE \E s \in Space : \E i \in DOMAIN free_list[s] : q = <<free_list[s][i], s, i>>
      BY <2>4, <2>6, <3>2, <3>5
    <3> QED BY <1>2, <3>3, <3>4, <3>5
  <2>11. CASE \E b \in owned : p = <<b, "owned", 0>>
    <3>1. PICK b \in owned : p = <<b, "owned", 0>>
      BY <2>11
    <3>2. p[1] = b
      BY <3>1
    <3>3. CASE \E v \in owned : q = <<v, "owned", 0>>
      <4>1. PICK v \in owned : q = <<v, "owned", 0>>
        BY <3>3
      <4>2. q[1] = v /\ b # v
        BY <1>4, <3>1, <4>1
      <4> QED BY <2>4, <2>9, <3>2, <4>2
    <3>4. CASE \E v \in regions : q = <<v, "region", 0>>
      BY <2>5, <3>4
    <3>5. CASE \E s \in Space : \E i \in DOMAIN free_list[s] : q = <<free_list[s][i], s, i>>
      BY <2>4, <2>9, <3>2, <3>5
    <3> QED BY <1>2, <3>3, <3>4, <3>5
  <2>12. CASE \E s \in Space : \E i \in DOMAIN free_list[s] : p = <<free_list[s][i], s, i>>
    <3>1. PICK s \in Space : \E i \in DOMAIN free_list[s] : p = <<free_list[s][i], s, i>>
      BY <2>12
    <3>2. PICK i \in DOMAIN free_list[s] : p = <<free_list[s][i], s, i>>
      BY <3>1
    <3>3. p[1] = free_list[s][i]
      BY <3>2
    <3>4. CASE \E v \in regions : q = <<v, "region", 0>>
      BY <2>4, <2>6, <3>3, <3>4
    <3>5. CASE \E v \in owned : q = <<v, "owned", 0>>
      BY <2>4, <2>9, <3>3, <3>5
    <3>6. CASE \E t \in Space : \E j \in DOMAIN free_list[t] : q = <<free_list[t][j], t, j>>
      <4>1. PICK t \in Space : \E j \in DOMAIN free_list[t] : q = <<free_list[t][j], t, j>>
        BY <3>6
      <4>2. PICK j \in DOMAIN free_list[t] : q = <<free_list[t][j], t, j>>
        BY <4>1
      <4>3. q[1] = free_list[t][j]
        BY <4>2
      <4>4. s # t \/ i # j
        BY <1>4, <3>2, <4>2
      <4> QED BY <2>4, <2>7, <3>3, <4>3, <4>4
    <3> QED BY <1>2, <3>4, <3>5, <3>6
  <2> QED BY <1>2, <2>10, <2>11, <2>12
<1> QED BY <1>3, <1>4, ClearFrames

\* From the end of cut_region() to the last alloc() every available frame is in
\* exactly one region, free block or allocated block, and nothing else is, for
\* every memory map: no frame is lost, handed out twice, or taken from the kernel
\* image, the heap or frame 0.
THEOREM FramesConserved == Spec => []Conserved
BY MemoryInvariant, MemoryConserved, PTL

\* The limit that init() computes divides the two allocators, and below it are
\* at least the frames that calc_page_table_memory() asks for, for every memory
\* map and every shape of page tables.
THEOREM ReserveKept == Spec => []KernelReserve
<1>1. MemoryInv => KernelReserve
  <2> SUFFICES ASSUME MemoryInv PROVE KernelReserve
    OBVIOUS
  <2>1. LimitInv /\ ListsInv
    BY DEF MemoryInv
  <2>2. ASSUME stage \in {"fill", "up", "exhausted"}
        PROVE  /\ \A b \in Blocks("Kernel") : b.end <= kernel_phys_limit
               /\ \A b \in Blocks("User") : b.start >= kernel_phys_limit
               /\ heap_region.end <= kernel_phys_limit
    BY <2>1, <2>2 DEF LimitInv, ListsInv, Blocks
  <2>3. ASSUME stage = "up"
        PROVE  Cardinality({f \in Available : f < kernel_phys_limit}) >= PageTables(Max(Available) + 1)
    BY <2>1, <2>3 DEF LimitInv
  <2> QED BY <2>2, <2>3 DEF KernelReserve
<1> QED BY <1>1, MemoryInvariant, PTL

-----------------------------------------------------------------------------
(* The list allocators implement the abstract store. *)

\* The pools of the abstract store, in this state ...
LEMMA PoolLaw ==
    /\ ~Opened => FreeFrames = [s \in Space |-> {}]
    /\ Opened => FreeFrames = [s \in Space |-> Cover(free_list[s])]
<1>1. \A s \in Space : UNION {Frames(b) : b \in Blocks(s)} = Cover(free_list[s])
  BY BlocksCover DEF FramesOf
<1> QED BY <1>1 DEF FreeFrames

\* ... and in the next.
LEMMA PoolLawNext ==
    /\ ~Opened' => FreeFrames' = [s \in Space |-> {}]
    /\ Opened' => FreeFrames' = [s \in Space |-> Cover(free_list'[s])]
<1>1. \A s \in Space : (UNION {Frames(b) : b \in Blocks(s)})' = Cover(free_list'[s])
  BY DEF Blocks, Cover
<1> QED BY <1>1 DEF FreeFrames

\* alloc() hands out a run of free frames of its pool.
LEMMA AllocRefines ==
    ASSUME MemoryInv, NEW s \in Space, NEW n \in AllocSizes, Alloc(s, n)
    PROVE  Store!Alloc(s, n)
<1>1. stage = "up" /\ stage' = "up"
  BY DEF Alloc
<1>2. Opened /\ ~Exhausted /\ Opened' /\ Opened' = Opened /\ Exhausted' = Exhausted
  BY <1>1 DEF Opened, Exhausted
<1>3. PICK old, new : old = free_list[s] /\ new = free_list'[s]
  OBVIOUS
<1>4. PICK i \in 1..Len(old) : AllocFrom(s, n, old, new, i)
  BY <1>3, AllocLaw
<1>5. PICK f : f = old[i].start
  OBVIOUS
<1>6. /\ n \in Nat \ {0}
      /\ f + n <= old[i].end
      /\ owned' = owned \cup {[start |-> f, end |-> f + n]}
      /\ \A t \in Space : t # s => free_list'[t] = free_list[t]
      /\ Cover(new) = Cover(old) \ f..(f + n - 1)
  BY <1>4, <1>5 DEF AllocFrom
<1>7. old \in Seq(Span) /\ old[i] \in Span /\ f \in Nat /\ old[i].end \in Nat
  <2>1. old \in Seq(Span)
    BY <1>3 DEF MemoryInv, TypeOK
  <2> QED BY <1>5, <2>1, SpanLaw
<1>8. f..(f + n - 1) \subseteq Cover(old)
  <2>1. ASSUME NEW g \in f..(f + n - 1)
        PROVE  g \in Cover(old)
    <3>1. g \in Nat /\ f <= g /\ g < old[i].end
      BY <1>6, <1>7
    <3>2. g \in Frames(old[i])
      BY <1>5, <1>7, <3>1, FramesLaw
    <3> QED BY <1>7, <3>2, CoverLaw
  <2> QED BY <2>1
<1>9. f \in Cover(old)
  BY <1>6, <1>7, <1>8
<1>10. /\ FreeFrames = [t \in Space |-> Cover(free_list[t])]
       /\ FreeFrames' = [t \in Space |-> Cover(free_list'[t])]
  BY <1>2, PoolLaw, PoolLawNext
<1>11. FreeFrames[s] = Cover(old)
  BY <1>3, <1>10
<1>12. FreeFrames' = [FreeFrames EXCEPT ![s] = FreeFrames[s] \ f..(f + n - 1)]
  <2>1. \A t \in Space : Cover(free_list'[t]) = IF t = s THEN FreeFrames[s] \ f..(f + n - 1) ELSE FreeFrames[t]
    BY <1>3, <1>6, <1>10, <1>11
  <2> QED BY <1>10, <2>1
<1>13. Store!Run(f, n) = f..(f + n - 1)
  BY DEF Store!Run
<1>14. \E g \in FreeFrames[s] :
          /\ Store!Run(g, n) \subseteq FreeFrames[s]
          /\ FreeFrames' = [FreeFrames EXCEPT ![s] = FreeFrames[s] \ Store!Run(g, n)]
          /\ owned' = owned \cup {[start |-> g, end |-> g + n]}
  BY <1>6, <1>8, <1>9, <1>11, <1>12, <1>13
<1> QED BY <1>2, <1>14 DEF Store!Alloc

\* alloc() panics only if its pool has no run of that length.
LEMMA FailRefines ==
    ASSUME MemoryInv, NEW s \in Space, NEW n \in AllocSizes, OutOfMemory(s, n)
    PROVE  Store!Fail(s, n)
<1>1. stage = "up" /\ stage' = "exhausted" /\ free_list' = free_list /\ owned' = owned
  BY DEF OutOfMemory, Panic
<1>2. Opened /\ ~Exhausted /\ Opened' /\ Opened' = Opened /\ Exhausted' = TRUE
  BY <1>1 DEF Opened, Exhausted
<1>3. /\ FreeFrames = [t \in Space |-> Cover(free_list[t])]
      /\ FreeFrames' = [t \in Space |-> Cover(free_list'[t])]
  BY <1>2, PoolLaw, PoolLawNext
<1>4. FreeFrames' = FreeFrames
  BY <1>1, <1>3
<1>5. PICK list : list = free_list[s]
  OBVIOUS
<1>6. list \in Seq(Span) /\ Separated(list)
  BY <1>1, <1>5 DEF MemoryInv, TypeOK, ListsInv
<1>7. n \in Nat \ {0}
  BY MemoryAssumption
<1>8. ASSUME NEW f \in FreeFrames[s], Store!Run(f, n) \subseteq FreeFrames[s]
      PROVE  FALSE
  <2>1. f..(f + n - 1) \subseteq Cover(list) /\ f \in Cover(list)
    BY <1>3, <1>5, <1>8 DEF Store!Run
  <2>2. f \in Nat
    <3>1. PICK i \in 1..Len(list) : f \in Frames(list[i])
      BY <1>6, <2>1, CoverLaw
    <3> QED BY <1>6, <3>1, SpanLaw, FramesLaw
  <2>3. PICK i \in 1..Len(list) : Count(list[i]) >= n
    BY <1>6, <1>7, <2>1, <2>2, RunInBlock
  <2>4. DOMAIN list = 1..Len(list)
    BY <1>6
  <2> DEFINE D == {j \in DOMAIN list : Count(list[j]) >= n}
  <2>5. D \in SUBSET Nat /\ D # {}
    BY <2>3, <2>4
  <2> HIDE DEF D
  <2>6. First(D) # {}
    BY <2>5, FirstExists
  <2>7. FindFreeBlock(list, n) # {}
    BY <2>6 DEF FindFreeBlock, D
  <2> QED BY <1>5, <2>7 DEF OutOfMemory
<1> QED BY <1>1, <1>2, <1>4, <1>8 DEF Store!Fail

\* The last region that init() files opens the store.
LEMMA OpenRefines ==
    ASSUME MemoryInv, InitRegion, stage' = "up"
    PROVE  Store!Open
<1>1. stage = "fill" /\ owned' = owned
  BY DEF InitRegion
<1>2. ~Opened /\ Opened' = TRUE /\ Opened' /\ Exhausted' = Exhausted
  BY <1>1 DEF Opened, Exhausted
<1>3. FreeFrames' = [t \in Space |-> Cover(free_list'[t])]
  BY <1>2, PoolLawNext
<1>4. MemoryInv'
  BY FillInv
<1>5. PICK new, L : new = free_list' /\ L = kernel_phys_limit'
  OBVIOUS
<1>6. /\ new["Kernel"] \in Seq(Span) /\ new["User"] \in Seq(Span) /\ L \in Nat
      /\ \A i \in DOMAIN new["Kernel"] : new["Kernel"][i].end <= L
      /\ \A i \in DOMAIN new["User"] : new["User"][i].start >= L
  <2>1. TypeOK' /\ ListsInv'
    BY <1>4 DEF MemoryInv
  <2>2. new \in [Space -> Seq(Span)] /\ L \in Nat
    BY <1>5, <2>1 DEF TypeOK
  <2> QED BY <1>5, <2>1, <2>2 DEF ListsInv, Space
<1>7. FreeFrames'["Kernel"] = Cover(new["Kernel"]) /\ FreeFrames'["User"] = Cover(new["User"])
  BY <1>3, <1>5 DEF Space
<1>8. ASSUME NEW k \in FreeFrames'["Kernel"], NEW u \in FreeFrames'["User"]
      PROVE  k < u
  <2>1. PICK i \in 1..Len(new["Kernel"]) : k \in Frames(new["Kernel"][i])
    BY <1>6, <1>7, CoverLaw
  <2>2. PICK j \in 1..Len(new["User"]) : u \in Frames(new["User"][j])
    BY <1>6, <1>7, CoverLaw
  <2>3. PICK a, b : a = new["Kernel"][i] /\ b = new["User"][j]
    OBVIOUS
  <2>4. a \in Span /\ a.end \in Nat /\ a.end <= L
    BY <1>6, <2>1, <2>3, SpanLaw
  <2>5. b \in Span /\ b.start \in Nat /\ b.start >= L
    BY <1>6, <2>2, <2>3, SpanLaw
  <2>6. k \in Nat /\ k < a.end
    BY <2>1, <2>3, <2>4, FramesLaw
  <2>7. u \in Nat /\ b.start <= u
    BY <2>2, <2>3, <2>5, FramesLaw
  <2> QED BY <1>6, <2>4, <2>5, <2>6, <2>7
<1> QED BY <1>1, <1>2, <1>8 DEF Store!Open

\* Nothing is seen of boot before that.
LEMMA StoreStutters ==
    ASSUME owned' = owned, ~Opened, ~Opened'
    PROVE  UNCHANGED Store!vars
<1>1. FreeFrames' = FreeFrames
  BY PoolLaw, PoolLawNext
<1>2. Opened' = Opened /\ Exhausted' = Exhausted
  BY DEF Opened, Exhausted
<1> QED BY <1>1, <1>2 DEF Store!vars

\* Every step is a step of the store or is not seen there.
LEMMA StoreStep ==
    ASSUME MemoryInv, [Next]_vars
    PROVE  [Store!Next]_(Store!vars)
<1>1. CASE ScanMemoryMap \/ CutRegion \/ InitLimits \/ TakeRegion \/ TakeRequired
  <2>1. stage \in {"scan", "cut", "limit", "tables"} /\ stage' \in {"cut", "limit", "tables", "fill"} /\ owned' = owned
    BY <1>1 DEF ScanMemoryMap, CutRegion, InitLimits, TakeRegion, TakeRequired
  <2> QED BY <2>1, StoreStutters DEF Opened
<1>2. CASE NoHeap \/ NoTables
  <2>1. stage \in {"scan", "limit", "tables"} /\ stage' \in {"noheap", "notables"} /\ owned' = owned
    BY <1>2 DEF NoHeap, NoTables, Panic
  <2> QED BY <2>1, StoreStutters DEF Opened
<1>3. CASE InitRegion
  <2>1. stage = "fill" /\ stage' \in {"fill", "up"} /\ owned' = owned
    BY <1>3 DEF InitRegion
  <2>2. CASE stage' = "up"
    BY <1>3, <2>2, OpenRefines DEF Store!Next
  <2>3. CASE stage' = "fill"
    BY <2>1, <2>3, StoreStutters DEF Opened
  <2> QED BY <2>1, <2>2, <2>3
<1>4. ASSUME NEW s \in Space, NEW n \in AllocSizes, Alloc(s, n)
      PROVE  Store!Next
  <2>1. Store!Alloc(s, n)
    BY <1>4, AllocRefines
  <2> QED BY <2>1 DEF Store!Next, Space, Store!Space
<1>5. ASSUME NEW s \in Space, NEW n \in AllocSizes, OutOfMemory(s, n)
      PROVE  Store!Next
  <2>1. Store!Fail(s, n)
    BY <1>5, FailRefines
  <2> QED BY <2>1 DEF Store!Next, Space, Store!Space
<1>6. CASE Halted \/ UNCHANGED vars
  <2>1. stage' = stage /\ free_list' = free_list /\ owned' = owned
    BY <1>6 DEF Halted, vars, bootVars
  <2>2. Opened' = Opened /\ Exhausted' = Exhausted
    BY <2>1 DEF Opened, Exhausted
  <2>3. FreeFrames' = FreeFrames
    BY <2>1, <2>2, PoolLaw, PoolLawNext
  <2> QED BY <2>1, <2>2, <2>3 DEF Store!vars
<1> QED BY <1>1, <1>2, <1>3, <1>4, <1>5, <1>6 DEF Next, BootMemory

\* The sorted free lists with first fit implement the abstract store: alloc()
\* hands out a run of free frames of its own pool, and the panic "Out of memory"
\* comes only when the pool has no run of the length asked for.
THEOREM StoreImplemented == Spec => ImplementsStore
<1>1. Init => Store!Init
  <2> SUFFICES ASSUME Init PROVE Store!Init
    OBVIOUS
  <2>1. stage = "scan" /\ owned = {}
    BY DEF Init
  <2>2. Opened = FALSE /\ Exhausted = FALSE
    BY <2>1 DEF Opened, Exhausted
  <2>3. FreeFrames = [s \in Space |-> {}]
    BY <2>2, PoolLaw
  <2> QED BY <2>1, <2>2, <2>3 DEF Store!Init, Space, Store!Space
<1>2. MemoryInv /\ [Next]_vars => [Store!Next]_(Store!vars)
  BY StoreStep
<1> QED BY <1>1, <1>2, MemoryInvariant, PTL DEF Spec, ImplementsStore, Store!Spec
=============================================================================
