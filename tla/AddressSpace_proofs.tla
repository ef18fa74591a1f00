------------------------ MODULE AddressSpace_proofs ------------------------
(***************************************************************************)
(* The page tables of AddressSpace for every number of levels and entries. *)
(*                                                                         *)
(* SpaceInv is inductive.  It has the tables as a tree (TreeInv), in which *)
(* each knows its place; what the entries of the last level hold, in the   *)
(* kernel's address space (KernelInv, KernelGot) and in the table of a     *)
(* user's stack (StackInv); where each operation is, and how much of a     *)
(* copy is done (WorkInv); and how many tables there are (ReserveInv).     *)
(***************************************************************************)
EXTENDS AddressSpace, FiniteSetTheorems, WellFoundedInduction, TLAPS

-----------------------------------------------------------------------------
(* The inductive invariant of the proofs. *)

Arguments   == [start : Nat, end : Nat, space : {"Kernel", "User"}, flags : Flag]
Activations == [table : Nat, source : Nat, index : Nat]
Operations  ==
    [op : {"idle", "map", "copy"}, request : Arguments, page : Nat, level : 1..Levels,
     path : [1..Levels -> Activations]]

\* What may be asked of an address space.
Requests(s) ==
    IF s = 1 THEN {MemoryRequest} \cup {DeviceRequest(d) : d \in Devices} ELSE {StackRequest}

TypeInv ==
    /\ memory \in Memories /\ leftover \in Leftovers /\ booted \in BOOLEAN
    /\ fault \in {"none", "exhausted"}
    /\ next_frame \in [{"Kernel", "User"} -> Nat]
    /\ next_frame["Kernel"] \in 1..memory.kernel_phys_limit
    /\ next_frame["User"] \in memory.kernel_phys_limit..memory.phys_limit
    /\ root \in Seq(Nat) /\ asked \in Seq(SUBSET Arguments) /\ work \in Seq(Operations)
    /\ Len(asked) = Len(root) /\ Len(work) = Len(root)
    /\ mem \in [1..(Fresh - 1) -> [Slots -> Entry]]
    /\ place \in [1..(Fresh - 1) -> [space : DOMAIN root, level : 1..Levels, number : Nat]]
    /\ \A s \in DOMAIN root : asked[s] \subseteq Requests(s)

\* Boot is over when there are users, the kernel's address space then stays as it is,
\* and begins with all of memory.
OrderInv ==
    /\ ~booted => Len(root) <= 1
    /\ booted => root # <<>> /\ work[1].op = "idle"
    /\ root # <<>> /\ asked[1] = {} => work[1].op = "map" /\ work[1].request = MemoryRequest
    /\ root # <<>> /\ asked[1] # {} =>
        MemoryRequest \in asked[1] /\ (work[1].op = "map" => work[1].request.flags = "no_cache")
    /\ \A s \in DOMAIN root \ {1} : work[s].op # "idle" => asked[s] = {}

\* The place of the table behind an entry.
Child(t, i) == Placed(place[t].space, place[t].level - 1, place[t].number * Entries + i)
Linked(t, i) ==
    /\ mem[t][i].flags = "present" /\ mem[t][i].addr \in DOMAIN mem
    /\ place[mem[t][i].addr] = Child(t, i)

\* The place is before those of the stack.
Below(p) == p.level < Levels /\ p.number < Prefix(StackPage)[p.level]

\* Every address space has a root table, no place two tables, every other table an
\* entry that leads to it; entries are empty or lead to the tables of their places,
\* except in copies of tables, where they may be what was left.
Roots    == /\ \A s \in DOMAIN root : root[s] \in DOMAIN mem /\ place[root[s]] = Placed(s, Levels, 0)
            /\ \A t \in DOMAIN mem : place[t].level = Levels => place[t].number = 0
Distinct == \A t, u \in DOMAIN mem : place[t] = place[u] => t = u
Parents  == \A t \in DOMAIN mem : place[t].level < Levels =>
                \E u \in DOMAIN mem : \E i \in Slots :
                    place[u].level > 1 /\ Linked(u, i) /\ mem[u][i].addr = t
Children == \A t \in DOMAIN mem : place[t].level > 1 => \A i \in Slots :
                \/ mem[t][i] = Unused
                \/ Linked(t, i)
                \/ place[t].space # 1 /\ Below(place[t]) /\ mem[t][i] = leftover
TreeInv  == Roots /\ Distinct /\ Parents /\ Children

\* The kernel's tables are below the stack, and its pages are at their own addresses.
KernelInv ==
    \A t \in DOMAIN mem : place[t].space = 1 =>
        /\ place[t].level < Levels => Below(place[t])
        /\ place[t].level = 1 => \A i \in Slots :
            \/ mem[t][i] = Unused
            \/ mem[t][i].addr = place[t].number * Entries + i /\ mem[t][i].flags # "none"

\* The first page of a request that is not mapped yet.
Reached(w) ==
    IF w.level = 1 THEN w.page + (Top(w).index - start_index(w)) ELSE w.page

\* Page p of the kernel is mapped as request a wants it.
Got(p, a) ==
    \E t \in DOMAIN mem :
        /\ place[t] = Placed(1, 1, p \div Entries)
        /\ mem[t][p % Entries].flags # "none"
        /\ a.flags = "no_cache" => mem[t][p % Entries].flags = "no_cache"

KernelGot ==
    root # <<>> =>
        /\ \A a \in asked[1] : \A p \in a.start..(a.end - 1) : Got(p, a)
        /\ work[1].op = "map" =>
            \A p \in work[1].request.start..(Reached(work[1]) - 1) : Got(p, work[1].request)

\* The first page of a stack that is not mapped.
StackEnd(s) ==
    IF work[s].op = "map" THEN Reached(work[s])
    ELSE IF asked[s] = {} THEN StackPage ELSE StackPage + StackPages

\* The frames of the users are the entries of the stacks' last tables: those of the
\* pages that are mapped have one, no two the same, and there are no others.
StackTable(t) == place[t].space # 1 /\ place[t].level = 1 /\ ~Below(place[t])
StackEntries  == \A t \in DOMAIN mem : StackTable(t) => \A i \in Slots :
    IF place[t].number * Entries + i < StackEnd(place[t].space)
    THEN mem[t][i].flags = "present"
         /\ mem[t][i].addr \in memory.kernel_phys_limit..(next_frame["User"] - 1)
    ELSE mem[t][i] = Unused
StackFrames   == \A t, u \in DOMAIN mem : StackTable(t) /\ StackTable(u) => \A i, j \in Slots :
    mem[t][i] = mem[u][j] /\ mem[t][i] # Unused => t = u /\ i = j
StackTaken    == \A f \in memory.kernel_phys_limit..(next_frame["User"] - 1) :
    \E t \in DOMAIN mem : StackTable(t) /\ \E i \in Slots : mem[t][i].addr = f
StackMapped   == \A s \in DOMAIN root \ {1} : \A p \in StackPage..(StackEnd(s) - 1) :
    \E t \in DOMAIN mem : place[t] = Placed(s, 1, p \div Entries)
StackInv      == StackEntries /\ StackFrames /\ StackTaken /\ StackMapped

\* The calls of an operation are for tables on a path from the root.
OnPath(s, w, l) ==
    LET c == w.path[l] IN
    /\ c.table \in DOMAIN mem /\ c.index \in 0..Entries
    /\ place[c.table].space = s /\ place[c.table].level = l
    /\ w.op = "copy" => c.source \in DOMAIN mem /\ place[c.source] = Placed(1, l, place[c.table].number)
    /\ l > w.level =>
        /\ c.index < Entries
        /\ place[c.table].number * Entries + c.index = place[w.path[l - 1].table].number
PathInv(s) == \A l \in work[s].level..Levels : OnPath(s, work[s], l)

\* Where map_in_table is.
MapInv(s) ==
    LET w == work[s]
        c == Top(w)
        n == place[c.table].number
    IN  /\ w.request \in Requests(s)
        /\ w.page \in w.request.start..w.request.end
        /\ w.page < w.request.end /\ w.level > 1 =>
                n * Entries + c.index = Prefix(w.page)[w.level - 1]
        /\ w.level = 1 => /\ w.page < w.request.end
                          /\ n = Prefix(w.page)[1] /\ c.index >= start_index(w)
        /\ s # 1 => /\ w.page < w.request.end => w.page % Entries = 0
                    /\ Reached(w) <= w.request.end

\* The tables of the last level that copy_table has passed.
Passed(w, n) ==
    IF w.level = 1 THEN n < place[Top(w).table].number
    ELSE Prefix(n)[w.level - 2] < place[Top(w).table].number * Entries + Top(w).index

\* Copies of the kernel's last tables, and where copy_table is.
KernelLeaf(t) == place[t].space = 1 /\ place[t].level = 1
HasCopy(s, t) ==
    \E u \in DOMAIN mem : place[u] = Placed(s, 1, place[t].number) /\ mem[u] = mem[t]
IsCopy(u) ==
    \E t \in DOMAIN mem : KernelLeaf(t) /\ place[t].number = place[u].number /\ mem[u] = mem[t]

CopyInv(s) ==
    LET w == work[s] IN
    /\ booted /\ s # 1
    /\ \A t \in DOMAIN mem : KernelLeaf(t) /\ Passed(w, place[t].number) => HasCopy(s, t)
    /\ \A u \in DOMAIN mem : place[u].space = s /\ place[u].level = 1 =>
            IsCopy(u) \/ (w.level = 1 /\ u = Top(w).table)
    /\ \A u \in DOMAIN mem : place[u].space = s /\ place[u].level < Levels => Below(place[u])
    /\ \A l \in w.level..Levels : l > 1 => \A i \in Slots :
            (IF l = w.level THEN i >= w.path[l].index ELSE i > w.path[l].index) =>
            \A u \in DOMAIN mem : place[u] # Child(w.path[l].table, i)

CopiedInv(s) ==
    /\ \A t \in DOMAIN mem : KernelLeaf(t) => HasCopy(s, t)
    /\ \A u \in DOMAIN mem : place[u].space = s /\ place[u].level = 1 => IsCopy(u) \/ StackTable(u)

OperationInv(s) ==
    /\ work[s].op # "idle" => PathInv(s)
    /\ work[s].op = "map" => MapInv(s)
    /\ work[s].op = "copy" => CopyInv(s)
    /\ s # 1 /\ work[s].op # "copy" => CopiedInv(s)
WorkInv == \A s \in DOMAIN root : OperationInv(s)

\* While memory is mapped, tables are for pages of memory.
ReserveInv ==
    root # <<>> /\ asked[1] = {} =>
        \A t \in DOMAIN mem : place[t].number <= Prefix(memory.phys_limit - 1)[place[t].level]

\* The invariant that every step keeps.
SpaceInv ==
    /\ TypeInv /\ OrderInv /\ TreeInv /\ KernelInv /\ KernelGot /\ StackInv /\ WorkInv
    /\ ReserveInv /\ ReserveSuffices

-----------------------------------------------------------------------------
(* Recursion over levels. *)

\* Induction over the natural numbers, from the least counterexample.
LEMMA Induction ==
    ASSUME NEW D \in SUBSET Nat, 0 \in D, \A n \in D : n + 1 \in D
    PROVE  D = Nat
<1> DEFINE R == {ss \in Nat \X Nat : ss[1] < ss[2]}
<1>1. IsWellFoundedOn(R, Nat)
  BY NatLessThanWellFounded DEF OpToRel
<1>2. \A x, y \in Nat : y < x => <<y, x>> \in R
  OBVIOUS
<1> HIDE DEF R
<1>3. SUFFICES ASSUME Nat \ D # {} PROVE FALSE
  OBVIOUS
<1>4. PICK x \in Nat \ D : \A y \in Nat \ D : ~(<<y, x>> \in R)
  BY <1>1, <1>3, WFMin
<1>5. x \in Nat /\ x # 0 /\ x - 1 \in Nat /\ x - 1 < x
  BY <1>4
<1>6. x - 1 \in D
  BY <1>2, <1>4, <1>5
<1>7. (x - 1) + 1 \in D /\ (x - 1) + 1 = x
  BY <1>5, <1>6
<1> QED BY <1>4, <1>7

\* f begins with a and goes on as step says, up to n.
Chain(f, S, n, a, step) ==
    /\ f \in [0..n -> S]
    /\ f[0] = a
    /\ \A i \in 1..n : f[i] = step[<<i, f[i - 1]>>]

\* There is such a function.
LEMMA Recursion ==
    ASSUME NEW S, NEW n \in Nat, NEW a \in S, NEW step \in [(1..n) \X S -> S]
    PROVE  \E f : Chain(f, S, n, a, step)
<1> DEFINE Is(f, k) == /\ f \in [0..k -> S] /\ f[0] = a
                       /\ \A i \in 1..k : f[i] = step[<<i, f[i - 1]>>]
           D == {k \in Nat : k <= n => \E f : Is(f, k)}
<1>1. 0 \in D
  <2> DEFINE f == [i \in 0..0 |-> a]
  <2>1. Is(f, 0)
    OBVIOUS
  <2> HIDE DEF f, Is
  <2> QED BY <2>1
<1>2. ASSUME NEW k \in D
      PROVE  k + 1 \in D
  <2>1. SUFFICES ASSUME k + 1 <= n PROVE \E f : Is(f, k + 1)
    OBVIOUS
  <2>2. k \in Nat /\ k <= n
    BY <2>1
  <2>3. PICK f : Is(f, k)
    BY <2>2
  <2> DEFINE x == step[<<k + 1, f[k]>>]
             g == [i \in 0..(k + 1) |-> IF i = k + 1 THEN x ELSE f[i]]
  <2>4. x \in S
    <3>1. k + 1 \in 1..n /\ f[k] \in S
      BY <2>1, <2>2, <2>3
    <3> QED BY <3>1
  <2> HIDE DEF x
  <2>5. g \in [0..(k + 1) -> S] /\ g[0] = a
    BY <2>2, <2>3, <2>4
  <2>6. ASSUME NEW i \in 1..(k + 1)
        PROVE  g[i] = step[<<i, g[i - 1]>>]
    <3>1. CASE i = k + 1
      <4>1. g[i] = x /\ i - 1 = k /\ g[k] = f[k]
        BY <2>2, <3>1
      <4> QED BY <3>1, <4>1 DEF x
    <3>2. CASE i # k + 1
      <4>1. i \in 1..k /\ g[i] = f[i] /\ g[i - 1] = f[i - 1]
        BY <2>2, <3>2
      <4> QED BY <2>3, <4>1
    <3> QED BY <3>1, <3>2
  <2> HIDE DEF g
  <2>7. Is(g, k + 1)
    BY <2>5, <2>6
  <2> HIDE DEF Is
  <2> QED BY <2>7
<1>3. D \in SUBSET Nat
  OBVIOUS
<1> HIDE DEF D
<1>4. D = Nat
  BY <1>1, <1>2, <1>3, Induction
<1>5. n \in D
  BY <1>4
<1> QED BY <1>5 DEF D, Chain

\* What is assumed of the sizes.
LEMMA Sizes ==
    /\ Entries \in Nat /\ Entries >= 2 /\ Levels \in Nat /\ Levels >= 2
BY PageTableAssumption, AddressSpaceAssumption

\* Prefixes are quotients.
LEMMA PrefixLaw ==
    ASSUME NEW page \in Nat
    PROVE  /\ Prefix(page) \in [0..Levels -> Nat]
           /\ Prefix(page)[0] = page
           /\ \A l \in 1..Levels : Prefix(page)[l] = Prefix(page)[l - 1] \div Entries
<1> DEFINE step == [x \in (1..Levels) \X Nat |-> x[2] \div Entries]
           Is(f) == f = [l \in 0..Levels |-> IF l = 0 THEN page ELSE f[l - 1] \div Entries]
<1>1. \A n \in Nat : n \div Entries \in Nat
  BY Sizes
<1>2. step \in [(1..Levels) \X Nat -> Nat]
  BY <1>1
<1>3. PICK f : Chain(f, Nat, Levels, page, step)
  <2> HIDE DEF step
  <2> QED BY <1>2, Sizes, Recursion
<1>4. ASSUME NEW l \in 1..Levels PROVE f[l] = f[l - 1] \div Entries
  <2>1. l - 1 \in 0..Levels
    BY Sizes
  <2>2. f[l] = step[<<l, f[l - 1]>>] /\ f[l - 1] \in Nat
    BY <1>3, <2>1 DEF Chain
  <2>3. PICK y \in Nat : y = f[l - 1]
    BY <2>2
  <2>4. step[<<l, y>>] = y \div Entries
    OBVIOUS
  <2> HIDE DEF step
  <2> QED BY <2>2, <2>3, <2>4
<1>5. Is(f)
  <2>1. f = [l \in 0..Levels |-> f[l]] /\ f[0] = page
    BY <1>3 DEF Chain
  <2>2. ASSUME NEW l \in 0..Levels
        PROVE  f[l] = IF l = 0 THEN page ELSE f[l - 1] \div Entries
    <3>1. CASE l = 0
      BY <2>1, <3>1
    <3>2. CASE l # 0
      <4>1. l \in 1..Levels
        BY <3>2, Sizes
      <4> QED BY <1>4, <3>2, <4>1
    <3> QED BY <3>1, <3>2
  <2> QED BY <2>1, <2>2
<1>6. PICK g : Prefix(page) = g /\ Is(g)
  <2>1. Is(CHOOSE h : Is(h))
    BY <1>5, Zenon
  <2> QED BY <2>1, Zenon DEF Prefix
<1>7. g[0] = page /\ DOMAIN g = 0..Levels
  BY <1>6, Sizes
<1>8. ASSUME NEW l \in 1..Levels PROVE g[l] = g[l - 1] \div Entries
  BY <1>6, Sizes
<1>9. \A k \in 0..Levels : g[k] \in Nat
  <2> DEFINE D == {k \in Nat : k <= Levels => g[k] \in Nat}
  <2>1. 0 \in D
    BY <1>7
  <2>2. ASSUME NEW k \in D PROVE k + 1 \in D
    <3>1. SUFFICES ASSUME k + 1 <= Levels PROVE g[k + 1] \in Nat
      OBVIOUS
    <3>2. k + 1 \in 1..Levels /\ (k + 1) - 1 = k /\ g[k] \in Nat
      BY <3>1, Sizes
    <3>3. g[k + 1] = g[k] \div Entries
      BY <1>8, <3>2
    <3> QED BY <1>1, <3>2, <3>3
  <2>3. D \in SUBSET Nat
    OBVIOUS
  <2> HIDE DEF D
  <2>4. D = Nat
    BY <2>1, <2>2, <2>3, Induction
  <2> QED BY <2>4, Sizes DEF D
<1>10. g \in [0..Levels -> Nat]
  <2>1. g = [l \in 0..Levels |-> g[l]]
    BY <1>6
  <2> QED BY <1>9, <2>1
<1> QED BY <1>6, <1>7, <1>8, <1>10

LEMMA PrefixNat ==
    ASSUME NEW p \in Nat, NEW l \in 0..Levels
    PROVE  Prefix(p)[l] \in Nat
BY PrefixLaw

-----------------------------------------------------------------------------
(* Arithmetic of tables and entries. *)

\* Division of natural numbers.
LEMMA Division ==
    ASSUME NEW a \in Nat, NEW e \in Nat, e > 1
    PROVE  /\ a \div e \in Nat /\ a % e \in 0..(e - 1)
           /\ (a \div e) * e + (a % e) = a
<1>1. a \div e \in Nat /\ a % e \in 0..(e - 1)
  OBVIOUS
<1>2. a % e = a - e * (a \div e)
  OBVIOUS
<1>3. PICK q \in Nat, r \in 0..(e - 1) : q = a \div e /\ r = a % e
  BY <1>1
<1>4. r = a - e * q
  BY <1>2, <1>3
<1>5. q * e + r = a
  BY <1>3, <1>4
<1>6. (a \div e) * e + (a % e) = a
  <2>1. (a \div e) * e = q * e
    BY <1>3
  <2>2. (a \div e) * e + (a % e) = q * e + r
    BY <1>3, <2>1
  <2> QED BY <1>5, <2>2
<1> QED BY <1>1, <1>6

LEMMA Quotient ==
    ASSUME NEW e \in Nat, e > 1, NEW q \in Nat, NEW r \in Nat, r < e, NEW a \in Nat, a = q * e + r
    PROVE  a \div e = q /\ a % e = r
<1>1. a \div e = q
  OBVIOUS
<1>2. a % e = r
  OBVIOUS
<1> QED BY <1>1, <1>2

\* The number of an entry leads back to its table and its slot.
LEMMA DivMod ==
    ASSUME NEW n \in Nat, NEW i \in Slots
    PROVE  /\ n * Entries + i \in Nat
           /\ (n * Entries + i) \div Entries = n /\ (n * Entries + i) % Entries = i
<1>1. i \in Nat /\ i < Entries
  BY Sizes DEF Slots
<1>2. n * Entries + i \in Nat
  BY <1>1, Sizes
<1>3. PICK a \in Nat : a = n * Entries + i
  BY <1>2
<1> QED BY <1>1, <1>3, Quotient, Sizes

\* A number is that of its table and its slot.
LEMMA Split ==
    ASSUME NEW a \in Nat
    PROVE  /\ a \div Entries \in Nat /\ a % Entries \in Slots
           /\ (a \div Entries) * Entries + (a % Entries) = a
<1>1. Entries \in Nat /\ Entries > 1
  BY Sizes
<1>2. /\ a \div Entries \in Nat /\ a % Entries \in 0..(Entries - 1)
      /\ (a \div Entries) * Entries + (a % Entries) = a
  BY <1>1, Division
<1> QED BY <1>2, Zenon DEF Slots

\* Tables are in the order of their entries.
LEMMA DivOrder ==
    ASSUME NEW a \in Nat, NEW b \in Nat
    PROVE  /\ a <= b => a \div Entries <= b \div Entries
           /\ a < b * Entries <=> a \div Entries < b
           /\ a < b /\ b % Entries = 0 => a \div Entries < b \div Entries
<1>1. PICK e \in Nat : e = Entries /\ e >= 2
  BY Sizes
<1>2. PICK q \in Nat, r \in 0..(e - 1) : q = a \div e /\ r = a % e /\ a = q * e + r
  BY <1>1, Split DEF Slots
<1>3. PICK x \in Nat, y \in 0..(e - 1) : x = b \div e /\ y = b % e /\ b = x * e + y
  BY <1>1, Split DEF Slots
<1>4. a < b * e => q < b
  <2>1. SUFFICES ASSUME q >= b PROVE a >= b * e
    BY <1>1, <1>2
  <2>2. q * e >= b * e
    BY <1>1, <2>1
  <2> QED BY <1>1, <1>2, <2>2
<1>5. q < b => a < b * e
  <2>1. SUFFICES ASSUME q + 1 <= b PROVE a < b * e
    BY <1>1, <1>2
  <2>2. (q + 1) * e <= b * e
    BY <1>1, <2>1
  <2> QED BY <1>1, <1>2, <2>2
<1>6. a <= b => q <= x
  <2>1. SUFFICES ASSUME x + 1 <= q PROVE a > b
    BY <1>2, <1>3
  <2>2. (x + 1) * e <= q * e
    BY <1>1, <2>1
  <2> QED BY <1>1, <1>2, <1>3, <2>2
<1>7. a < b /\ y = 0 => q < x
  <2>1. SUFFICES ASSUME x <= q PROVE a >= x * e
    BY <1>2, <1>3
  <2>2. x * e <= q * e
    BY <1>1, <2>1
  <2> QED BY <1>1, <1>2, <1>3, <2>2
<1> QED BY <1>1, <1>2, <1>3, <1>4, <1>5, <1>6, <1>7

\* Prefixes keep the order of pages.
LEMMA PrefixOrder ==
    ASSUME NEW p \in Nat, NEW q \in Nat, p <= q, NEW l \in 0..Levels
    PROVE  Prefix(p)[l] <= Prefix(q)[l]
<1> DEFINE D == {k \in Nat : k <= Levels => Prefix(p)[k] <= Prefix(q)[k]}
<1>1. 0 \in D
  BY PrefixLaw
<1>2. ASSUME NEW k \in D PROVE k + 1 \in D
  <2>1. SUFFICES ASSUME k + 1 <= Levels PROVE Prefix(p)[k + 1] <= Prefix(q)[k + 1]
    OBVIOUS
  <2>2. k + 1 \in 1..Levels /\ (k + 1) - 1 = k /\ k \in 0..Levels
    BY <2>1, Sizes
  <2>3. PICK a \in Nat, b \in Nat : a = Prefix(p)[k] /\ b = Prefix(q)[k]
    BY <2>2, PrefixLaw, Sizes
  <2>6. a <= b
    BY <2>1, <2>3, Sizes
  <2>4. Prefix(p)[k + 1] = a \div Entries /\ Prefix(q)[k + 1] = b \div Entries
    BY <2>2, <2>3, PrefixLaw
  <2> QED BY <2>4, <2>6, DivOrder
<1>3. D \in SUBSET Nat
  OBVIOUS
<1> HIDE DEF D
<1>4. D = Nat
  BY <1>1, <1>2, <1>3, Induction
<1> QED BY <1>4, Sizes DEF D

\* Tables of the pages before the stack come before those of the stack.
LEMMA BeforeStack ==
    ASSUME NEW p \in Nat, p < StackPage, NEW l \in 0..(Levels - 1)
    PROVE  Prefix(p)[l] < Prefix(StackPage)[l]
<1> DEFINE D == {k \in Nat : k < Levels => Prefix(p)[k] < Prefix(StackPage)[k]}
<1>0. StackPage \in Nat
  BY AddressSpaceAssumption DEF Pages
<1>1. 0 \in D
  BY <1>0, PrefixLaw
<1>2. ASSUME NEW k \in D PROVE k + 1 \in D
  <2>1. SUFFICES ASSUME k + 1 < Levels PROVE Prefix(p)[k + 1] < Prefix(StackPage)[k + 1]
    OBVIOUS
  <2>2. k + 1 \in 1..Levels /\ k + 1 \in 1..(Levels - 1) /\ (k + 1) - 1 = k /\ k \in 0..Levels
    BY <2>1, Sizes
  <2>3. PICK a \in Nat, b \in Nat : a = Prefix(p)[k] /\ b = Prefix(StackPage)[k]
    BY <1>0, <2>2, PrefixLaw, Sizes
  <2>6. a < b
    BY <2>1, <2>3, Sizes
  <2>4. Prefix(p)[k + 1] = a \div Entries /\ Prefix(StackPage)[k + 1] = b \div Entries
    BY <1>0, <2>2, <2>3, PrefixLaw
  <2>5. b % Entries = 0
    BY <2>2, <2>3, AddressSpaceAssumption DEF page_table_index
  <2> QED BY <2>4, <2>5, <2>6, DivOrder
<1>3. D \in SUBSET Nat
  OBVIOUS
<1> HIDE DEF D
<1>4. D = Nat
  BY <1>1, <1>2, <1>3, Induction
<1> QED BY <1>4, Sizes DEF D

\* How many pages are below a table of each level.
LEMMA PageCountLaw ==
    \E g \in [0..Levels -> Nat] :
        PageCount = g[Levels] /\ g[0] = 1 /\ \A l \in 1..Levels : g[l] = g[l - 1] * Entries
<1> DEFINE step == [x \in (1..Levels) \X Nat |-> x[2] * Entries]
           Is(f) == f = [l \in 0..Levels |-> IF l = 0 THEN 1 ELSE f[l - 1] * Entries]
<1>1. \A n \in Nat : n * Entries \in Nat
  BY Sizes
<1>2. step \in [(1..Levels) \X Nat -> Nat]
  BY <1>1
<1>3. PICK f : Chain(f, Nat, Levels, 1, step)
  <2> HIDE DEF step
  <2> QED BY <1>2, Sizes, Recursion
<1>4. ASSUME NEW l \in 1..Levels PROVE f[l] = f[l - 1] * Entries
  <2>1. l - 1 \in 0..Levels
    BY Sizes
  <2>2. f[l] = step[<<l, f[l - 1]>>] /\ f[l - 1] \in Nat
    BY <1>3, <2>1 DEF Chain
  <2>3. PICK y \in Nat : y = f[l - 1]
    BY <2>2
  <2>4. step[<<l, y>>] = y * Entries
    OBVIOUS
  <2> HIDE DEF step
  <2> QED BY <2>2, <2>3, <2>4
<1>5. Is(f)
  <2>1. f = [l \in 0..Levels |-> f[l]] /\ f[0] = 1
    BY <1>3 DEF Chain
  <2>2. ASSUME NEW l \in 0..Levels
        PROVE  f[l] = IF l = 0 THEN 1 ELSE f[l - 1] * Entries
    <3>1. CASE l = 0
      BY <2>1, <3>1
    <3>2. CASE l # 0
      <4>1. l \in 1..Levels
        BY <3>2, Sizes
      <4> QED BY <1>4, <3>2, <4>1
    <3> QED BY <3>1, <3>2
  <2> QED BY <2>1, <2>2
<1>6. PICK g : PageCount = g[Levels] /\ Is(g)
  <2>1. Is(CHOOSE h : Is(h))
    BY <1>5, Zenon
  <2> QED BY <2>1, Zenon DEF PageCount
<1>7. g[0] = 1
  BY <1>6, Sizes
<1>8. ASSUME NEW l \in 1..Levels PROVE g[l] = g[l - 1] * Entries
  BY <1>6, Sizes
<1>9. \A k \in 0..Levels : g[k] \in Nat
  <2> DEFINE D == {k \in Nat : k <= Levels => g[k] \in Nat}
  <2>1. 0 \in D
    BY <1>7
  <2>2. ASSUME NEW k \in D PROVE k + 1 \in D
    <3>1. SUFFICES ASSUME k + 1 <= Levels PROVE g[k + 1] \in Nat
      OBVIOUS
    <3>2. k + 1 \in 1..Levels /\ (k + 1) - 1 = k /\ g[k] \in Nat
      BY <3>1, Sizes
    <3>3. g[k + 1] = g[k] * Entries
      BY <1>8, <3>2
    <3> QED BY <1>1, <3>2, <3>3
  <2>3. D \in SUBSET Nat
    OBVIOUS
  <2> HIDE DEF D
  <2>4. D = Nat
    BY <2>1, <2>2, <2>3, Induction
  <2> QED BY <2>4, Sizes DEF D
<1>10. g \in [0..Levels -> Nat]
  <2>1. g = [l \in 0..Levels |-> IF l = 0 THEN 1 ELSE g[l - 1] * Entries]
    BY <1>6
  <2>2. g = [l \in 0..Levels |-> g[l]]
    BY <2>1
  <2> QED BY <1>9, <2>2
<1> QED BY <1>6, <1>7, <1>8, <1>10

\* The root table has the pages of all tables.
LEMMA RootPrefix ==
    ASSUME NEW p \in Pages
    PROVE  p \in Nat /\ Prefix(p)[Levels] = 0 /\ Prefix(p)[Levels - 1] < Entries
<1>6. PICK g \in [0..Levels -> Nat] :
        PageCount = g[Levels] /\ g[0] = 1 /\ \A l \in 1..Levels : g[l] = g[l - 1] * Entries
  BY PageCountLaw
<1>7. g[0] = 1
  BY <1>6
<1>8. ASSUME NEW l \in 1..Levels PROVE g[l] = g[l - 1] * Entries
  BY <1>6
<1>9. \A k \in 0..Levels : g[k] \in Nat
  BY <1>6
<1>10. p \in Nat /\ p < g[Levels]
  <2>1. g[Levels] \in Nat
    BY <1>9, Sizes
  <2> QED BY <1>6, <2>1 DEF Pages
<1> DEFINE D == {k \in Nat : k <= Levels => Prefix(p)[k] < g[Levels - k]}
<1>11. 0 \in D
  <2>1. Prefix(p)[0] = p /\ Levels - 0 = Levels
    BY <1>10, PrefixLaw, Sizes
  <2> QED BY <1>10, <2>1
<1>12. ASSUME NEW k \in D PROVE k + 1 \in D
  <2>1. SUFFICES ASSUME k + 1 <= Levels PROVE Prefix(p)[k + 1] < g[Levels - (k + 1)]
    OBVIOUS
  <2>2. /\ k + 1 \in 1..Levels /\ (k + 1) - 1 = k /\ k \in 0..Levels
        /\ Levels - k \in 1..Levels /\ (Levels - k) - 1 = Levels - (k + 1)
        /\ Levels - (k + 1) \in 0..Levels
    BY <2>1, Sizes
  <2>3. PICK a \in Nat, b \in Nat : a = Prefix(p)[k] /\ b = g[Levels - (k + 1)]
    BY <1>9, <1>10, <2>2, PrefixLaw, Sizes
  <2>4. g[Levels - k] = b * Entries
    BY <1>8, <2>2, <2>3
  <2>5. a < b * Entries
    BY <2>2, <2>3, <2>4
  <2>6. Prefix(p)[k + 1] = a \div Entries
    BY <1>10, <2>2, <2>3, PrefixLaw
  <2> QED BY <2>3, <2>5, <2>6, DivOrder
<1>13. D \in SUBSET Nat
  OBVIOUS
<1> HIDE DEF D
<1>14. D = Nat
  BY <1>11, <1>12, <1>13, Induction
<1>15. Prefix(p)[Levels] < g[0] /\ Prefix(p)[Levels - 1] < g[1]
  <2>1. Levels - Levels = 0 /\ Levels - (Levels - 1) = 1 /\ Levels \in D /\ Levels - 1 \in D
    BY <1>14, Sizes
  <2> QED BY <2>1, Sizes DEF D
<1>16. g[1] = Entries
  <2>1. g[1] = g[0] * Entries
    BY <1>8, Sizes
  <2> QED BY <1>7, <2>1, Sizes
<1>17. Prefix(p)[Levels] \in Nat
  BY <1>10, PrefixLaw, Sizes
<1> QED BY <1>7, <1>10, <1>15, <1>16, <1>17

\* The prefix of a prefix.
LEMMA PrefixPrefix ==
    ASSUME NEW p \in Nat, NEW k \in 0..Levels, NEW l \in 0..Levels, k + l <= Levels
    PROVE  Prefix(Prefix(p)[k])[l] = Prefix(p)[k + l]
<1> DEFINE q == Prefix(p)[k]
           D == {j \in Nat : k + j <= Levels => Prefix(q)[j] = Prefix(p)[k + j]}
<1>0. q \in Nat /\ k \in Nat
  BY PrefixLaw, Sizes
<1> HIDE DEF q
<1>1. 0 \in D
  BY <1>0, PrefixLaw DEF q
<1>2. ASSUME NEW j \in D PROVE j + 1 \in D
  <2>1. SUFFICES ASSUME k + (j + 1) <= Levels PROVE Prefix(q)[j + 1] = Prefix(p)[k + (j + 1)]
    OBVIOUS
  <2>2. /\ j + 1 \in 1..Levels /\ (j + 1) - 1 = j /\ k + (j + 1) \in 1..Levels
        /\ (k + (j + 1)) - 1 = k + j /\ k + j <= Levels
    BY <1>0, <2>1, Sizes
  <2>3. Prefix(q)[j + 1] = Prefix(q)[j] \div Entries
    BY <1>0, <2>2, PrefixLaw
  <2>4. Prefix(p)[k + (j + 1)] = Prefix(p)[k + j] \div Entries
    BY <2>2, PrefixLaw
  <2> QED BY <2>2, <2>3, <2>4
<1>3. D \in SUBSET Nat
  OBVIOUS
<1> HIDE DEF D
<1>4. D = Nat
  BY <1>1, <1>2, <1>3, Induction
<1>5. l \in D
  BY <1>4, Sizes
<1> QED BY <1>5 DEF D, q

-----------------------------------------------------------------------------
(* The calls of an operation, and the tables. *)

LEMMA ActivationLaw ==
    ASSUME NEW a \in Nat, NEW b \in Nat, NEW c \in Nat
    PROVE  /\ Activation(a, b, c) \in Activations
           /\ Activation(a, b, c).table = a /\ Activation(a, b, c).source = b
           /\ Activation(a, b, c).index = c
BY DEF Activation, Activations

LEMMA OperationLaw ==
    ASSUME NEW op \in {"idle", "map", "copy"}, NEW r \in Arguments, NEW a \in Activations
    PROVE  /\ Operation(op, r, a) \in Operations
           /\ Operation(op, r, a).op = op /\ Operation(op, r, a).request = r
           /\ Operation(op, r, a).page = r.start /\ Operation(op, r, a).level = Levels
           /\ Operation(op, r, a).path[Levels] = a
<1> DEFINE path == [l \in 1..Levels |-> IF l = Levels THEN a ELSE Activation(0, 0, 0)]
<1>1. Activation(0, 0, 0) \in Activations
  BY ActivationLaw
<1>2. path \in [1..Levels -> Activations] /\ path[Levels] = a
  BY <1>1, Sizes
<1>3. Operation(op, r, a) =
        [op |-> op, request |-> r, page |-> r.start, level |-> Levels, path |-> path]
  BY DEF Operation
<1> HIDE DEF path
<1>4. r.start \in Nat /\ Levels \in 1..Levels
  BY Sizes DEF Arguments
<1> QED BY <1>2, <1>3, <1>4 DEF Operations

LEMMA CalledLaw ==
    ASSUME NEW w \in Operations, w.level > 1, NEW a \in Nat, NEW b \in Nat, NEW i \in Nat
    PROVE  LET v == Called(w, a, b, i) IN
           /\ v \in Operations /\ v.op = w.op /\ v.request = w.request /\ v.page = w.page
           /\ v.level = w.level - 1
           /\ v.path[w.level - 1] = Activation(a, b, i)
           /\ \A l \in 1..Levels : l # w.level - 1 => v.path[l] = w.path[l]
<1>0. w.level \in 1..Levels /\ w.level - 1 \in 1..Levels /\ w.path \in [1..Levels -> Activations]
  BY Sizes DEF Operations
<1> DEFINE path == [w.path EXCEPT ![w.level - 1] = Activation(a, b, i)]
<1>1. Called(w, a, b, i) =
        [op |-> w.op, request |-> w.request, page |-> w.page, level |-> w.level - 1, path |-> path]
  <2>1. w = [op |-> w.op, request |-> w.request, page |-> w.page, level |-> w.level, path |-> w.path]
    BY DEF Operations
  <2>2. Called(w, a, b, i) = [w EXCEPT !.level = @ - 1, !.path = path]
    BY <2>1 DEF Called
  <2> HIDE DEF path
  <2> QED BY <2>1, <2>2
<1>2. Activation(a, b, i) \in Activations
  BY ActivationLaw
<1>3. /\ path \in [1..Levels -> Activations] /\ path[w.level - 1] = Activation(a, b, i)
      /\ \A l \in 1..Levels : l # w.level - 1 => path[l] = w.path[l]
  BY <1>0, <1>2
<1> HIDE DEF path
<1>4. w.op \in {"idle", "map", "copy"} /\ w.request \in Arguments /\ w.page \in Nat
  BY DEF Operations
<1> QED BY <1>0, <1>1, <1>3, <1>4 DEF Operations

LEMMA NextRoundLaw ==
    ASSUME NEW w \in Operations
    PROVE  LET v == NextRound(w) IN
           /\ v \in Operations /\ v.op = w.op /\ v.request = w.request /\ v.page = w.page
           /\ v.level = w.level
           /\ v.path[w.level] = Activation(Top(w).table, Top(w).source, Top(w).index + 1)
           /\ \A l \in 1..Levels : l # w.level => v.path[l] = w.path[l]
<1>0. w.level \in 1..Levels /\ w.path \in [1..Levels -> Activations] /\ w.path[w.level] \in Activations
  BY Sizes DEF Operations
<1>1. PICK c \in Activations : c = w.path[w.level]
  BY <1>0
<1> DEFINE path == [w.path EXCEPT ![w.level] = Activation(c.table, c.source, c.index + 1)]
<1>2. [c EXCEPT !.index = @ + 1] = Activation(c.table, c.source, c.index + 1)
  BY DEF Activations, Activation
<1>3. NextRound(w) =
        [op |-> w.op, request |-> w.request, page |-> w.page, level |-> w.level, path |-> path]
  <2>1. w = [op |-> w.op, request |-> w.request, page |-> w.page, level |-> w.level, path |-> w.path]
    BY DEF Operations
  <2>2. NextRound(w) = [w EXCEPT !.path = [w.path EXCEPT ![w.level] = [c EXCEPT !.index = @ + 1]]]
    BY <1>1, <2>1 DEF NextRound
  <2>3. NextRound(w) = [w EXCEPT !.path = path]
    BY <1>2, <2>2
  <2> HIDE DEF path
  <2> QED BY <2>1, <2>3
<1>4. Activation(c.table, c.source, c.index + 1) \in Activations
  BY DEF Activations, Activation
<1>5. /\ path \in [1..Levels -> Activations] 
      /\ path[w.level] = Activation(c.table, c.source, c.index + 1)
      /\ \A l \in 1..Levels : l # w.level => path[l] = w.path[l]
  BY <1>0, <1>4
<1> HIDE DEF path
<1>6. w.op \in {"idle", "map", "copy"} /\ w.request \in Arguments /\ w.page \in Nat
  BY DEF Operations
<1>7. Top(w) = c
  BY <1>1 DEF Top
<1> QED BY <1>0, <1>3, <1>5, <1>6, <1>7 DEF Operations

LEMMA ReturnedLaw ==
    ASSUME NEW w \in Operations, w.level < Levels, NEW page \in Nat
    PROVE  LET v == Returned(w, page)
               c == w.path[w.level + 1]
           IN
           /\ v \in Operations /\ v.op = w.op /\ v.request = w.request /\ v.page = page
           /\ v.level = w.level + 1
           /\ v.path[w.level + 1] = Activation(c.table, c.source, c.index + 1)
           /\ \A l \in 1..Levels : l # w.level + 1 => v.path[l] = w.path[l]
<1>0. /\ w.level \in 1..Levels /\ w.level + 1 \in 1..Levels /\ w.path \in [1..Levels -> Activations]
      /\ w.path[w.level + 1] \in Activations /\ w.level # Levels
  BY Sizes DEF Operations
<1>1. PICK c \in Activations : c = w.path[w.level + 1]
  BY <1>0
<1> DEFINE path == [w.path EXCEPT ![w.level + 1] = Activation(c.table, c.source, c.index + 1)]
<1>2. [c EXCEPT !.index = @ + 1] = Activation(c.table, c.source, c.index + 1)
  BY DEF Activations, Activation
<1>3. Returned(w, page) =
        [op |-> w.op, request |-> w.request, page |-> page, level |-> w.level + 1, path |-> path]
  <2>1. w = [op |-> w.op, request |-> w.request, page |-> w.page, level |-> w.level, path |-> w.path]
    BY DEF Operations
  <2>2. Returned(w, page) = [w EXCEPT !.page = page, !.level = @ + 1,
                                      !.path = [w.path EXCEPT ![w.level + 1] = [c EXCEPT !.index = @ + 1]]]
    BY <1>0, <1>1, <2>1 DEF Returned
  <2>3. Returned(w, page) = [w EXCEPT !.page = page, !.level = @ + 1, !.path = path]
    BY <1>2, <2>2
  <2> HIDE DEF path
  <2> QED BY <2>1, <2>3
<1>4. Activation(c.table, c.source, c.index + 1) \in Activations
  BY DEF Activations, Activation
<1>5. /\ path \in [1..Levels -> Activations] 
      /\ path[w.level + 1] = Activation(c.table, c.source, c.index + 1)
      /\ \A l \in 1..Levels : l # w.level + 1 => path[l] = w.path[l]
  BY <1>0, <1>4
<1> HIDE DEF path
<1>6. w.op \in {"idle", "map", "copy"} /\ w.request \in Arguments
  BY DEF Operations
<1> QED BY <1>0, <1>1, <1>3, <1>5, <1>6 DEF Operations

LEMMA SetEntryLaw ==
    ASSUME NEW D, NEW m \in [D -> [Slots -> Entry]], NEW t0 \in D, NEW i0 \in Slots,
           NEW addr \in Nat, NEW flags \in Flag
    PROVE  LET x == SetEntry(m, t0, i0, addr, flags) IN
           /\ x \in [D -> [Slots -> Entry]]
           /\ \A t \in D : t # t0 => x[t] = m[t]
           /\ \A i \in Slots : x[t0][i] = IF i = i0 THEN [addr |-> addr, flags |-> flags] ELSE m[t0][i]
<1> DEFINE e == [addr |-> addr, flags |-> flags]
           y == [m[t0] EXCEPT ![i0] = e]
<1>1. e \in Entry
  BY DEF Entry
<1>2. SetEntry(m, t0, i0, addr, flags) = [m EXCEPT ![t0] = y]
  BY DEF SetEntry
<1> HIDE DEF e
<1>3. y \in [Slots -> Entry] /\ \A i \in Slots : y[i] = IF i = i0 THEN e ELSE m[t0][i]
  BY <1>1
<1> HIDE DEF y
<1>4. /\ [m EXCEPT ![t0] = y] \in [D -> [Slots -> Entry]]
      /\ \A t \in D : t # t0 => [m EXCEPT ![t0] = y][t] = m[t]
      /\ [m EXCEPT ![t0] = y][t0] = y
  BY <1>3
<1> QED BY <1>2, <1>3, <1>4 DEF e

LEMMA PlacedLaw ==
    ASSUME NEW s, NEW l, NEW n
    PROVE  Placed(s, l, n).space = s /\ Placed(s, l, n).level = l /\ Placed(s, l, n).number = n
BY DEF Placed

LEMMA PlacedEq ==
    ASSUME NEW S, NEW L, NEW N, NEW p \in [space : S, level : L, number : N]
    PROVE  p = Placed(p.space, p.level, p.number)
BY DEF Placed

LEMMA ZeroLaw ==
    /\ Unused \in Entry /\ Unused.addr = 0 /\ Unused.flags = "none"
    /\ Zero \in [Slots -> Entry] /\ \A i \in Slots : Zero[i] = Unused
BY DEF Unused, Zero, Entry, Flag

-----------------------------------------------------------------------------
(* What the types say. *)

LEMMA StackLaw ==
    /\ StackPage \in Nat /\ StackPages \in Nat /\ StackPages > 0
    /\ PageCount \in Nat /\ StackPage + StackPages <= PageCount
    /\ \A p \in Nat : p < StackPage + StackPages => p \in Pages
    /\ StackPage % Entries = 0
<1>1. PageCount \in Nat
  <2>1. PICK g \in [0..Levels -> Nat] : PageCount = g[Levels]
    BY PageCountLaw
  <2> QED BY <2>1, Sizes
<1>2. StackPage \in Nat /\ StackPages \in Nat /\ StackPages > 0 /\ StackPage + StackPages <= PageCount
  BY <1>1, AddressSpaceAssumption DEF Pages
<1>3. page_table_index(StackPage, 1) = 0
  BY AddressSpaceAssumption, Sizes
<1>4. StackPage % Entries = 0
  BY <1>2, <1>3, PrefixLaw DEF page_table_index
<1> QED BY <1>1, <1>2, <1>4 DEF Pages

LEMMA MemoryLaw ==
    ASSUME TypeInv
    PROVE  /\ memory.kernel_phys_limit \in Nat /\ memory.phys_limit \in Pages /\ memory.phys_limit \in Nat
           /\ PageTables(memory.phys_limit) < memory.kernel_phys_limit
           /\ memory.kernel_phys_limit <= memory.phys_limit /\ memory.phys_limit <= StackPage
           /\ memory.kernel_phys_limit > 0
           /\ leftover \in Entry
<1>1. memory \in Memories /\ leftover \in Leftovers
  BY DEF TypeInv
<1>2. /\ memory.kernel_phys_limit \in Nat /\ memory.phys_limit \in Pages
      /\ PageTables(memory.phys_limit) < memory.kernel_phys_limit
      /\ memory.kernel_phys_limit <= memory.phys_limit /\ memory.phys_limit <= StackPage
      /\ leftover \in Entry
  BY <1>1, AddressSpaceAssumption
<1>3. memory.kernel_phys_limit > 0
  BY <1>2 DEF TypeInv
<1> QED BY <1>2, <1>3, RootPrefix

LEMMA TableLaw ==
    ASSUME TypeInv
    PROVE  /\ Fresh \in Nat /\ Fresh >= 1 /\ Fresh <= memory.kernel_phys_limit
           /\ DOMAIN mem = 1..(Fresh - 1) /\ DOMAIN place = DOMAIN mem
           /\ DOMAIN mem \subseteq Nat /\ 0 \notin DOMAIN mem /\ Fresh \notin DOMAIN mem
           /\ \A t \in DOMAIN mem :
                /\ mem[t] \in [Slots -> Entry]
                /\ place[t] \in [space : DOMAIN root, level : 1..Levels, number : Nat]
                /\ place[t].space \in DOMAIN root /\ place[t].level \in 1..Levels
                /\ place[t].number \in Nat
                /\ place[t] = Placed(place[t].space, place[t].level, place[t].number)
           /\ \A t \in DOMAIN mem, i \in Slots :
                mem[t][i] \in Entry /\ mem[t][i].addr \in Nat /\ mem[t][i].flags \in Flag
<1>1. Fresh \in Nat /\ Fresh >= 1 /\ Fresh <= memory.kernel_phys_limit
  BY MemoryLaw DEF TypeInv, Fresh
<1>2. DOMAIN mem = 1..(Fresh - 1) /\ DOMAIN place = DOMAIN mem
  BY DEF TypeInv
<1>3. DOMAIN mem \subseteq Nat /\ 0 \notin DOMAIN mem /\ Fresh \notin DOMAIN mem
  BY <1>1, <1>2
<1>4. ASSUME NEW t \in DOMAIN mem
      PROVE  /\ mem[t] \in [Slots -> Entry]
             /\ place[t] \in [space : DOMAIN root, level : 1..Levels, number : Nat]
  BY <1>2 DEF TypeInv
<1>5. ASSUME NEW t \in DOMAIN mem
      PROVE  /\ place[t].space \in DOMAIN root /\ place[t].level \in 1..Levels
             /\ place[t].number \in Nat
             /\ place[t] = Placed(place[t].space, place[t].level, place[t].number)
  BY <1>4 DEF Placed
<1>6. ASSUME NEW t \in DOMAIN mem, NEW i \in Slots
      PROVE  mem[t][i] \in Entry /\ mem[t][i].addr \in Nat /\ mem[t][i].flags \in Flag
  BY <1>4 DEF Entry
<1> QED BY <1>1, <1>2, <1>3, <1>4, <1>5, <1>6

LEMMA SpaceLaw ==
    ASSUME TypeInv
    PROVE  /\ Len(root) \in Nat /\ DOMAIN root = 1..Len(root)
           /\ DOMAIN work = DOMAIN root /\ DOMAIN asked = DOMAIN root
           /\ \A s \in DOMAIN root : s \in Nat /\ s >= 1 /\ root[s] \in Nat
                                     /\ work[s] \in Operations /\ asked[s] \in SUBSET Arguments
           /\ root # <<>> => 1 \in DOMAIN root
<1>1. root \in Seq(Nat) /\ asked \in Seq(SUBSET Arguments) /\ work \in Seq(Operations)
      /\ Len(asked) = Len(root) /\ Len(work) = Len(root)
  BY DEF TypeInv
<1> QED BY <1>1

LEMMA OperationType ==
    ASSUME NEW w \in Operations
    PROVE  /\ w.level \in 1..Levels /\ w.level \in Nat /\ w.page \in Nat /\ w.request \in Arguments
           /\ w.op \in {"idle", "map", "copy"}
           /\ Top(w) \in Activations
           /\ \A l \in 1..Levels : /\ w.path[l] \in Activations /\ w.path[l].table \in Nat
                                   /\ w.path[l].source \in Nat /\ w.path[l].index \in Nat
<1>1. /\ w.level \in 1..Levels /\ w.page \in Nat /\ w.request \in Arguments
      /\ w.op \in {"idle", "map", "copy"} /\ w.path \in [1..Levels -> Activations]
  BY DEF Operations
<1>2. ASSUME NEW l \in 1..Levels
      PROVE  /\ w.path[l] \in Activations /\ w.path[l].table \in Nat
             /\ w.path[l].source \in Nat /\ w.path[l].index \in Nat
  BY <1>1 DEF Activations
<1> QED BY <1>1, <1>2, Sizes DEF Top

\* What is asked of the kernel is before the stack, and all that is asked of a
\* user's address space is its stack.
LEMMA RequestLaw ==
    ASSUME TypeInv, NEW s, NEW r \in Requests(s)
    PROVE  /\ r \in Arguments /\ r.start \in Nat /\ r.end \in Nat /\ r.start < r.end
           /\ r.end <= StackPage + StackPages
           /\ r.flags \in {"present", "no_cache"}
           /\ s = 1 => r.space = "Kernel" /\ r.end <= StackPage
           /\ s = 1 /\ r.flags = "present" => r = MemoryRequest
           /\ s # 1 => r = StackRequest
           /\ r = MemoryRequest => r.start = 0 /\ r.end = memory.phys_limit /\ r.flags = "present"
           /\ r = StackRequest => /\ r.space = "User" /\ r.start = StackPage
                                  /\ r.end = StackPage + StackPages /\ r.flags = "present"
<1>1. CASE s = 1 /\ r = MemoryRequest
  BY <1>1, MemoryLaw, StackLaw DEF MemoryRequest, StackRequest, Request, Arguments, Flag
<1>2. CASE s = 1 /\ r # MemoryRequest
  <2>1. PICK d \in Devices : r = DeviceRequest(d)
    BY <1>2 DEF Requests
  <2>2. d.start \in Pages /\ d.end \in Pages /\ d.start < d.end /\ d.end <= StackPage
    BY AddressSpaceAssumption
  <2>3. d.start \in Nat /\ d.end \in Nat
    BY <2>2, StackLaw DEF Pages
  <2> QED BY <1>2, <2>1, <2>2, <2>3, StackLaw
          DEF DeviceRequest, MemoryRequest, StackRequest, Request, Arguments, Flag
<1>3. CASE s # 1
  <2>1. r = StackRequest
    BY <1>3 DEF Requests
  <2> QED BY <1>3, <2>1, StackLaw DEF StackRequest, MemoryRequest, Request, Arguments, Flag
<1> QED BY <1>1, <1>2, <1>3

-----------------------------------------------------------------------------
(* Trees of tables. *)

\* A table is behind the entry of its number.
LEMMA Parent ==
    ASSUME TypeInv, TreeInv, NEW t \in DOMAIN mem, place[t].level < Levels
    PROVE  \E u \in DOMAIN mem :
              /\ place[u] = Placed(place[t].space, place[t].level + 1, place[t].number \div Entries)
              /\ place[t].number % Entries \in Slots
              /\ Linked(u, place[t].number % Entries)
              /\ mem[u][place[t].number % Entries].addr = t
<1>1. PICK u \in DOMAIN mem, i \in Slots : place[u].level > 1 /\ Linked(u, i) /\ mem[u][i].addr = t
  BY DEF TreeInv, Parents
<1>2. place[t] = Placed(place[u].space, place[u].level - 1, place[u].number * Entries + i)
  BY <1>1 DEF Linked, Child
<1>3. /\ place[t].space = place[u].space /\ place[t].level = place[u].level - 1
      /\ place[t].number = place[u].number * Entries + i
  BY <1>2, PlacedLaw
<1>4. place[u].level \in Nat /\ place[u].number \in Nat
      /\ place[u] = Placed(place[u].space, place[u].level, place[u].number)
  BY TableLaw, Sizes
<1>5. place[t].number \div Entries = place[u].number /\ place[t].number % Entries = i
  BY <1>3, <1>4, DivMod
<1>6. place[t].level + 1 = place[u].level
  BY <1>3, <1>4
<1> QED BY <1>1, <1>3, <1>4, <1>5, <1>6

\* The tables above a table of the last level.
LEMMA Ancestor ==
    ASSUME TypeInv, TreeInv, NEW t \in DOMAIN mem, place[t].level = 1, NEW j \in 0..(Levels - 1)
    PROVE  \E u \in DOMAIN mem :
              /\ place[u] = Placed(place[t].space, 1 + j, Prefix(place[t].number)[j])
              /\ j > 0 => /\ Prefix(place[t].number)[j - 1] % Entries \in Slots
                          /\ Linked(u, Prefix(place[t].number)[j - 1] % Entries)
<1> DEFINE s == place[t].space
           n == place[t].number
           At(u, k) == /\ place[u] = Placed(s, 1 + k, Prefix(n)[k])
                       /\ k > 0 => /\ Prefix(n)[k - 1] % Entries \in Slots
                                   /\ Linked(u, Prefix(n)[k - 1] % Entries)
           D == {k \in Nat : k < Levels => \E u \in DOMAIN mem : At(u, k)}
<1>0. n \in Nat /\ place[t] = Placed(s, 1, n)
  BY TableLaw
<1> HIDE DEF s, n
<1>1. 0 \in D
  <2>1. At(t, 0)
    BY <1>0, PrefixLaw
  <2> QED BY <2>1
<1>2. ASSUME NEW k \in D PROVE k + 1 \in D
  <2>1. SUFFICES ASSUME k + 1 < Levels PROVE \E u \in DOMAIN mem : At(u, k + 1)
    OBVIOUS
  <2>2. k + 1 \in 1..Levels /\ (k + 1) - 1 = k /\ k \in 0..Levels /\ k < Levels
    BY <2>1, Sizes
  <2>3. PICK v \in DOMAIN mem : At(v, k)
    BY <2>2
  <2>4. place[v].space = s /\ place[v].level = 1 + k /\ place[v].number = Prefix(n)[k]
    BY <2>3, PlacedLaw
  <2>5. PICK u \in DOMAIN mem :
              /\ place[u] = Placed(place[v].space, place[v].level + 1, place[v].number \div Entries)
              /\ place[v].number % Entries \in Slots
              /\ Linked(u, place[v].number % Entries)
    <3>1. place[v].level < Levels
      BY <2>1, <2>4, Sizes
    <3> QED BY <3>1, Parent
  <2>6. Prefix(n)[k + 1] = Prefix(n)[k] \div Entries
    BY <1>0, <2>2, PrefixLaw
  <2>7. (1 + k) + 1 = 1 + (k + 1)
    OBVIOUS
  <2>8. place[u] = Placed(s, 1 + (k + 1), Prefix(n)[k + 1])
    BY <2>4, <2>5, <2>6, <2>7
  <2>9. Prefix(n)[(k + 1) - 1] % Entries \in Slots /\ Linked(u, Prefix(n)[(k + 1) - 1] % Entries)
    BY <2>2, <2>4, <2>5
  <2> QED BY <2>8, <2>9
<1>3. D \in SUBSET Nat
  OBVIOUS
<1> HIDE DEF D
<1>4. D = Nat
  BY <1>1, <1>2, <1>3, Induction
<1>5. j \in D
  BY <1>4, Sizes
<1> QED BY <1>5, Sizes DEF D, s, n

\* The conditions on a step that puts table f behind entry i0 of table t0.
Grown(t0, i0, f) ==
    /\ root' = root /\ leftover' = leftover /\ DOMAIN mem' = DOMAIN mem \cup {f}
    /\ \A t \in DOMAIN mem : place'[t] = place[t] /\ (t # t0 => mem'[t] = mem[t])
    /\ place'[f] = Child(t0, i0)
    /\ \A i \in Slots :
        mem'[t0][i] = IF i = i0 THEN [addr |-> f, flags |-> "present"] ELSE mem[t0][i]

LEMMA TreeGrown ==
    ASSUME TypeInv, TreeInv, NEW t0 \in DOMAIN mem, NEW i0 \in Slots, NEW f, f \notin DOMAIN mem,
           place[t0].level > 1,
           Grown(t0, i0, f),
           \A u \in DOMAIN mem : place[u] # Child(t0, i0),
           \A i \in Slots : \/ mem'[f][i] = Unused
                            \/ place[t0].space # 1 /\ Below(Child(t0, i0)) /\ mem'[f][i] = leftover
    PROVE  TreeInv'
<1> USE DEF Grown
<1>1. Roots'
  <2>1. place'[f].level = place[t0].level - 1
    BY PlacedLaw DEF Child
  <2>2. place'[f].level # Levels
    BY <2>1, TableLaw, Sizes
  <2> QED BY <2>2 DEF Roots, TreeInv
<1>2. Distinct'
  BY DEF Distinct, TreeInv
<1>3. ASSUME NEW t \in DOMAIN mem, NEW i \in Slots, t # t0 \/ i # i0
      PROVE  mem'[t][i] = mem[t][i]
  BY <1>3
<1>4. ASSUME NEW t \in DOMAIN mem, NEW i \in Slots
      PROVE  Child(t, i)' = Child(t, i)
  BY DEF Child
<1>5. ASSUME NEW t \in DOMAIN mem, NEW i \in Slots, Linked(t, i), t # t0 \/ i # i0
      PROVE  Linked(t, i)'
  <2>1. mem'[t][i] = mem[t][i]
    BY <1>3, <1>5
  <2>2. mem[t][i].addr \in DOMAIN mem
    BY <1>5 DEF Linked
  <2> QED BY <1>4, <1>5, <2>1, <2>2 DEF Linked
<1>6. Linked(t0, i0)' /\ mem'[t0][i0].addr = f
  <2>1. mem'[t0][i0].addr = f /\ mem'[t0][i0].flags = "present"
    OBVIOUS
  <2>2. f \in DOMAIN mem' /\ place'[f] = Child(t0, i0)'
    BY <1>4
  <2> QED BY <2>1, <2>2 DEF Linked
<1>7. Parents'
  <2> SUFFICES ASSUME NEW t \in DOMAIN mem', place'[t].level < Levels
               PROVE  \E u \in DOMAIN mem' : \E i \in Slots :
                        place'[u].level > 1 /\ Linked(u, i)' /\ mem'[u][i].addr = t
    BY DEF Parents
  <2>1. CASE t = f
    BY <1>6, <2>1
  <2>2. CASE t # f
    <3>1. t \in DOMAIN mem /\ place[t].level < Levels
      BY <2>2
    <3>2. PICK u \in DOMAIN mem, i \in Slots :
                place[u].level > 1 /\ Linked(u, i) /\ mem[u][i].addr = t
      BY <3>1 DEF TreeInv, Parents
    <3>4. ~(u = t0 /\ i = i0)
      BY <3>1, <3>2 DEF Linked
    <3>5. Linked(u, i)' /\ mem'[u][i] = mem[u][i]
      BY <1>3, <1>5, <3>2, <3>4
    <3> QED BY <3>2, <3>5
  <2> QED BY <2>1, <2>2
<1>8. Children'
  <2> SUFFICES ASSUME NEW t \in DOMAIN mem', place'[t].level > 1, NEW i \in Slots
               PROVE  \/ mem'[t][i] = Unused
                      \/ Linked(t, i)'
                      \/ place'[t].space # 1 /\ Below(place'[t]) /\ mem'[t][i] = leftover'
    BY DEF Children, Below
  <2>1. CASE t = f
    <3>1. Child(t0, i0).space = place[t0].space
      BY PlacedLaw DEF Child
    <3> QED BY <2>1, <3>1
  <2>2. CASE t = t0 /\ i = i0
    BY <1>6, <2>2
  <2>3. CASE t # f /\ ~(t = t0 /\ i = i0)
    <3>1. t \in DOMAIN mem /\ place'[t] = place[t] /\ mem'[t][i] = mem[t][i]
      BY <1>3, <2>3
    <3>2. \/ mem[t][i] = Unused
          \/ Linked(t, i)
          \/ place[t].space # 1 /\ Below(place[t]) /\ mem[t][i] = leftover
      BY <3>1 DEF TreeInv, Children
    <3> QED BY <1>5, <2>3, <3>1, <3>2
  <2> QED BY <2>1, <2>2, <2>3
<1> QED BY <1>1, <1>2, <1>7, <1>8 DEF TreeInv

\* A step that writes tables of the last level only.
Leafwise ==
    /\ root' = root /\ leftover' = leftover /\ DOMAIN mem' = DOMAIN mem /\ place' = place
    /\ \A t \in DOMAIN mem : place[t].level > 1 => mem'[t] = mem[t]

LEMMA TreeLeafwise ==
    ASSUME TypeInv, TreeInv, Leafwise
    PROVE  TreeInv'
<1> USE DEF Leafwise
<1>1. Roots' /\ Distinct'
  BY DEF Roots, Distinct, TreeInv
<1>2. ASSUME NEW t \in DOMAIN mem, NEW i \in Slots, place[t].level > 1
      PROVE  Linked(t, i)' <=> Linked(t, i)
  BY <1>2 DEF Linked, Child
<1>3. Parents'
  <2> SUFFICES ASSUME NEW t \in DOMAIN mem, place[t].level < Levels
               PROVE  \E u \in DOMAIN mem : \E i \in Slots :
                        place[u].level > 1 /\ Linked(u, i)' /\ mem'[u][i].addr = t
    BY DEF Parents
  <2>1. PICK u \in DOMAIN mem, i \in Slots :
              place[u].level > 1 /\ Linked(u, i) /\ mem[u][i].addr = t
    BY DEF TreeInv, Parents
  <2> QED BY <1>2, <2>1
<1>4. Children'
  <2> SUFFICES ASSUME NEW t \in DOMAIN mem, place[t].level > 1, NEW i \in Slots
               PROVE  \/ mem'[t][i] = Unused
                      \/ Linked(t, i)'
                      \/ place[t].space # 1 /\ Below(place[t]) /\ mem'[t][i] = leftover'
    BY DEF Children, Below
  <2>1. mem'[t] = mem[t]
    OBVIOUS
  <2> QED BY <1>2, <2>1 DEF TreeInv, Children
<1> QED BY <1>1, <1>3, <1>4 DEF TreeInv

\* A step that creates an address space with root table f.
Rooted(f) ==
    /\ leftover' = leftover /\ DOMAIN mem' = DOMAIN mem \cup {f}
    /\ root' \in Seq(Nat) /\ Len(root') = Len(root) + 1
    /\ \A s \in DOMAIN root : root'[s] = root[s]
    /\ root'[Len(root) + 1] = f
    /\ \A t \in DOMAIN mem : place'[t] = place[t] /\ mem'[t] = mem[t]
    /\ place'[f] = Placed(Len(root) + 1, Levels, 0)
    /\ \A i \in Slots : mem'[f][i] = Unused

LEMMA TreeRooted ==
    ASSUME TypeInv, TreeInv, NEW f, f \notin DOMAIN mem, Rooted(f)
    PROVE  TreeInv'
<1> USE DEF Rooted
<1>0. /\ Len(root) \in Nat /\ DOMAIN root = 1..Len(root)
      /\ DOMAIN root' = DOMAIN root \cup {Len(root) + 1}
      /\ Len(root) + 1 \notin DOMAIN root
  <2>1. Len(root) \in Nat /\ DOMAIN root = 1..Len(root)
    BY SpaceLaw
  <2>2. DOMAIN root' = 1..(Len(root) + 1)
    BY <2>1
  <2> QED BY <2>1, <2>2
<1>1. Roots'
  BY <1>0, PlacedLaw DEF Roots, TreeInv
<1>2. Distinct'
  <2>1. \A t \in DOMAIN mem : place[t] # place'[f]
    BY <1>0, TableLaw, PlacedLaw
  <2> QED BY <2>1 DEF Distinct, TreeInv
<1>3. ASSUME NEW t \in DOMAIN mem, NEW i \in Slots, Linked(t, i)
      PROVE  Linked(t, i)'
  <2>1. mem[t][i].addr \in DOMAIN mem /\ mem'[t] = mem[t] /\ place'[t] = place[t]
    BY <1>3 DEF Linked
  <2> QED BY <1>3, <2>1 DEF Linked, Child
<1>4. Parents'
  <2> SUFFICES ASSUME NEW t \in DOMAIN mem', place'[t].level < Levels
               PROVE  \E u \in DOMAIN mem' : \E i \in Slots :
                        place'[u].level > 1 /\ Linked(u, i)' /\ mem'[u][i].addr = t
    BY DEF Parents
  <2>1. t # f
    BY PlacedLaw, Sizes
  <2>2. t \in DOMAIN mem /\ place[t].level < Levels
    BY <2>1
  <2>3. PICK u \in DOMAIN mem, i \in Slots :
              place[u].level > 1 /\ Linked(u, i) /\ mem[u][i].addr = t
    BY <2>2 DEF TreeInv, Parents
  <2> QED BY <1>3, <2>3
<1>5. Children'
  <2> SUFFICES ASSUME NEW t \in DOMAIN mem', place'[t].level > 1, NEW i \in Slots
               PROVE  \/ mem'[t][i] = Unused
                      \/ Linked(t, i)'
                      \/ place'[t].space # 1 /\ Below(place'[t]) /\ mem'[t][i] = leftover'
    BY DEF Children, Below
  <2>1. CASE t = f
    BY <2>1
  <2>2. CASE t \in DOMAIN mem
    BY <1>3, <2>2 DEF TreeInv, Children
  <2> QED BY <2>1, <2>2
<1> QED BY <1>1, <1>2, <1>4, <1>5 DEF TreeInv

-----------------------------------------------------------------------------
(* What a step leaves alone. *)

\* A step of address space s changes no table of another one.
Touches(s) ==
    /\ memory' = memory /\ DOMAIN mem \subseteq DOMAIN mem'
    /\ \A t \in DOMAIN mem : place'[t] = place[t] /\ (place[t].space # s => mem'[t] = mem[t])
    /\ \A t \in DOMAIN mem' : t \notin DOMAIN mem => place'[t].space = s

\* The operation of another address space stays where it is.
LEMMA OperationKept ==
    ASSUME TypeInv, NEW s, NEW r \in DOMAIN root, r # s, s # 1 \/ r = 1, Touches(s),
           booted => booted', work'[r] = work[r], OperationInv(r)
    PROVE  OperationInv(r)'
<1> USE DEF Touches
<1>0. PICK w \in Operations : w = work[r] /\ w = work'[r]
  BY SpaceLaw
<1>1. ASSUME NEW t \in DOMAIN mem', place'[t].space = r
      PROVE  t \in DOMAIN mem /\ place'[t] = place[t] /\ mem'[t] = mem[t]
  BY <1>1
<1>2. w.op # "idle" => PathInv(r)'
  <2> SUFFICES ASSUME w.op # "idle", NEW l \in w.level..Levels PROVE OnPath(r, w, l)'
    BY <1>0 DEF PathInv
  <2>1. \A k \in w.level..Levels : OnPath(r, w, k)
    BY <1>0 DEF OperationInv, PathInv
  <2>2. l \in Nat /\ w.level \in Nat /\ (l > w.level => l - 1 \in w.level..Levels)
    BY OperationType, Sizes
  <2>3. l > w.level => w.path[l - 1].table \in DOMAIN mem
    BY <2>1, <2>2 DEF OnPath
  <2> QED BY <2>1, <2>3 DEF OnPath
<1>3. w.op = "map" => MapInv(r)'
  <2> SUFFICES ASSUME w.op = "map" PROVE MapInv(r)'
    OBVIOUS
  <2>1. PathInv(r) /\ MapInv(r)
    BY <1>0 DEF OperationInv
  <2>2. Top(w).table \in DOMAIN mem
    BY <1>0, <2>1, OperationType, Sizes DEF PathInv, OnPath, Top
  <2>3. place'[Top(w).table] = place[Top(w).table]
    BY <2>2
  <2>4. Requests(r)' = Requests(r)
    BY DEF Requests, MemoryRequest
  <2> QED BY <1>0, <2>1, <2>3, <2>4 DEF MapInv
<1>4. ASSUME NEW t \in DOMAIN mem', r # 1, KernelLeaf(t)'
      PROVE  t \in DOMAIN mem /\ KernelLeaf(t) /\ place'[t] = place[t] /\ mem'[t] = mem[t]
  BY <1>4 DEF KernelLeaf
<1>5. ASSUME NEW t \in DOMAIN mem, r # 1, KernelLeaf(t), HasCopy(r, t)
      PROVE  HasCopy(r, t)'
  <2>1. PICK u \in DOMAIN mem : place[u] = Placed(r, 1, place[t].number) /\ mem[u] = mem[t]
    BY <1>5 DEF HasCopy
  <2>2. mem'[t] = mem[t] /\ place'[t] = place[t]
    BY <1>5 DEF KernelLeaf
  <2>3. mem'[u] = mem[u] /\ place'[u] = place[u]
    BY <2>1, PlacedLaw
  <2> QED BY <2>1, <2>2, <2>3 DEF HasCopy
<1>6. ASSUME NEW u \in DOMAIN mem, r # 1, place[u].space = r, IsCopy(u)
      PROVE  IsCopy(u)'
  <2>1. PICK t \in DOMAIN mem : KernelLeaf(t) /\ place[t].number = place[u].number /\ mem[u] = mem[t]
    BY <1>6 DEF IsCopy
  <2>2. mem'[t] = mem[t] /\ place'[t] = place[t] /\ mem'[u] = mem[u] /\ place'[u] = place[u]
    BY <1>6, <2>1 DEF KernelLeaf
  <2> QED BY <2>1, <2>2 DEF IsCopy, KernelLeaf
<1>7. w.op = "copy" => CopyInv(r)'
  <2> SUFFICES ASSUME w.op = "copy" PROVE CopyInv(r)'
    OBVIOUS
  <2>1. CopyInv(r) /\ r # 1 /\ booted'
    BY <1>0 DEF OperationInv, CopyInv
  <2>2. \A l \in w.level..Levels :
            w.path[l].table \in DOMAIN mem /\ place'[w.path[l].table] = place[w.path[l].table]
    BY <1>0 DEF OperationInv, PathInv, OnPath
  <2>3. Top(w).table \in DOMAIN mem /\ place'[Top(w).table] = place[Top(w).table]
    BY <2>2, OperationType, Sizes DEF Top
  <2>4. ASSUME NEW t \in DOMAIN mem', KernelLeaf(t)', Passed(w, place[t].number)'
        PROVE  HasCopy(r, t)'
    <3>1. t \in DOMAIN mem /\ KernelLeaf(t) /\ place'[t] = place[t]
      BY <1>4, <2>1, <2>4
    <3>2. Passed(w, place[t].number)
      BY <2>3, <2>4, <3>1 DEF Passed
    <3>3. HasCopy(r, t)
      BY <1>0, <2>1, <3>1, <3>2 DEF CopyInv
    <3> QED BY <1>5, <2>1, <3>1, <3>3
  <2>5. ASSUME NEW u \in DOMAIN mem', place'[u].space = r, place'[u].level = 1
        PROVE  IsCopy(u)' \/ (w.level = 1 /\ u = Top(w).table)
    <3>1. u \in DOMAIN mem /\ place'[u] = place[u]
      BY <1>1, <2>5
    <3>2. IsCopy(u) \/ (w.level = 1 /\ u = Top(w).table)
      BY <1>0, <2>1, <2>5, <3>1 DEF CopyInv
    <3> QED BY <1>6, <2>1, <2>5, <3>1, <3>2
  <2>6. ASSUME NEW u \in DOMAIN mem', place'[u].space = r, place'[u].level < Levels
        PROVE  Below(place'[u])
    <3>1. u \in DOMAIN mem /\ place'[u] = place[u]
      BY <1>1, <2>6
    <3> QED BY <1>0, <2>1, <2>6, <3>1 DEF CopyInv
  <2>7. ASSUME NEW l \in w.level..Levels, l > 1, NEW i \in Slots,
               IF l = w.level THEN i >= w.path[l].index ELSE i > w.path[l].index,
               NEW u \in DOMAIN mem'
        PROVE  place'[u] # Child(w.path[l].table, i)'
    <3>1. Child(w.path[l].table, i)' = Child(w.path[l].table, i)
      BY <2>2 DEF Child
    <3>2. CASE u \in DOMAIN mem
      <4>1. place[u] # Child(w.path[l].table, i)
        BY <1>0, <2>1, <2>7, <3>2 DEF CopyInv
      <4> QED BY <3>1, <3>2, <4>1
    <3>3. CASE u \notin DOMAIN mem
      <4>1. place'[u].space = s
        BY <3>3
      <4>2. Child(w.path[l].table, i).space = r
        BY <1>0, PlacedLaw DEF Child, OperationInv, PathInv, OnPath
      <4> QED BY <3>1, <4>1, <4>2
    <3> QED BY <3>2, <3>3
  <2> QED BY <1>0, <2>1, <2>4, <2>5, <2>6, <2>7 DEF CopyInv
<1>8. r # 1 /\ w.op # "copy" => CopiedInv(r)'
  <2> SUFFICES ASSUME r # 1, w.op # "copy" PROVE CopiedInv(r)'
    OBVIOUS
  <2>1. CopiedInv(r)
    BY <1>0 DEF OperationInv
  <2>2. ASSUME NEW t \in DOMAIN mem', KernelLeaf(t)' PROVE HasCopy(r, t)'
    BY <1>4, <1>5, <2>1, <2>2 DEF CopiedInv
  <2>3. ASSUME NEW u \in DOMAIN mem', place'[u].space = r, place'[u].level = 1
        PROVE  IsCopy(u)' \/ StackTable(u)'
    <3>1. u \in DOMAIN mem /\ place'[u] = place[u]
      BY <1>1, <2>3
    <3>2. IsCopy(u) \/ StackTable(u)
      BY <2>1, <2>3, <3>1 DEF CopiedInv
    <3>3. StackTable(u) => StackTable(u)'
      BY <3>1 DEF StackTable
    <3> QED BY <1>6, <2>3, <3>1, <3>2, <3>3
  <2> QED BY <2>2, <2>3 DEF CopiedInv
<1> QED BY <1>0, <1>2, <1>3, <1>7, <1>8 DEF OperationInv

\* The kernel's address space stays as it is.
LEMMA KernelKept ==
    ASSUME TypeInv, KernelInv, KernelGot, NEW s, s # 1, Touches(s), root # <<>>,
           work'[1] = work[1], asked'[1] = asked[1]
    PROVE  KernelInv' /\ KernelGot'
<1> USE DEF Touches
<1>1. ASSUME NEW t \in DOMAIN mem', place'[t].space = 1
      PROVE  t \in DOMAIN mem /\ place'[t] = place[t] /\ mem'[t] = mem[t]
  BY <1>1
<1>2. KernelInv'
  BY <1>1 DEF KernelInv, Below
<1>3. ASSUME NEW p, NEW a, Got(p, a) PROVE Got(p, a)'
  <2>1. PICK t \in DOMAIN mem :
        /\ place[t] = Placed(1, 1, p \div Entries)
        /\ mem[t][p % Entries].flags # "none"
        /\ a.flags = "no_cache" => mem[t][p % Entries].flags = "no_cache"
    BY <1>3 DEF Got
  <2>2. place'[t] = place[t] /\ mem'[t] = mem[t]
    BY <2>1, PlacedLaw
  <2> QED BY <2>1, <2>2 DEF Got
<1>4. \A a \in asked'[1] : \A p \in a.start..(a.end - 1) : Got(p, a)'
  BY <1>3 DEF KernelGot
<1>5. Reached(work[1])' = Reached(work[1])
  BY DEF Reached, Top, start_index
<1>6. work'[1].op = "map" =>
        \A p \in work'[1].request.start..(Reached(work[1])' - 1) : Got(p, work[1].request)'
  BY <1>3, <1>5 DEF KernelGot
<1> QED BY <1>2, <1>4, <1>6 DEF KernelGot

\* The stacks stay as they are, but for empty tables.
LEMMA StackKept ==
    ASSUME TypeInv, StackInv, memory' = memory, next_frame'["User"] = next_frame["User"],
           DOMAIN mem \subseteq DOMAIN mem',
           \A t \in DOMAIN mem : place'[t] = place[t],
           \A t \in DOMAIN mem : StackTable(t) =>
                mem'[t] = mem[t] /\ StackEnd(place[t].space)' = StackEnd(place[t].space),
           \A t \in DOMAIN mem' : t \notin DOMAIN mem /\ StackTable(t)' => \A i \in Slots :
                /\ mem'[t][i] = Unused
                /\ ~(place'[t].number * Entries + i < StackEnd(place[t].space)'),
           \A r \in DOMAIN root' \ {1} : \/ r \in DOMAIN root /\ StackEnd(r)' = StackEnd(r)
                                         \/ StackEnd(r)' = StackPage
    PROVE  StackInv'
<1>1. ASSUME NEW t \in DOMAIN mem
      PROVE  StackTable(t)' <=> StackTable(t)
  BY DEF StackTable, Below
<1>2. StackEntries'
  <2> SUFFICES ASSUME NEW t \in DOMAIN mem', StackTable(t)', NEW i \in Slots
               PROVE  IF place'[t].number * Entries + i < StackEnd(place[t].space)'
                      THEN mem'[t][i].flags = "present"
                           /\ mem'[t][i].addr \in memory'.kernel_phys_limit..(next_frame'["User"] - 1)
                      ELSE mem'[t][i] = Unused
    BY DEF StackEntries
  <2>1. CASE t \in DOMAIN mem
    <3>1. mem'[t] = mem[t] /\ StackTable(t) /\ place'[t] = place[t]
          /\ StackEnd(place[t].space)' = StackEnd(place[t].space)
      BY <1>1, <2>1
    <3>2. IF place[t].number * Entries + i < StackEnd(place[t].space)
          THEN mem[t][i].flags = "present"
               /\ mem[t][i].addr \in memory.kernel_phys_limit..(next_frame["User"] - 1)
          ELSE mem[t][i] = Unused
      BY <2>1, <3>1 DEF StackInv, StackEntries
    <3> QED BY <3>1, <3>2
  <2>2. CASE t \notin DOMAIN mem
    BY <2>2
  <2> QED BY <2>1, <2>2
<1>3. StackFrames'
  <2> SUFFICES ASSUME NEW t \in DOMAIN mem', NEW u \in DOMAIN mem', StackTable(t)', StackTable(u)',
                      NEW i \in Slots, NEW j \in Slots, mem'[t][i] = mem'[u][j], mem'[t][i] # Unused
               PROVE  t = u /\ i = j
    BY DEF StackFrames
  <2>1. t \in DOMAIN mem /\ u \in DOMAIN mem
    OBVIOUS
  <2>2. StackTable(t) /\ StackTable(u) /\ mem'[t] = mem[t] /\ mem'[u] = mem[u]
    BY <1>1, <2>1
  <2> QED BY <2>1, <2>2 DEF StackInv, StackFrames
<1>4. StackTaken'
  <2> SUFFICES ASSUME NEW f \in memory.kernel_phys_limit..(next_frame["User"] - 1)
               PROVE  \E t \in DOMAIN mem' : StackTable(t)' /\ \E i \in Slots : mem'[t][i].addr = f
    BY DEF StackTaken
  <2>1. PICK t \in DOMAIN mem : StackTable(t) /\ \E i \in Slots : mem[t][i].addr = f
    BY DEF StackInv, StackTaken
  <2> QED BY <1>1, <2>1
<1>5. StackMapped'
  <2> SUFFICES ASSUME NEW s \in DOMAIN root' \ {1}, NEW p \in StackPage..(StackEnd(s)' - 1)
               PROVE  \E t \in DOMAIN mem' : place'[t] = Placed(s, 1, p \div Entries)
    BY DEF StackMapped
  <2>1. CASE s \in DOMAIN root /\ StackEnd(s)' = StackEnd(s)
    <3>1. PICK t \in DOMAIN mem : place[t] = Placed(s, 1, p \div Entries)
      BY <2>1 DEF StackInv, StackMapped
    <3> QED BY <3>1
  <2>2. CASE StackEnd(s)' = StackPage
    BY <2>2, StackLaw
  <2> QED BY <2>1, <2>2
<1> QED BY <1>2, <1>3, <1>4, <1>5 DEF StackInv

-----------------------------------------------------------------------------
(* What the steps of an operation do to the tables. *)

LEMMA SeqExcept ==
    ASSUME NEW S, NEW q \in Seq(S), NEW i \in DOMAIN q, NEW v \in S
    PROVE  LET x == [q EXCEPT ![i] = v] IN
           /\ x \in Seq(S) /\ Len(x) = Len(q) /\ x[i] = v
           /\ \A j \in DOMAIN q : j # i => x[j] = q[j]
OBVIOUS

LEMMA SeqAppend ==
    ASSUME NEW S, NEW q \in Seq(S), NEW v \in S
    PROVE  LET x == Append(q, v) IN
           /\ x \in Seq(S) /\ Len(x) = Len(q) + 1 /\ x[Len(q) + 1] = v
           /\ \A j \in DOMAIN q : x[j] = q[j]
           /\ DOMAIN x = DOMAIN q \cup {Len(q) + 1} /\ Len(q) + 1 \notin DOMAIN q
OBVIOUS

\* Operation v is what address space s does next.
Goes_on(s, v) ==
    /\ work'[s] = v
    /\ \A r \in DOMAIN root : r # s => work'[r] = work[r]

LEMMA WorkExcept ==
    ASSUME TypeInv, NEW s \in DOMAIN root, NEW v \in Operations, work' = [work EXCEPT ![s] = v]
    PROVE  work' \in Seq(Operations) /\ Len(work') = Len(root) /\ Goes_on(s, v)
<1>1. work \in Seq(Operations) /\ Len(work) = Len(root) /\ s \in DOMAIN work /\ DOMAIN work = DOMAIN root
  BY SpaceLaw DEF TypeInv
<1> QED BY <1>1, SeqExcept DEF Goes_on

\* A step that changes operations, and what has been mapped, keeps the types.
LEMMA TypeWork ==
    ASSUME TypeInv, memory' = memory, leftover' = leftover, booted' \in BOOLEAN, fault' \in {"none", "exhausted"},
           next_frame' = next_frame, mem' = mem, place' = place, root' = root,
           work' \in Seq(Operations), Len(work') = Len(root),
           asked' \in Seq(SUBSET Arguments), Len(asked') = Len(root),
           \A s \in DOMAIN root : asked'[s] \subseteq Requests(s)
    PROVE  TypeInv'
<1>1. \A s : Requests(s)' = Requests(s)
  BY DEF Requests, MemoryRequest
<1> QED BY <1>1 DEF TypeInv, Fresh

LEMMA GrowLaw ==
    ASSUME TypeInv, NEW s \in DOMAIN root, PathInv(s), work[s].level > 1, Top(work[s]).index < Entries,
           NEW contents \in [Slots -> Entry], NEW source \in Nat, NEW index \in Nat,
           Grow(s, contents, "present", source, index), Free("Kernel"),
           memory' = memory, leftover' = leftover, booted' = booted
    PROVE  LET w == work[s]
               c == Top(w)
           IN  /\ c.table \in DOMAIN mem /\ c.index \in Slots
               /\ place[c.table].space = s /\ place[c.table].level = w.level
               /\ Grown(c.table, c.index, Fresh) /\ mem'[Fresh] = contents
               /\ Touches(s) /\ TypeInv'
               /\ next_frame'["User"] = next_frame["User"]
               /\ Called(w, Fresh, source, index) \in Operations
               /\ Goes_on(s, Called(w, Fresh, source, index))
               /\ asked' = asked /\ fault' = fault
<1>0. PICK w \in Operations : w = work[s]
  BY SpaceLaw
<1>1. PICK c \in Activations : c = Top(w)
  BY OperationType
<1>2. /\ c.table \in DOMAIN mem /\ c.index \in Slots
      /\ place[c.table].space = s /\ place[c.table].level = w.level
  <2>1. w.level \in w.level..Levels
    BY OperationType, Sizes
  <2>2. OnPath(s, w, w.level)
    BY <1>0, <2>1 DEF PathInv
  <2> QED BY <1>0, <1>1, <2>2, Sizes DEF OnPath, Top, Slots
<1>3. PICK f \in Nat : f = Fresh
  BY TableLaw
<1> DEFINE number == place[c.table].number * Entries + c.index
           p == Placed(s, w.level - 1, number)
           m == SetEntry(mem, c.table, c.index, f, "present")
<1>4. /\ alloc("Kernel") /\ mem' = WithTable(m, f, contents) /\ place' = WithTable(place, f, p)
      /\ work' = [work EXCEPT ![s] = Called(w, f, source, index)]
      /\ root' = root /\ asked' = asked /\ fault' = fault
  BY <1>0, <1>1, <1>3 DEF Grow
<1>5. /\ f \notin DOMAIN mem /\ DOMAIN place = DOMAIN mem /\ DOMAIN mem = 1..(f - 1) /\ f >= 1
      /\ f <= memory.kernel_phys_limit /\ next_frame["Kernel"] = f
  BY <1>3, TableLaw DEF Fresh
<1>6. f # memory.kernel_phys_limit
  BY <1>5 DEF Free, PoolEnd
<1>7. /\ next_frame' \in [{"Kernel", "User"} -> Nat] /\ next_frame'["Kernel"] = f + 1
      /\ next_frame'["User"] = next_frame["User"]
  <2>1. next_frame \in [{"Kernel", "User"} -> Nat]
    BY DEF TypeInv
  <2> QED BY <1>4, <1>5, <2>1 DEF alloc
<1>8. 1..((f + 1) - 1) = DOMAIN mem \cup {f}
  BY <1>5
<1>9. /\ m \in [DOMAIN mem -> [Slots -> Entry]]
      /\ \A t \in DOMAIN mem : t # c.table => m[t] = mem[t]
      /\ \A i \in Slots : m[c.table][i] = IF i = c.index THEN [addr |-> f, flags |-> "present"] ELSE mem[c.table][i]
  <2>1. mem \in [DOMAIN mem -> [Slots -> Entry]] /\ "present" \in Flag
    BY TableLaw DEF TypeInv, Flag
  <2> QED BY <1>2, <2>1, SetEntryLaw
<1>10. number \in Nat
  BY <1>2, TableLaw, DivMod
<1>11. /\ p \in [space : DOMAIN root, level : 1..Levels, number : Nat]
       /\ Child(c.table, c.index) = p
  <2>1. w.level - 1 \in 1..Levels
    BY <1>0, OperationType, Sizes
  <2> QED BY <1>2, <1>10, <2>1 DEF Placed, Child
<1> HIDE DEF m, p, number
<1>12. /\ mem' \in [DOMAIN mem \cup {f} -> [Slots -> Entry]] /\ mem'[f] = contents
       /\ \A t \in DOMAIN mem : mem'[t] = m[t]
  <2> DEFINE S == [Slots -> Entry]
             D == DOMAIN mem
  <2>1. m \in [D -> S] /\ f \notin D /\ contents \in S /\ mem' = WithTable(m, f, contents)
    BY <1>4, <1>5, <1>9
  <2> HIDE DEF S, D
  <2>2. mem' \in [D \cup {f} -> S] /\ mem'[f] = contents /\ \A t \in D : mem'[t] = m[t]
    BY <2>1 DEF WithTable
  <2> QED BY <2>2 DEF S, D
<1>13. /\ place' \in [DOMAIN mem \cup {f} -> [space : DOMAIN root, level : 1..Levels, number : Nat]]
       /\ place'[f] = p /\ \A t \in DOMAIN mem : place'[t] = place[t]
  <2> DEFINE S == [space : DOMAIN root, level : 1..Levels, number : Nat]
             D == DOMAIN mem
  <2>1. place \in [D -> S]
    BY TableLaw DEF TypeInv
  <2>2. f \notin D /\ p \in S /\ place' = WithTable(place, f, p)
    BY <1>4, <1>5, <1>11
  <2> HIDE DEF S, D
  <2>3. place' \in [D \cup {f} -> S] /\ place'[f] = p /\ \A t \in D : place'[t] = place[t]
    BY <2>1, <2>2 DEF WithTable
  <2> QED BY <2>3 DEF S, D
<1>14. Grown(c.table, c.index, f)
  BY <1>2, <1>4, <1>9, <1>11, <1>12, <1>13 DEF Grown
<1>15. Touches(s)
  <2>1. p.space = s
    BY PlacedLaw DEF p
  <2>2. \A t \in DOMAIN mem : t # c.table => mem'[t] = mem[t]
    BY <1>9, <1>12
  <2> QED BY <1>2, <1>12, <1>13, <2>1, <2>2 DEF Touches
<1>16. Called(w, f, source, index) \in Operations
  BY <1>0, CalledLaw
<1>17. work' \in Seq(Operations) /\ Len(work') = Len(root) /\ Goes_on(s, Called(w, f, source, index))
  BY <1>4, <1>16, WorkExcept
<1>18. TypeInv'
  <2>1. Fresh' = f + 1
    BY <1>7 DEF Fresh
  <2>2. /\ mem' \in [1..(Fresh' - 1) -> [Slots -> Entry]]
        /\ place' \in [1..(Fresh' - 1) -> [space : DOMAIN root, level : 1..Levels, number : Nat]]
    BY <1>8, <1>12, <1>13, <2>1
  <2>3. next_frame'["Kernel"] \in 1..memory.kernel_phys_limit
    BY <1>5, <1>6, <1>7, MemoryLaw
  <2>4. \A r : Requests(r)' = Requests(r)
    BY DEF Requests, MemoryRequest
  <2> QED BY <1>4, <1>7, <1>17, <2>2, <2>3, <2>4 DEF TypeInv
<1> QED BY <1>0, <1>1, <1>2, <1>3, <1>4, <1>7, <1>12, <1>14, <1>15, <1>16, <1>17, <1>18

LEMMA NewSpaceLaw ==
    ASSUME TypeInv, NEW operation \in Operations, NewSpace(operation), Free("Kernel"),
           memory' = memory, leftover' = leftover, booted' = booted
    PROVE  LET s == Len(root) + 1 IN
           /\ Rooted(Fresh) /\ Touches(s) /\ TypeInv'
           /\ next_frame'["User"] = next_frame["User"]
           /\ DOMAIN root' = DOMAIN root \cup {s} /\ s \notin DOMAIN root
           /\ work'[s] = operation /\ \A r \in DOMAIN root : work'[r] = work[r]
           /\ asked'[s] = {} /\ \A r \in DOMAIN root : asked'[r] = asked[r]
           /\ DOMAIN mem' = DOMAIN mem \cup {Fresh}
           /\ fault' = fault
<1>1. PICK f \in Nat : f = Fresh
  BY TableLaw
<1>2. PICK s \in Nat : s = Len(root) + 1
  BY SpaceLaw
<1> DEFINE p == Placed(s, Levels, 0)
<1>4. /\ alloc("Kernel") /\ mem' = WithTable(mem, f, Zero) /\ place' = WithTable(place, f, p)
      /\ work' = Append(work, operation)
      /\ root' = Append(root, f) /\ asked' = Append(asked, {}) /\ fault' = fault
  BY <1>1, <1>2 DEF NewSpace, New
<1>5. /\ f \notin DOMAIN mem /\ DOMAIN place = DOMAIN mem /\ DOMAIN mem = 1..(f - 1) /\ f >= 1
      /\ f <= memory.kernel_phys_limit /\ next_frame["Kernel"] = f
  BY <1>1, TableLaw DEF Fresh
<1>6. f # memory.kernel_phys_limit
  BY <1>5 DEF Free, PoolEnd
<1>7. /\ next_frame' \in [{"Kernel", "User"} -> Nat] /\ next_frame'["Kernel"] = f + 1
      /\ next_frame'["User"] = next_frame["User"]
  <2>1. next_frame \in [{"Kernel", "User"} -> Nat]
    BY DEF TypeInv
  <2> QED BY <1>4, <1>5, <2>1 DEF alloc
<1>8. 1..((f + 1) - 1) = DOMAIN mem \cup {f}
  BY <1>5
<1>9. /\ root \in Seq(Nat) /\ asked \in Seq(SUBSET Arguments) /\ work \in Seq(Operations)
      /\ Len(asked) = Len(root) /\ Len(work) = Len(root)
  BY DEF TypeInv
<1>10. /\ root' \in Seq(Nat) /\ Len(root') = s /\ root'[s] = f /\ \A r \in DOMAIN root : root'[r] = root[r]
       /\ DOMAIN root' = DOMAIN root \cup {s} /\ s \notin DOMAIN root
  BY <1>2, <1>4, <1>9, SeqAppend
<1>11. /\ work' \in Seq(Operations) /\ Len(work') = s /\ work'[s] = operation
       /\ \A r \in DOMAIN root : work'[r] = work[r]
  <2>1. DOMAIN work = DOMAIN root
    BY SpaceLaw
  <2> QED BY <1>2, <1>4, <1>9, <2>1, SeqAppend
<1>12. /\ asked' \in Seq(SUBSET Arguments) /\ Len(asked') = s /\ asked'[s] = {}
       /\ \A r \in DOMAIN root : asked'[r] = asked[r]
  <2>1. DOMAIN asked = DOMAIN root
    BY SpaceLaw
  <2> DEFINE S == SUBSET Arguments
             none == {}
  <2>2. none \in S /\ asked \in Seq(S) /\ asked' = Append(asked, none)
    BY <1>4, <1>9
  <2> HIDE DEF S, none
  <2>3. /\ asked' \in Seq(S) /\ Len(asked') = s /\ asked'[s] = none
        /\ \A r \in DOMAIN root : asked'[r] = asked[r]
    BY <1>2, <1>9, <2>1, <2>2, SeqAppend
  <2> QED BY <2>3 DEF S, none
<1>13. p \in [space : DOMAIN root', level : 1..Levels, number : Nat] /\ p.space = s
  BY <1>10, Sizes DEF Placed
<1> HIDE DEF p
<1>14. /\ mem' \in [DOMAIN mem \cup {f} -> [Slots -> Entry]] /\ mem'[f] = Zero
       /\ \A t \in DOMAIN mem : mem'[t] = mem[t]
  <2> DEFINE S == [Slots -> Entry]
             D == DOMAIN mem
  <2>1. mem \in [D -> S] /\ f \notin D /\ Zero \in S /\ mem' = WithTable(mem, f, Zero)
    BY <1>4, <1>5, ZeroLaw DEF TypeInv
  <2> HIDE DEF S, D
  <2>2. mem' \in [D \cup {f} -> S] /\ mem'[f] = Zero /\ \A t \in D : mem'[t] = mem[t]
    BY <2>1 DEF WithTable
  <2> QED BY <2>2 DEF S, D
<1>15. /\ place' \in [DOMAIN mem \cup {f} -> [space : DOMAIN root', level : 1..Levels, number : Nat]]
       /\ place'[f] = p /\ \A t \in DOMAIN mem : place'[t] = place[t]
  <2> DEFINE S == [space : DOMAIN root', level : 1..Levels, number : Nat]
             D == DOMAIN mem
  <2>1. place \in [D -> [space : DOMAIN root, level : 1..Levels, number : Nat]]
    BY TableLaw DEF TypeInv
  <2>2. [space : DOMAIN root, level : 1..Levels, number : Nat] \subseteq S
    BY <1>10
  <2>3. place \in [D -> S]
    BY <2>1, <2>2
  <2>4. f \notin D /\ p \in S /\ place' = WithTable(place, f, p)
    BY <1>4, <1>5, <1>13
  <2> HIDE DEF S, D
  <2>5. place' \in [D \cup {f} -> S] /\ place'[f] = p /\ \A t \in D : place'[t] = place[t]
    BY <2>3, <2>4 DEF WithTable
  <2> QED BY <2>5 DEF S, D
<1>16. Rooted(f)
  BY <1>2, <1>10, <1>14, <1>15, ZeroLaw DEF Rooted, p
<1>17. Touches(s)
  BY <1>13, <1>14, <1>15 DEF Touches
<1>18. TypeInv'
  <2>1. Fresh' = f + 1
    BY <1>7 DEF Fresh
  <2>2. /\ mem' \in [1..(Fresh' - 1) -> [Slots -> Entry]]
        /\ place' \in [1..(Fresh' - 1) -> [space : DOMAIN root', level : 1..Levels, number : Nat]]
    BY <1>8, <1>14, <1>15, <2>1
  <2>3. next_frame'["Kernel"] \in 1..memory.kernel_phys_limit
    BY <1>5, <1>6, <1>7, MemoryLaw
  <2>4. \A r : Requests(r)' = Requests(r)
    BY DEF Requests, MemoryRequest
  <2>5. \A r \in DOMAIN root' : asked'[r] \subseteq Requests(r)
    BY <1>10, <1>12 DEF TypeInv
  <2> QED BY <1>4, <1>7, <1>10, <1>11, <1>12, <2>2, <2>3, <2>4, <2>5 DEF TypeInv
<1>19. DOMAIN mem' = DOMAIN mem \cup {f}
  BY <1>14
<1> QED BY <1>1, <1>2, <1>4, <1>7, <1>10, <1>11, <1>12, <1>16, <1>17, <1>18, <1>19

\* A step that writes entries of table t0.
LEMMA WriteLaw ==
    ASSUME TypeInv, NEW t0 \in DOMAIN mem, NEW m \in [DOMAIN mem -> [Slots -> Entry]],
           \A t \in DOMAIN mem : t # t0 => m[t] = mem[t],
           mem' = m, place' = place, root' = root, asked' = asked, memory' = memory, leftover' = leftover,
           booted' = booted, fault' = fault,
           next_frame' \in [{"Kernel", "User"} -> Nat], next_frame'["Kernel"] = next_frame["Kernel"],
           next_frame'["User"] \in memory.kernel_phys_limit..memory.phys_limit,
           work' \in Seq(Operations), Len(work') = Len(root)
    PROVE  /\ TypeInv' /\ Touches(place[t0].space) /\ DOMAIN mem' = DOMAIN mem
           /\ \A t \in DOMAIN mem : t # t0 => mem'[t] = mem[t]
           /\ place[t0].level = 1 => Leafwise
<1>1. DOMAIN mem' = DOMAIN mem /\ \A t \in DOMAIN mem : t # t0 => mem'[t] = mem[t]
  OBVIOUS
<1>2. Touches(place[t0].space)
  BY <1>1 DEF Touches
<1>3. place[t0].level = 1 => Leafwise
  BY <1>1, TableLaw DEF Leafwise
<1>4. TypeInv'
  <2>1. Fresh' = Fresh
    BY DEF Fresh
  <2>2. \A r : Requests(r)' = Requests(r)
    BY DEF Requests, MemoryRequest
  <2>3. mem' \in [1..(Fresh' - 1) -> [Slots -> Entry]]
    BY <2>1, TableLaw
  <2> QED BY <2>1, <2>2, <2>3 DEF TypeInv
<1> QED BY <1>1, <1>2, <1>3, <1>4

-----------------------------------------------------------------------------
(* The path of an operation. *)

\* Tables stay where they are.
Stays == \A t \in DOMAIN mem : t \in DOMAIN mem' /\ place'[t] = place[t]

LEMMA TopLaw ==
    ASSUME TypeInv, NEW s \in DOMAIN root, PathInv(s)
    PROVE  LET w == work[s]
               c == Top(w)
           IN  /\ w \in Operations /\ w.level \in 1..Levels
               /\ c.table \in DOMAIN mem /\ c.index \in 0..Entries /\ c.index \in Nat /\ c.source \in Nat
               /\ place[c.table].space = s /\ place[c.table].level = w.level
               /\ place[c.table].number \in Nat
               /\ w.op = "copy" => /\ c.source \in DOMAIN mem
                                   /\ place[c.source] = Placed(1, w.level, place[c.table].number)
<1>1. PICK w \in Operations : w = work[s]
  BY SpaceLaw
<1>2. w.level \in w.level..Levels /\ w.level \in 1..Levels
  BY OperationType, Sizes
<1>3. OnPath(s, w, w.level) /\ Top(w) = w.path[w.level]
  BY <1>1, <1>2 DEF PathInv, Top
<1>4. w.path[w.level].index \in Nat /\ w.path[w.level].source \in Nat
  BY <1>2, OperationType
<1> QED BY <1>1, <1>2, <1>3, <1>4, TableLaw DEF OnPath

LEMMA PathCalled ==
    ASSUME TypeInv, NEW s \in DOMAIN root, PathInv(s), Stays, work[s].level > 1,
           Top(work[s]).index < Entries,
           NEW v \in DOMAIN mem', v \in Nat, place'[v] = Child(Top(work[s]).table, Top(work[s]).index),
           NEW source \in Nat, NEW index \in 0..Entries,
           work[s].op = "copy" =>
                source \in DOMAIN mem' /\ place'[source] = Placed(1, work[s].level - 1, place'[v].number),
           work'[s] = Called(work[s], v, source, index)
    PROVE  PathInv(s)'
<1>1. PICK w \in Operations : w = work[s]
  BY SpaceLaw
<1>2. PICK x : x = Called(w, v, source, index)
  OBVIOUS
<1>3. index \in Nat
  BY Sizes
<1>4. /\ x.op = w.op /\ x.level = w.level - 1
      /\ x.path[w.level - 1] = Activation(v, source, index)
      /\ \A l \in 1..Levels : l # w.level - 1 => x.path[l] = w.path[l]
  BY <1>1, <1>2, <1>3, CalledLaw
<1>5. w.level \in 1..Levels /\ w.level > 1
  BY <1>1, OperationType
<1> SUFFICES ASSUME NEW l \in (w.level - 1)..Levels PROVE OnPath(s, x, l)'
  BY <1>1, <1>2, <1>4 DEF PathInv
<1>6. Activation(v, source, index).table = v /\ Activation(v, source, index).source = source
      /\ Activation(v, source, index).index = index
  BY <1>3, ActivationLaw
<1>7. PICK c : c = w.path[w.level]
  OBVIOUS
<1>8. /\ OnPath(s, w, w.level) /\ c.table \in DOMAIN mem /\ c.index \in 0..Entries /\ c.index < Entries
      /\ place[c.table].space = s /\ place[c.table].level = w.level
  BY <1>1, <1>5, <1>7, Sizes DEF PathInv, OnPath, Top
<1>9. /\ place'[v].space = s /\ place'[v].level = w.level - 1
      /\ place'[v].number = place[c.table].number * Entries + c.index
  <2>1. place'[v] = Placed(place[c.table].space, place[c.table].level - 1,
                           place[c.table].number * Entries + c.index)
    BY <1>1, <1>7 DEF Child, Top
  <2> QED BY <1>8, <2>1, PlacedLaw
<1>10. CASE l = w.level - 1
  BY <1>1, <1>4, <1>5, <1>6, <1>9, <1>10, Sizes DEF OnPath
<1>11. CASE l = w.level
  <2>1. x.path[l] = c /\ l > x.level /\ l - 1 = w.level - 1 /\ x.path[l - 1].table = v
    BY <1>4, <1>5, <1>6, <1>7, <1>11
  <2>2. OnPath(s, w, l)
    BY <1>8, <1>11
  <2>3. w.path[l] = c
    BY <1>7, <1>11
  <2>4. w.op = "copy" => c.source \in DOMAIN mem /\ place[c.source] = Placed(1, l, place[c.table].number)
    BY <2>2, <2>3 DEF OnPath
  <2> QED BY <1>4, <1>8, <1>9, <1>11, <2>1, <2>4 DEF OnPath, Stays
<1>12. CASE l > w.level
  <2>1. l \in w.level..Levels /\ l \in 1..Levels /\ l - 1 \in w.level..Levels /\ l - 1 \in 1..Levels
    BY <1>5, <1>12, Sizes
  <2>2. x.path[l] = w.path[l] /\ x.path[l - 1] = w.path[l - 1]
    BY <1>4, <1>5, <1>12, <2>1
  <2>3. OnPath(s, w, l) /\ OnPath(s, w, l - 1)
    BY <1>1, <2>1 DEF PathInv
  <2>4. w.path[l].table \in DOMAIN mem /\ w.path[l - 1].table \in DOMAIN mem
    BY <2>3 DEF OnPath
  <2> QED BY <1>4, <1>12, <2>2, <2>3, <2>4 DEF OnPath, Stays
<1> QED BY <1>5, <1>10, <1>11, <1>12

LEMMA PathNext ==
    ASSUME TypeInv, NEW s \in DOMAIN root, PathInv(s), Stays, Top(work[s]).index < Entries,
           work'[s] = NextRound(work[s])
    PROVE  PathInv(s)'
<1>1. PICK w \in Operations : w = work[s]
  BY SpaceLaw
<1>2. PICK x : x = NextRound(w)
  OBVIOUS
<1>3. PICK c \in Activations : c = w.path[w.level]
  BY OperationType
<1>4. /\ x.op = w.op /\ x.level = w.level
      /\ x.path[w.level] = Activation(c.table, c.source, c.index + 1)
      /\ \A l \in 1..Levels : l # w.level => x.path[l] = w.path[l]
  BY <1>2, <1>3, NextRoundLaw DEF Top
<1>5. w.level \in 1..Levels /\ c.table \in Nat /\ c.source \in Nat /\ c.index \in Nat /\ c.index < Entries
  BY <1>1, <1>3, OperationType DEF Top
<1> SUFFICES ASSUME NEW l \in w.level..Levels PROVE OnPath(s, x, l)'
  BY <1>1, <1>2, <1>4 DEF PathInv
<1>6. /\ x.path[w.level].table = c.table /\ x.path[w.level].source = c.source
      /\ x.path[w.level].index = c.index + 1
  <2>1. c.index + 1 \in Nat
    BY <1>5
  <2> QED BY <1>4, <1>5, <2>1, ActivationLaw
<1>7. OnPath(s, w, l) /\ l \in 1..Levels
  BY <1>1, <1>5, Sizes DEF PathInv
<1>8. CASE l = w.level
  <2>1. c.index + 1 \in 0..Entries
    BY <1>5, Sizes
  <2> QED BY <1>3, <1>4, <1>6, <1>7, <1>8, <2>1 DEF OnPath, Stays
<1>9. CASE l > w.level
  <2>1. l - 1 \in w.level..Levels
    BY <1>5, <1>9, Sizes
  <2>2. x.path[l] = w.path[l] /\ x.path[l - 1].table = w.path[l - 1].table
    BY <1>3, <1>4, <1>5, <1>6, <1>7, <1>9, <2>1
  <2>3. OnPath(s, w, l - 1)
    BY <1>1, <2>1 DEF PathInv
  <2>4. w.path[l].table \in DOMAIN mem /\ w.path[l - 1].table \in DOMAIN mem
    BY <1>7, <2>3 DEF OnPath
  <2> QED BY <1>4, <1>7, <1>9, <2>2, <2>4 DEF OnPath, Stays
<1> QED BY <1>5, <1>8, <1>9

LEMMA PathReturned ==
    ASSUME TypeInv, NEW s \in DOMAIN root, PathInv(s), Stays, work[s].level < Levels, NEW page \in Nat,
           work'[s] = Returned(work[s], page)
    PROVE  PathInv(s)'
<1>1. PICK w \in Operations : w = work[s]
  BY SpaceLaw
<1>2. PICK x : x = Returned(w, page)
  OBVIOUS
<1>5. w.level \in 1..Levels /\ w.level + 1 \in 1..Levels /\ w.level + 1 \in w.level..Levels
  BY <1>1, OperationType, Sizes
<1>3. PICK c \in Activations : c = w.path[w.level + 1]
  BY <1>5, OperationType
<1>4. /\ x.op = w.op /\ x.level = w.level + 1
      /\ x.path[w.level + 1] = Activation(c.table, c.source, c.index + 1)
      /\ \A l \in 1..Levels : l # w.level + 1 => x.path[l] = w.path[l]
  BY <1>1, <1>2, <1>3, ReturnedLaw
<1> SUFFICES ASSUME NEW l \in (w.level + 1)..Levels PROVE OnPath(s, x, l)'
  BY <1>1, <1>2, <1>4 DEF PathInv
<1>6. c.table \in Nat /\ c.source \in Nat /\ c.index \in Nat /\ c.index < Entries
  <2>1. OnPath(s, w, w.level + 1) /\ w.level + 1 > w.level
    BY <1>1, <1>5 DEF PathInv
  <2> QED BY <1>3, <1>5, <2>1, OperationType DEF OnPath
<1>7. /\ x.path[w.level + 1].table = c.table /\ x.path[w.level + 1].source = c.source
      /\ x.path[w.level + 1].index = c.index + 1
  <2>1. PICK i \in Nat : i = c.index + 1
    BY <1>6
  <2>2. LET a == Activation(c.table, c.source, i)
        IN  a.table = c.table /\ a.source = c.source /\ a.index = i
    BY DEF Activation
  <2> QED BY <1>4, <2>1, <2>2
<1>8. OnPath(s, w, l) /\ l \in 1..Levels
  BY <1>1, <1>5, Sizes DEF PathInv
<1>9. CASE l = w.level + 1
  <2>1. c.index + 1 \in 0..Entries
    BY <1>6, Sizes
  <2> QED BY <1>3, <1>4, <1>5, <1>7, <1>8, <1>9, <2>1 DEF OnPath, Stays
<1>10. CASE l > w.level + 1
  <2>1. l - 1 \in w.level..Levels /\ l - 1 \in 1..Levels
    BY <1>5, <1>10, Sizes
  <2>2. x.path[l] = w.path[l] /\ x.path[l - 1].table = w.path[l - 1].table
    BY <1>3, <1>4, <1>5, <1>7, <1>8, <1>10, <2>1
  <2>3. OnPath(s, w, l - 1)
    BY <1>1, <2>1 DEF PathInv
  <2>4. w.path[l].table \in DOMAIN mem /\ w.path[l - 1].table \in DOMAIN mem
    BY <1>8, <2>3 DEF OnPath
  <2>5. l > w.level
    BY <1>5, <1>10
  <2> QED BY <1>4, <1>8, <1>10, <2>2, <2>4, <2>5 DEF OnPath, Stays
<1> QED BY <1>5, <1>9, <1>10

-----------------------------------------------------------------------------
(* Where map_in_table is. *)

LEMMA PageIndex ==
    ASSUME NEW p \in Nat, NEW l \in 1..Levels
    PROVE  /\ page_table_index(p, l) \in Slots /\ page_table_index(p, l) \in Nat
           /\ page_table_index(p, l) \in 0..Entries
           /\ Prefix(p)[l] \in Nat /\ Prefix(p)[l - 1] \in Nat
           /\ Prefix(p)[l] * Entries + page_table_index(p, l) = Prefix(p)[l - 1]
<1>0. l - 1 \in 0..Levels
  BY Sizes
<1>1. PICK a \in Nat : a = Prefix(p)[l - 1]
  BY <1>0, PrefixLaw
<1>2. Prefix(p)[l] = a \div Entries
  BY <1>1, PrefixLaw
<1>3. page_table_index(p, l) = a % Entries
  BY <1>1 DEF page_table_index
<1>4. a % Entries \in Nat /\ a % Entries \in 0..Entries
  BY Split, Sizes DEF Slots
<1> QED BY <1>1, <1>2, <1>3, <1>4, Split

LEMMA FirstIndex ==
    ASSUME NEW p \in Nat
    PROVE  /\ page_table_index(p, 1) = p % Entries /\ Prefix(p)[1] = p \div Entries
           /\ p % Entries \in Slots /\ p % Entries \in Nat /\ p % Entries < Entries
           /\ p \div Entries \in Nat /\ (p \div Entries) * Entries + (p % Entries) = p
<1>0. 1 \in 1..Levels /\ 1 - 1 = 0 /\ Prefix(p)[0] = p
  BY PrefixLaw, Sizes
<1>1. page_table_index(p, 1) = p % Entries /\ Prefix(p)[1] = p \div Entries
  <2>1. Prefix(p)[1] = Prefix(p)[1 - 1] \div Entries
    BY <1>0, PrefixLaw
  <2> QED BY <1>0, <2>1 DEF page_table_index
<1>2. p % Entries \in Nat /\ p % Entries < Entries
  BY Split, Sizes DEF Slots
<1> QED BY <1>1, <1>2, Split

LEMMA MinLaw ==
    ASSUME NEW a \in Nat, NEW b \in Nat
    PROVE  Min({a, b}) = IF a <= b THEN a ELSE b
BY DEF Min

\* What the loop of the last level maps.
LEMMA AllocCount ==
    ASSUME NEW w \in Operations, w.page < w.request.end
    PROVE  LET i == start_index(w)
               a == alloc_count(w)
           IN  /\ i \in Nat /\ i < Entries /\ i = w.page % Entries
               /\ a \in Nat /\ a >= 1 /\ w.page + a <= w.request.end /\ i + a <= Entries
               /\ w.page + a < w.request.end => i + a = Entries
<1>1. PICK p \in Nat, e \in Nat : p = w.page /\ e = w.request.end /\ p < e
  BY OperationType DEF Arguments
<1>2. PICK i \in Nat : i = start_index(w) /\ i < Entries /\ i = p % Entries
  BY <1>1, FirstIndex DEF start_index
<1>3. e - p \in Nat /\ Entries - i \in Nat
  BY <1>1, <1>2, Sizes
<1>4. alloc_count(w) = IF e - p <= Entries - i THEN e - p ELSE Entries - i
  BY <1>1, <1>2, <1>3, MinLaw DEF alloc_count
<1> QED BY <1>1, <1>2, <1>3, <1>4, Sizes

LEMMA MapCalled ==
    ASSUME TypeInv, NEW s \in DOMAIN root, PathInv(s), MapInv(s), work[s].op = "map",
           work[s].level > 1, ~Ends(work[s]), memory' = memory,
           NEW v \in Nat, place'[v] = Child(Top(work[s]).table, Top(work[s]).index),
           work'[s] = Called(work[s], v, 0, page_table_index(work[s].page, work[s].level - 1))
    PROVE  /\ Top(work[s]).index < Entries
           /\ work[s].page < work[s].request.end
           /\ page_table_index(work[s].page, work[s].level - 1) \in 0..Entries
           /\ place'[v].number = Prefix(work[s].page)[work[s].level - 1]
           /\ MapInv(s)'
           /\ Reached(work[s])' = Reached(work[s])
<1>1. PICK w \in Operations : w = work[s]
  BY SpaceLaw
<1>2. PICK c \in Activations : c = Top(w)
  BY OperationType
<1>3. /\ w.level \in 1..Levels /\ w.level > 1 /\ w.level - 1 \in 1..Levels
      /\ c.index \in 0..Entries /\ c.table \in DOMAIN mem
      /\ place[c.table].space = s /\ place[c.table].level = w.level /\ place[c.table].number \in Nat
  BY <1>1, <1>2, TopLaw, Sizes
<1>4. w.page \in Nat /\ w.request.end \in Nat
  BY OperationType DEF Arguments
<1>5. c.index < Entries /\ w.page < w.request.end
  BY <1>1, <1>2, <1>3, <1>4, Sizes DEF Ends
<1>6. /\ w.request \in Requests(s) /\ w.page \in w.request.start..w.request.end
      /\ place[c.table].number * Entries + c.index = Prefix(w.page)[w.level - 1]
      /\ s # 1 => w.page % Entries = 0
  BY <1>1, <1>2, <1>3, <1>5 DEF MapInv
<1> DEFINE index == page_table_index(w.page, w.level - 1)
<1>7. /\ index \in Nat /\ index \in 0..Entries
      /\ Prefix(w.page)[w.level - 1] \in Nat
      /\ Prefix(w.page)[w.level - 1] * Entries + index = Prefix(w.page)[(w.level - 1) - 1]
  BY <1>3, <1>4, PageIndex
<1>8. place'[v].number = Prefix(w.page)[w.level - 1]
  <2>1. place'[v] = Placed(place[c.table].space, place[c.table].level - 1,
                           place[c.table].number * Entries + c.index)
    BY <1>1, <1>2 DEF Child
  <2> QED BY <1>6, <2>1, PlacedLaw
<1>9. PICK x \in Operations : x = work'[s]
  BY <1>1, <1>3, <1>7, CalledLaw
<1>10. /\ x.op = "map" /\ x.request = w.request /\ x.page = w.page /\ x.level = w.level - 1
       /\ Top(x) = Activation(v, 0, index)
  <2>1. x = Called(w, v, 0, index)
    BY <1>1, <1>9
  <2> HIDE DEF index
  <2>2. w.level > 1 /\ 0 \in Nat /\ index \in Nat
    BY <1>3, <1>7
  <2>3. /\ x.op = w.op /\ x.request = w.request /\ x.page = w.page /\ x.level = w.level - 1
        /\ x.path[w.level - 1] = Activation(v, 0, index)
    BY <2>1, <2>2, CalledLaw
  <2> QED BY <1>1, <2>3 DEF Top
<1>11. Top(x).table = v /\ Top(x).index = index
  BY <1>10 DEF Activation
<1>12. start_index(x) = start_index(w) /\ start_index(w) = page_table_index(w.page, 1)
       /\ start_index(w) = w.page % Entries /\ start_index(w) \in Nat
  BY <1>4, <1>10, FirstIndex DEF start_index
<1>13. Reached(x) = w.page /\ Reached(w) = w.page
  <2>1. CASE x.level = 1
    <3>1. index = start_index(w)
      BY <1>3, <1>10, <1>12, <2>1
    <3> QED BY <1>3, <1>4, <1>10, <1>11, <1>12, <2>1, <3>1 DEF Reached
  <2>2. CASE x.level # 1
    BY <1>3, <1>10, <2>2 DEF Reached
  <2> QED BY <2>1, <2>2
<1>14. Requests(s)' = Requests(s)
  BY DEF Requests, MemoryRequest
<1>15. MapInv(s)'
  <2>1. x.level > 1 => place'[v].number * Entries + index = Prefix(w.page)[x.level - 1]
    BY <1>7, <1>8, <1>10
  <2>2. x.level = 1 => place'[v].number = Prefix(w.page)[1] /\ index >= start_index(w)
    <3> SUFFICES ASSUME x.level = 1 PROVE place'[v].number = Prefix(w.page)[1] /\ index >= start_index(w)
      OBVIOUS
    <3>1. w.level - 1 = 1
      BY <1>10
    <3> QED BY <1>7, <1>8, <1>12, <3>1
  <2>3. Reached(x) <= w.request.end
    BY <1>4, <1>5, <1>13
  <2> HIDE DEF index
  <2> QED BY <1>4, <1>5, <1>6, <1>9, <1>10, <1>11, <1>12, <1>14, <2>1, <2>2, <2>3 DEF MapInv
<1>16. Reached(work[s])' = Reached(x)
  BY <1>9 DEF Reached, start_index, Top
<1> QED BY <1>1, <1>2, <1>5, <1>7, <1>8, <1>13, <1>15, <1>16

\* The loop of the last level has mapped what its caller goes on with.
LEMMA LastReached ==
    ASSUME TypeInv, NEW s \in DOMAIN root, PathInv(s), MapInv(s), work[s].op = "map",
           work[s].level = 1, ~Writes(work[s])
    PROVE  LET w == work[s] IN
           /\ Reached(w) \in Nat
           /\ w.page + alloc_count(w) <= Reached(w)
           /\ s # 1 => w.page + alloc_count(w) = Reached(w)
<1>1. PICK w \in Operations : w = work[s]
  BY SpaceLaw
<1>2. PICK j \in Nat : j = Top(w).index /\ j <= Entries
  BY <1>1, TopLaw, Sizes
<1>3. w.page < w.request.end /\ w.page \in Nat /\ w.request.end \in Nat /\ j >= start_index(w)
  BY <1>1, <1>2, OperationType DEF MapInv, Arguments
<1>4. PICK i \in Nat, a \in Nat :
        /\ i = start_index(w) /\ i = w.page % Entries /\ a = alloc_count(w) /\ a >= 1
        /\ w.page + a <= w.request.end /\ i + a <= Entries
        /\ w.page + a < w.request.end => i + a = Entries
  BY <1>3, AllocCount
<1>5. Reached(w) = w.page + (j - i)
  BY <1>1, <1>2, <1>4 DEF Reached
<1>6. ~(j < Entries /\ j - i < i + a)
  BY <1>1, <1>2, <1>4 DEF Writes
<1>7. s # 1 => i = 0 /\ Reached(w) <= w.request.end
  BY <1>1, <1>3, <1>4 DEF MapInv
<1>8. w.page + a <= w.page + (j - i) /\ w.page + (j - i) \in Nat
  BY <1>2, <1>3, <1>4, <1>6, Sizes
<1>9. s # 1 => w.page + a = w.page + (j - i)
  BY <1>2, <1>3, <1>4, <1>5, <1>6, <1>7, Sizes
<1> QED BY <1>1, <1>4, <1>5, <1>8, <1>9

LEMMA MapReturned ==
    ASSUME TypeInv, NEW s \in DOMAIN root, PathInv(s), MapInv(s), work[s].op = "map",
           work[s].level < Levels, memory' = memory, place' = place,
           IF work[s].level = 1 THEN ~Writes(work[s]) ELSE Ends(work[s]),
           NEW page \in Nat,
           page = IF work[s].level = 1 THEN work[s].page + alloc_count(work[s]) ELSE work[s].page,
           work'[s] = Returned(work[s], page)
    PROVE  /\ MapInv(s)' /\ Reached(work[s])' \in Nat
           /\ Reached(work[s])' <= Reached(work[s])
           /\ s # 1 => Reached(work[s])' = Reached(work[s])
<1>1. PICK w \in Operations : w = work[s]
  BY SpaceLaw
<1>2. PICK c \in Activations : c = Top(w) /\ c = w.path[w.level]
  BY OperationType DEF Top
<1>3. /\ w.level \in 1..Levels /\ w.level < Levels /\ c.index \in 0..Entries /\ c.table \in DOMAIN mem
      /\ place[c.table].number \in Nat /\ c.index \in Nat
  BY <1>1, <1>2, TopLaw
<1>4. PICK d \in Activations : d = w.path[w.level + 1]
  BY <1>3, OperationType, Sizes
<1>5. /\ d.table \in DOMAIN mem /\ d.index \in Nat /\ d.index < Entries /\ place[d.table].number \in Nat
      /\ place[d.table].number * Entries + d.index = place[c.table].number
  <2>1. w.level + 1 \in w.level..Levels /\ w.level + 1 > w.level /\ (w.level + 1) - 1 = w.level
    BY <1>3, Sizes
  <2>2. OnPath(s, w, w.level + 1)
    BY <1>1, <2>1 DEF PathInv
  <2> QED BY <1>2, <1>4, <2>1, <2>2, TableLaw DEF OnPath, Activations
<1>6. w.page \in Nat /\ w.request.end \in Nat /\ w.request.start \in Nat
      /\ w.request \in Requests(s) /\ w.page \in w.request.start..w.request.end
  BY <1>1, OperationType DEF Arguments, MapInv
<1>7. PICK x \in Operations : x = work'[s]
  BY <1>1, <1>3, ReturnedLaw
<1>8. /\ x.op = "map" /\ x.request = w.request /\ x.page = page /\ x.level = w.level + 1
      /\ Top(x) = Activation(d.table, d.source, d.index + 1)
  <2>1. x = Returned(w, page)
    BY <1>1, <1>7
  <2>2. /\ x.op = w.op /\ x.request = w.request /\ x.page = page /\ x.level = w.level + 1
        /\ x.path[w.level + 1] = Activation(d.table, d.source, d.index + 1)
    BY <1>3, <1>4, <2>1, ReturnedLaw
  <2> QED BY <1>1, <2>2 DEF Top
<1>9. Top(x).table = d.table /\ Top(x).index = d.index + 1
  BY <1>8 DEF Activation
<1>10. x.level > 1 /\ Reached(x) = page
  BY <1>3, <1>8 DEF Reached
<1>11. PICK n \in Nat : n = place[c.table].number
  BY <1>3
<1>12. place[d.table].number * Entries + (d.index + 1) = n + 1
  <2>1. PICK k \in Nat : k = place[d.table].number * Entries
    BY <1>5, Sizes
  <2> QED BY <1>5, <1>11, <2>1
<1>13. /\ page \in w.request.start..w.request.end
       /\ page < w.request.end => n + 1 = Prefix(page)[w.level]
       /\ s # 1 /\ page < w.request.end => page % Entries = 0
       /\ page <= Reached(w) /\ (s # 1 => page = Reached(w))
  <2>1. CASE w.level = 1
    <3>1. w.page < w.request.end /\ n = Prefix(w.page)[1]
      BY <1>1, <1>2, <1>11, <2>1 DEF MapInv
    <3>2. PICK i \in Nat, a \in Nat :
            /\ i = w.page % Entries /\ a = alloc_count(w) /\ a >= 1
            /\ w.page + a <= w.request.end /\ i + a <= Entries
            /\ w.page + a < w.request.end => i + a = Entries
      BY <3>1, AllocCount
    <3>3. page = w.page + a
      BY <1>1, <2>1, <3>2
    <3>4. page <= Reached(w) /\ (s # 1 => page = Reached(w))
      BY <1>1, <2>1, <3>2, <3>3, LastReached
    <3>5. w.page = n * Entries + i
      BY <1>6, <3>1, <3>2, FirstIndex
    <3>6. page < w.request.end => page = (n + 1) * Entries
      <4>1. (n + 1) * Entries = n * Entries + Entries
        BY Sizes
      <4>2. n * Entries \in Nat
        BY Sizes
      <4> QED BY <1>6, <3>2, <3>3, <3>5, <4>1, <4>2, Sizes
    <3>7. ASSUME page < w.request.end
          PROVE  page \div Entries = n + 1 /\ page % Entries = 0
      <4>1. page = (n + 1) * Entries + 0 /\ n + 1 \in Nat /\ 0 \in Nat /\ 0 < Entries /\ Entries > 1
        BY <3>6, <3>7, Sizes
      <4>2. PICK m \in Nat : m = n + 1 /\ page = m * Entries + 0
        BY <4>1
      <4>3. page \div Entries = m /\ page % Entries = 0
        BY <4>1, <4>2, Quotient, Sizes
      <4> QED BY <4>2, <4>3
    <3>8. Prefix(page)[1] = page \div Entries
      BY FirstIndex
    <3>9. page \in w.request.start..w.request.end
      BY <1>6, <3>2, <3>3
    <3> QED BY <2>1, <3>4, <3>7, <3>8, <3>9
  <2>2. CASE w.level # 1
    <3>1. page = w.page /\ Ends(w) /\ w.level > 1
      BY <1>1, <1>3, <2>2
    <3>2. Reached(w) = w.page
      BY <2>2 DEF Reached
    <3>3. ASSUME page < w.request.end PROVE n + 1 = Prefix(page)[w.level]
      <4>1. c.index = Entries
        BY <1>2, <1>6, <3>1, <3>3 DEF Ends
      <4>2. n * Entries + Entries = Prefix(w.page)[w.level - 1]
        BY <1>1, <1>2, <1>11, <3>1, <3>3, <4>1 DEF MapInv
      <4>3. n * Entries + Entries = (n + 1) * Entries + 0 /\ n + 1 \in Nat /\ (n + 1) * Entries + 0 \in Nat
        BY Sizes
      <4>4. ((n + 1) * Entries + 0) \div Entries = n + 1
        BY <4>3, DivMod, Sizes DEF Slots
      <4>5. Prefix(w.page)[w.level] = Prefix(w.page)[w.level - 1] \div Entries
        BY <1>3, <1>6, PrefixLaw
      <4> QED BY <3>1, <4>2, <4>3, <4>4, <4>5
    <3>4. s # 1 /\ page < w.request.end => page % Entries = 0
      BY <1>1, <3>1 DEF MapInv
    <3> QED BY <1>6, <3>1, <3>2, <3>3, <3>4
  <2> QED BY <2>1, <2>2
<1>14. Requests(s)' = Requests(s)
  BY DEF Requests, MemoryRequest
<1>15. MapInv(s)'
  <2>1. Reached(x) <= w.request.end
    BY <1>6, <1>10, <1>13
  <2>2. page < w.request.end => place'[d.table].number * Entries + (d.index + 1) = Prefix(page)[x.level - 1]
    <3>1. x.level - 1 = w.level
      BY <1>3, <1>8
    <3> QED BY <1>12, <1>13, <3>1
  <2>3. Reached(x)' = Reached(x) /\ start_index(x)' = start_index(x)
    BY DEF Reached, start_index, Top
  <2> QED BY <1>6, <1>7, <1>8, <1>9, <1>10, <1>13, <1>14, <2>1, <2>2 DEF MapInv
<1>16. Reached(work[s])' = Reached(x)
  BY <1>7 DEF Reached, start_index, Top
<1> QED BY <1>1, <1>10, <1>13, <1>15, <1>16

\* When the call for the root table returns, everything is mapped.
LEMMA MapEnds ==
    ASSUME TypeInv, NEW s \in DOMAIN root, PathInv(s), MapInv(s), TreeInv, work[s].op = "map",
           work[s].level = Levels, Ends(work[s])
    PROVE  work[s].page = work[s].request.end /\ Reached(work[s]) = work[s].request.end
<1>1. PICK w \in Operations : w = work[s]
  BY SpaceLaw
<1>2. PICK c \in Activations : c = Top(w)
  BY OperationType
<1>3. w.level = Levels /\ c.table \in DOMAIN mem /\ place[c.table].space = s /\ place[c.table].level = Levels
  BY <1>1, <1>2, TopLaw
<1>4. place[c.table].number = 0
  BY <1>3 DEF TreeInv, Roots
<1>5. w.page \in Nat /\ w.request.end \in Nat /\ w.request.start \in Nat
      /\ w.request \in Requests(s) /\ w.page \in w.request.start..w.request.end
  BY <1>1, OperationType DEF Arguments, MapInv
<1>6. ASSUME w.page < w.request.end PROVE FALSE
  <2>1. c.index = Entries
    BY <1>2, <1>1, <1>5, <1>6 DEF Ends
  <2>2. 0 * Entries + Entries = Prefix(w.page)[Levels - 1]
    BY <1>1, <1>2, <1>3, <1>4, <1>6, <2>1, Sizes DEF MapInv
  <2>3. w.page \in Pages
    BY <1>5, <1>6, RequestLaw, StackLaw
  <2> QED BY <2>2, <2>3, RootPrefix, Sizes
<1> QED BY <1>1, <1>3, <1>5, <1>6, Sizes DEF Reached

-----------------------------------------------------------------------------
(* Facts about an operation that maps. *)

\* No table is at the place of an entry that leads nowhere.
LEMMA NoChild ==
    ASSUME TypeInv, TreeInv, NEW t \in DOMAIN mem, place[t].level > 1, NEW i \in Slots,
           mem[t][i].addr \notin DOMAIN mem, NEW u \in DOMAIN mem
    PROVE  place[u] # Child(t, i)
<1> SUFFICES ASSUME place[u] = Child(t, i) PROVE FALSE
  OBVIOUS
<1>1. /\ place[t].level \in 1..Levels /\ place[t].number \in Nat
      /\ place[t] = Placed(place[t].space, place[t].level, place[t].number)
  BY TableLaw
<1>2. /\ place[u].space = place[t].space /\ place[u].level = place[t].level - 1
      /\ place[u].number = place[t].number * Entries + i
  BY PlacedLaw DEF Child
<1>3. place[u].level < Levels /\ place[u].level + 1 = place[t].level
  BY <1>1, <1>2, Sizes
<1>4. place[u].number \div Entries = place[t].number /\ place[u].number % Entries = i
  BY <1>1, <1>2, DivMod
<1>5. PICK v \in DOMAIN mem :
            /\ place[v] = Placed(place[u].space, place[u].level + 1, place[u].number \div Entries)
            /\ Linked(v, place[u].number % Entries)
  BY <1>3, Parent
<1>6. place[v] = place[t] /\ Linked(v, i)
  BY <1>1, <1>2, <1>3, <1>4, <1>5
<1>7. v = t
  BY <1>6 DEF TreeInv, Distinct
<1> QED BY <1>6, <1>7 DEF Linked

LEMMA MapContext ==
    ASSUME SpaceInv, NEW s \in DOMAIN root, work[s].op = "map"
    PROVE  /\ PathInv(s) /\ MapInv(s)
           /\ s = 1 => ~booted /\ DOMAIN root = {1}
           /\ s # 1 => /\ booted /\ root # <<>> /\ work[1].op = "idle" /\ asked[1] # {} /\ asked[s] = {}
                       /\ CopiedInv(s) /\ 1 \in DOMAIN root
<1> USE DEF SpaceInv
<1>1. PathInv(s) /\ MapInv(s) /\ (s # 1 => CopiedInv(s))
  BY DEF WorkInv, OperationInv
<1>2. Len(root) \in Nat /\ DOMAIN root = 1..Len(root) /\ s \in 1..Len(root)
  BY SpaceLaw
<1>3. s = 1 => ~booted /\ DOMAIN root = {1}
  BY <1>2 DEF OrderInv
<1>4. s # 1 => booted
  BY <1>2 DEF OrderInv
<1>5. s # 1 => root # <<>> /\ work[1].op = "idle" /\ asked[1] # {} /\ asked[s] = {} /\ 1 \in DOMAIN root
  BY <1>2, <1>4 DEF OrderInv
<1> QED BY <1>1, <1>3, <1>4, <1>5

\* The table that is searched for a page is the page's.
LEMMA MapNumber ==
    ASSUME TypeInv, NEW s \in DOMAIN root, PathInv(s), MapInv(s),
           work[s].page < work[s].request.end, Top(work[s]).index < Entries
    PROVE  /\ place[Top(work[s]).table].number = Prefix(work[s].page)[work[s].level]
           /\ s # 1 => ~Below(place[Top(work[s]).table])
           /\ s = 1 /\ work[s].level < Levels => Below(place[Top(work[s]).table])
<1>1. PICK w \in Operations : w = work[s]
  BY SpaceLaw
<1>2. PICK c \in Activations : c = Top(w)
  BY OperationType
<1>3. /\ w.level \in 1..Levels /\ c.table \in DOMAIN mem /\ c.index \in Slots
      /\ place[c.table].level = w.level /\ place[c.table].number \in Nat
  BY <1>1, <1>2, TopLaw, Sizes DEF Slots
<1>4. PICK p \in Nat : p = w.page
  BY OperationType
<1>5. /\ w.request \in Requests(s) /\ p \in w.request.start..w.request.end
      /\ w.request.end \in Nat /\ p < w.request.end /\ w.request.start \in Nat
  BY <1>1, <1>4, OperationType DEF MapInv, Arguments
<1>6. place[c.table].number = Prefix(p)[w.level]
  <2>1. CASE w.level = 1
    BY <1>1, <1>2, <1>4, <2>1 DEF MapInv
  <2>2. CASE w.level # 1
    <3>1. place[c.table].number * Entries + c.index = Prefix(p)[w.level - 1]
      BY <1>1, <1>2, <1>3, <1>4, <2>2 DEF MapInv
    <3>2. Prefix(p)[w.level] = Prefix(p)[w.level - 1] \div Entries
      BY <1>3, PrefixLaw
    <3> QED BY <1>3, <3>1, <3>2, DivMod
  <2> QED BY <2>1, <2>2
<1>7. s # 1 => ~Below(place[c.table])
  <2> SUFFICES ASSUME s # 1 PROVE ~Below(place[c.table])
    OBVIOUS
  <2>1. StackPage <= p
    BY <1>5, RequestLaw
  <2>2. Prefix(StackPage)[w.level] <= Prefix(p)[w.level]
    BY <1>3, <2>1, PrefixOrder, StackLaw, Sizes
  <2>3. Prefix(StackPage)[w.level] \in Nat /\ Prefix(p)[w.level] \in Nat
    <3>1. w.level \in 0..Levels /\ StackPage \in Nat
      BY <1>3, StackLaw
    <3> QED BY <3>1, PrefixNat
  <2> QED BY <1>3, <1>6, <2>2, <2>3 DEF Below
<1>8. s = 1 /\ w.level < Levels => Below(place[c.table])
  <2> SUFFICES ASSUME s = 1, w.level < Levels PROVE Below(place[c.table])
    OBVIOUS
  <2>1. p < StackPage
    BY <1>5, RequestLaw, StackLaw
  <2>2. w.level \in 0..(Levels - 1)
    BY <1>3, Sizes
  <2> QED BY <1>3, <1>6, <2>1, <2>2, BeforeStack DEF Below
<1> QED BY <1>1, <1>2, <1>4, <1>6, <1>7, <1>8

LEMMA EndKept ==
    ASSUME NEW r, work'[r] = work[r], asked'[r] = asked[r]
    PROVE  StackEnd(r)' = StackEnd(r) /\ Reached(work[r])' = Reached(work[r])
BY DEF StackEnd, Reached, Top, start_index

LEMMA CopiedKept ==
    ASSUME TypeInv, KernelInv, NEW s, s # 1, CopiedInv(s), Touches(s),
           \A u \in DOMAIN mem : place[u].space = s /\ place[u].level = 1 /\ Below(place[u]) => mem'[u] = mem[u],
           \A u \in DOMAIN mem' : u \notin DOMAIN mem /\ place'[u].level = 1 => ~Below(place'[u])
    PROVE  CopiedInv(s)'
<1> USE DEF Touches
<1>1. ASSUME NEW t \in DOMAIN mem', KernelLeaf(t)' PROVE HasCopy(s, t)'
  <2>1. t \in DOMAIN mem /\ KernelLeaf(t) /\ mem'[t] = mem[t] /\ place'[t] = place[t]
    BY <1>1 DEF KernelLeaf
  <2>2. PICK u \in DOMAIN mem : place[u] = Placed(s, 1, place[t].number) /\ mem[u] = mem[t]
    BY <2>1 DEF CopiedInv, HasCopy
  <2>3. place[u].space = s /\ place[u].level = 1 /\ place[u].number = place[t].number
    BY <2>2, PlacedLaw
  <2>4. Below(place[t])
    BY <2>1, Sizes DEF KernelInv, KernelLeaf
  <2>5. Below(place[u])
    BY <2>1, <2>3, <2>4 DEF Below, KernelLeaf
  <2> QED BY <2>1, <2>2, <2>3, <2>5 DEF HasCopy
<1>2. ASSUME NEW u \in DOMAIN mem', place'[u].space = s, place'[u].level = 1
      PROVE  IsCopy(u)' \/ StackTable(u)'
  <2>1. CASE ~Below(place'[u])
    BY <1>2, <2>1 DEF StackTable
  <2>2. CASE Below(place'[u])
    <3>1. u \in DOMAIN mem
      BY <1>2, <2>2
    <3>2. mem'[u] = mem[u] /\ place'[u] = place[u]
      BY <1>2, <2>2, <3>1
    <3>3. IsCopy(u)
      BY <1>2, <2>2, <3>1, <3>2 DEF CopiedInv, StackTable
    <3>4. PICK t \in DOMAIN mem : KernelLeaf(t) /\ place[t].number = place[u].number /\ mem[u] = mem[t]
      BY <3>3 DEF IsCopy
    <3>5. mem'[t] = mem[t] /\ place'[t] = place[t]
      BY <3>4 DEF KernelLeaf
    <3> QED BY <3>2, <3>4, <3>5 DEF IsCopy, KernelLeaf
  <2> QED BY <2>1, <2>2
<1> QED BY <1>1, <1>2 DEF CopiedInv

-----------------------------------------------------------------------------
(* Every step keeps the invariant. *)

LEMMA OthersKept ==
    ASSUME SpaceInv, NEW s, s = 1 => DOMAIN root \subseteq {1}, Touches(s), booted => booted',
           \A r \in DOMAIN root : r # s => work'[r] = work[r]
    PROVE  \A r \in DOMAIN root : r # s => OperationInv(r)'
<1> SUFFICES ASSUME NEW r \in DOMAIN root, r # s PROVE OperationInv(r)'
  OBVIOUS
<1>1. s # 1 \/ r = 1
  OBVIOUS
<1>2. OperationInv(r) /\ TypeInv
  BY DEF SpaceInv, WorkInv
<1> QED BY <1>1, <1>2, OperationKept

LEMMA OrderKept ==
    ASSUME TypeInv, OrderInv, root' = root, asked' = asked, booted' = booted, memory' = memory,
           \A r \in DOMAIN root : work'[r].op = work[r].op /\ work'[r].request = work[r].request
    PROVE  OrderInv'
<1>1. root # <<>> => 1 \in DOMAIN root
  BY SpaceLaw
<1> QED BY <1>1 DEF OrderInv, MemoryRequest

LEMMA CoversKept ==
    ASSUME ReserveSuffices, root' = root, asked' = asked, memory' = memory, fault' = fault
    PROVE  ReserveSuffices'
BY DEF ReserveSuffices, ReserveCovers

\* A step of an operation s that goes on as v.
LEMMA StepKept ==
    ASSUME SpaceInv, NEW s \in DOMAIN root, NEW v, Goes_on(s, v), v.op = work[s].op, v.request = work[s].request,
           s = 1 => DOMAIN root \subseteq {1}, Touches(s),
           root' = root, asked' = asked, booted' = booted, fault' = fault
    PROVE  /\ OrderInv' /\ ReserveSuffices'
           /\ OperationInv(s)' => WorkInv'
           /\ \A r \in DOMAIN root : r # s => StackEnd(r)' = StackEnd(r)
<1> USE DEF SpaceInv
<1>1. memory' = memory
  BY DEF Touches
<1>2. \A r \in DOMAIN root : work'[r].op = work[r].op /\ work'[r].request = work[r].request
  BY DEF Goes_on
<1>3. OrderInv' /\ ReserveSuffices'
  BY <1>1, <1>2, OrderKept, CoversKept
<1>4. \A r \in DOMAIN root : r # s => OperationInv(r)'
  BY OthersKept DEF Goes_on
<1>5. OperationInv(s)' => WorkInv'
  BY <1>4 DEF WorkInv
<1>6. \A r \in DOMAIN root : r # s => StackEnd(r)' = StackEnd(r)
  BY EndKept DEF Goes_on
<1> QED BY <1>3, <1>5, <1>6

\* A step of an operation that leaves the tables alone.
LEMMA SameTables ==
    ASSUME SpaceInv, mem' = mem, place' = place, next_frame' = next_frame, root' = root,
           memory' = memory, leftover' = leftover
    PROVE  /\ TreeInv' /\ KernelInv' /\ Stays /\ \A s : Touches(s)
           /\ \A p, a : Got(p, a) => Got(p, a)'
           /\ \A s : s # 1 /\ CopiedInv(s) => CopiedInv(s)'
           /\ (root # <<>> /\ asked'[1] = {} => asked[1] = {}) => ReserveInv'
           /\ (\A r \in DOMAIN root \ {1} : StackEnd(r)' = StackEnd(r)) => StackInv'
<1> USE DEF SpaceInv
<1>1. TreeInv'
  BY TreeLeafwise DEF Leafwise
<1>2. KernelInv' /\ Stays
  BY DEF KernelInv, Below, Stays
<1>3. \A s : Touches(s)
  BY DEF Touches
<1>4. \A p, a : Got(p, a) => Got(p, a)'
  BY DEF Got
<1>5. ASSUME NEW s, s # 1, CopiedInv(s) PROVE CopiedInv(s)'
  BY <1>3, <1>5, CopiedKept
<1>6. (root # <<>> /\ asked'[1] = {} => asked[1] = {}) => ReserveInv'
  BY DEF ReserveInv
<1>7. ASSUME \A r \in DOMAIN root \ {1} : StackEnd(r)' = StackEnd(r) PROVE StackInv'
  <2>1. ASSUME NEW t \in DOMAIN mem, StackTable(t)
        PROVE  StackEnd(place[t].space)' = StackEnd(place[t].space)
    <3>1. place[t].space \in DOMAIN root \ {1}
      BY <2>1, TableLaw DEF StackTable
    <3>2. PICK r \in DOMAIN root \ {1} : r = place[t].space
      BY <3>1
    <3>3. StackEnd(r)' = StackEnd(r)
      BY <1>7
    <3> QED BY <3>2, <3>3 DEF StackEnd
  <2> QED BY <1>7, <2>1, StackKept
<1> QED BY <1>1, <1>2, <1>3, <1>4, <1>5, <1>6, <1>7

\* map_in_table follows an entry: it leads to a table.
LEMMA MapLinked ==
    ASSUME SpaceInv, NEW s \in DOMAIN root, work[s].op = "map", work[s].level > 1, ~Ends(work[s])
    PROVE  LET c == Top(work[s])
               e == mem[c.table][c.index]
           IN  /\ c.table \in DOMAIN mem /\ c.index \in Slots /\ c.index < Entries
               /\ work[s].page < work[s].request.end
               /\ place[c.table].space = s /\ place[c.table].level = work[s].level
               /\ ~Missing(e) => Linked(c.table, c.index)
               /\ Missing(e) => \A u \in DOMAIN mem : place[u] # Child(c.table, c.index)
<1> USE DEF SpaceInv
<1>0. PathInv(s) /\ MapInv(s)
  BY MapContext
<1>1. PICK w \in Operations : w = work[s]
  BY SpaceLaw
<1>2. PICK c \in Activations : c = Top(w)
  BY OperationType
<1>3. w.page \in Nat /\ w.request.end \in Nat
  BY OperationType DEF Arguments
<1>4. /\ w.level \in 1..Levels /\ c.table \in DOMAIN mem /\ c.index \in Slots /\ c.index < Entries
      /\ w.page < w.request.end
      /\ place[c.table].space = s /\ place[c.table].level = w.level
  BY <1>0, <1>1, <1>2, <1>3, TopLaw, Sizes DEF Ends, Slots
<1>5. s # 1 => ~Below(place[c.table])
  BY <1>0, <1>1, <1>2, <1>4, MapNumber
<1>6. ASSUME ~Missing(mem[c.table][c.index]) PROVE Linked(c.table, c.index)
  <2>1. mem[c.table][c.index] # Unused
    BY <1>6, ZeroLaw DEF Missing
  <2> QED BY <1>1, <1>4, <1>5, <2>1 DEF TreeInv, Children
<1>7. ASSUME Missing(mem[c.table][c.index]), NEW u \in DOMAIN mem PROVE place[u] # Child(c.table, c.index)
  <2>1. mem[c.table][c.index].addr \notin DOMAIN mem
    BY <1>7, TableLaw DEF Missing
  <2> QED BY <1>1, <1>4, <2>1, NoChild
<1> QED BY <1>1, <1>2, <1>4, <1>6, <1>7

LEMMA MapFollow ==
    ASSUME SpaceInv, NEW s \in DOMAIN root, work[s].op = "map", work[s].level > 1, ~Ends(work[s]),
           ~Missing(mem[Top(work[s]).table][Top(work[s]).index]),
           work' = [work EXCEPT ![s] = Called(work[s], mem[Top(work[s]).table][Top(work[s]).index].addr, 0,
                                              page_table_index(work[s].page, work[s].level - 1))],
           UNCHANGED <<memory, leftover, booted, tables, root, asked, fault>>
    PROVE  SpaceInv'
<1>1. PICK w \in Operations : w = work[s]
  BY SpaceLaw DEF SpaceInv
<1>2. PICK c \in Activations : c = Top(w)
  BY OperationType
<1>3. PICK v : v = mem[c.table][c.index].addr
  OBVIOUS
<1>4. PICK i : i = page_table_index(w.page, w.level - 1)
  OBVIOUS
<1>5. TypeInv /\ TreeInv /\ KernelGot /\ StackInv /\ PathInv(s) /\ MapInv(s)
  BY MapContext DEF SpaceInv
<1>6. v \in DOMAIN mem /\ v \in Nat /\ place[v] = Child(c.table, c.index)
  BY <1>1, <1>2, <1>3, <1>5, MapLinked, TableLaw DEF Linked
<1>7. w.level - 1 \in 1..Levels /\ w.page \in Nat /\ w.level > 1
  BY <1>1, OperationType, Sizes
<1>8. i \in Nat /\ i \in 0..Entries
  BY <1>4, <1>7, PageIndex
<1>9. PICK x \in Operations : x = Called(w, v, 0, i) /\ x.op = w.op /\ x.request = w.request
  BY <1>6, <1>7, <1>8, CalledLaw
<1>10. /\ mem' = mem /\ place' = place /\ next_frame' = next_frame /\ root' = root /\ asked' = asked
       /\ memory' = memory /\ leftover' = leftover /\ booted' = booted /\ fault' = fault
       /\ work' = [work EXCEPT ![s] = x]
  BY <1>1, <1>2, <1>3, <1>4, <1>9 DEF tables
<1>11. work' \in Seq(Operations) /\ Len(work') = Len(root) /\ Goes_on(s, x)
  BY <1>5, <1>10, WorkExcept
<1>12. TypeInv'
  BY <1>5, <1>10, <1>11, TypeWork DEF TypeInv
<1>13. /\ TreeInv' /\ KernelInv' /\ Stays /\ Touches(s) /\ ReserveInv'
       /\ \A p, a : Got(p, a) => Got(p, a)'
       /\ s # 1 => CopiedInv(s)'
  BY <1>10, SameTables, MapContext
<1>14. s = 1 => DOMAIN root \subseteq {1}
  BY MapContext
<1>15. /\ OrderInv' /\ ReserveSuffices' /\ (OperationInv(s)' => WorkInv')
       /\ \A r \in DOMAIN root : r # s => StackEnd(r)' = StackEnd(r)
  BY <1>1, <1>9, <1>10, <1>11, <1>13, <1>14, StepKept
<1>16. work'[s] = Called(w, v, 0, i)
  BY <1>9, <1>11 DEF Goes_on
<1>17. MapInv(s)' /\ Reached(work[s])' = Reached(work[s]) /\ c.index < Entries
  BY <1>1, <1>2, <1>4, <1>5, <1>6, <1>7, <1>10, <1>16, MapCalled
<1>18. PathInv(s)'
  BY <1>1, <1>2, <1>5, <1>6, <1>7, <1>8, <1>10, <1>13, <1>16, <1>17, PathCalled
<1>19. work'[s].op = "map" /\ work'[s].request = work[s].request
  BY <1>1, <1>9, <1>16
<1>20. WorkInv'
  BY <1>13, <1>15, <1>17, <1>18, <1>19 DEF OperationInv
<1>21. StackEnd(s)' = StackEnd(s)
  BY <1>17, <1>19 DEF StackEnd
<1>22. StackInv'
  BY <1>10, <1>15, <1>21, SameTables
<1>23. KernelGot'
  <2>1. CASE s = 1
    BY <1>5, <1>10, <1>13, <1>17, <1>19, <2>1 DEF KernelGot
  <2>2. CASE s # 1
    <3>1. work'[1] = work[1] /\ root # <<>>
      BY <1>11, <2>2, MapContext DEF Goes_on
    <3> QED BY <1>5, <1>10, <1>13, <2>2, <3>1, KernelKept DEF SpaceInv
  <2> QED BY <2>1, <2>2
<1> QED BY <1>12, <1>13, <1>15, <1>20, <1>22, <1>23 DEF SpaceInv

LEMMA MapGrow ==
    ASSUME SpaceInv, NEW s \in DOMAIN root, work[s].op = "map", work[s].level > 1, ~Ends(work[s]),
           Missing(mem[Top(work[s]).table][Top(work[s]).index]),
           Grow(s, Zero, "present", 0, page_table_index(work[s].page, work[s].level - 1)),
           Free("Kernel"), UNCHANGED <<memory, leftover, booted>>
    PROVE  SpaceInv'
<1>1. PICK w \in Operations : w = work[s]
  BY SpaceLaw DEF SpaceInv
<1>2. PICK c \in Activations : c = Top(w)
  BY OperationType
<1>3. PICK v \in Nat : v = Fresh
  BY TableLaw DEF SpaceInv
<1>4. PICK i : i = page_table_index(w.page, w.level - 1)
  OBVIOUS
<1>5. TypeInv /\ TreeInv /\ KernelInv /\ KernelGot /\ StackInv /\ ReserveInv /\ OrderInv /\ PathInv(s) /\ MapInv(s)
  BY MapContext DEF SpaceInv
<1>6. /\ c.table \in DOMAIN mem /\ c.index \in Slots /\ c.index < Entries
      /\ w.page < w.request.end
      /\ place[c.table].space = s /\ place[c.table].level = w.level
      /\ \A u \in DOMAIN mem : place[u] # Child(c.table, c.index)
  BY <1>1, <1>2, MapLinked
<1>7. w.level - 1 \in 1..Levels /\ w.page \in Nat /\ w.level > 1 /\ w.level \in 1..Levels
  BY <1>1, OperationType, Sizes
<1>8. i \in Nat /\ i \in 0..Entries
  BY <1>4, <1>7, PageIndex
<1>9. PICK x \in Operations : x = Called(w, v, 0, i) /\ x.op = w.op /\ x.request = w.request
  BY <1>7, <1>8, CalledLaw
<1>10. /\ memory' = memory /\ leftover' = leftover /\ booted' = booted
       /\ Grow(s, Zero, "present", 0, i) /\ Zero \in [Slots -> Entry]
  BY <1>1, <1>4, ZeroLaw
<1>11. /\ Grown(c.table, c.index, v) /\ mem'[v] = Zero /\ Touches(s) /\ TypeInv'
       /\ next_frame'["User"] = next_frame["User"] /\ Goes_on(s, x) /\ asked' = asked /\ fault' = fault
  BY <1>1, <1>2, <1>3, <1>5, <1>6, <1>7, <1>8, <1>9, <1>10, GrowLaw
<1>12. v \notin DOMAIN mem
  BY <1>3, <1>5, TableLaw
<1>13. /\ root' = root /\ DOMAIN mem' = DOMAIN mem \cup {v} /\ place'[v] = Child(c.table, c.index)
       /\ \A t \in DOMAIN mem : place'[t] = place[t] /\ (t # c.table => mem'[t] = mem[t])
       /\ \A j \in Slots : mem'[v][j] = Unused
  BY <1>11, ZeroLaw DEF Grown
<1>14. TreeInv'
  BY <1>5, <1>6, <1>7, <1>11, <1>12, <1>13, TreeGrown
<1>15. s = 1 => DOMAIN root \subseteq {1}
  BY MapContext
<1>16. /\ OrderInv' /\ ReserveSuffices' /\ (OperationInv(s)' => WorkInv')
       /\ \A r \in DOMAIN root : r # s => StackEnd(r)' = StackEnd(r)
  BY <1>1, <1>9, <1>10, <1>11, <1>13, <1>15, StepKept
<1>17. work'[s] = Called(w, v, 0, i)
  BY <1>9, <1>11 DEF Goes_on
<1>18. /\ MapInv(s)' /\ Reached(work[s])' = Reached(work[s])
       /\ place'[v].number = Prefix(w.page)[w.level - 1]
  BY <1>1, <1>2, <1>4, <1>5, <1>7, <1>10, <1>13, <1>17, MapCalled
<1>19. Stays
  BY <1>13 DEF Stays
<1>20. PathInv(s)'
  BY <1>1, <1>2, <1>5, <1>6, <1>7, <1>8, <1>13, <1>17, <1>19, PathCalled
<1>21. work'[s].op = "map" /\ work'[s].request = work[s].request
  BY <1>1, <1>9, <1>17
<1>22. place'[v].space = s /\ place'[v].level = w.level - 1
  <2>1. place'[v] = Placed(place[c.table].space, place[c.table].level - 1,
                           place[c.table].number * Entries + c.index)
    BY <1>13 DEF Child
  <2> QED BY <1>6, <2>1, PlacedLaw
<1>23. \A t \in DOMAIN mem : place[t].level = 1 => mem'[t] = mem[t]
  BY <1>6, <1>7, <1>13
<1>24. PICK p \in Nat : p = w.page /\ w.request \in Requests(s) /\ p \in w.request.start..w.request.end
                        /\ p < w.request.end /\ (s # 1 => p % Entries = 0)
  <2>1. /\ w.request \in Requests(s) /\ w.page \in w.request.start..w.request.end
        /\ (s # 1 => w.page % Entries = 0)
    BY <1>1, <1>5, <1>6 DEF MapInv
  <2> QED BY <1>6, <1>7, <2>1
<1>25. s # 1 => ~Below(place'[v])
  <2> SUFFICES ASSUME s # 1 PROVE ~Below(place'[v])
    OBVIOUS
  <2>1. StackPage <= p
    BY <1>5, <1>24, RequestLaw, StackLaw
  <2>2. w.level - 1 \in 0..Levels /\ StackPage \in Nat
    BY <1>7, StackLaw
  <2>3. Prefix(StackPage)[w.level - 1] <= Prefix(p)[w.level - 1]
    BY <2>1, <2>2, PrefixOrder
  <2>4. Prefix(StackPage)[w.level - 1] \in Nat /\ Prefix(p)[w.level - 1] \in Nat
    BY <2>2, PrefixNat
  <2> QED BY <1>18, <1>22, <1>24, <2>3, <2>4 DEF Below
<1>26. s = 1 => Below(place'[v])
  <2> SUFFICES ASSUME s = 1 PROVE Below(place'[v])
    OBVIOUS
  <2>1. p < StackPage
    BY <1>5, <1>24, RequestLaw, StackLaw
  <2>2. w.level - 1 \in 0..(Levels - 1) /\ w.level - 1 < Levels
    BY <1>7, Sizes
  <2> QED BY <1>18, <1>22, <1>24, <2>1, <2>2, BeforeStack DEF Below
<1>27. WorkInv'
  <2>1. s # 1 => CopiedInv(s)'
    <3> SUFFICES ASSUME s # 1 PROVE CopiedInv(s)'
      OBVIOUS
    <3>1. CopiedInv(s)
      BY MapContext
    <3> QED BY <1>5, <1>11, <1>13, <1>23, <1>25, <3>1, CopiedKept
  <2> QED BY <1>16, <1>18, <1>20, <1>21, <2>1 DEF OperationInv
<1>28. StackInv'
  <2>1. StackEnd(s)' = StackEnd(s) /\ StackEnd(s)' = w.page
    <3>1. Reached(w) = w.page /\ StackEnd(s) = Reached(work[s])
      BY <1>7 DEF Reached, StackEnd
    <3> QED BY <1>1, <1>18, <1>21, <3>1 DEF StackEnd
  <2>2. ASSUME NEW t \in DOMAIN mem, StackTable(t)
        PROVE  mem'[t] = mem[t] /\ StackEnd(place[t].space)' = StackEnd(place[t].space)
    <3>1. place[t].space \in DOMAIN root /\ place[t].level = 1
      BY <1>5, <2>2, TableLaw DEF StackTable
    <3>2. PICK r \in DOMAIN root : r = place[t].space /\ r = place'[t].space
      BY <1>13, <3>1
    <3>3. StackEnd(r)' = StackEnd(r)
      BY <1>16, <2>1
    <3>4. StackEnd(place[t].space)' = StackEnd(place[t].space)
      BY <3>2, <3>3 DEF StackEnd
    <3> QED BY <1>23, <3>1, <3>4
  <2>3. ASSUME NEW t \in DOMAIN mem', t \notin DOMAIN mem, StackTable(t)', NEW j \in Slots
        PROVE  mem'[t][j] = Unused /\ ~(place'[t].number * Entries + j < StackEnd(place[t].space)')
    <3>1. t = v /\ place'[v].level = 1 /\ s # 1
      BY <1>13, <1>22, <2>3 DEF StackTable
    <3>2. w.level - 1 = 1
      BY <1>22, <3>1
    <3>3. place'[v].number = Prefix(p)[1] /\ Prefix(p)[1] = p \div Entries
      BY <1>18, <1>24, <3>2, FirstIndex
    <3>4. PICK n \in Nat : n = place'[v].number /\ n * Entries = p
      <4>1. p \div Entries \in Nat /\ (p \div Entries) * Entries + (p % Entries) = p /\ p % Entries = 0
        BY <1>24, <3>1, FirstIndex
      <4>2. PICK n \in Nat : n = p \div Entries
        BY <4>1
      <4>3. n * Entries \in Nat /\ n * Entries + 0 = p
        BY <4>1, <4>2, Sizes
      <4>4. n * Entries = p
        BY <4>3
      <4> QED BY <3>3, <4>2, <4>4
    <3>5. ~(n * Entries + j < p)
      BY <3>4 DEF Slots
    <3>6. StackEnd(place[t].space)' = p
      BY <1>22, <1>24, <2>1, <3>1 DEF StackEnd
    <3> QED BY <1>13, <3>1, <3>4, <3>5, <3>6
  <2>4. \A r \in DOMAIN root' \ {1} : r \in DOMAIN root /\ StackEnd(r)' = StackEnd(r)
    BY <1>13, <1>16, <2>1
  <2>5. \A t \in DOMAIN mem : place'[t] = place[t]
    BY <1>13
  <2>6. DOMAIN mem \subseteq DOMAIN mem'
    BY <1>13
  <2> QED BY <1>5, <1>10, <1>11, <2>2, <2>3, <2>4, <2>5, <2>6, StackKept
<1>29. KernelInv' /\ KernelGot' /\ ReserveInv'
  <2>1. CASE s = 1
    <3>1. KernelInv'
      <4> SUFFICES ASSUME NEW t \in DOMAIN mem', place'[t].space = 1
                   PROVE  /\ place'[t].level < Levels => Below(place'[t])
                          /\ place'[t].level = 1 => \A j \in Slots :
                                \/ mem'[t][j] = Unused
                                \/ mem'[t][j].addr = place'[t].number * Entries + j /\ mem'[t][j].flags # "none"
        BY DEF KernelInv
      <4>1. CASE t = v
        BY <1>13, <1>26, <2>1, <4>1
      <4>2. CASE t # v
        <5>1. t \in DOMAIN mem /\ place'[t] = place[t]
          BY <1>13, <4>2
        <5> QED BY <1>5, <1>23, <5>1 DEF KernelInv
      <4> QED BY <4>1, <4>2
    <3>2. ASSUME NEW q, NEW a, Got(q, a) PROVE Got(q, a)'
      <4>1. PICK t \in DOMAIN mem :
            /\ place[t] = Placed(1, 1, q \div Entries)
            /\ mem[t][q % Entries].flags # "none"
            /\ a.flags = "no_cache" => mem[t][q % Entries].flags = "no_cache"
        BY <3>2 DEF Got
      <4>2. mem'[t] = mem[t] /\ place'[t] = place[t]
        BY <1>13, <1>23, <4>1, PlacedLaw
      <4> QED BY <1>13, <4>1, <4>2 DEF Got
    <3>3. KernelGot'
      BY <1>5, <1>11, <1>13, <1>18, <1>21, <2>1, <3>2 DEF KernelGot
    <3>4. ReserveInv'
      <4> SUFFICES ASSUME root # <<>>, asked[1] = {}, NEW t \in DOMAIN mem'
                   PROVE  place'[t].number <= Prefix(memory.phys_limit - 1)[place'[t].level]
        BY <1>10, <1>11, <1>13 DEF ReserveInv
      <4>1. CASE t = v
        <5>1. w.request = MemoryRequest /\ w.request.end = memory.phys_limit
          BY <1>1, <1>5, <2>1 DEF OrderInv, MemoryRequest, Request
        <5>2. memory.phys_limit - 1 \in Nat /\ p <= memory.phys_limit - 1 /\ w.level - 1 \in 0..Levels
          BY <1>5, <1>7, <1>24, <5>1, MemoryLaw
        <5>3. Prefix(p)[w.level - 1] <= Prefix(memory.phys_limit - 1)[w.level - 1]
          BY <5>2, PrefixOrder
        <5> QED BY <1>18, <1>22, <1>24, <4>1, <5>3
      <4>2. CASE t # v
        <5>1. t \in DOMAIN mem /\ place'[t] = place[t]
          BY <1>13, <4>2
        <5> QED BY <1>5, <5>1 DEF ReserveInv
      <4> QED BY <4>1, <4>2
    <3> QED BY <3>1, <3>3, <3>4
  <2>2. CASE s # 1
    <3>1. work'[1] = work[1] /\ root # <<>> /\ asked[1] # {}
      BY <1>11, <2>2, MapContext DEF Goes_on
    <3>2. KernelInv' /\ KernelGot'
      BY <1>5, <1>11, <2>2, <3>1, KernelKept
    <3>3. ReserveInv'
      BY <1>11, <3>1 DEF ReserveInv
    <3> QED BY <3>2, <3>3
  <2> QED BY <2>1, <2>2
<1> QED BY <1>11, <1>14, <1>16, <1>27, <1>28, <1>29 DEF SpaceInv

\* A step that changes at most whether the scheduler runs, and the fault.
LEMMA AllKept ==
    ASSUME SpaceInv, UNCHANGED <<memory, leftover, tables, root, asked, work>>,
           booted => booted', booted' \in BOOLEAN, fault' \in {"none", "exhausted"}, OrderInv', ReserveSuffices'
    PROVE  SpaceInv'
<1> USE DEF SpaceInv
<1>1. /\ mem' = mem /\ place' = place /\ next_frame' = next_frame /\ root' = root /\ asked' = asked
      /\ memory' = memory /\ leftover' = leftover /\ work' = work
  BY DEF tables
<1>2. TypeInv'
  <2>1. work \in Seq(Operations) /\ Len(work) = Len(root) /\ asked \in Seq(SUBSET Arguments)
        /\ Len(asked) = Len(root) /\ \A s \in DOMAIN root : asked[s] \subseteq Requests(s)
    BY DEF TypeInv
  <2> QED BY <1>1, <2>1, TypeWork
<1>3. \A r : StackEnd(r)' = StackEnd(r)
  BY <1>1, EndKept
<1>4. TreeInv' /\ KernelInv' /\ ReserveInv' /\ StackInv' /\ Touches(0)
  BY <1>1, <1>3, SameTables
<1>5. KernelGot'
  <2>1. CASE root = <<>>
    BY <1>1, <2>1 DEF KernelGot
  <2>2. CASE root # <<>>
    BY <1>1, <1>4, <2>2, KernelKept
  <2> QED BY <2>1, <2>2
<1>6. WorkInv'
  <2>1. \A r \in DOMAIN root : r # 0
    BY SpaceLaw
  <2>2. \A r \in DOMAIN root : OperationInv(r)'
    BY <1>1, <1>4, <2>1, OthersKept
  <2> QED BY <1>1, <2>2 DEF WorkInv
<1> QED BY <1>2, <1>4, <1>5, <1>6

LEMMA Stutter ==
    ASSUME SpaceInv, UNCHANGED vars
    PROVE  SpaceInv'
<1>1. /\ UNCHANGED <<memory, leftover, tables, root, asked, work>> /\ booted' = booted /\ fault' = fault
      /\ root' = root /\ asked' = asked /\ work' = work /\ memory' = memory
  BY DEF vars
<1>2. OrderInv' /\ ReserveSuffices'
  BY <1>1, OrderKept, CoversKept DEF SpaceInv
<1>3. booted' \in BOOLEAN /\ fault' \in {"none", "exhausted"}
  BY <1>1 DEF SpaceInv, TypeInv
<1> QED BY <1>1, <1>2, <1>3, AllKept

\* alloc() panics after memory is mapped.
LEMMA PanicKept ==
    ASSUME SpaceInv, Panic("exhausted"), UNCHANGED <<memory, leftover, booted>>,
           ~(\A s \in DOMAIN root : asked[s] = {} /\ s = 1)
    PROVE  SpaceInv'
<1>1. /\ UNCHANGED <<memory, leftover, tables, root, asked, work>> /\ booted' = booted
      /\ fault' = "exhausted" /\ root' = root /\ asked' = asked /\ work' = work /\ memory' = memory
  BY DEF Panic
<1>2. OrderInv'
  BY <1>1, OrderKept DEF SpaceInv
<1>3. ReserveSuffices'
  BY <1>1 DEF ReserveSuffices, ReserveCovers
<1>4. booted' \in BOOLEAN
  BY <1>1 DEF SpaceInv, TypeInv
<1> QED BY <1>1, <1>2, <1>3, <1>4, AllKept

LEMMA StartKept ==
    ASSUME SpaceInv, StartScheduler
    PROVE  SpaceInv'
<1>1. /\ UNCHANGED <<memory, leftover, tables, root, asked, work>> /\ booted' = TRUE
      /\ fault' = fault /\ root' = root /\ asked' = asked /\ work' = work /\ memory' = memory
      /\ root # <<>> /\ work[1].op = "idle"
  BY DEF StartScheduler
<1>2. OrderInv'
  BY <1>1 DEF SpaceInv, OrderInv, MemoryRequest
<1>3. ReserveSuffices' /\ fault' \in {"none", "exhausted"}
  BY <1>1, CoversKept DEF SpaceInv, TypeInv
<1> QED BY <1>1, <1>2, <1>3, AllKept

-----------------------------------------------------------------------------
(* Calls of map(). *)

\* A call of map() for the root table begins with the first page.
LEMMA MapStarts ==
    ASSUME TypeInv, NEW s, NEW r \in Requests(s), NEW f \in Nat, NEW w, w = map(f, r)
    PROVE  /\ w \in Operations /\ w.op = "map" /\ w.request = r /\ w.level = Levels /\ w.page = r.start
           /\ Top(w).table = f /\ Top(w).index \in Slots /\ Top(w).index = Prefix(r.start)[Levels - 1]
           /\ Reached(w) = r.start
<1>1. r \in Arguments /\ r.start \in Nat /\ r.end \in Nat /\ r.start < r.end /\ r.end <= StackPage + StackPages
  BY RequestLaw
<1>2. r.start \in Pages
  BY <1>1, StackLaw
<1>3. PICK i : i = page_table_index(r.start, Levels)
  OBVIOUS
<1>4. i \in Slots /\ i \in Nat /\ Prefix(r.start)[Levels] * Entries + i = Prefix(r.start)[Levels - 1]
  <2>1. Levels \in 1..Levels
    BY Sizes
  <2> QED BY <1>1, <1>3, <2>1, PageIndex
<1>5. i = Prefix(r.start)[Levels - 1]
  <2>1. Prefix(r.start)[Levels] = 0
    BY <1>2, RootPrefix
  <2>2. 0 * Entries + i = i
    BY <1>4, Sizes
  <2> QED BY <1>4, <2>1, <2>2
<1>6. Activation(f, 0, i) \in Activations /\ Activation(f, 0, i).table = f
      /\ Activation(f, 0, i).index = i
  BY <1>4, ActivationLaw
<1>7. w = Operation("map", r, Activation(f, 0, i))
  BY <1>3 DEF map
<1>8. /\ w \in Operations /\ w.op = "map" /\ w.request = r /\ w.level = Levels /\ w.page = r.start
      /\ w.path[Levels] = Activation(f, 0, i)
  BY <1>1, <1>6, <1>7, OperationLaw
<1>9. Top(w) = Activation(f, 0, i)
  BY <1>8 DEF Top
<1>10. Reached(w) = r.start
  BY <1>8, Sizes DEF Reached
<1> QED BY <1>4, <1>5, <1>6, <1>8, <1>9, <1>10

\* Such an operation is where it should be.
LEMMA MapStartInv ==
    ASSUME TypeInv, NEW s, NEW r \in Requests(s), NEW f \in Nat, memory' = memory,
           work'[s] = map(f, r), f \in DOMAIN mem', place'[f] = Placed(s, Levels, 0)
    PROVE  PathInv(s)' /\ MapInv(s)' /\ Reached(work[s])' = r.start /\ work'[s].op = "map"
           /\ work'[s].request = r /\ work'[s] \in Operations
<1>1. PICK w : w = map(f, r) /\ w = work'[s]
  OBVIOUS
<1>2. /\ w \in Operations /\ w.op = "map" /\ w.request = r /\ w.level = Levels /\ w.page = r.start
      /\ Top(w).table = f /\ Top(w).index \in Slots /\ Top(w).index = Prefix(r.start)[Levels - 1]
      /\ Reached(w) = r.start
  BY <1>1, MapStarts
<1>3. place'[f].space = s /\ place'[f].level = Levels /\ place'[f].number = 0
  BY PlacedLaw
<1>4. PathInv(s)'
  <2> SUFFICES ASSUME NEW l \in w.level..Levels PROVE OnPath(s, w, l)'
    BY <1>1 DEF PathInv
  <2>1. l = Levels /\ ~(l > w.level)
    BY <1>2, Sizes
  <2>2. w.path[l] = Top(w)
    BY <1>2, <2>1 DEF Top
  <2>3. Top(w).index \in 0..Entries
    BY <1>2, Sizes DEF Slots
  <2> QED BY <1>2, <1>3, <2>1, <2>2, <2>3 DEF OnPath
<1>5. r.start \in Nat /\ r.end \in Nat /\ r.start < r.end /\ (s # 1 => r.start = StackPage)
  BY RequestLaw
<1>6. s # 1 => r.start % Entries = 0
  BY <1>5, StackLaw
<1>7. Requests(s)' = Requests(s)
  BY DEF Requests, MemoryRequest
<1>8. place'[f].number * Entries + Top(w).index = Prefix(r.start)[Levels - 1]
  <2>1. PICK i \in Nat : i = Top(w).index
    BY <1>2, Sizes DEF Slots
  <2>2. 0 * Entries + i = i
    BY Sizes
  <2> QED BY <1>2, <1>3, <2>1, <2>2
<1>9. r.start \in r.start..r.end /\ Levels # 1 /\ Levels > 1 /\ r.start <= r.end
  BY <1>5, Sizes
<1>10. MapInv(s)'
  BY <1>1, <1>2, <1>5, <1>6, <1>7, <1>8, <1>9 DEF MapInv
<1>11. Reached(work[s])' = Reached(w)
  BY <1>1 DEF Reached, start_index, Top
<1> QED BY <1>1, <1>2, <1>4, <1>10, <1>11

\* A call of map() for an address space that is there.
LEMMA MapStart ==
    ASSUME SpaceInv, NEW s \in DOMAIN root, NEW r \in Requests(s), work[s].op = "idle",
           s = 1 => ~booted /\ r.flags = "no_cache",
           s # 1 => asked[s] = {},
           work' = [work EXCEPT ![s] = map(root[s], r)],
           UNCHANGED <<memory, leftover, tables, root, asked, booted, fault>>
    PROVE  SpaceInv'
<1>1. TypeInv /\ TreeInv /\ KernelInv /\ KernelGot /\ StackInv /\ WorkInv /\ OrderInv
  BY DEF SpaceInv
<1>2. PICK x \in Operations : x = map(root[s], r) /\ x.op = "map" /\ x.request = r
  BY <1>1, MapStarts, SpaceLaw
<1>3. /\ mem' = mem /\ place' = place /\ next_frame' = next_frame /\ root' = root /\ asked' = asked
      /\ memory' = memory /\ leftover' = leftover /\ booted' = booted /\ fault' = fault
      /\ work' = [work EXCEPT ![s] = x]
  BY <1>2 DEF tables
<1>4. work' \in Seq(Operations) /\ Len(work') = Len(root) /\ Goes_on(s, x)
  BY <1>1, <1>3, WorkExcept
<1>5. TypeInv'
  BY <1>1, <1>3, <1>4, TypeWork DEF TypeInv
<1>6. /\ TreeInv' /\ KernelInv' /\ Stays /\ Touches(s) /\ ReserveInv'
      /\ \A p, a : Got(p, a) => Got(p, a)'
      /\ \A q : q # 1 /\ CopiedInv(q) => CopiedInv(q)'
  BY <1>3, SameTables
<1>7. work'[s] = map(root[s], r)
  BY <1>2, <1>4 DEF Goes_on
<1>8. /\ PathInv(s)' /\ MapInv(s)' /\ Reached(work[s])' = r.start /\ work'[s].op = "map"
      /\ work'[s].request = r
  <2>1. root[s] \in Nat /\ root[s] \in DOMAIN mem /\ place[root[s]] = Placed(s, Levels, 0)
    BY <1>1, SpaceLaw DEF TreeInv, Roots
  <2> QED BY <1>1, <1>3, <1>7, <2>1, MapStartInv
<1>9. s = 1 => DOMAIN root \subseteq {1}
  BY <1>1, SpaceLaw DEF OrderInv
<1>10. WorkInv'
  <2>1. \A q \in DOMAIN root : q # s => OperationInv(q)'
    BY <1>3, <1>4, <1>6, <1>9, OthersKept DEF Goes_on
  <2>2. s # 1 => CopiedInv(s)
    BY <1>1 DEF WorkInv, OperationInv
  <2>3. OperationInv(s)'
    BY <1>6, <1>8, <2>2 DEF OperationInv
  <2> QED BY <1>3, <2>1, <2>3 DEF WorkInv
<1>11. root # <<>> /\ 1 \in DOMAIN root
  BY <1>1, SpaceLaw
<1>12. OrderInv'
  <2>1. CASE s = 1
    <3>1. asked[1] # {} /\ MemoryRequest \in asked[1]
      BY <1>1, <1>11, <2>1 DEF OrderInv
    <3>2. \A q \in DOMAIN root \ {1} : work'[q] = work[q]
      BY <1>4, <2>1 DEF Goes_on
    <3> QED BY <1>1, <1>3, <1>8, <1>11, <2>1, <3>1, <3>2 DEF OrderInv, MemoryRequest
  <2>2. CASE s # 1
    <3>1. \A q \in DOMAIN root : q # s => work'[q] = work[q]
      BY <1>4 DEF Goes_on
    <3>2. work'[1] = work[1]
      BY <1>11, <2>2, <3>1
    <3> QED BY <1>1, <1>3, <1>8, <2>2, <3>1, <3>2 DEF OrderInv, MemoryRequest
  <2> QED BY <2>1, <2>2
<1>13. ReserveSuffices'
  BY <1>3, CoversKept DEF SpaceInv
<1>14. StackInv'
  <2>1. ASSUME NEW q \in DOMAIN root \ {1} PROVE StackEnd(q)' = StackEnd(q)
    <3>1. CASE q = s
      <4>1. StackEnd(s)' = r.start
        BY <1>8 DEF StackEnd
      <4>2. r.start = StackPage /\ StackEnd(s) = StackPage
        BY <1>1, <3>1, RequestLaw DEF StackEnd
      <4> QED BY <3>1, <4>1, <4>2
    <3>2. CASE q # s
      BY <1>3, <1>4, <3>2, EndKept DEF Goes_on
    <3> QED BY <3>1, <3>2
  <2> QED BY <1>3, <2>1, SameTables
<1>15. KernelGot'
  <2>1. CASE s = 1
    <3>1. \A p \in r.start..(r.start - 1) : FALSE
      BY <1>1, RequestLaw
    <3>2. \A a \in asked'[1] : \A p \in a.start..(a.end - 1) : Got(p, a)'
      BY <1>1, <1>3, <1>6, <1>11 DEF KernelGot
    <3> QED BY <1>8, <2>1, <3>1, <3>2 DEF KernelGot
  <2>2. CASE s # 1
    <3>1. work'[1] = work[1]
      BY <1>4, <1>11, <2>2 DEF Goes_on
    <3> QED BY <1>1, <1>3, <1>6, <1>11, <2>2, <3>1, KernelKept
  <2> QED BY <2>1, <2>2
<1> QED BY <1>5, <1>6, <1>10, <1>12, <1>13, <1>14, <1>15 DEF SpaceInv

-----------------------------------------------------------------------------
(* Pages. *)

\* The page that the loop of the last level maps next.
LEMMA MapWrites ==
    ASSUME SpaceInv, NEW s \in DOMAIN root, work[s].op = "map", work[s].level = 1, Writes(work[s]),
           memory' = memory, place' = place, DOMAIN mem' = DOMAIN mem, work'[s] = NextRound(work[s])
    PROVE  LET w == work[s]
               c == Top(w)
           IN  /\ c.table \in DOMAIN mem /\ c.index \in Slots /\ c.index < Entries
               /\ place[c.table].space = s /\ place[c.table].level = 1 /\ place[c.table].number \in Nat
               /\ w.request \in Requests(s) /\ w.page \in Nat
               /\ (s = 1 => Below(place[c.table])) /\ (s # 1 => StackTable(c.table))
               /\ Reached(w) = w.page + (c.index - start_index(w))
               /\ Reached(w) = place[c.table].number * Entries + c.index
               /\ Reached(w) \in Nat
               /\ PathInv(s)' /\ MapInv(s)'
               /\ Reached(work[s])' = Reached(work[s]) + 1
               /\ work'[s].op = "map" /\ work'[s].request = w.request
               /\ s # 1 => Reached(w) + 1 <= w.request.end
<1>0. TypeInv /\ PathInv(s) /\ MapInv(s)
  BY MapContext DEF SpaceInv
<1>1. PICK w \in Operations : w = work[s]
  BY <1>0, SpaceLaw
<1>2. PICK c \in Activations : c = Top(w)
  BY OperationType
<1>3. /\ w.level = 1 /\ c.table \in DOMAIN mem /\ c.index \in Nat /\ c.index < Entries /\ c.index \in Slots
      /\ place[c.table].space = s /\ place[c.table].level = 1 /\ place[c.table].number \in Nat
  BY <1>0, <1>1, <1>2, TopLaw, Sizes DEF Writes, Slots
<1>4. /\ w.page < w.request.end /\ place[c.table].number = Prefix(w.page)[1] /\ c.index >= start_index(w)
      /\ w.page \in Nat /\ w.request.end \in Nat /\ w.request \in Requests(s)
      /\ s # 1 => w.page % Entries = 0
      /\ w.page \in w.request.start..w.request.end
  BY <1>0, <1>1, <1>2, <1>3, OperationType DEF MapInv, Arguments
<1>5. PICK i \in Nat, a \in Nat :
        /\ i = start_index(w) /\ i = w.page % Entries /\ a = alloc_count(w)
        /\ w.page + a <= w.request.end
  BY <1>4, AllocCount
<1>6. PICK n \in Nat : n = place[c.table].number /\ n * Entries + i = w.page
  BY <1>3, <1>4, <1>5, FirstIndex
<1>7. Reached(w) = w.page + (c.index - i)
  BY <1>2, <1>3, <1>5 DEF Reached
<1>8. Reached(w) = n * Entries + c.index /\ Reached(w) \in Nat
  <2>1. n * Entries \in Nat
    BY Sizes
  <2> QED BY <1>3, <1>4, <1>5, <1>6, <1>7, <2>1
<1>9. s # 1 => Reached(w) + 1 <= w.request.end
  <2> SUFFICES ASSUME s # 1 PROVE Reached(w) + 1 <= w.request.end
    OBVIOUS
  <2>1. i = 0
    BY <1>4, <1>5
  <2>2. c.index - i < i + a
    BY <1>1, <1>2, <1>5 DEF Writes
  <2> QED BY <1>3, <1>4, <1>5, <1>7, <2>1, <2>2
<1>10. PICK x \in Operations : x = work'[s] /\ x = NextRound(w)
  BY <1>1, NextRoundLaw
<1>11. /\ x.op = "map" /\ x.request = w.request /\ x.page = w.page /\ x.level = 1
       /\ Top(x) = Activation(c.table, c.source, c.index + 1)
  <2>1. /\ x.op = w.op /\ x.request = w.request /\ x.page = w.page /\ x.level = w.level
        /\ x.path[w.level] = Activation(c.table, c.source, c.index + 1)
    BY <1>2, <1>10, NextRoundLaw
  <2> QED BY <1>1, <1>3, <2>1 DEF Top
<1>12. Top(x).table = c.table /\ Top(x).index = c.index + 1
  BY <1>11 DEF Activation
<1>13. start_index(x) = i
  BY <1>5, <1>11 DEF start_index
<1>14. Reached(x) = Reached(w) + 1
  <2>1. Reached(x) = w.page + ((c.index + 1) - i)
    BY <1>11, <1>12, <1>13 DEF Reached
  <2> QED BY <1>3, <1>4, <1>7, <2>1
<1>15. Requests(s)' = Requests(s)
  BY DEF Requests, MemoryRequest
<1>16. MapInv(s)'
  <2>1. c.index + 1 >= i
    BY <1>3, <1>4, <1>5
  <2> QED BY <1>4, <1>9, <1>10, <1>11, <1>12, <1>13, <1>14, <1>15, <2>1 DEF MapInv
<1>17. PathInv(s)'
  <2>1. Stays
    BY DEF Stays
  <2> QED BY <1>0, <1>1, <1>2, <1>3, <1>10, <2>1, PathNext
<1>18. (s # 1 => ~Below(place[c.table])) /\ (s = 1 => Below(place[c.table]))
  BY <1>0, <1>1, <1>2, <1>3, <1>4, MapNumber, Sizes
<1>19. s # 1 => StackTable(c.table)
  BY <1>3, <1>18 DEF StackTable
<1>20. Reached(work[s])' = Reached(x)
  BY <1>10 DEF Reached, start_index, Top
<1>22. /\ Reached(w) = w.page + (c.index - start_index(w))
       /\ Reached(w) = place[c.table].number * Entries + c.index
  BY <1>5, <1>6, <1>7, <1>8
<1> QED BY <1>1, <1>2, <1>3, <1>4, <1>8, <1>9, <1>10, <1>11, <1>14, <1>16, <1>17, <1>18, <1>19, <1>20, <1>22

\* A page of the kernel.
LEMMA MapPageKernel ==
    ASSUME SpaceInv, NEW s \in DOMAIN root, work[s].op = "map", work[s].level = 1, Writes(work[s]),
           work[s].request.space # "User",
           mem' = SetEntry(mem, Top(work[s]).table, Top(work[s]).index,
                           work[s].page + (Top(work[s]).index - start_index(work[s])), work[s].request.flags),
           work' = [work EXCEPT ![s] = NextRound(work[s])],
           UNCHANGED <<memory, leftover, booted, next_frame, place, root, asked, fault>>
    PROVE  SpaceInv'
<1>1. TypeInv /\ TreeInv /\ KernelInv /\ KernelGot /\ StackInv /\ OrderInv /\ ReserveInv
  BY DEF SpaceInv
<1>2. PICK w \in Operations : w = work[s]
  BY <1>1, SpaceLaw
<1>3. PICK c \in Activations : c = Top(w)
  BY OperationType
<1>4. PICK x \in Operations : x = NextRound(w) /\ x.op = w.op /\ x.request = w.request
  BY NextRoundLaw
<1>5. /\ place' = place /\ next_frame' = next_frame /\ root' = root /\ asked' = asked
      /\ memory' = memory /\ leftover' = leftover /\ booted' = booted /\ fault' = fault
      /\ work' = [work EXCEPT ![s] = x]
  BY <1>2, <1>4
<1>6. work' \in Seq(Operations) /\ Len(work') = Len(root) /\ Goes_on(s, x)
  BY <1>1, <1>5, WorkExcept
<1>7. work'[s] = NextRound(work[s])
  BY <1>2, <1>4, <1>6 DEF Goes_on
<1>8. PathInv(s) /\ w.request \in Requests(s)
  BY <1>2, MapContext DEF MapInv
<1>9. s = 1
  BY <1>1, <1>2, <1>8, RequestLaw
<1>10. c.table \in DOMAIN mem /\ c.index \in Slots
  BY <1>1, <1>2, <1>3, <1>8, TopLaw, Sizes DEF Slots, Writes
<1>11. w.request.flags \in {"present", "no_cache"} /\ w.request.flags \in Flag
  BY <1>1, <1>8, RequestLaw DEF Flag
<1>12. PICK f : f = w.page + (c.index - start_index(w))
  OBVIOUS
<1>13. f \in Nat
  <2>1. w.page \in Nat /\ c.index \in Nat
    BY <1>3, OperationType DEF Activations
  <2>2. start_index(w) \in Nat
    BY <2>1, FirstIndex DEF start_index
  <2>3. MapInv(s)
    BY MapContext
  <2>4. c.index >= start_index(w)
    BY <1>2, <1>3, <2>3 DEF MapInv
  <2> QED BY <1>12, <2>1, <2>2, <2>4
<1>14. mem' = SetEntry(mem, c.table, c.index, f, w.request.flags)
  BY <1>2, <1>3, <1>12
<1>15. /\ mem' \in [DOMAIN mem -> [Slots -> Entry]]
       /\ \A t \in DOMAIN mem : t # c.table => mem'[t] = mem[t]
       /\ \A i \in Slots : mem'[c.table][i] = IF i = c.index THEN [addr |-> f, flags |-> w.request.flags] ELSE mem[c.table][i]
  <2>1. mem \in [DOMAIN mem -> [Slots -> Entry]]
    BY <1>1, TableLaw DEF TypeInv
  <2> QED BY <1>10, <1>11, <1>13, <1>14, <2>1, SetEntryLaw
<1>16. DOMAIN mem' = DOMAIN mem
  BY <1>15
<1>17. /\ place[c.table].space = s /\ place[c.table].level = 1 /\ place[c.table].number \in Nat
       /\ f = Reached(w) /\ f = place[c.table].number * Entries + c.index
       /\ PathInv(s)' /\ MapInv(s)' /\ Reached(work[s])' = f + 1
       /\ work'[s].op = "map" /\ work'[s].request = w.request
  BY <1>2, <1>3, <1>5, <1>7, <1>12, <1>16, MapWrites
<1>18. TypeInv' /\ Touches(s) /\ Leafwise
  <2>1. /\ next_frame' \in [{"Kernel", "User"} -> Nat] /\ next_frame'["Kernel"] = next_frame["Kernel"]
        /\ next_frame'["User"] \in memory.kernel_phys_limit..memory.phys_limit
    BY <1>1, <1>5 DEF TypeInv
  <2>2. PICK m : m = mem'
    OBVIOUS
  <2> QED BY <1>1, <1>5, <1>6, <1>10, <1>15, <1>17, <2>1, <2>2, WriteLaw
<1>19. TreeInv'
  BY <1>1, <1>18, TreeLeafwise
<1>20. DOMAIN root = {1} /\ root # <<>>
  BY <1>1, <1>9, MapContext
<1>21. OrderInv' /\ ReserveSuffices' /\ (OperationInv(s)' => WorkInv')
  BY <1>2, <1>4, <1>5, <1>6, <1>18, <1>20, StepKept
<1>22. WorkInv'
  BY <1>9, <1>17, <1>21 DEF OperationInv
<1>23. KernelInv'
  <2> SUFFICES ASSUME NEW t \in DOMAIN mem, place[t].space = 1
               PROVE  /\ place[t].level < Levels => Below(place[t])
                      /\ place[t].level = 1 => \A i \in Slots :
                            \/ mem'[t][i] = Unused
                            \/ mem'[t][i].addr = place[t].number * Entries + i /\ mem'[t][i].flags # "none"
    BY <1>5, <1>16 DEF KernelInv
  <2>1. place[t].level < Levels => Below(place[t])
    BY <1>1 DEF KernelInv
  <2>2. ASSUME place[t].level = 1, NEW i \in Slots
        PROVE  \/ mem'[t][i] = Unused
               \/ mem'[t][i].addr = place[t].number * Entries + i /\ mem'[t][i].flags # "none"
    <3>1. CASE t = c.table /\ i = c.index
      <4>1. mem'[t][i].addr = f /\ mem'[t][i].flags = w.request.flags
        BY <1>15, <3>1
      <4> QED BY <1>11, <1>17, <3>1, <4>1
    <3>2. CASE ~(t = c.table /\ i = c.index)
      <4>1. mem'[t][i] = mem[t][i]
        BY <1>15, <3>2
      <4> QED BY <1>1, <2>2, <4>1 DEF KernelInv
    <3> QED BY <3>1, <3>2
  <2> QED BY <2>1, <2>2
<1>24. ASSUME NEW p, NEW a, Got(p, a), p % Entries \in Slots, a.flags = "no_cache" => w.request.flags = "no_cache"
       PROVE  Got(p, a)'
  <2>1. PICK t \in DOMAIN mem :
        /\ place[t] = Placed(1, 1, p \div Entries)
        /\ mem[t][p % Entries].flags # "none"
        /\ a.flags = "no_cache" => mem[t][p % Entries].flags = "no_cache"
    BY <1>24 DEF Got
  <2>2. mem'[t][p % Entries].flags = w.request.flags \/ mem'[t][p % Entries] = mem[t][p % Entries]
    BY <1>15, <1>24
  <2> QED BY <1>5, <1>11, <1>16, <1>24, <2>1, <2>2 DEF Got
<1>25. Got(f, w.request)'
  <2>1. f \div Entries = place[c.table].number /\ f % Entries = c.index
    BY <1>10, <1>17, DivMod
  <2>2. place[c.table] = Placed(1, 1, f \div Entries)
    BY <1>1, <1>9, <1>10, <1>17, <2>1, TableLaw
  <2>3. mem'[c.table][f % Entries].flags = w.request.flags
    BY <1>10, <1>15, <2>1
  <2> QED BY <1>5, <1>10, <1>11, <1>16, <2>2, <2>3 DEF Got
<1>26. KernelGot'
  <2>1. ASSUME NEW a \in asked[1], NEW p \in a.start..(a.end - 1) PROVE Got(p, a)'
    <3>1. w.request.flags = "no_cache"
      BY <1>1, <1>2, <1>9, <1>20, <2>1 DEF OrderInv
    <3>2. p \in Nat
      <4>1. a \in Arguments
        BY <1>1, <1>9, SpaceLaw
      <4> QED BY <2>1, <4>1 DEF Arguments
    <3>3. Got(p, a)
      BY <1>1, <1>20, <2>1 DEF KernelGot
    <3> QED BY <1>24, <3>1, <3>2, <3>3, FirstIndex
  <2>2. ASSUME NEW p \in w.request.start..((f + 1) - 1) PROVE Got(p, w.request)'
    <3>1. p \in Nat
      <4>1. w.request.start \in Nat
        BY <1>1, <1>8, RequestLaw
      <4> QED BY <1>13, <2>2, <4>1
    <3>2. CASE p = f
      BY <1>25, <3>2
    <3>3. CASE p # f
      <4>1. p \in w.request.start..(Reached(w) - 1)
        BY <1>13, <1>17, <2>2, <3>1, <3>3
      <4>2. Got(p, w.request)
        BY <1>1, <1>2, <1>9, <1>20, <4>1 DEF KernelGot
      <4> QED BY <1>24, <3>1, <4>2, FirstIndex
    <3> QED BY <3>2, <3>3
  <2>3. work'[1].request = w.request /\ Reached(work[1])' = f + 1
    BY <1>9, <1>17
  <2>4. \A p \in work'[1].request.start..(Reached(work[1])' - 1) : Got(p, work[1].request)'
    BY <2>2, <2>3 DEF Got
  <2> QED BY <1>5, <2>1, <2>4 DEF KernelGot
<1>27. StackInv'
  <2>1. ASSUME NEW t \in DOMAIN mem, StackTable(t) PROVE FALSE
    BY <1>1, <1>20, <2>1, TableLaw DEF StackTable
  <2> QED BY <1>1, <1>5, <1>16, <1>20, <2>1, StackKept
<1>28. ReserveInv'
  BY <1>1, <1>5, <1>16 DEF ReserveInv
<1> QED BY <1>18, <1>19, <1>21, <1>22, <1>23, <1>26, <1>27, <1>28 DEF SpaceInv

\* A page of a stack.
LEMMA MapPageUser ==
    ASSUME SpaceInv, NEW s \in DOMAIN root, work[s].op = "map", work[s].level = 1, Writes(work[s]),
           work[s].request.space = "User", Free("User"),
           mem' = SetEntry(mem, Top(work[s]).table, Top(work[s]).index,
                           next_frame["User"], work[s].request.flags),
           work' = [work EXCEPT ![s] = NextRound(work[s])], alloc("User"),
           UNCHANGED <<memory, leftover, booted, place, root, asked, fault>>
    PROVE  SpaceInv'
<1>1. TypeInv /\ TreeInv /\ KernelInv /\ KernelGot /\ StackInv /\ OrderInv /\ ReserveInv
  BY DEF SpaceInv
<1>2. PICK w \in Operations : w = work[s]
  BY <1>1, SpaceLaw
<1>3. PICK c \in Activations : c = Top(w)
  BY OperationType
<1>4. PICK x \in Operations : x = NextRound(w) /\ x.op = w.op /\ x.request = w.request
  BY NextRoundLaw
<1>5. /\ place' = place /\ root' = root /\ asked' = asked
      /\ memory' = memory /\ leftover' = leftover /\ booted' = booted /\ fault' = fault
      /\ work' = [work EXCEPT ![s] = x]
  BY <1>2, <1>4
<1>6. work' \in Seq(Operations) /\ Len(work') = Len(root) /\ Goes_on(s, x)
  BY <1>1, <1>5, WorkExcept
<1>7. work'[s] = NextRound(work[s])
  BY <1>2, <1>4, <1>6 DEF Goes_on
<1>8. PathInv(s) /\ w.request \in Requests(s)
  BY <1>2, MapContext DEF MapInv
<1>9. s # 1 /\ w.request = StackRequest /\ w.request.flags = "present" /\ "present" \in Flag
  BY <1>1, <1>2, <1>8, RequestLaw DEF Flag
<1>10. c.table \in DOMAIN mem /\ c.index \in Slots
  BY <1>1, <1>2, <1>3, <1>8, TopLaw, Sizes DEF Slots, Writes
<1>11. PICK f \in Nat : f = next_frame["User"]
  BY <1>1 DEF TypeInv
<1>12. /\ memory.kernel_phys_limit \in Nat /\ memory.phys_limit \in Nat
       /\ memory.kernel_phys_limit <= f /\ f < memory.phys_limit /\ memory.kernel_phys_limit > 0
  <2>1. memory.kernel_phys_limit \in Nat /\ memory.phys_limit \in Nat /\ memory.kernel_phys_limit > 0
    BY <1>1, MemoryLaw
  <2>2. f \in memory.kernel_phys_limit..memory.phys_limit
    BY <1>1, <1>11 DEF TypeInv
  <2>3. f # memory.phys_limit
    BY <1>11 DEF Free, PoolEnd
  <2> QED BY <2>1, <2>2, <2>3
<1>13. /\ next_frame' \in [{"Kernel", "User"} -> Nat] /\ next_frame'["Kernel"] = next_frame["Kernel"]
       /\ next_frame'["User"] = f + 1
       /\ next_frame'["User"] \in memory.kernel_phys_limit..memory.phys_limit
  <2>1. next_frame \in [{"Kernel", "User"} -> Nat]
    BY <1>1 DEF TypeInv
  <2> QED BY <1>11, <1>12, <2>1 DEF alloc
<1>14. mem' = SetEntry(mem, c.table, c.index, f, "present")
  BY <1>2, <1>3, <1>9, <1>11
<1>15. /\ mem' \in [DOMAIN mem -> [Slots -> Entry]]
       /\ \A t \in DOMAIN mem : t # c.table => mem'[t] = mem[t]
       /\ \A i \in Slots : mem'[c.table][i] = IF i = c.index THEN [addr |-> f, flags |-> "present"] ELSE mem[c.table][i]
  <2>1. mem \in [DOMAIN mem -> [Slots -> Entry]]
    BY <1>1, TableLaw DEF TypeInv
  <2> QED BY <1>9, <1>10, <1>14, <2>1, SetEntryLaw
<1>16. DOMAIN mem' = DOMAIN mem
  BY <1>15
<1>17. PICK n \in Nat :
       /\ n = place[c.table].number
       /\ place[c.table].space = s /\ place[c.table].level = 1 /\ StackTable(c.table)
       /\ Reached(w) = n * Entries + c.index /\ Reached(w) \in Nat
       /\ PathInv(s)' /\ MapInv(s)' /\ Reached(work[s])' = Reached(w) + 1
       /\ work'[s].op = "map" /\ work'[s].request = w.request
  BY <1>2, <1>3, <1>5, <1>7, <1>9, <1>16, MapWrites
<1>18. TypeInv' /\ Touches(s) /\ Leafwise
  <2>2. PICK m : m = mem'
    OBVIOUS
  <2> QED BY <1>1, <1>5, <1>6, <1>10, <1>13, <1>15, <1>17, <2>2, WriteLaw
<1>19. TreeInv'
  BY <1>1, <1>18, TreeLeafwise
<1>20. /\ OrderInv' /\ ReserveSuffices' /\ (OperationInv(s)' => WorkInv')
       /\ \A r \in DOMAIN root : r # s => StackEnd(r)' = StackEnd(r)
  BY <1>2, <1>4, <1>5, <1>6, <1>9, <1>18, StepKept
<1>21. CopiedInv(s)'
  <2>1. ASSUME NEW u \in DOMAIN mem, Below(place[u]) PROVE mem'[u] = mem[u]
    BY <1>15, <1>17, <2>1 DEF StackTable
  <2> QED BY <1>1, <1>9, <1>16, <1>18, <2>1, MapContext, CopiedKept
<1>22. WorkInv'
  BY <1>9, <1>17, <1>20, <1>21 DEF OperationInv
<1>23. KernelInv' /\ KernelGot'
  <2>1. 1 \in DOMAIN root /\ root # <<>>
    BY <1>9, MapContext
  <2>2. work'[1] = work[1] /\ asked'[1] = asked[1]
    BY <1>5, <1>6, <1>9, <2>1 DEF Goes_on
  <2> QED BY <1>1, <1>9, <1>18, <2>1, <2>2, KernelKept
<1>24. StackEnd(s) = n * Entries + c.index /\ StackEnd(s)' = n * Entries + c.index + 1 /\ n * Entries \in Nat
  <2>1. n * Entries \in Nat
    BY Sizes
  <2> QED BY <1>2, <1>17, <2>1 DEF StackEnd
<1>25. \A t \in DOMAIN mem : StackTable(t)' <=> StackTable(t)
  BY <1>5 DEF StackTable, Below
<1>26. mem[c.table][c.index] = Unused
  <2>1. ~(place[c.table].number * Entries + c.index < StackEnd(place[c.table].space))
    BY <1>10, <1>17, <1>24 DEF Slots
  <2> QED BY <1>1, <1>10, <1>17, <2>1 DEF StackInv, StackEntries
<1>27. ASSUME NEW t \in DOMAIN mem, NEW i \in Slots, ~(t = c.table /\ i = c.index)
       PROVE  /\ mem'[t][i] = mem[t][i]
              /\ StackTable(t) => (place[t].number * Entries + i < StackEnd(place[t].space)' <=>
                                   place[t].number * Entries + i < StackEnd(place[t].space))
  <2>1. mem'[t][i] = mem[t][i]
    BY <1>15, <1>27
  <2>2. ASSUME StackTable(t), place[t].space = s
        PROVE  place[t].number * Entries + i # n * Entries + c.index
    <3>1. SUFFICES ASSUME place[t].number * Entries + i = n * Entries + c.index PROVE FALSE
      OBVIOUS
    <3>2. PICK k \in Nat : k = place[t].number
      BY <1>1, TableLaw
    <3>3. k = n /\ i = c.index
      BY <1>10, <3>1, <3>2, DivMod
    <3>4. place[t] = place[c.table]
      BY <1>1, <1>10, <1>17, <2>2, <3>2, <3>3, TableLaw DEF StackTable
    <3> QED BY <1>1, <1>10, <1>27, <3>3, <3>4 DEF TreeInv, Distinct
  <2>3. ASSUME StackTable(t), place[t].space = s
        PROVE  place[t].number * Entries + i < StackEnd(s)' <=> place[t].number * Entries + i < StackEnd(s)
    <3>1. PICK k \in Nat : k = place[t].number * Entries + i
      BY <1>1, TableLaw, DivMod
    <3>2. PICK j \in Nat : j = n * Entries + c.index
      BY <1>10, DivMod
    <3>3. k # j /\ StackEnd(s) = j /\ StackEnd(s)' = j + 1
      BY <1>24, <2>2, <2>3, <3>1, <3>2
    <3> QED BY <3>1, <3>3
  <2>4. ASSUME StackTable(t), place[t].space # s
        PROVE  StackEnd(place[t].space)' = StackEnd(place[t].space)
    <3>1. PICK r \in DOMAIN root : r = place[t].space
      BY <1>1, TableLaw
    <3>2. StackEnd(r)' = StackEnd(r)
      BY <1>20, <2>4, <3>1
    <3> QED BY <1>5, <3>1, <3>2
  <2>5. StackTable(t) => (place[t].number * Entries + i < StackEnd(place[t].space)' <=>
                          place[t].number * Entries + i < StackEnd(place[t].space))
    BY <2>3, <2>4
  <2> QED BY <2>1, <2>5
<1>28. StackEntries'
  <2> SUFFICES ASSUME NEW t \in DOMAIN mem, StackTable(t), NEW i \in Slots
               PROVE  IF place[t].number * Entries + i < StackEnd(place[t].space)'
                      THEN mem'[t][i].flags = "present"
                           /\ mem'[t][i].addr \in memory.kernel_phys_limit..(next_frame'["User"] - 1)
                      ELSE mem'[t][i] = Unused
    BY <1>5, <1>16, <1>25 DEF StackEntries
  <2>1. CASE t = c.table /\ i = c.index
    <3>1. mem'[t][i].flags = "present" /\ mem'[t][i].addr = f
      BY <1>10, <1>15, <2>1
    <3>2. f \in memory.kernel_phys_limit..(next_frame'["User"] - 1)
      BY <1>11, <1>12, <1>13
    <3>3. place[t].number * Entries + i < StackEnd(place[t].space)'
      <4>1. PICK j \in Nat : j = n * Entries + c.index
        BY <1>10, DivMod
      <4>2. StackEnd(place[t].space)' = j + 1
        BY <1>17, <1>24, <2>1, <4>1
      <4> QED BY <1>17, <2>1, <4>1, <4>2
    <3> QED BY <3>1, <3>2, <3>3
  <2>2. CASE ~(t = c.table /\ i = c.index)
    <3>1. IF place[t].number * Entries + i < StackEnd(place[t].space)
          THEN mem[t][i].flags = "present"
               /\ mem[t][i].addr \in memory.kernel_phys_limit..(next_frame["User"] - 1)
          ELSE mem[t][i] = Unused
      BY <1>1 DEF StackInv, StackEntries
    <3>2. memory.kernel_phys_limit..(next_frame["User"] - 1) \subseteq memory.kernel_phys_limit..(next_frame'["User"] - 1)
      BY <1>11, <1>12, <1>13
    <3> QED BY <1>27, <2>2, <3>1, <3>2
  <2> QED BY <2>1, <2>2
<1>29. ASSUME NEW t \in DOMAIN mem, NEW i \in Slots, StackTable(t)
       PROVE  mem[t][i].addr # f
  <2>1. mem[t][i].addr \in memory.kernel_phys_limit..(next_frame["User"] - 1) \/ mem[t][i] = Unused
    BY <1>1, <1>29 DEF StackInv, StackEntries
  <2> QED BY <1>11, <1>12, <2>1, ZeroLaw
<1>30. StackFrames'
  <2> SUFFICES ASSUME NEW t \in DOMAIN mem, NEW u \in DOMAIN mem, StackTable(t), StackTable(u),
                      NEW i \in Slots, NEW j \in Slots, mem'[t][i] = mem'[u][j], mem'[t][i] # Unused
               PROVE  t = u /\ i = j
    BY <1>16, <1>25 DEF StackFrames
  <2>1. mem'[c.table][c.index].addr = f
    BY <1>10, <1>15
  <2>2. CASE t = c.table /\ i = c.index
    BY <1>27, <1>29, <2>1, <2>2
  <2>3. CASE u = c.table /\ j = c.index
    BY <1>27, <1>29, <2>1, <2>3
  <2>4. CASE ~(t = c.table /\ i = c.index) /\ ~(u = c.table /\ j = c.index)
    BY <1>1, <1>27, <2>4 DEF StackInv, StackFrames
  <2> QED BY <2>2, <2>3, <2>4
<1>31. StackTaken'
  <2> SUFFICES ASSUME NEW g \in memory.kernel_phys_limit..((f + 1) - 1)
               PROVE  \E t \in DOMAIN mem : StackTable(t) /\ \E i \in Slots : mem'[t][i].addr = g
    BY <1>5, <1>13, <1>16, <1>25 DEF StackTaken
  <2>1. CASE g = f
    <3>1. mem'[c.table][c.index].addr = f
      BY <1>10, <1>15
    <3> QED BY <1>10, <1>17, <2>1, <3>1
  <2>2. CASE g # f
    <3>1. g \in memory.kernel_phys_limit..(next_frame["User"] - 1) /\ g # 0
      BY <1>11, <1>12, <2>2
    <3>2. PICK t \in DOMAIN mem, i \in Slots : StackTable(t) /\ mem[t][i].addr = g
      BY <1>1, <3>1 DEF StackInv, StackTaken
    <3>3. ~(t = c.table /\ i = c.index)
      BY <1>26, <3>1, <3>2, ZeroLaw
    <3> QED BY <1>27, <3>2, <3>3
  <2> QED BY <2>1, <2>2
<1>32. StackMapped'
  <2> SUFFICES ASSUME NEW r \in DOMAIN root \ {1}, NEW p \in StackPage..(StackEnd(r)' - 1)
               PROVE  \E t \in DOMAIN mem : place[t] = Placed(r, 1, p \div Entries)
    BY <1>5, <1>16 DEF StackMapped
  <2>1. CASE p \in StackPage..(StackEnd(r) - 1)
    BY <1>1, <2>1 DEF StackInv, StackMapped
  <2>2. CASE p \notin StackPage..(StackEnd(r) - 1)
    <3>1. r = s
      BY <1>20, <2>2
    <3>2. PICK j \in Nat : j = n * Entries + c.index
      BY <1>10, DivMod
    <3>3. StackEnd(r) = j /\ StackEnd(r)' = j + 1
      BY <1>24, <3>1, <3>2
    <3>4. p = n * Entries + c.index
      BY <2>2, <3>2, <3>3, StackLaw
    <3>5. p \div Entries = n
      BY <1>10, <3>4, DivMod
    <3> QED BY <1>1, <1>10, <1>17, <3>1, <3>5, TableLaw
  <2> QED BY <2>1, <2>2
<1>33. ReserveInv'
  BY <1>1, <1>5, <1>16 DEF ReserveInv
<1> QED BY <1>18, <1>19, <1>20, <1>22, <1>23, <1>28, <1>30, <1>31, <1>32, <1>33 DEF SpaceInv, StackInv

-----------------------------------------------------------------------------
(* Returns of map_in_table. *)

LEMMA IdleLaw ==
    Idle \in Operations /\ Idle.op = "idle"
<1>1. NoRequest \in Arguments
  BY DEF NoRequest, Request, Arguments, Flag
<1>2. Activation(0, 0, 0) \in Activations
  BY ActivationLaw
<1> QED BY <1>1, <1>2, OperationLaw DEF Idle

LEMMA MapReturnInner ==
    ASSUME SpaceInv, NEW s \in DOMAIN root, MapReturn(s), work[s].level < Levels
    PROVE  SpaceInv'
<1>0. work[s].op = "map"
  BY DEF MapReturn, Goes
<1>1. PICK w \in Operations : w = work[s]
  BY SpaceLaw DEF SpaceInv
<1>2. w.page \in Nat /\ w.request.end \in Nat /\ w.level \in 1..Levels
  BY OperationType DEF Arguments
<1>3. TypeInv /\ TreeInv /\ KernelGot /\ StackInv /\ PathInv(s) /\ MapInv(s)
  BY <1>0, MapContext DEF SpaceInv
<1>4. PICK page \in Nat : page = IF w.level = 1 THEN w.page + alloc_count(w) ELSE w.page
  <2>1. CASE w.level = 1
    <3>1. w.page < w.request.end
      BY <1>1, <1>3, <2>1 DEF MapInv
    <3>2. alloc_count(w) \in Nat
      BY <3>1, AllocCount
    <3> QED BY <1>2, <3>2
  <2>2. CASE w.level # 1
    BY <1>2, <2>2
  <2> QED BY <2>1, <2>2
<1>5. PICK x \in Operations : x = Returned(w, page) /\ x.op = w.op /\ x.request = w.request
  BY <1>1, ReturnedLaw
<1>6. /\ mem' = mem /\ place' = place /\ next_frame' = next_frame /\ root' = root /\ asked' = asked
      /\ memory' = memory /\ leftover' = leftover /\ booted' = booted /\ fault' = fault
      /\ work' = [work EXCEPT ![s] = x]
      /\ IF w.level = 1 THEN ~Writes(w) ELSE Ends(w)
  <2>1. w.level # Levels
    BY <1>1, <1>2, Sizes
  <2> QED BY <1>1, <1>4, <1>5, <2>1 DEF MapReturn, Goes, tables
<1>7. work' \in Seq(Operations) /\ Len(work') = Len(root) /\ Goes_on(s, x)
  BY <1>3, <1>6, WorkExcept
<1>8. TypeInv'
  BY <1>3, <1>6, <1>7, TypeWork DEF TypeInv
<1>9. /\ TreeInv' /\ KernelInv' /\ Stays /\ Touches(s) /\ ReserveInv'
      /\ \A p, a : Got(p, a) => Got(p, a)'
      /\ s # 1 => CopiedInv(s)'
  BY <1>0, <1>6, SameTables, MapContext
<1>10. s = 1 => DOMAIN root \subseteq {1}
  BY <1>0, MapContext
<1>11. /\ OrderInv' /\ ReserveSuffices' /\ (OperationInv(s)' => WorkInv')
       /\ \A r \in DOMAIN root : r # s => StackEnd(r)' = StackEnd(r)
  BY <1>1, <1>5, <1>6, <1>7, <1>9, <1>10, StepKept
<1>12. work'[s] = Returned(work[s], page)
  BY <1>1, <1>5, <1>7 DEF Goes_on
<1>13. /\ MapInv(s)' /\ Reached(work[s])' \in Nat /\ Reached(work[s])' <= Reached(work[s])
       /\ s # 1 => Reached(work[s])' = Reached(work[s])
  BY <1>0, <1>1, <1>3, <1>4, <1>6, <1>12, MapReturned
<1>14. PathInv(s)'
  BY <1>3, <1>9, <1>12, PathReturned
<1>15. work'[s].op = "map" /\ work'[s].request = work[s].request
  BY <1>0, <1>1, <1>5, <1>12
<1>16. WorkInv'
  BY <1>9, <1>11, <1>13, <1>14, <1>15 DEF OperationInv
<1>17. s # 1 => StackEnd(s)' = StackEnd(s)
  BY <1>0, <1>13, <1>15 DEF StackEnd
<1>18. StackInv'
  BY <1>6, <1>11, <1>17, SameTables
<1>19. KernelGot'
  <2>1. CASE s = 1
    <3>1. Reached(work[s]) \in Int
      <4>1. w.level = 1 => Reached(w) \in Nat
        BY <1>0, <1>1, <1>3, <1>6, LastReached
      <4>2. w.level # 1 => Reached(w) \in Nat
        BY <1>2 DEF Reached
      <4> QED BY <1>1, <4>1, <4>2
    <3>2. w.request.start \in Nat
      BY OperationType DEF Arguments
    <3>3. ASSUME NEW p \in w.request.start..(Reached(work[s])' - 1)
          PROVE  p \in w.request.start..(Reached(work[s]) - 1)
      BY <1>13, <3>1, <3>2
    <3>4. \A p \in work'[s].request.start..(Reached(work[s])' - 1) : Got(p, work[s].request)'
      BY <1>0, <1>1, <1>3, <1>9, <1>15, <2>1, <3>3 DEF KernelGot, Got
    <3> QED BY <1>3, <1>6, <1>9, <1>15, <2>1, <3>4 DEF KernelGot
  <2>2. CASE s # 1
    <3>1. work'[1] = work[1] /\ root # <<>>
      BY <1>0, <1>7, <2>2, MapContext DEF Goes_on
    <3> QED BY <1>3, <1>6, <1>9, <2>2, <3>1, KernelKept DEF SpaceInv
  <2> QED BY <2>1, <2>2
<1> QED BY <1>8, <1>9, <1>11, <1>16, <1>18, <1>19 DEF SpaceInv

LEMMA MapReturnRoot ==
    ASSUME SpaceInv, NEW s \in DOMAIN root, MapReturn(s), work[s].level = Levels
    PROVE  SpaceInv'
<1>0. work[s].op = "map"
  BY DEF MapReturn, Goes
<1>1. PICK w \in Operations : w = work[s]
  BY SpaceLaw DEF SpaceInv
<1>2. PICK r \in Arguments : r = w.request
  BY OperationType
<1>3. TypeInv /\ TreeInv /\ OrderInv /\ KernelGot /\ StackInv /\ PathInv(s) /\ MapInv(s)
  BY <1>0, MapContext DEF SpaceInv
<1>4. r \in Requests(s)
  BY <1>1, <1>2, <1>3 DEF MapInv
<1>5. PICK a : a = asked[s] \cup {r}
  OBVIOUS
<1>6. /\ mem' = mem /\ place' = place /\ next_frame' = next_frame /\ root' = root
      /\ memory' = memory /\ leftover' = leftover /\ booted' = booted /\ fault' = fault
      /\ work' = [work EXCEPT ![s] = Idle] /\ asked' = [asked EXCEPT ![s] = a] /\ Ends(w)
  BY <1>1, <1>2, <1>5, Sizes DEF MapReturn, Goes, tables, Returned
<1>7. work' \in Seq(Operations) /\ Len(work') = Len(root) /\ Goes_on(s, Idle)
  BY <1>3, <1>6, IdleLaw, WorkExcept
<1>8. a \in SUBSET Arguments /\ a \subseteq Requests(s)
  BY <1>3, <1>4, <1>5, SpaceLaw DEF TypeInv
<1>9. /\ asked' \in Seq(SUBSET Arguments) /\ Len(asked') = Len(root) /\ asked'[s] = a
      /\ \A q \in DOMAIN root : q # s => asked'[q] = asked[q]
  <2> DEFINE S == SUBSET Arguments
  <2>1. asked \in Seq(S) /\ s \in DOMAIN asked /\ DOMAIN asked = DOMAIN root /\ Len(asked) = Len(root) /\ a \in S
    BY <1>3, <1>8, SpaceLaw DEF TypeInv
  <2> HIDE DEF S
  <2>2. /\ asked' \in Seq(S) /\ Len(asked') = Len(asked) /\ asked'[s] = a
        /\ \A j \in DOMAIN asked : j # s => asked'[j] = asked[j]
    BY <1>6, <2>1, SeqExcept
  <2> QED BY <2>1, <2>2 DEF S
<1>10. TypeInv'
  BY <1>3, <1>6, <1>7, <1>8, <1>9, TypeWork DEF TypeInv
<1>11. work'[s].op = "idle" /\ a # {} /\ \A q \in DOMAIN root : q # s => work'[q] = work[q]
  BY <1>5, <1>7, IdleLaw DEF Goes_on
<1>12. /\ TreeInv' /\ KernelInv' /\ Stays /\ Touches(s)
       /\ \A p, b : Got(p, b) => Got(p, b)'
       /\ s # 1 => CopiedInv(s)'
  BY <1>0, <1>6, SameTables, MapContext
<1>13. (s = 1 => DOMAIN root \subseteq {1} /\ ~booted) /\ (s # 1 => asked[1] # {} /\ 1 \in DOMAIN root)
  BY <1>0, MapContext
<1>14. root # <<>> /\ 1 \in DOMAIN root
  BY <1>3, SpaceLaw
<1>15. WorkInv'
  <2>1. \A q \in DOMAIN root : q # s => OperationInv(q)'
    BY <1>6, <1>11, <1>12, <1>13, OthersKept
  <2>2. OperationInv(s)'
    BY <1>11, <1>12 DEF OperationInv
  <2> QED BY <1>6, <2>1, <2>2 DEF WorkInv
<1>16. ReserveSuffices'
  BY <1>6, <1>9, <1>11 DEF ReserveSuffices, ReserveCovers
<1>17. asked'[1] # {} /\ (root # <<>> /\ asked'[1] = {} => asked[1] = {})
  BY <1>9, <1>11, <1>13
<1>18. ReserveInv'
  BY <1>6, <1>17, SameTables
<1>19. Reached(w) = r.end
  BY <1>0, <1>1, <1>2, <1>3, <1>6, MapEnds
<1>20. ASSUME NEW q \in DOMAIN root \ {1} PROVE StackEnd(q)' = StackEnd(q)
  <2>1. CASE q = s
    <3>1. r.end = StackPage + StackPages
      BY <1>3, <1>4, <1>20, <2>1, RequestLaw
    <3> QED BY <1>0, <1>1, <1>9, <1>11, <1>19, <2>1, <3>1 DEF StackEnd
  <2>2. CASE q # s
    BY <1>9, <1>11, <1>20, <2>2, EndKept
  <2> QED BY <2>1, <2>2
<1>21. StackInv'
  BY <1>6, <1>20, SameTables
<1>22. OrderInv'
  <2>1. MemoryRequest' = MemoryRequest
    BY <1>6 DEF MemoryRequest
  <2>2. CASE s = 1
    <3>1. MemoryRequest \in asked'[1]
      BY <1>1, <1>2, <1>3, <1>5, <1>9, <1>14, <2>2 DEF OrderInv
    <3> QED BY <1>3, <1>6, <1>9, <1>11, <1>13, <1>17, <2>1, <2>2, <3>1 DEF OrderInv
  <2>3. CASE s # 1
    <3>1. work'[1] = work[1] /\ asked'[1] = asked[1]
      BY <1>9, <1>11, <1>14, <2>3
    <3>2. \A q \in DOMAIN root \ {1} : work'[q].op # "idle" => asked'[q] = {}
      BY <1>3, <1>9, <1>11 DEF OrderInv
    <3> QED BY <1>3, <1>6, <2>1, <3>1, <3>2 DEF OrderInv
  <2> QED BY <2>2, <2>3
<1>23. KernelGot'
  <2>1. CASE s = 1
    <3>1. \A p \in r.start..(r.end - 1) : Got(p, r)
      BY <1>0, <1>1, <1>2, <1>3, <1>14, <1>19, <2>1 DEF KernelGot
    <3>2. \A b \in a : \A p \in b.start..(b.end - 1) : Got(p, b)'
      BY <1>3, <1>5, <1>12, <1>14, <2>1, <3>1 DEF KernelGot
    <3> QED BY <1>9, <1>11, <2>1, <3>2 DEF KernelGot
  <2>2. CASE s # 1
    <3>1. work'[1] = work[1] /\ asked'[1] = asked[1]
      BY <1>9, <1>11, <1>14, <2>2
    <3> QED BY <1>3, <1>12, <1>14, <2>2, <3>1, KernelKept DEF SpaceInv
  <2> QED BY <2>1, <2>2
<1> QED BY <1>10, <1>12, <1>15, <1>16, <1>18, <1>21, <1>22, <1>23 DEF SpaceInv

-----------------------------------------------------------------------------
(* What calc_page_table_memory reserves. *)

LEMMA MaxLaw ==
    ASSUME NEW a \in Nat
    PROVE  Max({1, a}) \in Nat /\ Max({1, a}) >= 1 /\ Max({1, a}) >= a
<1>1. Max({1, a}) = IF a <= 1 THEN 1 ELSE a
  BY DEF Max
<1> QED BY <1>1

\* A function on levels that goes on with natural numbers has natural numbers.
LEMMA AllNat ==
    ASSUME NEW n \in Nat, NEW g, g[0] \in Nat, \A l \in 1..n : g[l - 1] \in Nat => g[l] \in Nat
    PROVE  \A l \in 0..n : g[l] \in Nat
<1> DEFINE D == {k \in Nat : k <= n => g[k] \in Nat}
<1>1. 0 \in D
  OBVIOUS
<1>2. ASSUME NEW k \in D PROVE k + 1 \in D
  <2>1. SUFFICES ASSUME k + 1 <= n PROVE g[k + 1] \in Nat
    OBVIOUS
  <2>2. k + 1 \in 1..n /\ (k + 1) - 1 = k /\ g[k] \in Nat
    BY <2>1
  <2> QED BY <2>2
<1>3. D \in SUBSET Nat
  OBVIOUS
<1> HIDE DEF D
<1>4. D = Nat
  BY <1>1, <1>2, <1>3, Induction
<1> QED BY <1>4 DEF D

\* The sizes of the levels and their sums.
LEMMA PageTablesLaw ==
    ASSUME NEW limit \in Nat
    PROVE  \E size, total \in [0..(Levels - 1) -> Nat] :
              /\ PageTables(limit) = total[Levels - 1]
              /\ size[0] = AlignUp(limit, Entries) \div Entries
              /\ \A l \in 1..(Levels - 1) : size[l] = Max({1, size[l - 1] \div Entries})
              /\ total[0] = size[0]
              /\ \A l \in 1..(Levels - 1) : total[l] = total[l - 1] + size[l]
<1>1. PICK n \in Nat : n = Levels - 1
  BY Sizes
<1>2. PICK a \in Nat : a = AlignUp(limit, Entries) \div Entries
  <2>1. ((limit + Entries - 1) \div Entries) * Entries \in Nat
    BY Sizes, Division
  <2> QED BY <2>1, Sizes, Division DEF AlignUp
<1> DEFINE next(k) == Max({1, k \div Entries})
           IsSize(f) == f = [l \in 0..(Levels - 1) |->
                              IF l = 0 THEN AlignUp(limit, Entries) \div Entries
                              ELSE Max({1, f[l - 1] \div Entries})]
           IsTotal(g, f) == g = [l \in 0..(Levels - 1) |->
                                  IF l = 0 THEN f[0] ELSE g[l - 1] + f[l]]
<1>3. ASSUME NEW k \in Nat PROVE next(k) \in Nat
  <2>1. k \div Entries \in Nat
    BY Sizes, Division
  <2> QED BY <2>1, MaxLaw
<1>4. \E f : IsSize(f)
  <2> DEFINE step == [x \in (1..n) \X Nat |-> next(x[2])]
  <2>1. step \in [(1..n) \X Nat -> Nat]
    <3> HIDE DEF next
    <3> QED BY <1>3
  <2>2. PICK f : Chain(f, Nat, n, a, step)
    <3> HIDE DEF step
    <3> QED BY <2>1, Recursion
  <2>3. ASSUME NEW l \in 1..n PROVE f[l] = next(f[l - 1])
    <3>1. l - 1 \in 0..n
      OBVIOUS
    <3>2. f[l] = step[<<l, f[l - 1]>>] /\ f[l - 1] \in Nat
      BY <2>2, <3>1 DEF Chain
    <3>3. PICK y \in Nat : y = f[l - 1]
      BY <3>2
    <3>4. step[<<l, y>>] = next(y)
      <4> HIDE DEF next
      <4> QED OBVIOUS
    <3> HIDE DEF step, next
    <3> QED BY <3>2, <3>3, <3>4
  <2>4. f = [l \in 0..n |-> f[l]] /\ f[0] = a
    BY <2>2 DEF Chain
  <2>5. ASSUME NEW l \in 0..n PROVE f[l] = IF l = 0 THEN a ELSE next(f[l - 1])
    <3> HIDE DEF next
    <3>1. CASE l = 0
      BY <2>4, <3>1
    <3>2. CASE l # 0
      <4>1. l \in 1..n
        BY <3>2
      <4> QED BY <2>3, <3>2, <4>1
    <3> QED BY <3>1, <3>2
  <2>6. f = [l \in 0..n |-> IF l = 0 THEN a ELSE next(f[l - 1])]
    <3> HIDE DEF next
    <3> QED BY <2>4, <2>5
  <2> QED BY <1>1, <1>2, <2>6
<1>5. ASSUME NEW f, IsSize(f)
      PROVE  /\ f \in [0..n -> Nat] /\ f[0] = a
             /\ \A l \in 1..n : f[l] = next(f[l - 1])
  <2> HIDE DEF next
  <2>1. f = [l \in 0..n |-> IF l = 0 THEN a ELSE next(f[l - 1])]
    BY <1>1, <1>2, <1>5 DEF next
  <2>2. f[0] = a /\ \A l \in 1..n : f[l] = next(f[l - 1])
    BY <2>1
  <2>3. \A l \in 0..n : f[l] \in Nat
    BY <1>3, <2>2, AllNat
  <2>4. f = [l \in 0..n |-> f[l]]
    BY <2>1
  <2> QED BY <2>2, <2>3, <2>4
<1>6. ASSUME NEW f \in [0..n -> Nat]
      PROVE  \E g : IsTotal(g, f)
  <2> DEFINE step == [x \in (1..n) \X Nat |-> x[2] + f[x[1]]]
  <2>1. step \in [(1..n) \X Nat -> Nat]
    <3>1. \A l \in 1..n : f[l] \in Nat
      OBVIOUS
    <3> QED BY <3>1
  <2>2. PICK g : Chain(g, Nat, n, f[0], step)
    <3>1. f[0] \in Nat
      OBVIOUS
    <3> HIDE DEF step
    <3> QED BY <2>1, <3>1, Recursion
  <2>3. ASSUME NEW l \in 1..n PROVE g[l] = g[l - 1] + f[l]
    <3>1. l - 1 \in 0..n
      OBVIOUS
    <3>2. g[l] = step[<<l, g[l - 1]>>] /\ g[l - 1] \in Nat
      BY <2>2, <3>1 DEF Chain
    <3>3. PICK y \in Nat : y = g[l - 1]
      BY <3>2
    <3>4. step[<<l, y>>] = y + f[l]
      OBVIOUS
    <3> HIDE DEF step
    <3> QED BY <3>2, <3>3, <3>4
  <2>4. g = [l \in 0..n |-> g[l]] /\ g[0] = f[0]
    BY <2>2 DEF Chain
  <2>5. ASSUME NEW l \in 0..n PROVE g[l] = IF l = 0 THEN f[0] ELSE g[l - 1] + f[l]
    <3>1. CASE l = 0
      BY <2>4, <3>1
    <3>2. CASE l # 0
      <4>1. l \in 1..n
        BY <3>2
      <4> QED BY <2>3, <3>2, <4>1
    <3> QED BY <3>1, <3>2
  <2>6. g = [l \in 0..n |-> IF l = 0 THEN f[0] ELSE g[l - 1] + f[l]]
    BY <2>4, <2>5
  <2> QED BY <1>1, <2>6
<1>7. ASSUME NEW f \in [0..n -> Nat], NEW g, IsTotal(g, f)
      PROVE  /\ g \in [0..n -> Nat] /\ g[0] = f[0]
             /\ \A l \in 1..n : g[l] = g[l - 1] + f[l]
  <2>1. g = [l \in 0..n |-> IF l = 0 THEN f[0] ELSE g[l - 1] + f[l]]
    BY <1>1, <1>7
  <2>2. g[0] = f[0] /\ \A l \in 1..n : g[l] = g[l - 1] + f[l]
    BY <2>1
  <2>3. \A l \in 0..n : g[l] \in Nat
    <3>1. \A l \in 0..n : f[l] \in Nat
      OBVIOUS
    <3>2. g[0] \in Nat
      BY <2>2, <3>1
    <3>3. ASSUME NEW l \in 1..n, g[l - 1] \in Nat PROVE g[l] \in Nat
      BY <2>2, <3>1, <3>3
    <3> QED BY <3>2, <3>3, AllNat
  <2>4. g = [l \in 0..n |-> g[l]]
    BY <2>1
  <2> QED BY <2>2, <2>3, <2>4
<1> DEFINE size == CHOOSE h : IsSize(h)
           total == CHOOSE g : IsTotal(g, size)
<1>8. PageTables(limit) = total[Levels - 1]
  BY Zenon DEF PageTables
<1>9. IsSize(size)
  BY <1>4, Zenon
<1> HIDE DEF size, IsSize
<1>10. size \in [0..n -> Nat] /\ size[0] = a /\ \A l \in 1..n : size[l] = next(size[l - 1])
  <2> HIDE DEF next
  <2> QED BY <1>5, <1>9
<1>11. IsTotal(total, size)
  <2>1. \E g : IsTotal(g, size)
    BY <1>6, <1>10
  <2> HIDE DEF IsTotal
  <2> QED BY <2>1, Zenon
<1> HIDE DEF total, IsTotal
<1>12. total \in [0..n -> Nat] /\ total[0] = size[0] /\ \A l \in 1..n : total[l] = total[l - 1] + size[l]
  BY <1>7, <1>10, <1>11
<1> QED BY <1>1, <1>2, <1>8, <1>10, <1>12

\* The root table is always counted.
LEMMA RootCounted ==
    ASSUME NEW limit \in Nat
    PROVE  PageTables(limit) \in Nat /\ PageTables(limit) >= 1
<1>1. PICK size, total \in [0..(Levels - 1) -> Nat] :
        /\ PageTables(limit) = total[Levels - 1]
        /\ \A l \in 1..(Levels - 1) : size[l] = Max({1, size[l - 1] \div Entries})
        /\ \A l \in 1..(Levels - 1) : total[l] = total[l - 1] + size[l]
  BY PageTablesLaw
<1>2. PICK l \in 1..(Levels - 1) : l = Levels - 1 /\ l - 1 \in 0..(Levels - 1)
  BY Sizes
<1>3. PICK a \in Nat, b \in Nat : a = total[l - 1] /\ b = size[l - 1] \div Entries
  BY <1>1, <1>2, Split
<1>4. PageTables(limit) = a + Max({1, b})
  BY <1>1, <1>2, <1>3
<1>5. Max({1, b}) \in Nat /\ Max({1, b}) >= 1
  BY MaxLaw
<1> QED BY <1>4, <1>5

\* The tables of l levels, for pages up to p.
TablesUpTo(off, p) ==
    /\ off \in [0..Levels -> Nat] /\ off[0] = 0
    /\ \A l \in 1..Levels : off[l] = off[l - 1] + Prefix(p)[l] + 1

LEMMA TablesExist ==
    ASSUME NEW p \in Nat
    PROVE  \E off : TablesUpTo(off, p)
<1> DEFINE P == Prefix(p)
           step == [x \in (1..Levels) \X Nat |-> x[2] + P[x[1]] + 1]
<1>1. \A l \in 0..Levels : P[l] \in Nat
  BY PrefixNat
<1> HIDE DEF P
<1>2. step \in [(1..Levels) \X Nat -> Nat]
  BY <1>1
<1>3. PICK f : Chain(f, Nat, Levels, 0, step)
  <2> HIDE DEF step
  <2> QED BY <1>2, Sizes, Recursion
<1>4. ASSUME NEW l \in 1..Levels PROVE f[l] = f[l - 1] + P[l] + 1
  <2>1. l - 1 \in 0..Levels
    BY Sizes
  <2>2. f[l] = step[<<l, f[l - 1]>>] /\ f[l - 1] \in Nat
    BY <1>3, <2>1 DEF Chain
  <2>3. PICK y \in Nat : y = f[l - 1]
    BY <2>2
  <2>4. step[<<l, y>>] = y + P[l] + 1
    OBVIOUS
  <2> HIDE DEF step
  <2> QED BY <2>2, <2>3, <2>4
<1>5. f \in [0..Levels -> Nat] /\ f[0] = 0
  BY <1>3 DEF Chain
<1> HIDE DEF step
<1>6. TablesUpTo(f, p)
  BY <1>4, <1>5 DEF TablesUpTo, P
<1> QED BY <1>6

\* The tables of a level come after those of the levels before it.
LEMMA TablesOrder ==
    ASSUME NEW p \in Nat, NEW off, TablesUpTo(off, p), NEW l \in 0..Levels, NEW k \in l..Levels
    PROVE  off[l] <= off[k]
<1> DEFINE D == {j \in Nat : l + j <= Levels => off[l] <= off[l + j]}
<1>1. 0 \in D
  BY Sizes DEF TablesUpTo
<1>2. ASSUME NEW j \in D PROVE j + 1 \in D
  <2>1. SUFFICES ASSUME l + (j + 1) <= Levels PROVE off[l] <= off[l + (j + 1)]
    OBVIOUS
  <2>2. PICK i \in Nat : i = l + j /\ i + 1 \in 1..Levels /\ (i + 1) - 1 = i /\ i \in 0..Levels /\ i + 1 \in 0..Levels
    BY <2>1, Sizes
  <2>3. off[i + 1] = off[i] + Prefix(p)[i + 1] + 1
    BY <2>2 DEF TablesUpTo
  <2>4. Prefix(p)[i + 1] \in Nat /\ off[i] \in Nat /\ off[l] \in Nat
    BY <2>2, PrefixNat DEF TablesUpTo
  <2>5. off[l] <= off[i]
    BY <2>2, Sizes
  <2>6. off[l] <= off[i + 1]
    BY <2>3, <2>4, <2>5
  <2>7. l + (j + 1) = i + 1
    BY <2>2
  <2> QED BY <2>6, <2>7
<1>3. D \in SUBSET Nat
  OBVIOUS
<1> HIDE DEF D
<1>4. D = Nat
  BY <1>1, <1>2, <1>3, Induction
<1>5. k - l \in Nat /\ l + (k - l) = k /\ k <= Levels
  BY Sizes
<1> QED BY <1>4, <1>5 DEF D

\* Tables of these levels have numbers of their own.
LEMMA TablesNumbered ==
    ASSUME NEW p \in Nat, NEW off, TablesUpTo(off, p),
           NEW l \in 1..Levels, NEW n \in Nat, n <= Prefix(p)[l]
    PROVE  /\ off[l - 1] \in Nat /\ off[l] \in Nat
           /\ off[l - 1] + n + 1 \in 1..off[Levels]
           /\ off[l - 1] < off[l - 1] + n + 1 /\ off[l - 1] + n + 1 <= off[l]
<1>1. l - 1 \in 0..Levels /\ l \in 0..Levels /\ Levels \in l..Levels /\ Levels \in 0..Levels
  BY Sizes
<1>2. off[l - 1] \in Nat /\ off[l] \in Nat /\ off[Levels] \in Nat /\ Prefix(p)[l] \in Nat
  BY <1>1, PrefixNat DEF TablesUpTo
<1>3. off[l] = off[l - 1] + Prefix(p)[l] + 1
  BY DEF TablesUpTo
<1>4. off[l] <= off[Levels]
  BY <1>1, TablesOrder
<1> QED BY <1>2, <1>3, <1>4

LEMMA TablesDiffer ==
    ASSUME NEW p \in Nat, NEW off, TablesUpTo(off, p),
           NEW l \in 1..Levels, NEW n \in Nat, n <= Prefix(p)[l],
           NEW k \in 1..Levels, NEW m \in Nat, m <= Prefix(p)[k],
           off[l - 1] + n + 1 = off[k - 1] + m + 1
    PROVE  l = k /\ n = m
<1>1. /\ off[l - 1] \in Nat /\ off[l] \in Nat /\ off[k - 1] \in Nat /\ off[k] \in Nat
      /\ off[l - 1] < off[l - 1] + n + 1 /\ off[l - 1] + n + 1 <= off[l]
      /\ off[k - 1] < off[k - 1] + m + 1 /\ off[k - 1] + m + 1 <= off[k]
  BY TablesNumbered
<1>2. CASE l < k
  <2>1. l \in 0..Levels /\ k - 1 \in l..Levels
    BY <1>2, Sizes
  <2>2. off[l] <= off[k - 1]
    BY <2>1, TablesOrder
  <2> QED BY <1>1, <2>2
<1>3. CASE k < l
  <2>1. k \in 0..Levels /\ l - 1 \in k..Levels
    BY <1>3, Sizes
  <2>2. off[k] <= off[l - 1]
    BY <2>1, TablesOrder
  <2> QED BY <1>1, <2>2
<1>4. CASE k = l
  BY <1>1, <1>4
<1> QED BY <1>2, <1>3, <1>4

\* Where entries have one table or full ones, rounding down to at least one table
\* is rounding up.
LEMMA RoundedUp ==
    ASSUME NEW a \in Nat, a \div Entries = 0 \/ (a + 1) % Entries = 0
    PROVE  Max({1, (a + 1) \div Entries}) = (a \div Entries) + 1
<1>1. PICK c \in Nat, r \in Slots : c = a \div Entries /\ c * Entries + r = a
  BY Split
<1>2. PICK e \in Nat : e = c * Entries /\ (c + 1) * Entries = e + Entries
  BY Sizes
<1>3. r \in Nat /\ r < Entries
  BY Sizes DEF Slots
<1>4. \A k \in Nat : Max({1, k}) = IF k <= 1 THEN 1 ELSE k
  BY DEF Max
<1>5. CASE r = Entries - 1
  <2>1. 0 \in Slots /\ a + 1 = (c + 1) * Entries + 0
    BY <1>1, <1>2, <1>5, Sizes DEF Slots
  <2>2. (a + 1) \div Entries = c + 1
    BY <2>1, DivMod
  <2>3. Max({1, c + 1}) = c + 1
    BY <1>4
  <2> QED BY <1>1, <2>2, <2>3
<1>6. CASE r < Entries - 1
  <2>1. r + 1 \in Slots /\ a + 1 = c * Entries + (r + 1)
    BY <1>1, <1>2, <1>3, <1>6, Sizes DEF Slots
  <2>2. (a + 1) \div Entries = c /\ (a + 1) % Entries = r + 1
    BY <2>1, DivMod
  <2>3. c = 0
    BY <1>1, <1>3, <2>2
  <2>4. Max({1, 0}) = 1
    BY <1>4
  <2> QED BY <1>1, <2>2, <2>3, <2>4
<1> QED BY <1>3, <1>5, <1>6, Sizes

\* The reserve has room for them if only full tables are rounded.
LEMMA ReserveLaw ==
    ASSUME NEW limit \in Nat, limit > 0, limit - 1 \in Pages, NEW off, TablesUpTo(off, limit - 1),
           WholeTables(limit)
    PROVE  off[Levels] \in Nat /\ PageTables(limit) \in Nat /\ off[Levels] <= PageTables(limit)
<1>1. PICK size, total \in [0..(Levels - 1) -> Nat] :
              /\ PageTables(limit) = total[Levels - 1]
              /\ size[0] = AlignUp(limit, Entries) \div Entries
              /\ \A l \in 1..(Levels - 1) : size[l] = Max({1, size[l - 1] \div Entries})
              /\ total[0] = size[0]
              /\ \A l \in 1..(Levels - 1) : total[l] = total[l - 1] + size[l]
  BY PageTablesLaw
<1>2. PICK p \in Nat : p = limit - 1
  OBVIOUS
<1> DEFINE P == Prefix(p)
<1>3. P \in [0..Levels -> Nat] /\ P[0] = p /\ \A l \in 1..Levels : P[l] = P[l - 1] \div Entries
  BY PrefixLaw
<1>4. size[0] = P[1] + 1
  <2>0. limit + Entries - 1 \in Nat
    BY Sizes
  <2>1. PICK q \in Nat : q = (limit + Entries - 1) \div Entries
    BY <2>0, Split
  <2>2. AlignUp(limit, Entries) = q * Entries
    BY <2>1 DEF AlignUp
  <2>3. size[0] = q
    <3>1. 0 \in Slots
      BY Sizes DEF Slots
    <3>2. (q * Entries + 0) \div Entries = q
      BY <3>1, DivMod
    <3>3. q * Entries \in Nat
      BY Sizes
    <3> QED BY <1>1, <2>2, <3>2, <3>3
  <2>4. PICK b \in Nat, r \in Slots : b = p \div Entries /\ r = p % Entries /\ b * Entries + r = p
    BY Split
  <2>5. limit + Entries - 1 = (b + 1) * Entries + r
    <3>1. PICK e \in Nat : e = b * Entries
      BY Sizes
    <3>2. (b + 1) * Entries = e + Entries
      BY <3>1, Sizes
    <3>3. r \in Nat /\ e + r = p
      BY <2>4, <3>1, Sizes DEF Slots
    <3>4. limit + Entries - 1 = e + Entries + r
      BY <1>2, <3>1, <3>3, Sizes
    <3> QED BY <3>2, <3>4
  <2>6. q = b + 1
    BY <2>1, <2>5, DivMod
  <2>7. P[1] = b
    BY <1>3, <2>4, Sizes
  <2> QED BY <2>3, <2>6, <2>7
<1>5. \A k \in 0..(Levels - 2) : P[k + 1] \in Nat /\ size[k] = P[k + 1] + 1
  <2> DEFINE D == {k \in Nat : k <= Levels - 2 => size[k] = P[k + 1] + 1}
  <2>0. \A k \in 0..(Levels - 1) : P[k + 1] \in Nat
    BY <1>3, Sizes
  <2>00. \A k \in 1..(Levels - 2) : P[k + 1] = 0 \/ (P[k] + 1) % Entries = 0
    BY <1>2 DEF WholeTables
  <2> HIDE DEF P
  <2>1. 0 \in D
    BY <1>4
  <2>2. ASSUME NEW k \in D PROVE k + 1 \in D
    <3>1. SUFFICES ASSUME k + 1 <= Levels - 2 PROVE size[k + 1] = P[(k + 1) + 1] + 1
      OBVIOUS
    <3>2. k + 1 \in 1..(Levels - 1) /\ k + 1 \in 1..(Levels - 2) /\ (k + 1) - 1 = k /\ (k + 1) + 1 \in 1..Levels
          /\ ((k + 1) + 1) - 1 = k + 1 /\ k \in 0..(Levels - 1) /\ k \in Nat
      BY <3>1, Sizes
    <3>3. PICK a \in Nat : a = P[k + 1] /\ size[k] = a + 1
      BY <2>0, <3>1, <3>2, Sizes
    <3>4. size[k + 1] = Max({1, (a + 1) \div Entries}) /\ P[(k + 1) + 1] = a \div Entries
      BY <1>1, <1>3, <3>2, <3>3
    <3>5. a \div Entries = 0 \/ (a + 1) % Entries = 0
      BY <2>00, <3>2, <3>3, <3>4
    <3> QED BY <3>4, <3>5, RoundedUp
  <2>3. D \in SUBSET Nat
    OBVIOUS
  <2> HIDE DEF D
  <2>4. D = Nat
    BY <2>1, <2>2, <2>3, Induction
  <2> SUFFICES ASSUME NEW k \in 0..(Levels - 2)
               PROVE  P[k + 1] \in Nat /\ size[k] = P[k + 1] + 1
    OBVIOUS
  <2>5. k \in D /\ k <= Levels - 2 /\ k \in 0..(Levels - 1)
    BY <2>4, Sizes
  <2>6. size[k] = P[k + 1] + 1
    BY <2>5 DEF D
  <2> QED BY <2>0, <2>5, <2>6
<1>6. /\ off \in [0..Levels -> Nat] /\ off[0] = 0
      /\ \A l \in 1..Levels : off[l] = off[l - 1] + P[l] + 1
  BY <1>2 DEF TablesUpTo
<1>7. P[Levels] = 0
  BY <1>2, RootPrefix
<1> HIDE DEF P
<1>8. \A l \in 0..(Levels - 2) : off[l + 1] = total[l]
  <2> DEFINE D == {l \in Nat : l <= Levels - 2 => off[l + 1] = total[l]}
  <2>1. 0 \in D
    <3>1. off[1] = P[1] + 1
      <4>1. P[1] \in Nat
        BY <1>3, Sizes
      <4>2. off[1] = off[0] + P[1] + 1
        BY <1>6, Sizes
      <4> QED BY <1>6, <4>1, <4>2
    <3>2. total[0] = P[1] + 1 /\ P[1] \in Nat
      BY <1>1, <1>3, <1>4, Sizes
    <3> QED BY <3>1, <3>2
  <2>2. ASSUME NEW l \in D PROVE l + 1 \in D
    <3>1. SUFFICES ASSUME l + 1 <= Levels - 2 PROVE off[(l + 1) + 1] = total[l + 1]
      OBVIOUS
    <3>2. /\ l \in Nat /\ l + 1 \in 1..(Levels - 1) /\ (l + 1) - 1 = l /\ (l + 1) + 1 \in 1..Levels
          /\ ((l + 1) + 1) - 1 = l + 1 /\ l \in 0..(Levels - 1) /\ l + 1 \in 0..(Levels - 2) /\ l + 1 \in 0..Levels
      BY <3>1, Sizes
    <3>3. off[l + 1] = total[l]
      BY <3>1, <3>2, Sizes
    <3>4. /\ off[(l + 1) + 1] = off[l + 1] + P[(l + 1) + 1] + 1
          /\ total[l + 1] = total[l] + size[l + 1]
      BY <1>1, <1>6, <3>2
    <3>5. P[(l + 1) + 1] \in Nat /\ size[l + 1] = P[(l + 1) + 1] + 1
      BY <1>5, <3>2
    <3>6. total[l] \in Nat
      BY <1>1, <3>2
    <3> QED BY <3>3, <3>4, <3>5, <3>6
  <2>3. D \in SUBSET Nat
    OBVIOUS
  <2> HIDE DEF D
  <2>4. D = Nat
    BY <2>1, <2>2, <2>3, Induction
  <2> SUFFICES ASSUME NEW l \in 0..(Levels - 2) PROVE off[l + 1] = total[l]
    OBVIOUS
  <2>5. l \in D /\ l <= Levels - 2
    BY <2>4, Sizes
  <2> QED BY <2>5 DEF D
<1>9. PICK l \in Nat : l = Levels - 2 /\ l + 1 = Levels - 1 /\ l \in 0..(Levels - 1) /\ l + 1 \in 1..(Levels - 1)
                       /\ l \in 0..(Levels - 2) /\ l + 1 \in 0..Levels /\ (l + 1) - 1 = l
                       /\ l + 1 \in 0..(Levels - 1)
  BY Sizes
<1>10. off[l + 1] = total[l] /\ total[l + 1] = total[l] + size[l + 1] /\ total[l] \in Nat /\ off[l + 1] \in Nat
       /\ total[l + 1] \in Nat
  BY <1>1, <1>6, <1>8, <1>9
<1>11. size[l + 1] \in Nat /\ size[l + 1] >= 1
  <2>1. size[l] \in Nat /\ size[l + 1] = Max({1, size[l] \div Entries})
    BY <1>1, <1>9
  <2>2. size[l] \div Entries \in Nat
    BY <2>1, Split
  <2> QED BY <2>1, <2>2, MaxLaw
<1>12. off[Levels] = off[l + 1] + 1
  <2>1. Levels \in 1..Levels /\ Levels - 1 = l + 1
    BY <1>9, Sizes
  <2>2. off[Levels] = off[l + 1] + P[Levels] + 1
    BY <1>6, <2>1
  <2> QED BY <1>7, <1>10, <2>2
<1>13. PageTables(limit) = total[l + 1]
  BY <1>1, <1>9
<1>14. PICK a \in Nat, b \in Nat, c \in Nat : a = off[l + 1] /\ b = total[l] /\ c = size[l + 1]
  BY <1>10, <1>11
<1>15. a = b /\ c >= 1 /\ off[Levels] = a + 1 /\ PageTables(limit) = b + c
  BY <1>10, <1>11, <1>12, <1>13, <1>14
<1> QED BY <1>15

\* While memory is mapped there is a frame for the next table.
LEMMA Enough ==
    ASSUME SpaceInv, NEW s \in DOMAIN root, work[s].op = "map", work[s].level > 1, ~Ends(work[s]),
           Missing(mem[Top(work[s]).table][Top(work[s]).index]),
           \A r \in DOMAIN root : asked[r] = {} /\ r = 1,
           WholeTables(memory.phys_limit)
    PROVE  Free("Kernel")
<1> SUFFICES ASSUME ~Free("Kernel") PROVE FALSE
  OBVIOUS
<1>1. TypeInv /\ TreeInv /\ OrderInv /\ ReserveInv /\ MapInv(s) /\ s = 1 /\ root # <<>> /\ DOMAIN root = {1}
  BY MapContext DEF SpaceInv
<1>2. PICK w \in Operations : w = work[s]
  BY <1>1, SpaceLaw
<1>3. PICK c \in Activations : c = Top(w)
  BY OperationType
<1>4. /\ c.table \in DOMAIN mem /\ c.index \in Slots /\ place[c.table].space = 1 /\ place[c.table].level = w.level
      /\ w.page < w.request.end /\ \A u \in DOMAIN mem : place[u] # Child(c.table, c.index)
  BY <1>1, <1>2, <1>3, MapLinked
<1>5. w.request = MemoryRequest /\ w.request.end = memory.phys_limit
  <2>1. w.request = MemoryRequest
    BY <1>1, <1>2 DEF OrderInv
  <2> QED BY <2>1 DEF MemoryRequest, Request
<1>6. PICK limit \in Nat, K \in Nat :
        /\ limit = memory.phys_limit /\ K = memory.kernel_phys_limit /\ limit \in Pages
        /\ PageTables(limit) < K /\ K > 0 /\ WholeTables(limit)
  BY <1>1, MemoryLaw
<1>7. w.page \in Nat /\ limit > 0
  <2>1. w.page \in Nat
    BY OperationType
  <2> QED BY <1>4, <1>5, <1>6, <2>1
<1>8. PICK p \in Nat : p = limit - 1 /\ p \in Pages /\ w.page <= p
  <2>1. limit - 1 \in Nat /\ limit - 1 < StackPage
    BY <1>1, <1>6, <1>7, MemoryLaw, StackLaw
  <2>2. limit - 1 < StackPage + StackPages
    BY <2>1, StackLaw
  <2>3. limit - 1 \in Pages
    BY <2>1, <2>2, StackLaw
  <2> QED BY <1>4, <1>5, <1>6, <1>7, <2>1, <2>3
<1>9. PICK off : TablesUpTo(off, p)
  BY TablesExist
<1>10. PICK b \in Nat : b = off[Levels] /\ b < K
  <2>1. off[Levels] \in Nat /\ PageTables(limit) \in Nat /\ off[Levels] <= PageTables(limit)
    BY <1>6, <1>7, <1>8, <1>9, ReserveLaw
  <2> QED BY <1>6, <2>1
<1>11. Fresh = K /\ DOMAIN mem = 1..(K - 1)
  <2>1. Fresh = K
    BY <1>6 DEF Free, PoolEnd, Fresh
  <2> QED BY <1>1, <2>1, TableLaw
<1> DEFINE lv == [t \in 1..K |-> IF t = K THEN w.level - 1 ELSE place[t].level]
           nm == [t \in 1..K |-> IF t = K THEN Prefix(w.page)[w.level - 1] ELSE place[t].number]
           f  == [t \in 1..K |-> off[lv[t] - 1] + nm[t] + 1]
<1>12. w.level - 1 \in 1..Levels /\ w.level - 1 \in 0..Levels
  BY <1>2, OperationType, Sizes
<1>13. ASSUME NEW t \in 1..K
       PROVE  lv[t] \in 1..Levels /\ nm[t] \in Nat /\ nm[t] <= Prefix(p)[lv[t]]
  <2>1. CASE t = K
    <3>1. lv[t] = w.level - 1 /\ nm[t] = Prefix(w.page)[w.level - 1]
      BY <2>1
    <3> HIDE DEF lv, nm
    <3> QED BY <1>7, <1>8, <1>12, <3>1, PrefixNat, PrefixOrder
  <2>2. CASE t # K
    <3>1. lv[t] = place[t].level /\ nm[t] = place[t].number
      BY <2>2
    <3>2. t \in DOMAIN mem
      BY <1>11, <2>2
    <3> HIDE DEF lv, nm
    <3>3. place[t].level \in 1..Levels /\ place[t].number \in Nat
      BY <1>1, <3>2, TableLaw
    <3>4. place[t].number <= Prefix(memory.phys_limit - 1)[place[t].level]
      BY <1>1, <3>2 DEF ReserveInv
    <3> QED BY <1>6, <1>8, <3>1, <3>3, <3>4
  <2> QED BY <2>1, <2>2
<1>14. ASSUME NEW t \in 1..K PROVE lv[t] = (IF t = K THEN w.level - 1 ELSE place[t].level)
                                /\ nm[t] = (IF t = K THEN Prefix(w.page)[w.level - 1] ELSE place[t].number)
  OBVIOUS
<1> HIDE DEF lv, nm
<1>15. f \in [1..K -> 1..b]
  <2>1. ASSUME NEW t \in 1..K PROVE off[lv[t] - 1] + nm[t] + 1 \in 1..b
    BY <1>9, <1>10, <1>13, TablesNumbered
  <2> QED BY <2>1
<1>16. \A t \in 1..K : f[t] = off[lv[t] - 1] + nm[t] + 1
  OBVIOUS
<1> HIDE DEF f
<1>17. IsFiniteSet(1..K) /\ IsFiniteSet(1..b) /\ Cardinality(1..b) < Cardinality(1..K)
  <2>0. ASSUME NEW k \in Nat PROVE IsFiniteSet(1..k) /\ Cardinality(1..k) = k
    <3>1. IsFiniteSet(1..k) /\ Cardinality(1..k) = IF 1 > k THEN 0 ELSE k - 1 + 1
      BY FS_Interval
    <3> QED BY <3>1
  <2>1. IsFiniteSet(1..K) /\ Cardinality(1..K) = K
    BY <2>0
  <2>2. IsFiniteSet(1..b) /\ Cardinality(1..b) = b
    BY <2>0
  <2> QED BY <1>10, <2>1, <2>2
<1>18. PICK x, y \in 1..K : x # y /\ f[x] = f[y]
  <2>1. PICK S, R : S = 1..K /\ R = 1..b
    OBVIOUS
  <2>2. f \in [S -> R] /\ IsFiniteSet(S) /\ IsFiniteSet(R) /\ Cardinality(R) < Cardinality(S)
    BY <1>15, <1>17, <2>1
  <2>3. \E x, y \in S : x # y /\ f[x] = f[y]
    BY <2>2, FS_PigeonHole
  <2> QED BY <2>1, <2>3
<1>19. lv[x] = lv[y] /\ nm[x] = nm[y]
  <2>1. off[lv[x] - 1] + nm[x] + 1 = off[lv[y] - 1] + nm[y] + 1
    BY <1>16, <1>18
  <2> QED BY <1>9, <1>13, <2>1, TablesDiffer
<1>20. Child(c.table, c.index) = Placed(1, w.level - 1, Prefix(w.page)[w.level - 1])
  <2>1. place[c.table].number * Entries + c.index = Prefix(w.page)[w.level - 1]
    BY <1>1, <1>2, <1>3, <1>4 DEF MapInv
  <2> QED BY <1>4, <2>1 DEF Child
<1>21. ASSUME NEW t \in 1..K, t # K, NEW u \in 1..K, u # t, lv[t] = lv[u], nm[t] = nm[u]
       PROVE  FALSE
  <2>1. t \in DOMAIN mem /\ place[t] = Placed(1, lv[t], nm[t])
    <3>1. t \in DOMAIN mem
      BY <1>11, <1>21
    <3> QED BY <1>1, <1>14, <1>21, <3>1, TableLaw
  <2>2. CASE u = K
    BY <1>4, <1>14, <1>20, <1>21, <2>1, <2>2
  <2>3. CASE u # K
    <3>1. u \in DOMAIN mem
      BY <1>11, <2>3
    <3>2. place[u] = Placed(1, lv[u], nm[u])
      BY <1>1, <1>14, <2>3, <3>1, TableLaw
    <3> QED BY <1>1, <1>21, <2>1, <3>1, <3>2 DEF TreeInv, Distinct
  <2> QED BY <2>2, <2>3
<1>22. CASE x # K
  BY <1>18, <1>19, <1>21, <1>22
<1>23. CASE y # K
  BY <1>18, <1>19, <1>21, <1>23
<1> QED BY <1>18, <1>22, <1>23

-----------------------------------------------------------------------------
(* The steps of map_in_table. *)

LEMMA MapTableKept ==
    ASSUME SpaceInv, NEW s \in DOMAIN root, MapTable(s)
    PROVE  SpaceInv'
<1>1. work[s].op = "map" /\ work[s].level > 1 /\ ~Ends(work[s]) /\ UNCHANGED <<memory, leftover, booted>> /\ fault = "none"
  BY DEF MapTable, Goes
<1>2. CASE ~Missing(mem[Top(work[s]).table][Top(work[s]).index])
  <2>1. Linked(Top(work[s]).table, Top(work[s]).index)
    BY <1>1, <1>2, MapLinked
  <2>2. mem[Top(work[s]).table][Top(work[s]).index].addr \in DOMAIN mem
    BY <2>1 DEF Linked
  <2>3. /\ work' = [work EXCEPT ![s] = Called(work[s], mem[Top(work[s]).table][Top(work[s]).index].addr, 0,
                                              page_table_index(work[s].page, work[s].level - 1))]
        /\ UNCHANGED <<tables, root, asked, fault>>
    BY <1>2, <2>2 DEF MapTable
  <2> QED BY <1>1, <1>2, <2>3, MapFollow
<1>3. CASE Missing(mem[Top(work[s]).table][Top(work[s]).index])
  <2>1. Grow(s, Zero, "present", 0, page_table_index(work[s].page, work[s].level - 1))
    BY <1>3 DEF MapTable
  <2>2. CASE Free("Kernel")
    BY <1>1, <1>3, <2>1, <2>2, MapGrow
  <2>3. CASE ~Free("Kernel")
    <3>1. Panic("exhausted")
      BY <2>1, <2>3 DEF Grow
    <3>2. CASE ~(\A r \in DOMAIN root : asked[r] = {} /\ r = 1)
      BY <1>1, <3>1, <3>2, PanicKept
    <3>3. CASE \A r \in DOMAIN root : asked[r] = {} /\ r = 1
      <4>1. ~WholeTables(memory.phys_limit)
        BY <1>1, <1>3, <2>3, <3>3, Enough
      <4>2. ReserveSuffices'
        BY <1>1, <4>1 DEF ReserveSuffices, ReserveCovers
      <4>3. UNCHANGED <<tables, root, asked, work>> /\ fault' = "exhausted"
        BY <3>1 DEF Panic
      <4>4. OrderInv'
        BY <1>1, <4>3, OrderKept DEF SpaceInv
      <4>5. booted \in BOOLEAN
        BY DEF SpaceInv, TypeInv
      <4> QED BY <1>1, <4>2, <4>3, <4>4, <4>5, AllKept
    <3> QED BY <3>2, <3>3
  <2> QED BY <2>2, <2>3
<1> QED BY <1>2, <1>3

LEMMA MapPageKept ==
    ASSUME SpaceInv, NEW s \in DOMAIN root, MapPage(s)
    PROVE  SpaceInv'
<1>1. work[s].op = "map" /\ work[s].level = 1 /\ Writes(work[s]) /\ UNCHANGED <<memory, leftover, booted>>
  BY DEF MapPage, Goes
<1>2. CASE work[s].request.space # "User"
  <2>1. /\ mem' = SetEntry(mem, Top(work[s]).table, Top(work[s]).index,
                           work[s].page + (Top(work[s]).index - start_index(work[s])), work[s].request.flags)
        /\ work' = [work EXCEPT ![s] = NextRound(work[s])]
        /\ UNCHANGED <<next_frame, place, root, asked, fault>>
    BY <1>2 DEF MapPage
  <2> QED BY <1>1, <1>2, <2>1, MapPageKernel
<1>3. CASE work[s].request.space = "User" /\ Free("User")
  <2>1. /\ mem' = SetEntry(mem, Top(work[s]).table, Top(work[s]).index,
                           next_frame["User"], work[s].request.flags)
        /\ work' = [work EXCEPT ![s] = NextRound(work[s])] /\ alloc("User")
        /\ UNCHANGED <<place, root, asked, fault>>
    BY <1>3 DEF MapPage
  <2> QED BY <1>1, <1>3, <2>1, MapPageUser
<1>4. CASE work[s].request.space = "User" /\ ~Free("User")
  <2>1. Panic("exhausted")
    BY <1>4 DEF MapPage
  <2>2. MapInv(s) /\ TypeInv
    BY <1>1, MapContext DEF SpaceInv
  <2>3. work[s].request \in Requests(s)
    BY <2>2 DEF MapInv
  <2>4. s # 1
    BY <1>4, <2>2, <2>3, RequestLaw
  <2> QED BY <1>1, <2>1, <2>4, PanicKept
<1> QED BY <1>2, <1>3, <1>4

LEMMA MapReturnKept ==
    ASSUME SpaceInv, NEW s \in DOMAIN root, MapReturn(s)
    PROVE  SpaceInv'
<1>1. work[s] \in Operations
  BY SpaceLaw DEF SpaceInv
<1>2. work[s].level < Levels \/ work[s].level = Levels
  BY <1>1, OperationType, Sizes
<1> QED BY <1>2, MapReturnInner, MapReturnRoot

-----------------------------------------------------------------------------
(* copy_table. *)

LEMMA CopyContext ==
    ASSUME SpaceInv, NEW s \in DOMAIN root, work[s].op = "copy"
    PROVE  /\ PathInv(s) /\ CopyInv(s) /\ booted /\ s # 1 /\ 1 \in DOMAIN root /\ root # <<>>
           /\ work[1].op = "idle" /\ asked[1] # {} /\ asked[s] = {}
<1> USE DEF SpaceInv
<1>1. PathInv(s) /\ CopyInv(s)
  BY DEF WorkInv, OperationInv
<1>2. booted /\ s # 1
  BY <1>1 DEF CopyInv
<1>3. root # <<>> /\ work[1].op = "idle" /\ asked[s] = {}
  BY <1>2 DEF OrderInv
<1>4. asked[1] # {}
  BY <1>3 DEF OrderInv
<1> QED BY <1>1, <1>2, <1>3, <1>4, SpaceLaw

\* What a step of copy_table leaves alone.
LEMMA CopyFrame ==
    ASSUME SpaceInv, NEW s \in DOMAIN root, work[s].op = "copy", NEW x, x.op \in {"copy", "idle"},
           Goes_on(s, x), Touches(s), root' = root, asked' = asked, booted' = booted, fault' = fault
    PROVE  /\ KernelInv' /\ KernelGot' /\ ReserveInv' /\ OrderInv' /\ ReserveSuffices'
           /\ OperationInv(s)' => WorkInv'
           /\ \A r \in DOMAIN root : StackEnd(r)' = StackEnd(r)
<1>1. /\ TypeInv /\ KernelInv /\ KernelGot /\ OrderInv /\ ReserveSuffices /\ s # 1 /\ 1 \in DOMAIN root
      /\ root # <<>> /\ work[1].op = "idle" /\ asked[1] # {} /\ asked[s] = {} /\ booted
  BY CopyContext DEF SpaceInv
<1>2. memory' = memory /\ work'[s] = x /\ \A r \in DOMAIN root : r # s => work'[r] = work[r]
  BY DEF Touches, Goes_on
<1>3. work'[1] = work[1] /\ asked'[1] = asked[1]
  BY <1>1, <1>2
<1>4. KernelInv' /\ KernelGot'
  BY <1>1, <1>3, KernelKept
<1>5. ReserveInv' /\ ReserveSuffices'
  BY <1>1, <1>2, <1>3, CoversKept DEF ReserveInv
<1>6. OrderInv'
  <2>1. MemoryRequest' = MemoryRequest
    BY <1>2 DEF MemoryRequest
  <2>2. \A r \in DOMAIN root \ {1} : work'[r].op # "idle" => asked'[r] = {}
    BY <1>1, <1>2 DEF OrderInv
  <2> QED BY <1>1, <1>3, <2>1, <2>2 DEF OrderInv
<1>7. ASSUME OperationInv(s)' PROVE WorkInv'
  <2>1. \A r \in DOMAIN root : r # s => OperationInv(r)'
    BY <1>1, <1>2, OthersKept
  <2> QED BY <1>7, <2>1 DEF WorkInv
<1>8. ASSUME NEW r \in DOMAIN root PROVE StackEnd(r)' = StackEnd(r)
  <2>1. CASE r = s
    BY <1>1, <1>2, <2>1 DEF StackEnd
  <2>2. CASE r # s
    BY <1>2, <2>2, EndKept
  <2> QED BY <2>1, <2>2
<1> QED BY <1>4, <1>5, <1>6, <1>7, <1>8

\* Copies stay copies if no table of the last level changes.
LEMMA CopiesStay ==
    ASSUME NEW s, DOMAIN mem \subseteq DOMAIN mem',
           \A t \in DOMAIN mem : place'[t] = place[t] /\ (place[t].level = 1 => mem'[t] = mem[t])
    PROVE  /\ \A t \in DOMAIN mem : KernelLeaf(t)' <=> KernelLeaf(t)
           /\ \A t \in DOMAIN mem : KernelLeaf(t) /\ HasCopy(s, t) => HasCopy(s, t)'
           /\ \A u \in DOMAIN mem : place[u].level = 1 /\ IsCopy(u) => IsCopy(u)'
<1>1. \A t \in DOMAIN mem : KernelLeaf(t)' <=> KernelLeaf(t)
  BY DEF KernelLeaf
<1>2. ASSUME NEW t \in DOMAIN mem, KernelLeaf(t), HasCopy(s, t) PROVE HasCopy(s, t)'
  <2>1. PICK u \in DOMAIN mem : place[u] = Placed(s, 1, place[t].number) /\ mem[u] = mem[t]
    BY <1>2 DEF HasCopy
  <2>2. place[u].level = 1 /\ place[t].level = 1
    BY <1>2, <2>1, PlacedLaw DEF KernelLeaf
  <2>3. u \in DOMAIN mem' /\ place'[u] = Placed(s, 1, place'[t].number) /\ mem'[u] = mem'[t]
    BY <2>1, <2>2
  <2> QED BY <2>3 DEF HasCopy
<1>3. ASSUME NEW u \in DOMAIN mem, place[u].level = 1, IsCopy(u) PROVE IsCopy(u)'
  <2>1. PICK t \in DOMAIN mem : KernelLeaf(t) /\ place[t].number = place[u].number /\ mem[u] = mem[t]
    BY <1>3 DEF IsCopy
  <2>2. t \in DOMAIN mem' /\ KernelLeaf(t)' /\ place'[t].number = place'[u].number /\ mem'[u] = mem'[t]
    BY <1>1, <1>3, <2>1 DEF KernelLeaf
  <2> QED BY <2>2 DEF IsCopy
<1> QED BY <1>1, <1>2, <1>3

\* Empty entries are skipped: no table of the kernel is behind them.
LEMMA CopySkipKept ==
    ASSUME SpaceInv, NEW s \in DOMAIN root, CopySkip(s)
    PROVE  SpaceInv'
<1>0. work[s].op = "copy"
  BY DEF CopySkip, Goes
<1>1. /\ TypeInv /\ TreeInv /\ KernelInv /\ StackInv /\ PathInv(s) /\ CopyInv(s) /\ s # 1
  BY <1>0, CopyContext DEF SpaceInv
<1>2. PICK w \in Operations : w = work[s]
  BY <1>1, SpaceLaw
<1>3. PICK c \in Activations : c = Top(w)
  BY OperationType
<1>4. PICK x \in Operations : x = NextRound(w) /\ x.op = w.op /\ x.level = w.level
                           /\ x.path[w.level] = Activation(c.table, c.source, c.index + 1)
                           /\ \A l \in 1..Levels : l # w.level => x.path[l] = w.path[l]
  BY <1>3, NextRoundLaw
<1>5. /\ w.level > 1 /\ c.index < Entries /\ mem[c.source][c.index] = Unused
      /\ work' = [work EXCEPT ![s] = x]
      /\ mem' = mem /\ place' = place /\ next_frame' = next_frame /\ root' = root /\ asked' = asked
      /\ memory' = memory /\ leftover' = leftover /\ booted' = booted /\ fault' = fault
  BY <1>2, <1>3, <1>4 DEF CopySkip, Goes, tables
<1>6. work' \in Seq(Operations) /\ Len(work') = Len(root) /\ Goes_on(s, x)
  BY <1>1, <1>5, WorkExcept
<1>7. TypeInv'
  BY <1>1, <1>5, <1>6, TypeWork DEF TypeInv
<1>8. TreeInv' /\ Stays /\ Touches(s)
  BY <1>5, SameTables
<1>9. /\ KernelInv' /\ KernelGot' /\ ReserveInv' /\ OrderInv' /\ ReserveSuffices'
      /\ OperationInv(s)' => WorkInv'
      /\ \A r \in DOMAIN root : StackEnd(r)' = StackEnd(r)
  BY <1>0, <1>2, <1>4, <1>5, <1>6, <1>8, CopyFrame
<1>10. StackInv'
  BY <1>5, <1>9, SameTables
<1>11. work'[s] = x
  BY <1>6 DEF Goes_on
<1>12. PathInv(s)'
  BY <1>1, <1>2, <1>3, <1>4, <1>5, <1>8, <1>11, PathNext
<1>13. PICK l \in Nat : l = w.level /\ l > 1 /\ l \in 1..Levels
  BY <1>5, OperationType
<1>14. PICK n \in Nat :
        /\ c.table \in DOMAIN mem /\ c.index \in Slots /\ c.index \in Nat
        /\ place[c.table].number = n /\ c.source \in DOMAIN mem /\ place[c.source] = Placed(1, l, n)
  BY <1>0, <1>1, <1>2, <1>3, <1>5, <1>13, TopLaw, Sizes DEF Slots
<1>15. Top(x).table = c.table /\ Top(x).index = c.index + 1
  BY <1>4 DEF Top, Activation
<1>16. ASSUME NEW t \in DOMAIN mem, KernelLeaf(t), Passed(x, place[t].number)'
       PROVE  Passed(w, place[t].number)
  <2>1. PICK m \in Nat : m = place[t].number
    BY <1>1, TableLaw
  <2>2. PICK q \in Nat : q = Prefix(m)[l - 2] /\ Prefix(m)[l - 1] = q \div Entries
    <3>1. l - 2 \in 0..Levels /\ l - 1 \in 1..Levels /\ (l - 1) - 1 = l - 2
      BY <1>13, Sizes
    <3>2. Prefix(m)[l - 2] \in Nat
      BY <3>1, PrefixNat
    <3>3. Prefix(m)[l - 1] = Prefix(m)[(l - 1) - 1] \div Entries
      BY <3>1, PrefixLaw
    <3> QED BY <3>1, <3>2, <3>3
  <2>3. PICK k \in Nat : k = n * Entries + c.index /\ k \div Entries = n /\ k % Entries = c.index
    BY <1>14, DivMod
  <2>4. q < n * Entries + (c.index + 1)
    BY <1>4, <1>5, <1>13, <1>14, <1>15, <1>16, <2>1, <2>2 DEF Passed
  <2>5. q < k + 1
    <3>1. n * Entries \in Nat
      BY Sizes
    <3> QED BY <1>14, <2>3, <2>4, <3>1
  <2>6. q # k
    <3> SUFFICES ASSUME q = k PROVE FALSE
      OBVIOUS
    <3>1. place[t].level = 1 /\ place[t].space = 1 /\ l - 1 \in 0..(Levels - 1) /\ l - 1 > 0 /\ 1 + (l - 1) = l
          /\ (l - 1) - 1 = l - 2
      BY <1>13, <1>16, Sizes DEF KernelLeaf
    <3>2. PICK u \in DOMAIN mem : /\ place[u] = Placed(1, l, Prefix(m)[l - 1])
                                  /\ Linked(u, Prefix(m)[l - 2] % Entries)
      BY <1>1, <2>1, <3>1, Ancestor
    <3>3. place[u] = place[c.source] /\ Linked(u, c.index)
      BY <1>14, <2>2, <2>3, <3>2
    <3>4. u = c.source
      BY <1>1, <1>14, <3>3 DEF TreeInv, Distinct
    <3> QED BY <1>5, <3>3, <3>4, ZeroLaw DEF Linked
  <2>7. q < k
    BY <2>5, <2>6
  <2> QED BY <1>3, <1>13, <1>14, <2>1, <2>2, <2>3, <2>7 DEF Passed
<1>17. CopyInv(s)'
  <2>1. booted' /\ s # 1
    BY <1>1, <1>5 DEF CopyInv
  <2>2. ASSUME NEW t \in DOMAIN mem, KernelLeaf(t), Passed(x, place[t].number)' PROVE HasCopy(s, t)'
    <3>1. HasCopy(s, t)
      BY <1>1, <1>2, <1>16, <2>2 DEF CopyInv
    <3> QED BY <1>5, <2>2, <3>1, CopiesStay
  <2>3. ASSUME NEW u \in DOMAIN mem, place[u].space = s, place[u].level = 1 PROVE IsCopy(u)'
    <3>1. IsCopy(u)
      BY <1>1, <1>2, <1>5, <2>3 DEF CopyInv
    <3> QED BY <1>5, <2>3, <3>1, CopiesStay
  <2>4. \A u \in DOMAIN mem : place[u].space = s /\ place[u].level < Levels => Below(place[u])
    BY <1>1 DEF CopyInv
  <2>5. ASSUME NEW j \in x.level..Levels, j > 1, NEW i \in Slots,
               IF j = x.level THEN i >= x.path[j].index ELSE i > x.path[j].index, NEW u \in DOMAIN mem
        PROVE  place[u] # Child(x.path[j].table, i)
    <3>1. CASE j = l
      <4>1. x.path[j].table = c.table /\ w.path[j] = c /\ i >= c.index
        <5>1. x.path[j].index = c.index + 1 /\ x.path[j].table = c.table /\ w.path[j] = c
          BY <1>3, <1>4, <1>13, <3>1 DEF Activation, Top
        <5> QED BY <1>4, <1>13, <1>14, <2>5, <3>1, <5>1, Sizes DEF Slots
      <4>2. l \in w.level..Levels
        BY <1>13, Sizes
      <4> QED BY <1>1, <1>2, <1>13, <3>1, <4>1, <4>2 DEF CopyInv
    <3>2. CASE j # l
      <4>1. x.path[j] = w.path[j] /\ j \in w.level..Levels
        BY <1>4, <1>13, <2>5, <3>2, Sizes
      <4> QED BY <1>1, <1>2, <1>4, <1>13, <2>5, <3>2, <4>1 DEF CopyInv
    <3> QED BY <3>1, <3>2
  <2>6. \A t \in DOMAIN mem : KernelLeaf(t)' <=> KernelLeaf(t)
    BY <1>5 DEF KernelLeaf
  <2> QED BY <1>5, <1>11, <2>1, <2>2, <2>3, <2>4, <2>5, <2>6 DEF CopyInv, Child, Below, Passed
<1>18. WorkInv'
  BY <1>0, <1>2, <1>4, <1>9, <1>11, <1>12, <1>17 DEF OperationInv
<1> QED BY <1>7, <1>8, <1>9, <1>10, <1>18 DEF SpaceInv

\* copy_table of a level returns: its caller has passed what it has.
LEMMA CopyReturnInner ==
    ASSUME SpaceInv, NEW s \in DOMAIN root, CopyReturn(s), work[s].level < Levels
    PROVE  SpaceInv'
<1>0. work[s].op = "copy"
  BY DEF CopyReturn, Goes
<1>1. /\ TypeInv /\ TreeInv /\ KernelInv /\ StackInv /\ PathInv(s) /\ CopyInv(s) /\ s # 1
  BY <1>0, CopyContext DEF SpaceInv
<1>2. PICK w \in Operations : w = work[s]
  BY <1>1, SpaceLaw
<1>3. PICK c \in Activations : c = Top(w)
  BY OperationType
<1>4. PICK l \in Nat : l = w.level /\ l > 1 /\ l \in 1..Levels /\ l + 1 \in 1..Levels /\ l < Levels
  BY <1>2, OperationType, Sizes DEF CopyReturn
<1>5. PICK d \in Activations : d = w.path[l + 1]
  BY <1>4, OperationType
<1>6. PICK x \in Operations : x = Returned(w, 0) /\ x.op = w.op /\ x.level = l + 1
                           /\ x.path[l + 1] = Activation(d.table, d.source, d.index + 1)
                           /\ \A j \in 1..Levels : j # l + 1 => x.path[j] = w.path[j]
  BY <1>2, <1>4, <1>5, ReturnedLaw
<1>7. /\ c.index = Entries /\ work' = [work EXCEPT ![s] = x]
      /\ mem' = mem /\ place' = place /\ next_frame' = next_frame /\ root' = root /\ asked' = asked
      /\ memory' = memory /\ leftover' = leftover /\ booted' = booted /\ fault' = fault
  BY <1>2, <1>3, <1>6 DEF CopyReturn, Goes, tables
<1>8. work' \in Seq(Operations) /\ Len(work') = Len(root) /\ Goes_on(s, x)
  BY <1>1, <1>7, WorkExcept
<1>9. TypeInv'
  BY <1>1, <1>7, <1>8, TypeWork DEF TypeInv
<1>10. TreeInv' /\ Stays /\ Touches(s)
  BY <1>7, SameTables
<1>11. /\ KernelInv' /\ KernelGot' /\ ReserveInv' /\ OrderInv' /\ ReserveSuffices'
       /\ OperationInv(s)' => WorkInv'
       /\ \A r \in DOMAIN root : StackEnd(r)' = StackEnd(r)
  BY <1>0, <1>2, <1>6, <1>7, <1>8, <1>10, CopyFrame
<1>12. StackInv'
  BY <1>7, <1>11, SameTables
<1>13. work'[s] = x
  BY <1>8 DEF Goes_on
<1>14. PathInv(s)'
  BY <1>1, <1>2, <1>6, <1>10, <1>13, PathReturned
<1>15. PICK n \in Nat : c.table \in DOMAIN mem /\ place[c.table].number = n
  BY <1>1, <1>2, <1>3, TopLaw
<1>16. /\ d.table \in DOMAIN mem /\ d.index \in Nat /\ place[d.table].number \in Nat
       /\ place[d.table].number * Entries + d.index = n
  <2>1. OnPath(s, w, l + 1)
    BY <1>1, <1>2, <1>4, Sizes DEF PathInv
  <2>2. w.path[(l + 1) - 1] = c
    BY <1>3, <1>4 DEF Top
  <2>3. l + 1 > w.level
    BY <1>4
  <2>4. d.table \in DOMAIN mem /\ place[d.table].number * Entries + d.index = place[c.table].number
    BY <1>5, <2>1, <2>2, <2>3 DEF OnPath
  <2>5. d.index \in Nat
    BY DEF Activations
  <2> QED BY <1>1, <1>15, <2>4, <2>5, TableLaw
<1>17. x.path[l + 1].table = d.table /\ x.path[l + 1].index = d.index + 1 /\ Top(x) = x.path[l + 1]
  BY <1>6 DEF Top, Activation
<1>18. ASSUME NEW t \in DOMAIN mem, KernelLeaf(t), Passed(x, place[t].number)'
       PROVE  Passed(w, place[t].number)
  <2>1. PICK m \in Nat : m = place[t].number
    BY <1>1, TableLaw
  <2>2. PICK q \in Nat : q = Prefix(m)[l - 2] /\ Prefix(m)[l - 1] = q \div Entries
    <3>1. l - 2 \in 0..Levels /\ l - 1 \in 1..Levels /\ (l - 1) - 1 = l - 2
      BY <1>4, Sizes
    <3>2. Prefix(m)[l - 2] \in Nat
      BY <3>1, PrefixNat
    <3>3. Prefix(m)[l - 1] = Prefix(m)[(l - 1) - 1] \div Entries
      BY <3>1, PrefixLaw
    <3> QED BY <3>1, <3>2, <3>3
  <2>3. Prefix(m)[l - 1] < place[d.table].number * Entries + (d.index + 1)
    <3>1. x.level # 1 /\ x.level - 2 = l - 1
      BY <1>4, <1>6
    <3> QED BY <1>7, <1>17, <1>18, <2>1, <3>1 DEF Passed
  <2>4. q \div Entries < n + 1
    <3>1. place[d.table].number * Entries \in Nat
      BY <1>16, Sizes
    <3> QED BY <1>16, <2>2, <2>3, <3>1
  <2>5. q < (n + 1) * Entries
    BY <2>4, DivOrder
  <2>6. (n + 1) * Entries = n * Entries + Entries
    BY Sizes
  <2>7. w.level # 1 /\ Prefix(m)[w.level - 2] < place[c.table].number * Entries + c.index
    BY <1>4, <1>7, <1>15, <2>2, <2>5, <2>6
  <2> QED BY <1>3, <2>1, <2>7 DEF Passed
<1>19. CopyInv(s)'
  <2>1. booted' /\ s # 1
    BY <1>1, <1>7 DEF CopyInv
  <2>2. ASSUME NEW t \in DOMAIN mem, KernelLeaf(t), Passed(x, place[t].number)' PROVE HasCopy(s, t)'
    <3>1. HasCopy(s, t)
      BY <1>1, <1>2, <1>18, <2>2 DEF CopyInv
    <3> QED BY <1>7, <2>2, <3>1, CopiesStay
  <2>3. ASSUME NEW u \in DOMAIN mem, place[u].space = s, place[u].level = 1 PROVE IsCopy(u)'
    <3>1. IsCopy(u)
      BY <1>1, <1>2, <1>4, <2>3 DEF CopyInv
    <3> QED BY <1>7, <2>3, <3>1, CopiesStay
  <2>4. \A u \in DOMAIN mem : place[u].space = s /\ place[u].level < Levels => Below(place[u])
    BY <1>1 DEF CopyInv
  <2>5. ASSUME NEW j \in x.level..Levels, j > 1, NEW i \in Slots,
               IF j = x.level THEN i >= x.path[j].index ELSE i > x.path[j].index, NEW u \in DOMAIN mem
        PROVE  place[u] # Child(x.path[j].table, i)
    <3>0. j \in w.level..Levels /\ j # w.level /\ j \in 1..Levels
      BY <1>4, <1>6, Sizes
    <3>1. x.path[j].table = w.path[j].table /\ i > w.path[j].index
      <4>1. CASE j = l + 1
        BY <1>5, <1>6, <1>16, <1>17, <2>5, <4>1, Sizes DEF Slots
      <4>2. CASE j # l + 1
        BY <1>6, <2>5, <3>0, <4>2
      <4> QED BY <4>1, <4>2
    <3> QED BY <1>1, <1>2, <2>5, <3>0, <3>1 DEF CopyInv
  <2>6. \A t \in DOMAIN mem : KernelLeaf(t)' <=> KernelLeaf(t)
    BY <1>7 DEF KernelLeaf
  <2> QED BY <1>7, <1>13, <2>1, <2>2, <2>3, <2>4, <2>5, <2>6 DEF CopyInv, Child, Below, Passed
<1>20. WorkInv'
  BY <1>0, <1>2, <1>6, <1>11, <1>13, <1>14, <1>19 DEF OperationInv
<1> QED BY <1>9, <1>10, <1>11, <1>12, <1>20 DEF SpaceInv

\* When the call for the root table returns, all of the kernel's last tables are
\* copied: they are below the stack.
LEMMA CopyReturnRoot ==
    ASSUME SpaceInv, NEW s \in DOMAIN root, CopyReturn(s), work[s].level = Levels
    PROVE  SpaceInv'
<1>0. work[s].op = "copy"
  BY DEF CopyReturn, Goes
<1>1. /\ TypeInv /\ TreeInv /\ KernelInv /\ StackInv /\ PathInv(s) /\ CopyInv(s) /\ s # 1
  BY <1>0, CopyContext DEF SpaceInv
<1>2. PICK w \in Operations : w = work[s]
  BY <1>1, SpaceLaw
<1>3. PICK c \in Activations : c = Top(w)
  BY OperationType
<1>4. /\ c.index = Entries /\ w.level = Levels /\ work' = [work EXCEPT ![s] = Idle]
      /\ mem' = mem /\ place' = place /\ next_frame' = next_frame /\ root' = root /\ asked' = asked
      /\ memory' = memory /\ leftover' = leftover /\ booted' = booted /\ fault' = fault
  BY <1>2, <1>3 DEF CopyReturn, Goes, tables, Returned
<1>5. work' \in Seq(Operations) /\ Len(work') = Len(root) /\ Goes_on(s, Idle)
  BY <1>1, <1>4, IdleLaw, WorkExcept
<1>6. TypeInv'
  BY <1>1, <1>4, <1>5, TypeWork DEF TypeInv
<1>7. TreeInv' /\ Stays /\ Touches(s) /\ (CopiedInv(s) => CopiedInv(s)')
  BY <1>1, <1>4, SameTables
<1>8. /\ KernelInv' /\ KernelGot' /\ ReserveInv' /\ OrderInv' /\ ReserveSuffices'
      /\ OperationInv(s)' => WorkInv'
      /\ \A r \in DOMAIN root : StackEnd(r)' = StackEnd(r)
  BY <1>0, <1>4, <1>5, <1>7, IdleLaw, CopyFrame
<1>9. StackInv'
  BY <1>4, <1>8, SameTables
<1>10. work'[s].op = "idle"
  BY <1>5, IdleLaw DEF Goes_on
<1>11. place[c.table].number = 0
  <2>1. c.table \in DOMAIN mem /\ place[c.table].level = Levels
    BY <1>1, <1>2, <1>3, TopLaw
  <2> QED BY <1>1, <2>1 DEF TreeInv, Roots
<1>12. ASSUME NEW t \in DOMAIN mem, KernelLeaf(t) PROVE Passed(w, place[t].number)
  <2>1. PICK m \in Nat : m = place[t].number
    BY <1>1, TableLaw
  <2>2. PICK q \in Nat : q = Prefix(StackPage)[1] /\ m <= q
    <3>1. Prefix(StackPage)[1] \in Nat
      BY Sizes, StackLaw, PrefixNat
    <3>2. Below(place[t]) /\ place[t].level = 1
      BY <1>1, <1>12, Sizes DEF KernelInv, KernelLeaf
    <3> QED BY <2>1, <3>1, <3>2 DEF Below
  <2>3. Levels - 2 \in 0..Levels /\ 1 \in 0..Levels /\ 1 + (Levels - 2) = Levels - 1 /\ Levels - 1 \in 0..Levels
        /\ 1 + (Levels - 2) <= Levels
    BY Sizes
  <2>4. Prefix(m)[Levels - 2] <= Prefix(q)[Levels - 2]
    BY <2>2, <2>3, PrefixOrder
  <2>5. Prefix(q)[Levels - 2] = Prefix(StackPage)[Levels - 1]
    BY <2>2, <2>3, StackLaw, PrefixPrefix
  <2>6. Prefix(StackPage)[Levels - 1] < Entries
    <3>1. StackPage \in Pages
      BY AddressSpaceAssumption
    <3> QED BY <3>1, RootPrefix
  <2>7. Prefix(m)[Levels - 2] \in Nat /\ Prefix(q)[Levels - 2] \in Nat
    BY <2>3, PrefixNat
  <2>8. Prefix(m)[Levels - 2] < Entries
    BY <2>4, <2>5, <2>6, <2>7, Sizes
  <2>9. Prefix(m)[Levels - 2] < 0 * Entries + Entries
    BY <2>8, Sizes
  <2> QED BY <1>3, <1>4, <1>11, <2>1, <2>9, Sizes DEF Passed
<1>13. CopiedInv(s)
  <2>1. \A t \in DOMAIN mem : KernelLeaf(t) => HasCopy(s, t)
    BY <1>1, <1>2, <1>12 DEF CopyInv
  <2>2. \A u \in DOMAIN mem : place[u].space = s /\ place[u].level = 1 => IsCopy(u)
    BY <1>1, <1>2, <1>4, Sizes DEF CopyInv
  <2> QED BY <2>1, <2>2 DEF CopiedInv
<1>14. WorkInv'
  BY <1>7, <1>8, <1>10, <1>13 DEF OperationInv
<1> QED BY <1>6, <1>7, <1>8, <1>9, <1>14 DEF SpaceInv

LEMMA CopyReturnKept ==
    ASSUME SpaceInv, NEW s \in DOMAIN root, CopyReturn(s)
    PROVE  SpaceInv'
<1>1. work[s] \in Operations
  BY SpaceLaw DEF SpaceInv
<1>2. work[s].level < Levels \/ work[s].level = Levels
  BY <1>1, OperationType, Sizes
<1> QED BY <1>2, CopyReturnInner, CopyReturnRoot

\* The last level is copied as it is.
LEMMA CopyLastKept ==
    ASSUME SpaceInv, NEW s \in DOMAIN root, CopyLast(s)
    PROVE  SpaceInv'
<1>0. work[s].op = "copy"
  BY DEF CopyLast, Goes
<1>1. /\ TypeInv /\ TreeInv /\ KernelInv /\ StackInv /\ PathInv(s) /\ CopyInv(s) /\ s # 1
  BY <1>0, CopyContext DEF SpaceInv
<1>2. PICK w \in Operations : w = work[s]
  BY <1>1, SpaceLaw
<1>3. PICK c \in Activations : c = Top(w)
  BY OperationType
<1>4. w.level = 1 /\ 1 < Levels /\ 1 + 1 \in 1..Levels /\ 2 \in 1..Levels /\ w.level < Levels
  BY <1>2, Sizes DEF CopyLast
<1>5. PICK d \in Activations : d = w.path[2]
  BY <1>4, OperationType
<1>6. PICK x \in Operations : x = Returned(w, 0) /\ x.op = w.op /\ x.level = 2
                           /\ x.path[2] = Activation(d.table, d.source, d.index + 1)
                           /\ \A j \in 1..Levels : j # 2 => x.path[j] = w.path[j]
  <2>1. PICK x \in Operations : x = Returned(w, 0) /\ x.op = w.op /\ x.level = w.level + 1
                             /\ x.path[w.level + 1] = Activation(w.path[w.level + 1].table,
                                        w.path[w.level + 1].source, w.path[w.level + 1].index + 1)
                             /\ \A j \in 1..Levels : j # w.level + 1 => x.path[j] = w.path[j]
    BY <1>4, ReturnedLaw
  <2>2. w.level + 1 = 2
    BY <1>4
  <2> QED BY <1>5, <2>1, <2>2
<1>7. /\ work' = [work EXCEPT ![s] = x] /\ mem' = [mem EXCEPT ![c.table] = mem[c.source]]
      /\ place' = place /\ next_frame' = next_frame /\ root' = root /\ asked' = asked
      /\ memory' = memory /\ leftover' = leftover /\ booted' = booted /\ fault' = fault
  BY <1>2, <1>3, <1>6 DEF CopyLast, Goes
<1>8. work' \in Seq(Operations) /\ Len(work') = Len(root) /\ Goes_on(s, x)
  BY <1>1, <1>7, WorkExcept
<1>9. PICK n \in Nat :
        /\ c.table \in DOMAIN mem /\ place[c.table].number = n /\ place[c.table].space = s /\ place[c.table].level = 1
        /\ c.source \in DOMAIN mem /\ place[c.source] = Placed(1, 1, n)
  BY <1>0, <1>1, <1>2, <1>3, <1>4, TopLaw
<1>10. /\ mem' \in [DOMAIN mem -> [Slots -> Entry]] /\ mem'[c.table] = mem[c.source]
       /\ \A t \in DOMAIN mem : t # c.table => mem'[t] = mem[t]
  <2> DEFINE S == [Slots -> Entry]
             D == DOMAIN mem
  <2>1. mem \in [D -> S] /\ mem[c.source] \in S /\ c.table \in D
    BY <1>1, <1>9, TableLaw DEF TypeInv
  <2> HIDE DEF S, D
  <2>2. mem' \in [D -> S] /\ mem'[c.table] = mem[c.source] /\ \A t \in D : t # c.table => mem'[t] = mem[t]
    BY <1>7, <2>1
  <2> QED BY <2>2 DEF S, D
<1>11. TypeInv' /\ Touches(s) /\ Leafwise /\ DOMAIN mem' = DOMAIN mem
  <2>1. /\ next_frame' \in [{"Kernel", "User"} -> Nat] /\ next_frame'["Kernel"] = next_frame["Kernel"]
        /\ next_frame'["User"] \in memory.kernel_phys_limit..memory.phys_limit
    BY <1>1, <1>7 DEF TypeInv
  <2>2. PICK m : m = mem'
    OBVIOUS
  <2> QED BY <1>1, <1>7, <1>8, <1>9, <1>10, <2>1, <2>2, WriteLaw
<1>12. TreeInv' /\ Stays
  BY <1>1, <1>7, <1>11, TreeLeafwise DEF Stays
<1>13. /\ KernelInv' /\ KernelGot' /\ ReserveInv' /\ OrderInv' /\ ReserveSuffices'
       /\ OperationInv(s)' => WorkInv'
       /\ \A r \in DOMAIN root : StackEnd(r)' = StackEnd(r)
  BY <1>0, <1>2, <1>6, <1>7, <1>8, <1>11, CopyFrame
<1>14. Below(place[c.table])
  BY <1>1, <1>4, <1>9 DEF CopyInv
<1>15. StackInv'
  <2>1. ASSUME NEW t \in DOMAIN mem, StackTable(t)
        PROVE  mem'[t] = mem[t] /\ StackEnd(place[t].space)' = StackEnd(place[t].space)
    <3>1. mem'[t] = mem[t]
      BY <1>10, <1>14, <2>1 DEF StackTable
    <3>2. PICK r \in DOMAIN root : r = place[t].space
      BY <1>1, TableLaw
    <3>3. StackEnd(r)' = StackEnd(r)
      BY <1>13
    <3> QED BY <1>7, <3>1, <3>2, <3>3
  <2>2. \A r \in DOMAIN root' \ {1} : r \in DOMAIN root /\ StackEnd(r)' = StackEnd(r)
    BY <1>7, <1>13
  <2> QED BY <1>1, <1>7, <1>11, <2>1, <2>2, StackKept
<1>16. work'[s] = x
  BY <1>8 DEF Goes_on
<1>17. PathInv(s)'
  BY <1>1, <1>2, <1>4, <1>6, <1>12, <1>16, PathReturned
<1>18. /\ d.table \in DOMAIN mem /\ d.index \in Nat /\ place[d.table].number \in Nat
       /\ place[d.table].number * Entries + d.index = n
  <2>1. OnPath(s, w, 2)
    BY <1>1, <1>2, <1>4, Sizes DEF PathInv
  <2>2. w.path[2 - 1] = c /\ 2 > w.level
    BY <1>3, <1>4 DEF Top
  <2>3. d.table \in DOMAIN mem /\ place[d.table].number * Entries + d.index = place[c.table].number
    BY <1>5, <2>1, <2>2 DEF OnPath
  <2>4. d.index \in Nat
    BY DEF Activations
  <2> QED BY <1>1, <1>9, <2>3, <2>4, TableLaw
<1>19. x.path[2].table = d.table /\ x.path[2].index = d.index + 1 /\ Top(x) = x.path[2]
  BY <1>6 DEF Top, Activation
<1>20. \A t \in DOMAIN mem : KernelLeaf(t)' <=> KernelLeaf(t)
  BY <1>7 DEF KernelLeaf
<1>21. ASSUME NEW t \in DOMAIN mem, KernelLeaf(t), Passed(x, place[t].number)'
       PROVE  Passed(w, place[t].number) \/ t = c.source
  <2>1. PICK m \in Nat : m = place[t].number
    BY <1>1, TableLaw
  <2>2. m < place[d.table].number * Entries + (d.index + 1)
    <3>1. x.level # 1 /\ x.level - 2 = 0 /\ Prefix(m)[0] = m
      BY <1>6, PrefixLaw
    <3>2. Prefix(m)[x.level - 2] < place[d.table].number * Entries + (d.index + 1)
      BY <1>7, <1>19, <1>21, <2>1, <3>1 DEF Passed
    <3> QED BY <3>1, <3>2
  <2>3. m < n \/ m = n
    <3>1. place[d.table].number * Entries \in Nat
      BY <1>18, Sizes
    <3> QED BY <1>18, <2>2, <3>1
  <2>4. CASE m < n
    BY <1>3, <1>4, <1>9, <2>1, <2>4 DEF Passed
  <2>5. CASE m = n
    <3>1. place[t] = place[c.source]
      BY <1>1, <1>9, <1>21, <2>1, <2>5, TableLaw DEF KernelLeaf
    <3> QED BY <1>1, <1>9, <3>1 DEF TreeInv, Distinct
  <2> QED BY <2>3, <2>4, <2>5
<1>22. ASSUME NEW t \in DOMAIN mem, KernelLeaf(t) PROVE mem'[t] = mem[t]
  BY <1>1, <1>9, <1>10, <1>22 DEF KernelLeaf
<1>23. place[c.table] = Placed(s, 1, n) /\ place[c.source].number = n /\ KernelLeaf(c.source)
  BY <1>1, <1>9, TableLaw, PlacedLaw DEF KernelLeaf
<1>24. CopyInv(s)'
  <2>1. booted' /\ s # 1
    BY <1>1, <1>7 DEF CopyInv
  <2>2. ASSUME NEW t \in DOMAIN mem, KernelLeaf(t), Passed(x, place[t].number)' PROVE HasCopy(s, t)'
    <3>1. CASE t = c.source
      <4>1. mem'[c.table] = mem'[t] /\ place'[c.table] = Placed(s, 1, place'[t].number)
        BY <1>7, <1>10, <1>22, <1>23, <2>2, <3>1
      <4> QED BY <1>9, <1>11, <4>1 DEF HasCopy
    <3>2. CASE t # c.source
      <4>1. Passed(w, place[t].number)
        BY <1>21, <2>2, <3>2
      <4>2. place[t].number # n
        <5> SUFFICES ASSUME place[t].number = n PROVE FALSE
          OBVIOUS
        <5>1. place[t] = place[c.source]
          BY <1>1, <1>9, <2>2, TableLaw DEF KernelLeaf
        <5> QED BY <1>1, <1>9, <3>2, <5>1 DEF TreeInv, Distinct
      <4>3. PICK u \in DOMAIN mem : place[u] = Placed(s, 1, place[t].number) /\ mem[u] = mem[t]
        BY <1>1, <1>2, <2>2, <4>1 DEF CopyInv, HasCopy
      <4>4. u # c.table
        BY <1>9, <4>2, <4>3, PlacedLaw
      <4>5. mem'[u] = mem'[t] /\ place'[u] = Placed(s, 1, place'[t].number)
        BY <1>7, <1>10, <1>22, <2>2, <4>3, <4>4
      <4> QED BY <1>11, <4>3, <4>5 DEF HasCopy
    <3> QED BY <3>1, <3>2
  <2>3. ASSUME NEW u \in DOMAIN mem, place[u].space = s, place[u].level = 1 PROVE IsCopy(u)'
    <3>1. CASE u = c.table
      <4>1. mem'[u] = mem'[c.source] /\ KernelLeaf(c.source)' /\ place'[c.source].number = place'[u].number
        BY <1>7, <1>9, <1>10, <1>20, <1>22, <1>23, <3>1
      <4> QED BY <1>9, <1>11, <4>1 DEF IsCopy
    <3>2. CASE u # c.table
      <4>1. IsCopy(u)
        BY <1>1, <1>2, <1>3, <2>3, <3>2 DEF CopyInv
      <4>2. PICK t \in DOMAIN mem : KernelLeaf(t) /\ place[t].number = place[u].number /\ mem[u] = mem[t]
        BY <4>1 DEF IsCopy
      <4>3. mem'[u] = mem'[t] /\ KernelLeaf(t)' /\ place'[t].number = place'[u].number
        BY <1>7, <1>10, <1>20, <1>22, <3>2, <4>2
      <4> QED BY <1>11, <4>2, <4>3 DEF IsCopy
    <3> QED BY <3>1, <3>2
  <2>4. \A u \in DOMAIN mem : place[u].space = s /\ place[u].level < Levels => Below(place[u])
    BY <1>1 DEF CopyInv
  <2>5. ASSUME NEW j \in x.level..Levels, j > 1, NEW i \in Slots,
               IF j = x.level THEN i >= x.path[j].index ELSE i > x.path[j].index, NEW u \in DOMAIN mem
        PROVE  place[u] # Child(x.path[j].table, i)
    <3>0. j \in w.level..Levels /\ j # w.level /\ j \in 1..Levels
      BY <1>4, <1>6, Sizes
    <3>1. x.path[j].table = w.path[j].table /\ i > w.path[j].index
      <4>1. CASE j = 2
        BY <1>5, <1>6, <1>18, <1>19, <2>5, <4>1, Sizes DEF Slots
      <4>2. CASE j # 2
        BY <1>6, <2>5, <3>0, <4>2
      <4> QED BY <4>1, <4>2
    <3> QED BY <1>1, <1>2, <2>5, <3>0, <3>1 DEF CopyInv
  <2> QED BY <1>7, <1>11, <1>16, <1>20, <2>1, <2>2, <2>3, <2>4, <2>5 DEF CopyInv, Child, Below, Passed
<1>25. WorkInv'
  BY <1>0, <1>2, <1>6, <1>13, <1>16, <1>17, <1>24 DEF OperationInv
<1> QED BY <1>11, <1>12, <1>13, <1>15, <1>25 DEF SpaceInv

\* The kernel's entries that are copied lead to tables below the stack.
LEMMA CopyEntry ==
    ASSUME SpaceInv, NEW s \in DOMAIN root, work[s].op = "copy", work[s].level > 1,
           Top(work[s]).index < Entries,
           mem[Top(work[s]).source][Top(work[s]).index] # Unused
    PROVE  LET c == Top(work[s])
               e == mem[c.source][c.index]
           IN  /\ e.flags = "present" /\ e.addr \in DOMAIN mem
               /\ place[e.addr] = Placed(1, work[s].level - 1, place[c.table].number * Entries + c.index)
               /\ Below(Child(c.table, c.index))
<1>1. TypeInv /\ TreeInv /\ KernelInv /\ PathInv(s)
  BY CopyContext DEF SpaceInv
<1>2. PICK w \in Operations : w = work[s]
  BY <1>1, SpaceLaw
<1>3. PICK c \in Activations : c = Top(w)
  BY OperationType
<1>4. PICK l \in Nat, n \in Nat :
        /\ l = w.level /\ l > 1 /\ l \in 1..Levels
        /\ c.table \in DOMAIN mem /\ c.index \in Slots
        /\ place[c.table].number = n /\ place[c.table].level = l
        /\ c.source \in DOMAIN mem /\ place[c.source] = Placed(1, l, n)
  BY <1>1, <1>2, <1>3, TopLaw, Sizes DEF Slots
<1>5. place[c.source].space = 1 /\ place[c.source].level = l /\ place[c.source].number = n
  BY <1>4, PlacedLaw
<1>6. Linked(c.source, c.index)
  BY <1>1, <1>2, <1>3, <1>4, <1>5 DEF TreeInv, Children
<1>7. PICK k \in DOMAIN mem :
        /\ k = mem[c.source][c.index].addr /\ mem[c.source][c.index].flags = "present"
        /\ place[k] = Placed(1, l - 1, n * Entries + c.index)
  BY <1>5, <1>6 DEF Linked, Child
<1>8. place[k].space = 1 /\ place[k].level = l - 1 /\ place[k].number = n * Entries + c.index
  BY <1>7, PlacedLaw
<1>9. Below(place[k])
  <2>1. l - 1 < Levels
    BY <1>4, Sizes
  <2> QED BY <1>1, <1>8, <2>1 DEF KernelInv
<1>10. Child(c.table, c.index).level = place[k].level /\ Child(c.table, c.index).number = place[k].number
  BY <1>4, <1>8, PlacedLaw DEF Child
<1>11. Below(Child(c.table, c.index))
  BY <1>9, <1>10 DEF Below
<1> QED BY <1>2, <1>3, <1>4, <1>7, <1>11

\* Above the last level the copy gets a table of its own.
LEMMA CopyTableKept ==
    ASSUME SpaceInv, NEW s \in DOMAIN root, CopyTable(s)
    PROVE  SpaceInv'
<1>0. /\ work[s].op = "copy" /\ work[s].level > 1 /\ Top(work[s]).index < Entries
      /\ mem[Top(work[s]).source][Top(work[s]).index] # Unused
      /\ memory' = memory /\ leftover' = leftover /\ booted' = booted
  BY DEF CopyTable, Goes
<1>1. /\ TypeInv /\ TreeInv /\ KernelInv /\ StackInv /\ PathInv(s) /\ CopyInv(s) /\ s # 1
  BY <1>0, CopyContext DEF SpaceInv
<1>2. PICK w \in Operations : w = work[s]
  BY <1>1, SpaceLaw
<1>3. PICK c \in Activations : c = Top(w)
  BY OperationType
<1>4. PICK k \in DOMAIN mem :
        /\ k = mem[c.source][c.index].addr /\ mem[c.source][c.index].flags = "present"
        /\ place[k] = Placed(1, w.level - 1, place[c.table].number * Entries + c.index)
        /\ Below(Child(c.table, c.index))
  BY <1>0, <1>2, <1>3, CopyEntry
<1>5. PICK contents : contents = [i \in Slots |-> leftover]
  OBVIOUS
<1>6. Grow(s, contents, "present", k, 0)
  BY <1>2, <1>3, <1>4, <1>5 DEF CopyTable
<1>7. CASE ~Free("Kernel")
  <2>1. Panic("exhausted")
    BY <1>6, <1>7 DEF Grow
  <2> QED BY <1>0, <1>1, <2>1, PanicKept
<1>8. CASE Free("Kernel")
  <2>1. contents \in [Slots -> Entry] /\ \A i \in Slots : contents[i] = leftover
    BY <1>1, <1>5, MemoryLaw
  <2>2. k \in Nat /\ 0 \in Nat
    BY <1>1, TableLaw
  <2>3. PICK f : f = Fresh
    OBVIOUS
  <2>4. /\ c.table \in DOMAIN mem /\ c.index \in Slots
        /\ place[c.table].space = s /\ place[c.table].level = w.level
        /\ Grown(c.table, c.index, f) /\ mem'[f] = contents
        /\ Touches(s) /\ TypeInv' /\ next_frame'["User"] = next_frame["User"]
        /\ Called(w, f, k, 0) \in Operations /\ Goes_on(s, Called(w, f, k, 0))
        /\ asked' = asked /\ fault' = fault
    BY <1>0, <1>1, <1>2, <1>3, <1>6, <1>8, <2>1, <2>2, <2>3, GrowLaw
  <2>5. f \notin DOMAIN mem /\ f \in Nat
    BY <1>1, <2>3, TableLaw
  <2>6. PICK l \in Nat, n \in Nat : l = w.level /\ l > 1 /\ l \in 1..Levels /\ n = place[c.table].number
    BY <1>0, <1>1, <1>2, <2>4, OperationType, TableLaw
  <2>7. PICK N \in Nat : N = n * Entries + c.index /\ N \div Entries = n /\ N % Entries = c.index
    BY <2>4, <2>6, DivMod
  <2>8. Child(c.table, c.index) = Placed(s, l - 1, N)
    BY <2>4, <2>6, <2>7 DEF Child
  <2>9. /\ root' = root /\ DOMAIN mem' = DOMAIN mem \cup {f} /\ place'[f] = Placed(s, l - 1, N)
        /\ \A t \in DOMAIN mem : place'[t] = place[t] /\ (t # c.table => mem'[t] = mem[t])
    BY <2>4, <2>8 DEF Grown
  <2>10. place'[f].space = s /\ place'[f].level = l - 1 /\ place'[f].number = N
    BY <2>9, PlacedLaw
  <2>11. PICK x \in Operations : x = Called(w, f, k, 0) /\ x.op = w.op /\ x.level = l - 1
                           /\ x.path[l - 1] = Activation(f, k, 0)
                           /\ \A j \in 1..Levels : j # l - 1 => x.path[j] = w.path[j]
    <3>0. w.level > 1 /\ 0 \in Nat
      BY <2>6
    <3>1. PICK x \in Operations : x = Called(w, f, k, 0) /\ x.op = w.op /\ x.level = w.level - 1
                             /\ x.path[w.level - 1] = Activation(f, k, 0)
                             /\ \A j \in 1..Levels : j # w.level - 1 => x.path[j] = w.path[j]
      BY <2>2, <2>5, <3>0, CalledLaw
    <3> QED BY <2>6, <3>1
  <2>12. work'[s] = x /\ Goes_on(s, x)
    BY <2>4, <2>11 DEF Goes_on
  <2>13. ASSUME NEW j \in w.level..Levels, j > 1, NEW i \in Slots,
                IF j = w.level THEN i >= w.path[j].index ELSE i > w.path[j].index, NEW u \in DOMAIN mem
         PROVE  place[u] # Child(w.path[j].table, i)
    BY <1>1, <1>2, <2>13 DEF CopyInv
  <2>14. ASSUME NEW u \in DOMAIN mem PROVE place[u] # Child(c.table, c.index)
    <3>1. w.level \in w.level..Levels /\ w.level > 1 /\ w.path[w.level] = c /\ c.index >= c.index
      BY <1>3, <2>4, <2>6, Sizes DEF Top, Slots
    <3> QED BY <2>4, <2>13, <3>1
  <2>15. TreeInv'
    <3>1. \A i \in Slots : place[c.table].space # 1 /\ Below(Child(c.table, c.index)) /\ mem'[f][i] = leftover
      BY <1>1, <1>4, <2>1, <2>4
    <3> QED BY <1>1, <2>4, <2>5, <2>6, <2>14, <3>1, TreeGrown
  <2>16. /\ KernelInv' /\ KernelGot' /\ ReserveInv' /\ OrderInv' /\ ReserveSuffices'
         /\ OperationInv(s)' => WorkInv'
         /\ \A r \in DOMAIN root : StackEnd(r)' = StackEnd(r)
    BY <1>0, <1>2, <2>4, <2>9, <2>11, <2>12, CopyFrame
  <2>17. Below(place'[f]) /\ place'[f] = Child(c.table, c.index)
    BY <1>4, <2>8, <2>9
  <2>18. StackInv'
    <3>1. ASSUME NEW t \in DOMAIN mem, StackTable(t)
          PROVE  mem'[t] = mem[t] /\ StackEnd(place[t].space)' = StackEnd(place[t].space)
      <4>1. mem'[t] = mem[t]
        BY <2>4, <2>6, <2>9, <3>1 DEF StackTable
      <4>2. PICK r \in DOMAIN root : r = place[t].space
        BY <1>1, TableLaw
      <4>3. StackEnd(r)' = StackEnd(r)
        BY <2>16
      <4>4. place'[t] = place[t]
        BY <2>9
      <4> QED BY <4>1, <4>2, <4>3, <4>4
    <3>2. \A r \in DOMAIN root' \ {1} : r \in DOMAIN root /\ StackEnd(r)' = StackEnd(r)
      BY <2>9, <2>16
    <3>3. ~StackTable(f)'
      BY <2>17 DEF StackTable, Below
    <3> QED BY <1>0, <1>1, <2>4, <2>9, <3>1, <3>2, <3>3, StackKept
  <2>19. PathInv(s)'
    <3>1. Stays
      BY <2>9 DEF Stays
    <3>2. k \in DOMAIN mem' /\ place'[k] = Placed(1, w.level - 1, place'[f].number)
      BY <1>4, <2>6, <2>7, <2>9, <2>10
    <3>3. f \in DOMAIN mem' /\ 0 \in 0..Entries
      BY <2>9, Sizes
    <3>4. work'[s] = Called(work[s], f, k, 0)
      BY <1>2, <2>11, <2>12
    <3> QED BY <1>0, <1>1, <1>2, <1>3, <2>2, <2>5, <2>17, <3>1, <3>2, <3>3, <3>4, PathCalled
  <2>20. x.path[l - 1].table = f /\ x.path[l - 1].index = 0 /\ Top(x) = x.path[l - 1]
    BY <2>11 DEF Top, Activation
  <2>21. ASSUME NEW t \in DOMAIN mem, Passed(x, place[t].number)' PROVE Passed(w, place[t].number)
    <3>1. PICK m \in Nat : m = place[t].number
      BY <1>1, TableLaw
    <3>2. Prefix(m)[l - 2] < N
      <4>1. CASE l = 2
        <5>1. x.level = 1 /\ l - 2 = 0 /\ Prefix(m)[0] = m
          BY <2>11, <4>1, PrefixLaw
        <5>2. m < N
          BY <2>9, <2>10, <2>20, <2>21, <3>1, <5>1 DEF Passed
        <5> QED BY <5>1, <5>2
      <4>2. CASE l # 2
        <5>1. l - 3 \in 0..Levels /\ l - 2 \in 1..Levels /\ (l - 2) - 1 = l - 3 /\ x.level # 1 /\ x.level - 2 = l - 3
          BY <2>6, <2>11, <4>2, Sizes
        <5>2. Prefix(m)[l - 3] < N * Entries + 0
          BY <2>9, <2>10, <2>20, <2>21, <3>1, <5>1 DEF Passed
        <5>3. PICK q \in Nat : q = Prefix(m)[l - 3]
          BY <5>1, PrefixNat
        <5>4. Prefix(m)[l - 2] = q \div Entries
          BY <5>1, <5>3, PrefixLaw
        <5>5. q < N * Entries
          <6>1. N * Entries \in Nat
            BY Sizes
          <6> QED BY <5>2, <5>3, <6>1
        <5> QED BY <5>4, <5>5, DivOrder
      <4> QED BY <4>1, <4>2
    <3>3. w.level # 1 /\ Prefix(m)[w.level - 2] < place[c.table].number * Entries + c.index
      BY <2>6, <2>7, <3>2
    <3> QED BY <1>3, <3>1, <3>3 DEF Passed
  <2>22. /\ \A t \in DOMAIN mem : KernelLeaf(t)' <=> KernelLeaf(t)
         /\ \A t \in DOMAIN mem : KernelLeaf(t) /\ HasCopy(s, t) => HasCopy(s, t)'
         /\ \A u \in DOMAIN mem : place[u].level = 1 /\ IsCopy(u) => IsCopy(u)'
    <3>1. \A t \in DOMAIN mem : place'[t] = place[t] /\ (place[t].level = 1 => mem'[t] = mem[t])
      BY <2>4, <2>6, <2>9
    <3> QED BY <2>9, <3>1, CopiesStay
  <2>23. CopyInv(s)'
    <3>1. booted' /\ s # 1
      BY <1>0, <1>1 DEF CopyInv
    <3>2. ASSUME NEW t \in DOMAIN mem', KernelLeaf(t)', Passed(x, place[t].number)' PROVE HasCopy(s, t)'
      <4>1. t \in DOMAIN mem
        BY <1>1, <2>9, <2>10, <3>2 DEF KernelLeaf
      <4>2. place'[t] = place[t] /\ KernelLeaf(t)
        BY <2>9, <2>22, <3>2, <4>1
      <4>3. HasCopy(s, t)
        BY <1>1, <1>2, <2>21, <3>2, <4>1, <4>2 DEF CopyInv
      <4> QED BY <2>22, <4>1, <4>2, <4>3
    <3>3. ASSUME NEW u \in DOMAIN mem', place'[u].space = s, place'[u].level = 1
          PROVE  IsCopy(u)' \/ (x.level = 1 /\ u = Top(x).table)
      <4>1. CASE u = f
        BY <2>10, <2>11, <2>20, <3>3, <4>1
      <4>2. CASE u # f
        <5>1. u \in DOMAIN mem /\ place[u].space = s /\ place[u].level = 1
          BY <2>9, <3>3, <4>2
        <5>2. IsCopy(u)
          BY <1>1, <1>2, <2>6, <5>1 DEF CopyInv
        <5> QED BY <2>22, <5>1, <5>2
      <4> QED BY <4>1, <4>2
    <3>4. ASSUME NEW u \in DOMAIN mem', place'[u].space = s, place'[u].level < Levels PROVE Below(place'[u])
      <4>1. CASE u = f
        BY <2>17, <4>1
      <4>2. CASE u # f
        BY <1>1, <2>9, <3>4, <4>2 DEF CopyInv
      <4> QED BY <4>1, <4>2
    <3>5. ASSUME NEW j \in x.level..Levels, j > 1, NEW i \in Slots,
                 IF j = x.level THEN i >= x.path[j].index ELSE i > x.path[j].index, NEW u \in DOMAIN mem'
          PROVE  place'[u] # Child(x.path[j].table, i)'
      <4>0. j \in Nat /\ j \in 1..Levels
        BY <2>6, <2>11, Sizes
      <4>1. CASE j = l - 1
        <5>1. Child(x.path[j].table, i)' = Placed(s, l - 2, N * Entries + i)
          <6>1. (l - 1) - 1 = l - 2
            BY <2>6
          <6> QED BY <2>10, <2>20, <4>1, <6>1 DEF Child
        <5>2. CASE u = f
          <6>1. Placed(s, l - 2, N * Entries + i).level = l - 2
            BY PlacedLaw
          <6> QED BY <2>6, <2>10, <5>1, <5>2, <6>1
        <5>3. CASE u # f
          <6>1. u \in DOMAIN mem /\ place'[u] = place[u]
            BY <2>9, <5>3
          <6>2. SUFFICES ASSUME place[u] = Placed(s, l - 2, N * Entries + i) PROVE FALSE
            BY <5>1, <6>1
          <6>3. place[u].space = s /\ place[u].level = l - 2 /\ place[u].number = N * Entries + i
            BY <6>2, PlacedLaw
          <6>4. (N * Entries + i) \div Entries = N
            BY DivMod
          <6>5. l - 2 < Levels /\ (l - 2) + 1 = l - 1
            BY <2>6, Sizes
          <6>6. PICK v \in DOMAIN mem : place[v] = Placed(s, l - 1, N)
            BY <1>1, <6>1, <6>3, <6>4, <6>5, Parent
          <6> QED BY <2>8, <2>14, <6>6
        <5> QED BY <5>2, <5>3
      <4>2. CASE j # l - 1
        <5>1. j \in w.level..Levels /\ x.path[j] = w.path[j] /\ i > w.path[j].index
          BY <2>6, <2>11, <3>5, <4>0, <4>2, Sizes
        <5>2. PICK d \in Activations : d = w.path[j]
          BY <4>0, OperationType
        <5>3. d.table \in DOMAIN mem /\ place[d.table].space = s /\ place[d.table].level = j
          BY <1>1, <1>2, <5>1, <5>2 DEF PathInv, OnPath
        <5>4. Child(x.path[j].table, i)' = Child(d.table, i)
          <6>1. place'[d.table] = place[d.table]
            BY <2>9, <5>3
          <6> QED BY <5>1, <5>2, <6>1 DEF Child
        <5>5. d.index \in Nat /\ i \in Nat
          BY <5>2, Sizes DEF Activations, Slots
        <5>6. CASE u # f
          <6>1. u \in DOMAIN mem /\ place'[u] = place[u]
            BY <2>9, <5>6
          <6>2. place[u] # Child(w.path[j].table, i)
            <7>1. i > w.path[j].index /\ i >= w.path[j].index
              BY <5>1, <5>2, <5>5
            <7> QED BY <2>13, <3>5, <5>1, <6>1, <7>1
          <6> QED BY <5>2, <5>4, <6>1, <6>2
        <5>7. CASE u = f
          <6>1. Child(d.table, i) = Placed(s, j - 1, place[d.table].number * Entries + i)
            BY <5>3 DEF Child
          <6>2. SUFFICES ASSUME Placed(s, l - 1, N) = Placed(s, j - 1, place[d.table].number * Entries + i) PROVE FALSE
            BY <2>9, <5>4, <5>7, <6>1
          <6>3. l - 1 = j - 1 /\ N = place[d.table].number * Entries + i
            BY <6>2, PlacedLaw
          <6>4. j = l
            BY <2>6, <4>0, <6>3
          <6>5. d = c /\ i > c.index
            BY <1>3, <2>6, <5>1, <5>2, <6>4 DEF Top
          <6>6. N % Entries = i
            BY <2>6, <6>3, <6>5, DivMod
          <6> QED BY <2>7, <5>5, <6>5, <6>6
        <5> QED BY <5>6, <5>7
      <4> QED BY <4>1, <4>2
    <3> QED BY <2>12, <3>1, <3>2, <3>3, <3>4, <3>5 DEF CopyInv, Below
  <2>24. WorkInv'
    BY <1>0, <1>2, <2>11, <2>12, <2>16, <2>19, <2>23 DEF OperationInv
  <2> QED BY <2>4, <2>15, <2>16, <2>18, <2>24 DEF SpaceInv
<1> QED BY <1>7, <1>8

-----------------------------------------------------------------------------
(* New address spaces. *)

\* There is a frame for the kernel's root table.
LEMMA FirstFree ==
    ASSUME TypeInv, root = <<>>
    PROVE  DOMAIN mem = {} /\ Free("Kernel")
<1>1. DOMAIN root = {}
  OBVIOUS
<1>2. DOMAIN mem = {}
  BY <1>1, TableLaw
<1>3. PICK limit \in Nat, K \in Nat : limit = memory.phys_limit /\ K = memory.kernel_phys_limit
                       /\ limit > 0 /\ PageTables(limit) < K /\ limit <= StackPage
  BY MemoryLaw
<1>4. PageTables(limit) \in Nat /\ PageTables(limit) >= 1
  BY RootCounted
<1>5. K > 1
  BY <1>3, <1>4
<1>6. Fresh = 1
  <2>1. Fresh \in Nat /\ Fresh >= 1 /\ DOMAIN mem = 1..(Fresh - 1)
    BY TableLaw
  <2>2. Fresh > 1 => 1 \in 1..(Fresh - 1)
    BY <2>1
  <2> QED BY <1>2, <2>1, <2>2
<1> QED BY <1>2, <1>3, <1>5, <1>6 DEF Free, PoolEnd, Fresh

LEMMA CreateKernelKept ==
    ASSUME SpaceInv, CreateKernelSpace
    PROVE  SpaceInv'
<1>1. TypeInv /\ TreeInv /\ OrderInv /\ StackInv /\ KernelInv
  BY DEF SpaceInv
<1>2. /\ fault = "none" /\ root = <<>> /\ memory' = memory /\ leftover' = leftover /\ booted' = booted
      /\ NewSpace(map(Fresh, MemoryRequest))
  BY DEF CreateKernelSpace
<1>3. DOMAIN mem = {} /\ Free("Kernel") /\ Len(root) = 0 /\ DOMAIN root = {}
  BY <1>1, <1>2, FirstFree
<1>4. PICK f \in Nat : f = Fresh /\ f \notin DOMAIN mem
  BY <1>1, TableLaw
<1>5. PICK r \in Requests(1) : r = MemoryRequest
  BY DEF Requests
<1>6. PICK w \in Operations : w = map(f, r)
  BY <1>1, MapStarts
<1>7. Len(root) + 1 = 1
  BY <1>3
<1>8. /\ Rooted(f) /\ Touches(1) /\ TypeInv'
      /\ next_frame'["User"] = next_frame["User"]
      /\ DOMAIN root' = {1} /\ work'[1] = map(f, r) /\ asked'[1] = {}
      /\ DOMAIN mem' = {f} /\ fault' = fault
  <2>1. /\ Rooted(f) /\ Touches(Len(root) + 1) /\ TypeInv'
        /\ next_frame'["User"] = next_frame["User"]
        /\ DOMAIN root' = DOMAIN root \cup {Len(root) + 1} /\ work'[Len(root) + 1] = w /\ asked'[Len(root) + 1] = {}
        /\ DOMAIN mem' = DOMAIN mem \cup {f} /\ fault' = fault
    BY <1>1, <1>2, <1>3, <1>4, <1>5, <1>6, NewSpaceLaw
  <2> QED BY <1>3, <1>6, <1>7, <2>1
<1>9. /\ place'[f] = Placed(1, Levels, 0) /\ root'[1] = f /\ Len(root') = 1 /\ root' # <<>>
  BY <1>3, <1>7, <1>8 DEF Rooted
<1>10. place'[f].space = 1 /\ place'[f].level = Levels /\ place'[f].number = 0
  BY <1>9, PlacedLaw
<1>11. TreeInv'
  BY <1>1, <1>4, <1>8, TreeRooted
<1>12. /\ PathInv(1)' /\ MapInv(1)' /\ Reached(work[1])' = r.start /\ work'[1].op = "map"
       /\ work'[1].request = r
  BY <1>1, <1>2, <1>8, <1>9, MapStartInv
<1>13. MemoryRequest' = MemoryRequest /\ r.start = 0
  BY <1>2, <1>5 DEF MemoryRequest, Request
<1>14. ~booted
  BY <1>1, <1>2 DEF OrderInv
<1>15. OrderInv'
  BY <1>2, <1>5, <1>8, <1>9, <1>12, <1>13, <1>14 DEF OrderInv
<1>16. KernelInv'
  BY <1>8, <1>10, Sizes DEF KernelInv
<1>17. KernelGot'
  <2>1. \A p \in 0..(0 - 1) : FALSE
    OBVIOUS
  <2> QED BY <1>8, <1>12, <1>13, <2>1 DEF KernelGot
<1>18. StackInv'
  <2>1. ~StackTable(f)'
    BY <1>10 DEF StackTable
  <2> QED BY <1>1, <1>2, <1>3, <1>8, <2>1, StackKept
<1>19. WorkInv'
  BY <1>8, <1>12 DEF WorkInv, OperationInv
<1>20. ReserveInv'
  <2>1. memory.phys_limit - 1 \in Nat
    BY <1>1, MemoryLaw
  <2>2. Levels \in 0..Levels
    BY Sizes
  <2>3. Prefix(memory.phys_limit - 1)[Levels] \in Nat
    BY <2>1, <2>2, PrefixNat
  <2>4. 0 <= Prefix(memory.phys_limit - 1)[Levels]
    BY <2>3
  <2> QED BY <1>2, <1>8, <1>10, <2>4 DEF ReserveInv
<1>21. ReserveSuffices'
  BY <1>2, <1>8 DEF ReserveSuffices, ReserveCovers
<1> QED BY <1>8, <1>11, <1>15, <1>16, <1>17, <1>18, <1>19, <1>20, <1>21 DEF SpaceInv

LEMMA CreateUserKept ==
    ASSUME SpaceInv, CreateUserSpace
    PROVE  SpaceInv'
<1>1. TypeInv /\ TreeInv /\ OrderInv /\ StackInv /\ KernelInv /\ KernelGot
  BY DEF SpaceInv
<1>2. /\ booted /\ memory' = memory /\ leftover' = leftover /\ booted' = booted
      /\ NewSpace(from_other(Fresh, root[1]))
  BY DEF CreateUserSpace
<1>3. root # <<>> /\ work[1].op = "idle" /\ 1 \in DOMAIN root
  BY <1>1, <1>2, SpaceLaw DEF OrderInv
<1>4. asked[1] # {}
  BY <1>1, <1>3 DEF OrderInv
<1>5. CASE ~Free("Kernel")
  <2>1. Panic("exhausted")
    BY <1>2, <1>5 DEF NewSpace
  <2> QED BY <1>2, <1>3, <1>4, <2>1, PanicKept
<1>6. CASE Free("Kernel")
  <2>1. PICK f \in Nat : f = Fresh /\ f \notin DOMAIN mem
    BY <1>1, TableLaw
  <2>2. PICK g \in DOMAIN mem : g = root[1] /\ place[g] = Placed(1, Levels, 0) /\ g \in Nat
    BY <1>1, <1>3, TableLaw DEF TreeInv, Roots
  <2>3. PICK a \in Activations : a = Activation(f, g, 0) /\ a.table = f /\ a.source = g /\ a.index = 0
    BY <2>2, ActivationLaw
  <2>4. NoRequest \in Arguments
    BY DEF NoRequest, Request, Arguments, Flag
  <2>5. PICK w \in Operations : w = from_other(f, g) /\ w.op = "copy" /\ w.level = Levels /\ w.path[Levels] = a
    BY <2>3, <2>4, OperationLaw DEF from_other
  <2>6. PICK s \in Nat : s = Len(root) + 1 /\ s \notin DOMAIN root /\ s # 1
    BY <1>1, <1>3, SpaceLaw
  <2>7. /\ Rooted(f) /\ Touches(s) /\ TypeInv'
        /\ next_frame'["User"] = next_frame["User"]
        /\ DOMAIN root' = DOMAIN root \cup {s}
        /\ work'[s] = w /\ \A r \in DOMAIN root : work'[r] = work[r]
        /\ asked'[s] = {} /\ \A r \in DOMAIN root : asked'[r] = asked[r]
        /\ DOMAIN mem' = DOMAIN mem \cup {f} /\ fault' = fault
    BY <1>1, <1>2, <1>6, <2>1, <2>2, <2>5, <2>6, NewSpaceLaw
  <2>8. /\ place'[f] = Placed(s, Levels, 0) /\ root' # <<>>
        /\ \A t \in DOMAIN mem : place'[t] = place[t] /\ mem'[t] = mem[t]
    BY <1>3, <2>6, <2>7 DEF Rooted
  <2>9. place'[f].space = s /\ place'[f].level = Levels /\ place'[f].number = 0
    BY <2>8, PlacedLaw
  <2>10. TreeInv'
    BY <1>1, <2>1, <2>7, TreeRooted
  <2>11. work'[1] = work[1] /\ asked'[1] = asked[1]
    BY <1>3, <2>7
  <2>12. KernelInv' /\ KernelGot'
    BY <1>1, <1>3, <2>6, <2>7, <2>11, KernelKept
  <2>13. OrderInv'
    <3>1. MemoryRequest' = MemoryRequest
      BY <1>2 DEF MemoryRequest
    <3>2. \A r \in DOMAIN root' \ {1} : work'[r].op # "idle" => asked'[r] = {}
      BY <1>1, <2>7 DEF OrderInv
    <3> QED BY <1>1, <1>2, <1>3, <1>4, <2>8, <2>11, <3>1, <3>2 DEF OrderInv
  <2>14. StackInv'
    <3>1. ~StackTable(f)'
      BY <2>9, Sizes DEF StackTable
    <3>2. StackEnd(s)' = StackPage
      BY <2>5, <2>7 DEF StackEnd
    <3>3. ASSUME NEW r \in DOMAIN root PROVE StackEnd(r)' = StackEnd(r)
      BY <2>7, EndKept
    <3>4. ASSUME NEW t \in DOMAIN mem
          PROVE  mem'[t] = mem[t] /\ StackEnd(place[t].space)' = StackEnd(place[t].space)
      <4>1. PICK r \in DOMAIN root : r = place[t].space
        BY <1>1, TableLaw
      <4>2. StackEnd(r)' = StackEnd(r)
        BY <3>3
      <4>3. place'[t] = place[t] /\ mem'[t] = mem[t]
        BY <2>8
      <4> QED BY <4>1, <4>2, <4>3
    <3>5. \A r \in DOMAIN root' \ {1} : \/ r \in DOMAIN root /\ StackEnd(r)' = StackEnd(r)
                                        \/ StackEnd(r)' = StackPage
      BY <2>7, <3>2, <3>3
    <3> QED BY <1>1, <1>2, <2>7, <2>8, <3>1, <3>4, <3>5, StackKept
  <2>15. \A r \in DOMAIN root : OperationInv(r)'
    BY <1>2, <2>6, <2>7, OthersKept
  <2>16. Top(w) = a /\ Levels \in 1..Levels
    BY <2>5, Sizes DEF Top
  <2>17. PathInv(s)'
    <3>1. OnPath(s, w, Levels)'
      <4>1. g \in DOMAIN mem' /\ place'[g] = Placed(1, Levels, place'[f].number)
        BY <2>2, <2>7, <2>8, <2>9
      <4>2. ~(Levels > w.level) /\ 0 \in 0..Entries
        BY <2>5, Sizes
      <4> QED BY <2>3, <2>5, <2>7, <2>9, <4>1, <4>2 DEF OnPath
    <3>2. \A l \in w.level..Levels : l = Levels
      BY <2>5, Sizes
    <3> QED BY <2>7, <3>1, <3>2 DEF PathInv, OnPath
  <2>18. ASSUME NEW u \in DOMAIN mem', place'[u].space = s PROVE u = f
    <3>1. u \in DOMAIN mem => place[u].space \in DOMAIN root /\ place'[u] = place[u]
      BY <1>1, <2>8, TableLaw
    <3> QED BY <2>6, <2>7, <2>18, <3>1
  <2>19. CopyInv(s)'
    <3>1. booted' /\ s # 1
      BY <1>2, <2>6
    <3>2. ASSUME NEW m \in Nat PROVE ~Passed(w, m)'
      <4>1. w.level # 1 /\ Levels - 2 \in 0..Levels
        BY <2>5, Sizes
      <4>2. PICK q \in Nat : q = Prefix(m)[Levels - 2]
        BY <4>1, PrefixNat
      <4>3. ~(q < 0 * Entries + 0)
        BY Sizes
      <4> QED BY <2>3, <2>5, <2>9, <2>16, <4>1, <4>2, <4>3 DEF Passed
    <3>3. \A t \in DOMAIN mem' : place'[t].number \in Nat
      <4>1. \A t \in DOMAIN mem : place[t].number \in Nat
        BY <1>1, TableLaw
      <4> QED BY <2>7, <2>8, <2>9, <4>1
    <3>4. \A t \in DOMAIN mem' : ~Passed(w, place[t].number)'
      BY <3>2, <3>3
    <3>5. \A u \in DOMAIN mem' : place'[u].space = s => place'[u].level = Levels
      BY <2>9, <2>18
    <3>6. ASSUME NEW l \in w.level..Levels, NEW i \in Slots, NEW u \in DOMAIN mem'
          PROVE  place'[u] # Child(w.path[l].table, i)'
      <4>1. l = Levels /\ w.path[l].table = f
        BY <2>3, <2>5, Sizes
      <4>2. Child(w.path[l].table, i)'.space = s /\ Child(w.path[l].table, i)'.level = Levels - 1
        BY <2>9, <4>1, PlacedLaw DEF Child
      <4> QED BY <2>9, <2>18, <4>2, Sizes
    <3>7. Levels # 1 /\ ~(Levels < Levels)
      BY Sizes
    <3> QED BY <2>7, <3>1, <3>4, <3>5, <3>6, <3>7 DEF CopyInv
  <2>20. OperationInv(s)'
    BY <2>5, <2>7, <2>17, <2>19 DEF OperationInv
  <2>21. WorkInv'
    BY <2>7, <2>15, <2>20 DEF WorkInv
  <2>22. ReserveInv' /\ ReserveSuffices'
    BY <1>4, <2>6, <2>7, <2>11 DEF ReserveInv, ReserveSuffices, ReserveCovers
  <2> QED BY <2>7, <2>10, <2>12, <2>13, <2>14, <2>21, <2>22 DEF SpaceInv
<1> QED BY <1>5, <1>6

-----------------------------------------------------------------------------
(* The invariant. *)

LEMMA SpaceInit ==
    ASSUME Init
    PROVE  SpaceInv
<1> USE DEF Init
<1>1. PICK m : memory = m /\ m \in Memories
  OBVIOUS
<1>2. /\ m.kernel_phys_limit \in Nat /\ m.phys_limit \in Nat /\ PageTables(m.phys_limit) < m.kernel_phys_limit
      /\ m.kernel_phys_limit <= m.phys_limit /\ m.phys_limit \in Pages
  <2>1. PageCount \in Nat
    BY StackLaw
  <2> QED BY <1>1, <2>1, AddressSpaceAssumption DEF Pages
<1>3. m.kernel_phys_limit >= 1
  <2>1. PICK size, total \in [0..(Levels - 1) -> Nat] : PageTables(m.phys_limit) = total[Levels - 1]
    BY <1>2, PageTablesLaw
  <2>2. PageTables(m.phys_limit) \in Nat
    BY <2>1, Sizes
  <2> QED BY <1>2, <2>2
<1>4. DOMAIN mem = {} /\ DOMAIN place = {} /\ DOMAIN root = {} /\ Len(root) = 0
  OBVIOUS
<1>5. Fresh = 1 /\ next_frame["User"] = m.kernel_phys_limit /\ next_frame["Kernel"] = 1
  BY <1>1 DEF Fresh
<1>6. TypeInv
  <2>1. next_frame \in [{"Kernel", "User"} -> Nat] /\ next_frame["Kernel"] \in 1..memory.kernel_phys_limit
        /\ next_frame["User"] \in memory.kernel_phys_limit..memory.phys_limit
    BY <1>1, <1>2, <1>3, <1>5
  <2>2. 1..(Fresh - 1) = {}
    BY <1>5
  <2>3. mem \in [1..(Fresh - 1) -> [Slots -> Entry]]
    BY <2>2
  <2>4. place \in [1..(Fresh - 1) -> [space : DOMAIN root, level : 1..Levels, number : Nat]]
    BY <2>2
  <2>5. root \in Seq(Nat) /\ asked \in Seq(SUBSET Arguments) /\ work \in Seq(Operations)
    OBVIOUS
  <2>6. Len(asked) = Len(root) /\ Len(work) = Len(root)
    OBVIOUS
  <2>7. memory \in Memories /\ leftover \in Leftovers /\ booted \in BOOLEAN /\ fault \in {"none", "exhausted"}
    OBVIOUS
  <2>8. \A s \in DOMAIN root : asked[s] \subseteq Requests(s)
    BY <1>4
  <2> HIDE DEF Init
  <2> QED BY <2>1, <2>3, <2>4, <2>5, <2>6, <2>7, <2>8 DEF TypeInv
<1>7. OrderInv /\ TreeInv /\ KernelInv /\ KernelGot /\ WorkInv /\ ReserveInv /\ ReserveSuffices
  BY <1>4 DEF OrderInv, TreeInv, Roots, Distinct, Parents, Children, KernelInv, KernelGot, WorkInv, ReserveInv, ReserveSuffices, ReserveCovers
<1>8. StackInv
  <2>1. \A f \in m.kernel_phys_limit..(m.kernel_phys_limit - 1) : FALSE
    BY <1>2
  <2> QED BY <1>1, <1>4, <1>5, <2>1 DEF StackInv, StackEntries, StackFrames, StackTaken, StackMapped
<1> QED BY <1>6, <1>7, <1>8 DEF SpaceInv

LEMMA MapDeviceKept ==
    ASSUME SpaceInv, NEW d \in Devices, MapDevice(d)
    PROVE  SpaceInv'
<1>1. TypeInv
  BY DEF SpaceInv
<1>2. 1 \in DOMAIN root /\ ~booted /\ work[1].op = "idle"
  BY <1>1, SpaceLaw DEF MapDevice
<1>3. PICK r \in Requests(1) : r = DeviceRequest(d) /\ r.flags = "no_cache"
  <2>1. DeviceRequest(d) \in Requests(1)
    BY DEF Requests
  <2>2. DeviceRequest(d).flags = "no_cache"
    BY DEF DeviceRequest, Request
  <2> QED BY <2>1, <2>2
<1>4. /\ work' = [work EXCEPT ![1] = map(root[1], r)]
      /\ UNCHANGED <<memory, leftover, tables, root, asked, booted, fault>>
  BY <1>3 DEF MapDevice
<1> QED BY <1>2, <1>3, <1>4, MapStart

LEMMA MapStackKept ==
    ASSUME SpaceInv, NEW s \in DOMAIN root, MapStack(s)
    PROVE  SpaceInv'
<1>1. s # 1 /\ work[s].op = "idle" /\ asked[s] = {}
  BY DEF MapStack
<1>2. PICK r \in Requests(s) : r = StackRequest
  BY <1>1 DEF Requests
<1>3. /\ work' = [work EXCEPT ![s] = map(root[s], r)]
      /\ UNCHANGED <<memory, leftover, tables, root, asked, booted, fault>>
  BY <1>2 DEF MapStack
<1> QED BY <1>1, <1>3, MapStart

LEMMA SpaceNext ==
    ASSUME SpaceInv, [Next]_vars
    PROVE  SpaceInv'
<1>1. CASE CreateKernelSpace
  BY <1>1, CreateKernelKept
<1>2. ASSUME NEW d \in Devices, MapDevice(d) PROVE SpaceInv'
  BY <1>2, MapDeviceKept
<1>3. CASE StartScheduler
  BY <1>3, StartKept
<1>4. CASE CreateUserSpace
  BY <1>4, CreateUserKept
<1>5. ASSUME NEW s \in DOMAIN root,
             \/ MapStack(s) \/ MapTable(s) \/ MapPage(s) \/ MapReturn(s)
             \/ CopyTable(s) \/ CopySkip(s) \/ CopyLast(s) \/ CopyReturn(s)
      PROVE  SpaceInv'
  BY <1>5, MapStackKept, MapTableKept, MapPageKept, MapReturnKept,
     CopyTableKept, CopySkipKept, CopyLastKept, CopyReturnKept
<1>6. CASE Done \/ UNCHANGED vars
  BY <1>6, Stutter DEF Done
<1> QED BY <1>1, <1>2, <1>3, <1>4, <1>5, <1>6 DEF Next

\* Every step keeps the invariant, whatever threads do in between.
THEOREM SpaceInvariant == Spec => []SpaceInv
<1>1. Init => SpaceInv
  BY SpaceInit
<1>2. SpaceInv /\ [Next]_vars => SpaceInv'
  BY SpaceNext
<1> QED BY <1>1, <1>2, PTL DEF Spec

-----------------------------------------------------------------------------
(* What the processor finds. *)

\* The walk of the tables.
Walks(walk, table, page) ==
    /\ walk[0] = mem[table][page_table_index(page, Levels)]
    /\ \A d \in 1..(Levels - 1) : walk[d] = Follow(walk[d - 1], page, Levels - d)

LEMMA WalkLaw ==
    ASSUME TypeInv, NEW table \in DOMAIN mem, NEW page \in Nat
    PROVE  \E walk : Translate(table, page) = walk[Levels - 1] /\ Walks(walk, table, page)
<1>1. PICK n \in Nat : n = Levels - 1
  BY Sizes
<1> DEFINE S == Entry \cup {Lost}
           step == [x \in (1..n) \X S |-> Follow(x[2], page, Levels - x[1])]
           Is(f) == f = [d \in 0..(Levels - 1) |->
                          IF d = 0 THEN mem[table][page_table_index(page, Levels)]
                          ELSE Follow(f[d - 1], page, Levels - d)]
<1>2. PICK a \in S : a = mem[table][page_table_index(page, Levels)]
  <2>1. page_table_index(page, Levels) \in Slots
    BY Sizes, PageIndex
  <2> QED BY <2>1, TableLaw
<1>3. ASSUME NEW e \in S, NEW d \in 1..n PROVE Follow(e, page, Levels - d) \in S
  <2>1. page_table_index(page, Levels - d) \in Slots
    <3>1. Levels - d \in 1..Levels
      BY <1>1, Sizes
    <3> QED BY <3>1, PageIndex
  <2>2. e.addr \in DOMAIN mem => mem[e.addr][page_table_index(page, Levels - d)] \in Entry
    BY <2>1, TableLaw
  <2> QED BY <2>2 DEF Follow
<1>4. step \in [(1..n) \X S -> S]
  <2> HIDE DEF S
  <2> QED BY <1>3
<1>5. PICK f : Chain(f, S, n, a, step)
  <2> HIDE DEF step, S
  <2> QED BY <1>2, <1>4, Recursion
<1>6. ASSUME NEW d \in 1..n PROVE f[d] = Follow(f[d - 1], page, Levels - d)
  <2> HIDE DEF S
  <2>1. d - 1 \in 0..n
    OBVIOUS
  <2>2. f[d] = step[<<d, f[d - 1]>>] /\ f[d - 1] \in S
    BY <1>5, <2>1 DEF Chain
  <2>3. PICK y \in S : y = f[d - 1]
    BY <2>2
  <2>4. step[<<d, y>>] = Follow(y, page, Levels - d)
    OBVIOUS
  <2> HIDE DEF step
  <2> QED BY <2>2, <2>3, <2>4
<1>7. f = [d \in 0..n |-> f[d]] /\ f[0] = a
  BY <1>5 DEF Chain
<1> HIDE DEF step, S
<1>8. ASSUME NEW d \in 0..n
      PROVE  f[d] = IF d = 0 THEN a ELSE Follow(f[d - 1], page, Levels - d)
  <2>1. CASE d = 0
    BY <1>7, <2>1
  <2>2. CASE d # 0
    <3>1. d \in 1..n
      BY <2>2
    <3> QED BY <1>6, <2>2, <3>1
  <2> QED BY <2>1, <2>2
<1>9. f = [d \in 0..n |-> IF d = 0 THEN a ELSE Follow(f[d - 1], page, Levels - d)]
  BY <1>7, <1>8
<1>10. Is(f)
  BY <1>1, <1>2, <1>9
<1>11. PICK g : Translate(table, page) = g[Levels - 1] /\ Is(g)
  <2>1. Is(CHOOSE h : Is(h))
    BY <1>10, Zenon
  <2> QED BY <2>1, Zenon DEF Translate
<1>12. g = [d \in 0..n |-> IF d = 0 THEN a ELSE Follow(g[d - 1], page, Levels - d)]
  BY <1>1, <1>2, <1>11
<1>13. g[0] = a /\ \A d \in 1..n : g[d] = Follow(g[d - 1], page, Levels - d)
  BY <1>12
<1>14. Walks(g, table, page)
  BY <1>1, <1>2, <1>13 DEF Walks
<1> QED BY <1>11, <1>14

\* Along an entry that leads to a table.
LeadsOn(s, p, l, u) == place[u] = Placed(s, l, Prefix(p)[l]) /\ Linked(u, page_table_index(p, l))
ComesTo(s, p, l, entry) ==
    \E v \in DOMAIN mem : /\ place[v] = Placed(s, l - 1, Prefix(p)[l - 1])
                          /\ Follow(entry, p, l - 1) = mem[v][page_table_index(p, l - 1)]

LEMMA WalkStep ==
    ASSUME TypeInv, NEW s, NEW p \in Nat, NEW l \in 2..Levels, NEW u \in DOMAIN mem, LeadsOn(s, p, l, u)
    PROVE  ComesTo(s, p, l, mem[u][page_table_index(p, l)])
<1>0. place[u] = Placed(s, l, Prefix(p)[l]) /\ Linked(u, page_table_index(p, l))
  BY DEF LeadsOn
<1>1. PICK i \in Slots : i = page_table_index(p, l) /\ Prefix(p)[l] * Entries + i = Prefix(p)[l - 1]
  <2>1. l \in 1..Levels
    BY Sizes
  <2> QED BY <2>1, PageIndex
<1>2. PICK v : v = mem[u][i].addr
  OBVIOUS
<1>3. v \in DOMAIN mem /\ mem[u][i].flags = "present" /\ place[v] = Child(u, i)
  BY <1>0, <1>1, <1>2 DEF Linked
<1>4. place[u].space = s /\ place[u].level = l /\ place[u].number = Prefix(p)[l]
  BY <1>0, PlacedLaw
<1>5. place[v] = Placed(s, l - 1, Prefix(p)[l - 1])
  BY <1>1, <1>3, <1>4 DEF Child
<1>6. Follow(mem[u][i], p, l - 1) = mem[v][page_table_index(p, l - 1)]
  BY <1>2, <1>3 DEF Follow
<1> QED BY <1>1, <1>3, <1>5, <1>6 DEF ComesTo

\* Where the walk is if all entries lead to tables.
AtTable(walk, s, p, d) ==
    \E u \in DOMAIN mem : /\ place[u] = Placed(s, Levels - d, Prefix(p)[Levels - d])
                          /\ walk[d] = mem[u][page_table_index(p, Levels - d)]

LEMMA WalkBegins ==
    ASSUME TypeInv, TreeInv, NEW s \in DOMAIN root, NEW p \in Pages, NEW walk, Walks(walk, root[s], p)
    PROVE  AtTable(walk, s, p, 0) /\ root[s] \in DOMAIN mem /\ p \in Nat
<1>1. root[s] \in DOMAIN mem /\ place[root[s]] = Placed(s, Levels, 0)
  BY DEF TreeInv, Roots
<1>2. p \in Nat /\ Prefix(p)[Levels] = 0 /\ Levels - 0 = Levels
  BY RootPrefix, Sizes
<1> QED BY <1>1, <1>2 DEF AtTable, Walks

LEMMA WalkEnds ==
    ASSUME TypeInv, TreeInv, NEW s \in DOMAIN root, NEW p \in Nat, NEW walk, AtTable(walk, s, p, Levels - 1)
    PROVE  \E t \in DOMAIN mem : place[t] = Placed(s, 1, p \div Entries) /\ walk[Levels - 1] = mem[t][p % Entries]
<1>1. Levels - (Levels - 1) = 1
  BY Sizes
<1>2. page_table_index(p, 1) = p % Entries /\ Prefix(p)[1] = p \div Entries
  BY FirstIndex
<1> QED BY <1>1, <1>2 DEF AtTable

\* The walk to a table of the last level that is there.
LEMMA TranslateExact ==
    ASSUME TypeInv, TreeInv, NEW s \in DOMAIN root, NEW p \in Pages, NEW t \in DOMAIN mem,
           place[t] = Placed(s, 1, p \div Entries)
    PROVE  Translate(root[s], p) = mem[t][p % Entries]
<1>1. p \in Nat /\ root[s] \in DOMAIN mem
  BY RootPrefix DEF TreeInv, Roots
<1>2. PICK walk : Translate(root[s], p) = walk[Levels - 1] /\ Walks(walk, root[s], p)
  BY <1>1, WalkLaw
<1> DEFINE D == {d \in Nat : d <= Levels - 1 => AtTable(walk, s, p, d)}
<1>3. 0 \in D
  BY <1>2, WalkBegins
<1>4. ASSUME NEW d \in D PROVE d + 1 \in D
  <2>1. SUFFICES ASSUME d + 1 <= Levels - 1 PROVE AtTable(walk, s, p, d + 1)
    OBVIOUS
  <2>2. PICK l \in 2..Levels : /\ l = Levels - d /\ l - 1 = Levels - (d + 1) /\ d + 1 \in 1..(Levels - 1)
                               /\ (d + 1) - 1 = d
    BY <2>1, Sizes
  <2>3. PICK u \in DOMAIN mem : place[u] = Placed(s, l, Prefix(p)[l]) /\ walk[d] = mem[u][page_table_index(p, l)]
    BY <2>1, <2>2, Sizes DEF AtTable
  <2>4. l - 1 \in 0..(Levels - 1) /\ l - 1 > 0 /\ 1 + (l - 1) = l /\ l - 2 \in 0..Levels /\ l - 1 \in 0..Levels
        /\ (l - 1) - 1 = l - 2 /\ 1 + (l - 2) = l - 1
    BY Sizes
  <2>5. PICK q \in Nat : q = p \div Entries /\ q = Prefix(p)[1]
    BY <1>1, FirstIndex
  <2>6. Prefix(q)[l - 1] = Prefix(p)[l] /\ Prefix(q)[l - 2] = Prefix(p)[l - 1]
    <3>1. 1 \in 0..Levels /\ 1 + (l - 1) <= Levels /\ 1 + (l - 2) <= Levels
      BY Sizes
    <3>2. Prefix(q)[l - 1] = Prefix(p)[1 + (l - 1)]
      BY <1>1, <2>4, <2>5, <3>1, PrefixPrefix
    <3>3. Prefix(q)[l - 2] = Prefix(p)[1 + (l - 2)]
      BY <1>1, <2>4, <2>5, <3>1, PrefixPrefix
    <3> QED BY <2>4, <3>2, <3>3
  <2>7. place[t].space = s /\ place[t].level = 1 /\ place[t].number = q
    BY <2>5, PlacedLaw
  <2>8. PICK v \in DOMAIN mem : place[v] = Placed(s, l, Prefix(p)[l]) /\ Linked(v, Prefix(p)[l - 1] % Entries)
    <3>1. PICK v \in DOMAIN mem :
              /\ place[v] = Placed(s, 1 + (l - 1), Prefix(q)[l - 1])
              /\ Linked(v, Prefix(q)[(l - 1) - 1] % Entries)
      BY <2>4, <2>7, Ancestor
    <3> QED BY <2>4, <2>6, <3>1
  <2>9. u = v /\ page_table_index(p, l) = Prefix(p)[l - 1] % Entries
    BY <2>3, <2>8 DEF TreeInv, Distinct, page_table_index
  <2>10. PICK x \in DOMAIN mem :
            /\ place[x] = Placed(s, l - 1, Prefix(p)[l - 1])
            /\ Follow(walk[d], p, l - 1) = mem[x][page_table_index(p, l - 1)]
    <3>1. LeadsOn(s, p, l, u)
      BY <2>3, <2>8, <2>9 DEF LeadsOn
    <3>2. ComesTo(s, p, l, mem[u][page_table_index(p, l)])
      BY <1>1, <2>2, <2>3, <3>1, WalkStep
    <3> QED BY <2>3, <3>2 DEF ComesTo
  <2>11. walk[d + 1] = Follow(walk[d], p, l - 1)
    BY <1>2, <2>2 DEF Walks
  <2> QED BY <2>2, <2>10, <2>11 DEF AtTable
<1>5. D \in SUBSET Nat
  OBVIOUS
<1> HIDE DEF D
<1>6. D = Nat
  BY <1>3, <1>4, <1>5, Induction
<1>7. AtTable(walk, s, p, Levels - 1)
  <2>1. Levels - 1 \in D
    BY <1>6, Sizes
  <2> QED BY <2>1, Sizes DEF D
<1>8. PICK u \in DOMAIN mem : place[u] = Placed(s, 1, p \div Entries) /\ walk[Levels - 1] = mem[u][p % Entries]
  BY <1>1, <1>7, WalkEnds
<1>9. u = t
  BY <1>8 DEF TreeInv, Distinct
<1> QED BY <1>2, <1>8, <1>9

\* Where nothing is left in the tables, the walk comes to a table or to nothing.
LEMMA TranslateClean ==
    ASSUME TypeInv, TreeInv, NEW s \in DOMAIN root, NEW p \in Pages,
           s = 1 \/ leftover = Unused \/ p >= StackPage
    PROVE  \/ Translate(root[s], p) = Unused
           \/ \E t \in DOMAIN mem : /\ place[t] = Placed(s, 1, p \div Entries)
                                    /\ Translate(root[s], p) = mem[t][p % Entries]
<1>1. p \in Nat /\ root[s] \in DOMAIN mem
  BY RootPrefix DEF TreeInv, Roots
<1>2. PICK walk : Translate(root[s], p) = walk[Levels - 1] /\ Walks(walk, root[s], p)
  BY <1>1, WalkLaw
<1> DEFINE D == {d \in Nat : d <= Levels - 1 => AtTable(walk, s, p, d) \/ walk[d] = Unused}
<1>3. 0 \in D
  BY <1>2, WalkBegins
<1>4. ASSUME NEW d \in D PROVE d + 1 \in D
  <2>1. SUFFICES ASSUME d + 1 <= Levels - 1 PROVE AtTable(walk, s, p, d + 1) \/ walk[d + 1] = Unused
    OBVIOUS
  <2>2. PICK l \in 2..Levels : /\ l = Levels - d /\ l - 1 = Levels - (d + 1) /\ d + 1 \in 1..(Levels - 1)
                               /\ (d + 1) - 1 = d /\ l \in 1..Levels /\ l > 1 /\ l \in 0..Levels
    BY <2>1, Sizes
  <2>3. walk[d + 1] = Follow(walk[d], p, l - 1)
    BY <1>2, <2>2 DEF Walks
  <2>4. CASE walk[d] = Unused
    BY <2>3, <2>4, ZeroLaw DEF Follow
  <2>5. CASE AtTable(walk, s, p, d) /\ walk[d] # Unused
    <3>1. PICK u \in DOMAIN mem : place[u] = Placed(s, l, Prefix(p)[l]) /\ walk[d] = mem[u][page_table_index(p, l)]
      BY <2>2, <2>5 DEF AtTable
    <3>2. page_table_index(p, l) \in Slots
      BY <1>1, <2>2, PageIndex
    <3>3. place[u].space = s /\ place[u].level = l /\ place[u].number = Prefix(p)[l]
      BY <3>1, PlacedLaw
    <3>4. ASSUME p >= StackPage PROVE ~Below(place[u])
      <4>1. Prefix(StackPage)[l] <= Prefix(p)[l]
        BY <1>1, <2>2, <3>4, StackLaw, PrefixOrder
      <4>2. Prefix(StackPage)[l] \in Nat /\ Prefix(p)[l] \in Nat
        BY <1>1, <2>2, StackLaw, PrefixNat
      <4> QED BY <3>3, <4>1, <4>2 DEF Below
    <3>5. Linked(u, page_table_index(p, l))
      BY <2>2, <2>5, <3>1, <3>2, <3>3, <3>4 DEF TreeInv, Children
    <3>6. PICK x \in DOMAIN mem :
            /\ place[x] = Placed(s, l - 1, Prefix(p)[l - 1])
            /\ Follow(walk[d], p, l - 1) = mem[x][page_table_index(p, l - 1)]
      <4>1. LeadsOn(s, p, l, u)
        BY <3>1, <3>5 DEF LeadsOn
      <4>2. ComesTo(s, p, l, mem[u][page_table_index(p, l)])
        BY <1>1, <2>2, <3>1, <4>1, WalkStep
      <4> QED BY <3>1, <4>2 DEF ComesTo
    <3> QED BY <2>2, <2>3, <3>6 DEF AtTable
  <2> QED BY <2>1, <2>4, <2>5, Sizes
<1>5. D \in SUBSET Nat
  OBVIOUS
<1> HIDE DEF D
<1>6. D = Nat
  BY <1>3, <1>4, <1>5, Induction
<1>7. AtTable(walk, s, p, Levels - 1) \/ walk[Levels - 1] = Unused
  <2>1. Levels - 1 \in D
    BY <1>6, Sizes
  <2> QED BY <2>1, Sizes DEF D
<1> QED BY <1>1, <1>2, <1>7, WalkEnds

\* A stack ends where it should.
LEMMA StackBound ==
    ASSUME SpaceInv, NEW s \in DOMAIN root, s # 1
    PROVE  StackEnd(s) \in Int /\ StackEnd(s) <= StackPage + StackPages
<1>1. CASE work[s].op = "map"
  <2>1. TypeInv /\ PathInv(s) /\ MapInv(s)
    BY <1>1, MapContext DEF SpaceInv
  <2>2. PICK w \in Operations : w = work[s]
    BY <2>1, SpaceLaw
  <2>3. w.request \in Requests(s) /\ Reached(w) <= w.request.end
    BY <2>1, <2>2 DEF MapInv
  <2>4. w.request.end = StackPage + StackPages
    BY <2>1, <2>3, RequestLaw
  <2>5. Reached(w) \in Int
    <3>1. w.page \in Nat /\ Top(w).index \in Nat
      BY OperationType DEF Activations
    <3>2. start_index(w) \in Nat
      BY <3>1, FirstIndex DEF start_index
    <3> QED BY <3>1, <3>2 DEF Reached
  <2> QED BY <1>1, <2>2, <2>3, <2>4, <2>5 DEF StackEnd
<1>2. CASE work[s].op # "map"
  BY <1>2, StackLaw DEF StackEnd
<1> QED BY <1>1, <1>2

\* The tables of the stack's pages.
LEMMA StackPlace ==
    ASSUME SpaceInv, NEW s \in DOMAIN root, s # 1, NEW t \in DOMAIN mem, NEW p \in Nat,
           place[t] = Placed(s, 1, p \div Entries)
    PROVE  /\ p >= StackPage <=> StackTable(t)
           /\ place[t].space = s /\ place[t].level = 1 /\ place[t].number = p \div Entries
           /\ p % Entries \in Slots /\ place[t].number * Entries + (p % Entries) = p
<1>1. PICK q \in Nat, i \in Slots : q = p \div Entries /\ i = p % Entries /\ q * Entries + i = p
  BY Split
<1>2. place[t].space = s /\ place[t].level = 1 /\ place[t].number = q
  BY <1>1, PlacedLaw
<1>3. PICK b \in Nat : b = StackPage \div Entries /\ Prefix(StackPage)[1] = b
  BY StackLaw, FirstIndex
<1>4. p >= StackPage => b <= q
  BY <1>1, <1>3, StackLaw, DivOrder
<1>5. p < StackPage => q < b
  BY <1>1, <1>3, StackLaw, DivOrder
<1>6. (p >= StackPage) <=> ~(q < b)
  BY <1>4, <1>5, StackLaw
<1>7. StackTable(t) <=> ~(q < b)
  BY <1>2, <1>3, Sizes DEF StackTable, Below
<1> QED BY <1>1, <1>2, <1>6, <1>7

\* The pages of a stack that are mapped.
LEMMA StackPageLaw ==
    ASSUME SpaceInv, NEW s \in DOMAIN root, s # 1, NEW p \in OfStack, IsMapped(root[s], p)
    PROVE  \E t \in DOMAIN mem : \E i \in Slots :
              /\ StackTable(t) /\ place[t].space = s /\ place[t].number * Entries + i = p
              /\ Translate(root[s], p) = mem[t][i] /\ mem[t][i] # Unused
              /\ mem[t][i].flags = "present"
              /\ mem[t][i].addr \in memory.kernel_phys_limit..(next_frame["User"] - 1)
<1>1. TypeInv /\ TreeInv /\ StackInv
  BY DEF SpaceInv
<1>2. p \in Nat /\ p \in Pages /\ p >= StackPage
  BY StackLaw DEF OfStack
<1>3. Translate(root[s], p) # Unused
  BY ZeroLaw DEF IsMapped
<1>4. PICK t \in DOMAIN mem : place[t] = Placed(s, 1, p \div Entries) /\ Translate(root[s], p) = mem[t][p % Entries]
  BY <1>1, <1>2, <1>3, TranslateClean
<1>5. PICK i \in Slots : i = p % Entries /\ StackTable(t) /\ place[t].space = s /\ place[t].number * Entries + i = p
  BY <1>2, <1>4, StackPlace
<1>6. mem[t][i] # Unused
  BY <1>3, <1>4, <1>5
<1>7. /\ mem[t][i].flags = "present"
      /\ mem[t][i].addr \in memory.kernel_phys_limit..(next_frame["User"] - 1)
  BY <1>1, <1>5, <1>6 DEF StackInv, StackEntries
<1> QED BY <1>4, <1>5, <1>6, <1>7

\* Entries of the stacks' tables are pages of the stacks.
LEMMA StackEntryLaw ==
    ASSUME SpaceInv, NEW t \in DOMAIN mem, StackTable(t), NEW i \in Slots, mem[t][i] # Unused
    PROVE  LET s == place[t].space
               p == place[t].number * Entries + i
           IN  s \in DOMAIN root \ {1} /\ p \in OfStack /\ Translate(root[s], p) = mem[t][i]
<1>1. TypeInv /\ TreeInv /\ StackInv
  BY DEF SpaceInv
<1>2. PICK s \in DOMAIN root : s = place[t].space /\ s # 1
  BY <1>1, TableLaw DEF StackTable
<1>3. PICK n \in Nat : n = place[t].number
  BY <1>1, TableLaw
<1>4. PICK p \in Nat : p = n * Entries + i /\ p \div Entries = n /\ p % Entries = i
  BY DivMod
<1>5. p < StackEnd(s)
  BY <1>1, <1>2, <1>3, <1>4 DEF StackInv, StackEntries
<1>6. StackEnd(s) \in Int /\ StackEnd(s) <= StackPage + StackPages
  BY <1>2, StackBound
<1>7. place[t] = Placed(s, 1, p \div Entries)
  BY <1>1, <1>2, <1>3, <1>4, TableLaw DEF StackTable
<1>8. p >= StackPage
  BY <1>2, <1>7, StackPlace
<1>9. p < StackPage + StackPages
  BY <1>5, <1>6, StackLaw
<1>10. p \in OfStack /\ p \in Pages
  BY <1>8, <1>9, StackLaw DEF OfStack
<1>11. Translate(root[s], p) = mem[t][i]
  BY <1>1, <1>4, <1>7, <1>10, TranslateExact
<1> QED BY <1>2, <1>3, <1>4, <1>10, <1>11

\* The kernel's pages are at their own addresses.
LEMMA KernelEntry ==
    ASSUME SpaceInv, NEW t \in DOMAIN mem, NEW p \in Nat, place[t] = Placed(1, 1, p \div Entries),
           mem[t][p % Entries].flags # "none"
    PROVE  mem[t][p % Entries].addr = p /\ mem[t][p % Entries].flags \in {"present", "no_cache"} /\ KernelLeaf(t)
           /\ place[t].number = p \div Entries
<1>1. TypeInv /\ KernelInv
  BY DEF SpaceInv
<1>2. PICK q \in Nat, i \in Slots : q = p \div Entries /\ i = p % Entries /\ q * Entries + i = p
  BY Split
<1>3. place[t].space = 1 /\ place[t].level = 1 /\ place[t].number = q
  BY <1>2, PlacedLaw
<1>4. mem[t][i].addr = q * Entries + i
  BY <1>1, <1>2, <1>3, ZeroLaw DEF KernelInv
<1>5. mem[t][i].flags \in Flag
  BY <1>1, TableLaw
<1> QED BY <1>2, <1>3, <1>4, <1>5 DEF Flag, KernelLeaf

LEMMA AskedLemma ==
    ASSUME SpaceInv
    PROVE  AskedIsMapped
<1>1. TypeInv /\ TreeInv /\ OrderInv /\ KernelInv /\ KernelGot /\ StackInv
  BY DEF SpaceInv
<1>2. ASSUME NEW s \in DOMAIN root, NEW a \in asked[s], NEW p \in a.start..(a.end - 1)
      PROVE  /\ Translate(root[s], p).flags = a.flags \/ (a = MemoryRequest /\ Translate(root[s], p).flags = "no_cache")
             /\ a.space = "Kernel" => Translate(root[s], p).addr = p
  <2>1. a \in Requests(s)
    BY <1>1 DEF TypeInv
  <2>2. a.start \in Nat /\ a.end \in Nat /\ a.end <= StackPage + StackPages
    BY <1>1, <2>1, RequestLaw
  <2>3. p \in Nat /\ p < a.end /\ p >= a.start
    BY <2>2
  <2>4. p \in Pages
    <3>1. p < StackPage + StackPages
      BY <2>2, <2>3, StackLaw
    <3> QED BY <2>3, <3>1, StackLaw
  <2>5. CASE s = 1
    <3>1. Got(p, a)
      BY <1>1, <2>5 DEF KernelGot
    <3>2. PICK t \in DOMAIN mem :
            /\ place[t] = Placed(1, 1, p \div Entries) /\ mem[t][p % Entries].flags # "none"
            /\ a.flags = "no_cache" => mem[t][p % Entries].flags = "no_cache"
      BY <3>1 DEF Got
    <3>3. Translate(root[s], p) = mem[t][p % Entries]
      BY <1>1, <2>4, <2>5, <3>2, TranslateExact
    <3>4. mem[t][p % Entries].addr = p /\ mem[t][p % Entries].flags \in {"present", "no_cache"}
      BY <2>3, <3>2, KernelEntry
    <3>5. a.flags = "no_cache" \/ (a = MemoryRequest /\ a.flags = "present")
      BY <1>1, <2>1, <2>5, RequestLaw
    <3> QED BY <3>2, <3>3, <3>4, <3>5
  <2>6. CASE s # 1
    <3>1. a.space = "User" /\ a.flags = "present" /\ a.start = StackPage /\ a.end = StackPage + StackPages
      BY <1>1, <2>1, <2>6, RequestLaw
    <3>2. StackEnd(s) = StackPage + StackPages
      <4>1. work[s].op = "idle"
        BY <1>1, <2>6 DEF OrderInv
      <4> QED BY <4>1 DEF StackEnd
    <3>3. p \in StackPage..(StackEnd(s) - 1)
      BY <3>1, <3>2
    <3>4. PICK t \in DOMAIN mem : place[t] = Placed(s, 1, p \div Entries)
      BY <1>1, <2>6, <3>3 DEF StackInv, StackMapped
    <3>5. PICK i \in Slots : i = p % Entries /\ StackTable(t) /\ place[t].space = s /\ place[t].number * Entries + i = p
      BY <2>3, <2>6, <3>1, <3>4, StackPlace
    <3>6. p < StackEnd(s)
      BY <2>3, <3>1, <3>2
    <3>7. mem[t][i].flags = "present"
      BY <1>1, <3>5, <3>6 DEF StackInv, StackEntries
    <3>8. Translate(root[s], p) = mem[t][i]
      BY <1>1, <2>4, <3>4, <3>5, TranslateExact
    <3> QED BY <3>1, <3>7, <3>8
  <2> QED BY <2>5, <2>6
<1>3. ASSUME root # <<>>, NEW p \in Pages, Translate(root[1], p).flags # "none"
      PROVE  Translate(root[1], p).addr = p
  <2>1. 1 \in DOMAIN root /\ p \in Nat
    BY <1>1, <1>3, SpaceLaw, RootPrefix
  <2>2. PICK t \in DOMAIN mem : place[t] = Placed(1, 1, p \div Entries) /\ Translate(root[1], p) = mem[t][p % Entries]
    BY <1>1, <1>3, <2>1, ZeroLaw, TranslateClean
  <2> QED BY <1>3, <2>1, <2>2, KernelEntry
<1>4. booted => MemoryRequest \in asked[1]
  BY <1>1 DEF OrderInv
<1> QED BY <1>2, <1>3, <1>4 DEF AskedIsMapped

LEMMA VisibleLemma ==
    ASSUME SpaceInv
    PROVE  KernelVisible
<1>1. TypeInv /\ TreeInv /\ KernelInv /\ StackInv
  BY DEF SpaceInv
<1> SUFFICES ASSUME NEW s \in DOMAIN root \ {1}, work[s].op # "copy", NEW p \in Pages
             PROVE  IF Translate(root[1], p).flags # "none" THEN Translate(root[s], p) = Translate(root[1], p)
                    ELSE leftover = Unused /\ Translate(root[s], p).flags # "none" => p \in OfStack
  BY DEF KernelVisible
<1>2. CopiedInv(s)
  BY DEF SpaceInv, WorkInv, OperationInv
<1>3. 1 \in DOMAIN root /\ p \in Nat
  BY <1>1, SpaceLaw, RootPrefix
<1>4. PICK q \in Nat, i \in Slots : q = p \div Entries /\ i = p % Entries /\ q * Entries + i = p
  BY <1>3, Split
<1>5. CASE Translate(root[1], p).flags # "none"
  <2>1. PICK t \in DOMAIN mem : place[t] = Placed(1, 1, q) /\ Translate(root[1], p) = mem[t][i]
    BY <1>1, <1>3, <1>4, <1>5, ZeroLaw, TranslateClean
  <2>2. KernelLeaf(t) /\ place[t].number = q
    BY <2>1, PlacedLaw DEF KernelLeaf
  <2>3. PICK u \in DOMAIN mem : place[u] = Placed(s, 1, q) /\ mem[u] = mem[t]
    BY <1>2, <2>2 DEF CopiedInv, HasCopy
  <2>4. Translate(root[s], p) = mem[u][i]
    BY <1>1, <1>4, <2>3, TranslateExact
  <2> QED BY <1>5, <2>1, <2>3, <2>4
<1>6. CASE Translate(root[1], p).flags = "none"
  <2> SUFFICES ASSUME leftover = Unused, Translate(root[s], p).flags # "none" PROVE p \in OfStack
    BY <1>6
  <2>1. PICK u \in DOMAIN mem : place[u] = Placed(s, 1, q) /\ Translate(root[s], p) = mem[u][i]
    BY <1>1, <1>4, ZeroLaw, TranslateClean
  <2>2. place[u].space = s /\ place[u].level = 1 /\ place[u].number = q
    BY <2>1, PlacedLaw
  <2>3. CASE IsCopy(u)
    <3>1. PICK t \in DOMAIN mem : KernelLeaf(t) /\ place[t].number = q /\ mem[u] = mem[t]
      BY <2>2, <2>3 DEF IsCopy
    <3>2. place[t] = Placed(1, 1, q)
      BY <1>1, <3>1, TableLaw DEF KernelLeaf
    <3>3. Translate(root[1], p) = mem[t][i]
      BY <1>1, <1>3, <1>4, <3>2, TranslateExact
    <3> QED BY <1>6, <2>1, <3>1, <3>3
  <2>4. CASE StackTable(u)
    <3>1. mem[u][i] # Unused
      BY <2>1, ZeroLaw
    <3> QED BY <1>4, <2>2, <2>4, <3>1, StackEntryLaw
  <2> QED BY <1>2, <2>2, <2>3, <2>4 DEF CopiedInv
<1> QED BY <1>5, <1>6

\* The tables that a walk may come to are the address space's own.
LEMMA TablesOwn ==
    ASSUME TypeInv, TreeInv, leftover.addr \notin DOMAIN mem, NEW s \in DOMAIN root, NEW t \in TablesOf(root[s])
    PROVE  t \in DOMAIN mem /\ place[t].space = s
<1>1. PICK n \in Nat : n = Levels - 1
  BY Sizes
<1>2. PICK table \in DOMAIN mem : table = root[s] /\ place[table] = Placed(s, Levels, 0)
  BY DEF TreeInv, Roots
<1> DEFINE X == DOMAIN mem
           S == SUBSET X
           step == [x \in (1..n) \X S |-> Behind(x[2])]
           Is(f) == f = [d \in 0..(Levels - 1) |->
                          IF d = 0 THEN {table} ELSE Behind(f[d - 1])]
<1>3. ASSUME NEW y PROVE Behind(y) \in S
  BY DEF Behind
<1>4. step \in [(1..n) \X S -> S]
  <2> HIDE DEF S
  <2> QED BY <1>3
<1>5. PICK f : Chain(f, S, n, {table}, step)
  <2>1. {table} \in S
    OBVIOUS
  <2> HIDE DEF step, S
  <2> QED BY <1>4, <2>1, Recursion
<1>6. ASSUME NEW d \in 1..n PROVE f[d] = Behind(f[d - 1])
  <2> HIDE DEF S
  <2>1. d - 1 \in 0..n
    OBVIOUS
  <2>2. f[d] = step[<<d, f[d - 1]>>] /\ f[d - 1] \in S
    BY <1>5, <2>1 DEF Chain
  <2>3. PICK y \in S : y = f[d - 1]
    BY <2>2
  <2>4. step[<<d, y>>] = Behind(y)
    OBVIOUS
  <2> HIDE DEF step
  <2> QED BY <2>2, <2>3, <2>4
<1>7. f = [d \in 0..n |-> f[d]] /\ f[0] = {table}
  BY <1>5 DEF Chain
<1> HIDE DEF step, S
<1>8. ASSUME NEW d \in 0..n
      PROVE  f[d] = IF d = 0 THEN {table} ELSE Behind(f[d - 1])
  <2>1. CASE d = 0
    BY <1>7, <2>1
  <2>2. CASE d # 0
    <3>1. d \in 1..n
      BY <2>2
    <3> QED BY <1>6, <2>2, <3>1
  <2> QED BY <2>1, <2>2
<1>9. f = [d \in 0..n |-> IF d = 0 THEN {table} ELSE Behind(f[d - 1])]
  BY <1>7, <1>8
<1>10. Is(f)
  BY <1>1, <1>9
<1>11. PICK g : TablesOf(table) = UNION {g[d] : d \in 0..(Levels - 1)} /\ Is(g)
  <2>1. Is(CHOOSE h : Is(h))
    BY <1>10, Zenon
  <2> QED BY <2>1, Zenon DEF TablesOf
<1>12. g = [d \in 0..n |-> IF d = 0 THEN {table} ELSE Behind(g[d - 1])]
  BY <1>1, <1>11
<1>12a. \A d \in 0..n : g[d] = IF d = 0 THEN {table} ELSE Behind(g[d - 1])
  BY <1>12, Zenon
<1>13. g[0] = {table} /\ \A d \in 1..n : g[d] = Behind(g[d - 1])
  <2>1. g[0] = {table}
    BY <1>12a
  <2>2. ASSUME NEW d \in 1..n PROVE g[d] = Behind(g[d - 1])
    <3>1. d \in 0..n /\ d # 0
      OBVIOUS
    <3> QED BY <1>12a, <3>1, Zenon
  <2> QED BY <2>1, <2>2
<1> DEFINE Own(d) == \A u \in g[d] : u \in DOMAIN mem /\ place[u].space = s /\ place[u].level = Levels - d
           D == {d \in Nat : d <= n => Own(d)}
<1>14. 0 \in D
  <2>1. place[table].space = s /\ place[table].level = Levels - 0
    BY <1>2, PlacedLaw, Sizes
  <2> QED BY <1>13, <2>1
<1>15. ASSUME NEW d \in D PROVE d + 1 \in D
  <2>1. SUFFICES ASSUME d + 1 <= n PROVE Own(d + 1)
    OBVIOUS
  <2>2. SUFFICES ASSUME NEW u \in g[d + 1]
                 PROVE  u \in DOMAIN mem /\ place[u].space = s /\ place[u].level = Levels - (d + 1)
    OBVIOUS
  <2>3. d + 1 \in 1..n /\ (d + 1) - 1 = d /\ Own(d)
    BY <2>1
  <2> HIDE DEF Own, D
  <2>4. g[d + 1] = Behind(g[d])
    BY <1>13, <2>3
  <2>5. PICK v \in g[d], i \in Slots : u = mem[v][i].addr /\ u \in DOMAIN mem
    BY <2>4 DEF Behind
  <2>6. v \in DOMAIN mem /\ place[v].space = s /\ place[v].level = Levels - d
    BY <2>3 DEF Own
  <2>7. Levels - d > 1 /\ (Levels - d) - 1 = Levels - (d + 1)
    BY <1>1, <2>1, Sizes DEF D
  <2>8. mem[v][i] # Unused
    BY <2>5, TableLaw, ZeroLaw
  <2>9. Linked(v, i)
    BY <2>5, <2>6, <2>7, <2>8 DEF TreeInv, Children
  <2>10. place[u] = Placed(s, (Levels - d) - 1, place[v].number * Entries + i)
    BY <2>5, <2>6, <2>9 DEF Linked, Child
  <2> QED BY <2>5, <2>7, <2>10, PlacedLaw
<1>16. D \in SUBSET Nat
  OBVIOUS
<1> HIDE DEF D, Own
<1>17. D = Nat
  BY <1>14, <1>15, <1>16, Induction
<1>18. PICK d \in 0..n : t \in g[d]
  BY <1>1, <1>2, <1>11
<1>19. Own(d)
  BY <1>17, <1>18 DEF D
<1> QED BY <1>18, <1>19 DEF Own

LEMMA PrivateLemma ==
    ASSUME SpaceInv
    PROVE  TablesPrivate
<1>1. TypeInv /\ TreeInv
  BY DEF SpaceInv
<1>2. DOMAIN mem \subseteq 1..(memory.kernel_phys_limit - 1)
  BY <1>1, TableLaw, MemoryLaw
<1>3. ASSUME leftover.addr \notin DOMAIN mem, NEW r \in DOMAIN root, NEW s \in DOMAIN root, r # s,
             NEW t \in TablesOf(root[r]), t \in TablesOf(root[s])
      PROVE  FALSE
  <2>1. place[t].space = r
    BY <1>1, <1>3, TablesOwn
  <2>2. place[t].space = s
    BY <1>1, <1>3, TablesOwn
  <2> QED BY <1>3, <2>1, <2>2
<1> QED BY <1>2, <1>3 DEF TablesPrivate

LEMMA OwnLemma ==
    ASSUME SpaceInv
    PROVE  OwnFrames
<1>1. TypeInv /\ TreeInv /\ StackInv
  BY DEF SpaceInv
<1> DEFINE pages == {x \in (DOMAIN root \ {1}) \X OfStack : IsMapped(root[x[1]], x[2])}
           frame(x) == Translate(root[x[1]], x[2]).addr
<1>2. ASSUME NEW x \in pages
      PROVE  \E t \in DOMAIN mem : \E i \in Slots :
              /\ StackTable(t) /\ place[t].space = x[1] /\ place[t].number * Entries + i = x[2]
              /\ frame(x) = mem[t][i].addr /\ mem[t][i] # Unused
              /\ mem[t][i].flags = "present"
              /\ mem[t][i].addr \in memory.kernel_phys_limit..(next_frame["User"] - 1)
  <2>1. PICK s \in DOMAIN root, p \in OfStack : s = x[1] /\ s # 1 /\ p = x[2] /\ IsMapped(root[s], p)
    OBVIOUS
  <2> HIDE DEF pages
  <2>2. PICK t \in DOMAIN mem, i \in Slots :
              /\ StackTable(t) /\ place[t].space = s /\ place[t].number * Entries + i = p
              /\ Translate(root[s], p) = mem[t][i] /\ mem[t][i] # Unused
              /\ mem[t][i].flags = "present"
              /\ mem[t][i].addr \in memory.kernel_phys_limit..(next_frame["User"] - 1)
    BY <2>1, StackPageLaw
  <2> QED BY <2>1, <2>2
<1>3. ASSUME NEW x \in pages, NEW y \in pages, frame(x) = frame(y) PROVE x = y
  <2>0. x = <<x[1], x[2]>> /\ y = <<y[1], y[2]>>
    OBVIOUS
  <2> HIDE DEF pages
  <2>1. PICK t \in DOMAIN mem, i \in Slots :
              /\ StackTable(t) /\ place[t].space = x[1] /\ place[t].number * Entries + i = x[2]
              /\ frame(x) = mem[t][i].addr /\ mem[t][i] # Unused /\ mem[t][i].flags = "present"
    BY <1>2
  <2>2. PICK u \in DOMAIN mem, j \in Slots :
              /\ StackTable(u) /\ place[u].space = y[1] /\ place[u].number * Entries + j = y[2]
              /\ frame(y) = mem[u][j].addr /\ mem[u][j] # Unused /\ mem[u][j].flags = "present"
    BY <1>2
  <2>3. PICK e \in Entry, f \in Entry : e = mem[t][i] /\ f = mem[u][j]
    BY <1>1, TableLaw
  <2>4. e.addr = f.addr /\ e.flags = f.flags
    BY <1>3, <2>1, <2>2, <2>3
  <2>5. e = f
    BY <2>4 DEF Entry
  <2>6. mem[t][i] = mem[u][j]
    BY <2>3, <2>5
  <2>6a. t = u /\ i = j
    BY <1>1, <2>1, <2>2, <2>6 DEF StackInv, StackFrames
  <2>7. x[1] = y[1] /\ x[2] = y[2]
    BY <2>1, <2>2, <2>6a
  <2> QED BY <2>0, <2>7
<1>4. ASSUME NEW x \in pages PROVE frame(x) \in memory.kernel_phys_limit..(next_frame["User"] - 1)
  BY <1>2
<1>5. ASSUME NEW f \in memory.kernel_phys_limit..(next_frame["User"] - 1) PROVE \E x \in pages : frame(x) = f
  <2>1. PICK t \in DOMAIN mem, i \in Slots : StackTable(t) /\ mem[t][i].addr = f
    BY <1>1 DEF StackInv, StackTaken
  <2>2. f # 0
    <3>1. memory.kernel_phys_limit \in Nat /\ memory.kernel_phys_limit > 0 /\ next_frame["User"] \in Nat
      BY <1>1, MemoryLaw DEF TypeInv
    <3> QED BY <1>5, <3>1
  <2>3. mem[t][i] # Unused
    BY <2>1, <2>2, ZeroLaw
  <2>4. PICK s \in DOMAIN root \ {1}, p \in OfStack : Translate(root[s], p) = mem[t][i]
    BY <2>1, <2>3, StackEntryLaw
  <2>5. mem[t][i].flags = "present"
    BY <1>1, <2>1, <2>3 DEF StackInv, StackEntries
  <2>6. IsMapped(root[s], p)
    BY <2>4, <2>5 DEF IsMapped
  <2>7. PICK x \in (DOMAIN root \ {1}) \X OfStack : x[1] = s /\ x[2] = p
    <3>1. <<s, p>> \in (DOMAIN root \ {1}) \X OfStack
      OBVIOUS
    <3>2. <<s, p>>[1] = s /\ <<s, p>>[2] = p
      OBVIOUS
    <3> QED BY <3>1, <3>2
  <2>8. x \in pages
    BY <2>6, <2>7
  <2>9. frame(x) = f
    BY <2>1, <2>4, <2>7
  <2> QED BY <2>8, <2>9
<1> HIDE DEF pages, frame
<1>6. {frame(x) : x \in pages} = memory.kernel_phys_limit..(next_frame["User"] - 1)
  BY <1>4, <1>5
<1>7. \A x, y \in pages : frame(x) = frame(y) => x = y
  BY <1>3
<1> QED BY <1>6, <1>7, Zenon DEF OwnFrames, pages, frame

-----------------------------------------------------------------------------
(* The properties. *)

\* Whatever is mapped later, every page that was asked for stays mapped, and the
\* kernel's pages are at their own addresses: map_in_table.
THEOREM AskedTheorem == Spec => []AskedIsMapped
<1>1. SpaceInv => AskedIsMapped
  BY AskedLemma
<1> QED BY <1>1, SpaceInvariant, PTL

\* A user address space sees what the kernel sees, and with zeroed frames nothing
\* else but its stack: copy_table.
THEOREM VisibleTheorem == Spec => []KernelVisible
<1>1. SpaceInv => KernelVisible
  BY VisibleLemma
<1> QED BY <1>1, SpaceInvariant, PTL

\* No table is part of two address spaces: AddressSpace::new and copy_table.
THEOREM PrivateTheorem == Spec => []TablesPrivate
<1>1. SpaceInv => TablesPrivate
  BY PrivateLemma
<1> QED BY <1>1, SpaceInvariant, PTL

\* The frames that were taken for users are the pages of their stacks, each once:
\* the last level of map_in_table.
THEOREM FramesTheorem == Spec => []OwnFrames
<1>1. SpaceInv => OwnFrames
  BY OwnLemma
<1> QED BY <1>1, SpaceInvariant, PTL

\* map_in_table never follows an address that is no table's.
THEOREM NoWildTheorem == Spec => []NoWildTable
<1>1. SpaceInv => NoWildTable
  BY DEF SpaceInv, TypeInv, NoWildTable
<1> QED BY <1>1, SpaceInvariant, PTL

\* What calc_page_table_memory reserves is enough to map all of memory whose
\* tables are full, or one, on every level between the first and the root.
THEOREM ReserveTheorem == Spec => []ReserveSuffices
<1>1. SpaceInv => ReserveSuffices
  BY DEF SpaceInv
<1> QED BY <1>1, SpaceInvariant, PTL
=============================================================================
