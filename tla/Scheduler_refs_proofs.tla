----------------------- MODULE Scheduler_refs_proofs -----------------------
(***************************************************************************)
(* No thread is lost or scheduled twice, sleep() and join() return when    *)
(* they should, and the scheduler's own bookkeeping never panics: the      *)
(* invariant RefInv, on top of Inv of Scheduler_proofs.                    *)
(***************************************************************************)
EXTENDS Scheduler_proofs

USE SchedulerAssumption DEF Flow

-----------------------------------------------------------------------------
(* How the lists count their threads: what Append, Tail, \o and               *)
(* check_sleep_list do to Count, and what join(), exit() and ready() do to    *)
(* Joining.                                                                  *)

\* Where t stands in s.
Places(t, s) == {i \in DOMAIN s : s[i] = t}

\* Sets that a one-to-one function relates have the same size.
LEMMA SameSize ==
    ASSUME NEW S, NEW T, IsFiniteSet(S), NEW f \in [S -> T],
           \A x, y \in S : f[x] = f[y] => x = y,
           \A z \in T : \E x \in S : f[x] = z
    PROVE  IsFiniteSet(T) /\ Cardinality(T) = Cardinality(S)
  <1>1. f \in Bijection(S, T)
    BY DEF Bijection, Injection, Surjection, IsInjective
  <1>2. ExistsBijection(S, T)
    BY <1>1 DEF ExistsBijection
  <1> QED
    BY <1>2, FS_Bijection

\* The places of a thread are finitely many; none exactly when it is not there.
LEMMA CountType ==
    ASSUME NEW s \in Seq(Thread), NEW t
    PROVE  /\ IsFiniteSet(Places(t, s))
           /\ Count(t, s) = Cardinality(Places(t, s))
           /\ Count(t, s) \in Nat
           /\ Count(t, s) = 0 <=> \A i \in DOMAIN s : s[i] # t
  <1>1. DOMAIN s = 1..Len(s) /\ Len(s) \in Nat
    OBVIOUS
  <1>2. IsFiniteSet(Places(t, s))
    <2>1. IsFiniteSet(1..Len(s))
      BY <1>1, FS_Interval
    <2>2. Places(t, s) \in SUBSET (1..Len(s))
      BY <1>1 DEF Places
    <2> QED
      BY <2>1, <2>2, FS_Subset
  <1>3. Count(t, s) = Cardinality(Places(t, s))
    BY DEF Count, Places
  <1>4. Count(t, s) = 0 <=> Places(t, s) = {}
    BY <1>2, <1>3, FS_EmptySet
  <1> QED
    BY <1>2, <1>3, <1>4, FS_CardinalityType DEF Places

\* push_front counts its thread once more.
LEMMA CountAppend ==
    ASSUME NEW s \in Seq(Thread), NEW x \in Thread, NEW t
    PROVE  Count(t, Append(s, x)) = Count(t, s) + IF x = t THEN 1 ELSE 0
  <1>1. /\ DOMAIN Append(s, x) = 1..(Len(s) + 1)
        /\ \A i \in 1..Len(s) : Append(s, x)[i] = s[i]
        /\ Append(s, x)[Len(s) + 1] = x
        /\ DOMAIN s = 1..Len(s) /\ Len(s) \in Nat
        /\ Append(s, x) \in Seq(Thread)
    OBVIOUS
  <1>2. /\ Count(t, Append(s, x)) = Cardinality(Places(t, Append(s, x)))
        /\ Count(t, s) = Cardinality(Places(t, s))
    BY DEF Count, Places
  <1>3. CASE x = t
    <2>1. Places(t, Append(s, x)) = Places(t, s) \cup {Len(s) + 1}
      BY <1>1, <1>3 DEF Places
    <2>2. Len(s) + 1 \notin Places(t, s)
      BY <1>1 DEF Places
    <2>3. Cardinality(Places(t, s) \cup {Len(s) + 1}) = Cardinality(Places(t, s)) + 1
      BY <2>2, CountType, FS_AddElement
    <2> QED
      BY <1>3, <1>2, <2>1, <2>3
  <1>4. CASE x # t
    <2>1. Places(t, Append(s, x)) = Places(t, s)
      BY <1>1, <1>4 DEF Places
    <2> QED
      BY <1>4, <1>2, <2>1, CountType
  <1> QED
    BY <1>3, <1>4

\* pop_back counts the first thread once less.
LEMMA CountTail ==
    ASSUME NEW s \in Seq(Thread), s # <<>>, NEW t
    PROVE  Count(t, s) = Count(t, Tail(s)) + IF Head(s) = t THEN 1 ELSE 0
  <1>1. /\ Tail(s) \in Seq(Thread) /\ DOMAIN Tail(s) = 1..(Len(s) - 1)
        /\ \A i \in 1..(Len(s) - 1) : Tail(s)[i] = s[i + 1]
        /\ DOMAIN s = 1..Len(s) /\ Len(s) \in Nat /\ Len(s) > 0
        /\ Head(s) = s[1]
    OBVIOUS
  <1> DEFINE g == [i \in Places(t, Tail(s)) |-> i + 1]
             rest == Places(t, s) \ {1}
  <1>2. g \in [Places(t, Tail(s)) -> rest]
    BY <1>1 DEF Places
  <1>3. \A x, y \in Places(t, Tail(s)) : g[x] = g[y] => x = y
    BY <1>1 DEF Places
  <1>4. \A z \in rest : \E x \in Places(t, Tail(s)) : g[x] = z
    <2> SUFFICES ASSUME NEW z \in rest PROVE \E x \in Places(t, Tail(s)) : g[x] = z
      OBVIOUS
    <2>1. z - 1 \in Places(t, Tail(s)) /\ (z - 1) + 1 = z
      BY <1>1 DEF Places
    <2> QED
      BY <2>1
  <1>5. Cardinality(rest) = Cardinality(Places(t, Tail(s)))
    <2>1. IsFiniteSet(Places(t, Tail(s)))
      BY <1>1, CountType
    <2> HIDE DEF g, rest
    <2> QED
      BY <1>2, <1>3, <1>4, <2>1, SameSize
  <1>6. Cardinality(rest) = IF Head(s) = t THEN Count(t, s) - 1 ELSE Count(t, s)
    <2>1. 1 \in Places(t, s) <=> Head(s) = t
      BY <1>1 DEF Places
    <2>2. Cardinality(rest) = IF 1 \in Places(t, s) THEN Cardinality(Places(t, s)) - 1
                                                   ELSE Cardinality(Places(t, s))
      BY CountType, FS_RemoveElement
    <2> QED
      BY <2>1, <2>2, CountType
  <1>7. Count(t, Tail(s)) = Cardinality(Places(t, Tail(s))) /\ Count(t, s) \in Nat
    BY CountType DEF Count, Places
  <1> QED
    BY <1>5, <1>6, <1>7

\* Appending a list counts both.
LEMMA CountConcat ==
    ASSUME NEW s \in Seq(Thread), NEW r \in Seq(Thread), NEW t
    PROVE  Count(t, s \o r) = Count(t, s) + Count(t, r)
  <1>1. /\ DOMAIN (s \o r) = 1..(Len(s) + Len(r))
        /\ \A i \in 1..Len(s) : (s \o r)[i] = s[i]
        /\ \A i \in (Len(s) + 1)..(Len(s) + Len(r)) : (s \o r)[i] = r[i - Len(s)]
        /\ DOMAIN s = 1..Len(s) /\ Len(s) \in Nat
        /\ DOMAIN r = 1..Len(r) /\ Len(r) \in Nat
        /\ s \o r \in Seq(Thread)
    OBVIOUS
  <1> DEFINE g == [i \in Places(t, r) |-> i + Len(s)]
             moved == {i \in (Len(s) + 1)..(Len(s) + Len(r)) : r[i - Len(s)] = t}
  <1>2. g \in [Places(t, r) -> moved]
    <2> SUFFICES ASSUME NEW i \in Places(t, r) PROVE i + Len(s) \in moved
      OBVIOUS
    <2>1. i \in 1..Len(r) /\ r[i] = t /\ (i + Len(s)) - Len(s) = i
      BY <1>1 DEF Places
    <2> QED
      BY <1>1, <2>1
  <1>3. \A x, y \in Places(t, r) : g[x] = g[y] => x = y
    BY <1>1 DEF Places
  <1>4. \A z \in moved : \E x \in Places(t, r) : g[x] = z
    <2> SUFFICES ASSUME NEW z \in moved PROVE \E x \in Places(t, r) : g[x] = z
      OBVIOUS
    <2>1. z - Len(s) \in Places(t, r) /\ (z - Len(s)) + Len(s) = z
      BY <1>1 DEF Places
    <2> QED
      BY <2>1
  <1>5. IsFiniteSet(moved) /\ Cardinality(moved) = Count(t, r)
    <2>1. IsFiniteSet(Places(t, r)) /\ Count(t, r) = Cardinality(Places(t, r))
      BY CountType
    <2> HIDE DEF g, moved
    <2> QED
      BY <1>2, <1>3, <1>4, <2>1, SameSize
  <1>6. Places(t, s \o r) = Places(t, s) \cup moved
    BY <1>1 DEF Places
  <1>7. Places(t, s) \cap moved = {}
    BY <1>1 DEF Places
  <1>8. Cardinality(Places(t, s \o r)) = Cardinality(Places(t, s)) + Cardinality(moved)
    <2>1. /\ IsFiniteSet(Places(t, s))
          /\ Cardinality(Places(t, s)) \in Nat /\ Cardinality(moved) \in Nat
      BY <1>5, CountType
    <2> HIDE DEF moved
    <2>2. Cardinality(Places(t, s) \cup moved)
            = Cardinality(Places(t, s)) + Cardinality(moved)
                - Cardinality(Places(t, s) \cap moved)
      BY <1>5, <2>1, FS_Union
    <2>3. Cardinality(Places(t, s) \cap moved) = 0
      BY <1>7, FS_EmptySet
    <2> QED
      BY <1>6, <2>1, <2>2, <2>3
  <1>9. Count(t, s \o r) = Cardinality(Places(t, s \o r))
    BY DEF Count, Places
  <1> QED
    BY <1>5, <1>8, <1>9, CountType

\* An ascending enumeration of D meets every index of D exactly once.
LEMMA AscendingOnto ==
    ASSUME NEW D \in SUBSET Nat, IsFiniteSet(D), NEW q \in Ascending(D)
    PROVE  /\ \A i, j \in 1..Cardinality(D) : q[i] = q[j] => i = j
           /\ \A d \in D : \E i \in 1..Cardinality(D) : q[i] = d
  <1>1. q \in [1..Cardinality(D) -> D] /\ Cardinality(D) \in Nat
    BY AscendingType
  <1>2. \A i, j \in 1..Cardinality(D) : i < j => q[i] < q[j]
    BY DEF Ascending
  <1>3. \A i, j \in 1..Cardinality(D) : q[i] = q[j] => i = j
    <2> SUFFICES ASSUME NEW i \in 1..Cardinality(D), NEW j \in 1..Cardinality(D),
                        q[i] = q[j]
                 PROVE  i = j
      OBVIOUS
    <2>1. q[i] \in Nat /\ q[j] \in Nat /\ i \in Nat /\ j \in Nat
      <3>1. q[i] \in D /\ q[j] \in D
        BY <1>1
      <3>2. i \in Nat /\ j \in Nat
        BY <1>1
      <3> QED
        BY <3>1, <3>2
    <2>2. ~(i < j) /\ ~(j < i)
      <3>1. ~(q[i] < q[j]) /\ ~(q[j] < q[i])
        BY <2>1
      <3> QED
        BY <1>2, <3>1
    <2> QED
      BY <2>1, <2>2
  <1>4. q \in Injection(1..Cardinality(D), D)
    BY <1>1, <1>3 DEF Injection, IsInjective
  <1>5. IsFiniteSet(1..Cardinality(D)) /\ Cardinality(1..Cardinality(D)) = Cardinality(D)
    BY <1>1, FS_Interval
  <1>6. q \in Surjection(1..Cardinality(D), D)
    BY <1>4, <1>5, FS_Injection
  <1> QED
    BY <1>3, <1>6 DEF Surjection

\* The elements picked at D are the elements at D, each as often as it is there.
LEMMA CountSubseq ==
    ASSUME NEW s \in Seq(Thread), NEW D \in SUBSET DOMAIN s, NEW r \in SubseqAt(s, D), NEW t
    PROVE  /\ Count(t, r) = Cardinality({i \in D : s[i] = t})
           /\ \A i \in D : \E j \in DOMAIN r : r[j] = s[i]
  <1>1. DOMAIN s = 1..Len(s) /\ Len(s) \in Nat /\ D \in SUBSET Nat /\ IsFiniteSet(D)
    <2>1. DOMAIN s = 1..Len(s) /\ Len(s) \in Nat
      OBVIOUS
    <2>2. IsFiniteSet(1..Len(s))
      BY <2>1, FS_Interval
    <2> QED
      BY <2>1, <2>2, FS_Subset
  <1>2. PICK q \in Ascending(D) : r = [i \in 1..Cardinality(D) |-> s[q[i]]]
    BY DEF SubseqAt
  <1>3. q \in [1..Cardinality(D) -> D] /\ Cardinality(D) \in Nat /\ r \in Seq(Thread)
    BY <1>1, AscendingType, SubseqAtType
  <1>4. /\ \A i, j \in 1..Cardinality(D) : q[i] = q[j] => i = j
        /\ \A d \in D : \E i \in 1..Cardinality(D) : q[i] = d
    BY <1>1, AscendingOnto
  <1>5. DOMAIN r = 1..Cardinality(D) /\ \A i \in 1..Cardinality(D) : r[i] = s[q[i]]
    BY <1>2
  <1> DEFINE there == {i \in D : s[i] = t}
             g == [i \in Places(t, r) |-> q[i]]
  <1>6. g \in [Places(t, r) -> there]
    BY <1>3, <1>5 DEF Places
  <1>7. \A x, y \in Places(t, r) : g[x] = g[y] => x = y
    BY <1>4, <1>5 DEF Places
  <1>8. \A z \in there : \E x \in Places(t, r) : g[x] = z
    <2> SUFFICES ASSUME NEW z \in there PROVE \E x \in Places(t, r) : g[x] = z
      OBVIOUS
    <2>1. PICK i \in 1..Cardinality(D) : q[i] = z
      BY <1>4
    <2>2. i \in Places(t, r)
      BY <1>5, <2>1 DEF Places
    <2> QED
      BY <2>1, <2>2
  <1>9. IsFiniteSet(Places(t, r)) /\ Count(t, r) = Cardinality(Places(t, r))
    BY <1>3, CountType
  <1>10. Cardinality(there) = Count(t, r)
    <2> HIDE DEF there, g
    <2> QED
      BY <1>6, <1>7, <1>8, <1>9, SameSize
  <1> QED
    BY <1>4, <1>5, <1>10

\* check_sleep_list moves threads and loses none; who stays asleep stays listed.
LEMMA CountWoken ==
    ASSUME SchedType, NEW left, NEW woken \in Woken(left), NEW asleep \in Asleep(left), NEW t
    PROVE  /\ Count(t, sleep_list) = Count(t, asleep) + Count(t, woken)
           /\ \A i \in DOMAIN sleep_list : ~(left[sleep_list[i]] <= 0) =>
                \E j \in DOMAIN asleep : asleep[j] = sleep_list[i]
           /\ woken \in Seq(Thread) /\ asleep \in Seq(Thread)
  <1> DEFINE E == Expired(left)
             A == DOMAIN sleep_list \ E
             came == {i \in E : sleep_list[i] = t}
             kept == {i \in A : sleep_list[i] = t}
  <1>1. sleep_list \in Seq(Thread) /\ E \in SUBSET DOMAIN sleep_list
                                   /\ A \in SUBSET DOMAIN sleep_list
    BY DEF SchedType, Expired
  <1>2. woken \in Seq(Thread) /\ asleep \in Seq(Thread)
    BY <1>1, SubseqAtType DEF Woken, Asleep
  <1>3. /\ Count(t, woken) = Cardinality(came)
        /\ Count(t, asleep) = Cardinality(kept)
        /\ \A i \in A : \E j \in DOMAIN asleep : asleep[j] = sleep_list[i]
    <2>1. woken \in SubseqAt(sleep_list, E) /\ asleep \in SubseqAt(sleep_list, A)
      BY DEF Woken, Asleep
    <2> HIDE DEF E, A
    <2>2. Count(t, woken) = Cardinality({i \in E : sleep_list[i] = t})
      BY <1>1, <2>1, CountSubseq
    <2>3. /\ Count(t, asleep) = Cardinality({i \in A : sleep_list[i] = t})
          /\ \A i \in A : \E j \in DOMAIN asleep : asleep[j] = sleep_list[i]
      BY <1>1, <2>1, CountSubseq
    <2> QED
      BY <2>2, <2>3
  <1>4. /\ IsFiniteSet(Places(t, sleep_list))
        /\ Count(t, sleep_list) = Cardinality(Places(t, sleep_list))
    BY <1>1, CountType
  <1>5. /\ Places(t, sleep_list) = kept \cup came
        /\ kept \cap came = {}
        /\ kept \in SUBSET Places(t, sleep_list) /\ came \in SUBSET Places(t, sleep_list)
    BY <1>1 DEF Places
  <1>6. Cardinality(Places(t, sleep_list)) = Cardinality(kept) + Cardinality(came)
    <2> HIDE DEF kept, came
    <2>1. IsFiniteSet(kept) /\ IsFiniteSet(came)
      BY <1>4, <1>5, FS_Subset
    <2>2. Cardinality(kept) \in Nat /\ Cardinality(came) \in Nat
      BY <2>1, FS_CardinalityType
    <2>3. Cardinality(kept \cup came)
            = Cardinality(kept) + Cardinality(came) - Cardinality(kept \cap came)
      BY <2>1, FS_Union
    <2>4. Cardinality(kept \cap came) = 0
      BY <1>5, FS_EmptySet
    <2> QED
      BY <1>5, <2>2, <2>3, <2>4
  <1>7. \A i \in DOMAIN sleep_list : ~(left[sleep_list[i]] <= 0) => i \in A
    BY DEF Expired
  <1> QED
    BY <1>2, <1>3, <1>4, <1>6, <1>7

-----------------------------------------------------------------------------
(* The join lists. *)

\* Joining as a function of the map.
Joiners(t, m) == UNION {{u} \X {i \in DOMAIN m[u] : m[u][i] = t} : u \in DOMAIN m}

\* The same as pairs of a joined thread and a place in its list.
Pairs(t, m) == {p \in Thread \X Nat : p[1] \in DOMAIN m /\ p[2] \in Places(t, m[p[1]])}

\* The joiners are finitely many; none exactly when the thread joins nobody.
LEMMA JoinersType ==
    ASSUME NEW m, DOMAIN m \subseteq Thread, m \in [DOMAIN m -> Seq(Thread)], NEW t
    PROVE  /\ IsFiniteSet(Joiners(t, m))
           /\ Cardinality(Joiners(t, m)) \in Nat
           /\ Cardinality(Joiners(t, m)) = 0 <=>
                \A u \in DOMAIN m : \A i \in DOMAIN m[u] : m[u][i] # t
           /\ Joiners(t, m) = Pairs(t, m)
  <1>1. \A u \in DOMAIN m : m[u] \in Seq(Thread) /\ u \in Thread
    OBVIOUS
  <1> DEFINE here(u) == {u} \X Places(t, m[u])
             all == {here(u) : u \in DOMAIN m}
             g == [u \in DOMAIN m |-> here(u)]
  <1>2. Joiners(t, m) = UNION all
    BY DEF Joiners, Places
  <1>3. IsFiniteSet(all)
    <2>1. g \in Surjection(DOMAIN m, all)
      BY DEF Surjection
    <2>2. IsFiniteSet(DOMAIN m)
      BY FS_Subset
    <2> HIDE DEF g, all
    <2> QED
      BY <2>1, <2>2, FS_Surjection
  <1>4. \A T \in all : IsFiniteSet(T)
    <2> SUFFICES ASSUME NEW u \in DOMAIN m PROVE IsFiniteSet(here(u))
      OBVIOUS
    <2>1. IsFiniteSet({u}) /\ IsFiniteSet(Places(t, m[u]))
      BY <1>1, CountType, FS_Singleton
    <2> QED
      BY <2>1, FS_Product
  <1>5. IsFiniteSet(Joiners(t, m))
    <2> HIDE DEF all
    <2> QED
      BY <1>2, <1>3, <1>4, FS_UNION
  <1>6. Cardinality(Joiners(t, m)) \in Nat /\ (Cardinality(Joiners(t, m)) = 0 <=> Joiners(t, m) = {})
    BY <1>5, FS_CardinalityType, FS_EmptySet
  <1>7. \A p : p \in Joiners(t, m) <=> \E u \in DOMAIN m : p \in here(u)
    BY <1>2
  <1>8. Joiners(t, m) = Pairs(t, m)
    <2>1. \A u \in DOMAIN m : u \in Thread /\ Places(t, m[u]) \subseteq Nat
      BY <1>1 DEF Places
    <2> QED
      BY <1>7, <2>1 DEF Pairs
  <1>9. Joiners(t, m) = {} <=>
          \A u \in DOMAIN m : \A i \in DOMAIN m[u] : m[u][i] # t
    <2>1. (\A u \in DOMAIN m : here(u) = {}) <=>
          \A u \in DOMAIN m : \A i \in DOMAIN m[u] : m[u][i] # t
      <3>1. \A u \in DOMAIN m : \A i \in Places(t, m[u]) : <<u, i>> \in here(u)
        OBVIOUS
      <3>2. \A u \in DOMAIN m : Places(t, m[u]) = {} => here(u) = {}
        OBVIOUS
      <3> HIDE DEF here
      <3> QED
        BY <3>1, <3>2 DEF Places
    <2> HIDE DEF here, all, g
    <2> QED
      BY <1>7, <2>1
  <1> QED
    BY <1>5, <1>6, <1>8, <1>9

\* Before and after a step.
LEMMA JoiningType ==
    ASSUME NEW t
    PROVE  /\ SchedType => /\ IsFiniteSet(Joining(t))
                           /\ Cardinality(Joining(t)) \in Nat
                           /\ Joining(t) = Pairs(t, join_map)
           /\ SchedType' => /\ IsFiniteSet(Joining(t)')
                            /\ Cardinality(Joining(t)') \in Nat
                            /\ Joining(t)' = Pairs(t, join_map')
  <1>1. Joining(t) = Joiners(t, join_map) /\ Joining(t)' = Joiners(t, join_map')
    BY DEF Joining, Joiners
  <1>2. SchedType => DOMAIN join_map \subseteq Thread /\ join_map \in [DOMAIN join_map -> Seq(Thread)]
    BY DEF SchedType
  <1>3. SchedType' => DOMAIN join_map' \subseteq Thread
                        /\ join_map' \in [DOMAIN join_map' -> Seq(Thread)]
    BY DEF SchedType
  <1> QED
    BY <1>1, <1>2, <1>3, JoinersType


\* ready() opens a list with nobody in it.
LEMMA JoiningReady ==
    ASSUME SchedType, SchedType', NEW t, NEW u \in Thread, u \notin DOMAIN join_map,
           join_map' = [v \in DOMAIN join_map \cup {u} |->
                          IF v = u THEN <<>> ELSE join_map[v]]
    PROVE  Cardinality(Joining(t))' = Cardinality(Joining(t))
  <1>1. /\ DOMAIN join_map' = DOMAIN join_map \cup {u}
        /\ join_map'[u] = <<>>
        /\ \A v \in DOMAIN join_map : join_map'[v] = join_map[v]
    OBVIOUS
  <1>2. Places(t, join_map'[u]) = {}
    BY <1>1 DEF Places
  <1>3. Joining(t) = Pairs(t, join_map)
    BY JoiningType
  <1>4. Joining(t)' = Pairs(t, join_map')
    BY JoiningType
  <1>5. Joining(t)' = Joining(t)
    BY <1>1, <1>2, <1>3, <1>4 DEF Pairs
  <1> QED
    BY <1>5

\* join() adds the caller to one list.
LEMMA JoiningJoin ==
    ASSUME SchedType, SchedType', NEW t, NEW u \in DOMAIN join_map, NEW x \in Thread,
           join_map' = [join_map EXCEPT ![u] = Append(@, x)]
    PROVE  Cardinality(Joining(t))' = Cardinality(Joining(t)) + IF x = t THEN 1 ELSE 0
  <1>1. join_map[u] \in Seq(Thread) /\ u \in Thread
    BY DEF SchedType
  <1>2. PICK n \in Nat : n = Len(join_map[u]) + 1
    BY <1>1
  <1>3. /\ DOMAIN join_map' = DOMAIN join_map
        /\ \A v \in DOMAIN join_map \ {u} : join_map'[v] = join_map[v]
        /\ join_map'[u] = Append(join_map[u], x)
    OBVIOUS
  <1>4. /\ n \notin Places(t, join_map[u])
        /\ Places(t, Append(join_map[u], x)) =
             Places(t, join_map[u]) \cup IF x = t THEN {n} ELSE {}
    BY <1>1, <1>2 DEF Places
  <1>5. Joining(t) = Pairs(t, join_map)
    BY JoiningType
  <1>6. Joining(t)' = Pairs(t, join_map')
    BY JoiningType
  <1>7. IsFiniteSet(Joining(t)) /\ Cardinality(Joining(t)) \in Nat
    BY JoiningType
  <1>8. CASE x = t
    <2>1. Joining(t)' = Joining(t) \cup {<<u, n>>}
      BY <1>1, <1>3, <1>4, <1>5, <1>6, <1>8 DEF Pairs
    <2>2. <<u, n>> \notin Joining(t)
      BY <1>4, <1>5 DEF Pairs
    <2> QED
      BY <1>7, <1>8, <2>1, <2>2, FS_AddElement
  <1>9. CASE x # t
    <2>1. Joining(t)' = Joining(t)
      BY <1>1, <1>3, <1>4, <1>5, <1>6, <1>9 DEF Pairs
    <2> QED
      BY <1>7, <1>9, <2>1
  <1> QED
    BY <1>8, <1>9

\* exit() takes one list out.
LEMMA JoiningExit ==
    ASSUME SchedType, SchedType', NEW t, NEW u \in DOMAIN join_map,
           join_map' = [v \in DOMAIN join_map \ {u} |-> join_map[v]]
    PROVE  Cardinality(Joining(t)) = Cardinality(Joining(t))' + Count(t, join_map[u])
  <1>1. join_map[u] \in Seq(Thread) /\ u \in Thread
    BY DEF SchedType
  <1>2. /\ DOMAIN join_map' = DOMAIN join_map \ {u}
        /\ \A v \in DOMAIN join_map \ {u} : join_map'[v] = join_map[v]
    OBVIOUS
  <1>3. Joining(t) = Pairs(t, join_map)
    BY JoiningType
  <1>4. Joining(t)' = Pairs(t, join_map')
    BY JoiningType
  <1>5. /\ IsFiniteSet(Joining(t)) /\ Cardinality(Joining(t)) \in Nat
        /\ IsFiniteSet(Joining(t)') /\ Cardinality(Joining(t)') \in Nat
    BY JoiningType
  <1>6. PICK P : P = Places(t, join_map[u])
    OBVIOUS
  <1>7. IsFiniteSet(P) /\ Cardinality(P) = Count(t, join_map[u]) /\ P \subseteq Nat
    <2>1. PICK js \in Seq(Thread) : js = join_map[u]
      BY <1>1
    <2>2. IsFiniteSet(Places(t, js)) /\ Count(t, js) = Cardinality(Places(t, js))
      BY CountType
    <2>3. Places(t, js) \subseteq Nat
      BY DEF Places
    <2> QED
      BY <1>6, <2>1, <2>2, <2>3
  <1>8. IsFiniteSet({u} \X P) /\ Cardinality({u} \X P) = Cardinality(P)
    <2>1. IsFiniteSet({u}) /\ Cardinality({u}) = 1
      BY FS_Singleton
    <2>2. Cardinality(P) \in Nat
      BY <1>7, FS_CardinalityType
    <2>3. IsFiniteSet({u} \X P) /\ Cardinality({u} \X P) = 1 * Cardinality(P)
      BY <1>7, <2>1, FS_Product
    <2> QED
      BY <2>2, <2>3
  <1>9. Joining(t) = Joining(t)' \cup ({u} \X P)
    BY <1>1, <1>2, <1>3, <1>4, <1>6, <1>7 DEF Pairs
  <1>10. Joining(t)' \cap ({u} \X P) = {}
    BY <1>2, <1>4 DEF Pairs
  <1>11. Cardinality(Joining(t)' \cup ({u} \X P))
           = Cardinality(Joining(t)') + Cardinality({u} \X P)
               - Cardinality(Joining(t)' \cap ({u} \X P))
    BY <1>5, <1>8, FS_Union
  <1>12. Cardinality(Joining(t)' \cap ({u} \X P)) = 0
    BY <1>10, FS_EmptySet
  <1>13. Count(t, join_map[u]) \in Nat
    BY <1>1, CountType
  <1> QED
    BY <1>5, <1>7, <1>8, <1>9, <1>11, <1>12, <1>13

-----------------------------------------------------------------------------
(* What the count of references says about single lists. *)

Cur(t)  == IF current_thread = t THEN 1 ELSE 0
Live(t) == IF t \in DOMAIN join_map THEN 1 ELSE 0
Wait(t) == IF pc[t] \in Waiting THEN 1 ELSE 0

\* The four parts of References are natural numbers.
LEMMA RefParts ==
    ASSUME SchedType, NEW t \in Thread
    PROVE  /\ Count(t, ready_queue) \in Nat
           /\ Count(t, sleep_list) \in Nat
           /\ Cardinality(Joining(t)) \in Nat
           /\ References(t) = Count(t, ready_queue) + Count(t, sleep_list)
                                + Cardinality(Joining(t)) + Cur(t)
  BY CountType, JoiningType DEF SchedType, References, Cur

\* The count, as an equation of numbers.
LEMMA Balance ==
    ASSUME SchedType, ThreadConserved, NEW t \in Thread
    PROVE  Count(t, ready_queue) + Count(t, sleep_list) + Cardinality(Joining(t)) + Cur(t)
             = Live(t) + Wait(t)
  BY RefParts DEF ThreadConserved, Live, Wait

\* A thread that was never made ready is in no list and does not run.
LEMMA NewIsNowhere ==
    ASSUME SchedType, ThreadConserved, NEW t \in Thread, pc[t] = "new", t \notin DOMAIN join_map
    PROVE  current_thread # t /\ \A i \in DOMAIN ready_queue : ready_queue[i] # t
  <1>1. Live(t) + Wait(t) = 0
    BY DEF Live, Wait, Waiting, InBlock
  <1>2. Count(t, ready_queue) = 0 /\ Cur(t) = 0
    <2>1. Cur(t) \in {0, 1}
      BY DEF Cur
    <2> QED
      BY <1>1, <2>1, RefParts, Balance
  <1> QED
    BY <1>2, CountType DEF Cur, SchedType

\* A thread that runs and is not about to block neither sleeps nor joins.
LEMMA RunnerIsNotListed ==
    ASSUME SchedType, ThreadConserved, NEW t \in Thread, current_thread = t, pc[t] \notin Waiting
    PROVE  /\ \A i \in DOMAIN sleep_list : sleep_list[i] # t
           /\ \A u \in DOMAIN join_map : \A i \in DOMAIN join_map[u] : join_map[u][i] # t
  <1>1. Live(t) + Wait(t) \in {0, 1} /\ Cur(t) = 1
    BY DEF Live, Wait, Cur
  <1>2. Count(t, sleep_list) = 0 /\ Cardinality(Joining(t)) = 0
    BY <1>1, RefParts, Balance
  <1>3. \A i \in DOMAIN sleep_list : sleep_list[i] # t
    BY <1>2, CountType DEF SchedType
  <1>4. Joining(t) = {}
    BY <1>2, JoiningType, FS_EmptySet
  <1>5. ASSUME NEW u \in DOMAIN join_map, NEW i \in DOMAIN join_map[u], join_map[u][i] = t
        PROVE  FALSE
    <2>1. u \in Thread /\ i \in Nat
      BY DEF SchedType
    <2>2. <<u, i>> \in Pairs(t, join_map)
      BY <1>5, <2>1 DEF Pairs, Places
    <2> QED
      BY <1>4, <2>2, JoiningType
  <1> QED
    BY <1>3, <1>5

-----------------------------------------------------------------------------
(* Conservation, action by action. *)

\* No list changes, and nobody starts or stops waiting.
LEMMA SameConserved ==
    ASSUME ThreadConserved, UNCHANGED <<ready_queue, sleep_list, join_map, current_thread>>,
           \A t \in Thread : pc'[t] \in Waiting <=> pc[t] \in Waiting
    PROVE  ThreadConserved'
  <1> SUFFICES ASSUME NEW t \in Thread
               PROVE  References(t)' = (IF t \in DOMAIN join_map' THEN 1 ELSE 0)
                                         + (IF pc'[t] \in Waiting THEN 1 ELSE 0)
    BY DEF ThreadConserved
  <1>1. References(t)' = References(t)
    BY DEF References, Joining, Count
  <1> QED
    BY <1>1 DEF ThreadConserved

\* The count after a step follows from the count before and the differences.
LEMMA Rebalance ==
    ASSUME SchedType, SchedType', ThreadConserved,
           \A t \in Thread :
             Count(t, ready_queue') + Count(t, sleep_list') + Cardinality(Joining(t))' + Cur(t)'
                 + Live(t) + Wait(t)
               = Count(t, ready_queue) + Count(t, sleep_list) + Cardinality(Joining(t)) + Cur(t)
                   + Live(t)' + Wait(t)'
    PROVE  ThreadConserved'
  <1> SUFFICES ASSUME NEW t \in Thread
               PROVE  References(t)' = Live(t)' + Wait(t)'
    BY DEF ThreadConserved, Live, Wait
  <1>1. /\ Count(t, ready_queue') \in Nat /\ Count(t, sleep_list') \in Nat
        /\ Cardinality(Joining(t))' \in Nat
        /\ References(t)' = Count(t, ready_queue') + Count(t, sleep_list')
                              + Cardinality(Joining(t))' + Cur(t)'
    BY CountType, JoiningType DEF SchedType, References, Cur, Count
  <1>2. /\ Cur(t) \in Nat /\ Cur(t)' \in Nat /\ Live(t) \in Nat /\ Live(t)' \in Nat
        /\ Wait(t) \in Nat /\ Wait(t)' \in Nat
    BY DEF Cur, Live, Wait
  <1>3. /\ Count(t, ready_queue) \in Nat /\ Count(t, sleep_list) \in Nat
        /\ Cardinality(Joining(t)) \in Nat
        /\ Count(t, ready_queue) + Count(t, sleep_list) + Cardinality(Joining(t)) + Cur(t)
             = Live(t) + Wait(t)
    BY RefParts, Balance
  <1> QED
    BY <1>1, <1>2, <1>3

\* ready(): a thread gets its first reference and its join list.
LEMMA ReadyConserved ==
    ASSUME Inv, RefInv, TypeOK', NEW f \in Flow, Ready(f)
    PROVE  ThreadConserved'
  <1>1. fault = "none" /\ cpu = f /\ pc[f] = "ready"
    BY DEF Ready, At
  <1>2. PICK u \in Thread : u = arg[f] /\ pc[u] = "new" /\ u \notin DOMAIN join_map
    BY <1>1 DEF Inv, SwitchInv, RefInv, WaitInv
  <1>3. SchedType /\ SchedType' /\ ThreadConserved /\ ready_queue \in Seq(Thread)
    BY DEF Inv, TypeOK, SchedType, RefInv
  <1>4. /\ ready_queue' = Append(ready_queue, u)
        /\ join_map' = [v \in DOMAIN join_map \cup {u} |-> IF v = u THEN <<>> ELSE join_map[v]]
        /\ UNCHANGED <<sleep_list, current_thread>>
    BY <1>2 DEF Ready
  <1>5. ASSUME NEW t \in Thread PROVE pc'[t] \in Waiting <=> pc[t] \in Waiting
    <2>1. pc'[t] = IF t = u THEN "off"
                   ELSE IF t = f THEN (IF f = Boot THEN "boot" ELSE "run") ELSE pc[t]
      BY <1>2 DEF Ready, Inv, TypeOK, FlowType
    <2> QED
      BY <1>1, <1>2, <2>1 DEF Waiting, InBlock
  <1> SUFFICES ASSUME NEW t \in Thread
               PROVE  Count(t, ready_queue') + Count(t, sleep_list') + Cardinality(Joining(t))'
                          + Cur(t)' + Live(t) + Wait(t)
                        = Count(t, ready_queue) + Count(t, sleep_list) + Cardinality(Joining(t))
                            + Cur(t) + Live(t)' + Wait(t)'
    BY <1>3, Rebalance
  <1>6. Count(t, ready_queue') = Count(t, ready_queue) + IF u = t THEN 1 ELSE 0
    BY <1>3, <1>4, CountAppend
  <1>7. Cardinality(Joining(t))' = Cardinality(Joining(t))
    BY <1>2, <1>3, <1>4, JoiningReady
  <1>8. Cur(t)' = Cur(t) /\ Wait(t)' = Wait(t) /\ Cur(t) \in Nat /\ Wait(t) \in Nat
    BY <1>4, <1>5 DEF Cur, Wait
  <1>9. Live(t)' = Live(t) + (IF u = t THEN 1 ELSE 0) /\ Live(t) \in Nat
    BY <1>2, <1>4 DEF Live
  <1>10. Count(t, sleep_list') = Count(t, sleep_list)
    BY <1>4
  <1>11. /\ Count(t, ready_queue) \in Nat /\ Count(t, sleep_list) \in Nat
         /\ Cardinality(Joining(t)) \in Nat
    BY <1>3, RefParts
  <1> QED
    BY <1>6, <1>7, <1>8, <1>9, <1>10, <1>11

\* join(): the caller is listed once more and waits.
LEMMA JoinConserved ==
    ASSUME Inv, RefInv, TypeOK', NEW f \in Flow, Join(f), arg[f] \in DOMAIN join_map
    PROVE  ThreadConserved'
  <1>1. fault = "none" /\ cpu = f /\ pc[f] = "join"
    BY DEF Join, At
  <1>2. f \in Thread /\ current_thread = f
    BY <1>1, RunningThread DEF Switching
  <1>3. SchedType /\ SchedType' /\ ThreadConserved
    BY DEF Inv, TypeOK, RefInv
  <1>4. /\ join_map' = [join_map EXCEPT ![arg[f]] = Append(@, f)]
        /\ UNCHANGED <<ready_queue, sleep_list, current_thread>>
        /\ DOMAIN join_map' = DOMAIN join_map
    BY <1>2 DEF Join
  <1>5. \A t \in Flow : pc'[t] = IF t = f THEN "block" ELSE pc[t]
    BY DEF Join, Goto, Inv, TypeOK, FlowType
  <1> SUFFICES ASSUME NEW t \in Thread
               PROVE  Count(t, ready_queue') + Count(t, sleep_list') + Cardinality(Joining(t))'
                          + Cur(t)' + Live(t) + Wait(t)
                        = Count(t, ready_queue) + Count(t, sleep_list) + Cardinality(Joining(t))
                            + Cur(t) + Live(t)' + Wait(t)'
    BY <1>3, Rebalance
  <1>6. Cardinality(Joining(t))' = Cardinality(Joining(t)) + IF f = t THEN 1 ELSE 0
    BY <1>2, <1>3, <1>4, JoiningJoin
  <1>7. Wait(t)' = Wait(t) + (IF f = t THEN 1 ELSE 0) /\ Wait(t) \in Nat
    BY <1>1, <1>5 DEF Wait, Waiting, InBlock
  <1>8. /\ Count(t, ready_queue') = Count(t, ready_queue)
        /\ Count(t, sleep_list') = Count(t, sleep_list)
        /\ Cur(t)' = Cur(t) /\ Live(t)' = Live(t) /\ Cur(t) \in Nat /\ Live(t) \in Nat
    BY <1>4 DEF Cur, Live
  <1>9. /\ Count(t, ready_queue) \in Nat /\ Count(t, sleep_list) \in Nat
         /\ Cardinality(Joining(t)) \in Nat
    BY <1>3, RefParts
  <1> QED
    BY <1>6, <1>7, <1>8, <1>9

\* exit(): the joiners move to the ready queue; the caller waits, no longer live.
LEMMA ExitConserved ==
    ASSUME Inv, RefInv, TypeOK', NEW f \in Flow, Exit(f), current_thread \in DOMAIN join_map
    PROVE  ThreadConserved'
  <1>1. fault = "none" /\ cpu = f /\ pc[f] = "exit"
    BY DEF Exit, At
  <1>2. f \in Thread /\ current_thread = f
    BY <1>1, RunningThread DEF Switching
  <1>3. SchedType /\ SchedType' /\ ThreadConserved /\ f \in DOMAIN join_map
          /\ ready_queue \in Seq(Thread) /\ join_map[f] \in Seq(Thread)
    BY <1>2 DEF Inv, TypeOK, SchedType, RefInv
  <1>4. /\ join_map' = [u \in DOMAIN join_map \ {f} |-> join_map[u]]
        /\ ready_queue' = ready_queue \o join_map[f]
        /\ UNCHANGED <<sleep_list, current_thread>>
        /\ DOMAIN join_map' = DOMAIN join_map \ {f}
    BY <1>2 DEF Exit
  <1>5. \A t \in Flow : pc'[t] = IF t = f THEN "block" ELSE pc[t]
    BY DEF Exit, Goto, Inv, TypeOK, FlowType
  <1> SUFFICES ASSUME NEW t \in Thread
               PROVE  Count(t, ready_queue') + Count(t, sleep_list') + Cardinality(Joining(t))'
                          + Cur(t)' + Live(t) + Wait(t)
                        = Count(t, ready_queue) + Count(t, sleep_list) + Cardinality(Joining(t))
                            + Cur(t) + Live(t)' + Wait(t)'
    BY <1>3, Rebalance
  <1>6. Cardinality(Joining(t)) = Cardinality(Joining(t))' + Count(t, join_map[f])
    BY <1>3, <1>4, JoiningExit
  <1>7. Count(t, ready_queue') = Count(t, ready_queue) + Count(t, join_map[f])
    BY <1>3, <1>4, CountConcat
  <1>8. Wait(t)' = Wait(t) + (IF f = t THEN 1 ELSE 0) /\ Wait(t) \in Nat
    BY <1>1, <1>5 DEF Wait, Waiting, InBlock
  <1>9. Live(t) = Live(t)' + (IF f = t THEN 1 ELSE 0) /\ Live(t)' \in Nat
    BY <1>3, <1>4 DEF Live
  <1>10. Count(t, sleep_list') = Count(t, sleep_list) /\ Cur(t)' = Cur(t) /\ Cur(t) \in Nat
    BY <1>4 DEF Cur
  <1>11. /\ Count(t, ready_queue) \in Nat /\ Count(t, sleep_list) \in Nat
         /\ Cardinality(Joining(t)) \in Nat
    BY <1>3, RefParts
  <1>12. Count(t, join_map[f]) \in Nat /\ Cardinality(Joining(t))' \in Nat
    BY <1>3, CountType, JoiningType
  <1> QED
    BY <1>6, <1>7, <1>8, <1>9, <1>10, <1>11, <1>12

\* sleep(): the caller is listed once more and waits.
LEMMA EnlistConserved ==
    ASSUME Inv, RefInv, TypeOK', NEW f \in Flow, Enlist(f)
    PROVE  ThreadConserved'
  <1>1. fault = "none" /\ cpu = f /\ pc[f] = "enlist"
    BY DEF Enlist, At
  <1>2. f \in Thread /\ current_thread = f
    BY <1>1, RunningThread DEF Switching
  <1>3. SchedType /\ SchedType' /\ ThreadConserved /\ sleep_list \in Seq(Thread)
    BY DEF Inv, TypeOK, SchedType, RefInv
  <1>4. sleep_list' = Append(sleep_list, f) /\ UNCHANGED <<ready_queue, join_map, current_thread>>
    BY <1>2 DEF Enlist
  <1>5. \A t \in Flow : pc'[t] = IF t = f THEN "block" ELSE pc[t]
    BY DEF Enlist, Goto, Inv, TypeOK, FlowType
  <1> SUFFICES ASSUME NEW t \in Thread
               PROVE  Count(t, ready_queue') + Count(t, sleep_list') + Cardinality(Joining(t))'
                          + Cur(t)' + Live(t) + Wait(t)
                        = Count(t, ready_queue) + Count(t, sleep_list) + Cardinality(Joining(t))
                            + Cur(t) + Live(t)' + Wait(t)'
    BY <1>3, Rebalance
  <1>6. Count(t, sleep_list') = Count(t, sleep_list) + IF f = t THEN 1 ELSE 0
    BY <1>2, <1>3, <1>4, CountAppend
  <1>7. Wait(t)' = Wait(t) + (IF f = t THEN 1 ELSE 0) /\ Wait(t) \in Nat
    BY <1>1, <1>5 DEF Wait, Waiting, InBlock
  <1>8. /\ Count(t, ready_queue') = Count(t, ready_queue)
        /\ Cur(t)' = Cur(t) /\ Live(t)' = Live(t) /\ Cur(t) \in Nat /\ Live(t) \in Nat
    BY <1>4 DEF Cur, Live
  <1>9. Cardinality(Joining(t))' = Cardinality(Joining(t))
    BY <1>4 DEF Joining
  <1>10. /\ Count(t, ready_queue) \in Nat /\ Count(t, sleep_list) \in Nat
         /\ Cardinality(Joining(t)) \in Nat
    BY <1>3, RefParts
  <1> QED
    BY <1>6, <1>7, <1>8, <1>9, <1>10

\* check_sleep_list in block() and switch_thread().
LEMMA ScanConserved ==
    ASSUME Inv, RefInv, TypeOK', NEW f \in Flow, ScanDone(f)
    PROVE  ThreadConserved'
  <1>1. PICK woken \in Woken(wakeup_time) : ready_queue' = ready_queue \o woken
    BY DEF ScanDone
  <1>2. sleep_list' \in Asleep(wakeup_time) /\ UNCHANGED <<join_map, current_thread>>
    BY DEF ScanDone
  <1>3. SchedType /\ SchedType' /\ ThreadConserved /\ ready_queue \in Seq(Thread)
    BY DEF Inv, TypeOK, SchedType, RefInv
  <1>4. \A t \in Flow : pc'[t] \in Waiting <=> pc[t] \in Waiting
    BY DEF ScanDone, At, Goto, Inv, TypeOK, FlowType, Waiting, InBlock
  <1> SUFFICES ASSUME NEW t \in Thread
               PROVE  Count(t, ready_queue') + Count(t, sleep_list') + Cardinality(Joining(t))'
                          + Cur(t)' + Live(t) + Wait(t)
                        = Count(t, ready_queue) + Count(t, sleep_list) + Cardinality(Joining(t))
                            + Cur(t) + Live(t)' + Wait(t)'
    BY <1>3, Rebalance
  <1>5. /\ Count(t, sleep_list) = Count(t, sleep_list') + Count(t, woken)
        /\ woken \in Seq(Thread) /\ sleep_list' \in Seq(Thread)
    BY <1>1, <1>2, <1>3, CountWoken
  <1>6. Count(t, ready_queue') = Count(t, ready_queue) + Count(t, woken)
    BY <1>1, <1>3, <1>5, CountConcat
  <1>7. Cardinality(Joining(t))' = Cardinality(Joining(t))
    BY <1>2 DEF Joining
  <1>8. /\ Cur(t)' = Cur(t) /\ Live(t)' = Live(t) /\ Wait(t)' = Wait(t)
        /\ Cur(t) \in Nat /\ Live(t) \in Nat /\ Wait(t) \in Nat
    BY <1>2, <1>4 DEF Cur, Live, Wait
  <1>9. /\ Count(t, ready_queue) \in Nat /\ Count(t, sleep_list) \in Nat
         /\ Cardinality(Joining(t)) \in Nat
    BY <1>3, RefParts
  <1>10. Count(t, woken) \in Nat /\ Count(t, sleep_list') \in Nat
    BY <1>5, CountType
  <1> QED
    BY <1>5, <1>6, <1>7, <1>8, <1>9, <1>10

\* block(): the caller gives up the reference it waited with, or takes it back.
LEMMA BlockConserved ==
    ASSUME Inv, RefInv, TypeOK', NEW f \in Flow, Block(f)
    PROVE  ThreadConserved'
  <1>1. fault = "none" /\ cpu = f /\ pc[f] = "pop" /\ ready_queue # <<>>
    BY DEF Block, At
  <1>2. f \in Thread /\ current_thread = f
    BY <1>1, RunningThread DEF Switching
  <1>3. SchedType /\ SchedType' /\ ThreadConserved /\ ready_queue \in Seq(Thread)
    BY DEF Inv, TypeOK, SchedType, RefInv
  <1>4. ready_queue' = Tail(ready_queue) /\ UNCHANGED <<sleep_list, join_map>>
    BY DEF Block
  <1>5. current_thread' = Head(ready_queue)
    BY <1>2 DEF Block, Dispatch
  <1>6. \A t \in Flow : pc'[t] \in Waiting <=> pc[t] \in Waiting /\ t # f
    <2>1. PICK p \in {"run", "dead", "fetch"} : pc' = [pc EXCEPT ![f] = p]
      BY DEF Block, Dispatch, Goto, AfterBlock
    <2> QED
      BY <2>1 DEF Inv, TypeOK, FlowType, Waiting, InBlock
  <1> SUFFICES ASSUME NEW t \in Thread
               PROVE  Count(t, ready_queue') + Count(t, sleep_list') + Cardinality(Joining(t))'
                          + Cur(t)' + Live(t) + Wait(t)
                        = Count(t, ready_queue) + Count(t, sleep_list) + Cardinality(Joining(t))
                            + Cur(t) + Live(t)' + Wait(t)'
    BY <1>3, Rebalance
  <1>7. Count(t, ready_queue) = Count(t, ready_queue') + IF Head(ready_queue) = t THEN 1 ELSE 0
    BY <1>1, <1>3, <1>4, CountTail
  <1>8. Wait(t) = Wait(t)' + (IF f = t THEN 1 ELSE 0) /\ Wait(t)' \in Nat
    BY <1>1, <1>6 DEF Wait, Waiting, InBlock
  <1>9. /\ Cur(t) = IF f = t THEN 1 ELSE 0
        /\ Cur(t)' = IF Head(ready_queue) = t THEN 1 ELSE 0
    BY <1>2, <1>5 DEF Cur
  <1>10. /\ Count(t, sleep_list') = Count(t, sleep_list) /\ Live(t)' = Live(t)
         /\ Cardinality(Joining(t))' = Cardinality(Joining(t)) /\ Live(t) \in Nat
    <2>1. Cardinality(Joining(t))' = Cardinality(Joining(t))
      BY <1>4 DEF Joining
    <2> QED
      BY <1>4, <2>1 DEF Live
  <1>11. /\ Count(t, ready_queue) \in Nat /\ Count(t, sleep_list) \in Nat
         /\ Cardinality(Joining(t)) \in Nat
    BY <1>3, RefParts
  <1>12. Count(t, ready_queue') \in Nat
    BY <1>3, CountType DEF SchedType
  <1> QED
    BY <1>7, <1>8, <1>9, <1>10, <1>11, <1>12

\* The current thread goes to the end of a queue, its first thread becomes current.
Rotated(rq) ==
    /\ ready_queue' = Append(Tail(rq), current_thread)
    /\ current_thread' = Head(rq)
    /\ \A t \in Thread : Count(t, rq) + Count(t, sleep_list')
                           = Count(t, ready_queue) + Count(t, sleep_list)
    /\ \A t \in Thread : pc'[t] \in Waiting <=> pc[t] \in Waiting
    /\ UNCHANGED join_map

\* Rotating the queue keeps everybody's references.
LEMMA RotateConserved ==
    ASSUME Inv, RefInv, TypeOK', current_thread \in Thread, NEW rq \in Seq(Thread), rq # <<>>,
           Rotated(rq)
    PROVE  ThreadConserved'
  <1>1. SchedType /\ SchedType' /\ ThreadConserved /\ Tail(rq) \in Seq(Thread)
    BY DEF Inv, TypeOK, RefInv
  <1> SUFFICES ASSUME NEW t \in Thread
               PROVE  Count(t, ready_queue') + Count(t, sleep_list') + Cardinality(Joining(t))'
                          + Cur(t)' + Live(t) + Wait(t)
                        = Count(t, ready_queue) + Count(t, sleep_list) + Cardinality(Joining(t))
                            + Cur(t) + Live(t)' + Wait(t)'
    BY <1>1, Rebalance
  <1>2. Count(t, rq) = Count(t, Tail(rq)) + IF Head(rq) = t THEN 1 ELSE 0
    BY CountTail
  <1>3. Count(t, ready_queue') = Count(t, Tail(rq)) + IF current_thread = t THEN 1 ELSE 0
    BY <1>1, CountAppend DEF Rotated
  <1>4. /\ Cur(t) = IF current_thread = t THEN 1 ELSE 0
        /\ Cur(t)' = IF Head(rq) = t THEN 1 ELSE 0
    BY DEF Cur, Rotated
  <1>5. /\ Live(t)' = Live(t) /\ Wait(t)' = Wait(t) /\ Live(t) \in Nat /\ Wait(t) \in Nat
        /\ Cardinality(Joining(t))' = Cardinality(Joining(t))
    BY DEF Live, Wait, Joining, Rotated
  <1>6. /\ Count(t, ready_queue) \in Nat /\ Count(t, sleep_list) \in Nat
         /\ Cardinality(Joining(t)) \in Nat
    BY <1>1, RefParts
  <1>7. Count(t, Tail(rq)) \in Nat /\ Count(t, rq) \in Nat /\ Count(t, sleep_list') \in Nat
    BY <1>1, CountType DEF SchedType
  <1>8. Count(t, rq) + Count(t, sleep_list') = Count(t, ready_queue) + Count(t, sleep_list)
    BY DEF Rotated
  <1>9. Count(t, rq) = Count(t, Tail(rq)) + Cur(t)'
    BY <1>2, <1>4
  <1>10. Count(t, ready_queue') = Count(t, Tail(rq)) + Cur(t)
    BY <1>3, <1>4
  <1>11. Cur(t) \in Nat /\ Cur(t)' \in Nat
    BY <1>4
  <1>12. Count(t, ready_queue') + Count(t, sleep_list') + Cur(t)'
           = Count(t, ready_queue) + Count(t, sleep_list) + Cur(t)
    BY <1>6, <1>7, <1>8, <1>9, <1>10, <1>11
  <1>13. Count(t, ready_queue') \in Nat
    BY <1>7, <1>10, <1>11
  <1>14. PICK a \in Nat, b \in Nat, c \in Nat, d \in Nat, e \in Nat, g \in Nat :
            /\ a = Count(t, ready_queue') /\ b = Count(t, sleep_list') /\ c = Cur(t)'
            /\ d = Count(t, ready_queue) /\ e = Count(t, sleep_list) /\ g = Cur(t)
    BY <1>6, <1>7, <1>11, <1>13
  <1>15. a + b + c = d + e + g
    BY <1>12, <1>14
  <1>16. PICK j \in Nat, l \in Nat, w \in Nat :
            j = Cardinality(Joining(t)) /\ l = Live(t) /\ w = Wait(t)
    BY <1>5, <1>6
  <1>17. j = Cardinality(Joining(t))' /\ l = Live(t)' /\ w = Wait(t)'
    BY <1>5, <1>16
  <1>18. a + b + j + c + l + w = d + e + j + g + l + w
    BY <1>15
  <1> QED
    BY <1>14, <1>16, <1>17, <1>18

\* yield by system call.
LEMMA YieldConserved ==
    ASSUME Inv, RefInv, TypeOK', NEW f \in Flow, YieldPop(f)
    PROVE  ThreadConserved'
  <1>1. fault = "none" /\ cpu = f /\ pc[f] = "ypop"
    BY DEF YieldPop, At
  <1>2. f \in Thread /\ current_thread = f
    BY <1>1, RunningThread DEF Switching
  <1>3. UNCHANGED <<sleep_list, join_map>> /\ ready_queue \in Seq(Thread) /\ ThreadConserved
    BY DEF YieldPop, Inv, TypeOK, SchedType, RefInv
  <1>4. \A t \in Flow : pc'[t] \in Waiting <=> pc[t] \in Waiting
    <2>1. PICK p \in {"run", "fetch"} : pc' = [pc EXCEPT ![f] = p]
      BY DEF YieldPop, Dispatch, Goto
    <2> QED
      BY <1>1, <2>1 DEF Inv, TypeOK, FlowType, Waiting, InBlock
  <1>5. CASE ready_queue = <<>>
    BY <1>3, <1>4, <1>5, SameConserved DEF YieldPop
  <1>6. CASE ready_queue # <<>>
    <2>1. /\ ready_queue' = Append(Tail(ready_queue), current_thread)
          /\ current_thread' = Head(ready_queue)
      BY <1>6 DEF YieldPop, Dispatch
    <2>2. \A t \in Thread : Count(t, ready_queue) + Count(t, sleep_list')
                              = Count(t, ready_queue) + Count(t, sleep_list)
      BY <1>3
    <2> QED
      BY <1>2, <1>3, <1>4, <1>6, <2>1, <2>2, RotateConserved DEF Rotated
  <1> QED
    BY <1>5, <1>6

\* Loading a frame makes nobody start or stop waiting.
LEMMA ResumeWaiting ==
    ASSUME FlowType, NEW fr \in Frame, NEW ptrs, NEW pcs \in [Flow -> Pc], Sound(fr),
           \A g \in Flow : pcs[g] = pc[g] \/ (pcs[g] = "off" /\ pc[g] \in {"boot", "load"}),
           Resume(fr, ptrs, pcs)
    PROVE  \A t \in Flow : pc'[t] \in Waiting <=> pc[t] \in Waiting
  <1>1. CASE fr.at = "dead"
    BY <1>1 DEF Resume
  <1>2. CASE fr.at # "dead"
    <2>1. fr.stack \in Flow /\ fr.at \in Pc
      BY DEF Frame
    <2>2. \A t \in Flow : pc'[t] = IF t = fr.stack THEN fr.at ELSE pcs[t]
      BY <1>2, <2>1 DEF Resume
    <2>3. fr.at \in Waiting <=> pc[fr.stack] \in Waiting
      BY <1>2, <2>1 DEF Sound, Waiting, InBlock
    <2>4. \A t \in Flow : pcs[t] \in Waiting <=> pc[t] \in Waiting
      BY DEF Waiting, InBlock
    <2> QED
      BY <2>2, <2>3, <2>4
  <1> QED
    BY <1>1, <1>2

\* start(): the first thread becomes current.
LEMMA StartConserved ==
    ASSUME Inv, RefInv, TypeOK', Start
    PROVE  ThreadConserved'
  <1>1. fault = "none" /\ cpu = Boot /\ pc[Boot] = "boot" /\ ready_queue # <<>>
    BY DEF Start, At
  <1>2. current_thread = Boot
    BY <1>1 DEF Inv, RunsAsCurrent, Switching
  <1>3. SchedType /\ SchedType' /\ ThreadConserved /\ ready_queue \in Seq(Thread)
    BY DEF Inv, TypeOK, SchedType, RefInv
  <1>4. PICK u \in Thread : u = Head(ready_queue)
    BY <1>1, <1>3
  <1>5. /\ ready_queue' = Tail(ready_queue) /\ current_thread' = u
        /\ UNCHANGED <<sleep_list, join_map>>
    BY <1>4 DEF Start
  <1>6. \A t \in Flow : pc'[t] \in Waiting <=> pc[t] \in Waiting
    <2>1. PICK pcs \in [Flow -> Pc] : pcs = [pc EXCEPT ![Boot] = "off"]
      BY PcNames DEF Inv, TypeOK, FlowType
    <2>2. PICK fr \in Frame : fr = old_rsp0[u]
      BY DEF Inv, TypeOK, FlowType
    <2>3. Resume(fr, old_rsp0, pcs)
      BY <1>4, <2>1, <2>2 DEF Start
    <2>4. \A g \in Flow : pcs[g] = pc[g] \/ (pcs[g] = "off" /\ pc[g] \in {"boot", "load"})
      BY <1>1, <2>1 DEF Inv, TypeOK, FlowType
    <2>5. Sound(fr)
      BY <1>1, <2>2 DEF RefInv, FramesInv
    <2>6. FlowType
      BY DEF Inv, TypeOK
    <2> QED
      BY <2>3, <2>4, <2>5, <2>6, ResumeWaiting
  <1> SUFFICES ASSUME NEW t \in Thread
               PROVE  Count(t, ready_queue') + Count(t, sleep_list') + Cardinality(Joining(t))'
                          + Cur(t)' + Live(t) + Wait(t)
                        = Count(t, ready_queue) + Count(t, sleep_list) + Cardinality(Joining(t))
                            + Cur(t) + Live(t)' + Wait(t)'
    BY <1>3, Rebalance
  <1>7. Count(t, ready_queue) = Count(t, ready_queue') + IF u = t THEN 1 ELSE 0
    BY <1>1, <1>3, <1>4, <1>5, CountTail
  <1>8. Cur(t) = 0 /\ Cur(t)' = IF u = t THEN 1 ELSE 0
    BY <1>2, <1>5 DEF Cur
  <1>9. /\ Live(t)' = Live(t) /\ Wait(t)' = Wait(t) /\ Live(t) \in Nat /\ Wait(t) \in Nat
        /\ Cardinality(Joining(t))' = Cardinality(Joining(t))
        /\ Count(t, sleep_list') = Count(t, sleep_list)
    BY <1>5, <1>6 DEF Live, Wait, Joining
  <1>10. /\ Count(t, ready_queue) \in Nat /\ Count(t, sleep_list) \in Nat
         /\ Cardinality(Joining(t)) \in Nat
    BY <1>3, RefParts
  <1>11. Count(t, ready_queue') \in Nat
    BY <1>3, CountType DEF SchedType
  <1> QED
    BY <1>7, <1>8, <1>9, <1>10, <1>11

\* The end of thread_switch.
LEMMA LoadConserved ==
    ASSUME Inv, RefInv, NEW f \in Flow, Load(f)
    PROVE  ThreadConserved'
  <1>1. fault = "none" /\ pc[f] = "load"
    BY DEF Load, At
  <1>2. PICK pcs \in [Flow -> Pc] : pcs = [pc EXCEPT ![f] = "off"]
    BY PcNames DEF Inv, TypeOK, FlowType
  <1>3. PICK fr \in Frame : fr = sw[f].rsi
    BY DEF Inv, TypeOK, FlowType
  <1>4. Resume(fr, old_rsp0, pcs)
    BY <1>2, <1>3 DEF Load
  <1>5. \A g \in Flow : pcs[g] = pc[g] \/ (pcs[g] = "off" /\ pc[g] \in {"boot", "load"})
    BY <1>1, <1>2 DEF Inv, TypeOK, FlowType
  <1>6. Sound(fr) /\ FlowType /\ ThreadConserved
    BY <1>1, <1>3 DEF RefInv, FramesInv, Inv, TypeOK
  <1>7. \A t \in Flow : pc'[t] \in Waiting <=> pc[t] \in Waiting
    BY <1>4, <1>5, <1>6, ResumeWaiting
  <1> QED
    BY <1>6, <1>7, SameConserved DEF Load, schedVars

\* What the timer interrupt does: nothing to the scheduler, or check_sleep_list and,
\* when somebody is ready, the switch.  There is a current thread by then.
LEMMA TickMoves ==
    ASSUME Inv, Tick
    PROVE  /\ fault = "none" /\ UNCHANGED <<initialized, join_map, arg>>
           /\ \E n \in Nat : wakeup_time' = Elapse(n)
           /\ \/ UNCHANGED <<current_thread, ready_queue, sleep_list, cpu, pc, sw, old_rsp0, fault>>
              \/ /\ sleep_list' \in Asleep(wakeup_time')
                 /\ \E woken \in Woken(wakeup_time') :
                      \/ /\ ready_queue \o woken = <<>>
                         /\ UNCHANGED <<current_thread, ready_queue, cpu, pc, sw, old_rsp0, fault>>
                      \/ /\ initialized /\ current_thread \in Thread
                         /\ pc[cpu] \notin Held \/ TssLocked
                         /\ ready_queue \o woken # <<>>
                         /\ SwitchFromInterrupt(ready_queue \o woken)
  <1>1. fault = "none" /\ UNCHANGED <<initialized, join_map, arg>>
    BY DEF Tick
  <1>2. PICK n \in Nat : n = pending_incs + 1
    BY DEF Inv, TypeOK, TimeType
  <1>3. /\ wakeup_time' = Elapse(n)
        /\ \/ Reschedules((phase + n) % Quantum) /\ SwitchThread(Elapse(n))
           \/ UNCHANGED <<current_thread, ready_queue, sleep_list, cpu, pc, sw, old_rsp0, fault>>
    BY <1>2 DEF Tick
  <1>4. ASSUME Reschedules((phase + n) % Quantum), SwitchThread(wakeup_time')
        PROVE  /\ sleep_list' \in Asleep(wakeup_time')
               /\ \E woken \in Woken(wakeup_time') :
                    \/ /\ ready_queue \o woken = <<>>
                       /\ UNCHANGED <<current_thread, ready_queue, cpu, pc, sw, old_rsp0, fault>>
                    \/ /\ initialized /\ current_thread \in Thread
                       /\ pc[cpu] \notin Held \/ TssLocked
                       /\ ready_queue \o woken # <<>>
                       /\ SwitchFromInterrupt(ready_queue \o woken)
    <2>1. PICK woken \in Woken(wakeup_time') :
            LET rq == ready_queue \o woken IN
            CASE rq = <<>> ->
                   UNCHANGED <<current_thread, ready_queue, cpu, pc, sw,
                               old_rsp0, tss_rsp0, fault>>
              [] rq # <<>> /\ current_thread = Boot ->
                   /\ Stop("panic")
                   /\ UNCHANGED <<current_thread, ready_queue, cpu, pc, sw, old_rsp0, tss_rsp0>>
              [] OTHER -> SwitchFromInterrupt(rq)
      BY <1>4 DEF SwitchThread
    <2>2. initialized /\ cpu \in Flow /\ current_thread \in Flow
      BY <1>4 DEF Reschedules, Inv, TypeOK, SchedType, FlowType
    <2>3. current_thread \in Thread
      BY <1>1, <2>2 DEF Inv, RunsAsCurrent, SwitchInv
    <2>4. pc[cpu] \notin Held \/ TssLocked
      BY <1>4, <2>2 DEF Tick, Reschedules, StateLocked, TimerRead, TssLocked, Held
    <2>5. sleep_list' \in Asleep(wakeup_time')
      BY <1>4 DEF SwitchThread
    <2>6. PICK rq : rq = ready_queue \o woken
      OBVIOUS
    <2>7. CASE rq = <<>>
      BY <2>1, <2>5, <2>6, <2>7
    <2>8. CASE rq # <<>>
      <3>1. SwitchFromInterrupt(rq)
        BY <2>1, <2>3, <2>6, <2>8
      <3> QED
        BY <2>2, <2>3, <2>4, <2>5, <2>6, <2>8, <3>1
    <2> QED
      BY <2>7, <2>8
  <1> QED
    BY <1>1, <1>3, <1>4

\* Together, ready queue and sleep list count the same before and after check_sleep_list.
LEMMA WokenCounts ==
    ASSUME SchedType, NEW left, NEW woken \in Woken(left), NEW asleep \in Asleep(left)
    PROVE  /\ \A t \in Thread : Count(t, sleep_list) = Count(t, asleep) + Count(t, woken)
           /\ woken \in Seq(Thread) /\ asleep \in Seq(Thread)
           /\ ready_queue \o woken \in Seq(Thread)
           /\ \A t \in Thread : Count(t, ready_queue \o woken) + Count(t, asleep)
                                  = Count(t, ready_queue) + Count(t, sleep_list)
  <1>1. /\ \A t \in Thread : Count(t, sleep_list) = Count(t, asleep) + Count(t, woken)
        /\ woken \in Seq(Thread) /\ asleep \in Seq(Thread) /\ ready_queue \in Seq(Thread)
    BY CountWoken DEF SchedType
  <1>2. ready_queue \o woken \in Seq(Thread)
    BY <1>1
  <1>3. ASSUME NEW t \in Thread
        PROVE  Count(t, ready_queue \o woken) + Count(t, asleep)
                 = Count(t, ready_queue) + Count(t, sleep_list)
    <2>1. Count(t, ready_queue \o woken) = Count(t, ready_queue) + Count(t, woken)
      BY <1>1, CountConcat
    <2>2. Count(t, ready_queue) \in Nat /\ Count(t, woken) \in Nat /\ Count(t, asleep) \in Nat
      BY <1>1, CountType
    <2>3. Count(t, sleep_list) = Count(t, asleep) + Count(t, woken)
      BY <1>1
    <2> QED
      BY <2>1, <2>2, <2>3
  <1> QED
    BY <1>1, <1>2, <1>3

\* Whom check_sleep_list finds or the queue holds was made ready once.
LEMMA WokenKnown ==
    ASSUME SchedType, ThreadConserved, NEW left, NEW woken \in Woken(left),
           NEW asleep \in Asleep(left), NEW t \in Thread, pc[t] = "new", t \notin DOMAIN join_map
    PROVE  \A i \in DOMAIN (ready_queue \o woken) : (ready_queue \o woken)[i] # t
  <1>1. Live(t) + Wait(t) = 0 /\ Cur(t) \in Nat
    BY DEF Live, Wait, Cur, Waiting, InBlock
  <1>2. Count(t, ready_queue) = 0 /\ Count(t, sleep_list) = 0
    BY <1>1, RefParts, Balance
  <1>3. PICK rq \in Seq(Thread) : rq = ready_queue \o woken
    BY WokenCounts
  <1>4. Count(t, rq) + Count(t, asleep) = 0 + 0
    BY <1>2, <1>3, WokenCounts
  <1>5. Count(t, rq) \in Nat /\ Count(t, asleep) \in Nat
    BY <1>3, WokenCounts, CountType
  <1>6. Count(t, rq) = 0
    BY <1>4, <1>5
  <1> QED
    BY <1>3, <1>6, CountType

\* The timer interrupt: who is preempted goes to the end of the queue.
LEMMA TickConserved ==
    ASSUME Inv, RefInv, TypeOK', Tick
    PROVE  ThreadConserved'
  <1>1. SchedType /\ SchedType' /\ ThreadConserved /\ ready_queue \in Seq(Thread)
          /\ UNCHANGED join_map /\ fault = "none"
    BY TickMoves DEF Inv, TypeOK, SchedType, RefInv
  <1>2. CASE UNCHANGED <<current_thread, ready_queue, sleep_list, cpu, pc, sw, old_rsp0, fault>>
    BY <1>1, <1>2, SameConserved
  <1>3. ASSUME sleep_list' \in Asleep(wakeup_time'), NEW woken \in Woken(wakeup_time')
        PROVE  /\ \A t \in Thread : Count(t, sleep_list) = Count(t, sleep_list') + Count(t, woken)
               /\ woken \in Seq(Thread) /\ ready_queue \o woken \in Seq(Thread)
               /\ \A t \in Thread : Count(t, ready_queue \o woken) + Count(t, sleep_list')
                                      = Count(t, ready_queue) + Count(t, sleep_list)
    BY <1>1, <1>3, WokenCounts
  <1>4. ASSUME sleep_list' \in Asleep(wakeup_time'), NEW woken \in Woken(wakeup_time'),
               ready_queue \o woken = <<>>,
               UNCHANGED <<current_thread, ready_queue, cpu, pc, sw, old_rsp0, fault>>
        PROVE  ThreadConserved'
    <2>1. woken = <<>> /\ woken \in Seq(Thread)
      BY <1>1, <1>3, <1>4
    <2> SUFFICES ASSUME NEW t \in Thread
                 PROVE  Count(t, ready_queue') + Count(t, sleep_list') + Cardinality(Joining(t))'
                            + Cur(t)' + Live(t) + Wait(t)
                          = Count(t, ready_queue) + Count(t, sleep_list) + Cardinality(Joining(t))
                              + Cur(t) + Live(t)' + Wait(t)'
      BY <1>1, Rebalance
    <2>2. Count(t, woken) = 0
      <3>1. \A i \in DOMAIN woken : woken[i] # t
        BY <2>1
      <3> QED
        BY <2>1, <3>1, CountType
    <2>3. Count(t, sleep_list') \in Nat /\ Count(t, sleep_list) = Count(t, sleep_list') + 0
      BY <1>1, <1>3, <1>4, <2>2, CountType DEF SchedType
    <2>4. Count(t, sleep_list) = Count(t, sleep_list')
      BY <2>3
    <2>5. /\ Count(t, ready_queue') = Count(t, ready_queue)
          /\ Cur(t)' = Cur(t) /\ Live(t)' = Live(t) /\ Wait(t)' = Wait(t)
          /\ Cardinality(Joining(t))' = Cardinality(Joining(t))
      BY <1>1, <1>4 DEF Cur, Live, Wait, Joining
    <2> QED
      BY <2>4, <2>5
  <1>5. ASSUME sleep_list' \in Asleep(wakeup_time'), NEW woken \in Woken(wakeup_time'),
               current_thread \in Thread, ready_queue \o woken # <<>>,
               SwitchFromInterrupt(ready_queue \o woken)
        PROVE  ThreadConserved'
    <2>1. PICK rq \in Seq(Thread) : rq = ready_queue \o woken
      BY <1>3, <1>5
    <2>2. PICK u \in Thread : u = Head(rq)
      BY <1>5, <2>1
    <2>3. \A t \in Flow : pc'[t] \in Waiting <=> pc[t] \in Waiting
      <3>1. CASE TssLocked
        BY <1>5, <3>1 DEF SwitchFromInterrupt
      <3>2. CASE ~TssLocked
        <4>1. PICK fr \in Frame : fr = old_rsp0[u]
          BY DEF Inv, TypeOK, FlowType
        <4>2. PICK saved : Resume(fr, saved, pc)
          BY <1>5, <2>1, <2>2, <3>2, <4>1 DEF SwitchFromInterrupt
        <4>3. Sound(fr) /\ FlowType /\ pc \in [Flow -> Pc]
          BY <1>1, <4>1 DEF RefInv, FramesInv, Inv, TypeOK, FlowType
        <4> QED
          BY <4>2, <4>3, ResumeWaiting
      <3> QED
        BY <3>1, <3>2
    <2>4. ready_queue' = Append(Tail(rq), current_thread) /\ current_thread' = Head(rq)
      BY <1>5, <2>1 DEF SwitchFromInterrupt
    <2>5. Rotated(rq)
      BY <1>1, <1>3, <1>5, <2>1, <2>3, <2>4 DEF Rotated
    <2> QED
      BY <1>5, <2>1, <2>5, RotateConserved
  <1> QED
    BY <1>2, <1>4, <1>5, TickMoves

\* Every step conserves the references of every thread.
LEMMA NextConserved ==
    ASSUME Inv, RefInv, TypeOK', [Next]_vars
    PROVE  ThreadConserved'
  <1>0. FlowType /\ ThreadConserved
    BY DEF Inv, TypeOK, RefInv
  <1>1. ASSUME NEW f \in Flow, NEW p \in Pc, p \in Waiting <=> pc[f] \in Waiting,
               pc' = [pc EXCEPT ![f] = p],
               UNCHANGED <<ready_queue, sleep_list, join_map, current_thread>>
        PROVE  ThreadConserved'
    BY <1>0, <1>1, SameConserved DEF FlowType
  <1>2. CASE UNCHANGED <<ready_queue, sleep_list, join_map, current_thread, pc>>
    BY <1>0, <1>2, SameConserved
  <1>3. ASSUME NEW f \in Flow, Step(f) PROVE ThreadConserved'
    <2>1. CASE Kickoff(f) \/ SetInit(f) \/ KickoffTss(f)
      BY <1>1, <2>1, PcNames DEF Kickoff, SetInit, KickoffTss, At, Goto, schedVars, Waiting, InBlock
    <2>2. CASE Join(f)
      BY <1>2, <2>2, JoinConserved DEF Join
    <2>3. CASE Exit(f)
      BY <1>2, <2>3, ExitConserved DEF Exit
    <2>4. CASE \E ms \in SleepTimes : ReadClock(f, ms)
      BY <1>1, <2>4, PcNames DEF ReadClock, At, Goto, schedVars, Waiting, InBlock
    <2>5. CASE LockSleep(f) \/ LockBlock(f) \/ ScanStart(f)
      BY <1>1, <2>5, PcNames
      DEF LockSleep, LockBlock, ScanStart, Call, At, Goto, schedVars, Waiting, InBlock
    <2>6. CASE Fetch(f) \/ Save(f) \/ SetTss(f)
      BY <1>1, <2>6, PcNames DEF Fetch, Save, SetTss, At, Goto, schedVars, Waiting, InBlock
    <2> QED
      BY <1>3, <2>1, <2>2, <2>3, <2>4, <2>5, <2>6, ReadyConserved, EnlistConserved, ScanConserved,
         BlockConserved, YieldConserved, LoadConserved DEF Step
  <1>4. ASSUME NEW f \in Flow, Calls(f) PROVE ThreadConserved'
    BY <1>1, <1>4, PcNames
    DEF Calls, CallReady, CallJoin, CallExit, CallYield, CallSleep, Call, At, Goto, schedVars,
        Waiting, InBlock
  <1>5. CASE TickPending \/ Halted \/ UNCHANGED vars
    BY <1>2, <1>5 DEF TickPending, Halted, vars, schedVars, flowVars
  <1> QED
    BY <1>3, <1>4, <1>5, StartConserved, TickConserved DEF Next

-----------------------------------------------------------------------------
(* The frames: where each thread goes on. *)

\* Sound as a function of the program counters a frame is loaded into.
SoundIn(p, pcs) == p.at # "dead" =>
    /\ p.at # "new"
    /\ \/ p.at = pcs[p.stack]
       \/ p.at \in {"kickoff", "run"} /\ pcs[p.stack] \in {"new", "off", "tss", "load"}
    /\ p.at \in Alive /\ pcs[p.stack] # "new" => p.stack \in DOMAIN join_map

\* The flow on the CPU moves on; no frame is on its stack.
LEMMA LocalFrames ==
    ASSUME Inv, RefInv, TypeOK', fault = "none", pc[cpu] \notin {"tss", "load"},
           NEW p \in Pc \ {"new"}, pc' = [pc EXCEPT ![cpu] = p],
           DOMAIN join_map \ {cpu} \subseteq DOMAIN join_map',
           UNCHANGED <<cpu, old_rsp0>>,
           \A f \in Flow : sw'[f].rsi = sw[f].rsi \/ sw'[f].rsi = Stale
    PROVE  FramesInv'
  <1>1. \A f \in Flow : pc'[f] = IF f = cpu THEN p ELSE pc[f]
    BY DEF Inv, TypeOK, FlowType
  <1>2. ASSUME NEW q \in Frame, Sound(q)
        PROVE  q.at # "dead" => /\ q.at # "new" /\ q.stack # cpu /\ pc'[q.stack] = pc[q.stack]
                                /\ \/ q.at = pc[q.stack]
                                   \/ /\ q.at \in {"kickoff", "run"}
                                      /\ pc[q.stack] \in {"new", "off", "tss", "load"}
                                /\ q.at \in Alive /\ pc[q.stack] # "new" =>
                                     q.stack \in DOMAIN join_map'
    BY <1>1, <1>2 DEF Sound, Frame
  <1>3. ASSUME NEW t \in Thread PROVE Sound(old_rsp0[t])'
    <2>1. PICK q \in Frame : q = old_rsp0[t] /\ old_rsp0'[t] = q
      BY DEF Inv, TypeOK, FlowType
    <2>2. Sound(q)
      BY <2>1 DEF RefInv, FramesInv
    <2> QED
      BY <1>2, <2>1, <2>2 DEF Sound
  <1>4. ASSUME NEW f \in Flow
        PROVE  Sound(sw[f].rsi)' /\ (sw'[f].rsi.at # "dead" => pc'[sw'[f].rsi.stack] # "new")
    <2>1. PICK q \in Frame : q = sw[f].rsi
      BY DEF Inv, TypeOK, FlowType
    <2>2. CASE sw'[f].rsi = q
      <3>1. Sound(q) /\ (q.at # "dead" => pc[q.stack] # "new")
        BY <2>1 DEF RefInv, FramesInv
      <3> QED
        BY <1>2, <2>2, <3>1 DEF Sound
    <2>3. CASE sw'[f].rsi = Stale
      BY <2>3 DEF Sound, Stale
    <2> QED
      BY <2>1, <2>2, <2>3
  <1> QED
    BY <1>3, <1>4 DEF FramesInv

\* ready() makes the first frame of a thread usable.
LEMMA ReadyFrames ==
    ASSUME Inv, RefInv, TypeOK', NEW f \in Flow, Ready(f)
    PROVE  FramesInv'
  <1>1. /\ fault = "none" /\ cpu = f /\ pc[f] = "ready"
        /\ UNCHANGED <<cpu, sw, old_rsp0>>
    BY DEF Ready, At
  <1>2. PICK u \in Thread : u = arg[f] /\ pc[u] = "new" /\ u # f
    BY <1>1 DEF Inv, SwitchInv
  <1>3. DOMAIN join_map' = DOMAIN join_map \cup {u}
    BY <1>2 DEF Ready
  <1>4. \A g \in Flow : pc'[g] = IF g = u THEN "off"
                                 ELSE IF g = f THEN (IF f = Boot THEN "boot" ELSE "run")
                                 ELSE pc[g]
    BY <1>2 DEF Ready, Inv, TypeOK, FlowType
  <1>5. ASSUME NEW q \in Frame, Sound(q) PROVE Sound(q)'
    BY <1>1, <1>2, <1>3, <1>4, <1>5 DEF Sound, Frame, Alive
  <1>6. ASSUME NEW t \in Thread PROVE Sound(old_rsp0[t])'
    <2>1. PICK q \in Frame : q = old_rsp0[t] /\ old_rsp0'[t] = q
      BY <1>1 DEF Inv, TypeOK, FlowType
    <2>2. Sound(q)'
      BY <1>1, <1>5, <2>1 DEF RefInv, FramesInv
    <2> QED
      BY <2>1, <2>2 DEF Sound
  <1>7. ASSUME NEW g \in Flow
        PROVE  Sound(sw[g].rsi)' /\ (sw'[g].rsi.at # "dead" => pc'[sw'[g].rsi.stack] # "new")
    <2>1. PICK q \in Frame : q = sw[g].rsi /\ sw'[g].rsi = q
      BY <1>1 DEF Inv, TypeOK, FlowType
    <2>2. Sound(q) /\ (q.at # "dead" => pc[q.stack] # "new")
      BY <1>1, <2>1 DEF RefInv, FramesInv
    <2>3. Sound(q)' /\ (q.at # "dead" => pc'[q.stack] # "new")
      BY <1>4, <1>5, <2>2 DEF Frame
    <2> QED
      BY <2>1, <2>3 DEF Sound
  <1> QED
    BY <1>6, <1>7 DEF FramesInv

\* The frame of a thread that was made ready does not lie on the stack of one that was not.
LEMMA FrameKnown ==
    ASSUME Inv, RefInv, fault = "none", NEW t \in Thread, pc[t] # "new", old_rsp0[t].at # "dead"
    PROVE  pc[old_rsp0[t].stack] # "new"
  BY DEF Inv, SwitchInv, LeadsTo, Switching

\* Between reading the saved pointer of the next thread and loading it.
LEMMA FetchFrames ==
    ASSUME Inv, RefInv, TypeOK', NEW f \in Flow, Fetch(f)
    PROVE  FramesInv'
  <1>1. /\ fault = "none" /\ cpu = f /\ pc[f] = "fetch"
        /\ UNCHANGED <<cpu, old_rsp0, join_map>>
        /\ pc' = [pc EXCEPT ![cpu] = "save"]
    BY DEF Fetch, At, Goto, schedVars
  <1>2. PICK u \in Thread : u = sw[f].next /\ u = current_thread
    BY <1>1 DEF Inv, SwitchInv, Switching
  <1>3. pc[u] # "new"
    BY <1>1, <1>2, NewIsNowhere DEF RefInv, WaitInv, Inv, TypeOK
  <1>4. PICK q \in Frame : q = old_rsp0[u]
    BY DEF Inv, TypeOK, FlowType
  <1>5. \A g \in Flow : sw'[g].rsi = IF g = f THEN q ELSE sw[g].rsi
    BY <1>2, <1>4 DEF Fetch, Inv, TypeOK, FlowType
  <1>6. \A g \in Flow : pc'[g] = IF g = f THEN "save" ELSE pc[g]
    BY <1>1 DEF Inv, TypeOK, FlowType
  <1>7. ASSUME NEW p \in Frame, Sound(p) PROVE Sound(p)'
    BY <1>1, <1>6, <1>7 DEF Sound, Frame
  <1>8. ASSUME NEW t \in Thread PROVE Sound(old_rsp0[t])'
    <2>1. PICK p \in Frame : p = old_rsp0[t] /\ old_rsp0'[t] = p
      BY <1>1 DEF Inv, TypeOK, FlowType
    <2>2. Sound(p)'
      BY <1>1, <1>7, <2>1 DEF RefInv, FramesInv
    <2> QED
      BY <2>1, <2>2 DEF Sound
  <1>9. ASSUME NEW g \in Flow
        PROVE  Sound(sw[g].rsi)' /\ (sw'[g].rsi.at # "dead" => pc'[sw'[g].rsi.stack] # "new")
    <2>1. PICK p \in Frame : p = sw'[g].rsi
      BY DEF TypeOK, FlowType
    <2>2. Sound(p) /\ (p.at # "dead" => pc[p.stack] # "new")
      BY <1>1, <1>3, <1>4, <1>5, <2>1, FrameKnown DEF RefInv, FramesInv
    <2>3. Sound(p)' /\ (p.at # "dead" => pc'[p.stack] # "new")
      BY <1>6, <1>7, <2>2 DEF Frame
    <2> QED
      BY <2>1, <2>3 DEF Sound
  <1> QED
    BY <1>8, <1>9 DEF FramesInv

\* thread_switch saves a frame of its own stack and goes on above it.
LEMMA SaveFrames ==
    ASSUME Inv, RefInv, TypeOK', NEW f \in Flow, Save(f) \/ SetTss(f)
    PROVE  FramesInv'
  <1>1. /\ fault = "none" /\ cpu = f /\ pc[f] \in {"save", "tss"}
        /\ UNCHANGED <<cpu, sw, join_map>>
    BY DEF Save, SetTss, At, schedVars
  <1>2. \A g \in Flow : /\ g # f => pc'[g] = pc[g]
                        /\ pc'[f] \in {"tss", "load"}
    BY DEF Save, SetTss, Goto, Inv, TypeOK, FlowType
  <1>3. ASSUME NEW p \in Frame, NEW u, LeadsTo(p, u), Sound(p) PROVE Sound(p)'
    BY <1>1, <1>2, <1>3 DEF Sound, Frame, LeadsTo, Held, Switching
  <1>4. ASSUME NEW t \in Thread PROVE Sound(old_rsp0[t])'
    <2>1. CASE old_rsp0'[t] = old_rsp0[t]
      <3>1. PICK p \in Frame : p = old_rsp0[t]
        BY DEF Inv, TypeOK, FlowType
      <3>2. Sound(p)'
        BY <1>1, <1>3, <3>1 DEF RefInv, FramesInv, Inv, SwitchInv
      <3> QED
        BY <2>1, <3>1, <3>2 DEF Sound
    <2>2. CASE old_rsp0'[t] = [stack |-> f, at |-> AfterBlock(f)]
      BY <1>1, <1>2, <2>2 DEF Sound, AfterBlock
    <2> QED
      BY <2>1, <2>2 DEF Save, SetTss, Inv, TypeOK, FlowType
  <1>5. ASSUME NEW g \in Flow
        PROVE  Sound(sw[g].rsi)' /\ (sw'[g].rsi.at # "dead" => pc'[sw'[g].rsi.stack] # "new")
    <2>1. PICK p \in Frame, u \in Flow : p = sw[g].rsi /\ u = sw[g].next /\ sw'[g].rsi = p
      BY <1>1 DEF Inv, TypeOK, FlowType
    <2>2. LeadsTo(p, u) /\ Sound(p) /\ (p.at # "dead" => pc[p.stack] # "new")
      BY <1>1, <2>1 DEF RefInv, FramesInv, Inv, SwitchInv
    <2>3. Sound(p)' /\ (p.at # "dead" => pc'[p.stack] # "new")
      BY <1>2, <1>3, <2>2 DEF Frame
    <2> QED
      BY <2>1, <2>3 DEF Sound
  <1> QED
    BY <1>4, <1>5 DEF FramesInv

\* Loading a frame: the stack it lies on is in use, every other frame is as before.
LEMMA OverwrittenSound ==
    ASSUME NEW fr \in Frame, NEW q \in Frame, NEW pcs \in [Flow -> Pc],
           fr.at # "dead", SoundIn(fr, pcs), SoundIn(q, pcs),
           q.at # "dead" => pcs[q.stack] # "new" \/ q.stack # fr.stack,
           cpu' = fr.stack, pc' = [pcs EXCEPT ![fr.stack] = fr.at], UNCHANGED join_map
    PROVE  /\ Sound(Overwritten(q, fr))'
           /\ Overwritten(q, fr).at # "dead" /\ pcs[Overwritten(q, fr).stack] # "new" =>
                pc'[Overwritten(q, fr).stack] # "new"
  <1>1. fr.stack \in Flow /\ q.stack \in Flow /\ fr.at \in Pc
    BY DEF Frame
  <1>2. \A g \in Flow : pc'[g] = IF g = fr.stack THEN fr.at ELSE pcs[g]
    BY <1>1
  <1>3. CASE q.stack = fr.stack /\ (fr.at = "load" => q.at = "load")
    BY <1>3 DEF Overwritten, Sound, Stale
  <1>4. CASE q.stack = fr.stack /\ fr.at = "load" /\ q.at # "load"
    <2>1. Overwritten(q, fr) = q
      BY <1>4 DEF Overwritten
    <2>2. pcs[fr.stack] = "load"
      BY <1>4 DEF SoundIn
    <2> QED
      BY <1>1, <1>2, <1>4, <2>1, <2>2 DEF Sound, SoundIn
  <1>5. CASE q.stack # fr.stack
    <2>1. Overwritten(q, fr) = q
      BY <1>5 DEF Overwritten
    <2> QED
      BY <1>1, <1>2, <1>5, <2>1 DEF Sound, SoundIn
  <1> QED
    BY <1>3, <1>4, <1>5

\* A switch to a frame of a thread that was made ready keeps the frames sound.
LEMMA ResumeFrames ==
    ASSUME NEW fr \in Frame, NEW ptrs \in [Thread -> Frame], NEW pcs \in [Flow -> Pc],
           FlowType, Resume(fr, ptrs, pcs), UNCHANGED join_map, fr.at # "dead",
           SoundIn(fr, pcs), pcs[fr.stack] # "new",
           \A t \in Thread : SoundIn(ptrs[t], pcs),
           \A f \in Flow : /\ SoundIn(sw[f].rsi, pcs)
                           /\ sw[f].rsi.at # "dead" => pcs[sw[f].rsi.stack] # "new"
    PROVE  FramesInv'
  <1>1. /\ cpu' = fr.stack
        /\ pc' = [pcs EXCEPT ![fr.stack] = fr.at]
        /\ old_rsp0' = [t \in Thread |-> Overwritten(ptrs[t], fr)]
        /\ sw' = [f \in Flow |->
                    IF f = fr.stack /\ fr.at \notin Switching
                    THEN Idle
                    ELSE [cur |-> sw[f].cur, next |-> sw[f].next,
                          rsi |-> Overwritten(sw[f].rsi, fr)]]
    BY DEF Resume
  <1>2. ASSUME NEW t \in Thread PROVE Sound(old_rsp0[t])'
    <2>1. PICK q \in Frame : q = ptrs[t]
      OBVIOUS
    <2>2. Sound(Overwritten(q, fr))'
      BY <1>1, <2>1, OverwrittenSound
    <2>3. old_rsp0'[t] = Overwritten(q, fr)
      BY <1>1, <2>1
    <2> QED
      BY <2>2, <2>3 DEF Sound, Overwritten
  <1>3. ASSUME NEW f \in Flow
        PROVE  Sound(sw[f].rsi)' /\ (sw'[f].rsi.at # "dead" => pc'[sw'[f].rsi.stack] # "new")
    <2>1. CASE sw'[f].rsi = Stale
      BY <2>1 DEF Sound, Stale
    <2>2. CASE sw'[f].rsi = Overwritten(sw[f].rsi, fr)
      <3>1. PICK q \in Frame : q = sw[f].rsi
        BY DEF FlowType
      <3>2. Sound(Overwritten(q, fr))'
        BY <1>1, <3>1, OverwrittenSound
      <3>3. Overwritten(q, fr).at # "dead" => Overwritten(q, fr) = q
        BY DEF Overwritten, Stale
      <3>4. Overwritten(q, fr).at # "dead" => pc'[Overwritten(q, fr).stack] # "new"
        BY <1>1, <3>1, <3>3, OverwrittenSound
      <3> QED
        BY <2>2, <3>1, <3>2, <3>4 DEF Sound, Overwritten
    <2> QED
      BY <1>1, <2>1, <2>2 DEF Idle
  <1> QED
    BY <1>2, <1>3 DEF FramesInv

-----------------------------------------------------------------------------
(* Who waits, and for what. *)

\* The first thread that runs, and the calls of ready() and join(), name an operand.
LEMMA OperandWait ==
    ASSUME Inv, RefInv, NEW f \in Flow,
           \/ SetInit(f) \/ KickoffTss(f)
           \/ \E t \in Thread : CallReady(f, t) \/ CallJoin(f, t)
    PROVE  WaitInv'
  <1>1. /\ fault = "none" /\ cpu = f /\ UNCHANGED <<cpu, join_map, wakeup_time, sleep_list>>
        /\ pc[f] \in {"init", "ktss", "run", "boot"}
    BY DEF SetInit, KickoffTss, CallReady, CallJoin, At, schedVars, timeVars
  <1>2. PICK p \in {"ktss", "run", "ready", "join"}, a \in Flow :
           /\ pc' = [pc EXCEPT ![f] = p] /\ arg' = [arg EXCEPT ![f] = a]
           /\ \/ pc[f] # "boot" /\ p = "ktss" /\ a \in Flow /\ a = current_thread
              \/ pc[f] # "boot" /\ p = "run" /\ a = Boot
              \/ p = "ready" /\ a \in Thread /\ pc[a] = "new"
              \/ pc[f] # "boot" /\ p = "join" /\ a \in Thread /\ pc[a] # "new"
    <2>1. CASE SetInit(f)
      BY <2>1 DEF SetInit, At, Goto, Inv, TypeOK, SchedType
    <2>2. CASE KickoffTss(f)
      BY <2>2 DEF KickoffTss, At, Goto
    <2>3. ASSUME NEW t \in Thread, CallReady(f, t) \/ CallJoin(f, t)
          PROVE  \E p \in {"ktss", "run", "ready", "join"}, a \in Flow :
                   /\ pc' = [pc EXCEPT ![f] = p] /\ arg' = [arg EXCEPT ![f] = a]
                   /\ \/ pc[f] # "boot" /\ p = "ktss" /\ a \in Flow /\ a = current_thread
                      \/ pc[f] # "boot" /\ p = "run" /\ a = Boot
                      \/ p = "ready" /\ a \in Thread /\ pc[a] = "new"
                      \/ pc[f] # "boot" /\ p = "join" /\ a \in Thread /\ pc[a] # "new"
      <3>1. CASE CallReady(f, t)
        BY <3>1 DEF CallReady, At, Goto
      <3>2. CASE CallJoin(f, t)
        BY <3>2 DEF CallJoin, At, Goto
      <3> QED
        BY <2>3, <3>1, <3>2
    <2> QED
      BY <2>1, <2>2, <2>3
  <1>3. \A g \in Flow : /\ pc'[g] = IF g = f THEN p ELSE pc[g]
                        /\ arg'[g] = IF g = f THEN a ELSE arg[g]
    BY <1>2 DEF Inv, TypeOK, FlowType
  <1>4. WaitInv /\ SchedType
    BY <1>1 DEF RefInv, Inv, TypeOK
  <1>5. f \in Thread => f \in DOMAIN join_map
    <2>1. f \in Thread => pc[f] \in Alive
      BY <1>1, PcNames DEF Alive, Waiting, InBlock, Switching
    <2> QED
      BY <1>1, <1>4, <2>1 DEF WaitInv
  <1>6. /\ pc'[cpu'] # "new"
        /\ cpu' \in Thread /\ pc'[cpu'] \in Alive => cpu' \in DOMAIN join_map'
        /\ \A t \in Thread : pc'[t] = "new" => t \notin DOMAIN join_map'
    BY <1>1, <1>3, <1>4, <1>5 DEF WaitInv
  <1>7. ASSUME NEW g \in Flow, arg'[g] \in Thread, pc'[arg'[g]] = "new" PROVE pc'[g] = "ready"
    <2>1. CASE g = f
      <3>1. p = "ktss" => a = f
        BY <1>1, <1>2 DEF Inv, RunsAsCurrent, Switching
      <3> QED
        BY <1>2, <1>3, <1>7, <2>1, <3>1
    <2>2. CASE g # f
      BY <1>3, <1>4, <1>7, <2>2 DEF WaitInv
    <2> QED
      BY <2>1, <2>2
  <1>8. ASSUME NEW g \in Flow, arg'[g] \in DOMAIN join_map', pc'[g] \notin {"join", "ktss"}
        PROVE  \E i \in DOMAIN join_map'[arg'[g]] : join_map'[arg'[g]][i] = g
    <2>1. CASE g = f
      BY <1>1, <1>2, <1>3, <1>4, <1>8, <2>1 DEF WaitInv, SchedType
    <2>2. CASE g # f
      BY <1>1, <1>3, <1>4, <1>8, <2>2 DEF WaitInv
    <2> QED
      BY <2>1, <2>2
  <1>9. \A t \in Thread : wakeup_time'[t] # 0 /\ pc'[t] \notin {"sleep", "enlist"} =>
          \E i \in DOMAIN sleep_list' : sleep_list'[i] = t
    BY <1>1, <1>3, <1>4 DEF WaitInv
  <1> QED
    BY <1>6, <1>7, <1>8, <1>9 DEF WaitInv

\* ready(): nobody has joined the new thread yet.
LEMMA ReadyWait ==
    ASSUME Inv, RefInv, NEW f \in Flow, Ready(f)
    PROVE  WaitInv'
  <1>1. /\ fault = "none" /\ cpu = f /\ pc[f] = "ready"
        /\ UNCHANGED <<cpu, wakeup_time, sleep_list>>
    BY DEF Ready, At, timeVars
  <1>2. PICK u \in Thread : u = arg[f] /\ pc[u] = "new" /\ u # f
    BY <1>1 DEF Inv, SwitchInv
  <1>3. /\ DOMAIN join_map' = DOMAIN join_map \cup {u}
        /\ \A v \in DOMAIN join_map : v # u => join_map'[v] = join_map[v]
    BY <1>2 DEF Ready
  <1>4. \A g \in Flow : /\ pc'[g] = IF g = u THEN "off"
                                    ELSE IF g = f THEN (IF f = Boot THEN "boot" ELSE "run")
                                    ELSE pc[g]
                        /\ arg'[g] = IF g = f THEN Boot ELSE arg[g]
    BY <1>2 DEF Ready, Inv, TypeOK, FlowType
  <1>5. WaitInv /\ DOMAIN join_map \subseteq Thread
    BY <1>1 DEF RefInv, Inv, TypeOK, SchedType
  <1>6. \A g \in Flow : g # f => pc[g] # "ready"
    BY <1>1 DEF Inv, LockHolderRuns, Held, InSection
  <1>7. \A g \in Flow : g # f => arg[g] # u
    BY <1>2, <1>5, <1>6 DEF WaitInv
  <1>8. f \in Thread => f \in DOMAIN join_map
    BY <1>1, <1>5, PcNames DEF WaitInv, Alive, Waiting, InBlock, Switching
  <1>9. /\ pc'[cpu'] # "new"
        /\ cpu' \in Thread /\ pc'[cpu'] \in Alive => cpu' \in DOMAIN join_map'
        /\ \A t \in Thread : pc'[t] = "new" => t \notin DOMAIN join_map'
    BY <1>1, <1>2, <1>3, <1>4, <1>5, <1>8 DEF WaitInv
  <1>10. \A g \in Flow : arg'[g] \in Thread /\ pc'[arg'[g]] = "new" => pc'[g] = "ready"
    BY <1>4, <1>5, <1>6 DEF WaitInv
  <1>11. \A g \in Flow : arg'[g] \in DOMAIN join_map' /\ pc'[g] \notin {"join", "ktss"} =>
           \E i \in DOMAIN join_map'[arg'[g]] : join_map'[arg'[g]][i] = g
    <2> SUFFICES ASSUME NEW g \in Flow, arg'[g] \in DOMAIN join_map', pc'[g] \notin {"join", "ktss"}
                 PROVE  \E i \in DOMAIN join_map'[arg'[g]] : join_map'[arg'[g]][i] = g
      OBVIOUS
    <2>1. g # f /\ arg'[g] = arg[g] /\ arg[g] \in DOMAIN join_map
      BY <1>2, <1>3, <1>4, <1>5, <1>7
    <2>2. pc[g] \notin {"join", "ktss"}
      BY <1>1, <2>1 DEF Inv, LockHolderRuns, Held, InSection
    <2>3. join_map'[arg[g]] = join_map[arg[g]]
      BY <1>3, <1>7, <2>1
    <2> QED
      BY <1>5, <2>1, <2>2, <2>3 DEF WaitInv
  <1>12. \A t \in Thread : wakeup_time'[t] # 0 /\ pc'[t] \notin {"sleep", "enlist"} =>
           \E i \in DOMAIN sleep_list' : sleep_list'[i] = t
    BY <1>1, <1>2, <1>4, <1>5 DEF WaitInv
  <1> QED
    BY <1>9, <1>10, <1>11, <1>12 DEF WaitInv

\* join() lists the caller with the thread it names; exit() takes a whole list away.
LEMMA JoinExitWait ==
    ASSUME Inv, RefInv, NEW f \in Flow, Join(f) \/ Exit(f), fault' = "none"
    PROVE  WaitInv'
  <1>1. /\ fault = "none" /\ cpu = f /\ pc[f] \in {"join", "exit"}
        /\ UNCHANGED <<cpu, arg, wakeup_time, sleep_list>>
        /\ pc' = [pc EXCEPT ![f] = "block"]
    BY DEF Join, Exit, At, Goto, timeVars, Stop
  <1>2. f \in Thread /\ current_thread = f
    BY <1>1, RunningThread DEF Switching
  <1>3. \A g \in Flow : pc'[g] = IF g = f THEN "block" ELSE pc[g]
    BY <1>1 DEF Inv, TypeOK, FlowType
  <1>4. WaitInv /\ SchedType
    BY <1>1 DEF RefInv, Inv, TypeOK
  <1>5. \A g \in Flow : g # f => pc[g] \notin {"join", "ktss"}
    BY <1>1 DEF Inv, LockHolderRuns, Held, InSection
  <1>6. /\ DOMAIN join_map' \subseteq DOMAIN join_map
        /\ \A g \in Flow : arg[g] \in DOMAIN join_map' =>
             \E i \in DOMAIN join_map'[arg[g]] : join_map'[arg[g]][i] = g
    <2>1. CASE Join(f)
      <3>1. arg[f] \in DOMAIN join_map /\ join_map[arg[f]] \in Seq(Thread)
        BY <1>4, <2>1 DEF Join, Stop, SchedType
      <3>2. /\ DOMAIN join_map' = DOMAIN join_map
            /\ join_map'[arg[f]] = Append(join_map[arg[f]], f)
            /\ \A v \in DOMAIN join_map : v # arg[f] => join_map'[v] = join_map[v]
        BY <1>2, <2>1, <3>1 DEF Join
      <3>3. /\ Len(join_map[arg[f]]) + 1 \in DOMAIN join_map'[arg[f]]
            /\ join_map'[arg[f]][Len(join_map[arg[f]]) + 1] = f
            /\ \A i \in DOMAIN join_map[arg[f]] :
                 i \in DOMAIN join_map'[arg[f]] /\ join_map'[arg[f]][i] = join_map[arg[f]][i]
        BY <3>1, <3>2
      <3>4. ASSUME NEW g \in Flow, arg[g] \in DOMAIN join_map'
            PROVE  \E i \in DOMAIN join_map'[arg[g]] : join_map'[arg[g]][i] = g
        <4>1. CASE g = f
          BY <3>3, <4>1
        <4>2. CASE g # f
          <5>1. PICK i \in DOMAIN join_map[arg[g]] : join_map[arg[g]][i] = g
            BY <1>4, <1>5, <3>2, <3>4, <4>2 DEF WaitInv
          <5> QED
            BY <3>2, <3>3, <3>4, <5>1
        <4> QED
          BY <4>1, <4>2
      <3> QED
        BY <3>2, <3>4
    <2>2. CASE Exit(f)
      <3>1. /\ DOMAIN join_map' = DOMAIN join_map \ {f}
            /\ \A v \in DOMAIN join_map \ {f} : join_map'[v] = join_map[v]
        BY <1>2, <2>2 DEF Exit, Stop
      <3>2. pc[f] \notin {"join", "ktss"}
        BY <2>2 DEF Exit, At
      <3> QED
        BY <1>4, <1>5, <3>1, <3>2 DEF WaitInv
    <2> QED
      BY <2>1, <2>2
  <1>7. /\ pc'[cpu'] # "new" /\ pc'[cpu'] \notin Alive
        /\ \A t \in Thread : pc'[t] = "new" => t \notin DOMAIN join_map'
        /\ \A g \in Flow : arg'[g] \in Thread /\ pc'[arg'[g]] = "new" => pc'[g] = "ready"
    BY <1>1, <1>3, <1>4, <1>6 DEF WaitInv, Alive, Waiting
  <1>8. \A t \in Thread : wakeup_time'[t] # 0 /\ pc'[t] \notin {"sleep", "enlist"} =>
           \E i \in DOMAIN sleep_list' : sleep_list'[i] = t
    BY <1>1, <1>3, <1>4 DEF WaitInv
  <1> QED
    BY <1>1, <1>6, <1>7, <1>8 DEF WaitInv

\* Who still has time to sleep is about to enter the sleep list or is in it.
SleepersListed ==
    \A t \in Thread : wakeup_time[t] # 0 /\ pc[t] \notin {"sleep", "enlist"} =>
        \E i \in DOMAIN sleep_list : sleep_list[i] = t

\* The flow on the CPU moves on, and no operand or join list changes.
LEMMA MoveWait ==
    ASSUME Inv, RefInv, fault = "none", cpu \in Flow,
           NEW p \in Pc \ {"new"}, pc' = [pc EXCEPT ![cpu] = p],
           pc[cpu] \in Alive \/ p \notin Alive \/ cpu \in DOMAIN join_map,
           pc[cpu] \notin {"ready", "join", "ktss"},
           UNCHANGED <<cpu, arg, join_map>>, SleepersListed'
    PROVE  WaitInv'
  <1>1. \A f \in Flow : pc'[f] = IF f = cpu THEN p ELSE pc[f]
    BY DEF Inv, TypeOK, FlowType
  <1>2. WaitInv
    BY DEF RefInv
  <1>3. /\ pc'[cpu'] # "new"
        /\ cpu' \in Thread /\ pc'[cpu'] \in Alive => cpu' \in DOMAIN join_map'
    BY <1>1, <1>2 DEF WaitInv
  <1>4. \A t \in Thread : pc'[t] = "new" => t \notin DOMAIN join_map'
    BY <1>1, <1>2 DEF WaitInv
  <1>5. \A f \in Flow : arg'[f] \in Thread /\ pc'[arg'[f]] = "new" => pc'[f] = "ready"
    BY <1>1, <1>2 DEF WaitInv
  <1>6. \A f \in Flow : arg'[f] \in DOMAIN join_map' /\ pc'[f] \notin {"join", "ktss"} =>
          \E i \in DOMAIN join_map'[arg'[f]] : join_map'[arg'[f]][i] = f
    BY <1>1, <1>2 DEF WaitInv
  <1> QED
    BY <1>3, <1>4, <1>5, <1>6 DEF WaitInv, SleepersListed

\* The flow on the CPU moves on, and no list, time or operand changes.
LEMMA LocalWait ==
    ASSUME Inv, RefInv, fault = "none", cpu \in Flow,
           NEW p \in Pc \ {"new"}, pc' = [pc EXCEPT ![cpu] = p],
           pc[cpu] \in Alive \/ p \notin Alive \/ cpu \in DOMAIN join_map,
           pc[cpu] \notin {"ready", "join", "ktss"},
           pc[cpu] \in {"sleep", "enlist"} => p \in {"sleep", "enlist"},
           UNCHANGED <<cpu, arg, join_map, wakeup_time, sleep_list>>
    PROVE  WaitInv'
  <1>1. \A f \in Flow : pc'[f] = IF f = cpu THEN p ELSE pc[f]
    BY DEF Inv, TypeOK, FlowType
  <1>2. SleepersListed'
    BY <1>1 DEF RefInv, WaitInv, SleepersListed
  <1> QED
    BY <1>2, MoveWait

\* sleep(): the wakeup time is computed, and the caller enters the list with it.
LEMMA SleepWait ==
    ASSUME Inv, RefInv, NEW f \in Flow, Enlist(f) \/ \E ms \in SleepTimes : ReadClock(f, ms)
    PROVE  WaitInv'
  <1>1. /\ fault = "none" /\ cpu = f /\ pc[f] \in {"enlist", "clock"} /\ pc[f] \in Alive
        /\ UNCHANGED <<cpu, arg, join_map>>
    BY PcNames DEF Enlist, ReadClock, At, schedVars, Alive, Waiting, InBlock, Switching
  <1>2. f \in Thread /\ current_thread = f
    BY <1>1, RunningThread DEF Switching
  <1>3. WaitInv /\ SchedType /\ wakeup_time \in [Thread -> Nat] /\ pc \in [Flow -> Pc]
    BY <1>1 DEF RefInv, Inv, TypeOK, TimeType, FlowType
  <1>4. CASE Enlist(f)
    <2>1. /\ pc' = [pc EXCEPT ![f] = "block"] /\ UNCHANGED wakeup_time
          /\ sleep_list' = Append(sleep_list, f) /\ sleep_list \in Seq(Thread)
      BY <1>2, <1>3, <1>4 DEF Enlist, Goto, timeVars, SchedType
    <2>2. /\ \A i \in DOMAIN sleep_list : i \in DOMAIN sleep_list' /\ sleep_list'[i] = sleep_list[i]
          /\ Len(sleep_list) + 1 \in DOMAIN sleep_list'
          /\ sleep_list'[Len(sleep_list) + 1] = f
      BY <1>2, <2>1
    <2>3. SleepersListed'
      <3> SUFFICES ASSUME NEW t \in Thread, wakeup_time'[t] # 0, pc'[t] \notin {"sleep", "enlist"}
                   PROVE  \E i \in DOMAIN sleep_list' : sleep_list'[i] = t
        BY DEF SleepersListed
      <3>1. CASE t = f
        BY <2>2, <3>1
      <3>2. CASE t # f
        <4>1. PICK i \in DOMAIN sleep_list : sleep_list[i] = t
          BY <1>3, <2>1, <3>2 DEF WaitInv
        <4> QED
          BY <2>2, <4>1
      <3> QED
        BY <3>1, <3>2
    <2> QED
      BY <1>1, <2>1, <2>3, MoveWait, PcNames
  <1>5. ASSUME NEW ms \in SleepTimes, ReadClock(f, ms) PROVE WaitInv'
    <2>1. /\ pc' = [pc EXCEPT ![f] = "sleep"] /\ UNCHANGED sleep_list
          /\ wakeup_time' = [wakeup_time EXCEPT ![f] = ms]
      BY <1>5 DEF ReadClock, Goto, schedVars
    <2>2. SleepersListed'
      BY <1>1, <1>2, <1>3, <2>1 DEF SleepersListed, WaitInv
    <2>3. "sleep" \in Pc \ {"new"} /\ pc[f] \notin {"ready", "join", "ktss"}
      BY <1>1, PcNames
    <2> QED
      BY <1>1, <2>1, <2>2, <2>3, MoveWait
  <1> QED
    BY <1>4, <1>5

\* check_sleep_list in block() and switch_thread() takes only who need not sleep on.
LEMMA ScanWait ==
    ASSUME Inv, RefInv, NEW f \in Flow, ScanDone(f)
    PROVE  WaitInv'
  <1>1. /\ fault = "none" /\ cpu = f
        /\ UNCHANGED <<cpu, arg, join_map, wakeup_time>>
        /\ sleep_list' \in Asleep(wakeup_time)
    BY DEF ScanDone, At, timeVars
  <1>2. PICK woken : woken \in Woken(wakeup_time)
    BY DEF ScanDone
  <1>3. WaitInv /\ SchedType /\ wakeup_time \in [Thread -> Nat] /\ pc \in [Flow -> Pc]
    BY <1>1 DEF RefInv, Inv, TypeOK, TimeType, FlowType
  <1>4. PICK p \in {"pop", "ypop"} :
          /\ pc' = [pc EXCEPT ![f] = p]
          /\ \/ p = "pop" /\ pc[f] = "scan"
             \/ p = "ypop" /\ pc[f] = "yscan"
    <2>1. \/ pc[f] = "scan" /\ pc' = [pc EXCEPT ![f] = "pop"]
          \/ pc[f] = "yscan" /\ pc' = [pc EXCEPT ![f] = "ypop"]
      BY DEF ScanDone, At, Goto
    <2> QED
      BY <2>1
  <1>5. \A i \in DOMAIN sleep_list : ~(wakeup_time[sleep_list[i]] <= 0) =>
          \E j \in DOMAIN sleep_list' : sleep_list'[j] = sleep_list[i]
    BY <1>1, <1>2, <1>3, CountWoken
  <1>6. \A t \in Thread : wakeup_time[t] # 0 => ~(wakeup_time[t] <= 0)
    BY <1>3
  <1>7. SleepersListed'
    <2> SUFFICES ASSUME NEW t \in Thread, wakeup_time[t] # 0, pc'[t] \notin {"sleep", "enlist"}
                 PROVE  \E i \in DOMAIN sleep_list' : sleep_list'[i] = t
      BY <1>1 DEF SleepersListed
    <2>1. pc[t] \notin {"sleep", "enlist"}
      BY <1>3, <1>4
    <2>2. PICK i \in DOMAIN sleep_list : sleep_list[i] = t
      BY <1>3, <2>1 DEF WaitInv
    <2> QED
      BY <1>5, <1>6, <2>2
  <1>8. pc[f] \in Alive \/ p \notin Alive
    BY <1>4, PcNames DEF Alive, Waiting, InBlock, Switching
  <1>9. p \in Pc \ {"new"} /\ pc[f] \notin {"ready", "join", "ktss"}
    BY <1>4, PcNames
  <1> QED
    BY <1>1, <1>4, <1>7, <1>8, <1>9, MoveWait

\* Loading a frame: its thread has not exited if it goes on in its own code.
LEMMA ResumeWait ==
    ASSUME Inv, RefInv, fault = "none", pc[cpu] \notin Held,
           NEW fr \in Frame, NEW ptrs, NEW pcs \in [Flow -> Pc],
           fr.at # "dead", SoundIn(fr, pcs), pcs[fr.stack] # "new", Resume(fr, ptrs, pcs),
           \A g \in Flow : pcs[g] = pc[g] \/ (pcs[g] = "off" /\ pc[g] \in {"boot", "load"}),
           UNCHANGED <<arg, join_map>>,
           \A t \in Thread : wakeup_time'[t] # 0 /\ pc[t] \notin {"sleep", "enlist"} =>
               \E i \in DOMAIN sleep_list' : sleep_list'[i] = t
    PROVE  WaitInv'
  <1>1. fr.stack \in Flow /\ fr.at \in Pc /\ cpu' = fr.stack
    BY DEF Frame, Resume
  <1>2. \A g \in Flow : pc'[g] = IF g = fr.stack THEN fr.at ELSE pcs[g]
    BY <1>1 DEF Resume
  <1>3. WaitInv
    BY DEF RefInv
  <1>4. \A g \in Flow : pc[g] \notin Held
    BY DEF Inv, LockHolderRuns
  <1>5. fr.at # "new" /\ (fr.at \in Alive => fr.stack \in DOMAIN join_map)
    BY DEF SoundIn
  <1>6. \A g \in Flow : pc'[g] = "new" => pc[g] = "new"
    BY <1>2, <1>5
  <1>7. \A g \in Flow : pc'[g] \notin {"sleep", "enlist"} => pc[g] \notin {"sleep", "enlist"}
    BY <1>1, <1>2 DEF SoundIn
  <1>8. /\ pc'[cpu'] # "new"
        /\ cpu' \in Thread /\ pc'[cpu'] \in Alive => cpu' \in DOMAIN join_map'
    BY <1>1, <1>2, <1>5
  <1>9. \A t \in Thread : pc'[t] = "new" => t \notin DOMAIN join_map'
    BY <1>3, <1>6 DEF WaitInv
  <1>10. \A f \in Flow : arg'[f] \in Thread /\ pc'[arg'[f]] = "new" => pc'[f] = "ready"
    BY <1>3, <1>4, <1>6 DEF WaitInv, Held, InSection
  <1>11. \A f \in Flow : arg'[f] \in DOMAIN join_map' /\ pc'[f] \notin {"join", "ktss"} =>
           \E i \in DOMAIN join_map'[arg'[f]] : join_map'[arg'[f]][i] = f
    BY <1>3, <1>4 DEF WaitInv, Held, InSection
  <1>12. SleepersListed'
    BY <1>7 DEF SleepersListed
  <1> QED
    BY <1>8, <1>9, <1>10, <1>11, <1>12 DEF WaitInv, SleepersListed

-----------------------------------------------------------------------------
(* Switching to another thread. *)

\* start() and the end of thread_switch.
LEMMA LoadRef ==
    ASSUME Inv, RefInv, TypeOK', fault = "none", fault' = "none",
           Start \/ \E f \in Flow : Load(f)
    PROVE  FramesInv' /\ WaitInv'
  <1>1. /\ cpu \in Flow /\ pc[cpu] \in {"boot", "load"} /\ UNCHANGED join_map
        /\ pc[cpu] = "boot" => cpu = Boot
    BY DEF Start, Load, At, schedVars, Inv, TypeOK, FlowType
  <1>2. PICK pcs \in [Flow -> Pc] : pcs = [pc EXCEPT ![cpu] = "off"]
    BY <1>1, PcNames DEF Inv, TypeOK, FlowType
  <1>3. \A g \in Flow : pcs[g] = IF g = cpu THEN "off" ELSE pc[g]
    BY <1>1, <1>2 DEF Inv, TypeOK, FlowType
  <1>4. ASSUME NEW q \in Frame, NEW u, Sound(q), LeadsTo(q, u) PROVE SoundIn(q, pcs)
    BY <1>1, <1>3, <1>4 DEF Sound, SoundIn, LeadsTo, Frame, Switching
  <1>5. PICK fr \in Frame : /\ Resume(fr, old_rsp0, pcs)
                            /\ Sound(fr) /\ \E u \in Flow : LeadsTo(fr, u)
                            /\ fr.at # "dead" => pc[fr.stack] # "new"
    <2>1. CASE Start
      <3>1. PICK t \in Thread : t = Head(ready_queue) /\ t = ready_queue[1] /\ 1 \in DOMAIN ready_queue
        BY <2>1 DEF Start, Inv, TypeOK, SchedType
      <3>2. pc[t] # "new"
        BY <3>1, NewIsNowhere DEF Inv, TypeOK, RefInv, WaitInv
      <3>3. PICK fr \in Frame : fr = old_rsp0[t]
        BY DEF Inv, TypeOK, FlowType
      <3>4. Resume(fr, old_rsp0, pcs)
        BY <1>2, <2>1, <3>1, <3>3 DEF Start, At
      <3>5. Sound(fr) /\ LeadsTo(fr, t)
        BY <3>3 DEF RefInv, FramesInv, Inv, SwitchInv
      <3>6. fr.at # "dead" => pc[fr.stack] # "new"
        BY <3>2, <3>3, FrameKnown
      <3> QED
        BY <3>4, <3>5, <3>6
    <2>2. ASSUME NEW f \in Flow, Load(f)
          PROVE  \E fr \in Frame : /\ Resume(fr, old_rsp0, pcs)
                                   /\ Sound(fr) /\ \E u \in Flow : LeadsTo(fr, u)
                                   /\ fr.at # "dead" => pc[fr.stack] # "new"
      <3>1. PICK fr \in Frame, u \in Flow : fr = sw[f].rsi /\ u = sw[f].next
        BY DEF Inv, TypeOK, FlowType
      <3>2. Resume(fr, old_rsp0, pcs)
        BY <1>2, <2>2, <3>1 DEF Load, At
      <3>3. Sound(fr) /\ LeadsTo(fr, u) /\ (fr.at # "dead" => pc[fr.stack] # "new")
        BY <3>1 DEF RefInv, FramesInv, Inv, SwitchInv
      <3> QED
        BY <3>2, <3>3
    <2> QED
      BY <2>1, <2>2
  <1>6. fr.at # "dead"
    BY <1>5 DEF Resume, Stop
  <1>7. SoundIn(fr, pcs) /\ pcs[fr.stack] # "new"
    BY <1>3, <1>4, <1>5, <1>6 DEF Frame
  <1>8. ASSUME NEW t \in Thread PROVE SoundIn(old_rsp0[t], pcs)
    <2>1. PICK q \in Frame : q = old_rsp0[t]
      BY DEF Inv, TypeOK, FlowType
    <2> QED
      BY <1>4, <2>1 DEF RefInv, FramesInv, Inv, SwitchInv
  <1>9. ASSUME NEW g \in Flow
        PROVE  SoundIn(sw[g].rsi, pcs) /\ (sw[g].rsi.at # "dead" => pcs[sw[g].rsi.stack] # "new")
    <2>1. PICK q \in Frame, u \in Flow : q = sw[g].rsi /\ u = sw[g].next
      BY DEF Inv, TypeOK, FlowType
    <2>2. Sound(q) /\ LeadsTo(q, u) /\ (q.at # "dead" => pc[q.stack] # "new")
      BY <2>1 DEF RefInv, FramesInv, Inv, SwitchInv
    <2> QED
      BY <1>3, <1>4, <2>1, <2>2 DEF Frame
  <1>10. FramesInv'
    BY <1>1, <1>5, <1>6, <1>7, <1>8, <1>9, ResumeFrames DEF Inv, TypeOK, FlowType
  <1>11. pc[cpu] \notin Held /\ UNCHANGED <<arg, wakeup_time, sleep_list>>
    BY <1>1 DEF Start, Load, schedVars, timeVars, Held, InSection, InBlock, InSwitch
  <1>12. \A t \in Thread : wakeup_time'[t] # 0 /\ pc[t] \notin {"sleep", "enlist"} =>
           \E i \in DOMAIN sleep_list' : sleep_list'[i] = t
    BY <1>11 DEF RefInv, WaitInv
  <1>13. \A g \in Flow : pcs[g] = pc[g] \/ (pcs[g] = "off" /\ pc[g] \in {"boot", "load"})
    BY <1>1, <1>3
  <1>14. WaitInv'
    BY <1>1, <1>5, <1>6, <1>7, <1>11, <1>12, <1>13, ResumeWait
  <1> QED
    BY <1>10, <1>14

\* The switch in the timer interrupt.
LEMMA InterruptRef ==
    ASSUME Inv, RefInv, TypeOK', fault = "none", fault' = "none", initialized,
           current_thread \in Thread, NEW rq \in Seq(Thread), rq # <<>>,
           pc[Head(rq)] # "new", SwitchFromInterrupt(rq), UNCHANGED <<join_map, arg>>,
           pc[cpu] \notin Held \/ TssLocked,
           \A t \in Thread : wakeup_time'[t] # 0 /\ pc[t] \notin {"sleep", "enlist"} =>
               \E i \in DOMAIN sleep_list' : sleep_list'[i] = t
    PROVE  FramesInv' /\ WaitInv'
  <1>1. cpu \in Thread
    BY DEF Inv, RunsAsCurrent, TypeOK, FlowType
  <1>2. PICK t \in Thread : t = Head(rq) /\ pc[t] # "new"
    OBVIOUS
  <1>3. PICK own \in Frame : own = [stack |-> cpu, at |-> pc[cpu]]
    BY DEF Frame, Inv, TypeOK, FlowType
  <1>4. PICK saved \in [Thread -> Frame] : saved = [old_rsp0 EXCEPT ![current_thread] = own]
    BY DEF Inv, TypeOK, FlowType
  <1>5. PICK fr \in Frame : fr = old_rsp0[t]
    BY DEF Inv, TypeOK, FlowType
  <1>6. ~TssLocked
    BY DEF SwitchFromInterrupt, Stop
  <1>7. Resume(fr, saved, pc)
    BY <1>2, <1>3, <1>4, <1>5, <1>6 DEF SwitchFromInterrupt
  <1>8. fr.at # "dead"
    BY <1>7 DEF Resume, Stop
  <1>9. ASSUME NEW q, Sound(q) PROVE SoundIn(q, pc)
    BY <1>9 DEF Sound, SoundIn
  <1>10. SoundIn(own, pc)
    BY <1>1, <1>3 DEF SoundIn, RefInv, WaitInv
  <1>11. \A u \in Thread : SoundIn(saved[u], pc)
    BY <1>4, <1>9, <1>10 DEF RefInv, FramesInv, Inv, TypeOK, FlowType
  <1>12. \A f \in Flow : SoundIn(sw[f].rsi, pc) /\ (sw[f].rsi.at # "dead" => pc[sw[f].rsi.stack] # "new")
    BY <1>9 DEF RefInv, FramesInv
  <1>13. SoundIn(fr, pc) /\ pc[fr.stack] # "new"
    BY <1>2, <1>5, <1>8, <1>9, FrameKnown DEF RefInv, FramesInv
  <1>14. FramesInv'
    BY <1>7, <1>8, <1>11, <1>12, <1>13, ResumeFrames DEF Inv, TypeOK, FlowType
  <1>15. WaitInv'
    BY <1>6, <1>7, <1>8, <1>13, ResumeWait DEF Inv, TypeOK, FlowType
  <1> QED
    BY <1>14, <1>15

\* The timer interrupt: nobody is taken from the sleep list before its time.
LEMMA TickRef ==
    ASSUME Inv, RefInv, TypeOK', Tick, fault' = "none"
    PROVE  FramesInv' /\ WaitInv'
  <1>1. /\ fault = "none" /\ UNCHANGED <<initialized, join_map, arg>>
        /\ FramesInv /\ WaitInv /\ SchedType /\ ThreadConserved
    BY TickMoves DEF RefInv, Inv, TypeOK
  <1>2. PICK n \in Nat : wakeup_time' = Elapse(n)
    BY TickMoves
  <1>3. \A t \in Thread : wakeup_time'[t] # 0 => wakeup_time[t] # 0 /\ ~(wakeup_time'[t] <= 0)
    BY <1>2 DEF Elapse, Inv, TypeOK, TimeType
  <1>4. ASSUME UNCHANGED <<cpu, pc, sw, old_rsp0>>,
               \A t \in Thread : wakeup_time'[t] # 0 /\ pc[t] \notin {"sleep", "enlist"} =>
                   \E i \in DOMAIN sleep_list' : sleep_list'[i] = t
        PROVE  FramesInv' /\ WaitInv'
    <2>1. FramesInv'
      BY <1>1, <1>4 DEF FramesInv, Sound
    <2>2. WaitInv'
      BY <1>1, <1>4 DEF WaitInv
    <2> QED
      BY <2>1, <2>2
  <1>5. CASE UNCHANGED <<current_thread, ready_queue, sleep_list, cpu, pc, sw, old_rsp0, fault>>
    <2>1. \A t \in Thread : wakeup_time'[t] # 0 /\ pc[t] \notin {"sleep", "enlist"} =>
            \E i \in DOMAIN sleep_list' : sleep_list'[i] = t
      BY <1>1, <1>3, <1>5 DEF WaitInv
    <2> QED
      BY <1>4, <1>5, <2>1
  <1>6. ASSUME sleep_list' \in Asleep(wakeup_time'), NEW woken \in Woken(wakeup_time')
        PROVE  \A t \in Thread : wakeup_time'[t] # 0 /\ pc[t] \notin {"sleep", "enlist"} =>
                   \E i \in DOMAIN sleep_list' : sleep_list'[i] = t
    <2> SUFFICES ASSUME NEW t \in Thread, wakeup_time'[t] # 0, pc[t] \notin {"sleep", "enlist"}
                 PROVE  \E i \in DOMAIN sleep_list' : sleep_list'[i] = t
      OBVIOUS
    <2>1. PICK i \in DOMAIN sleep_list : sleep_list[i] = t
      BY <1>1, <1>3 DEF WaitInv
    <2>2. ~(wakeup_time'[sleep_list[i]] <= 0)
      BY <1>3, <2>1
    <2> QED
      BY <1>1, <1>6, <2>1, <2>2, CountWoken
  <1>7. ASSUME sleep_list' \in Asleep(wakeup_time'), NEW woken \in Woken(wakeup_time'),
               initialized, current_thread \in Thread, pc[cpu] \notin Held \/ TssLocked,
               ready_queue \o woken # <<>>, SwitchFromInterrupt(ready_queue \o woken)
        PROVE  FramesInv' /\ WaitInv'
    <2>1. PICK rq \in Seq(Thread) : rq = ready_queue \o woken
      BY <1>1, <1>7, WokenCounts
    <2>2. Head(rq) \in Thread /\ Head(rq) = rq[1] /\ 1 \in DOMAIN rq
      BY <1>7, <2>1
    <2>3. pc[Head(rq)] # "new"
      <3>1. pc[Head(rq)] = "new" => Head(rq) \notin DOMAIN join_map
        BY <1>1, <2>2 DEF WaitInv
      <3> QED
        BY <1>1, <1>7, <2>1, <2>2, <3>1, WokenKnown
    <2>4. \A t \in Thread : wakeup_time'[t] # 0 /\ pc[t] \notin {"sleep", "enlist"} =>
            \E i \in DOMAIN sleep_list' : sleep_list'[i] = t
      BY <1>6, <1>7
    <2> QED
      BY <1>1, <1>7, <2>1, <2>3, <2>4, InterruptRef
  <1> QED
    BY <1>4, <1>5, <1>6, <1>7, TickMoves

-----------------------------------------------------------------------------
(* Every step. *)

\* What a flow does by itself, up to switching to another one.
LEMMA StepRef ==
    ASSUME Inv, RefInv, TypeOK', NEW f \in Flow, Step(f) \/ Calls(f), fault' = "none"
    PROVE  FramesInv' /\ WaitInv'
  <1>0. fault = "none" /\ cpu = f /\ FlowType /\ WaitInv
    BY DEF Step, Calls, Kickoff, SetInit, KickoffTss, Ready, Join, Exit, ReadClock, LockSleep,
           Enlist, LockBlock, ScanStart, ScanDone, Block, YieldPop, Fetch, Save, SetTss, Load,
           CallReady, CallJoin, CallExit, CallYield, CallSleep, Call, At, RefInv, Inv, TypeOK
  <1>1. ASSUME NEW p \in Pc \ {"new"}, pc[f] \notin {"tss", "load"},
               pc' = [pc EXCEPT ![f] = p], UNCHANGED <<cpu, old_rsp0, sw>>,
               DOMAIN join_map \ {f} \subseteq DOMAIN join_map'
        PROVE  FramesInv'
    BY <1>0, <1>1, LocalFrames
  <1>2. ASSUME NEW p \in Pc \ {"new"}, pc[f] \notin {"tss", "load", "ready", "join", "ktss"},
               pc[f] \in Alive \/ p \notin Alive,
               pc[f] \in {"sleep", "enlist"} => p \in {"sleep", "enlist"},
               pc' = [pc EXCEPT ![f] = p],
               UNCHANGED <<cpu, old_rsp0, sw, arg, join_map, wakeup_time, sleep_list>>
        PROVE  FramesInv' /\ WaitInv'
    BY <1>0, <1>1, <1>2, LocalWait
  <1>3. CASE Kickoff(f)
    <2>1. /\ pc[f] = "kickoff" /\ pc' = [pc EXCEPT ![f] = "init"]
          /\ UNCHANGED <<cpu, old_rsp0, sw, arg, join_map, wakeup_time, sleep_list>>
      BY <1>3 DEF Kickoff, At, Goto, schedVars, timeVars
    <2>2. "init" \in Pc \ {"new"} /\ pc[f] \in Alive
      BY <2>1, PcNames DEF Alive, Waiting, InBlock, Switching
    <2> QED
      BY <1>2, <2>1, <2>2
  <1>4. CASE SetInit(f) \/ KickoffTss(f) \/ \E t \in Thread : CallReady(f, t) \/ CallJoin(f, t)
    <2>1. WaitInv'
      BY <1>4, OperandWait
    <2>2. FramesInv'
      BY <1>1, <1>4, PcNames DEF SetInit, KickoffTss, CallReady, CallJoin, At, Goto, schedVars
    <2> QED
      BY <2>1, <2>2
  <1>5. CASE Ready(f)
    BY <1>5, ReadyFrames, ReadyWait
  <1>6. CASE Join(f) \/ Exit(f)
    <2>1. WaitInv'
      BY <1>6, JoinExitWait
    <2>2. pc[f] \in {"join", "exit"} /\ pc' = [pc EXCEPT ![f] = "block"] /\ UNCHANGED <<cpu, old_rsp0, sw>>
      BY <1>6 DEF Join, Exit, At, Goto, Stop
    <2>3. current_thread = f
      BY <1>0, <2>2, RunningThread DEF Switching
    <2>4. DOMAIN join_map \ {f} \subseteq DOMAIN join_map'
      BY <1>6, <2>3 DEF Join, Exit
    <2> QED
      BY <1>1, <2>1, <2>2, <2>4, PcNames
  <1>7. CASE Enlist(f) \/ \E ms \in SleepTimes : ReadClock(f, ms)
    <2>1. WaitInv'
      BY <1>7, SleepWait
    <2>2. FramesInv'
      BY <1>1, <1>7, PcNames DEF Enlist, ReadClock, At, Goto, schedVars
    <2> QED
      BY <2>1, <2>2
  <1>8. CASE LockSleep(f) \/ LockBlock(f) \/ ScanStart(f) \/ CallExit(f) \/ CallYield(f) \/ CallSleep(f)
    <2>1. PICK p \in {"enlist", "pop", "scan", "yscan", "exit", "yield", "clock"} :
            /\ pc' = [pc EXCEPT ![f] = p] /\ pc[f] \in {"sleep", "block", "pop", "yield", "run"}
            /\ pc[f] = "sleep" => p = "enlist"
            /\ pc[f] \in {"block", "pop"} => p \in {"pop", "scan"}
            /\ UNCHANGED <<cpu, old_rsp0, sw, arg, join_map, wakeup_time, sleep_list>>
      <3>1. ASSUME NEW from, NEW to, Call(f, from, to)
            PROVE  /\ pc' = [pc EXCEPT ![f] = to] /\ pc[f] = from
                   /\ UNCHANGED <<cpu, old_rsp0, sw, arg, join_map, wakeup_time, sleep_list>>
        BY <3>1 DEF Call, At, Goto, schedVars, timeVars
      <3>2. CASE LockSleep(f)
        BY <3>1, <3>2 DEF LockSleep
      <3>3. CASE LockBlock(f)
        BY <3>1, <3>3 DEF LockBlock
      <3>4. CASE ScanStart(f)
        BY <3>1, <3>4 DEF ScanStart
      <3>5. CASE CallExit(f) \/ CallYield(f) \/ CallSleep(f)
        BY <3>1, <3>5 DEF CallExit, CallYield, CallSleep
      <3> QED
        BY <1>8, <3>2, <3>3, <3>4, <3>5
    <2>2. p \in Pc \ {"new"} /\ (pc[f] \in Alive \/ p \notin Alive)
      BY <2>1, PcNames DEF Alive, Waiting, InBlock, Switching
    <2> QED
      BY <1>2, <2>1, <2>2
  <1>9. CASE ScanDone(f)
    <2>1. WaitInv'
      BY <1>9, ScanWait
    <2>2. FramesInv'
      BY <1>1, <1>9, PcNames DEF ScanDone, At, Goto
    <2> QED
      BY <2>1, <2>2
  <1>10. CASE Block(f) \/ YieldPop(f)
    <2>1. PICK p \in {"run", "dead", "fetch"} :
            /\ pc' = [pc EXCEPT ![f] = p] /\ pc[f] \in {"pop", "ypop"}
            /\ p = "run" => pc[f] = "ypop" \/ f \in DOMAIN join_map
            /\ UNCHANGED <<cpu, old_rsp0, arg, join_map, wakeup_time, sleep_list>>
      <3>1. CASE Block(f)
        BY <3>1 DEF Block, At, Goto, Dispatch, AfterBlock, timeVars
      <3>2. CASE YieldPop(f)
        BY <3>2 DEF YieldPop, At, Goto, Dispatch, timeVars
      <3> QED
        BY <1>10, <3>1, <3>2
    <2>2. \A g \in Flow : sw'[g].rsi = sw[g].rsi \/ sw'[g].rsi = Stale
      BY <1>0, <1>10 DEF Block, YieldPop, Dispatch, FlowType
    <2>3. p \in Pc \ {"new"} /\ (pc[f] \in Alive \/ p \notin Alive \/ f \in DOMAIN join_map)
      BY <2>1, PcNames DEF Alive, Waiting, InBlock, Switching
    <2>4. FramesInv'
      BY <1>0, <2>1, <2>2, <2>3, LocalFrames
    <2>5. WaitInv'
      BY <1>0, <2>1, <2>3, LocalWait
    <2> QED
      BY <2>4, <2>5
  <1>11. CASE Fetch(f) \/ Save(f) \/ SetTss(f)
    <2>1. PICK p \in {"save", "tss", "load"} :
            /\ pc' = [pc EXCEPT ![f] = p] /\ pc[f] \in {"fetch", "save", "tss"}
            /\ UNCHANGED <<cpu, arg, join_map, wakeup_time, sleep_list>>
      BY <1>11 DEF Fetch, Save, SetTss, At, Goto, schedVars, timeVars
    <2>2. p \in Pc \ {"new"} /\ p \notin Alive
      BY <2>1, PcNames DEF Alive, Switching
    <2>3. WaitInv'
      BY <1>0, <2>1, <2>2, LocalWait
    <2> QED
      BY <1>11, <2>3, FetchFrames, SaveFrames
  <1>12. CASE Load(f)
    BY <1>0, <1>12, LoadRef
  <1> QED
    BY <1>3, <1>4, <1>5, <1>6, <1>7, <1>8, <1>9, <1>10, <1>11, <1>12 DEF Step, Calls

\* The frames and the waiting threads, after every step that does not stop the machine.
LEMMA NextFramesWait ==
    ASSUME Inv, RefInv, TypeOK', [Next]_vars, fault' = "none"
    PROVE  FramesInv' /\ WaitInv'
  <1>1. CASE TickPending \/ Halted \/ UNCHANGED vars
    <2>1. /\ fault = "none" /\ UNCHANGED <<cpu, pc, sw, old_rsp0, arg, join_map, wakeup_time, sleep_list>>
      BY <1>1 DEF TickPending, Halted, vars, schedVars, timeVars, flowVars
    <2>2. FramesInv /\ WaitInv
      BY <2>1 DEF RefInv
    <2>3. FramesInv'
      BY <2>1, <2>2 DEF FramesInv, Sound
    <2>4. WaitInv'
      BY <2>1, <2>2 DEF WaitInv
    <2> QED
      BY <2>3, <2>4
  <1>2. CASE Start
    <2>1. fault = "none"
      BY <1>2 DEF Start, At
    <2> QED
      BY <1>2, <2>1, LoadRef
  <1>3. CASE Tick
    BY <1>3, TickRef
  <1>4. ASSUME NEW f \in Flow, Step(f) \/ Calls(f) PROVE FramesInv' /\ WaitInv'
    BY <1>4, StepRef
  <1> QED
    BY <1>1, <1>2, <1>3, <1>4 DEF Next

\* The flow that exits is a thread that has not exited; there is a current thread
\* when the timer switches.  So no step panics but join().
LEMMA NextPanics ==
    ASSUME Inv, RefInv, [Next]_vars
    PROVE  OnlyJoinPanics'
  <1>0. OnlyJoinPanics
    BY DEF RefInv
  <1>1. CASE UNCHANGED <<fault, cpu, pc>>
    BY <1>0, <1>1 DEF OnlyJoinPanics
  <1>2. CASE fault = "none" /\ fault' \in {"none", "context", "hang"}
    BY <1>2 DEF OnlyJoinPanics
  <1>3. ASSUME NEW fr, NEW ptrs, NEW pcs, fault = "none", Resume(fr, ptrs, pcs)
        PROVE  fault' \in {"none", "context", "hang"}
    BY <1>3 DEF Resume, Stop
  <1>4. CASE TickPending \/ Halted \/ UNCHANGED vars
    BY <1>1, <1>4 DEF TickPending, Halted, vars, flowVars
  <1>5. CASE Start
    BY <1>2, <1>3, <1>5 DEF Start, At
  <1>6. CASE Tick
    <2>1. CASE UNCHANGED fault
      BY <1>2, <1>6, <2>1, TickMoves
    <2>2. ASSUME NEW rq, SwitchFromInterrupt(rq) PROVE fault' \in {"none", "context", "hang"}
      <3>1. fault = "none"
        BY <1>6, TickMoves
      <3>2. CASE TssLocked
        BY <2>2, <3>2 DEF SwitchFromInterrupt, Stop
      <3>3. CASE ~TssLocked
        BY <1>3, <2>2, <3>1, <3>3 DEF SwitchFromInterrupt
      <3> QED
        BY <3>2, <3>3
    <2> QED
      BY <1>2, <1>6, <2>1, <2>2, TickMoves
  <1>7. ASSUME NEW f \in Flow, Calls(f) PROVE OnlyJoinPanics'
    BY <1>2, <1>7
    DEF Calls, CallReady, CallJoin, CallExit, CallYield, CallSleep, Call, At
  <1>8. ASSUME NEW f \in Flow, Step(f) PROVE OnlyJoinPanics'
    <2>1. CASE Join(f)
      BY <1>2, <2>1 DEF Join, At, Stop, OnlyJoinPanics
    <2>2. CASE Exit(f)
      <3>1. fault = "none" /\ cpu = f /\ pc[f] = "exit"
        BY <2>2 DEF Exit, At
      <3>2. f \in Thread /\ current_thread = f
        BY <3>1, RunningThread DEF Switching
      <3>3. f \in DOMAIN join_map
        BY <3>1, <3>2, PcNames DEF RefInv, WaitInv, Alive, Waiting, InBlock, Switching
      <3> QED
        BY <1>2, <2>2, <3>1, <3>2, <3>3 DEF Exit
    <2>3. CASE Load(f)
      BY <1>2, <1>3, <2>3 DEF Load, At
    <2>4. CASE Kickoff(f) \/ SetInit(f) \/ KickoffTss(f) \/ Ready(f) \/ LockSleep(f) \/ Enlist(f)
                 \/ \E ms \in SleepTimes : ReadClock(f, ms)
      BY <1>2, <2>4 DEF Kickoff, SetInit, KickoffTss, Ready, LockSleep, Enlist, ReadClock, Call, At
    <2>5. CASE LockBlock(f) \/ ScanStart(f) \/ ScanDone(f) \/ Block(f) \/ YieldPop(f)
                 \/ Fetch(f) \/ Save(f) \/ SetTss(f)
      BY <1>2, <2>5
      DEF LockBlock, ScanStart, ScanDone, Block, YieldPop, Fetch, Save, SetTss, Call, At
    <2> QED
      BY <1>8, <2>1, <2>2, <2>3, <2>4, <2>5 DEF Step
  <1> QED
    BY <1>4, <1>5, <1>6, <1>7, <1>8 DEF Next

-----------------------------------------------------------------------------

\* At boot no thread has a reference, and every frame is a first one.
LEMMA InitRef == Init => RefInv
  <1> SUFFICES ASSUME Init PROVE RefInv
    OBVIOUS
  <1>1. SchedType
    BY InitType DEF TypeOK
  <1>2. ThreadConserved
    <2> SUFFICES ASSUME NEW t \in Thread
                 PROVE  References(t) = (IF t \in DOMAIN join_map THEN 1 ELSE 0)
                                          + (IF pc[t] \in Waiting THEN 1 ELSE 0)
      BY DEF ThreadConserved
    <2>1. DOMAIN join_map = {} /\ pc[t] = "new" /\ current_thread = Boot
      BY DEF Init
    <2>2. ready_queue = <<>> /\ sleep_list = <<>> /\ <<>> \in Seq(Thread)
      BY DEF Init
    <2>3. Count(t, ready_queue) = 0 /\ Count(t, sleep_list) = 0
      <3>1. PICK s \in Seq(Thread) : s = <<>>
        BY <2>2
      <3>2. \A i \in DOMAIN s : s[i] # t
        BY <3>1
      <3>3. Count(t, s) = 0
        BY <3>2, CountType
      <3> QED
        BY <2>2, <3>1, <3>3
    <2>4. Joining(t) = {}
      BY <2>1 DEF Joining
    <2>5. Cardinality(Joining(t)) = 0
      BY <2>4, FS_EmptySet
    <2>6. References(t) = 0
      BY <2>1, <2>3, <2>5 DEF References
    <2> QED
      BY <2>1, <2>6 DEF Waiting, InBlock
  <1>3. OnlyJoinPanics
    BY DEF Init, OnlyJoinPanics
  <1>4. FramesInv
    BY DEF Init, FramesInv, Sound, FirstFrame, Idle, Stale
  <1>5. WaitInv
    BY DEF Init, WaitInv
  <1> QED
    BY <1>2, <1>3, <1>4, <1>5 DEF RefInv

\* Every step of the scheduler keeps RefInv.
LEMMA NextRef == Inv /\ RefInv /\ [Next]_vars => RefInv'
  <1> SUFFICES ASSUME Inv, RefInv, [Next]_vars PROVE RefInv'
    OBVIOUS
  <1>1. TypeOK'
    BY NextInv DEF Inv
  <1> QED
    BY <1>1, NextConserved, NextPanics, NextFramesWait DEF RefInv

\* Both invariants hold in every state.
LEMMA RefCorrect == Spec => [](Inv /\ RefInv)
  BY InitInv, NextInv, InitRef, NextRef, PTL DEF Spec

\* No thread is lost and none is scheduled twice, for any number of threads, any
\* sleep times and preemptions at any instruction: ready queue, sleep list, join
\* lists and current_thread together name every live thread once, and once more
\* while it is about to block.
THEOREM ThreadsConserved == Spec => []ThreadConserved
  <1>1. RefInv => ThreadConserved
    BY DEF RefInv
  <1> QED
    BY <1>1, RefCorrect, PTL

\* exit() always finds the join list of its caller, and switch_thread() a current
\* thread: the only expect() that can fail is the one of join().
THEOREM PanicsOnlyInJoin == Spec => []OnlyJoinPanics
  <1>1. RefInv => OnlyJoinPanics
    BY DEF RefInv
  <1> QED
    BY <1>1, RefCorrect, PTL

\* A thread that runs its own code has slept as long as it asked for.
THEOREM SleepIsFull == Spec => []SleepsFully
  <1>1. Inv /\ RefInv => SleepsFully
    <2> SUFFICES ASSUME Inv, RefInv, fault = "none", pc[cpu] = "run"
                 PROVE  wakeup_time[cpu] = 0
      BY DEF SleepsFully
    <2>1. cpu \in Thread /\ current_thread = cpu
      BY RunningThread DEF Switching
    <2>2. \A i \in DOMAIN sleep_list : sleep_list[i] # cpu
      BY <2>1, RunnerIsNotListed DEF Inv, TypeOK, RefInv, Waiting, InBlock
    <2> QED
      BY <2>1, <2>2 DEF RefInv, WaitInv
  <1> QED
    BY <1>1, RefCorrect, PTL

\* A thread that runs its own code after join() has seen the joined thread exit.
THEOREM JoinReturnsAfterExit == Spec => []JoinWaits
  <1>1. Inv /\ RefInv => JoinWaits
    <2> SUFFICES ASSUME Inv, RefInv, fault = "none", pc[cpu] = "run",
                        arg[cpu] \in DOMAIN join_map
                 PROVE  FALSE
      BY DEF JoinWaits
    <2>1. cpu \in Thread /\ current_thread = cpu
      BY RunningThread DEF Switching
    <2>2. \A u \in DOMAIN join_map : \A i \in DOMAIN join_map[u] : join_map[u][i] # cpu
      BY <2>1, RunnerIsNotListed DEF Inv, TypeOK, RefInv, Waiting, InBlock
    <2> QED
      BY <2>1, <2>2 DEF RefInv, WaitInv
  <1> QED
    BY <1>1, RefCorrect, PTL
=============================================================================
