---------------------------- MODULE MappingProofs ----------------------------
(***************************************************************************)
(* Facts about the preference orders of module Mapping, for every number   *)
(* of sources and destinations and every affinity map.                     *)
(***************************************************************************)
EXTENDS Mapping, FiniteSetTheorems, TLAPS

(* The number of slots per destination is a natural number, positive when  *)
(* there is something to map to something, and large enough for all.       *)
LEMMA MaxIPerK ==
    ASSUME NEW i \in Nat, NEW k \in Nat
    PROVE  /\ qvi_maxiperk(i, k) \in Nat
           /\ k > 0 => i <= k * qvi_maxiperk(i, k)
<1>1. CASE k = 0
  BY <1>1 DEF qvi_maxiperk
<1>2. CASE k > 0
  <2> DEFINE q == (i + k - 1) \div k
  <2>1. i + k - 1 \in Nat
    BY <1>2
  <2>2. q \in Nat
    BY <2>1, <1>2
  <2>3. i + k - 1 = k * q + ((i + k - 1) % k) /\ (i + k - 1) % k \in 0..(k - 1)
    BY <2>1, <1>2
  <2>4. k * q \in Nat
    BY <2>2
  <2>5. i <= k * q
    BY <2>3, <2>4
  <2> QED
    BY <1>2, <2>2, <2>5 DEF qvi_maxiperk
<1> QED
  BY <1>1, <1>2

(* The slots are finitely many: the length of every preference list. *)
LEMMA SlotsFinite ==
    ASSUME NEW n \in Nat, NEW m \in Nat
    PROVE  /\ IsFiniteSet(Slots(n, m))
           /\ Cardinality(Slots(n, m)) = m * qvi_maxiperk(n, m)
<1>1. qvi_maxiperk(n, m) \in Nat
  BY MaxIPerK
<1>2. /\ IsFiniteSet(0..(m - 1))
      /\ Cardinality(0..(m - 1)) = m
  BY FS_Interval
<1> DEFINE k == qvi_maxiperk(n, m)
<1> HIDE DEF k
<1>3. k \in Nat
  BY <1>1 DEF k
<1>4. /\ IsFiniteSet(0..(k - 1))
      /\ Cardinality(0..(k - 1)) = k
  BY <1>3, FS_Interval
<1> DEFINE A == 0..(m - 1)
           B == 0..(k - 1)
<1>5. /\ IsFiniteSet(A \X B)
      /\ Cardinality(A \X B) = Cardinality(A) * Cardinality(B)
  <2>1. IsFiniteSet(A) /\ IsFiniteSet(B)
    BY <1>2, <1>4
  <2> HIDE DEF A, B
  <2> QED
    BY <2>1, FS_Product
<1>6. Slots(n, m) = A \X B
  BY DEF Slots, Destinations, k
<1> HIDE DEF A, B
<1>7. Cardinality(A) = m /\ Cardinality(B) = k
  BY <1>2, <1>4 DEF A, B
<1> QED
  BY <1>5, <1>6, <1>7 DEF k

LEMMA ContentionNat ==
    ASSUME NEW n \in Nat, NEW aff, NEW d
    PROVE  m_calculate_dst_contention(n, aff, d) \in Nat
<1>1. IsFiniteSet(Sources(n))
  BY FS_Interval DEF Sources
<1>2. {s \in Sources(n) : has_affinity(aff, s, d)} \in SUBSET Sources(n)
  OBVIOUS
<1> QED
  BY <1>1, <1>2, FS_Subset, FS_CardinalityType DEF m_calculate_dst_contention

(* preference_sorter is a strict total order on the destinations. *)
LEMMA SorterOrder ==
    ASSUME NEW n \in Nat, NEW aff, NEW a \in Nat, NEW b \in Nat, NEW c \in Nat
    PROVE  /\ ~preference_sorter(n, aff, a, a)
           /\ preference_sorter(n, aff, a, b) \/ preference_sorter(n, aff, b, a) \/ a = b
           /\ preference_sorter(n, aff, a, b) /\ preference_sorter(n, aff, b, c)
                 => preference_sorter(n, aff, a, c)
<1>1. /\ m_calculate_dst_contention(n, aff, a) \in Nat
      /\ m_calculate_dst_contention(n, aff, b) \in Nat
      /\ m_calculate_dst_contention(n, aff, c) \in Nat
  BY ContentionNat
<1> QED
  BY <1>1 DEF preference_sorter

LEMMA SlotParts ==
    ASSUME NEW n \in Nat, NEW m \in Nat, NEW p \in Slots(n, m)
    PROVE  /\ p[1] \in Nat /\ p[2] \in Nat
           /\ p = <<p[1], p[2]>>
  BY MaxIPerK DEF Slots, Destinations

(* So is the order of a source's preference list on the slots. *)
LEMMA SrcPrefersOrder ==
    ASSUME NEW n \in Nat, NEW m \in Nat, NEW aff, NEW s,
           NEW p \in Slots(n, m), NEW q \in Slots(n, m), NEW r \in Slots(n, m)
    PROVE  /\ ~src_prefers(n, aff, s, p, p)
           /\ src_prefers(n, aff, s, p, q) \/ src_prefers(n, aff, s, q, p) \/ p = q
           /\ src_prefers(n, aff, s, p, q) /\ src_prefers(n, aff, s, q, r)
                 => src_prefers(n, aff, s, p, r)
<1>1. /\ p[1] \in Nat /\ p[2] \in Nat /\ p = <<p[1], p[2]>>
      /\ q[1] \in Nat /\ q[2] \in Nat /\ q = <<q[1], q[2]>>
      /\ r[1] \in Nat /\ r[2] \in Nat /\ r = <<r[1], r[2]>>
  BY SlotParts
<1>2. ~src_prefers(n, aff, s, p, p)
  BY <1>1, SorterOrder DEF src_prefers
<1>3. src_prefers(n, aff, s, p, q) \/ src_prefers(n, aff, s, q, p) \/ p = q
  <2>1. CASE p[1] = q[1]
    BY <1>1, <2>1 DEF src_prefers
  <2>2. CASE p[1] # q[1]
    BY <1>1, <2>2, SorterOrder DEF src_prefers
  <2> QED
    BY <2>1, <2>2
<1>4. ASSUME src_prefers(n, aff, s, p, q), src_prefers(n, aff, s, q, r)
      PROVE  src_prefers(n, aff, s, p, r)
  <2>1. CASE p[1] = q[1] /\ q[1] = r[1]
    BY <1>1, <1>4, <2>1, SorterOrder DEF src_prefers
  <2>2. CASE p[1] = q[1] /\ q[1] # r[1]
    BY <1>1, <1>4, <2>2, SorterOrder DEF src_prefers
  <2>3. CASE p[1] # q[1] /\ q[1] = r[1]
    BY <1>1, <1>4, <2>3, SorterOrder DEF src_prefers
  <2>4. CASE p[1] # q[1] /\ q[1] # r[1]
    BY <1>1, <1>4, <2>4, SorterOrder DEF src_prefers
  <2> QED
    BY <2>1, <2>2, <2>3, <2>4
<1> QED
  BY <1>2, <1>3, <1>4

(* The index of a slot in a source's list orders the slots as the list     *)
(* does; every index below the length of the list belongs to one slot.     *)
IndexEnumeratesSlots(n, m, aff, s) ==
    /\ \A p \in Slots(n, m) :
          src_pref_index(n, m, aff, s, p) \in 0..(m * qvi_maxiperk(n, m) - 1)
    /\ \A p, q \in Slots(n, m) :
          src_prefers(n, aff, s, p, q) <=>
             src_pref_index(n, m, aff, s, p) < src_pref_index(n, m, aff, s, q)
    /\ \A p, q \in Slots(n, m) :
          src_pref_index(n, m, aff, s, p) = src_pref_index(n, m, aff, s, q) => p = q
    /\ \A i \in 0..(m * qvi_maxiperk(n, m) - 1) :
          \E p \in Slots(n, m) : src_pref_index(n, m, aff, s, p) = i

LEMMA PrefIndex ==
    ASSUME NEW n \in Nat, NEW m \in Nat, NEW aff, NEW s
    PROVE  IndexEnumeratesSlots(n, m, aff, s)
<1> DEFINE S == Slots(n, m)
           K == m * qvi_maxiperk(n, m)
           Lower(p) == {q \in S : src_prefers(n, aff, s, q, p)}
           idx(p) == src_pref_index(n, m, aff, s, p)
<1>0. \A p, q, r \in S :
        /\ ~src_prefers(n, aff, s, p, p)
        /\ src_prefers(n, aff, s, p, q) \/ src_prefers(n, aff, s, q, p) \/ p = q
        /\ src_prefers(n, aff, s, p, q) /\ src_prefers(n, aff, s, q, r)
              => src_prefers(n, aff, s, p, r)
  BY SrcPrefersOrder
<1>1. IsFiniteSet(S) /\ Cardinality(S) = K /\ K \in Nat
  BY SlotsFinite, FS_CardinalityType
<1>2. ASSUME NEW p \in S
      PROVE  IsFiniteSet(Lower(p)) /\ idx(p) = Cardinality(Lower(p)) /\ idx(p) \in Nat
  <2>1. Lower(p) \in SUBSET S
    OBVIOUS
  <2>2. IsFiniteSet(Lower(p)) /\ Cardinality(Lower(p)) \in Nat
    BY <1>1, <2>1, FS_Subset, FS_CardinalityType
  <2> QED
    BY <2>2 DEF src_pref_index
<1>3. ASSUME NEW p \in S
      PROVE  idx(p) < K
  <2>1. Lower(p) \in SUBSET S /\ p \notin Lower(p)
    BY <1>0
  <2>2. Lower(p) # S /\ Cardinality(Lower(p)) <= Cardinality(S)
        /\ (Cardinality(S) = Cardinality(Lower(p)) => S = Lower(p))
    BY <1>1, <2>1, FS_Subset
  <2> HIDE DEF idx, Lower, K, S
  <2> QED
    BY <1>1, <1>2, <2>2
<1>4. ASSUME NEW p \in S, NEW q \in S, src_prefers(n, aff, s, p, q)
      PROVE  idx(p) < idx(q)
  <2>1. Lower(p) \in SUBSET Lower(q)
    BY <1>4, <1>0
  <2>2. p \in Lower(q) /\ p \notin Lower(p)
    BY <1>4, <1>0
  <2>3. IsFiniteSet(Lower(q))
    BY <1>2
  <2>4. /\ Cardinality(Lower(p)) <= Cardinality(Lower(q))
        /\ Cardinality(Lower(q)) = Cardinality(Lower(p)) => Lower(q) = Lower(p)
    <3> HIDE DEF Lower
    <3> QED
      BY <2>1, <2>3, FS_Subset
  <2>5. /\ idx(p) = Cardinality(Lower(p)) /\ idx(p) \in Nat
        /\ idx(q) = Cardinality(Lower(q)) /\ idx(q) \in Nat
    BY <1>2
  <2> HIDE DEF idx, Lower
  <2> QED
    BY <2>2, <2>4, <2>5
<1>5. \A p \in S : idx(p) \in 0..(K - 1)
  <2> SUFFICES ASSUME NEW p \in S
               PROVE  idx(p) \in 0..(K - 1)
    OBVIOUS
  <2>1. idx(p) \in Nat /\ idx(p) < K
    BY <1>2, <1>3
  <2> HIDE DEF idx, K
  <2> QED
    BY <2>1, <1>1
<1>6. \A p, q \in S : src_prefers(n, aff, s, p, q) <=> idx(p) < idx(q)
  <2> SUFFICES ASSUME NEW p \in S, NEW q \in S
               PROVE  src_prefers(n, aff, s, p, q) <=> idx(p) < idx(q)
    OBVIOUS
  <2>1. idx(p) \in Nat /\ idx(q) \in Nat
    BY <1>2
  <2>2. src_prefers(n, aff, s, p, q) \/ src_prefers(n, aff, s, q, p) \/ p = q
    BY <1>0
  <2>3. src_prefers(n, aff, s, p, q) => idx(p) < idx(q)
    BY <1>4
  <2>4. src_prefers(n, aff, s, q, p) => idx(q) < idx(p)
    BY <1>4
  <2> HIDE DEF idx
  <2> QED
    BY <2>1, <2>2, <2>3, <2>4
<1>7. \A p, q \in S : idx(p) = idx(q) => p = q
  <2> SUFFICES ASSUME NEW p \in S, NEW q \in S, idx(p) = idx(q)
               PROVE  p = q
    OBVIOUS
  <2>1. src_prefers(n, aff, s, p, q) \/ src_prefers(n, aff, s, q, p) \/ p = q
    BY <1>0
  <2>2. idx(p) \in Nat /\ idx(q) \in Nat
    BY <1>2
  <2> HIDE DEF idx
  <2> QED
    BY <1>6, <2>1, <2>2
<1>8. \A i \in 0..(K - 1) : \E p \in S : idx(p) = i
  <2> DEFINE f == [p \in S |-> idx(p)]
             T == 0..(K - 1)
  <2> HIDE DEF idx, S, K
  <2>1. IsFiniteSet(T) /\ Cardinality(T) = K
    BY <1>1, FS_Interval
  <2>2. f \in Injection(S, T)
    BY <1>5, <1>7 DEF Injection, IsInjective
  <2>3. f \in Surjection(S, T)
    <3> HIDE DEF f, T
    <3> QED
      BY <2>1, <2>2, <1>1, FS_Injection
  <2> QED
    BY <2>3 DEF Surjection
<1> QED
  BY <1>5, <1>6, <1>7, <1>8 DEF IndexEnumeratesSlots

(* A slot's list of the sources is a strict total order, too. *)
LEMMA SlotPrefersOrder ==
    ASSUME NEW n \in Nat, NEW aff, NEW p,
           NEW a \in Sources(n), NEW b \in Sources(n), NEW c \in Sources(n)
    PROVE  /\ ~m_slot_prefers(aff, p, a, a)
           /\ m_slot_prefers(aff, p, a, b) \/ m_slot_prefers(aff, p, b, a) \/ a = b
           /\ ~(m_slot_prefers(aff, p, a, b) /\ m_slot_prefers(aff, p, b, a))
           /\ m_slot_prefers(aff, p, a, b) /\ m_slot_prefers(aff, p, b, c)
                 => m_slot_prefers(aff, p, a, c)
  BY DEF m_slot_prefers, Sources

-----------------------------------------------------------------------------
(* Order and induction.  The library's induction theorems have operators   *)
(* as parameters; what is needed of them is stated here with sets.         *)

LEMMA NatLeast ==
    ASSUME NEW S \in SUBSET Nat, S # {} PROVE \E x \in S : \A y \in S : x <= y
<1>. DEFINE R == {ss \in Nat \X Nat : ss[1] < ss[2]}
<1>1. IsWellFoundedOn(R, Nat)
  BY NatLessThanWellFounded DEF OpToRel
<1>2. PICK x \in S : \A y \in S : <<y, x>> \notin R
  <2>. HIDE DEF R
  <2>. QED
    BY <1>1, WFMin
<1>3. \A y \in S : ~(y < x)
  BY <1>2
<1>. QED
  BY <1>3

LEMMA NatGreatest ==
    ASSUME NEW k \in Nat, NEW S \in SUBSET (0..k), S # {}
    PROVE  \E x \in S : \A y \in S : y <= x
<1>. DEFINE above == {n \in Nat : \A y \in S : y <= n}
<1>1. above # {}
  <2>1. k \in above
    OBVIOUS
  <2>. QED
    BY <2>1
<1>2. PICK x \in above : \A n \in above : x <= n
  BY <1>1, NatLeast
<1>3. ASSUME x \notin S PROVE FALSE
  <2>1. \A y \in S : y <= x - 1
    BY <1>3, <1>2
  <2>2. x - 1 \in Nat
    <3>1. PICK y \in S : TRUE
      OBVIOUS
    <3>2. y <= x - 1 /\ y \in 0..k /\ x \in Nat
      BY <2>1, <1>2
    <3>. QED
      BY <3>2
  <2>3. x - 1 \in above
    BY <2>1, <2>2
  <2>. QED
    BY <1>2, <2>3
<1>. QED
  BY <1>2, <1>3

(* The rank of an element of a finite set of integers: the number of       *)
(* smaller ones.                                                           *)
Rank(S, x) == Cardinality({y \in S : y < x})

(* Ranks enumerate the set from below. *)
LEMMA RankEnumerates ==
    ASSUME NEW S \in SUBSET Int, IsFiniteSet(S)
    PROVE  /\ Cardinality(S) \in Nat
           /\ \A x \in S : Rank(S, x) \in 0..(Cardinality(S) - 1)
           /\ \A x, y \in S : x < y <=> Rank(S, x) < Rank(S, y)
           /\ \A i \in 0..(Cardinality(S) - 1) : \E x \in S : Rank(S, x) = i
<1>. DEFINE K == Cardinality(S)
            Lower(x) == {y \in S : y < x}
<1>1. K \in Nat
  BY FS_CardinalityType
<1>2. ASSUME NEW x \in S
      PROVE  IsFiniteSet(Lower(x)) /\ Rank(S, x) = Cardinality(Lower(x)) /\ Rank(S, x) \in Nat
  <2>1. Lower(x) \in SUBSET S
    OBVIOUS
  <2>2. IsFiniteSet(Lower(x)) /\ Cardinality(Lower(x)) \in Nat
    BY <2>1, FS_Subset, FS_CardinalityType
  <2>. QED
    BY <2>2 DEF Rank
<1>3. ASSUME NEW x \in S PROVE Rank(S, x) \in 0..(K - 1)
  <2>1. Lower(x) \in SUBSET S /\ x \notin Lower(x)
    OBVIOUS
  <2>2. Lower(x) # S /\ Cardinality(Lower(x)) <= K /\ (K = Cardinality(Lower(x)) => S = Lower(x))
    BY <2>1, FS_Subset
  <2>3. Rank(S, x) = Cardinality(Lower(x)) /\ Rank(S, x) \in Nat
    BY <1>2
  <2>. HIDE DEF K, Lower
  <2>. QED
    BY <1>1, <2>2, <2>3
<1>4. ASSUME NEW x \in S, NEW y \in S, x < y PROVE Rank(S, x) < Rank(S, y)
  <2>1. Lower(x) \in SUBSET Lower(y) /\ x \in Lower(y) /\ x \notin Lower(x)
    <3>1. ASSUME NEW z \in S, z < x PROVE z < y
      <4>1. x \in Int /\ y \in Int /\ z \in Int
        OBVIOUS
      <4>. QED
        BY <1>4, <3>1, <4>1
    <3>2. ~(x < x)
      <4>1. x \in Int
        OBVIOUS
      <4>. QED
        BY <4>1
    <3>. QED
      BY <1>4, <3>1, <3>2
  <2>2. IsFiniteSet(Lower(y))
    BY <1>2
  <2>3. Cardinality(Lower(x)) <= Cardinality(Lower(y))
        /\ (Cardinality(Lower(y)) = Cardinality(Lower(x)) => Lower(y) = Lower(x))
    <3>. HIDE DEF Lower
    <3>. QED
      BY <2>1, <2>2, FS_Subset
  <2>4. /\ Rank(S, x) = Cardinality(Lower(x)) /\ Rank(S, x) \in Nat
        /\ Rank(S, y) = Cardinality(Lower(y)) /\ Rank(S, y) \in Nat
    BY <1>2
  <2>. HIDE DEF Lower
  <2>. QED
    BY <2>1, <2>3, <2>4
<1>5. ASSUME NEW x \in S, NEW y \in S PROVE x < y <=> Rank(S, x) < Rank(S, y)
  <2>1. Rank(S, x) \in Nat /\ Rank(S, y) \in Nat
    BY <1>2
  <2>2. x < y => Rank(S, x) < Rank(S, y)
    BY <1>4
  <2>3. y < x => Rank(S, y) < Rank(S, x)
    BY <1>4
  <2>4. x \in Int /\ y \in Int
    OBVIOUS
  <2>. QED
    BY <2>1, <2>2, <2>3, <2>4
<1>6. \A i \in 0..(K - 1) : \E x \in S : Rank(S, x) = i
  <2>. DEFINE f == [x \in S |-> Rank(S, x)]
              T == 0..(K - 1)
  <2>1. IsFiniteSet(T) /\ Cardinality(T) = K
    BY <1>1, FS_Interval
  <2>2. f \in Injection(S, T)
    <3>1. f \in [S -> T]
      BY <1>3
    <3>2. ASSUME NEW x \in S, NEW y \in S, f[x] = f[y] PROVE x = y
      <4>1. Rank(S, x) = Rank(S, y) /\ Rank(S, x) \in Nat
        BY <3>2, <1>2
      <4>2. ~(x < y) /\ ~(y < x)
        BY <1>5, <4>1
      <4>. QED
        BY <4>2
    <3>. QED
      BY <3>1, <3>2 DEF Injection, IsInjective
  <2>3. f \in Surjection(S, T)
    <3>. HIDE DEF f, T, K
    <3>. QED
      BY <2>1, <2>2, FS_Injection DEF K
  <2>. QED
    BY <2>3 DEF Surjection
<1>. QED
  BY <1>1, <1>3, <1>5, <1>6

(* Functions on the naturals can be defined by recursion, with the step    *)
(* given as a function.                                                    *)
ByRecursion(f, X, a, step) ==
    f \in [Nat -> X] /\ f[0] = a /\ \A n \in Nat : f[n + 1] = step[<<n, f[n]>>]

LEMMA NatRecursion ==
    ASSUME NEW X, NEW a \in X, NEW step \in [Nat \X X -> X]
    PROVE  \E f : ByRecursion(f, X, a, step)
<1>. DEFINE Prefix(n, g) == /\ g \in [0..n -> X] /\ g[0] = a
                            /\ \A i \in 0..(n - 1) : g[i + 1] = step[<<i, g[i]>>]
<1>1. ASSUME NEW n \in Nat, NEW m \in Nat, n <= m, NEW g, NEW h, Prefix(n, g), Prefix(m, h)
      PROVE  g[n] = h[n]
  <2>. DEFINE Bad == {i \in 0..n : g[i] # h[i]}
  <2>. SUFFICES ASSUME Bad # {} PROVE FALSE
    OBVIOUS
  <2>0. Bad \in SUBSET Nat
    OBVIOUS
  <2>1. PICK i \in Bad : \A j \in Bad : i <= j
    <3>. HIDE DEF Bad
    <3>. QED
      BY <2>0, NatLeast
  <2>2. i # 0
    BY <1>1, <2>1
  <2>3. i - 1 \in 0..(n - 1) /\ i - 1 \in 0..(m - 1) /\ (i - 1) + 1 = i
    BY <1>1, <2>1, <2>2
  <2>4. i - 1 \notin Bad
    BY <2>1, <2>3
  <2>5. g[i - 1] = h[i - 1]
    BY <2>3, <2>4
  <2>6. g[(i - 1) + 1] = step[<<i - 1, g[i - 1]>>] /\ h[(i - 1) + 1] = step[<<i - 1, h[i - 1]>>]
    BY <1>1, <2>3
  <2>. QED
    BY <2>1, <2>3, <2>5, <2>6
<1>2. ASSUME NEW n \in Nat, NEW g, Prefix(n, g)
      PROVE  Prefix(n + 1, [i \in 0..(n + 1) |-> IF i = n + 1 THEN step[<<n, g[n]>>] ELSE g[i]])
  <2>. DEFINE h == [i \in 0..(n + 1) |-> IF i = n + 1 THEN step[<<n, g[n]>>] ELSE g[i]]
  <2>1. \A i \in 0..n : h[i] = g[i] /\ g[i] \in X
    BY <1>2
  <2>2. h[n + 1] = step[<<n, g[n]>>] /\ step[<<n, g[n]>>] \in X
    <3>0. n \in 0..n
      OBVIOUS
    <3>1. g[n] \in X
      <4>. HIDE DEF h
      <4>. QED
        BY <2>1, <3>0
    <3>2. step[<<n, g[n]>>] \in X
      BY <3>1
    <3>. QED
      BY <3>2
  <2>3. h \in [0..(n + 1) -> X]
    <3>1. \A i \in 0..(n + 1) : i = n + 1 \/ i \in 0..n
      OBVIOUS
    <3>. QED
      BY <2>1, <2>2, <3>1
  <2>4. ASSUME NEW i \in 0..n PROVE h[i + 1] = step[<<i, h[i]>>]
    <3>1. CASE i = n
      BY <2>1, <2>2, <3>1
    <3>2. CASE i # n
      <4>1. i \in 0..(n - 1) /\ i + 1 \in 0..n
        BY <3>2
      <4>. HIDE DEF h
      <4>. QED
        BY <1>2, <2>1, <4>1
    <3>. QED
      BY <3>1, <3>2
  <2>5. h[0] = a
    BY <1>2, <2>1
  <2>. HIDE DEF h
  <2>6. \A i \in 0..((n + 1) - 1) : h[i + 1] = step[<<i, h[i]>>]
    BY <2>4
  <2>. QED
    BY <2>3, <2>5, <2>6 DEF h
<1>3. ASSUME NEW n \in Nat PROVE \E g : Prefix(n, g)
  <2>. DEFINE Bad == {k \in Nat : ~\E g : Prefix(k, g)}
  <2>. SUFFICES ASSUME Bad # {} PROVE FALSE
    OBVIOUS
  <2>1. PICK k \in Bad : \A j \in Bad : k <= j
    BY NatLeast
  <2>2. CASE k = 0
    <3>1. Prefix(0, [i \in 0..0 |-> a])
      OBVIOUS
    <3>. QED
      BY <2>1, <2>2, <3>1
  <2>3. CASE k # 0
    <3>1. k - 1 \in Nat /\ (k - 1) + 1 = k /\ k - 1 \notin Bad
      BY <2>1, <2>3
    <3>. HIDE DEF Prefix
    <3>2. PICK g : Prefix(k - 1, g)
      BY <3>1
    <3>3. \E h : Prefix((k - 1) + 1, h)
      BY <1>2, <3>1, <3>2
    <3>. QED
      BY <2>1, <3>1, <3>3
  <2>. QED
    BY <2>2, <2>3
<1>. DEFINE pre(n) == CHOOSE g : Prefix(n, g)
            f == [n \in Nat |-> pre(n)[n]]
<1>4. ASSUME NEW n \in Nat PROVE Prefix(n, pre(n))
  <2>. HIDE DEF Prefix
  <2>. QED
    BY <1>3
<1>. HIDE DEF pre
<1>5. ASSUME NEW n \in Nat PROVE f[n] = pre(n)[n] /\ f[n] \in X
  BY <1>4
<1>6. ASSUME NEW n \in Nat PROVE f[n + 1] = step[<<n, f[n]>>]
  <2>1. Prefix(n, pre(n)) /\ Prefix(n + 1, pre(n + 1))
    BY <1>4
  <2>2. pre(n + 1)[n] = pre(n)[n]
    <3>. HIDE DEF Prefix
    <3>. QED
      BY <1>1, <2>1
  <2>3. pre(n + 1)[n + 1] = step[<<n, pre(n + 1)[n]>>]
    BY <2>1
  <2>. QED
    BY <1>5, <2>2, <2>3
<1>7. f[0] = a
  BY <1>4, <1>5
<1>8. f \in [Nat -> X]
  BY <1>5
<1>. HIDE DEF f
<1>. QED
  BY <1>6, <1>7, <1>8 DEF ByRecursion

-----------------------------------------------------------------------------
(* The walk of qvi_map_uniq, over sources and destinations that are        *)
(* numbers.                                                                *)

NumberMap(map) == DOMAIN map \subseteq Nat /\ \A s \in DOMAIN map : map[s] \subseteq Nat

LEMMA LeastFacts ==
    ASSUME NEW S \in SUBSET Nat, S # {}
    PROVE  Least(S) \in S /\ \A y \in S : Least(S) <= y
  BY NatLeast DEF Least

(* The loop: what a source finds that has not been seen. *)
NewFor(map, seen, s) == IF s \in DOMAIN map THEN map[s] \ seen ELSE {}

LEMMA KeptBelow ==
    ASSUME NEW map, NumberMap(map)
    PROVE  LET seen == kept_below(map)
           IN  /\ seen \in [Nat -> SUBSET Nat] /\ seen[0] = {}
               /\ \A s \in Nat : seen[s + 1] =
                     IF NewFor(map, seen[s], s) = {} THEN seen[s]
                     ELSE seen[s] \cup {Least(NewFor(map, seen[s], s))}
<1>. DEFINE X == SUBSET Nat
            add(s, seen) == IF NewFor(map, seen, s) = {} THEN seen
                            ELSE seen \cup {Least(NewFor(map, seen, s))}
            step == [p \in Nat \X X |-> add(p[1], p[2])]
            Body(g) == [s \in Nat |-> IF s = 0 THEN {} ELSE add(s - 1, g[s - 1])]
            seen == kept_below(map)
<1>1. ASSUME NEW s \in Nat, NEW old \in X PROVE add(s, old) \in X
  <2>1. NewFor(map, old, s) \in SUBSET Nat
    BY DEF NewFor, NumberMap
  <2>. QED
    BY <2>1, LeastFacts
<1>. HIDE DEF add
<1>2. step \in [Nat \X X -> X] /\ {} \in X
  BY <1>1
<1>3. PICK f \in [Nat -> X] : f[0] = {} /\ \A n \in Nat : f[n + 1] = step[<<n, f[n]>>]
  <2>. DEFINE none == {}
  <2>1. none \in X
    OBVIOUS
  <2>. HIDE DEF X, step, none
  <2>2. \E f : ByRecursion(f, X, none, step)
    BY <1>2, <2>1, NatRecursion
  <2>. QED
    BY <2>2 DEF none, ByRecursion
<1>4. f = Body(f)
  <2>1. ASSUME NEW s \in Nat PROVE f[s] = Body(f)[s]
    <3>1. CASE s = 0
      BY <1>3, <3>1
    <3>2. CASE s # 0
      <4>1. s - 1 \in Nat /\ (s - 1) + 1 = s
        BY <3>2
      <4>2. f[(s - 1) + 1] = step[<<s - 1, f[s - 1]>>] /\ f[s - 1] \in X
        BY <1>3, <4>1
      <4>3. step[<<s - 1, f[s - 1]>>] = add(s - 1, f[s - 1])
        BY <4>1, <4>2
      <4>. QED
        BY <3>2, <4>1, <4>2, <4>3
    <3>. QED
      BY <3>1, <3>2
  <2>. QED
    BY <2>1, Zenon
<1>5. seen = CHOOSE g : g = Body(g)
  BY DEF kept_below, add, NewFor
<1>6. seen = Body(seen)
  <2>. HIDE DEF seen, Body
  <2>. QED
    BY <1>4, <1>5, Zenon
<1>. HIDE DEF seen
<1>7. seen[0] = {}
  <2>1. Body(seen)[0] = {}
    OBVIOUS
  <2>. QED
    BY <1>6, <2>1, Zenon
<1>8. ASSUME NEW s \in Nat PROVE seen[s + 1] = add(s, seen[s])
  <2>1. Body(seen)[s + 1] = add((s + 1) - 1, seen[(s + 1) - 1]) /\ (s + 1) - 1 = s
    OBVIOUS
  <2>. QED
    BY <1>6, <2>1, Zenon
<1>9. \A s \in Nat : seen[s] \in X
  <2>. DEFINE Bad == {s \in Nat : seen[s] \notin X}
  <2>. SUFFICES ASSUME Bad # {} PROVE FALSE
    OBVIOUS
  <2>1. PICK s \in Bad : \A t \in Bad : s <= t
    BY NatLeast
  <2>2. s # 0
    BY <1>7, <2>1
  <2>3. s - 1 \in Nat /\ (s - 1) + 1 = s /\ s - 1 \notin Bad
    BY <2>1, <2>2
  <2>4. seen[s - 1] \in X
    BY <2>3
  <2>5. seen[(s - 1) + 1] \in X
    BY <1>1, <1>8, <2>3, <2>4
  <2>. QED
    BY <2>1, <2>3, <2>5
<1>10. seen \in [Nat -> SUBSET Nat]
  <2>1. DOMAIN Body(seen) = Nat /\ Body(seen) = [s \in Nat |-> Body(seen)[s]]
    OBVIOUS
  <2>2. DOMAIN seen = Nat /\ seen = [s \in Nat |-> seen[s]]
    <3>. HIDE DEF Body
    <3>. QED
      BY <1>6, <2>1, Zenon
  <2>. QED
    BY <1>9, <2>2
<1>. QED
  BY <1>7, <1>8, <1>10 DEF seen, add

(* What has been seen below s is what the sources below s have kept. *)
LEMMA SeenIsKept ==
    ASSUME NEW map, NumberMap(map), NEW s \in Nat
    PROVE  LET seen == kept_below(map)
               uniq == qvi_map_uniq(map)
           IN  seen[s] = UNION {uniq[t] : t \in {t \in DOMAIN uniq : t < s}}
<1>. DEFINE seen == kept_below(map)
            uniq == qvi_map_uniq(map)
            Union(n) == UNION {uniq[t] : t \in {t \in DOMAIN uniq : t < n}}
            Bad == {n \in Nat : seen[n] # Union(n)}
<1>0. /\ DOMAIN uniq = {t \in DOMAIN map : map[t] \ seen[t] # {}}
      /\ \A t \in DOMAIN uniq : uniq[t] = {Least(map[t] \ seen[t])}
  BY DEF qvi_map_uniq
<1>6. \A t \in DOMAIN uniq : t \in Nat
  BY DEF qvi_map_uniq, NumberMap
<1>1. /\ seen[0] = {}
      /\ \A n \in Nat : seen[n + 1] =
            IF NewFor(map, seen[n], n) = {} THEN seen[n]
            ELSE seen[n] \cup {Least(NewFor(map, seen[n], n))}
  BY KeptBelow
<1>. HIDE DEF seen, uniq
<1>. SUFFICES ASSUME Bad # {} PROVE FALSE
  BY DEF seen, uniq
<1>2. PICK n \in Bad : \A k \in Bad : n <= k
  BY NatLeast
<1>3. n \in Nat /\ seen[n] # Union(n)
  BY <1>2
<1>4. CASE n = 0
  <2>1. Union(0) = {}
    BY <1>6
  <2>. QED
    BY <1>1, <1>3, <1>4, <2>1
<1>5. CASE n # 0
  <2>. DEFINE k == n - 1
  <2>1. k \in Nat /\ k + 1 = n /\ k \notin Bad
    BY <1>2, <1>5
  <2>2. seen[k] = Union(k)
    BY <2>1
  <2>. HIDE DEF k
  <2>3. \A t \in DOMAIN uniq : t < n <=> t < k \/ t = k
    BY <1>6, <2>1
  <2>4. CASE k \in DOMAIN uniq
    <3>1. NewFor(map, seen[k], k) # {} /\ uniq[k] = {Least(NewFor(map, seen[k], k))}
      BY <1>0, <2>4 DEF NewFor
    <3>2. seen[n] = seen[k] \cup uniq[k]
      BY <1>1, <2>1, <3>1
    <3>3. Union(n) = Union(k) \cup uniq[k]
      BY <2>3, <2>4
    <3>. QED
      BY <1>3, <2>2, <3>2, <3>3
  <2>5. CASE k \notin DOMAIN uniq
    <3>1. NewFor(map, seen[k], k) = {}
      BY <1>0, <2>5 DEF NewFor
    <3>2. seen[n] = seen[k]
      BY <1>1, <2>1, <3>1
    <3>3. Union(n) = Union(k)
      BY <2>3, <2>5
    <3>. QED
      BY <1>3, <2>2, <3>2, <3>3
  <2>. QED
    BY <2>4, <2>5
<1>. QED
  BY <1>4, <1>5

(* qvi_map_uniq: each source keeps one destination of its own that no      *)
(* other one keeps, and goes without one only if earlier sources have      *)
(* taken all of its destinations.                                          *)
LEMMA UniqMap ==
    ASSUME NEW map, NumberMap(map)
    PROVE  LET uniq == qvi_map_uniq(map)
           IN  /\ DOMAIN uniq \subseteq DOMAIN map
               /\ \A s \in DOMAIN uniq : \E d \in map[s] : uniq[s] = {d}
               /\ \A s, t \in DOMAIN uniq : s # t => uniq[s] \cap uniq[t] = {}
               /\ \A s \in DOMAIN map \ DOMAIN uniq : \A d \in map[s] :
                     \E t \in DOMAIN uniq : t < s /\ uniq[t] = {d}
<1>. DEFINE seen == kept_below(map)
            uniq == qvi_map_uniq(map)
<1>0. /\ DOMAIN uniq = {t \in DOMAIN map : map[t] \ seen[t] # {}}
      /\ \A t \in DOMAIN uniq : uniq[t] = {Least(map[t] \ seen[t])}
      /\ \A t \in DOMAIN map : t \in Nat /\ map[t] \subseteq Nat
  BY DEF qvi_map_uniq, NumberMap
<1>1. ASSUME NEW s \in DOMAIN map
      PROVE  seen[s] = UNION {uniq[t] : t \in {t \in DOMAIN uniq : t < s}}
  BY <1>0, SeenIsKept
<1>. HIDE DEF seen, uniq
<1>2. ASSUME NEW s \in DOMAIN uniq
      PROVE  \E d \in map[s] : uniq[s] = {d} /\ d \notin seen[s]
  <2>1. map[s] \ seen[s] \in SUBSET Nat /\ map[s] \ seen[s] # {}
    BY <1>0
  <2>2. Least(map[s] \ seen[s]) \in map[s] \ seen[s]
    BY <2>1, LeastFacts
  <2>. QED
    BY <1>0, <2>2
<1>3. ASSUME NEW s \in DOMAIN uniq, NEW t \in DOMAIN uniq, t < s PROVE uniq[s] \cap uniq[t] = {}
  BY <1>0, <1>1, <1>2, <1>3
<1>4. ASSUME NEW s \in DOMAIN uniq, NEW t \in DOMAIN uniq, s # t PROVE uniq[s] \cap uniq[t] = {}
  <2>1. s < t \/ t < s
    BY <1>0, <1>4
  <2>. QED
    BY <1>3, <2>1
<1>5. ASSUME NEW s \in DOMAIN map \ DOMAIN uniq, NEW d \in map[s]
      PROVE  \E t \in DOMAIN uniq : t < s /\ uniq[t] = {d}
  <2>1. d \in seen[s]
    BY <1>0
  <2>2. PICK t \in DOMAIN uniq : t < s /\ d \in uniq[t]
    BY <1>1, <2>1
  <2>. QED
    BY <1>2, <2>2
<1>. QED
  BY <1>0, <1>2, <1>4, <1>5 DEF uniq

-----------------------------------------------------------------------------
(* Consecutive chunks of which the first ones are one longer: both the     *)
(* packed mapping and the split of a bitmap are made of them.              *)

ChunkStart(base, extra, i) == i * base + (IF i < extra THEN i ELSE extra)

LEMMA ChunkFacts ==
    ASSUME NEW base \in Nat, NEW extra \in Nat
    PROVE  /\ \A i \in Nat : ChunkStart(base, extra, i) \in Nat
           /\ ChunkStart(base, extra, 0) = 0
           /\ \A i \in Nat : ChunkStart(base, extra, i + 1) =
                               ChunkStart(base, extra, i) + base + (IF i < extra THEN 1 ELSE 0)
           /\ \A i, j \in Nat : i <= j => ChunkStart(base, extra, i) <= ChunkStart(base, extra, j)
<1>1. ASSUME NEW i \in Nat PROVE i * base \in Nat /\ (i + 1) * base = i * base + base
  OBVIOUS
<1>2. ASSUME NEW i \in Nat
      PROVE  /\ ChunkStart(base, extra, i) \in Nat
             /\ ChunkStart(base, extra, i + 1) =
                    ChunkStart(base, extra, i) + base + (IF i < extra THEN 1 ELSE 0)
  <2>. DEFINE P == i * base
              Q == (i + 1) * base
  <2>1. P \in Nat /\ Q = P + base
    BY <1>1
  <2>. HIDE DEF P, Q
  <2>2. /\ ChunkStart(base, extra, i) = P + (IF i < extra THEN i ELSE extra)
        /\ ChunkStart(base, extra, i + 1) = Q + (IF i + 1 < extra THEN i + 1 ELSE extra)
    BY DEF P, Q, ChunkStart
  <2>. QED
    BY <2>1, <2>2
<1>3. ChunkStart(base, extra, 0) = 0
  <2>1. 0 * base = 0
    OBVIOUS
  <2>. QED
    BY <2>1 DEF ChunkStart
<1>4. ASSUME NEW i \in Nat, NEW j \in Nat, i <= j
      PROVE  ChunkStart(base, extra, i) <= ChunkStart(base, extra, j)
  <2>. DEFINE P == i * base
              Q == j * base
              D == (j - i) * base
  <2>1. P \in Nat /\ D \in Nat /\ Q = P + D
    <3>1. j - i \in Nat
      BY <1>4
    <3>. QED
      BY <3>1
  <2>. HIDE DEF P, Q, D
  <2>2. /\ ChunkStart(base, extra, i) = P + (IF i < extra THEN i ELSE extra)
        /\ ChunkStart(base, extra, j) = Q + (IF j < extra THEN j ELSE extra)
    BY DEF P, Q, ChunkStart
  <2>. QED
    BY <1>4, <2>1, <2>2
<1>. QED
  BY <1>2, <1>3, <1>4

(* n things make m chunks. *)
LEMMA LastChunk ==
    ASSUME NEW n \in Nat, NEW m \in Nat \ {0}
    PROVE  /\ n \div m \in Nat /\ n % m \in Nat
           /\ ChunkStart(n \div m, n % m, m) = n
<1>1. n = m * (n \div m) + (n % m) /\ n % m \in 0..(m - 1) /\ n \div m \in Nat
  OBVIOUS
<1>2. ~(m < n % m)
  BY <1>1
<1>. QED
  BY <1>1, <1>2 DEF ChunkStart

(* Every number lies in a chunk. *)
LEMMA InSomeChunk ==
    ASSUME NEW base \in Nat, NEW extra \in Nat, NEW k \in Nat, NEW s \in Nat,
           s < ChunkStart(base, extra, k)
    PROVE  \E i \in 0..(k - 1) :
              ChunkStart(base, extra, i) <= s /\ s < ChunkStart(base, extra, i + 1)
<1>. DEFINE P(i) == ChunkStart(base, extra, i)
            beyond == {i \in Nat : s < P(i + 1)}
<1>1. P(0) = 0 /\ \A i \in Nat : P(i) \in Nat
  BY ChunkFacts
<1>. HIDE DEF P
<1>2. k \in Nat \ {0} /\ s < P(k)
  BY <1>1 DEF P
<1>3. k - 1 \in beyond
  BY <1>2
<1>4. PICK i \in beyond : \A j \in beyond : i <= j
  BY <1>3, NatLeast
<1>5. i \in 0..(k - 1) /\ s < P(i + 1)
  BY <1>3, <1>4
<1>6. P(i) <= s
  <2>1. CASE i = 0
    BY <1>1, <2>1
  <2>2. CASE i # 0
    <3>1. i - 1 \in Nat /\ i - 1 \notin beyond
      BY <1>4, <1>5, <2>2
    <3>2. ~(s < P((i - 1) + 1)) /\ (i - 1) + 1 = i
      BY <3>1, <1>5
    <3>. QED
      BY <1>1, <1>5, <3>2
  <2>. QED
    BY <2>1, <2>2
<1>. QED
  BY <1>5, <1>6 DEF P

(* Chunks do not overlap. *)
LEMMA ChunksApart ==
    ASSUME NEW base \in Nat, NEW extra \in Nat, NEW i \in Nat, NEW j \in Nat, i < j,
           NEW s \in Nat, NEW t \in Nat,
           s < ChunkStart(base, extra, i + 1), ChunkStart(base, extra, j) <= t
    PROVE  s < t
<1>1. /\ ChunkStart(base, extra, i + 1) <= ChunkStart(base, extra, j)
      /\ ChunkStart(base, extra, i + 1) \in Nat /\ ChunkStart(base, extra, j) \in Nat
  BY ChunkFacts
<1>. QED
  BY <1>1

-----------------------------------------------------------------------------
(* The packed and the spread mapping of at least as many sources as        *)
(* destinations.                                                           *)

(* What the loop over the destinations computes. *)
LEMMA SourceIds ==
    ASSUME NEW base \in Nat, NEW extra \in Nat
    PROVE  \A d \in Nat : source_ids(base, extra)[d] = ChunkStart(base, extra, d)
<1>. DEFINE Step(g) == [e \in Nat |-> IF e = 0 THEN 0
                          ELSE g[e - 1] + base + (IF e - 1 < extra THEN 1 ELSE 0)]
            closed == [e \in Nat |-> ChunkStart(base, extra, e)]
            f == source_ids(base, extra)
<1>0. /\ \A i \in Nat : ChunkStart(base, extra, i) \in Nat
      /\ ChunkStart(base, extra, 0) = 0
      /\ \A i \in Nat : ChunkStart(base, extra, i + 1) =
                          ChunkStart(base, extra, i) + base + (IF i < extra THEN 1 ELSE 0)
  BY ChunkFacts
<1>1. closed = Step(closed)
  <2>1. ASSUME NEW e \in Nat PROVE closed[e] = Step(closed)[e]
    <3>1. CASE e = 0
      BY <1>0, <3>1
    <3>2. CASE e # 0
      <4>1. e - 1 \in Nat /\ (e - 1) + 1 = e
        BY <3>2
      <4>. QED
        BY <1>0, <3>2, <4>1
    <3>. QED
      BY <3>1, <3>2
  <2>. QED
    BY <2>1, Zenon
<1>2. f = CHOOSE g : g = Step(g)
  BY DEF source_ids
<1>3. f = Step(f)
  <2>. HIDE DEF f, Step, closed
  <2>. QED
    BY <1>1, <1>2, Zenon
<1>4. ASSUME NEW bad \in Nat, f[bad] # closed[bad] PROVE FALSE
  <2>. DEFINE Bad == {e \in Nat : f[e] # closed[e]}
  <2>1. PICK e \in Bad : \A x \in Bad : e <= x
    BY <1>4, NatLeast
  <2>2. e \in Nat /\ f[e] # closed[e]
    BY <2>1
  <2>3. e = 0 \/ f[e - 1] = closed[e - 1]
    <3>. HIDE DEF f, closed
    <3>. QED
      BY <2>1
  <2>4. f[e] = Step(f)[e] /\ closed[e] = Step(closed)[e]
    BY <1>1, <1>3, Zenon
  <2>5. Step(f)[e] = Step(closed)[e]
    <3>. HIDE DEF f, closed
    <3>. QED
      BY <2>2, <2>3
  <2>. QED
    BY <2>2, <2>4, <2>5, Zenon
<1>. QED
  BY <1>4

(* Every source gets destinations, if there are any. *)
LEMMA PackedMap ==
    ASSUME NEW n \in Nat, NEW m \in Nat, 0 < m, m <= n
    PROVE  /\ DOMAIN qvi_map_packed(n, m) = 0..(n - 1)
           /\ \A s \in 0..(n - 1) :
                 /\ qvi_map_packed(n, m)[s] # {}
                 /\ qvi_map_packed(n, m)[s] \subseteq 0..(m - 1)
<1>. DEFINE base == n \div m
            extra == n % m
            id == source_ids(base, extra)
            map == [s \in 0..(n - 1) |-> {d \in 0..(m - 1) : id[d] <= s /\ s < id[d + 1]}]
<1>1. qvi_map_packed(n, m) = map
  BY DEF qvi_map_packed
<1>2. base \in Nat /\ extra \in Nat /\ ChunkStart(base, extra, m) = n
  <2>1. m \in Nat \ {0}
    OBVIOUS
  <2>. QED
    BY <2>1, LastChunk, Zenon
<1>3. \A d \in Nat : id[d] = ChunkStart(base, extra, d)
  BY <1>2, SourceIds
<1>4. ASSUME NEW s \in 0..(n - 1)
      PROVE  \E d \in 0..(m - 1) : id[d] <= s /\ s < id[d + 1]
  <2>. HIDE DEF id, base, extra
  <2>1. s \in Nat /\ s < ChunkStart(base, extra, m)
    BY <1>2
  <2>2. PICK d \in 0..(m - 1) :
           ChunkStart(base, extra, d) <= s /\ s < ChunkStart(base, extra, d + 1)
    BY <1>2, <2>1, InSomeChunk
  <2>3. id[d] = ChunkStart(base, extra, d) /\ id[d + 1] = ChunkStart(base, extra, d + 1)
    BY <1>3
  <2>. QED
    BY <2>2, <2>3
<1>. HIDE DEF id
<1>. QED
  BY <1>1, <1>4

LEMMA SpreadMap ==
    ASSUME NEW n \in Nat, NEW m \in Nat, 0 < m, m <= n
    PROVE  /\ DOMAIN qvi_map_spread(n, m) = 0..(n - 1)
           /\ \A s \in 0..(n - 1) :
                 /\ qvi_map_spread(n, m)[s] # {}
                 /\ qvi_map_spread(n, m)[s] \subseteq 0..(m - 1)
<1>1. qvi_map_spread(n, m) = [s \in 0..(n - 1) |-> {s % m}]
  BY DEF qvi_map_spread
<1>2. \A s \in 0..(n - 1) : s % m \in 0..(m - 1)
  OBVIOUS
<1>. QED
  BY <1>1, <1>2

-----------------------------------------------------------------------------
(* The close mapping exists.  Take a largest set of rejections that are    *)
(* all justified: the slot is wanted most by a source it likes better, and *)
(* no stable matching has the rejected pair.  What each source then wants  *)
(* most is the matching.                                                   *)

(* The first slot in the list of source s that has not rejected it. *)
Wants(n, m, aff, R, s, p) ==
    /\ p \in Slots(n, m) /\ <<s, p>> \notin R
    /\ \A q \in Slots(n, m) : <<s, q>> \notin R => q = p \/ src_prefers(n, aff, s, p, q)

Justified(n, m, aff, R) ==
    /\ R \subseteq Sources(n) \X Slots(n, m)
    /\ \A s \in Sources(n), p \in Slots(n, m) : <<s, p>> \in R =>
          \E o \in Sources(n) : Wants(n, m, aff, R, o, p) /\ m_slot_prefers(aff, p, o, s)
    /\ \A U \in [Sources(n) -> Slots(n, m)] : IsStableMatching(n, m, aff, U) =>
          \A s \in Sources(n) : <<s, U[s]>> \notin R

LEMMA SrcPrefersAsymmetric ==
    ASSUME NEW n \in Nat, NEW m \in Nat, NEW aff, NEW s, NEW p \in Slots(n, m), NEW q \in Slots(n, m)
    PROVE  ~src_prefers(n, aff, s, p, p) /\ ~(src_prefers(n, aff, s, p, q) /\ src_prefers(n, aff, s, q, p))
<1>1. \A x, y, z \in Slots(n, m) :
        /\ ~src_prefers(n, aff, s, x, x)
        /\ src_prefers(n, aff, s, x, y) /\ src_prefers(n, aff, s, y, z)
              => src_prefers(n, aff, s, x, z)
  BY SrcPrefersOrder
<1>. QED
  BY <1>1

LEMMA SourcesFinite ==
    ASSUME NEW n \in Nat PROVE IsFiniteSet(Sources(n)) /\ Cardinality(Sources(n)) = n
<1>1. 0 \in Int /\ n - 1 \in Int
  OBVIOUS
<1>2. IsFiniteSet(0..(n - 1)) /\ Cardinality(0..(n - 1)) = IF 0 > n - 1 THEN 0 ELSE (n - 1) - 0 + 1
  BY <1>1, FS_Interval
<1>. QED
  BY <1>2 DEF Sources

(* A source wants at most one slot, and one if some slot has not rejected  *)
(* it.                                                                     *)
LEMMA WantsOne ==
    ASSUME NEW n \in Nat, NEW m \in Nat, NEW aff, NEW R, NEW s
    PROVE  /\ \A p, q \in Slots(n, m) :
                 Wants(n, m, aff, R, s, p) /\ Wants(n, m, aff, R, s, q) => p = q
           /\ (\E q \in Slots(n, m) : <<s, q>> \notin R) =>
                 \E p \in Slots(n, m) : Wants(n, m, aff, R, s, p)
<1>. DEFINE S == Slots(n, m)
            idx(p) == src_pref_index(n, m, aff, s, p)
<1>1. \A p, q \in S : ~(src_prefers(n, aff, s, p, q) /\ src_prefers(n, aff, s, q, p))
  BY SrcPrefersAsymmetric
<1>2. \A p, q \in S : Wants(n, m, aff, R, s, p) /\ Wants(n, m, aff, R, s, q) => p = q
  BY <1>1 DEF Wants
<1>3. ASSUME NEW q \in S, <<s, q>> \notin R PROVE \E p \in S : Wants(n, m, aff, R, s, p)
  <2>1. /\ \A x \in S : idx(x) \in Nat
        /\ \A x, y \in S : src_prefers(n, aff, s, x, y) <=> idx(x) < idx(y)
        /\ \A x, y \in S : idx(x) = idx(y) => x = y
    BY PrefIndex DEF IndexEnumeratesSlots
  <2>. HIDE DEF idx
  <2>. DEFINE left == {i \in Nat : \E x \in S : <<s, x>> \notin R /\ idx(x) = i}
  <2>2. left # {}
    BY <1>3, <2>1
  <2>3. PICK i \in left : \A j \in left : i <= j
    BY <2>2, NatLeast
  <2>4. PICK p \in S : <<s, p>> \notin R /\ idx(p) = i
    BY <2>3
  <2>5. ASSUME NEW x \in S, <<s, x>> \notin R PROVE x = p \/ src_prefers(n, aff, s, p, x)
    <3>1. idx(x) \in left /\ idx(x) \in Nat /\ idx(p) \in Nat
      BY <2>1, <2>5
    <3>2. idx(p) <= idx(x)
      BY <2>3, <2>4, <3>1
    <3>3. idx(p) = idx(x) \/ idx(p) < idx(x)
      BY <3>1, <3>2
    <3>. QED
      BY <2>1, <3>3
  <2>. QED
    BY <2>4, <2>5 DEF Wants
<1>. QED
  BY <1>2, <1>3

(* No source is rejected by all slots: each slot would be wanted by        *)
(* another one, and there are not so many.                                 *)
LEMMA EveryoneWants ==
    ASSUME NEW n \in Nat, NEW m \in Nat, 0 < m, NEW aff, NEW R,
           Justified(n, m, aff, R), NEW s \in Sources(n)
    PROVE  \E p \in Slots(n, m) : Wants(n, m, aff, R, s, p)
<1>. DEFINE S == Slots(n, m)
            Others == Sources(n) \ {s}
<1>. SUFFICES ASSUME \A q \in S : <<s, q>> \in R PROVE FALSE
  BY WantsOne
<1>1. \A p \in S : \E o \in Others : Wants(n, m, aff, R, o, p)
  BY DEF Justified, Wants
<1>. DEFINE h == [p \in S |-> CHOOSE o \in Others : Wants(n, m, aff, R, o, p)]
<1>2. \A p \in S : h[p] \in Others /\ Wants(n, m, aff, R, h[p], p)
  BY <1>1
<1>3. h \in Injection(S, Others)
  <2>1. h \in [S -> Others]
    BY <1>2
  <2>. HIDE DEF h
  <2>2. ASSUME NEW p \in S, NEW q \in S, h[p] = h[q] PROVE p = q
    BY <1>2, <2>2, WantsOne
  <2>. QED
    BY <2>1, <2>2 DEF Injection, IsInjective
<1>4. IsFiniteSet(Sources(n)) /\ Cardinality(Sources(n)) = n
  BY SourcesFinite
<1>5. IsFiniteSet(Others) /\ Cardinality(Others) = n - 1
  BY <1>4, FS_RemoveElement
<1>6. Cardinality(S) <= n - 1
  <2>. HIDE DEF h, S, Others
  <2>. QED
    BY <1>3, <1>5, FS_Injection
<1>7. Cardinality(S) = m * qvi_maxiperk(n, m)
  BY SlotsFinite
<1>8. qvi_maxiperk(n, m) \in Nat /\ n <= m * qvi_maxiperk(n, m)
  BY MaxIPerK
<1>9. m * qvi_maxiperk(n, m) \in Nat
  BY <1>8
<1>. HIDE DEF S
<1>. QED
  BY <1>6, <1>7, <1>8, <1>9

(* Of two sources that want the same slot, one can be rejected. *)
LEMMA OneMoreRejection ==
    ASSUME NEW n \in Nat, NEW m \in Nat, NEW aff, NEW R, Justified(n, m, aff, R),
           NEW a \in Sources(n), NEW b \in Sources(n), NEW p \in Slots(n, m),
           Wants(n, m, aff, R, a, p), Wants(n, m, aff, R, b, p), m_slot_prefers(aff, p, a, b)
    PROVE  Justified(n, m, aff, R \cup {<<b, p>>})
<1>. DEFINE Q == R \cup {<<b, p>>}
<1>0. a # b
  BY SlotPrefersOrder
<1>1. ASSUME NEW o \in Sources(n), o # b, NEW q \in Slots(n, m), Wants(n, m, aff, R, o, q)
      PROVE  Wants(n, m, aff, Q, o, q)
  BY <1>1 DEF Wants
<1>2. ASSUME NEW s \in Sources(n), NEW q \in Slots(n, m), <<s, q>> \in Q
      PROVE  \E o \in Sources(n) : Wants(n, m, aff, Q, o, q) /\ m_slot_prefers(aff, q, o, s)
  <2>1. CASE s = b /\ q = p
    BY <1>0, <1>1, <2>1
  <2>2. CASE <<s, q>> \in R
    <3>1. PICK o \in Sources(n) : Wants(n, m, aff, R, o, q) /\ m_slot_prefers(aff, q, o, s)
      BY <2>2 DEF Justified
    <3>2. CASE o # b
      BY <1>1, <3>1, <3>2
    <3>3. CASE o = b
      <4>1. q = p
        BY <3>1, <3>3, WantsOne
      <4>2. m_slot_prefers(aff, p, a, s)
        BY <3>1, <3>3, <4>1, SlotPrefersOrder
      <4>. QED
        BY <1>0, <1>1, <4>1, <4>2
    <3>. QED
      BY <3>2, <3>3
  <2>. QED
    BY <1>2, <2>1, <2>2
<1>3. ASSUME NEW U \in [Sources(n) -> Slots(n, m)], IsStableMatching(n, m, aff, U),
             NEW s \in Sources(n), <<s, U[s]>> \in Q
      PROVE  FALSE
  <2>1. <<s, U[s]>> \notin R /\ <<a, U[a]>> \notin R
    BY <1>3 DEF Justified
  <2>2. s = b /\ U[b] = p
    BY <1>3, <2>1
  <2>3. U[a] # p
    BY <1>0, <1>3, <2>2 DEF IsStableMatching
  <2>4. src_prefers(n, aff, a, p, U[a])
    BY <2>1, <2>3 DEF Wants
  <2>5. PICK o \in Sources(n) : U[o] = p /\ ~m_slot_prefers(aff, p, a, o)
    BY <1>3, <2>4 DEF IsStableMatching
  <2>6. o = b
    BY <1>3, <2>2, <2>5 DEF IsStableMatching
  <2>. QED
    BY <2>5, <2>6
<1>4. Q \subseteq Sources(n) \X Slots(n, m)
  BY DEF Justified
<1>. QED
  BY <1>2, <1>3, <1>4 DEF Justified

(* There is a stable matching that is best for every source: the close     *)
(* mapping is defined for all inputs with a destination.                   *)
THEOREM CloseMatchingExists ==
    ASSUME NEW n \in Nat, NEW m \in Nat, 0 < m, NEW aff
    PROVE  \E T \in [Sources(n) -> Slots(n, m)] : IsCloseMatching(n, m, aff, T)
<1>. DEFINE S == Slots(n, m)
            Pairs == Sources(n) \X S
            J == {R \in SUBSET Pairs : Justified(n, m, aff, R)}
            K == Cardinality(Pairs)
            sizes == {k \in 0..K : \E R \in J : Cardinality(R) = k}
<1>1. IsFiniteSet(Pairs) /\ K \in Nat
  <2>1. IsFiniteSet(Sources(n))
    BY SourcesFinite
  <2>2. IsFiniteSet(S)
    BY SlotsFinite
  <2>. QED
    BY <2>1, <2>2, FS_Product, FS_CardinalityType
<1>2. ASSUME NEW R \in J PROVE IsFiniteSet(R) /\ Cardinality(R) \in sizes
  <2>1. R \in SUBSET Pairs
    OBVIOUS
  <2>. HIDE DEF Pairs, J
  <2>2. IsFiniteSet(R) /\ Cardinality(R) <= K /\ Cardinality(R) \in Nat
    BY <1>1, <2>1, FS_Subset, FS_CardinalityType
  <2>. HIDE DEF K
  <2>. QED
    BY <1>1, <2>2
<1>3. {} \in J
  <2>1. Justified(n, m, aff, {})
    BY DEF Justified
  <2>. QED
    BY <2>1
<1>4. PICK k \in sizes : \A j \in sizes : j <= k
  <2>1. sizes \in SUBSET (0..K) /\ sizes # {}
    BY <1>2, <1>3
  <2>. HIDE DEF sizes, K
  <2>. QED
    BY <1>1, <2>1, NatGreatest
<1>5. PICK R \in J : Cardinality(R) = k
  BY <1>4
<1>6. Justified(n, m, aff, R) /\ R \subseteq Pairs
  BY <1>5
<1>7. ASSUME NEW Q \in J PROVE Cardinality(Q) <= Cardinality(R)
  BY <1>2, <1>4, <1>5
<1>. HIDE DEF J, K, sizes
<1>8. \A s \in Sources(n) : \E p \in S : Wants(n, m, aff, R, s, p)
  BY <1>6, EveryoneWants
<1>. DEFINE T == [s \in Sources(n) |-> CHOOSE p \in S : Wants(n, m, aff, R, s, p)]
<1>9. T \in [Sources(n) -> S] /\ \A s \in Sources(n) : T[s] \in S /\ Wants(n, m, aff, R, s, T[s])
  BY <1>8
<1>. HIDE DEF T
<1>10. ASSUME NEW a \in Sources(n), NEW b \in Sources(n), T[a] = T[b], a # b PROVE FALSE
  <2>1. ASSUME NEW x \in Sources(n), NEW y \in Sources(n), T[x] = T[y],
               m_slot_prefers(aff, T[x], x, y)
        PROVE  FALSE
    <3>. DEFINE Q == R \cup {<<y, T[x]>>}
    <3>1. Justified(n, m, aff, Q)
      BY <1>6, <1>9, <2>1, OneMoreRejection
    <3>2. Q \in J
      BY <1>6, <1>9, <3>1 DEF J
    <3>3. <<y, T[x]>> \notin R
      BY <1>9, <2>1 DEF Wants
    <3>4. IsFiniteSet(R) /\ Cardinality(R) \in Nat
      BY <1>2, FS_CardinalityType
    <3>5. Cardinality(Q) = Cardinality(R) + 1
      BY <3>3, <3>4, FS_AddElement
    <3>. QED
      BY <1>7, <3>2, <3>4, <3>5
  <2>2. m_slot_prefers(aff, T[a], a, b) \/ m_slot_prefers(aff, T[a], b, a)
    BY <1>10, SlotPrefersOrder
  <2>. QED
    BY <1>10, <2>1, <2>2
<1>11. ASSUME NEW s \in Sources(n), NEW p \in S, src_prefers(n, aff, s, p, T[s])
       PROVE  \E o \in Sources(n) : T[o] = p /\ ~m_slot_prefers(aff, p, s, o)
  <2>1. <<s, p>> \in R
    <3>1. Wants(n, m, aff, R, s, T[s]) /\ T[s] \in S
      BY <1>9
    <3>2. p # T[s] /\ ~src_prefers(n, aff, s, T[s], p)
      BY <1>11, <3>1, SrcPrefersAsymmetric
    <3>. QED
      BY <3>1, <3>2 DEF Wants
  <2>2. PICK o \in Sources(n) : Wants(n, m, aff, R, o, p) /\ m_slot_prefers(aff, p, o, s)
    BY <1>6, <2>1 DEF Justified
  <2>3. T[o] = p
    BY <1>9, <2>2, WantsOne
  <2>4. ~m_slot_prefers(aff, p, s, o)
    BY <2>2, SlotPrefersOrder
  <2>. QED
    BY <2>3, <2>4
<1>12. IsStableMatching(n, m, aff, T)
  BY <1>9, <1>10, <1>11 DEF IsStableMatching
<1>13. ASSUME NEW U \in [Sources(n) -> S], IsStableMatching(n, m, aff, U), NEW s \in Sources(n),
              src_prefers(n, aff, s, U[s], T[s])
       PROVE  FALSE
  <2>1. <<s, U[s]>> \notin R /\ U[s] \in S
    BY <1>6, <1>13 DEF Justified
  <2>2. Wants(n, m, aff, R, s, T[s]) /\ T[s] \in S
    BY <1>9
  <2>3. U[s] # T[s] /\ ~src_prefers(n, aff, s, T[s], U[s])
    BY <1>13, <2>1, <2>2, SrcPrefersAsymmetric
  <2>. QED
    BY <2>1, <2>2, <2>3 DEF Wants
<1>14. IsSourceOptimal(n, m, aff, T)
  BY <1>13 DEF IsSourceOptimal
<1>. QED
  BY <1>9, <1>12, <1>14 DEF IsCloseMatching

(* The close mapping comes from such a matching. *)
LEMMA CloseMapIs ==
    ASSUME NEW src, NEW dst, IsFiniteSet(DOMAIN src), IsFiniteSet(DOMAIN dst)
    PROVE  LET n == Cardinality(DOMAIN src)
               m == Cardinality(DOMAIN dst)
               aff == qvi_map_calc_affinities(src, dst)
               T == CloseMatching(n, m, aff)
           IN  /\ n \in Nat /\ m \in Nat
               /\ qvi_map_close(src, dst) = [s \in Sources(n) |-> {T[s][1]}]
               /\ 0 < m => T \in [Sources(n) -> Slots(n, m)] /\ IsStableMatching(n, m, aff, T)
<1>. DEFINE n == Cardinality(DOMAIN src)
            m == Cardinality(DOMAIN dst)
            aff == qvi_map_calc_affinities(src, dst)
            T == CloseMatching(n, m, aff)
            map == [s \in Sources(n) |-> {T[s][1]}]
<1>1. n \in Nat /\ m \in Nat
  BY FS_CardinalityType
<1>2. qvi_map_close(src, dst) = map
  <2>1. {CloseMatching(n, m, a) : a \in {aff}} = {T}
    OBVIOUS
  <2>2. {[s \in Sources(n) |-> {U[s][1]}] : U \in {T}} = {map}
    OBVIOUS
  <2>3. qvi_map_close(src, dst) = CHOOSE x \in {map} : TRUE
    <3>. HIDE DEF T
    <3>. QED
      BY <2>1, <2>2 DEF qvi_map_close
  <2>. HIDE DEF map
  <2>. QED
    BY <2>3
<1>3. ASSUME 0 < m PROVE T \in [Sources(n) -> Slots(n, m)] /\ IsStableMatching(n, m, aff, T)
  <2>. HIDE DEF n, m, aff
  <2>1. \E U \in [Sources(n) -> Slots(n, m)] : IsCloseMatching(n, m, aff, U)
    BY <1>1, <1>3, CloseMatchingExists
  <2>2. T \in [Sources(n) -> Slots(n, m)] /\ IsCloseMatching(n, m, aff, T)
    BY <2>1 DEF CloseMatching
  <2>. QED
    BY <2>2 DEF IsCloseMatching
<1>. QED
  BY <1>1, <1>2, <1>3

(* The close mapping gives every source one destination, if there are any, *)
(* and sources different ones if there are enough.  A source is away from  *)
(* the destinations it shares something with only if these all have other  *)
(* sources.                                                                *)
Meets(S, T) == S \cap T # {}

StaysClose(map, src, dst, I, J) ==
    \A s \in I : \A d, e \in J :
        map[s] = {e} /\ ~Meets(src[s], dst[e]) /\ Meets(src[s], dst[d]) =>
            \E o \in I : map[o] = {d}

IsCloseMap(map, src, dst, I, J) ==
    /\ DOMAIN map = I /\ \A s \in I : \E d \in J : map[s] = {d}
    /\ StaysClose(map, src, dst, I, J)

LEMMA CloseMap ==
    ASSUME NEW n \in Nat, NEW m \in Nat, 0 < m, NEW src, NEW dst,
           DOMAIN src = Sources(n), DOMAIN dst = Destinations(m)
    PROVE  LET map == qvi_map_close(src, dst)
           IN  /\ IsCloseMap(map, src, dst, Sources(n), Destinations(m))
               /\ n <= m => \A s, t \in Sources(n) : map[s] = map[t] => s = t
<1>. DEFINE aff == qvi_map_calc_affinities(src, dst)
            T == CloseMatching(n, m, aff)
            map == qvi_map_close(src, dst)
<1>1. /\ IsFiniteSet(DOMAIN src) /\ Cardinality(DOMAIN src) = n
      /\ IsFiniteSet(DOMAIN dst) /\ Cardinality(DOMAIN dst) = m
  BY SourcesFinite DEF Sources, Destinations
<1>2. /\ map = [s \in Sources(n) |-> {T[s][1]}]
      /\ T \in [Sources(n) -> Slots(n, m)] /\ IsStableMatching(n, m, aff, T)
  BY <1>1, CloseMapIs
<1>. HIDE DEF T, map
<1>3. ASSUME NEW s \in Sources(n)
      PROVE  /\ T[s] \in Slots(n, m) /\ T[s][1] \in Destinations(m)
             /\ T[s] = <<T[s][1], T[s][2]>> /\ T[s][2] \in 0..(qvi_maxiperk(n, m) - 1)
             /\ map[s] = {T[s][1]}
  <2>1. T[s] \in Slots(n, m) /\ map[s] = {T[s][1]}
    BY <1>2
  <2>2. T[s][1] \in Destinations(m) /\ T[s] = <<T[s][1], T[s][2]>>
        /\ T[s][2] \in 0..(qvi_maxiperk(n, m) - 1)
    BY <2>1 DEF Slots
  <2>. QED
    BY <2>1, <2>2
<1>4. ASSUME n <= m, NEW s \in Sources(n), NEW t \in Sources(n), map[s] = map[t] PROVE s = t
  <2>1. qvi_maxiperk(n, m) <= 1 /\ qvi_maxiperk(n, m) \in Nat
    <3>. DEFINE q == (n + m - 1) \div m
    <3>1. n + m - 1 = m * q + ((n + m - 1) % m) /\ (n + m - 1) % m \in 0..(m - 1) /\ q \in Nat
      OBVIOUS
    <3>2. m * q \in Nat /\ m * q <= 2 * m - 1
      BY <1>4, <3>1
    <3>3. ASSUME q >= 2 PROVE FALSE
      <4>1. m * q = 2 * m + m * (q - 2) /\ m * (q - 2) \in Nat
        BY <3>1, <3>3
      <4>. HIDE DEF q
      <4>. QED
        BY <3>2, <4>1
    <3>. HIDE DEF q
    <3>4. q <= 1 /\ q \in Nat
      BY <3>1, <3>3
    <3>. QED
      BY <3>4 DEF qvi_maxiperk, q
  <2>2. T[s][2] = T[t][2]
    BY <1>3, <2>1
  <2>3. T[s] = T[t]
    BY <1>3, <1>4, <2>2
  <2>. QED
    BY <1>2, <2>3 DEF IsStableMatching
<1>5. ASSUME NEW s \in Sources(n), NEW d \in Destinations(m), NEW e \in Destinations(m),
             map[s] = {e}, src[s] \cap dst[e] = {}, src[s] \cap dst[d] # {}
      PROVE  \E o \in Sources(n) : map[o] = {d}
  <2>. DEFINE p == <<d, 0>>
  <2>1. T[s][1] = e
    BY <1>3, <1>5
  <2>2. p \in Slots(n, m)
    <3>1. 0 < n
      BY DEF Sources
    <3>2. qvi_maxiperk(n, m) \in Nat /\ n <= m * qvi_maxiperk(n, m)
      BY MaxIPerK
    <3>3. qvi_maxiperk(n, m) # 0
      <4>1. qvi_maxiperk(n, m) = 0 => m * qvi_maxiperk(n, m) = 0
        OBVIOUS
      <4>. QED
        BY <3>1, <3>2, <4>1
    <3>4. 0 \in 0..(qvi_maxiperk(n, m) - 1)
      BY <3>2, <3>3
    <3>. QED
      BY <3>4 DEF Slots
  <2>3. s \in DOMAIN aff /\ d \in aff[s] /\ e \notin aff[s]
    BY <1>5 DEF qvi_map_calc_affinities
  <2>. HIDE DEF aff
  <2>4. has_affinity(aff, s, p[1]) /\ ~has_affinity(aff, s, T[s][1])
    BY <2>1, <2>3 DEF has_affinity
  <2>5. src_prefers(n, aff, s, p, T[s])
    BY <2>4 DEF src_prefers
  <2>6. PICK o \in Sources(n) : T[o] = p
    BY <1>2, <2>2, <2>5 DEF IsStableMatching
  <2>. QED
    BY <1>3, <2>6
<1>6. DOMAIN map = Sources(n)
  BY <1>2
<1>. QED
  BY <1>3, <1>4, <1>5, <1>6 DEF map, IsCloseMap, StaysClose, Meets
=============================================================================
