---------------------------- MODULE HwSplitProofs ----------------------------
(***************************************************************************)
(* What the root of a split computes, for every node, every pool and every *)
(* number of pieces and of tasks.                                          *)
(***************************************************************************)
EXTENDS HwSplit, MappingProofs

(* Ascending lists a finite set of numbers without repetition. *)
LEMMA AscendingLists ==
    ASSUME NEW S \in SUBSET Int, IsFiniteSet(S)
    PROVE  /\ Cardinality(S) \in Nat
           /\ Ascending(S) \in [0..(Cardinality(S) - 1) -> S]
           /\ \A x \in S : \E i \in 0..(Cardinality(S) - 1) : Ascending(S)[i] = x
           /\ \A i, j \in 0..(Cardinality(S) - 1) : Ascending(S)[i] = Ascending(S)[j] => i = j
<1>. DEFINE I == 0..(Cardinality(S) - 1)
<1>1. /\ Cardinality(S) \in Nat
      /\ \A x \in S : Rank(S, x) \in I
      /\ \A x, y \in S : x < y <=> Rank(S, x) < Rank(S, y)
      /\ \A i \in I : \E x \in S : Rank(S, x) = i
  BY RankEnumerates
<1>2. Ascending(S) = [i \in I |-> CHOOSE x \in S : Rank(S, x) = i]
  BY DEF Ascending, Rank
<1>. HIDE DEF I
<1>3. ASSUME NEW i \in I PROVE Ascending(S)[i] \in S /\ Rank(S, Ascending(S)[i]) = i
  BY <1>1, <1>2
<1>4. ASSUME NEW x \in S PROVE \E i \in I : Ascending(S)[i] = x
  <2>1. PICK i \in I : i = Rank(S, x)
    BY <1>1
  <2>2. Ascending(S)[i] \in S /\ Rank(S, Ascending(S)[i]) = i
    BY <1>3
  <2>. DEFINE y == Ascending(S)[i]
  <2>3. y \in S /\ Rank(S, y) = i /\ Rank(S, x) = i /\ i \in Int
    BY <1>1, <2>1, <2>2 DEF I
  <2>. HIDE DEF y
  <2>4. x < y <=> Rank(S, x) < Rank(S, y)
    BY <1>1, <2>3
  <2>5. y < x <=> Rank(S, y) < Rank(S, x)
    BY <1>1, <2>3
  <2>6. x \in Int /\ y \in Int
    BY <2>3
  <2>7. x = y
    BY <2>3, <2>4, <2>5, <2>6
  <2>. QED
    BY <2>7 DEF y
<1>5. DOMAIN Ascending(S) = I /\ Ascending(S) \in [I -> S]
  BY <1>2, <1>3
<1>. QED
  BY <1>1, <1>3, <1>4, <1>5 DEF I

-----------------------------------------------------------------------------
(* bitmap_split *)

(* The positions of a piece in the bitmap. *)
PieceOf(bitmap, npieces, i) ==
    LET start(j) == ChunkStart(Cardinality(bitmap) \div npieces, Cardinality(bitmap) % npieces, j)
    IN  {pu \in bitmap : start(i) <= Rank(bitmap, pu) /\ Rank(bitmap, pu) < start(i + 1)}

LEMMA SplitPieces ==
    ASSUME NEW bitmap \in SUBSET Nat, IsFiniteSet(bitmap), NEW npieces \in Nat
    PROVE  /\ Cardinality(bitmap) \in Nat
           /\ npieces = 0 \/ npieces > Cardinality(bitmap) =>
                 DOMAIN bitmap_split(bitmap, npieces) = {}
           /\ 0 < npieces /\ npieces <= Cardinality(bitmap) =>
                 bitmap_split(bitmap, npieces) =
                     [i \in 0..(npieces - 1) |-> PieceOf(bitmap, npieces, i)]
<1>. DEFINE npus == Cardinality(bitmap)
            base == npus \div npieces
            rem == npus % npieces
            pos(i) == i * base + (IF i < rem THEN i ELSE rem)
            size(i) == base + (IF i < rem THEN 1 ELSE 0)
<1>1. npus \in Nat
  BY FS_CardinalityType
<1>2. ASSUME npieces = 0 \/ npieces > npus PROVE DOMAIN bitmap_split(bitmap, npieces) = {}
  BY <1>2 DEF bitmap_split
<1>3. ASSUME 0 < npieces, npieces <= npus
      PROVE  bitmap_split(bitmap, npieces) =
                 [i \in 0..(npieces - 1) |-> PieceOf(bitmap, npieces, i)]
  <2>1. bitmap_split(bitmap, npieces) =
            [i \in 0..(npieces - 1) |-> m_split_cpuset_by_range(bitmap, pos(i), size(i))]
    <3>1. ~(npieces = 0 \/ npus = 0 \/ npieces > npus)
      BY <1>1, <1>3
    <3>. QED
      BY <3>1, Zenon DEF bitmap_split
  <2>2. ASSUME NEW i \in 0..(npieces - 1)
        PROVE  m_split_cpuset_by_range(bitmap, pos(i), size(i)) = PieceOf(bitmap, npieces, i)
    <3>1. base \in Nat /\ rem \in Nat
      <4>1. npieces \in Nat \ {0}
        BY <1>3
      <4>. HIDE DEF npus
      <4>. QED
        BY <1>1, <4>1, LastChunk, Zenon
    <3>. HIDE DEF base, rem
    <3>2. pos(i) = ChunkStart(base, rem, i)
      BY DEF ChunkStart
    <3>3. pos(i) + size(i) = ChunkStart(base, rem, i + 1)
      <4>1. ChunkStart(base, rem, i) \in Nat
            /\ ChunkStart(base, rem, i + 1) = ChunkStart(base, rem, i) + base + (IF i < rem THEN 1 ELSE 0)
        BY <3>1, ChunkFacts
      <4>. HIDE DEF pos
      <4>. QED
        BY <3>1, <3>2, <4>1
    <3>4. m_split_cpuset_by_range(bitmap, pos(i), size(i)) =
             {pu \in bitmap : pos(i) <= Rank(bitmap, pu) /\ Rank(bitmap, pu) < pos(i) + size(i)}
      BY DEF m_split_cpuset_by_range, Rank
    <3>5. PieceOf(bitmap, npieces, i) =
             {pu \in bitmap : ChunkStart(base, rem, i) <= Rank(bitmap, pu)
                              /\ Rank(bitmap, pu) < ChunkStart(base, rem, i + 1)}
      BY DEF PieceOf, base, rem
    <3>. HIDE DEF pos, size
    <3>. QED
      BY <3>2, <3>3, <3>4, <3>5
  <2>. HIDE DEF pos, size
  <2>. QED
    BY <2>1, <2>2
<1>. QED
  BY <1>1, <1>2, <1>3

(* The pieces: runs of processing units in order, none of them empty, of   *)
(* the base size or one more, and together the whole bitmap.               *)
LEMMA PieceFacts ==
    ASSUME NEW bitmap \in SUBSET Nat, IsFiniteSet(bitmap), NEW npieces \in Nat,
           0 < npieces, npieces <= Cardinality(bitmap)
    PROVE  LET size == Cardinality(bitmap) \div npieces
               piece(i) == PieceOf(bitmap, npieces, i)
           IN  /\ \A i \in 0..(npieces - 1) :
                     /\ piece(i) \subseteq bitmap /\ piece(i) # {}
                     /\ Cardinality(piece(i)) \in size..(size + 1)
               /\ \A i, j \in 0..(npieces - 1) : i < j =>
                     \A p \in piece(i), q \in piece(j) : p < q
               /\ \A p \in bitmap : \E i \in 0..(npieces - 1) : p \in piece(i)
<1>. DEFINE npus == Cardinality(bitmap)
            base == npus \div npieces
            rem == npus % npieces
            start(i) == ChunkStart(base, rem, i)
            piece(i) == PieceOf(bitmap, npieces, i)
            I == 0..(npieces - 1)
<1>1. /\ npus \in Nat
      /\ \A x \in bitmap : Rank(bitmap, x) \in 0..(npus - 1)
      /\ \A x, y \in bitmap : x < y <=> Rank(bitmap, x) < Rank(bitmap, y)
      /\ \A i \in 0..(npus - 1) : \E x \in bitmap : Rank(bitmap, x) = i
  <2>1. bitmap \in SUBSET Int
    OBVIOUS
  <2>. QED
    BY <2>1, RankEnumerates
<1>2. base \in Nat /\ rem \in Nat /\ start(npieces) = npus
  <2>1. npieces \in Nat \ {0}
    OBVIOUS
  <2>. HIDE DEF npus
  <2>. QED
    BY <1>1, <2>1, LastChunk, Zenon
<1>3. 0 < base
  <2>. HIDE DEF npus
  <2>1. npieces \in Nat \ {0} /\ npieces <= npus
    BY DEF npus
  <2>2. npus = npieces * base + rem /\ rem < npieces
    BY <1>1, <2>1
  <2>3. base = 0 => npieces * base = 0
    BY <2>1
  <2>. HIDE DEF base, rem
  <2>. QED
    BY <1>1, <1>2, <2>1, <2>2, <2>3
<1>4. /\ \A i \in Nat : start(i) \in Nat /\ start(i + 1) = start(i) + base + (IF i < rem THEN 1 ELSE 0)
      /\ \A i, j \in Nat : i <= j => start(i) <= start(j)
  <2>. HIDE DEF npus, base, rem
  <2>1. base \in Nat /\ rem \in Nat
    BY <1>2
  <2>2. \A i \in Nat : start(i) \in Nat
    BY <2>1, ChunkFacts
  <2>3. \A i \in Nat : start(i + 1) = start(i) + base + (IF i < rem THEN 1 ELSE 0)
    BY <2>1, ChunkFacts, Zenon
  <2>4. \A i, j \in Nat : i <= j => start(i) <= start(j)
    BY <2>1, ChunkFacts
  <2>. QED
    BY <2>2, <2>3, <2>4
<1>5. \A i \in I : piece(i) =
         {pu \in bitmap : start(i) <= Rank(bitmap, pu) /\ Rank(bitmap, pu) < start(i + 1)}
  BY DEF PieceOf
<1>. HIDE DEF base, rem, start, piece, npus
<1>6. ASSUME NEW i \in I
      PROVE  /\ piece(i) \subseteq bitmap /\ piece(i) # {}
             /\ Cardinality(piece(i)) \in base..(base + 1)
  <2>1. /\ start(i) \in Nat /\ start(i + 1) \in Nat /\ start(i) < start(i + 1)
        /\ start(i + 1) - start(i) \in base..(base + 1) /\ start(i + 1) <= npus
    <3>1. i \in Nat /\ i + 1 \in Nat /\ i + 1 <= npieces
      OBVIOUS
    <3>2. start(i) \in Nat /\ start(i + 1) = start(i) + base + (IF i < rem THEN 1 ELSE 0)
      BY <1>4, <3>1
    <3>3. start(i + 1) <= start(npieces)
      BY <1>4, <3>1
    <3>. QED
      BY <1>2, <1>3, <3>2, <3>3
  <2>. DEFINE J == start(i)..(start(i + 1) - 1)
              f == [p \in piece(i) |-> Rank(bitmap, p)]
  <2>2. J \subseteq 0..(npus - 1)
    BY <1>1, <2>1
  <2>3. \A j \in J : \E p \in piece(i) : Rank(bitmap, p) = j
    <3>1. ASSUME NEW j \in J PROVE \E p \in piece(i) : Rank(bitmap, p) = j
      <4>1. PICK p \in bitmap : Rank(bitmap, p) = j
        BY <1>1, <2>2
      <4>2. start(i) <= j /\ j < start(i + 1)
        BY <2>1
      <4>. QED
        BY <1>5, <4>1, <4>2
    <3>. QED
      BY <3>1
  <2>4. f \in Bijection(piece(i), J)
    <3>1. ASSUME NEW p \in piece(i) PROVE Rank(bitmap, p) \in J /\ p \in bitmap
      <4>1. p \in bitmap /\ start(i) <= Rank(bitmap, p) /\ Rank(bitmap, p) < start(i + 1)
        BY <1>5
      <4>2. Rank(bitmap, p) \in Nat
        BY <1>1, <4>1
      <4>. QED
        BY <2>1, <4>1, <4>2
    <3>2. ASSUME NEW p \in piece(i), NEW q \in piece(i), f[p] = f[q] PROVE p = q
      <4>1. p \in bitmap /\ q \in bitmap /\ Rank(bitmap, p) = Rank(bitmap, q) /\ Rank(bitmap, p) \in Int
        BY <3>1, <3>2
      <4>2. ~(p < q) /\ ~(q < p) /\ p \in Int /\ q \in Int
        BY <1>1, <4>1
      <4>. QED
        BY <4>2
    <3>3. f \in [piece(i) -> J]
      BY <3>1
    <3>. QED
      BY <2>3, <3>2, <3>3 DEF Bijection, Injection, IsInjective, Surjection
  <2>5. Cardinality(J) = start(i + 1) - start(i) /\ IsFiniteSet(J)
    <3>1. start(i) \in Int /\ start(i + 1) - 1 \in Int /\ ~(start(i) > start(i + 1) - 1)
      BY <2>1
    <3>2. IsFiniteSet(J) /\ Cardinality(J) =
             IF start(i) > start(i + 1) - 1 THEN 0 ELSE (start(i + 1) - 1) - start(i) + 1
      BY <3>1, FS_Interval
    <3>. HIDE DEF J
    <3>. QED
      BY <2>1, <3>1, <3>2
  <2>6. Cardinality(piece(i)) = Cardinality(J)
    <3>1. piece(i) \in SUBSET bitmap
      BY <1>5
    <3>2. IsFiniteSet(piece(i))
      BY <3>1, FS_Subset
    <3>3. ExistsBijection(piece(i), J)
      <4>. HIDE DEF f, J
      <4>. QED
        BY <2>4 DEF ExistsBijection
    <3>. HIDE DEF J
    <3>. QED
      BY <3>2, <3>3, FS_Bijection
  <2>7. start(i) \in J
    BY <2>1
  <2>8. piece(i) # {} /\ piece(i) \subseteq bitmap
    BY <1>5, <2>3, <2>7
  <2>. HIDE DEF J
  <2>. QED
    BY <2>1, <2>5, <2>6, <2>8
<1>7. ASSUME NEW i \in I, NEW j \in I, i < j, NEW p \in piece(i), NEW q \in piece(j) PROVE p < q
  <2>1. /\ p \in bitmap /\ q \in bitmap
        /\ Rank(bitmap, p) < start(i + 1) /\ start(j) <= Rank(bitmap, q)
    BY <1>5
  <2>2. start(i + 1) \in Nat /\ start(j) \in Nat /\ start(i + 1) <= start(j)
    BY <1>4, <1>7
  <2>3. Rank(bitmap, p) \in Nat /\ Rank(bitmap, q) \in Nat
    BY <1>1, <2>1
  <2>4. Rank(bitmap, p) < Rank(bitmap, q)
    BY <2>1, <2>2, <2>3
  <2>. QED
    BY <1>1, <2>1, <2>4
<1>8. ASSUME NEW p \in bitmap PROVE \E i \in I : p \in piece(i)
  <2>1. Rank(bitmap, p) \in Nat /\ Rank(bitmap, p) < start(npieces)
    BY <1>1, <1>2
  <2>2. PICK i \in I : start(i) <= Rank(bitmap, p) /\ Rank(bitmap, p) < start(i + 1)
    BY <1>2, <2>1, InSomeChunk DEF start
  <2>. QED
    BY <1>5, <2>2
<1>. QED
  BY <1>6, <1>7, <1>8 DEF piece, base, npus

-----------------------------------------------------------------------------
(* m_split *)

(* The pieces that a group of n tasks splits its hardware into: at most n  *)
(* of them, not empty, disjoint, and part of what is split.                *)
PiecesFit(cpusets, primary, n, k) ==
    /\ k \in 0..n /\ DOMAIN cpusets = 0..(k - 1) /\ Cardinality(DOMAIN cpusets) = k
    /\ \A i \in 0..(k - 1) : cpusets[i] # {} /\ cpusets[i] \subseteq primary
    /\ \A i, j \in 0..(k - 1) : i # j => cpusets[i] \cap cpusets[j] = {}

LEMMA SplitCpusets ==
    ASSUME NEW base_hwpool \in HwPools, NEW type, NEW split_size \in Nat, NEW n \in Nat
    PROVE  LET primary == m_primary_cpuset_for_split(base_hwpool, type)
           IN  /\ primary \subseteq PUs
               /\ \E k \in 0..n : PiecesFit(m_split_cpuset(base_hwpool, type, split_size, n),
                                            primary, n, k)
<1>. DEFINE primary == m_primary_cpuset_for_split(base_hwpool, type)
            real == IF split_size < n THEN split_size ELSE n
            cpusets == bitmap_split(primary, real)
<1>1. primary \subseteq PUs
  BY HardwareAssumption DEF m_primary_cpuset_for_split, HwPools
<1>2. primary \in SUBSET Nat /\ IsFiniteSet(primary)
  BY <1>1, HardwareAssumption, FS_Subset
<1>3. m_split_cpuset(base_hwpool, type, split_size, n) = cpusets
  BY DEF m_split_cpuset
<1>4. real \in Nat /\ real <= n
  OBVIOUS
<1>. HIDE DEF primary, real
<1>5. Cardinality(primary) \in Nat
  BY <1>2, FS_CardinalityType
<1>6. CASE real = 0 \/ real > Cardinality(primary)
  <2>1. DOMAIN cpusets = {}
    BY <1>2, <1>4, <1>6, SplitPieces
  <2>2. 0..(0 - 1) = {} /\ 0 \in 0..n
    OBVIOUS
  <2>3. Cardinality({}) = 0
    BY FS_EmptySet
  <2>4. PiecesFit(cpusets, primary, n, 0)
    <3>. HIDE DEF cpusets
    <3>. QED
      BY <2>1, <2>2, <2>3 DEF PiecesFit
  <2>. QED
    BY <1>1, <1>3, <2>2, <2>4 DEF primary
<1>7. CASE 0 < real /\ real <= Cardinality(primary)
  <2>. DEFINE piece(i) == PieceOf(primary, real, i)
  <2>1. cpusets = [i \in 0..(real - 1) |-> piece(i)]
    BY <1>2, <1>4, <1>7, SplitPieces
  <2>2. /\ \A i \in 0..(real - 1) : piece(i) \subseteq primary /\ piece(i) # {}
        /\ \A i, j \in 0..(real - 1) : i < j => \A p \in piece(i), q \in piece(j) : p < q
    BY <1>2, <1>4, <1>7, PieceFacts
  <2>. HIDE DEF cpusets, piece
  <2>3. ASSUME NEW i \in 0..(real - 1), NEW j \in 0..(real - 1), i # j
        PROVE  piece(i) \cap piece(j) = {}
    <3>1. ASSUME NEW x \in piece(i), x \in piece(j) PROVE FALSE
      <4>1. x \in Nat
        BY <1>2, <2>2
      <4>2. i < j \/ j < i
        BY <2>3
      <4>3. x < x
        BY <2>2, <3>1, <4>2
      <4>. QED
        BY <4>1, <4>3
    <3>. QED
      BY <3>1
  <2>4. Cardinality(0..(real - 1)) = real
    BY <1>4, SourcesFinite DEF Sources
  <2>5. PiecesFit(cpusets, primary, n, real)
    <3>1. real \in 0..n
      BY <1>4
    <3>2. DOMAIN cpusets = 0..(real - 1) /\ Cardinality(DOMAIN cpusets) = real
      BY <2>1, <2>4
    <3>3. \A i \in 0..(real - 1) : cpusets[i] = piece(i)
      BY <2>1
    <3>. QED
      BY <2>2, <2>3, <3>1, <3>2, <3>3 DEF PiecesFit
  <2>. QED
    BY <1>1, <1>3, <1>4, <2>5 DEF primary
<1>. QED
  BY <1>4, <1>5, <1>6, <1>7

(* A mapping of n tasks to k pieces. *)
MapFits(map, n, k) ==
    /\ DOMAIN map = 0..(n - 1)
    /\ \A t \in 0..(n - 1) : map[t] # {} /\ map[t] \subseteq 0..(k - 1)

(* Either the split fails early, or every task is mapped to pieces; only   *)
(* the packed mapping can do without any pieces, and maps nothing then.    *)
LEMMA MappingDecided ==
    ASSUME NEW n \in Nat \ {0}, NEW k \in 0..n, NEW colors \in [0..(n - 1) -> Int],
           NEW affinities, DOMAIN affinities = 0..(n - 1), NEW cpusets, DOMAIN cpusets = 0..(k - 1)
    PROVE  LET decision == m_determine_mapping(colors, k)
               hres_map == map_fn(decision, affinities, cpusets, n)
           IN  \/ decision.fn = "none" /\ failures(decision, k, n) \in
                      {{Returns("ERR_SPLIT")}, {Returns("ERR_INVLD_ARG")}}
               \/ failures(decision, k, n) # {} /\ failures(decision, k, n) \subseteq {Throws, Crashes}
               \/ failures(decision, k, n) = {} /\ k > 0 /\ MapFits(hres_map, n, k)
               \/ /\ failures(decision, k, n) = {} /\ k = 0 /\ DOMAIN hres_map = {}
                  /\ \A i \in 0..(n - 1) : colors[i] < 0
<1>. DEFINE decision == m_determine_mapping(colors, k)
            hres_map == map_fn(decision, affinities, cpusets, n)
            S == {colors[i] : i \in DOMAIN colors}
            automatic == {<<QV_SCOPE_SPLIT_CLOSE, "close">>,
                          <<QV_SCOPE_SPLIT_PACKED, "packed">>,
                          <<QV_SCOPE_SPLIT_SPREAD, "spread">>}
<1>00. 0 \in 0..(n - 1) /\ n \in Nat /\ k \in Nat /\ k <= n
  OBVIOUS
<1>0. Cardinality(DOMAIN cpusets) = k
  BY SourcesFinite DEF Sources
<1>1. \/ decision \in {Refusal("ERR_SPLIT"), Refusal("ERR_INVLD_ARG")}
      \/ \E c \in [0..(n - 1) -> Int] : decision = Decision("colors", c)
      \/ /\ \E fn \in {"close", "packed", "spread"} : decision = Decision(fn, colors)
         /\ \A i \in 0..(n - 1) : colors[i] < 0
  <2>1. CASE \A c \in S : c >= 0
    <3>1. qvi_map_clamp_colors(colors) \in [0..(n - 1) -> Int]
      <4>1. IsFiniteSet(S)
        <5>1. IsFiniteSet(0..(n - 1))
          BY SourcesFinite DEF Sources
        <5>2. colors \in Surjection(0..(n - 1), S)
          BY DEF Surjection
        <5>. HIDE DEF S
        <5>. QED
          BY <5>1, <5>2, FS_Surjection
      <4>2. ASSUME NEW i \in 0..(n - 1) PROVE Cardinality({c \in S : c < colors[i]}) \in Int
        <5>1. {c \in S : c < colors[i]} \in SUBSET S
          OBVIOUS
        <5>. HIDE DEF S
        <5>. QED
          BY <4>1, <5>1, FS_Subset, FS_CardinalityType
      <4>. QED
        BY <4>2 DEF qvi_map_clamp_colors
    <3>2. \/ decision = Refusal("ERR_SPLIT")
          \/ decision = Decision("colors", colors)
          \/ decision = Decision("colors", qvi_map_clamp_colors(colors))
      <4>1. colors[0] \in S /\ S \subseteq Int
        BY <1>00
      <4>2. ~(\A c \in S : c < 0)
        <5>. HIDE DEF S
        <5>. QED
          BY <2>1, <4>1
      <4>3. decision = IF Cardinality(S) > k THEN Refusal("ERR_SPLIT")
                       ELSE Decision("colors",
                                IF \A c \in S : 0 <= c /\ c < k THEN colors
                                ELSE qvi_map_clamp_colors(colors))
        BY <2>1, <4>2, Zenon DEF m_determine_mapping
      <4>. HIDE DEF decision, S
      <4>. QED
        BY <4>3
    <3>. HIDE DEF decision
    <3>. QED
      BY <3>1, <3>2
  <2>2. CASE ~(\A c \in S : c >= 0) /\ (\A c \in S : c < 0)
    <3>1. \/ decision = Refusal("ERR_INVLD_ARG")
          \/ /\ \E a \in automatic : S = {a[1]}
             /\ decision = Decision((CHOOSE a \in automatic : S = {a[1]})[2], colors)
      BY <2>2, Zenon DEF m_determine_mapping
    <3>2. ASSUME \E a \in automatic : S = {a[1]}
          PROVE  (CHOOSE a \in automatic : S = {a[1]})[2] \in {"close", "packed", "spread"}
      <4>. DEFINE chosen == CHOOSE a \in automatic : S = {a[1]}
      <4>1. chosen \in automatic
        <5>. HIDE DEF automatic, S
        <5>. QED
          BY <3>2
      <4>. HIDE DEF chosen
      <4>2. chosen[2] \in {"close", "packed", "spread"}
        BY <4>1
      <4>. QED
        BY <4>2 DEF chosen
    <3>3. \A i \in 0..(n - 1) : colors[i] < 0
      BY <2>2
    <3>. HIDE DEF decision, automatic, S
    <3>. QED
      BY <3>1, <3>2, <3>3
  <2>3. CASE ~(\A c \in S : c >= 0) /\ ~(\A c \in S : c < 0)
    <3>1. decision = Decision("colors", colors)
      BY <2>3, Zenon DEF m_determine_mapping
    <3>. HIDE DEF decision
    <3>. QED
      BY <3>1
  <2>. QED
    BY <2>1, <2>2, <2>3
<1>. HIDE DEF decision
<1>2. CASE decision \in {Refusal("ERR_SPLIT"), Refusal("ERR_INVLD_ARG")}
  <2>1. decision.fn = "none" /\ decision.rc \in {"ERR_SPLIT", "ERR_INVLD_ARG"}
    BY <1>2 DEF Refusal
  <2>2. failures(decision, k, n) = {Returns(decision.rc)}
    BY <2>1 DEF failures
  <2>. QED
    BY <2>1, <2>2 DEF decision
<1>3. ASSUME NEW c \in [0..(n - 1) -> Int], decision = Decision("colors", c)
      PROVE  \/ failures(decision, k, n) # {} /\ failures(decision, k, n) \subseteq {Throws, Crashes}
             \/ failures(decision, k, n) = {} /\ k > 0 /\ MapFits(hres_map, n, k)
  <2>1. decision.fn = "colors" /\ decision.colors = c
    BY <1>3 DEF Decision
  <2>2. failures(decision, k, n) =
           {Crashes : i \in {i \in DOMAIN c : c[i] < 0}}
           \cup {Throws : i \in {i \in DOMAIN c : c[i] \notin 0..(k - 1)}}
    BY <2>1 DEF failures
  <2>3. CASE failures(decision, k, n) # {}
    BY <2>2, <2>3
  <2>4. CASE failures(decision, k, n) = {}
    <3>1. \A i \in 0..(n - 1) : c[i] \in 0..(k - 1)
      BY <2>2, <2>4
    <3>2. 0 \in 0..(n - 1)
      OBVIOUS
    <3>3. k > 0
      BY <3>1, <3>2
    <3>4. hres_map = [i \in 0..(n - 1) |-> {c[i]}]
      BY <2>1 DEF map_fn, qvi_map_colors
    <3>. HIDE DEF hres_map
    <3>. QED
      BY <2>4, <3>1, <3>3, <3>4 DEF MapFits
  <2>. QED
    BY <2>3, <2>4
<1>4. ASSUME decision = Decision("packed", colors)
      PROVE  /\ failures(decision, k, n) = {}
             /\ k > 0 => MapFits(hres_map, n, k)
             /\ k = 0 => DOMAIN hres_map = {}
  <2>1. decision.fn = "packed"
    BY <1>4 DEF Decision
  <2>2. failures(decision, k, n) = {}
    BY <2>1 DEF failures
  <2>3. hres_map = qvi_map_packed(n, k)
    BY <1>0, <2>1 DEF map_fn
  <2>4. ASSUME k > 0 PROVE MapFits(qvi_map_packed(n, k), n, k)
    <3>1. 0 < k /\ k <= n /\ n \in Nat /\ k \in Nat
      BY <1>00, <2>4
    <3>2. /\ DOMAIN qvi_map_packed(n, k) = 0..(n - 1)
          /\ \A s \in 0..(n - 1) :
                qvi_map_packed(n, k)[s] # {} /\ qvi_map_packed(n, k)[s] \subseteq 0..(k - 1)
      BY <3>1, PackedMap, Zenon
    <3>. QED
      BY <3>2 DEF MapFits
  <2>5. k = 0 => DOMAIN qvi_map_packed(n, k) = {}
    BY DEF qvi_map_packed
  <2>. HIDE DEF hres_map
  <2>. QED
    BY <2>2, <2>3, <2>4, <2>5
<1>5. ASSUME decision = Decision("spread", colors)
      PROVE  \/ k = 0 /\ failures(decision, k, n) = {Crashes}
             \/ k > 0 /\ failures(decision, k, n) = {} /\ MapFits(hres_map, n, k)
  <2>1. decision.fn = "spread"
    BY <1>5 DEF Decision
  <2>2. failures(decision, k, n) = IF k = 0 THEN {Crashes} ELSE {}
    BY <2>1 DEF failures, spread_divides_by_zero
  <2>3. hres_map = qvi_map_spread(n, k)
    BY <1>0, <2>1 DEF map_fn
  <2>4. ASSUME k > 0 PROVE MapFits(qvi_map_spread(n, k), n, k)
    <3>1. 0 < k /\ k <= n /\ n \in Nat /\ k \in Nat
      BY <1>00, <2>4
    <3>2. /\ DOMAIN qvi_map_spread(n, k) = 0..(n - 1)
          /\ \A s \in 0..(n - 1) :
                qvi_map_spread(n, k)[s] # {} /\ qvi_map_spread(n, k)[s] \subseteq 0..(k - 1)
      BY <3>1, SpreadMap, Zenon
    <3>. QED
      BY <3>2 DEF MapFits
  <2>. HIDE DEF hres_map
  <2>. QED
    BY <2>2, <2>3, <2>4
<1>6. ASSUME decision = Decision("close", colors)
      PROVE  \/ k = 0 /\ failures(decision, k, n) = {Throws}
             \/ k > 0 /\ failures(decision, k, n) = {} /\ MapFits(hres_map, n, k)
  <2>1. decision.fn = "close"
    BY <1>6 DEF Decision
  <2>2. failures(decision, k, n) = IF k = 0 THEN {Throws} ELSE {}
    BY <2>1 DEF failures
  <2>3. hres_map = qvi_map_close(affinities, cpusets)
    BY <2>1 DEF map_fn
  <2>4. ASSUME k > 0 PROVE MapFits(hres_map, n, k)
    <3>1. k \in Nat /\ 0 < k /\ DOMAIN affinities = Sources(n) /\ DOMAIN cpusets = Destinations(k)
      BY <2>4 DEF Sources, Destinations
    <3>2. IsCloseMap(hres_map, affinities, cpusets, Sources(n), Destinations(k))
      BY <2>3, <3>1, CloseMap
    <3>. HIDE DEF hres_map
    <3>. QED
      BY <3>2 DEF IsCloseMap, MapFits, Sources, Destinations
  <2>. HIDE DEF hres_map
  <2>. QED
    BY <2>2, <2>4
<1>. HIDE DEF hres_map
<1>7. CASE /\ \E fn \in {"close", "packed", "spread"} : decision = Decision(fn, colors)
           /\ \A i \in 0..(n - 1) : colors[i] < 0
  <2>1. CASE decision = Decision("packed", colors)
    <3>1. k = 0 \/ k > 0
      BY <1>00
    <3>. QED
      BY <1>4, <1>7, <2>1, <3>1, Zenon DEF decision, hres_map
  <2>2. CASE decision = Decision("spread", colors)
    <3>1. {Crashes} # {} /\ {Crashes} \subseteq {Throws, Crashes}
      OBVIOUS
    <3>. QED
      BY <1>5, <2>2, <3>1, Zenon DEF decision, hres_map
  <2>3. CASE decision = Decision("close", colors)
    <3>1. {Throws} # {} /\ {Throws} \subseteq {Throws, Crashes}
      OBVIOUS
    <3>2. \/ failures(decision, k, n) # {} /\ failures(decision, k, n) \subseteq {Throws, Crashes}
          \/ failures(decision, k, n) = {} /\ k > 0 /\ MapFits(hres_map, n, k)
      BY <1>6, <2>3, <3>1
    <3>. QED
      BY <3>2, Zenon DEF decision, hres_map
  <2>. QED
    BY <1>7, <2>1, <2>2, <2>3
<1>8. CASE \E c \in [0..(n - 1) -> Int] : decision = Decision("colors", c)
  BY <1>3, <1>8 DEF decision, hres_map
<1>. QED
  BY <1>1, <1>2, <1>7, <1>8 DEF decision, hres_map

(* Every device is assigned to one task, and where the pool of another     *)
(* task is near a device, the device only goes far away if that pool has   *)
(* a device already.  (Making the map exclusive drops nothing: a close     *)
(* mapping to more pools than there are devices is exclusive.)             *)
LEMMA DeviceMap ==
    ASSUME NEW ndevs \in Nat, NEW n \in Nat \ {0}, NEW src, NEW dst,
           DOMAIN src = 0..(ndevs - 1), DOMAIN dst = 0..(n - 1)
    PROVE  LET map == devs2hres_map(src, dst)
           IN  IsCloseMap(map, src, dst, 0..(ndevs - 1), 0..(n - 1))
<1>. DEFINE close == qvi_map_close(src, dst)
            uniq == qvi_map_uniq(close)
            map == devs2hres_map(src, dst)
            I == 0..(ndevs - 1)
            J == 0..(n - 1)
<1>0. /\ IsCloseMap(close, src, dst, I, J)
      /\ ndevs <= n => \A s, t \in I : close[s] = close[t] => s = t
  <2>1. n \in Nat /\ 0 < n /\ DOMAIN src = Sources(ndevs) /\ DOMAIN dst = Destinations(n)
    BY DEF Sources, Destinations
  <2>2. Sources(ndevs) = I /\ Destinations(n) = J
    BY DEF Sources, Destinations
  <2>3. /\ IsCloseMap(close, src, dst, Sources(ndevs), Destinations(n))
        /\ ndevs <= n => \A s, t \in Sources(ndevs) : close[s] = close[t] => s = t
    BY <2>1, CloseMap
  <2>. HIDE DEF close, I, J
  <2>. QED
    BY <2>2, <2>3
<1>1. /\ DOMAIN close = I
      /\ \A s \in I : \E d \in J : close[s] = {d}
      /\ ndevs <= n => \A s, t \in I : close[s] = close[t] => s = t
  <2>. HIDE DEF close, I, J
  <2>. QED
    BY <1>0 DEF IsCloseMap
<1>2. Cardinality(DOMAIN dst) = n /\ Cardinality(DOMAIN src) = ndevs
  BY SourcesFinite DEF Sources
<1>3. map = IF n > ndevs THEN uniq ELSE close
  <2>. HIDE DEF close
  <2>. QED
    BY <1>2 DEF devs2hres_map, close
<1>. HIDE DEF close, map
<1>4. ASSUME n > ndevs PROVE DOMAIN uniq = I /\ \A s \in I : uniq[s] = close[s]
  <2>1. NumberMap(close)
    BY <1>1 DEF NumberMap
  <2>2. /\ DOMAIN uniq \subseteq I
        /\ \A s \in DOMAIN uniq : \E d \in close[s] : uniq[s] = {d}
        /\ \A s \in I \ DOMAIN uniq : \A d \in close[s] :
              \E t \in DOMAIN uniq : t < s /\ uniq[t] = {d}
    <3>. HIDE DEF I
    <3>. QED
      BY <1>1, <2>1, UniqMap
  <2>. HIDE DEF uniq
  <2>3. ASSUME NEW s \in DOMAIN uniq PROVE uniq[s] = close[s]
    <3>1. PICK d \in close[s] : uniq[s] = {d}
      BY <2>2
    <3>2. PICK e \in J : close[s] = {e}
      <4>. HIDE DEF I
      <4>. QED
        BY <1>1, <2>2
    <3>. QED
      BY <3>1, <3>2
  <2>4. ASSUME NEW s \in I, s \notin DOMAIN uniq PROVE FALSE
    <3>1. PICK d \in J : close[s] = {d}
      BY <1>1
    <3>2. PICK t \in DOMAIN uniq : t < s /\ uniq[t] = {d}
      BY <2>2, <2>4, <3>1
    <3>3. t \in I /\ close[t] = close[s]
      BY <2>2, <2>3, <3>1, <3>2
    <3>4. ndevs <= n
      BY <1>4
    <3>5. t = s
      <4>. HIDE DEF I
      <4>. QED
        BY <1>1, <3>3, <3>4
    <3>. QED
      BY <3>2, <3>3, <3>5
  <2>. QED
    BY <2>2, <2>3, <2>4
<1>5. DOMAIN map = I /\ \A s \in I : map[s] = close[s]
  <2>. HIDE DEF uniq, I
  <2>. QED
    BY <1>1, <1>3, <1>4
<1>. HIDE DEF I, J
<1>6. StaysClose(map, src, dst, I, J)
  <2>1. ASSUME NEW d \in I, NEW t \in J, NEW u \in J,
               map[d] = {t}, ~Meets(src[d], dst[t]), Meets(src[d], dst[u])
        PROVE  \E e \in I : map[e] = {u}
    <3>1. close[d] = {t}
      BY <1>5, <2>1
    <3>2. PICK e \in I : close[e] = {u}
      BY <1>0, <2>1, <3>1, Zenon DEF IsCloseMap, StaysClose
    <3>. QED
      BY <1>5, <3>2
  <2>. QED
    BY <2>1, Zenon DEF StaysClose
<1>7. IsCloseMap(map, src, dst, I, J)
  BY <1>1, <1>5, <1>6 DEF IsCloseMap
<1>. QED
  BY <1>7 DEF map, I, J

(* A split that succeeds.  Either there were no pieces and no colors came  *)
(* of it, which only an automatic split lets pass, or every task has a     *)
(* color below the size of the group and a part of the hardware, the same  *)
(* part as the tasks of its color and apart from all others.  The devices  *)
(* of the group are dealt out in any case.                                 *)
ColorsFit(primary, n, result) ==
    LET I == 0..(n - 1)
        cpuset(t) == result.hwpools[t].cpuset
    IN  /\ result.colors \in [I -> I]
        /\ \A t \in I : cpuset(t) # {} /\ cpuset(t) \subseteq primary
        /\ \A t, u \in I : result.colors[t] = result.colors[u] => cpuset(t) = cpuset(u)
        /\ \A t, u \in I : result.colors[t] # result.colors[u] => cpuset(t) \cap cpuset(u) = {}

DevicesFit(base_hwpool, n, result) ==
    LET I == 0..(n - 1)
        pool(t) == result.hwpools[t]
    IN  /\ \A t \in I : pool(t).devices \subseteq base_hwpool.devices
        /\ \A t, u \in I : t # u => pool(t).devices \cap pool(u).devices = {}
        /\ \A dev \in base_hwpool.devices : \E t \in I : dev \in pool(t).devices
        /\ \A t, u \in I : \A dev \in pool(t).devices :
              affinity(dev) \cap pool(t).cpuset = {} /\ affinity(dev) \cap pool(u).cpuset # {} =>
                  pool(u).devices # {}

SplitFits(base_hwpool, primary, n, colors, result) ==
    /\ result = Splits(result.colors, result.hwpools)
    /\ result.hwpools \in [0..(n - 1) -> HwPools]
    /\ \/ ColorsFit(primary, n, result)
       \/ DOMAIN result.colors = {} /\ \A t \in 0..(n - 1) : colors[t] < 0
    /\ DevicesFit(base_hwpool, n, result)

LEMMA AppliedMap ==
    ASSUME NEW base_hwpool \in HwPools, NEW n \in Nat \ {0}, NEW primary \in SUBSET PUs,
           NEW k \in 0..n, NEW cpusets, PiecesFit(cpusets, primary, n, k),
           NEW colors, NEW hres_map,
           \/ k > 0 /\ MapFits(hres_map, n, k)
           \/ DOMAIN hres_map = {} /\ \A t \in 0..(n - 1) : colors[t] < 0,
           NEW result \in apply_map(base_hwpool, cpusets, hres_map, n)
    PROVE  SplitFits(base_hwpool, primary, n, colors, result)
<1>. DEFINE I == 0..(n - 1)
            last(t) == CHOOSE c \in hres_map[t] : \A d \in hres_map[t] : d <= c
            pieces == [t \in I |-> IF t \in DOMAIN hres_map THEN cpusets[last(t)] ELSE {}]
            devs == Ascending(base_hwpool.devices)
            src == [i \in DOMAIN devs |-> affinity(devs[i])]
            map == devs2hres_map(src, pieces)
            mine(t) == {devs[d] : d \in {d \in DOMAIN map : t \in map[d]}}
            newcolors == [t \in DOMAIN hres_map |-> last(t)]
            pools == [t \in I |-> Pool(pieces[t], mine(t))]
            ndevs == Cardinality(base_hwpool.devices)
            D == 0..(ndevs - 1)
<1>1. result = Splits(newcolors, pools)
  BY DEF apply_map, color_of_piece
<1>2. base_hwpool.devices \subseteq Devices /\ base_hwpool.devices \in SUBSET Int
      /\ IsFiniteSet(base_hwpool.devices)
  <2>1. base_hwpool.devices \in SUBSET Devices
    BY DEF HwPools
  <2>2. IsFiniteSet(base_hwpool.devices)
    BY <2>1, HardwareAssumption, FS_Subset
  <2>3. base_hwpool.devices \in SUBSET Int
    <3>1. Devices \subseteq Nat
      BY HardwareAssumption
    <3>. DEFINE A == base_hwpool.devices
    <3>2. A \subseteq Devices
      BY <2>1
    <3>. HIDE DEF A
    <3>3. A \in SUBSET Int
      BY <3>1, <3>2
    <3>. QED
      BY <3>3 DEF A
  <2>. QED
    BY <2>1, <2>2, <2>3
<1>3. /\ ndevs \in Nat /\ devs \in [D -> base_hwpool.devices]
      /\ \A dev \in base_hwpool.devices : \E i \in D : devs[i] = dev
      /\ \A i, j \in D : devs[i] = devs[j] => i = j
  <2>. DEFINE A == base_hwpool.devices
  <2>1. A \in SUBSET Int /\ IsFiniteSet(A)
    BY <1>2
  <2>. HIDE DEF A
  <2>2. /\ Cardinality(A) \in Nat
        /\ Ascending(A) \in [0..(Cardinality(A) - 1) -> A]
        /\ \A x \in A : \E i \in 0..(Cardinality(A) - 1) : Ascending(A)[i] = x
        /\ \A i, j \in 0..(Cardinality(A) - 1) : Ascending(A)[i] = Ascending(A)[j] => i = j
    BY <2>1, AscendingLists
  <2>. QED
    BY <2>2, Zenon DEF A
<1>. HIDE DEF devs, ndevs
<1>4. IsCloseMap(map, src, pieces, D, I)
  <2>1. DOMAIN src = D /\ DOMAIN pieces = I
    BY <1>3
  <2>. HIDE DEF src, pieces, map
  <2>. QED
    BY <1>3, <2>1, DeviceMap DEF map
<1>. HIDE DEF map, src
<1>5. \A t \in I : \A x : x \in mine(t) <=> \E d \in D : map[d] = {t} /\ x = devs[d]
  <2>1. DOMAIN map = D /\ \A d \in D : \E t \in I : map[d] = {t}
    BY <1>4 DEF IsCloseMap
  <2>2. \A d \in D, t \in I : t \in map[d] <=> map[d] = {t}
    BY <2>1
  <2>. HIDE DEF D, I
  <2>. QED
    BY <2>1, <2>2
<1>. HIDE DEF mine, D
<1>6. \A t \in I : mine(t) \subseteq base_hwpool.devices
  BY <1>3, <1>5
<1>7. ASSUME MapFits(hres_map, n, k)
      PROVE  /\ DOMAIN hres_map = I
             /\ \A t \in I : last(t) \in 0..(k - 1) /\ pieces[t] = cpusets[last(t)]
  <2>1. ASSUME NEW t \in I PROVE last(t) \in 0..(k - 1)
    <3>1. hres_map[t] # {} /\ hres_map[t] \subseteq 0..(k - 1) /\ k - 1 \in Nat
      BY <1>7 DEF MapFits
    <3>2. \E c \in hres_map[t] : \A d \in hres_map[t] : d <= c
      BY <3>1, NatGreatest
    <3>3. last(t) \in hres_map[t]
      <4>. HIDE DEF I
      <4>. QED
        BY <3>2
    <3>. QED
      BY <3>1, <3>3
  <2>2. DOMAIN hres_map = I
    BY <1>7 DEF MapFits
  <2>. HIDE DEF last, I
  <2>. QED
    BY <2>1, <2>2
<1>. HIDE DEF last
<1>8. \A t \in I : pieces[t] \subseteq primary
  <2>1. CASE MapFits(hres_map, n, k)
    <3>1. \A i \in 0..(k - 1) : cpusets[i] \subseteq primary
      BY DEF PiecesFit
    <3>. HIDE DEF pieces, I
    <3>. QED
      BY <1>7, <2>1, <3>1
  <2>2. CASE DOMAIN hres_map = {}
    BY <2>2
  <2>. QED
    BY <2>1, <2>2
<1>. HIDE DEF I
<1>9. /\ result.colors = newcolors /\ result.hwpools = pools
      /\ \A t \in I : pools[t] = Pool(pieces[t], mine(t))
                      /\ pools[t].cpuset = pieces[t] /\ pools[t].devices = mine(t)
  BY <1>1 DEF Splits, Pool
<1>10. pools \in [I -> HwPools]
  <2>1. ASSUME NEW t \in I PROVE Pool(pieces[t], mine(t)) \in HwPools
    <3>1. pieces[t] \subseteq PUs /\ mine(t) \subseteq Devices
      BY <1>2, <1>6, <1>8
    <3>. QED
      BY <3>1 DEF Pool, HwPools
  <2>. HIDE DEF pieces
  <2>. QED
    BY <2>1
<1>. HIDE DEF pieces, pools, newcolors
<1>11. ASSUME MapFits(hres_map, n, k) PROVE ColorsFit(primary, n, result)
  <2>1. /\ \A i \in 0..(k - 1) : cpusets[i] # {} /\ cpusets[i] \subseteq primary
        /\ \A i, j \in 0..(k - 1) : i # j => cpusets[i] \cap cpusets[j] = {}
    BY DEF PiecesFit
  <2>2. newcolors = [t \in I |-> last(t)]
    BY <1>7, <1>11 DEF newcolors
  <2>3. 0..(k - 1) \subseteq I
    BY DEF I
  <2>4. newcolors \in [I -> I]
    BY <1>7, <1>11, <2>2, <2>3
  <2>5. \A t \in I : newcolors[t] \in 0..(k - 1) /\ pools[t].cpuset = cpusets[newcolors[t]]
    BY <1>7, <1>9, <1>11, <2>2
  <2>6. \A t \in I : pools[t].cpuset # {} /\ pools[t].cpuset \subseteq primary
    BY <2>1, <2>5
  <2>7. \A t, u \in I : newcolors[t] # newcolors[u] => pools[t].cpuset \cap pools[u].cpuset = {}
    BY <2>1, <2>5
  <2>8. \A t, u \in I : newcolors[t] = newcolors[u] => pools[t].cpuset = pools[u].cpuset
    BY <2>5
  <2>. QED
    BY <1>9, <2>4, <2>6, <2>7, <2>8, Zenon DEF ColorsFit, I
<1>12. DevicesFit(base_hwpool, n, result)
  <2>1. \A d \in D : \E t \in I : map[d] = {t}
    BY <1>4 DEF IsCloseMap
  <2>2. ASSUME NEW t \in I, NEW u \in I, t # u PROVE mine(t) \cap mine(u) = {}
    <3>1. ASSUME NEW dev \in mine(t), dev \in mine(u) PROVE FALSE
      <4>1. PICK d \in D : map[d] = {t} /\ dev = devs[d]
        BY <1>5
      <4>2. PICK e \in D : map[e] = {u} /\ dev = devs[e]
        BY <1>5, <3>1
      <4>3. d = e
        BY <1>3, <4>1, <4>2
      <4>. QED
        BY <2>2, <4>1, <4>2, <4>3
    <3>. QED
      BY <3>1
  <2>3. ASSUME NEW dev \in base_hwpool.devices PROVE \E t \in I : dev \in mine(t)
    <3>1. PICK d \in D : devs[d] = dev
      BY <1>3
    <3>2. PICK t \in I : map[d] = {t}
      BY <2>1
    <3>. QED
      BY <1>5, <3>1, <3>2
  <2>4. ASSUME NEW t \in I, NEW u \in I, NEW dev \in mine(t),
               ~Meets(affinity(dev), pieces[t]), Meets(affinity(dev), pieces[u])
        PROVE  mine(u) # {}
    <3>1. PICK d \in D : map[d] = {t} /\ dev = devs[d]
      BY <1>5
    <3>2. src[d] = affinity(dev)
      BY <1>3, <3>1 DEF src
    <3>3. PICK e \in D : map[e] = {u}
      BY <1>4, <2>4, <3>1, <3>2 DEF IsCloseMap, StaysClose
    <3>. QED
      BY <1>5, <3>3
  <2>5. \A t, u \in I : \A dev \in pools[t].devices :
           affinity(dev) \cap pools[t].cpuset = {} /\ affinity(dev) \cap pools[u].cpuset # {} =>
               pools[u].devices # {}
    <3>1. ASSUME NEW t \in I, NEW u \in I, NEW dev \in pools[t].devices,
                 affinity(dev) \cap pools[t].cpuset = {}, affinity(dev) \cap pools[u].cpuset # {}
          PROVE  pools[u].devices # {}
      <4>1. dev \in mine(t) /\ pools[t].cpuset = pieces[t] /\ pools[u].cpuset = pieces[u]
            /\ pools[u].devices = mine(u)
        BY <1>9
      <4>2. ~Meets(affinity(dev), pieces[t]) /\ Meets(affinity(dev), pieces[u])
        BY <3>1, <4>1 DEF Meets
      <4>. QED
        BY <2>4, <4>1, <4>2
    <3>. QED
      BY <3>1
  <2>6. \A t \in I : pools[t].devices \subseteq base_hwpool.devices
    BY <1>6, <1>9
  <2>7. \A t, u \in I : t # u => pools[t].devices \cap pools[u].devices = {}
    BY <1>9, <2>2
  <2>8. \A dev \in base_hwpool.devices : \E t \in I : dev \in pools[t].devices
    BY <1>9, <2>3
  <2>. QED
    BY <1>9, <2>5, <2>6, <2>7, <2>8, Zenon DEF DevicesFit, I
<1>13. \/ ColorsFit(primary, n, result)
       \/ DOMAIN result.colors = {} /\ \A t \in I : colors[t] < 0
  <2>1. CASE MapFits(hres_map, n, k)
    BY <1>11, <2>1
  <2>2. CASE DOMAIN hres_map = {} /\ \A t \in I : colors[t] < 0
    BY <1>9, <2>2 DEF newcolors
  <2>. QED
    BY <2>1, <2>2 DEF I
<1>. QED
  BY <1>1, <1>9, <1>10, <1>12, <1>13 DEF SplitFits, I

(* What m_split comes to, for a group of any size on any node: it throws   *)
(* or crashes, it refuses, or it returns a split that fits.                *)
THEOREM SplitOutcome ==
    ASSUME NEW base_hwpool \in HwPools, NEW type, NEW split_size \in Nat, NEW n \in Nat \ {0},
           NEW affinities, DOMAIN affinities = 0..(n - 1), NEW colors \in [0..(n - 1) -> Int],
           NEW result \in m_split(base_hwpool, type, split_size, affinities, colors)
    PROVE  \/ result \in {Throws, Crashes, Returns("ERR_SPLIT"), Returns("ERR_INVLD_ARG")}
           \/ SplitFits(base_hwpool, m_primary_cpuset_for_split(base_hwpool, type), n, colors, result)
<1>. DEFINE primary == m_primary_cpuset_for_split(base_hwpool, type)
            cpusets == m_split_cpuset(base_hwpool, type, split_size, n)
<1>1. Cardinality(DOMAIN colors) = n
  BY SourcesFinite DEF Sources
<1>2. primary \in SUBSET PUs /\ \E k \in 0..n : PiecesFit(cpusets, primary, n, k)
  BY SplitCpusets
<1>3. PICK k \in 0..n : PiecesFit(cpusets, primary, n, k)
  BY <1>2
<1>. HIDE DEF primary, cpusets
<1>. DEFINE decision == m_determine_mapping(colors, k)
            hres_map == map_fn(decision, affinities, cpusets, n)
            failed == failures(decision, k, n)
<1>4. DOMAIN cpusets = 0..(k - 1) /\ Cardinality(DOMAIN cpusets) = k
  BY <1>3 DEF PiecesFit
<1>5. result \in IF failed # {} THEN failed ELSE apply_map(base_hwpool, cpusets, hres_map, n)
  BY <1>1, <1>4 DEF m_split, cpusets
<1>6. \/ decision.fn = "none" /\ failed \in {{Returns("ERR_SPLIT")}, {Returns("ERR_INVLD_ARG")}}
      \/ failed # {} /\ failed \subseteq {Throws, Crashes}
      \/ failed = {} /\ k > 0 /\ MapFits(hres_map, n, k)
      \/ /\ failed = {} /\ k = 0 /\ DOMAIN hres_map = {}
         /\ \A i \in 0..(n - 1) : colors[i] < 0
  BY <1>4, MappingDecided
<1>. HIDE DEF hres_map, failed, decision
<1>7. CASE failed # {}
  BY <1>5, <1>6, <1>7
<1>8. CASE failed = {}
  <2>1. \/ k > 0 /\ MapFits(hres_map, n, k)
        \/ DOMAIN hres_map = {} /\ \A t \in 0..(n - 1) : colors[t] < 0
    BY <1>6, <1>8
  <2>2. result \in apply_map(base_hwpool, cpusets, hres_map, n)
    BY <1>5, <1>8
  <2>3. SplitFits(base_hwpool, primary, n, colors, result)
    BY <1>2, <1>3, <2>1, <2>2, AppliedMap
  <2>. QED
    BY <2>3 DEF primary
<1>. QED
  BY <1>7, <1>8
=============================================================================
