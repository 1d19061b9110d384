------------------------- MODULE MapFunctionsProofs -------------------------
(***************************************************************************)
(* What the mapping and splitting functions compute, for every input: for  *)
(* each function a lemma about its result, and a theorem that the property *)
(* of module MapFunctions holds whatever the bounds on the inputs are.     *)
(***************************************************************************)
EXTENDS MapFunctions, HwSplitProofs

(* A call is the only step. *)
LEMMA OneCall ==
    ASSUME Next
    PROVE  \/ CallPacked /\ call' = "packed"
           \/ CallSpread /\ call' = "spread"
           \/ CallClamp /\ call' = "clamp"
           \/ CallUniq /\ call' = "uniq"
           \/ CallSplit /\ call' = "split"
           \/ CallCreate /\ call' = "create"
           \/ CallThreadSplits /\ call' = "thread_split"
<1>1. CallPacked => call' = "packed"
  BY DEF CallPacked, Called
<1>2. CallSpread => call' = "spread"
  BY DEF CallSpread, Called
<1>3. CallClamp => call' = "clamp"
  BY DEF CallClamp, Called
<1>4. CallUniq => call' = "uniq"
  BY DEF CallUniq, Called
<1>5. CallSplit => call' = "split"
  BY DEF CallSplit, Called
<1>6. CallCreate => call' = "create"
  BY DEF CallCreate, Called
<1>7. CallThreadSplits => call' = "thread_split"
  <2>1. ASSUME NEW colors, NEW type, CallThreadSplit(colors, type) PROVE call' = "thread_split"
    BY <2>1, Zenon DEF CallThreadSplit, Called
  <2>. QED
    BY <2>1 DEF CallThreadSplits
<1>. QED
  BY <1>1, <1>2, <1>3, <1>4, <1>5, <1>6, <1>7 DEF Next

-----------------------------------------------------------------------------
(* qvi_map_clamp_colors *)

LEMMA Clamped ==
    ASSUME NEW n \in Nat \ {0}, NEW colors \in [0..(n - 1) -> Int]
    PROVE  LET clamped == qvi_map_clamp_colors(colors)
           IN  /\ DOMAIN clamped = 0..(n - 1)
               /\ \A i, j \in 0..(n - 1) : colors[i] < colors[j] <=> clamped[i] < clamped[j]
               /\ \E k \in 1..n : {clamped[i] : i \in 0..(n - 1)} = 0..(k - 1)
<1>. DEFINE I == 0..(n - 1)
            S == {colors[i] : i \in I}
            clamped == qvi_map_clamp_colors(colors)
            k == Cardinality(S)
<1>1. DOMAIN colors = I /\ S \in SUBSET Int
  OBVIOUS
<1>2. IsFiniteSet(I) /\ Cardinality(I) = n
  BY FS_Interval
<1>3. IsFiniteSet(S) /\ k <= n
  <2>1. [i \in I |-> colors[i]] \in Surjection(I, S)
    BY DEF Surjection
  <2>. HIDE DEF I, S
  <2>2. IsFiniteSet(S) /\ Cardinality(S) <= Cardinality(I)
    BY <1>2, <2>1, FS_Surjection
  <2>. QED
    BY <1>2, <2>2
<1>4. clamped = [i \in I |-> Rank(S, colors[i])]
  BY <1>1 DEF qvi_map_clamp_colors, Rank
<1>5. \A i \in I : colors[i] \in S
  OBVIOUS
<1>6. \A x \in S : \E i \in I : colors[i] = x
  OBVIOUS
<1>7. 0 \in I
  OBVIOUS
<1>. HIDE DEF S, I, clamped
<1>8. /\ k \in Nat
      /\ \A x \in S : Rank(S, x) \in 0..(k - 1)
      /\ \A x, y \in S : x < y <=> Rank(S, x) < Rank(S, y)
      /\ \A i \in 0..(k - 1) : \E x \in S : Rank(S, x) = i
  BY <1>1, <1>3, RankEnumerates
<1>9. \A i, j \in I : colors[i] < colors[j] <=> clamped[i] < clamped[j]
  BY <1>4, <1>5, <1>8
<1>. HIDE DEF k
<1>10. k \in 1..n
  <2>1. Rank(S, colors[0]) \in 0..(k - 1)
    BY <1>5, <1>7, <1>8
  <2>2. k # 0
    BY <2>1
  <2>. QED
    BY <1>3, <1>8, <2>2 DEF k
<1>11. {clamped[i] : i \in I} = 0..(k - 1)
  <2>1. \A i \in I : clamped[i] \in 0..(k - 1)
    BY <1>4, <1>5, <1>8
  <2>2. \A j \in 0..(k - 1) : \E i \in I : clamped[i] = j
    BY <1>4, <1>6, <1>8
  <2>. QED
    BY <2>1, <2>2
<1>12. DOMAIN clamped = I
  BY <1>4
<1>. QED
  BY <1>9, <1>10, <1>11, <1>12 DEF I, clamped

(* qvi_map_clamp_colors gives the colors the numbers 0, 1, ... without a   *)
(* gap and in their order, whatever the colors are and however many tasks  *)
(* there are.                                                              *)
THEOREM ClampedInOrder == Spec => []ClampKeepsOrder
<1>1. Init => ClampKeepsOrder
  BY DEF Init, ClampKeepsOrder
<1>2. Next => ClampKeepsOrder'
  <2>. SUFFICES ASSUME Next, call' = "clamp" PROVE ClampKeepsOrder'
    BY DEF ClampKeepsOrder
  <2>1. CallClamp
    BY OneCall
  <2>2. PICK n \in 1..MaxTasks : \E colors \in Vector(n, Palette) :
           input' = colors /\ output' = qvi_map_clamp_colors(colors)
    BY <2>1 DEF CallClamp, Called
  <2>3. PICK colors \in Vector(n, Palette) :
           input' = colors /\ output' = qvi_map_clamp_colors(colors)
    BY <2>2
  <2>4. n \in Nat \ {0} /\ colors \in [0..(n - 1) -> Int]
    <3>1. n \in Nat \ {0}
      BY InputAssumption
    <3>2. colors \in [0..(n - 1) -> Palette] /\ Palette \subseteq Int
      BY InputAssumption DEF Vector
    <3>. QED
      BY <3>1, <3>2
  <2>5. /\ DOMAIN output' = 0..(n - 1)
        /\ \A i, j \in 0..(n - 1) : colors[i] < colors[j] <=> output'[i] < output'[j]
        /\ \E k \in 1..n : {output'[i] : i \in 0..(n - 1)} = 0..(k - 1)
    <3>. DEFINE clamped == qvi_map_clamp_colors(colors)
    <3>1. /\ DOMAIN clamped = 0..(n - 1)
          /\ \A i, j \in 0..(n - 1) : colors[i] < colors[j] <=> clamped[i] < clamped[j]
          /\ \E k \in 1..n : {clamped[i] : i \in 0..(n - 1)} = 0..(k - 1)
      BY <2>4, Clamped
    <3>. HIDE DEF clamped
    <3>2. output' = clamped
      BY <2>3 DEF clamped
    <3>. QED
      BY <3>1, <3>2, Zenon
  <2>6. Cardinality(0..(n - 1)) = n /\ DOMAIN colors = 0..(n - 1)
    BY <2>4, FS_Interval
  <2>. QED
    BY <2>3, <2>5, <2>6 DEF ClampKeepsOrder
<1>3. ClampKeepsOrder /\ [Next]_vars => ClampKeepsOrder'
  <2>1. ASSUME ClampKeepsOrder, UNCHANGED vars PROVE ClampKeepsOrder'
    BY <2>1 DEF vars, ClampKeepsOrder
  <2>. QED
    BY <1>2, <2>1
<1>. QED
  BY <1>1, <1>3, PTL DEF Spec

-----------------------------------------------------------------------------
(* qvi_map_uniq *)

(* qvi_map_uniq makes a map one to one: no destination has two sources,    *)
(* and a source loses all its destinations only to sources before it.      *)
THEOREM UniqExcludes == Spec => []UniqIsExclusive
<1>1. Init => UniqIsExclusive
  BY DEF Init, UniqIsExclusive
<1>2. Next => UniqIsExclusive'
  <2>. SUFFICES ASSUME Next, call' = "uniq" PROVE UniqIsExclusive'
    BY DEF UniqIsExclusive
  <2>1. CallUniq
    BY OneCall
  <2>2. PICK map \in Maps(MaxIds, MaxIds) : input' = map /\ output' = qvi_map_uniq(map)
    BY <2>1 DEF CallUniq, Called
  <2>3. NumberMap(map)
    BY InputAssumption DEF Maps, Sources, Destinations, NumberMap
  <2>4. /\ DOMAIN output' \subseteq DOMAIN input'
        /\ \A s \in DOMAIN output' : \E d \in input'[s] : output'[s] = {d}
        /\ \A s, t \in DOMAIN output' : s # t => output'[s] \cap output'[t] = {}
        /\ \A s \in DOMAIN input' \ DOMAIN output' : \A d \in input'[s] :
              \E t \in DOMAIN output' : t < s /\ output'[t] = {d}
    BY <2>2, <2>3, UniqMap
  <2>5. \A s \in DOMAIN output' : Cardinality(output'[s]) = 1 /\ output'[s] \subseteq input'[s]
    BY <2>4, FS_Singleton
  <2>. QED
    BY <2>4, <2>5, Zenon DEF UniqIsExclusive
<1>3. UniqIsExclusive /\ [Next]_vars => UniqIsExclusive'
  <2>1. ASSUME UniqIsExclusive, UNCHANGED vars PROVE UniqIsExclusive'
    BY <2>1 DEF vars, UniqIsExclusive
  <2>. QED
    BY <1>2, <2>1
<1>. QED
  BY <1>1, <1>3, PTL DEF Spec

-----------------------------------------------------------------------------
(* bitmap_split *)

(* bitmap_split cuts any bitmap into any number of runs, in order, without *)
(* a rest, none of them empty and none more than one longer than another,  *)
(* exactly if the bitmap is large enough.                                  *)
THEOREM SplitIsPartition == Spec => []SplitPartitions
<1>1. Init => SplitPartitions
  BY DEF Init, SplitPartitions
<1>2. Next => SplitPartitions'
  <2>. SUFFICES ASSUME Next, call' = "split" PROVE SplitPartitions'
    BY DEF SplitPartitions
  <2>1. CallSplit
    BY OneCall
  <2>2. PICK bitmap \in SUBSET PUs : \E npieces \in Counts :
           input' = <<bitmap, npieces>> /\ output' = bitmap_split(bitmap, npieces)
    BY <2>1 DEF CallSplit, Called
  <2>3. PICK npieces \in Counts :
           input' = <<bitmap, npieces>> /\ output' = bitmap_split(bitmap, npieces)
    BY <2>2
  <2>4. bitmap \in SUBSET Nat /\ IsFiniteSet(bitmap) /\ npieces \in Nat
    <3>1. PUs \subseteq Nat /\ IsFiniteSet(PUs)
      BY HardwareAssumption
    <3>2. IsFiniteSet(bitmap)
      BY <3>1, FS_Subset
    <3>3. npieces \in Nat
      BY InputAssumption DEF Counts
    <3>. QED
      BY <3>1, <3>2, <3>3
  <2>5. /\ Cardinality(bitmap) \in Nat
        /\ npieces = 0 \/ npieces > Cardinality(bitmap) => DOMAIN output' = {}
        /\ 0 < npieces /\ npieces <= Cardinality(bitmap) =>
              output' = [i \in 0..(npieces - 1) |-> PieceOf(bitmap, npieces, i)]
    BY <2>3, <2>4, SplitPieces
  <2>6. input'[1] = bitmap /\ input'[2] = npieces
    BY <2>3
  <2>7. CASE npieces = 0 \/ npieces > Cardinality(bitmap)
    BY <2>5, <2>6, <2>7 DEF SplitPartitions
  <2>8. CASE 0 < npieces /\ npieces <= Cardinality(bitmap)
    <3>. DEFINE I == 0..(npieces - 1)
                size == Cardinality(bitmap) \div npieces
                piece(i) == PieceOf(bitmap, npieces, i)
    <3>1. /\ \A i \in I : /\ piece(i) \subseteq bitmap /\ piece(i) # {}
                          /\ Cardinality(piece(i)) \in size..(size + 1)
          /\ \A i, j \in I : i < j => \A p \in piece(i), q \in piece(j) : p < q
          /\ \A p \in bitmap : \E i \in I : p \in piece(i)
      BY <2>4, <2>8, PieceFacts
    <3>2. size \in Int
      BY <2>4, <2>5, <2>8, LastChunk
    <3>3. output' = [i \in I |-> piece(i)]
      BY <2>5, <2>8
    <3>. HIDE DEF I, size, piece
    <3>4. DOMAIN output' = I /\ \A i \in I : output'[i] = piece(i)
      BY <3>3
    <3>5. \A i, j \in I : Cardinality(piece(i)) <= Cardinality(piece(j)) + 1
      BY <3>1, <3>2
    <3>6. UNION {output'[i] : i \in DOMAIN output'} = bitmap
      BY <3>1, <3>4
    <3>7. {} \notin {output'[i] : i \in DOMAIN output'}
      BY <3>1, <3>4
    <3>8. \A i, j \in DOMAIN output' :
             /\ Cardinality(output'[i]) <= Cardinality(output'[j]) + 1
             /\ i < j => \A p \in output'[i], q \in output'[j] : p < q
      BY <3>1, <3>4, <3>5
    <3>9. ~(npieces = 0 \/ npieces > Cardinality(bitmap))
      BY <2>4, <2>5, <2>8
    <3>. QED
      BY <2>6, <3>4, <3>6, <3>7, <3>8, <3>9 DEF SplitPartitions, I
  <2>. QED
    BY <2>4, <2>5, <2>7, <2>8
<1>3. SplitPartitions /\ [Next]_vars => SplitPartitions'
  <2>1. ASSUME SplitPartitions, UNCHANGED vars PROVE SplitPartitions'
    BY <2>1 DEF vars, SplitPartitions
  <2>. QED
    BY <1>2, <2>1
<1>. QED
  BY <1>1, <1>3, PTL DEF Spec

-----------------------------------------------------------------------------
(* get_cpuset_for_nobjs *)

(* The cores inside a cpuset are numbered without gaps: they are disjoint, *)
(* so that their lowest processing units tell them apart.                  *)
LEMMA CoresNumbered ==
    ASSUME NEW cpuset \in SUBSET PUs
    PROVE  LET C == get_objs_in_cpuset(cpuset)
               N == Cardinality(C)
           IN  /\ IsFiniteSet(C) /\ N \in Nat
               /\ \A c \in C : logical_index(c, cpuset) \in 0..(N - 1)
               /\ \A c, d \in C : logical_index(c, cpuset) = logical_index(d, cpuset) => c = d
               /\ \A i \in 0..(N - 1) : \E c \in C : logical_index(c, cpuset) = i
<1>. DEFINE C == get_objs_in_cpuset(cpuset)
            N == Cardinality(C)
            L == {Lowest(c) : c \in C}
            low == [c \in C |-> Lowest(c)]
<1>1. \A c \in C : c \in Cores /\ c # {} /\ c \in SUBSET Nat
  BY HardwareAssumption DEF get_objs_in_cpuset
<1>2. \A c \in C : Lowest(c) \in c /\ Lowest(c) \in Int
  <2>1. ASSUME NEW c \in C PROVE Lowest(c) \in c
    <3>1. \E x \in c : \A y \in c : x <= y
      BY <1>1, NatLeast
    <3>. QED
      BY <3>1 DEF Lowest
  <2>. QED
    BY <1>1, <2>1
<1>3. \A c, d \in C : Lowest(c) = Lowest(d) => c = d
  <2>1. \A c, d \in Cores : c # d => c \cap d = {}
    BY HardwareAssumption
  <2>. QED
    BY <1>1, <1>2, <2>1
<1>4. IsFiniteSet(C)
  <2>1. IsFiniteSet(SUBSET PUs)
    BY HardwareAssumption, FS_SUBSET
  <2>2. C \in SUBSET SUBSET PUs
    BY HardwareAssumption DEF get_objs_in_cpuset
  <2>. HIDE DEF C
  <2>. QED
    BY <2>1, <2>2, FS_Subset
<1>5. \A c \in C : logical_index(c, cpuset) = Cardinality({d \in C : Lowest(d) < Lowest(c)})
  BY DEF logical_index
<1>. HIDE DEF C
<1>6. low \in Bijection(C, L)
  BY <1>3 DEF Bijection, Injection, Surjection, IsInjective
<1>7. L \in SUBSET Int
  BY <1>2
<1>8. \A c \in C : Lowest(c) \in L
  OBVIOUS
<1>9. \A x \in L : \E c \in C : Lowest(c) = x
  OBVIOUS
<1>. HIDE DEF L, low
<1>10. IsFiniteSet(L) /\ Cardinality(L) = N
  <2>1. ExistsBijection(C, L)
    BY <1>6 DEF ExistsBijection
  <2>. QED
    BY <1>4, <2>1, FS_Bijection
<1>11. /\ N \in Nat
       /\ \A x \in L : Rank(L, x) \in 0..(N - 1)
       /\ \A x, y \in L : x < y <=> Rank(L, x) < Rank(L, y)
       /\ \A i \in 0..(N - 1) : \E x \in L : Rank(L, x) = i
  <2>. HIDE DEF N
  <2>. QED
    BY <1>7, <1>10, RankEnumerates
<1>12. ASSUME NEW c \in C PROVE logical_index(c, cpuset) = Rank(L, Lowest(c))
  <2>. DEFINE S == {d \in C : Lowest(d) < Lowest(c)}
              T == {x \in L : x < Lowest(c)}
  <2>1. [d \in S |-> Lowest(d)] \in Bijection(S, T)
    BY <1>3, <1>8, <1>9 DEF Bijection, Injection, Surjection, IsInjective
  <2>2. IsFiniteSet(S)
    <3>1. S \in SUBSET C
      OBVIOUS
    <3>. HIDE DEF S
    <3>. QED
      BY <1>4, <3>1, FS_Subset
  <2>. HIDE DEF S, T
  <2>3. Cardinality(T) = Cardinality(S)
    BY <2>1, <2>2, FS_Bijection DEF ExistsBijection
  <2>. QED
    BY <1>5, <2>3 DEF Rank, S, T
<1>13. ASSUME NEW c \in C, NEW d \in C, logical_index(c, cpuset) = logical_index(d, cpuset)
       PROVE  c = d
  <2>1. Lowest(c) \in L /\ Lowest(d) \in L /\ Rank(L, Lowest(c)) = Rank(L, Lowest(d))
    BY <1>8, <1>12, <1>13
  <2>2. Rank(L, Lowest(c)) \in Int /\ Rank(L, Lowest(d)) \in Int
    BY <1>11, <2>1
  <2>3. ~(Lowest(c) < Lowest(d)) /\ ~(Lowest(d) < Lowest(c))
    BY <1>11, <2>1, <2>2
  <2>4. Lowest(c) = Lowest(d)
    BY <1>2, <2>3
  <2>. QED
    BY <1>3, <2>4
<1>14. \A c \in C : logical_index(c, cpuset) \in 0..(N - 1)
  BY <1>8, <1>11, <1>12
<1>15. ASSUME NEW i \in 0..(N - 1) PROVE \E c \in C : logical_index(c, cpuset) = i
  <2>1. PICK x \in L : Rank(L, x) = i
    BY <1>11
  <2>2. PICK c \in C : Lowest(c) = x
    BY <1>9
  <2>. QED
    BY <1>12, <2>1, <2>2
<1>. QED
  BY <1>4, <1>11, <1>13, <1>14, <1>15 DEF C

LEMMA CreatedCores ==
    ASSUME NEW cpuset \in SUBSET PUs, NEW nobjs \in Nat
    PROVE  LET count == get_nobjs_in_cpuset("CORE", cpuset)
               part == get_cpuset_for_nobjs(cpuset, "CORE", nobjs)
           IN  IF nobjs > count THEN part.rc # "SUCCESS"
               ELSE /\ part.rc = "SUCCESS" /\ part.cpuset \subseteq cpuset
                    /\ get_nobjs_in_cpuset("CORE", part.cpuset) = nobjs
                    /\ part.cpuset = UNION get_objs_in_cpuset(part.cpuset)
<1>. DEFINE C == get_objs_in_cpuset(cpuset)
            N == Cardinality(C)
            part == get_cpuset_for_nobjs(cpuset, "CORE", nobjs)
            chosen == {c \in C : logical_index(c, cpuset) < nobjs}
            X == UNION chosen
<1>1. \A S : get_nobjs_in_cpuset("CORE", S) = Cardinality(get_objs_in_cpuset(S))
  BY DEF get_nobjs_in_cpuset
<1>2. nfound("CORE", cpuset) = N
  BY <1>1 DEF nfound
<1>3. /\ IsFiniteSet(C) /\ N \in Nat
      /\ \A c \in C : logical_index(c, cpuset) \in 0..(N - 1)
      /\ \A c, d \in C : logical_index(c, cpuset) = logical_index(d, cpuset) => c = d
      /\ \A i \in 0..(N - 1) : \E c \in C : logical_index(c, cpuset) = i
  BY CoresNumbered
<1>4. CASE nobjs > N
  <2>1. part = [rc |-> "ERR_HWLOC"]
    BY <1>2, <1>4 DEF get_cpuset_for_nobjs
  <2>2. part.rc # "SUCCESS"
    BY <2>1
  <2>. QED
    BY <1>1, <1>4, <2>2
<1>5. CASE ~(nobjs > N)
  <2>1. part = [rc |-> "SUCCESS", cpuset |-> X]
    BY <1>2, <1>5 DEF get_cpuset_for_nobjs
  <2>2. part.rc = "SUCCESS" /\ part.cpuset = X
    <3>. HIDE DEF part, X
    <3>. QED
      BY <2>1
  <2>3. \A c \in C : c \in Cores /\ c # {} /\ c \subseteq cpuset
    BY DEF get_objs_in_cpuset
  <2>4. X \subseteq cpuset
    BY <2>3
  <2>5. get_objs_in_cpuset(X) = chosen
    <3>1. ASSUME NEW c \in chosen PROVE c \in get_objs_in_cpuset(X)
      BY <2>3 DEF get_objs_in_cpuset
    <3>2. ASSUME NEW c \in get_objs_in_cpuset(X) PROVE c \in chosen
      <4>1. c \in Cores /\ c # {} /\ c \subseteq X
        BY DEF get_objs_in_cpuset
      <4>2. PICK p : p \in c
        BY <4>1
      <4>3. PICK d \in chosen : p \in d
        BY <4>1, <4>2
      <4>4. d \in Cores /\ \A e, f \in Cores : e # f => e \cap f = {}
        BY <2>3, HardwareAssumption
      <4>. HIDE DEF chosen, X
      <4>5. c = d
        BY <4>1, <4>2, <4>3, <4>4
      <4>. QED
        BY <4>3, <4>5
    <3>. QED
      BY <3>1, <3>2
  <2>6. Cardinality(chosen) = nobjs
    <3>. DEFINE J == 0..(nobjs - 1)
                number == [c \in chosen |-> logical_index(c, cpuset)]
    <3>. HIDE DEF C, N
    <3>1. number \in Bijection(chosen, J)
      <4>1. \A c \in chosen : number[c] = logical_index(c, cpuset) /\ c \in C
        OBVIOUS
      <4>2. number \in [chosen -> J]
        BY <1>3
      <4>3. \A c, d \in chosen : number[c] = number[d] => c = d
        BY <1>3, <4>1
      <4>4. \A i \in J : \E c \in chosen : number[c] = i
        <5>1. ASSUME NEW i \in J PROVE \E c \in chosen : number[c] = i
          <6>1. i \in 0..(N - 1)
            BY <1>3, <1>5
          <6>2. PICK c \in C : logical_index(c, cpuset) = i
            BY <1>3, <6>1
          <6>3. c \in chosen
            BY <6>2
          <6>. QED
            BY <4>1, <6>2, <6>3
        <5>. QED
          BY <5>1
      <4>. HIDE DEF number, J, chosen
      <4>. QED
        BY <4>2, <4>3, <4>4 DEF Bijection, Injection, Surjection, IsInjective
    <3>2. IsFiniteSet(chosen)
      <4>1. chosen \in SUBSET C
        OBVIOUS
      <4>. HIDE DEF chosen
      <4>. QED
        BY <1>3, <4>1, FS_Subset
    <3>3. Cardinality(J) = nobjs
      BY FS_Interval
    <3>. HIDE DEF J, chosen, number
    <3>. QED
      BY <3>1, <3>2, <3>3, FS_Bijection DEF ExistsBijection
  <2>. HIDE DEF part, X, chosen
  <2>7. get_nobjs_in_cpuset("CORE", part.cpuset) = nobjs
    BY <1>1, <2>2, <2>5, <2>6
  <2>8. part.cpuset = UNION get_objs_in_cpuset(part.cpuset)
    BY <2>2, <2>5 DEF X
  <2>. QED
    BY <1>1, <1>5, <2>2, <2>4, <2>7, <2>8 DEF part
<1>. QED
  BY <1>4, <1>5

(* No device is ever found, so only no device at all can be had. *)
LEMMA CreatedDevices ==
    ASSUME NEW cpuset \in SUBSET PUs, NEW nobjs \in Nat
    PROVE  LET part == get_cpuset_for_nobjs(cpuset, "GPU", nobjs)
           IN  IF nobjs > 0 THEN part.rc # "SUCCESS"
               ELSE /\ part.rc = "SUCCESS" /\ part.cpuset \subseteq cpuset
                    /\ get_nobjs_in_cpuset("CORE", part.cpuset) = nobjs
                    /\ part.cpuset = UNION get_objs_in_cpuset(part.cpuset)
<1>. DEFINE part == get_cpuset_for_nobjs(cpuset, "GPU", nobjs)
<1>1. CASE nobjs > 0
  BY <1>1 DEF get_cpuset_for_nobjs, nfound
<1>2. CASE nobjs = 0
  <2>1. \A c : logical_index(c, cpuset) \in Nat
    <3>1. IsFiniteSet(get_objs_in_cpuset(cpuset))
      BY HardwareAssumption, FS_Subset, FS_SUBSET DEF get_objs_in_cpuset
    <3>. QED
      BY <3>1, FS_Subset, FS_CardinalityType DEF logical_index
  <2>2. part = [rc |-> "SUCCESS", cpuset |-> {}]
    <3>1. {c \in get_objs_in_cpuset(cpuset) : logical_index(c, cpuset) < nobjs} = {}
      BY <1>2, <2>1
    <3>. QED
      BY <1>2, <3>1 DEF get_cpuset_for_nobjs, nfound
  <2>3. get_objs_in_cpuset({}) = {}
    BY DEF get_objs_in_cpuset
  <2>. HIDE DEF part
  <2>4. get_nobjs_in_cpuset("CORE", {}) = 0
    BY <2>3, FS_EmptySet DEF get_nobjs_in_cpuset
  <2>. QED
    BY <1>2, <2>2, <2>3, <2>4 DEF part
<1>. QED
  BY <1>1, <1>2

(* A scope with as many cores as qv_hw_obj_count reports can be created,   *)
(* one with more cannot, and the child has exactly the cores asked for; a  *)
(* scope with devices cannot be created, however many are counted.         *)
THEOREM CreatedAsCounted == Spec => []CreateMatchesCount
<1>1. Init => CreateMatchesCount
  BY DEF Init, CreateMatchesCount
<1>2. Next => CreateMatchesCount'
  <2>. SUFFICES ASSUME Next, call' = "create" PROVE CreateMatchesCount'
    BY DEF CreateMatchesCount
  <2>1. CallCreate
    BY OneCall
  <2>2. PICK cpuset \in SUBSET PUs : \E type \in {"CORE", "GPU"}, nobjs \in Counts :
           input' = <<cpuset, type, nobjs>> /\ output' = get_cpuset_for_nobjs(cpuset, type, nobjs)
    BY <2>1 DEF CallCreate, Called
  <2>3. PICK type \in {"CORE", "GPU"}, nobjs \in Counts :
           input' = <<cpuset, type, nobjs>> /\ output' = get_cpuset_for_nobjs(cpuset, type, nobjs)
    BY <2>2
  <2>4. nobjs \in Nat
    BY InputAssumption DEF Counts
  <2>5. input'[1] = cpuset /\ input'[2] = type /\ input'[3] = nobjs
    BY <2>3
  <2>6. IF nobjs > (IF type = "GPU" THEN 0 ELSE get_nobjs_in_cpuset(type, cpuset))
        THEN output'.rc # "SUCCESS"
        ELSE /\ output'.rc = "SUCCESS" /\ output'.cpuset \subseteq cpuset
             /\ get_nobjs_in_cpuset("CORE", output'.cpuset) = nobjs
             /\ output'.cpuset = UNION get_objs_in_cpuset(output'.cpuset)
    <3>1. CASE type = "CORE"
      BY <2>3, <2>4, <3>1, CreatedCores
    <3>2. CASE type = "GPU"
      BY <2>3, <2>4, <3>2, CreatedDevices
    <3>. QED
      BY <3>1, <3>2
  <2>. QED
    BY <2>5, <2>6 DEF CreateMatchesCount
<1>3. CreateMatchesCount /\ [Next]_vars => CreateMatchesCount'
  <2>1. ASSUME CreateMatchesCount, UNCHANGED vars PROVE CreateMatchesCount'
    BY <2>1 DEF vars, CreateMatchesCount
  <2>. QED
    BY <1>2, <2>1
<1>. QED
  BY <1>1, <1>3, PTL DEF Spec

-----------------------------------------------------------------------------
(* qvi_map_packed and qvi_map_spread: both map every source to one         *)
(* destination, with the same shares, and differ in which source goes      *)
(* where.                                                                  *)

Class(n, f, d) == {s \in Sources(n) : f[s] = d}
Share(n, m, d) == (n \div m) + (IF d < n % m THEN 1 ELSE 0)
Shares(n, m, f) ==
    /\ f \in [Sources(n) -> Destinations(m)]
    /\ \A d \in Destinations(m) : Cardinality(Class(n, f, d)) = Share(n, m, d)
Single(n, f) == [s \in Sources(n) |-> {f[s]}]

LEMMA ShareFacts ==
    ASSUME NEW n \in Nat, NEW m \in Nat, 0 < m, m <= n
    PROVE  /\ \A d \in Destinations(m) : Share(n, m, d) \in Nat /\ Share(n, m, d) >= 1
           /\ \A d, e \in Destinations(m) : Share(n, m, d) <= Share(n, m, e) + 1
           /\ n = m => \A d \in Destinations(m) : Share(n, m, d) = 1
<1>1. n = m * (n \div m) + (n % m) /\ n % m \in 0..(m - 1) /\ n \div m \in Nat
  OBVIOUS
<1>2. n \div m # 0
  <2>. SUFFICES ASSUME n \div m = 0 PROVE FALSE
    OBVIOUS
  <2>. QED
    BY <1>1
<1>3. ASSUME n = m PROVE n \div m = 1 /\ n % m = 0
  BY <1>1, <1>2, <1>3
<1>. QED
  BY <1>1, <1>2, <1>3 DEF Share, Destinations

LEMMA SharesBalanced ==
    ASSUME NEW n \in Nat, NEW m \in Nat, 0 < m, m <= n, NEW f, Shares(n, m, f)
    PROVE  LET map == Single(n, f)
               inverse == invert_map(map)
           IN  /\ Balanced(map, n, m)
               /\ \A d \in Destinations(m) : Preimage(map, d) = Class(n, f, d)
               /\ inverse = [d \in Destinations(m) |-> Class(n, f, d)]
               /\ Balanced(inverse, m, n)
               /\ \A s \in Sources(n) : Preimage(inverse, s) = {f[s]}
<1>. DEFINE map == Single(n, f)
            inverse == invert_map(map)
            S == Sources(n)
            D == Destinations(m)
            class(d) == Class(n, f, d)
            size(d) == Share(n, m, d)
<1>1. /\ \A s \in S : f[s] \in D
      /\ \A d \in D : Cardinality(class(d)) = size(d)
  BY DEF Shares
<1>2. /\ \A d \in D : size(d) \in Nat /\ size(d) >= 1
      /\ \A d, e \in D : size(d) <= size(e) + 1
      /\ n = m => \A d \in D : size(d) = 1
  BY ShareFacts
<1>3. \A d \in D : \E s \in S : f[s] = d
  <2>. SUFFICES ASSUME NEW d \in D, class(d) = {} PROVE FALSE
    BY DEF Class
  <2>1. Cardinality(class(d)) = 0
    BY FS_EmptySet
  <2>. QED
    BY <1>1, <1>2, <2>1
<1>4. /\ DOMAIN map = S /\ \A s \in S : map[s] = {f[s]}
  BY DEF Single
<1>5. Values(map) = D
  BY <1>1, <1>3, <1>4 DEF Values
<1>6. \A d \in D : Preimage(map, d) = class(d)
  BY <1>4 DEF Preimage, Class
<1>7. inverse = [d \in D |-> class(d)]
  BY <1>4, <1>5 DEF invert_map, Class
<1>8. Values(inverse) = S
  BY <1>1, <1>7 DEF Values, Class
<1>9. \A s \in S : Preimage(inverse, s) = {f[s]}
  BY <1>1, <1>7 DEF Preimage, Class
<1>10. \A x : Cardinality({x}) = 1
  BY FS_Singleton
<1>11. DOMAIN inverse = D /\ \A d \in D : Cardinality(inverse[d]) = size(d)
  BY <1>1, <1>7
<1>12. Sources(m) = D /\ Destinations(n) = S
  BY DEF Sources, Destinations
<1>13. \A d \in D : Load(map, d) = size(d)
  BY <1>1, <1>6 DEF Load
<1>14. \A s \in S : Load(inverse, s) = 1
  BY <1>9, <1>10 DEF Load
<1>15. \A s \in S : Cardinality(map[s]) = 1
  BY <1>4, <1>10
<1>. HIDE DEF map, inverse, S, D, class, size
<1>16. Balanced(map, n, m)
  <2>1. n <= m => n = m
    OBVIOUS
  <2>. QED
    BY <1>2, <1>4, <1>5, <1>13, <1>15, <2>1 DEF Balanced, S, D
<1>17. Balanced(inverse, m, n)
  <2>1. m >= n => n = m
    OBVIOUS
  <2>2. m >= n => \A s \in D : Cardinality(inverse[s]) = 1
    BY <1>2, <1>11, <2>1
  <2>3. \A d, e \in S : Load(inverse, d) <= Load(inverse, e) + 1
    BY <1>14
  <2>4. \A s, t \in D : Cardinality(inverse[s]) <= Cardinality(inverse[t]) + 1
    BY <1>2, <1>11
  <2>. QED
    BY <1>8, <1>11, <1>12, <1>14, <2>2, <2>3, <2>4 DEF Balanced
<1>. QED
  BY <1>6, <1>7, <1>9, <1>16, <1>17 DEF map, inverse, S, D, class

(* The packed mapping, in the direction in which it is solved. *)
LEMMA PackedShares ==
    ASSUME NEW n \in Nat, NEW m \in Nat, 0 < m, m <= n
    PROVE  LET source_id == source_ids(n \div m, n % m)
               map == [s \in 0..(n - 1) |->
                         {d \in 0..(m - 1) : source_id[d] <= s /\ s < source_id[d + 1]}]
           IN  \E f : /\ map = Single(n, f) /\ Shares(n, m, f)
                      /\ \A d \in Destinations(m) : Consecutive(Class(n, f, d))
<1>. DEFINE base == n \div m
            extra == n % m
            id == source_ids(base, extra)
            P(i) == ChunkStart(base, extra, i)
            map == [s \in 0..(n - 1) |-> {d \in 0..(m - 1) : id[d] <= s /\ s < id[d + 1]}]
            fits(s, d) == P(d) <= s /\ s < P(d + 1)
            f == [s \in Sources(n) |-> CHOOSE d \in Destinations(m) : fits(s, d)]
<1>1. base \in Nat /\ extra \in Nat /\ P(m) = n
  <2>1. m \in Nat \ {0}
    OBVIOUS
  <2>. QED
    BY <2>1, LastChunk, Zenon
<1>2. \A d \in Nat : id[d] = P(d)
  BY <1>1, SourceIds
<1>3. map = [s \in Sources(n) |-> {d \in Destinations(m) : fits(s, d)}]
  BY <1>2 DEF Sources, Destinations
<1>4. /\ P(0) = 0
      /\ \A i \in Nat : P(i) \in Nat /\ P(i + 1) = P(i) + base + (IF i < extra THEN 1 ELSE 0)
      /\ \A i, j \in Nat : i <= j => P(i) <= P(j)
  <2>1. /\ \A i \in Nat : P(i) \in Nat
        /\ P(0) = 0
        /\ \A i \in Nat : P(i + 1) = P(i) + base + (IF i < extra THEN 1 ELSE 0)
        /\ \A i, j \in Nat : i <= j => P(i) <= P(j)
    <3>. HIDE DEF base, extra
    <3>. QED
      BY <1>1, ChunkFacts
  <2>. HIDE DEF P, base, extra
  <2>. QED
    BY <2>1
<1>5. ASSUME NEW s \in Sources(n) PROVE \E d \in Destinations(m) : fits(s, d)
  <2>. HIDE DEF base, extra
  <2>1. s \in Nat /\ s < P(m)
    BY <1>1 DEF Sources
  <2>. QED
    BY <1>1, <2>1, InSomeChunk DEF Destinations
<1>6. ASSUME NEW s \in Sources(n), NEW d \in Destinations(m), NEW e \in Destinations(m),
             fits(s, d), fits(s, e)
      PROVE  d = e
  <2>. HIDE DEF base, extra, P
  <2>1. d \in Nat /\ e \in Nat /\ s \in Nat
    BY DEF Sources, Destinations
  <2>2. ~(d < e)
    <3>. SUFFICES ASSUME d < e PROVE FALSE
      OBVIOUS
    <3>1. P(d + 1) <= P(e)
      BY <1>4, <2>1
    <3>. QED
      BY <1>4, <1>6, <2>1, <3>1
  <2>3. ~(e < d)
    <3>. SUFFICES ASSUME e < d PROVE FALSE
      OBVIOUS
    <3>1. P(e + 1) <= P(d)
      BY <1>4, <2>1
    <3>. QED
      BY <1>4, <1>6, <2>1, <3>1
  <2>. QED
    BY <2>1, <2>2, <2>3
<1>. HIDE DEF fits
<1>7. \A s \in Sources(n) : f[s] \in Destinations(m) /\ fits(s, f[s])
  BY <1>5
<1>8. \A s \in Sources(n), d \in Destinations(m) : f[s] = d <=> fits(s, d)
  BY <1>6, <1>7
<1>. HIDE DEF f
<1>9. map = Single(n, f)
  <2>1. ASSUME NEW s \in Sources(n) PROVE {d \in Destinations(m) : fits(s, d)} = {f[s]}
    BY <1>7, <1>8
  <2>. HIDE DEF map
  <2>. QED
    BY <1>3, <2>1 DEF Single
<1>10. ASSUME NEW d \in Destinations(m)
       PROVE  /\ Class(n, f, d) = P(d)..(P(d + 1) - 1)
              /\ Cardinality(Class(n, f, d)) = Share(n, m, d)
  <2>1. d \in Nat /\ d + 1 \in Nat /\ d + 1 <= m
    BY DEF Destinations
  <2>. HIDE DEF P
  <2>2. P(d) \in Nat /\ P(d + 1) \in Nat /\ P(d) <= P(d + 1) /\ P(d + 1) <= n
    BY <1>1, <1>4, <2>1
  <2>3. Class(n, f, d) = P(d)..(P(d + 1) - 1)
    <3>1. ASSUME NEW s PROVE s \in Class(n, f, d) <=> s \in Sources(n) /\ fits(s, d)
      BY <1>8 DEF Class
    <3>2. ASSUME NEW s PROVE s \in Sources(n) /\ fits(s, d) <=> s \in P(d)..(P(d + 1) - 1)
      BY <2>2 DEF fits, Sources
    <3>. QED
      BY <3>1, <3>2
  <2>4. Cardinality(P(d)..(P(d + 1) - 1)) = P(d + 1) - P(d)
    <3>1. P(d) \in Int /\ P(d + 1) - 1 \in Int
      BY <2>2
    <3>2. Cardinality(P(d)..(P(d + 1) - 1)) =
            IF P(d) > P(d + 1) - 1 THEN 0 ELSE (P(d + 1) - 1) - P(d) + 1
      BY <3>1, FS_Interval
    <3>. QED
      BY <2>2, <3>2
  <2>5. Share(n, m, d) = base + (IF d < extra THEN 1 ELSE 0)
    BY DEF Share
  <2>6. P(d + 1) = P(d) + base + (IF d < extra THEN 1 ELSE 0)
    BY <1>4, <2>1
  <2>. HIDE DEF base, extra
  <2>7. P(d + 1) - P(d) = base + (IF d < extra THEN 1 ELSE 0)
    BY <1>1, <2>2, <2>6
  <2>. QED
    BY <2>3, <2>4, <2>5, <2>7
<1>11. Shares(n, m, f)
  <2>1. f \in [Sources(n) -> Destinations(m)]
    BY <1>7 DEF f
  <2>. QED
    BY <1>10, <2>1 DEF Shares
<1>12. \A d \in Destinations(m) : Consecutive(Class(n, f, d))
  <2>. SUFFICES ASSUME NEW d \in Destinations(m) PROVE Consecutive(P(d)..(P(d + 1) - 1))
    BY <1>10
  <2>. HIDE DEF P
  <2>1. P(d) \in Nat /\ P(d + 1) \in Nat
    BY <1>4 DEF Destinations
  <2>. QED
    BY <2>1 DEF Consecutive
<1>. HIDE DEF map, Single
<1>. QED
  BY <1>9, <1>11, <1>12 DEF map, id, base, extra

(* qvi_map_packed keeps neighbours together and balances the load, for     *)
(* any numbers of sources and destinations.                                *)
LEMMA PackedBalanced ==
    ASSUME NEW n \in Nat, NEW m \in Nat, 0 < n, 0 < m
    PROVE  LET map == qvi_map_packed(n, m)
           IN  /\ Balanced(map, n, m)
               /\ \A d \in Destinations(m) : Consecutive(Preimage(map, d))
               /\ \A s \in Sources(n) : Consecutive(map[s])
<1>. DEFINE solved(a, b) == [s \in 0..(a - 1) |->
                {d \in 0..(b - 1) : source_ids(a \div b, a % b)[d] <= s
                                    /\ s < source_ids(a \div b, a % b)[d + 1]}]
<1>0. ASSUME NEW x PROVE x \in Int => Consecutive({x})
  BY DEF Consecutive
<1>1. CASE m <= n
  <2>1. qvi_map_packed(n, m) = solved(n, m)
    BY <1>1 DEF qvi_map_packed
  <2>2. PICK f : /\ solved(n, m) = Single(n, f) /\ Shares(n, m, f)
                 /\ \A d \in Destinations(m) : Consecutive(Class(n, f, d))
    BY <1>1, PackedShares
  <2>. HIDE DEF solved
  <2>3. /\ Balanced(Single(n, f), n, m)
        /\ \A d \in Destinations(m) : Preimage(Single(n, f), d) = Class(n, f, d)
    BY <1>1, <2>2, SharesBalanced
  <2>4. \A s \in Sources(n) : Single(n, f)[s] = {f[s]} /\ f[s] \in Int
    BY <2>2 DEF Single, Shares, Destinations
  <2>. QED
    BY <1>0, <2>1, <2>2, <2>3, <2>4
<1>2. CASE n < m
  <2>1. qvi_map_packed(n, m) = invert_map(solved(m, n))
    BY <1>2 DEF qvi_map_packed
  <2>2. PICK f : /\ solved(m, n) = Single(m, f) /\ Shares(m, n, f)
                 /\ \A d \in Destinations(n) : Consecutive(Class(m, f, d))
    <3>1. n <= m
      BY <1>2
    <3>. QED
      BY <3>1, PackedShares
  <2>. HIDE DEF solved
  <2>. DEFINE inverse == invert_map(Single(m, f))
  <2>3. /\ inverse = [d \in Destinations(n) |-> Class(m, f, d)]
        /\ Balanced(inverse, n, m)
        /\ \A s \in Sources(m) : Preimage(inverse, s) = {f[s]}
    BY <1>2, <2>2, SharesBalanced
  <2>4. \A s \in Sources(m) : f[s] \in Int
    BY <2>2 DEF Shares, Destinations
  <2>5. Sources(n) = Destinations(n) /\ Sources(m) = Destinations(m)
    BY DEF Sources, Destinations
  <2>. HIDE DEF inverse
  <2>6. qvi_map_packed(n, m) = inverse
    BY <2>1, <2>2 DEF inverse
  <2>. QED
    BY <1>0, <2>2, <2>3, <2>4, <2>5, <2>6
<1>. QED
  BY <1>1, <1>2

(* The call of qvi_map_packed, as a theorem of the specification. *)
THEOREM PackedTogether == Spec => []PackedPacks
<1>1. Init => PackedPacks
  BY DEF Init, PackedPacks
<1>2. Next => PackedPacks'
  <2>. SUFFICES ASSUME Next, call' = "packed", input'[1] > 0, input'[2] > 0 PROVE PackedPacks'
    BY DEF PackedPacks
  <2>1. CallPacked
    BY OneCall
  <2>2. PICK n \in Counts, m \in Counts : Called("packed", <<n, m>>, qvi_map_packed(n, m))
    BY <2>1 DEF CallPacked
  <2>3. input' = <<n, m>> /\ output' = qvi_map_packed(n, m)
    BY <2>2 DEF Called
  <2>4. n \in Nat /\ m \in Nat /\ 0 < n /\ 0 < m
    BY <2>3, InputAssumption DEF Counts
  <2>5. LET map == output'
        IN  /\ Balanced(map, n, m)
            /\ \A d \in Destinations(m) : Consecutive(Preimage(map, d))
            /\ \A s \in Sources(n) : Consecutive(map[s])
    BY <2>3, <2>4, PackedBalanced
  <2>6. input'[1] = n /\ input'[2] = m
    BY <2>3
  <2>. QED
    BY <2>5, <2>6 DEF PackedPacks
<1>3. PackedPacks /\ UNCHANGED vars => PackedPacks'
  BY DEF PackedPacks, vars
<1>. QED
  BY <1>1, <1>2, <1>3, PTL DEF Spec

(* Division with remainder, the other way round. *)
LEMMA Remainder ==
    ASSUME NEW m \in Nat, 0 < m, NEW k \in Nat, NEW d \in 0..(m - 1)
    PROVE  (d + k * m) % m = d
<1>. DEFINE x == d + k * m
            q == x \div m
            r == x % m
<1>0. k * m \in Nat /\ x \in Nat
  OBVIOUS
<1>1. x = m * q + r /\ r \in 0..(m - 1) /\ q \in Nat
  <2>. HIDE DEF x
  <2>. QED
    BY <1>0 DEF q, r
<1>. HIDE DEF q, r
<1>2. ~(q < k)
  <2>. SUFFICES ASSUME q < k PROVE FALSE
    OBVIOUS
  <2>1. PICK j \in Nat : k = q + 1 + j
    <3>1. k - q - 1 \in Nat /\ k = q + 1 + (k - q - 1)
      BY <1>1
    <3>. QED
      BY <3>1
  <2>2. k * m = m * q + m + j * m /\ j * m \in Nat
    BY <1>1, <2>1
  <2>. QED
    BY <1>0, <1>1, <2>2
<1>3. ~(k < q)
  <2>. SUFFICES ASSUME k < q PROVE FALSE
    OBVIOUS
  <2>1. PICK j \in Nat : q = k + 1 + j
    <3>1. q - k - 1 \in Nat /\ q = k + 1 + (q - k - 1)
      BY <1>1
    <3>. QED
      BY <3>1
  <2>2. m * q = k * m + m + j * m /\ j * m \in Nat
    BY <1>1, <2>1
  <2>. QED
    BY <1>0, <1>1, <2>2
<1>4. q = k
  BY <1>1, <1>2, <1>3
<1>5. m * q = k * m
  BY <1>4
<1>. QED
  BY <1>0, <1>1, <1>5 DEF r, x

(* The spread mapping, in the direction in which it is solved: every m-th  *)
(* source has the same destination.                                        *)
LEMMA SpreadShares ==
    ASSUME NEW n \in Nat, NEW m \in Nat, 0 < m, m <= n
    PROVE  Shares(n, m, [s \in Sources(n) |-> s % m])
<1>. DEFINE f == [s \in Sources(n) |-> s % m]
            base == n \div m
            extra == n % m
<1>1. f \in [Sources(n) -> Destinations(m)]
  BY DEF Sources, Destinations
<1>2. n = m * base + extra /\ extra \in 0..(m - 1) /\ base \in Nat
  OBVIOUS
<1>3. ASSUME NEW d \in Destinations(m)
      PROVE  Cardinality(Class(n, f, d)) = Share(n, m, d)
  <2>. DEFINE c == Share(n, m, d)
              g == [k \in Sources(c) |-> d + k * m]
              C == Class(n, f, d)
  <2>0. d \in 0..(m - 1) /\ d \in Nat
    BY DEF Destinations
  <2>1. c = base + (IF d < extra THEN 1 ELSE 0)
    BY DEF Share
  <2>. HIDE DEF base, extra
  <2>2. c \in Nat
    BY <1>2, <2>1
  <2>. HIDE DEF c
  <2>3. ASSUME NEW k \in Sources(c)
        PROVE  d + k * m \in C
    <3>1. k \in Nat /\ k * m \in Nat /\ d + k * m \in Nat
      BY <2>0, <2>2 DEF Sources
    <3>2. (d + k * m) % m = d
      BY <2>0, <3>1, Remainder
    <3>3. d + k * m < n
      <4>1. CASE d < extra
        <5>1. k <= base
          BY <1>2, <2>1, <2>2, <4>1 DEF Sources
        <5>2. k * m <= m * base
          <6>1. PICK j \in Nat : base = k + j
            <7>1. base - k \in Nat /\ base = k + (base - k)
              BY <1>2, <3>1, <5>1
            <7>. QED
              BY <7>1
          <6>2. m * base = k * m + j * m /\ j * m \in Nat
            BY <3>1, <6>1
          <6>. QED
            BY <3>1, <6>2
        <5>3. m * base \in Nat
          BY <1>2
        <5>. QED
          BY <1>2, <2>0, <3>1, <4>1, <5>2, <5>3
      <4>2. CASE ~(d < extra)
        <5>1. k + 1 <= base
          BY <1>2, <2>1, <2>2, <4>2 DEF Sources
        <5>2. k * m + m <= m * base
          <6>1. PICK j \in Nat : base = k + 1 + j
            <7>1. base - k - 1 \in Nat /\ base = k + 1 + (base - k - 1)
              BY <1>2, <3>1, <5>1
            <7>. QED
              BY <7>1
          <6>2. m * base = k * m + m + j * m /\ j * m \in Nat
            BY <3>1, <6>1
          <6>. QED
            BY <3>1, <6>2
        <5>3. m * base \in Nat
          BY <1>2
        <5>. QED
          BY <1>2, <2>0, <3>1, <5>2, <5>3
      <4>. QED
        BY <4>1, <4>2
    <3>. DEFINE s == d + k * m
    <3>. HIDE DEF s
    <3>4. s \in Nat /\ s % m = d /\ s < n
      BY <3>1, <3>2, <3>3 DEF s
    <3>5. s \in C
      BY <3>4 DEF Class, Sources
    <3>. QED
      BY <3>5 DEF s
  <2>4. ASSUME NEW s \in C PROVE \E k \in Sources(c) : s = d + k * m
    <3>1. s \in Nat /\ s < n /\ s % m = d
      BY DEF Class, Sources
    <3>. DEFINE k == s \div m
    <3>2. s = m * k + d /\ k \in Nat
      BY <3>1
    <3>. HIDE DEF k
    <3>3. k < c
      <4>. SUFFICES ASSUME c <= k PROVE FALSE
        BY <2>2, <3>2
      <4>1. PICK j \in Nat : k = c + j
        <5>1. k - c \in Nat /\ k = c + (k - c)
          BY <2>2, <3>2
        <5>. QED
          BY <5>1
      <4>2. m * k = m * c + m * j /\ m * j \in Nat /\ m * c \in Nat
        BY <2>2, <4>1
      <4>3. CASE d < extra
        <5>1. c = base + 1
          BY <1>2, <2>1, <4>3
        <5>2. m * c = m * base + m /\ m * base \in Nat
          BY <1>2, <5>1
        <5>. QED
          BY <1>2, <2>0, <3>1, <3>2, <4>2, <5>2
      <4>4. CASE ~(d < extra)
        <5>1. c = base
          BY <1>2, <2>1, <4>4
        <5>. QED
          BY <1>2, <2>0, <3>1, <3>2, <4>2, <4>4, <5>1
      <4>. QED
        BY <4>3, <4>4
    <3>4. k \in Sources(c) /\ s = d + k * m
      BY <2>0, <2>2, <3>2, <3>3 DEF Sources
    <3>. QED
      BY <3>4
  <2>5. ASSUME NEW k \in Sources(c), NEW l \in Sources(c), d + k * m = d + l * m PROVE k = l
    <3>1. k \in Nat /\ l \in Nat
      BY <2>2 DEF Sources
    <3>2. k * m = l * m /\ k * m \in Nat /\ l * m \in Nat
      BY <2>0, <2>5, <3>1
    <3>. QED
      BY <3>1, <3>2
  <2>6. g \in Bijection(Sources(c), C)
    <3>. HIDE DEF C
    <3>1. g \in [Sources(c) -> C]
      BY <2>3
    <3>2. \A k, l \in Sources(c) : g[k] = g[l] => k = l
      BY <2>5
    <3>3. \A s \in C : \E k \in Sources(c) : g[k] = s
      BY <2>4
    <3>. HIDE DEF g
    <3>. QED
      BY <3>1, <3>2, <3>3 DEF Bijection, Injection, Surjection, IsInjective
  <2>7. IsFiniteSet(Sources(c)) /\ Cardinality(Sources(c)) = c
    BY <2>2, SourcesFinite
  <2>. HIDE DEF g, C
  <2>8. Cardinality(Sources(c)) = Cardinality(C)
    BY <2>6, <2>7, FS_Bijection DEF ExistsBijection
  <2>. QED
    BY <2>7, <2>8 DEF C, c
<1>. QED
  BY <1>1, <1>3 DEF Shares

(* Neighbouring numbers have different remainders. *)
LEMMA NeighboursApart ==
    ASSUME NEW m \in Nat, 1 < m, NEW s \in Nat
    PROVE  s % m # (s + 1) % m
<1>. DEFINE d == s % m
            k == s \div m
<1>1. s = m * k + d /\ d \in 0..(m - 1) /\ k \in Nat
  OBVIOUS
<1>. HIDE DEF d, k
<1>2. CASE d + 1 < m
  <2>1. s + 1 = (d + 1) + k * m /\ d + 1 \in 0..(m - 1)
    BY <1>1, <1>2
  <2>2. (s + 1) % m = d + 1
    <3>1. ((d + 1) + k * m) % m = d + 1
      BY <1>1, <2>1, Remainder
    <3>. QED
      BY <2>1, <3>1
  <2>. QED
    BY <1>1, <2>2 DEF d
<1>3. CASE ~(d + 1 < m)
  <2>1. d = m - 1
    BY <1>1, <1>3
  <2>2. s + 1 = 0 + (k + 1) * m /\ 0 \in 0..(m - 1) /\ k + 1 \in Nat
    BY <1>1, <2>1
  <2>3. (s + 1) % m = 0
    <3>. DEFINE z == 0
                l == k + 1
    <3>1. z \in 0..(m - 1) /\ l \in Nat /\ 0 < m
      BY <2>2
    <3>. HIDE DEF z, l
    <3>2. (z + l * m) % m = z
      BY <3>1, Remainder
    <3>. QED
      BY <2>2, <3>2 DEF z, l
  <2>. QED
    BY <2>1, <2>3 DEF d
<1>. QED
  BY <1>2, <1>3

(* What qvi_map_spread computes, in both directions. *)
LEMMA SpreadBalanced ==
    ASSUME NEW n \in Nat, NEW m \in Nat, 0 < n, 0 < m
    PROVE  LET map == qvi_map_spread(n, m)
           IN  /\ Balanced(map, n, m)
               /\ \A s \in 0..(n - 2) : m > 1 => map[s] # map[s + 1]
<1>1. CASE m <= n
  <2>. DEFINE f == [s \in Sources(n) |-> s % m]
  <2>1. qvi_map_spread(n, m) = Single(n, f)
    <3>1. ~(n < m)
      BY <1>1
    <3>2. qvi_map_spread(n, m) = [s \in 0..(n - 1) |-> {s % m}]
      BY <3>1, Zenon DEF qvi_map_spread
    <3>3. \A s \in Sources(n) : f[s] = s % m
      OBVIOUS
    <3>. HIDE DEF f
    <3>. QED
      BY <3>2, <3>3 DEF Single, Sources
  <2>2. Shares(n, m, f)
    BY <1>1, SpreadShares
  <2>3. ASSUME NEW s \in 0..(n - 2), m > 1 PROVE Single(n, f)[s] # Single(n, f)[s + 1]
    <3>1. s \in Sources(n) /\ s + 1 \in Sources(n) /\ s \in Nat
      BY DEF Sources
    <3>2. s % m # (s + 1) % m
      BY <2>3, <3>1, NeighboursApart
    <3>. QED
      BY <3>1, <3>2 DEF Single
  <2>. HIDE DEF f
  <2>4. Balanced(Single(n, f), n, m)
    BY <1>1, <2>2, SharesBalanced
  <2>. QED
    BY <2>1, <2>3, <2>4
<1>2. CASE n < m
  <2>. DEFINE f == [s \in Sources(m) |-> s % n]
              inverse == invert_map(Single(m, f))
  <2>0. n <= m
    BY <1>2
  <2>1. qvi_map_spread(n, m) = inverse
    BY <1>2 DEF qvi_map_spread, Single, Sources
  <2>2. Shares(m, n, f)
    BY <2>0, SpreadShares
  <2>. HIDE DEF f
  <2>3. /\ inverse = [d \in Destinations(n) |-> Class(m, f, d)]
        /\ Balanced(inverse, n, m)
    BY <2>0, <2>2, SharesBalanced
  <2>. HIDE DEF inverse
  <2>4. ASSUME NEW s \in 0..(n - 2) PROVE inverse[s] # inverse[s + 1]
    <3>1. s \in Destinations(n) /\ s + 1 \in Destinations(n) /\ s # s + 1
      BY DEF Destinations
    <3>2. Class(m, f, s) # {}
      <4>. SUFFICES ASSUME Class(m, f, s) = {} PROVE FALSE
        OBVIOUS
      <4>1. Cardinality(Class(m, f, s)) = 0
        BY FS_EmptySet
      <4>2. Cardinality(Class(m, f, s)) = Share(m, n, s)
        BY <2>2, <3>1 DEF Shares
      <4>3. Share(m, n, s) \in Nat /\ Share(m, n, s) >= 1
        BY <2>0, <3>1, ShareFacts
      <4>. QED
        BY <4>1, <4>2, <4>3
    <3>3. PICK t : t \in Class(m, f, s)
      BY <3>2
    <3>4. t \notin Class(m, f, s + 1)
      BY <3>1, <3>3 DEF Class
    <3>. QED
      BY <2>3, <3>1, <3>3, <3>4
  <2>. QED
    BY <2>1, <2>3, <2>4
<1>. QED
  BY <1>1, <1>2

(* Nothing to map. *)
LEMMA SpreadNothing == Balanced(qvi_map_spread(0, 0), 0, 0) /\ \A s \in 0..(0 - 2) : FALSE
<1>1. qvi_map_spread(0, 0) = [s \in {} |-> {s % 0}]
  BY DEF qvi_map_spread
<1>2. Sources(0) = {} /\ Destinations(0) = {}
  BY DEF Sources, Destinations
<1>. DEFINE map == qvi_map_spread(0, 0)
<1>3. DOMAIN map = {} /\ Values(map) = {}
  BY <1>1 DEF Values
<1>. HIDE DEF map
<1>4. Balanced(map, 0, 0)
  BY <1>2, <1>3 DEF Balanced
<1>. QED
  BY <1>4 DEF map

(* qvi_map_spread balances the load and separates neighbours, for any      *)
(* numbers of sources and destinations for which it does not divide by 0.  *)
THEOREM SpreadApart == Spec => []SpreadSpreads
<1>1. Init => SpreadSpreads
  BY DEF Init, SpreadSpreads
<1>2. Next => SpreadSpreads'
  <2>. SUFFICES ASSUME Next, call' = "spread" PROVE SpreadSpreads'
    BY DEF SpreadSpreads
  <2>1. CallSpread
    BY OneCall
  <2>2. PICK n \in Counts, m \in Counts :
           ~spread_divides_by_zero(n, m) /\ Called("spread", <<n, m>>, qvi_map_spread(n, m))
    BY <2>1 DEF CallSpread
  <2>3. input' = <<n, m>> /\ output' = qvi_map_spread(n, m)
    BY <2>2 DEF Called
  <2>4. n \in Nat /\ m \in Nat /\ (n = 0 <=> m = 0)
    BY <2>2, InputAssumption DEF Counts, spread_divides_by_zero
  <2>5. /\ Balanced(qvi_map_spread(n, m), n, m)
        /\ \A s \in 0..(n - 2) : m > 1 => qvi_map_spread(n, m)[s] # qvi_map_spread(n, m)[s + 1]
    <3>1. CASE n = 0
      <4>1. n = 0 /\ m = 0
        BY <2>4, <3>1
      <4>. QED
        BY <4>1, SpreadNothing
    <3>2. CASE n # 0
      BY <2>4, <3>2, SpreadBalanced
    <3>. QED
      BY <3>1, <3>2
  <2>6. input'[1] = n /\ input'[2] = m
    BY <2>3
  <2>. QED
    BY <2>3, <2>5, <2>6 DEF SpreadSpreads
<1>3. SpreadSpreads /\ UNCHANGED vars => SpreadSpreads'
  BY DEF SpreadSpreads, vars
<1>. QED
  BY <1>1, <1>2, <1>3, PTL DEF Spec

-----------------------------------------------------------------------------
(* thread_split *)

(* The pieces, if there are any, are all of what is split. *)
LEMMA PiecesCover ==
    ASSUME NEW base_hwpool \in HwPools, NEW type, NEW split_size \in Nat, NEW n \in Nat,
           DOMAIN m_split_cpuset(base_hwpool, type, split_size, n) # {}
    PROVE  LET cpusets == m_split_cpuset(base_hwpool, type, split_size, n)
           IN  \A p \in m_primary_cpuset_for_split(base_hwpool, type) :
                  \E i \in DOMAIN cpusets : p \in cpusets[i]
<1>. DEFINE primary == m_primary_cpuset_for_split(base_hwpool, type)
            real == IF split_size < n THEN split_size ELSE n
            cpusets == bitmap_split(primary, real)
<1>1. primary \subseteq PUs
  BY SplitCpusets
<1>2. primary \in SUBSET Nat /\ IsFiniteSet(primary)
  BY <1>1, HardwareAssumption, FS_Subset
<1>3. m_split_cpuset(base_hwpool, type, split_size, n) = cpusets
  BY DEF m_split_cpuset
<1>4. real \in Nat
  OBVIOUS
<1>. HIDE DEF primary, real
<1>5. Cardinality(primary) \in Nat
  BY <1>2, FS_CardinalityType
<1>6. 0 < real /\ real <= Cardinality(primary)
  <2>1. ~(real = 0 \/ real > Cardinality(primary))
    BY <1>2, <1>3, <1>4, SplitPieces
  <2>. QED
    BY <1>4, <1>5, <2>1
<1>7. cpusets = [i \in 0..(real - 1) |-> PieceOf(primary, real, i)]
  BY <1>2, <1>4, <1>6, SplitPieces
<1>8. \A p \in primary : \E i \in 0..(real - 1) : p \in PieceOf(primary, real, i)
  BY <1>2, <1>4, <1>6, PieceFacts
<1>. HIDE DEF cpusets
<1>9. \A p \in primary : \E i \in DOMAIN cpusets : p \in cpusets[i]
  BY <1>7, <1>8
<1>. QED
  BY <1>3, <1>9 DEF primary

(* A split with pieces that succeeds has mapped every task. *)
LEMMA SplitMapped ==
    ASSUME NEW base_hwpool \in HwPools, NEW type, NEW split_size \in Nat, NEW n \in Nat \ {0},
           NEW affinities, DOMAIN affinities = 0..(n - 1), NEW colors \in [0..(n - 1) -> Int],
           NEW result \in m_split(base_hwpool, type, split_size, affinities, colors),
           result.kind = "rc", result.rc = "SUCCESS",
           DOMAIN m_split_cpuset(base_hwpool, type, split_size, n) # {}
    PROVE  LET cpusets == m_split_cpuset(base_hwpool, type, split_size, n)
               hres_map(k) == map_fn(m_determine_mapping(colors, k), affinities, cpusets, n)
           IN  \E k \in 1..n :
                  /\ DOMAIN cpusets = 0..(k - 1) /\ Cardinality(DOMAIN cpusets) = k
                  /\ MapFits(hres_map(k), n, k)
                  /\ result \in apply_map(base_hwpool, cpusets, hres_map(k), n)
<1>. DEFINE primary == m_primary_cpuset_for_split(base_hwpool, type)
            cpusets == m_split_cpuset(base_hwpool, type, split_size, n)
<1>1. Cardinality(DOMAIN colors) = n
  BY SourcesFinite DEF Sources
<1>2. PICK k \in 0..n : PiecesFit(cpusets, primary, n, k)
  BY SplitCpusets
<1>. HIDE DEF primary, cpusets
<1>. DEFINE decision == m_determine_mapping(colors, k)
            hres_map == map_fn(decision, affinities, cpusets, n)
            failed == failures(decision, k, n)
<1>3. DOMAIN cpusets = 0..(k - 1) /\ Cardinality(DOMAIN cpusets) = k
  BY <1>2 DEF PiecesFit
<1>4. result \in IF failed # {} THEN failed ELSE apply_map(base_hwpool, cpusets, hres_map, n)
  BY <1>1, <1>3 DEF m_split, cpusets
<1>5. \/ decision.fn = "none" /\ failed \in {{Returns("ERR_SPLIT")}, {Returns("ERR_INVLD_ARG")}}
      \/ failed # {} /\ failed \subseteq {Throws, Crashes}
      \/ failed = {} /\ k > 0 /\ MapFits(hres_map, n, k)
      \/ /\ failed = {} /\ k = 0 /\ DOMAIN hres_map = {}
         /\ \A i \in 0..(n - 1) : colors[i] < 0
  BY <1>3, MappingDecided
<1>6. result \notin {Throws, Crashes, Returns("ERR_SPLIT"), Returns("ERR_INVLD_ARG")}
  BY DEF Throws, Crashes, Returns
<1>7. k # 0
  <2>1. DOMAIN cpusets # {}
    BY DEF cpusets
  <2>. QED
    BY <1>3, <2>1
<1>. HIDE DEF hres_map, failed, decision
<1>8. failed = {}
  BY <1>4, <1>5, <1>6
<1>9. k \in 1..n /\ MapFits(hres_map, n, k) /\ result \in apply_map(base_hwpool, cpusets, hres_map, n)
  BY <1>4, <1>5, <1>7, <1>8
<1>. QED
  BY <1>3, <1>9 DEF hres_map, decision, cpusets

(* Packed and spread use every piece. *)
LEMMA EvenMapping ==
    ASSUME NEW n \in Nat \ {0}, NEW k \in 1..n, NEW affinities, NEW cpusets,
           Cardinality(DOMAIN cpusets) = k,
           NEW color \in {QV_SCOPE_SPLIT_PACKED, QV_SCOPE_SPLIT_SPREAD},
           NEW colors, colors = [i \in 0..(n - 1) |-> color]
    PROVE  Balanced(map_fn(m_determine_mapping(colors, k), affinities, cpusets, n), n, k)
<1>. DEFINE S == {colors[i] : i \in DOMAIN colors}
            automatic == {<<QV_SCOPE_SPLIT_CLOSE, "close">>,
                          <<QV_SCOPE_SPLIT_PACKED, "packed">>,
                          <<QV_SCOPE_SPLIT_SPREAD, "spread">>}
            a == CHOOSE a \in automatic : S = {a[1]}
            name == IF color = QV_SCOPE_SPLIT_PACKED THEN "packed" ELSE "spread"
<1>1. S = {color}
  <2>1. 0 \in 0..(n - 1)
    OBVIOUS
  <2>. QED
    BY <2>1
<1>2. color < 0 /\ color \in Int
  BY DEF QV_SCOPE_SPLIT_PACKED, QV_SCOPE_SPLIT_SPREAD
<1>3. (\A c \in S : c < 0) /\ ~(\A c \in S : c >= 0)
  BY <1>1, <1>2
<1>4. a \in automatic /\ S = {a[1]}
  <2>1. <<color, name>> \in automatic /\ <<color, name>>[1] = color
    BY DEF QV_SCOPE_SPLIT_PACKED, QV_SCOPE_SPLIT_SPREAD
  <2>2. \E b \in automatic : S = {b[1]}
    BY <1>1, <2>1, Zenon
  <2>. HIDE DEF S, automatic
  <2>. QED
    BY <2>2, Zenon
<1>5. a[2] = name
  <2>. HIDE DEF a
  <2>1. a[1] = color
    BY <1>1, <1>4
  <2>. QED
    BY <1>4, <2>1 DEF QV_SCOPE_SPLIT_PACKED, QV_SCOPE_SPLIT_SPREAD, QV_SCOPE_SPLIT_CLOSE
<1>6. m_determine_mapping(colors, k) = Decision(name, colors)
  <2>1. m_determine_mapping(colors, k) = Decision(a[2], colors)
    <3>. HIDE DEF automatic
    <3>1. \E b \in automatic : S = {b[1]}
      BY <1>4, Zenon
    <3>. QED
      BY <1>3, <3>1 DEF m_determine_mapping, automatic
  <2>. QED
    BY <1>5, <2>1
<1>. DEFINE map == map_fn(Decision(name, colors), affinities, cpusets, n)
<1>7. n \in Nat /\ k \in Nat /\ 0 < n /\ 0 < k
  OBVIOUS
<1>8. CASE name = "packed"
  <2>1. map = qvi_map_packed(n, k)
    BY <1>8 DEF map_fn, Decision
  <2>. QED
    BY <1>6, <1>7, <2>1, PackedBalanced
<1>9. CASE name = "spread"
  <2>1. map = qvi_map_spread(n, k)
    BY <1>9 DEF map_fn, Decision
  <2>. QED
    BY <1>6, <1>7, <2>1, SpreadBalanced
<1>. QED
  BY <1>8, <1>9

(* Every task has a part of the hardware, parts are equal or disjoint, and *)
(* every device is in the pool of one task.                                *)
PoolsFair(base_hwpool, primary, n, pools) ==
    /\ DOMAIN pools = 0..(n - 1) /\ Cardinality(DOMAIN pools) = n
    /\ \A i \in DOMAIN pools : pools[i].cpuset # {} /\ pools[i].cpuset \subseteq primary
    /\ \A i, j \in DOMAIN pools : \/ pools[i].cpuset = pools[j].cpuset
                                  \/ pools[i].cpuset \cap pools[j].cpuset = {}
    /\ \A dev \in base_hwpool.devices :
          Cardinality({i \in DOMAIN pools : dev \in pools[i].devices}) = 1

LEMMA FairPools ==
    ASSUME NEW base_hwpool \in HwPools, NEW type, NEW split_size \in Nat, NEW n \in Nat \ {0},
           NEW affinities, DOMAIN affinities = 0..(n - 1), NEW colors \in [0..(n - 1) -> Int],
           NEW result \in m_split(base_hwpool, type, split_size, affinities, colors),
           result.kind = "rc", result.rc = "SUCCESS",
           DOMAIN m_split_cpuset(base_hwpool, type, split_size, n) # {}
    PROVE  PoolsFair(base_hwpool, m_primary_cpuset_for_split(base_hwpool, type), n, result.hwpools)
<1>. DEFINE primary == m_primary_cpuset_for_split(base_hwpool, type)
            I == 0..(n - 1)
            pools == result.hwpools
<1>1. SplitFits(base_hwpool, primary, n, colors, result)
  <2>1. result \notin {Throws, Crashes, Returns("ERR_SPLIT"), Returns("ERR_INVLD_ARG")}
    BY DEF Throws, Crashes, Returns
  <2>. QED
    BY <2>1, SplitOutcome
<1>2. DOMAIN result.colors = I
  <2>. DEFINE cpusets == m_split_cpuset(base_hwpool, type, split_size, n)
              hres_map(k) == map_fn(m_determine_mapping(colors, k), affinities, cpusets, n)
  <2>1. PICK k \in 1..n : /\ MapFits(hres_map(k), n, k)
                          /\ result \in apply_map(base_hwpool, cpusets, hres_map(k), n)
    BY SplitMapped
  <2>. HIDE DEF cpusets, hres_map
  <2>2. DOMAIN result.colors = DOMAIN hres_map(k)
    BY <2>1 DEF apply_map, Splits
  <2>. QED
    BY <2>1, <2>2 DEF MapFits
<1>. HIDE DEF primary
<1>3. ColorsFit(primary, n, result) /\ DevicesFit(base_hwpool, n, result)
  <2>1. 0 \in I
    OBVIOUS
  <2>. HIDE DEF I
  <2>. QED
    BY <1>1, <1>2, <2>1 DEF SplitFits
<1>4. DOMAIN pools = I
  BY <1>1 DEF SplitFits
<1>5. Cardinality(I) = n
  BY SourcesFinite DEF Sources
<1>6. \A i \in I : pools[i].cpuset # {} /\ pools[i].cpuset \subseteq primary
  BY <1>3 DEF ColorsFit
<1>7. \A i, j \in I : \/ pools[i].cpuset = pools[j].cpuset
                      \/ pools[i].cpuset \cap pools[j].cpuset = {}
  BY <1>3 DEF ColorsFit
<1>8. ASSUME NEW dev \in base_hwpool.devices
      PROVE  Cardinality({i \in I : dev \in pools[i].devices}) = 1
  <2>1. PICK t \in I : dev \in pools[t].devices
    BY <1>3 DEF DevicesFit
  <2>2. ASSUME NEW i \in I, dev \in pools[i].devices PROVE i = t
    <3>. SUFFICES ASSUME i # t PROVE FALSE
      OBVIOUS
    <3>1. pools[i].devices \cap pools[t].devices = {}
      BY <1>3, <2>2 DEF DevicesFit
    <3>. QED
      BY <2>1, <2>2, <3>1
  <2>3. {i \in I : dev \in pools[i].devices} = {t}
    BY <2>1, <2>2
  <2>. QED
    BY <2>3, FS_Singleton
<1>. HIDE DEF I, pools
<1>. QED
  BY <1>4, <1>5, <1>6, <1>7, <1>8 DEF I, pools, primary, PoolsFair

(* Packed and spread leave no processing unit idle. *)
LEMMA NothingIdle ==
    ASSUME NEW base_hwpool \in HwPools, NEW type, NEW split_size \in Nat, NEW n \in Nat \ {0},
           NEW affinities, DOMAIN affinities = 0..(n - 1),
           NEW color \in {QV_SCOPE_SPLIT_PACKED, QV_SCOPE_SPLIT_SPREAD},
           NEW colors \in [0..(n - 1) -> Int], colors = [i \in 0..(n - 1) |-> color],
           NEW result \in m_split(base_hwpool, type, split_size, affinities, colors),
           result.kind = "rc", result.rc = "SUCCESS",
           DOMAIN m_split_cpuset(base_hwpool, type, split_size, n) # {}
    PROVE  \A p \in m_primary_cpuset_for_split(base_hwpool, type) :
              \E i \in 0..(n - 1) : p \in result.hwpools[i].cpuset
<1>. DEFINE cpusets == m_split_cpuset(base_hwpool, type, split_size, n)
            primary == m_primary_cpuset_for_split(base_hwpool, type)
            mapped(k) == map_fn(m_determine_mapping(colors, k), affinities, cpusets, n)
            I == 0..(n - 1)
<1>1. PICK k \in 1..n : /\ DOMAIN cpusets = 0..(k - 1) /\ Cardinality(DOMAIN cpusets) = k
                        /\ MapFits(mapped(k), n, k)
                        /\ result \in apply_map(base_hwpool, cpusets, mapped(k), n)
  BY SplitMapped
<1>2. \A p \in primary : \E i \in DOMAIN cpusets : p \in cpusets[i]
  BY PiecesCover
<1>. HIDE DEF cpusets, primary
<1>3. Balanced(mapped(k), n, k)
  BY <1>1, EvenMapping
<1>. DEFINE map == mapped(k)
            last(t) == CHOOSE c \in map[t] : \A d \in map[t] : d <= c
<1>. HIDE DEF map
<1>4. DOMAIN map = I /\ Values(map) = 0..(k - 1) /\ \A s \in I : Cardinality(map[s]) = 1
  BY <1>3 DEF Balanced, Sources, Destinations, map
<1>5. \A t \in I : result.hwpools[t].cpuset = cpusets[last(t)]
  <2>1. result \in apply_map(base_hwpool, cpusets, map, n)
    BY <1>1 DEF map
  <2>. DEFINE pieces == [t \in I |-> IF t \in DOMAIN map THEN cpusets[last(t)] ELSE {}]
              devs == Ascending(base_hwpool.devices)
              dealt == devs2hres_map([i \in DOMAIN devs |-> affinity(devs[i])], pieces)
              mine(t) == {devs[d] : d \in {d \in DOMAIN dealt : t \in dealt[d]}}
  <2>2. result = Splits([t \in DOMAIN map |-> last(t)], [t \in I |-> Pool(pieces[t], mine(t))])
    BY <2>1 DEF apply_map, color_of_piece
  <2>3. \A t \in I : pieces[t] = cpusets[last(t)]
    BY <1>4
  <2>. HIDE DEF pieces, mine, last
  <2>4. result.hwpools = [t \in I |-> Pool(pieces[t], mine(t))]
    BY <2>2 DEF Splits
  <2>5. \A t \in I : result.hwpools[t].cpuset = pieces[t]
    BY <2>4 DEF Pool
  <2>. QED
    BY <2>3, <2>5
<1>6. ASSUME NEW c \in 0..(k - 1) PROVE \E t \in I : last(t) = c
  <2>1. PICK t \in I : c \in map[t]
    BY <1>4 DEF Values
  <2>2. IsFiniteSet(map[t]) /\ Cardinality(map[t]) = 1
    <3>1. map[t] \subseteq 0..(k - 1)
      BY <1>1 DEF MapFits, map
    <3>2. IsFiniteSet(0..(k - 1))
      BY FS_Interval
    <3>. QED
      BY <1>4, <3>1, <3>2, FS_Subset
  <2>3. PICK x : map[t] = {x}
    BY <2>2, FS_Singleton
  <2>4. map[t] = {c} /\ c \in Int
    BY <2>1, <2>3
  <2>5. last(t) = c
    BY <2>4
  <2>. QED
    BY <2>5
<1>. HIDE DEF last
<1>7. ASSUME NEW p \in primary PROVE \E i \in I : p \in result.hwpools[i].cpuset
  <2>1. PICK c \in 0..(k - 1) : p \in cpusets[c]
    BY <1>1, <1>2
  <2>. QED
    BY <1>5, <1>6, <2>1
<1>. QED
  BY <1>7 DEF primary

(* The input of a thread split that the calls of MapFunctions make. *)
LEMMA ThreadSplitCalled ==
    ASSUME CallThreadSplits
    PROVE  \E n \in Nat \ {0} : \E hwpool \in HwPools, type \in {"LAST", "CORE", "GPU"}, count \in Nat,
              colors \in [0..(n - 1) -> Int] : \E affinities :
              /\ DOMAIN affinities = 0..(n - 1)
              /\ output' \in m_split(hwpool, type, count, affinities, colors)
              /\ input' = <<hwpool, type, count, colors>>
              /\ colors[0] \in {QV_SCOPE_SPLIT_PACKED, QV_SCOPE_SPLIT_SPREAD} =>
                    colors = [i \in 0..(n - 1) |-> colors[0]]
<1>1. PICK k \in 1..MaxTasks, type \in {"LAST", "CORE", "GPU"} :
         \/ \E coloring \in {"NULL", "SPREAD", "CLOSE"} :
                CallThreadSplit(split_color_fixup(coloring, k), type)
         \/ \E colors \in Vector(k, {0, 2}) : CallThreadSplit(colors, type)
  BY DEF CallThreadSplits
<1>2. k \in Nat \ {0} /\ 0 \in 0..(k - 1)
  BY InputAssumption
<1>3. PICK colors : /\ colors \in [0..(k - 1) -> Int]
                    /\ CallThreadSplit(colors, type)
                    /\ colors[0] \in {QV_SCOPE_SPLIT_PACKED, QV_SCOPE_SPLIT_SPREAD} =>
                          colors = [i \in 0..(k - 1) |-> colors[0]]
  <2>1. ASSUME NEW coloring \in {"NULL", "SPREAD", "CLOSE"}
        PROVE  \E c \in Int : split_color_fixup(coloring, k) = [i \in 0..(k - 1) |-> c]
    <3>. DEFINE all(color) == [i \in 0..(k - 1) |-> color]
    <3>1. /\ split_color_fixup("NULL", k) = all(QV_SCOPE_SPLIT_PACKED)
          /\ split_color_fixup("SPREAD", k) = all(QV_SCOPE_SPLIT_SPREAD)
          /\ split_color_fixup("CLOSE", k) = all(QV_SCOPE_SPLIT_CLOSE)
      BY DEF split_color_fixup
    <3>2. /\ QV_SCOPE_SPLIT_PACKED \in Int /\ QV_SCOPE_SPLIT_SPREAD \in Int
          /\ QV_SCOPE_SPLIT_CLOSE \in Int
      BY DEF QV_SCOPE_SPLIT_PACKED, QV_SCOPE_SPLIT_SPREAD, QV_SCOPE_SPLIT_CLOSE
    <3>. QED
      BY <3>1, <3>2, Zenon
  <2>2. CASE \E coloring \in {"NULL", "SPREAD", "CLOSE"} :
                CallThreadSplit(split_color_fixup(coloring, k), type)
    <3>1. PICK coloring \in {"NULL", "SPREAD", "CLOSE"} :
              CallThreadSplit(split_color_fixup(coloring, k), type)
      BY <2>2
    <3>2. PICK c \in Int : split_color_fixup(coloring, k) = [i \in 0..(k - 1) |-> c]
      BY <2>1
    <3>. DEFINE colors == split_color_fixup(coloring, k)
    <3>3. colors \in [0..(k - 1) -> Int] /\ colors = [i \in 0..(k - 1) |-> colors[0]]
      BY <1>2, <3>2
    <3>. HIDE DEF colors
    <3>. QED
      BY <3>1, <3>3 DEF colors
  <2>3. CASE \E colors \in Vector(k, {0, 2}) : CallThreadSplit(colors, type)
    <3>1. PICK colors \in Vector(k, {0, 2}) : CallThreadSplit(colors, type)
      BY <2>3
    <3>2. colors \in [0..(k - 1) -> Int] /\ colors[0] \in {0, 2}
      BY <1>2 DEF Vector
    <3>3. colors[0] \notin {QV_SCOPE_SPLIT_PACKED, QV_SCOPE_SPLIT_SPREAD}
      BY <3>2 DEF QV_SCOPE_SPLIT_PACKED, QV_SCOPE_SPLIT_SPREAD
    <3>. QED
      BY <3>1, <3>2, <3>3
  <2>. QED
    BY <1>1, <2>2, <2>3
<1>4. PICK cpuset \in (SUBSET PUs) \ {{}}, devices \in SUBSET Devices, npieces \in 1..MaxTasks :
         LET hwpool == Pool(cpuset, devices)
             count == IF type = "LAST" THEN npieces ELSE nobjects(hwpool, type)
         IN  \E outcome \in thread_split(hwpool, type, count, colors, cpuset) :
                 Called("thread_split", <<hwpool, type, count, colors>>, outcome)
  BY <1>3 DEF CallThreadSplit
<1>. DEFINE hwpool == Pool(cpuset, devices)
            count == IF type = "LAST" THEN npieces ELSE nobjects(hwpool, type)
            affinities == [i \in DOMAIN colors |-> cpuset]
<1>5. hwpool \in HwPools
  BY DEF HwPools, Pool
<1>6. count \in Nat
  <2>1. npieces \in Nat
    BY InputAssumption
  <2>2. nobjects(hwpool, "CORE") \in Nat
    BY HardwareAssumption, FS_CardinalityType, FS_Subset, FS_SUBSET DEF nobjects, get_nobjs_in_cpuset, get_objs_in_cpuset
  <2>3. nobjects(hwpool, "GPU") \in Nat
    <3>1. IsFiniteSet(hwpool.devices)
      BY <1>5, HardwareAssumption, FS_Subset DEF HwPools
    <3>. QED
      BY <3>1, FS_CardinalityType DEF nobjects
  <2>. QED
    BY <2>1, <2>2, <2>3
<1>7. PICK outcome \in thread_split(hwpool, type, count, colors, cpuset) :
         Called("thread_split", <<hwpool, type, count, colors>>, outcome)
  BY <1>4
<1>. HIDE DEF hwpool, count
<1>8. input' = <<hwpool, type, count, colors>> /\ output' = outcome
  BY <1>7 DEF Called
<1>9. output' \in m_split(hwpool, type, count, affinities, colors)
  BY <1>7, <1>8 DEF thread_split
<1>10. DOMAIN affinities = 0..(k - 1)
  BY <1>3
<1>. HIDE DEF affinities
<1>11. colors \in [0..(k - 1) -> Int] /\ type \in {"LAST", "CORE", "GPU"} /\ k \in Nat \ {0}
  BY <1>2, <1>3
<1>12. \E affs : /\ DOMAIN affs = 0..(k - 1)
                 /\ output' \in m_split(hwpool, type, count, affs, colors)
                 /\ input' = <<hwpool, type, count, colors>>
                 /\ colors[0] \in {QV_SCOPE_SPLIT_PACKED, QV_SCOPE_SPLIT_SPREAD} =>
                       colors = [i \in 0..(k - 1) |-> colors[0]]
  BY <1>3, <1>8, <1>9, <1>10
<1>. QED
  BY <1>5, <1>6, <1>11, <1>12, SMTT(60)

(* What ThreadsShareFairly says of a split that succeeded. *)
FairSplit(base, type, count, colors, result) ==
    LET pools == result.hwpools
        made == m_split_cpuset(base, type, count, Cardinality(DOMAIN pools))
        used == UNION {pools[i].cpuset : i \in DOMAIN pools}
        even == colors[0] \in {QV_SCOPE_SPLIT_PACKED, QV_SCOPE_SPLIT_SPREAD}
    IN  DOMAIN made # {} =>
        /\ \A i \in DOMAIN pools : pools[i].cpuset # {}
        /\ \A i, j \in DOMAIN pools :
              \/ pools[i].cpuset = pools[j].cpuset
              \/ pools[i].cpuset \cap pools[j].cpuset = {}
        /\ \A dev \in base.devices :
              Cardinality({i \in DOMAIN pools : dev \in pools[i].devices}) = 1
        /\ even => used = m_primary_cpuset_for_split(base, type)

(* qv_thread_split shares the hardware fairly: with enough processing      *)
(* units every thread has some, two threads have the same or none in       *)
(* common, every device has one owner, and packed and spread leave nothing *)
(* of what is split idle, for any pool, any number of threads and pieces,  *)
(* and at devices too.                                                     *)
THEOREM FairThreads == Spec => []ThreadsShareFairly
<1>1. Init => ThreadsShareFairly
  BY DEF Init, ThreadsShareFairly
<1>2. Next => ThreadsShareFairly'
  <2>. SUFFICES ASSUME Next, call' = "thread_split", output'.kind = "rc",
                       output'.rc = "SUCCESS"
                PROVE  ThreadsShareFairly'
    BY DEF ThreadsShareFairly
  <2>1. CallThreadSplits
    BY OneCall
  <2>2. PICK n \in Nat \ {0} :
           \E hwpool \in HwPools, type \in {"LAST", "CORE", "GPU"}, count \in Nat,
              colors \in [0..(n - 1) -> Int] : \E affinities :
              /\ DOMAIN affinities = 0..(n - 1)
              /\ output' \in m_split(hwpool, type, count, affinities, colors)
              /\ input' = <<hwpool, type, count, colors>>
              /\ colors[0] \in {QV_SCOPE_SPLIT_PACKED, QV_SCOPE_SPLIT_SPREAD} =>
                    colors = [i \in 0..(n - 1) |-> colors[0]]
    BY <2>1, ThreadSplitCalled
  <2>3. PICK hwpool \in HwPools, type \in {"LAST", "CORE", "GPU"}, count \in Nat,
             colors \in [0..(n - 1) -> Int] : \E affinities :
              /\ DOMAIN affinities = 0..(n - 1)
              /\ output' \in m_split(hwpool, type, count, affinities, colors)
              /\ input' = <<hwpool, type, count, colors>>
              /\ colors[0] \in {QV_SCOPE_SPLIT_PACKED, QV_SCOPE_SPLIT_SPREAD} =>
                    colors = [i \in 0..(n - 1) |-> colors[0]]
    BY <2>2
  <2>4. PICK affinities :
              /\ DOMAIN affinities = 0..(n - 1)
              /\ output' \in m_split(hwpool, type, count, affinities, colors)
              /\ input' = <<hwpool, type, count, colors>>
              /\ colors[0] \in {QV_SCOPE_SPLIT_PACKED, QV_SCOPE_SPLIT_SPREAD} =>
                    colors = [i \in 0..(n - 1) |-> colors[0]]
    BY <2>3
  <2>5. PICK result \in m_split(hwpool, type, count, affinities, colors) : output' = result
    BY <2>4
  <2>6. result.kind = "rc" /\ result.rc = "SUCCESS"
    BY <2>5
  <2>7. /\ input'[1] = hwpool /\ input'[2] = type /\ input'[3] = count /\ input'[4] = colors
    BY <2>4
  <2>. DEFINE pools == result.hwpools
              made(k) == m_split_cpuset(hwpool, type, count, k)
              used == UNION {pools[i].cpuset : i \in DOMAIN pools}
              primary == m_primary_cpuset_for_split(hwpool, type)
              even == colors[0] \in {QV_SCOPE_SPLIT_PACKED, QV_SCOPE_SPLIT_SPREAD}
              P1 == \A i \in DOMAIN pools : pools[i].cpuset # {}
              P2 == \A i, j \in DOMAIN pools :
                       \/ pools[i].cpuset = pools[j].cpuset
                       \/ pools[i].cpuset \cap pools[j].cpuset = {}
              P3 == \A dev \in hwpool.devices :
                       Cardinality({i \in DOMAIN pools : dev \in pools[i].devices}) = 1
  <2>9. DOMAIN pools = 0..(n - 1) /\ Cardinality(DOMAIN pools) = n
    <3>1. SplitFits(hwpool, primary, n, colors, result)
      <4>1. result \notin {Throws, Crashes, Returns("ERR_SPLIT"), Returns("ERR_INVLD_ARG")}
        BY <2>6 DEF Throws, Crashes, Returns
      <4>. QED
        BY <2>4, <4>1, SplitOutcome
    <3>2. DOMAIN pools = 0..(n - 1)
      BY <3>1 DEF SplitFits
    <3>3. Cardinality(0..(n - 1)) = n
      BY SourcesFinite DEF Sources
    <3>. QED
      BY <3>2, <3>3
  <2>10. ASSUME DOMAIN made(n) # {}
         PROVE  /\ P1 /\ P2 /\ P3
                /\ \A i \in DOMAIN pools : pools[i].cpuset \subseteq primary
    <3>1. PoolsFair(hwpool, primary, n, result.hwpools)
      BY <2>4, <2>6, <2>10, FairPools
    <3>. QED
      BY <3>1, Zenon DEF PoolsFair
  <2>11. ASSUME DOMAIN made(n) # {}, even PROVE used = primary
    <3>1. \A p \in primary : \E i \in 0..(n - 1) : p \in pools[i].cpuset
      <4>. DEFINE color == colors[0]
      <4>1. color \in {QV_SCOPE_SPLIT_PACKED, QV_SCOPE_SPLIT_SPREAD}
            /\ colors = [i \in 0..(n - 1) |-> color]
        BY <2>4, <2>11
      <4>2. DOMAIN affinities = 0..(n - 1) /\ DOMAIN m_split_cpuset(hwpool, type, count, n) # {}
        BY <2>4, <2>11
      <4>. HIDE DEF color
      <4>. QED
        BY <2>6, <4>1, <4>2, NothingIdle, SMTT(60)
    <3>2. \A i \in DOMAIN pools : pools[i].cpuset \subseteq primary
      BY <2>10, <2>11
    <3>. HIDE DEF primary, pools
    <3>. QED
      BY <2>9, <3>1, <3>2
  <2>12. DOMAIN made(Cardinality(DOMAIN pools)) # {} =>
            P1 /\ P2 /\ P3 /\ (even => used = primary)
    <3>. HIDE DEF pools, made, used, primary, P1, P2, P3, even
    <3>. QED
      BY <2>9, <2>10, <2>11
  <2>13. FairSplit(hwpool, type, count, colors, result)
    BY <2>12, Zenon DEF FairSplit
  <2>14. FairSplit(input'[1], input'[2], input'[3], input'[4], output')
    BY <2>5, <2>7, <2>13
  <2>. QED
    BY <2>14, Zenon DEF FairSplit, ThreadsShareFairly
<1>3. ThreadsShareFairly /\ UNCHANGED vars => ThreadsShareFairly'
  BY DEF ThreadsShareFairly, vars
<1>. QED
  BY <1>1, <1>2, <1>3, PTL DEF Spec
=============================================================================
