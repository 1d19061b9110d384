------------------------------- MODULE Mapping -------------------------------
(***************************************************************************)
(* The mapping algorithms of qvi-map.cc as operators.                      *)
(*                                                                         *)
(* A qvi_map_t is a function from the source ids it has keys for to sets   *)
(* of destination ids.  A std::vector of n elements is a function on       *)
(* 0..n-1, so indices read as they do in the code.                         *)
(*                                                                         *)
(* The affinity-preserving ("close") mapping is given here by what it is   *)
(* to compute: the preference orders that stable_marriage_solver builds,   *)
(* and the stable matching that is best for every source.  The solver      *)
(* itself is the state machine of module StableMarriage, which is shown    *)
(* to compute exactly that matching.                                       *)
(***************************************************************************)
EXTENDS Integers, FiniteSets

(* Operators named Faulty_... are slips of the code that the properties    *)
(* are confirmed to catch; no specification uses them.                     *)

(* The ceiling forgotten. *)
Faulty_maxiperk_floor(i, k) == IF k = 0 THEN 0 ELSE i \div k

(* Integer ceiling of i / k, and 0 when there is nothing to divide by. *)
qvi_maxiperk(i, k) == IF k = 0 THEN 0 ELSE (i + k - 1) \div k

Vector(n, S) == [0..(n - 1) -> S]

Values(map) == UNION {map[k] : k \in DOMAIN map}

-----------------------------------------------------------------------------
(* Helpers on maps. *)

invert_map(original) ==
    [v \in Values(original) |-> {k \in DOMAIN original : v \in original[k]}]

(* The walk over a source's destinations goes on after the first new one. *)
Faulty_uniq_no_break(map) ==
    [s \in DOMAIN map |-> map[s] \ UNION {map[t] : t \in {t \in DOMAIN map : t < s}}]

Least(S) == CHOOSE x \in S : \A y \in S : x <= y

(* The destinations that the sources below s have kept, on a walk over the *)
(* sources in order: each one keeps its lowest destination that no earlier *)
(* one has, or nothing.                                                    *)
kept_below(map) ==
    LET seen[s \in Nat] ==
            IF s = 0 THEN {}
            ELSE LET new == IF s - 1 \in DOMAIN map THEN map[s - 1] \ seen[s - 1] ELSE {}
                 IN  IF new = {} THEN seen[s - 1] ELSE seen[s - 1] \cup {Least(new)}
    IN  seen

qvi_map_uniq(map) ==
    LET seen == kept_below(map)
    IN  [s \in {s \in DOMAIN map : map[s] \ seen[s] # {}} |-> {Least(map[s] \ seen[s])}]

(* A source that intersects no destination has no key in the result.       *)
qvi_map_calc_affinities(src, dst) ==
    LET shared(s) == {d \in DOMAIN dst : src[s] \cap dst[d] # {}}
    IN  [s \in {s \in DOMAIN src : shared(s) # {}} |-> shared(s)]

(* Colors are only shifted. *)
Faulty_clamp_shifts(colors) ==
    [i \in DOMAIN colors |->
        colors[i] - CHOOSE c \in {colors[j] : j \in DOMAIN colors} :
                        \A j \in DOMAIN colors : c <= colors[j]]

(* Replace every color by its index in the ordered set of colors.          *)
qvi_map_clamp_colors(colors) ==
    LET colorset == {colors[i] : i \in DOMAIN colors}
    IN  [i \in DOMAIN colors |->
            Cardinality({c \in colorset : c < colors[i]})]

-----------------------------------------------------------------------------
(* The mapping functions that take only counts or colors. *)

qvi_map_colors(src_colors) == [i \in DOMAIN src_colors |-> {src_colors[i]}]

(* Every destination gets the rounded-up share. *)
Faulty_packed_rounds_up(nsrc, ndst) ==
    [s \in 0..(nsrc - 1) |-> IF ndst = 0 THEN {} ELSE {s \div qvi_maxiperk(nsrc, ndst)}]

(* The value of source_id when the loop comes to destination dest_id. *)
source_ids(base_count, extra) ==
    LET source_id[dest_id \in Nat] ==
            IF dest_id = 0 THEN 0
            ELSE source_id[dest_id - 1] + base_count + (IF dest_id - 1 < extra THEN 1 ELSE 0)
    IN  source_id

(* Consecutive sources share a destination; the first `extra' destinations *)
(* get one source more.  Solved with the roles exchanged when nsrc < ndst. *)
qvi_map_packed(nsrc, ndst) ==
    LET inverted == nsrc < ndst
        n == IF inverted THEN ndst ELSE nsrc
        m == IF inverted THEN nsrc ELSE ndst
        source_id == source_ids(n \div m, n % m)
        map == [s \in 0..(n - 1) |->
                  {d \in 0..(m - 1) : source_id[d] <= s /\ s < source_id[d + 1]}]
    IN  IF n = 0 \/ m = 0 THEN [s \in {} |-> {}]
        ELSE IF inverted THEN invert_map(map) ELSE map

(* The inverted solution is not inverted back. *)
Faulty_spread_stays_inverted(nsrc, ndst) ==
    LET n == IF nsrc < ndst THEN ndst ELSE nsrc
        m == IF nsrc < ndst THEN nsrc ELSE ndst
    IN  [s \in 0..(n - 1) |-> {s % m}]

(* Round robin.  The code divides by the smaller count without looking at  *)
(* it: the operator is meant for nsrc = 0 /\ ndst = 0 or both positive.    *)
qvi_map_spread(nsrc, ndst) ==
    LET inverted == nsrc < ndst
        n == IF inverted THEN ndst ELSE nsrc
        m == IF inverted THEN nsrc ELSE ndst
        map == [s \in 0..(n - 1) |-> {s % m}]
    IN  IF inverted THEN invert_map(map) ELSE map

(* The inputs for which qvi_map_spread divides by zero.                    *)
spread_divides_by_zero(nsrc, ndst) == (nsrc = 0) # (ndst = 0)

-----------------------------------------------------------------------------
(* Preferences of stable_marriage_solver for n sources, m destinations and *)
(* an affinity map aff.  A slot is a pair <<destination, slot_index>>.     *)

Sources(n) == 0..(n - 1)
Destinations(m) == 0..(m - 1)

(* The loop over slot ids runs once too often. *)
Faulty_one_more_slot(n, m) == Destinations(m) \X (0..qvi_maxiperk(n, m))

Slots(n, m) == Destinations(m) \X (0..(qvi_maxiperk(n, m) - 1))

(* A source with an empty entry can go anywhere; one without an entry has  *)
(* no affinity for any destination.                                        *)
has_affinity(aff, src, dst) ==
    src \in DOMAIN aff /\ (aff[src] = {} \/ dst \in aff[src])

m_calculate_dst_contention(n, aff, dst) ==
    Cardinality({src \in Sources(n) : has_affinity(aff, src, dst)})

(* a comes before b in the order preference_sorter sorts by. *)
preference_sorter(n, aff, a, b) ==
    LET cont_a == m_calculate_dst_contention(n, aff, a)
        cont_b == m_calculate_dst_contention(n, aff, b)
    IN  cont_a < cont_b \/ (cont_a = cont_b /\ a < b)

(* Slot p precedes slot q in m_src_prefs[src]: affine destinations first,  *)
(* then by preference_sorter, then by slot index.                          *)
src_prefers(n, aff, src, p, q) ==
    LET affp == has_affinity(aff, src, p[1])
        affq == has_affinity(aff, src, q[1])
    IN  \/ affp /\ ~affq
        \/ (affp <=> affq) /\ preference_sorter(n, aff, p[1], q[1])
        \/ p[1] = q[1] /\ p[2] < q[2]

(* The index of slot p in m_src_prefs[src]; every slot is in the list.     *)
src_pref_index(n, m, aff, src, p) ==
    Cardinality({q \in Slots(n, m) : src_prefers(n, aff, src, q, p)})

(* Sources with affinity are not put first. *)
Faulty_slot_prefers_by_number(aff, slot, new_source, cur_source) ==
    new_source < cur_source

(* new_source precedes cur_source in m_slot_prefs[slot]. *)
m_slot_prefers(aff, slot, new_source, cur_source) ==
    LET affn == has_affinity(aff, new_source, slot[1])
        affc == has_affinity(aff, cur_source, slot[1])
    IN  \/ affn /\ ~affc
        \/ (affn <=> affc) /\ new_source < cur_source

-----------------------------------------------------------------------------
(* What the close mapping computes. *)

(* T gives every source a slot of its own, and no source and slot would    *)
(* both rather have each other.                                            *)
IsStableMatching(n, m, aff, T) ==
    /\ T \in [Sources(n) -> Slots(n, m)]
    /\ \A s1, s2 \in Sources(n) : T[s1] = T[s2] => s1 = s2
    /\ \A s \in Sources(n), p \in Slots(n, m) :
          src_prefers(n, aff, s, p, T[s]) =>
              \E o \in Sources(n) : T[o] = p /\ ~m_slot_prefers(aff, p, s, o)

(* No stable matching gives any source a slot it prefers to the one of T.  *)
IsSourceOptimal(n, m, aff, T) ==
    \A U \in [Sources(n) -> Slots(n, m)] :
        IsStableMatching(n, m, aff, U) =>
            \A s \in Sources(n) : ~src_prefers(n, aff, s, U[s], T[s])

IsCloseMatching(n, m, aff, T) ==
    IsStableMatching(n, m, aff, T) /\ IsSourceOptimal(n, m, aff, T)

CloseMatching(n, m, aff) ==
    CHOOSE T \in [Sources(n) -> Slots(n, m)] : IsCloseMatching(n, m, aff, T)

(* get_matching: each source with the destination of its slot.  (The sets  *)
(* of one element are there to have TLC evaluate each step once.)          *)
qvi_map_close(src, dst) ==
    LET n == Cardinality(DOMAIN src)
        m == Cardinality(DOMAIN dst)
        matchings == {CloseMatching(n, m, aff) : aff \in {qvi_map_calc_affinities(src, dst)}}
    IN  CHOOSE map \in {[s \in Sources(n) |-> {T[s][1]}] : T \in matchings} : TRUE
=============================================================================
