------------------------------- MODULE HwSplit -------------------------------
(***************************************************************************)
(* The computation at the root of a split: qvi_hwsplit::m_split and what   *)
(* it calls in qvi-hwsplit.cc.                                             *)
(***************************************************************************)
EXTENDS Mapping, Hwloc

QV_SCOPE_SPLIT_UNDEFINED == -1
QV_SCOPE_SPLIT_CLOSE == -2
QV_SCOPE_SPLIT_PACKED == -3
QV_SCOPE_SPLIT_SPREAD == -4

-----------------------------------------------------------------------------
(* The node's cpuset is split, not the pool's. *)
Faulty_primary_is_node(base_hwpool, type) == PUs

(* LAST stands for a call from split() rather than split_at(). *)
m_primary_cpuset_for_split(base_hwpool, type) ==
    IF type = "GPU" THEN UNION {affinity(dev) : dev \in base_hwpool.devices}
                    ELSE base_hwpool.cpuset

(* As many pieces as the caller asked for, however small the group. *)
Faulty_split_not_capped(base_hwpool, type, split_size, group_size) ==
    bitmap_split(m_primary_cpuset_for_split(base_hwpool, type), split_size)

m_split_cpuset(base_hwpool, type, split_size, group_size) ==
    LET real_split_size == IF split_size < group_size THEN split_size ELSE group_size
    IN  bitmap_split(m_primary_cpuset_for_split(base_hwpool, type), real_split_size)

-----------------------------------------------------------------------------
(* Outcomes of m_split: it returns a code, it throws, or the process dies  *)
(* (an assertion, a division by zero, a read out of bounds).               *)

Returns(rc) == [kind |-> "rc", rc |-> rc]
Throws == [kind |-> "throw"]
Crashes == [kind |-> "crash"]
Splits(colors, hwpools) ==
    [kind |-> "rc", rc |-> "SUCCESS", colors |-> colors, hwpools |-> hwpools]

(* What m_determine_mapping decides on: a mapping function with the colors *)
(* it may have clamped, or an error code.                                  *)
Decision(fn, colors) == [fn |-> fn, colors |-> colors]
Refusal(rc) == [fn |-> "none", rc |-> rc]

(* Colors are not clamped. *)
Faulty_mapping_no_clamp(colors, npieces) ==
    LET S == {colors[i] : i \in DOMAIN colors}
    IN  IF Cardinality(S) <= npieces /\ \A c \in S : c >= 0
        THEN Decision("colors", colors) ELSE Refusal("ERR_SPLIT")

m_determine_mapping(colors, npieces) ==
    LET S == {colors[i] : i \in DOMAIN colors}
        all_in_range == \A c \in S : 0 <= c /\ c < npieces
        usable == IF all_in_range THEN colors ELSE qvi_map_clamp_colors(colors)
        automatic == {<<QV_SCOPE_SPLIT_CLOSE, "close">>,
                      <<QV_SCOPE_SPLIT_PACKED, "packed">>,
                      <<QV_SCOPE_SPLIT_SPREAD, "spread">>}
    IN  CASE \A c \in S : c >= 0 ->
                IF Cardinality(S) > npieces THEN Refusal("ERR_SPLIT")
                                            ELSE Decision("colors", usable)
          [] \A c \in S : c < 0 ->
                IF \E a \in automatic : S = {a[1]}
                THEN Decision((CHOOSE a \in automatic : S = {a[1]})[2], colors)
                ELSE Refusal("ERR_INVLD_ARG")
          [] OTHER -> Decision("colors", colors)

(* A device goes to every pool it has affinity for, or by its number. *)
Faulty_devices_by_affinity(dev_affinities, cpusets) ==
    qvi_map_calc_affinities(dev_affinities, cpusets)
Faulty_devices_by_number(dev_affinities, cpusets) ==
    [d \in DOMAIN dev_affinities |-> {d % Cardinality(DOMAIN cpusets)}]

(* The device mapping of m_split: the close mapping of the devices to the  *)
(* tasks' pools, in which no pool has two devices if there are enough.     *)
devs2hres_map(dev_affinities, cpusets) ==
    IF Cardinality(DOMAIN cpusets) > Cardinality(DOMAIN dev_affinities)
    THEN qvi_map_uniq(qvi_map_close(dev_affinities, cpusets))
    ELSE qvi_map_close(dev_affinities, cpusets)

(* Colors are numbered from one. *)
Faulty_color_of_piece(c) == c + 1

(* The new color of a task that is mapped to piece c. *)
color_of_piece(c) == c

(* The rest of m_split once hres_map is known.  A task gets the last of    *)
(* the pieces it is mapped to and the color of that piece, then the        *)
(* devices of the base pool are assigned to the pools of the tasks.        *)
apply_map(base_hwpool, cpusets, hres_map, group_size) ==
    LET last(t) == CHOOSE c \in hres_map[t] : \A d \in hres_map[t] : d <= c
        pieces == [t \in 0..(group_size - 1) |->
                      IF t \in DOMAIN hres_map THEN cpusets[last(t)] ELSE {}]
        devs == Ascending(base_hwpool.devices)
        assigned == devs2hres_map([i \in DOMAIN devs |-> affinity(devs[i])], pieces)
    IN  {Splits([t \in DOMAIN hres_map |-> color_of_piece(last(t))],
                [t \in DOMAIN pieces |->
                    Pool(pieces[t], {devs[d] : d \in {d \in DOMAIN map : t \in map[d]}})]) :
            map \in {assigned}}

(* Apply the mapping function to the pieces. *)
map_fn(decision, affinities, cpusets, group_size) ==
    CASE decision.fn = "colors" -> qvi_map_colors(decision.colors)
      [] decision.fn = "packed" -> qvi_map_packed(group_size, Cardinality(DOMAIN cpusets))
      [] decision.fn = "spread" -> qvi_map_spread(group_size, Cardinality(DOMAIN cpusets))
      [] decision.fn = "close" -> qvi_map_close(affinities, cpusets)

(* The ways m_split ends early.  The assertion of qvi_map_colors, where it *)
(* is compiled in, fails on a negative color, and at() throws on a color   *)
(* that is not the number of a piece.  Without pieces the round robin      *)
(* divides by zero and the close mapping throws.                           *)
failures(decision, npieces, group_size) ==
    CASE decision.fn = "none" -> {Returns(decision.rc)}
      [] decision.fn = "colors" ->
            {Crashes : i \in {i \in DOMAIN decision.colors : decision.colors[i] < 0}}
            \cup {Throws : i \in {i \in DOMAIN decision.colors :
                                      decision.colors[i] \notin 0..(npieces - 1)}}
      [] decision.fn = "packed" -> {}
      [] decision.fn = "spread" ->
            IF spread_divides_by_zero(group_size, npieces) THEN {Crashes} ELSE {}
      [] decision.fn = "close" -> IF npieces = 0 THEN {Throws} ELSE {}

(* The outcomes of m_split for a group whose members have the given        *)
(* affinities and colors.                                                  *)
m_split(base_hwpool, type, split_size, affinities, colors) ==
    LET group_size == Cardinality(DOMAIN colors)
        outcomes(cpusets, decision) ==
            LET failed == failures(decision, Cardinality(DOMAIN cpusets), group_size)
            IN  IF failed # {} THEN failed
                ELSE UNION {apply_map(base_hwpool, cpusets, hres_map, group_size) :
                        hres_map \in {map_fn(decision, affinities, cpusets, group_size)}}
    IN  UNION {outcomes(cpusets, m_determine_mapping(colors, Cardinality(DOMAIN cpusets))) :
                  cpusets \in {m_split_cpuset(base_hwpool, type, split_size, group_size)}}

-----------------------------------------------------------------------------
(* The split of a process's hardware among its threads. *)

(* The automatic colorings are passed in place of the array of colors.     *)
split_color_fixup(kcolors, k) ==
    LET all(color) == [i \in 0..(k - 1) |-> color]
    IN  CASE kcolors \in {"NULL", "PACKED"} -> all(QV_SCOPE_SPLIT_PACKED)
          [] kcolors = "SPREAD" -> all(QV_SCOPE_SPLIT_SPREAD)
          [] kcolors = "CLOSE" -> all(QV_SCOPE_SPLIT_CLOSE)

(* One task, which stands for all of the threads, splits its own pool.     *)
thread_split(my_hwpool, type, npieces, colors, task_affinity) ==
    m_split(my_hwpool, type, npieces, [i \in DOMAIN colors |-> task_affinity], colors)
=============================================================================
