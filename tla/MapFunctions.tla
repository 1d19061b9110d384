---------------------------- MODULE MapFunctions ----------------------------
(***************************************************************************)
(* Calls of the mapping and splitting functions on all small inputs, for   *)
(* checking what they compute against what their callers need of it.       *)
(***************************************************************************)
EXTENDS HwSplit

CONSTANTS MaxCount,   \* bound on the numbers of sources, destinations, pieces
          MaxTasks,   \* bound on the number of tasks with a color
          MaxIds,     \* the ids of the maps for qvi_map_uniq are below
          Palette     \* the colors of the inputs

ASSUME InputAssumption ==
    MaxCount \in Nat /\ MaxTasks \in Nat /\ MaxIds \in Nat /\ Palette \subseteq Int

VARIABLES
    call,     \* the function that was called
    input,    \* what it was called with
    output    \* what it returned

vars == <<call, input, output>>

Counts == 0..MaxCount
Maps(n, m) == [Sources(n) -> SUBSET Destinations(m)]

Init == call = "none" /\ input = <<>> /\ output = <<>>

Called(name, in, out) == call' = name /\ input' = in /\ output' = out

CallPacked ==
    \E n, m \in Counts : Called("packed", <<n, m>>, qvi_map_packed(n, m))

CallSpread ==
    \E n, m \in Counts :
        ~spread_divides_by_zero(n, m) /\ Called("spread", <<n, m>>, qvi_map_spread(n, m))

CallClamp ==
    \E n \in 1..MaxTasks : \E colors \in Vector(n, Palette) :
        Called("clamp", colors, qvi_map_clamp_colors(colors))

CallUniq ==
    \E map \in Maps(MaxIds, MaxIds) : Called("uniq", map, qvi_map_uniq(map))

CallSplit ==
    \E bitmap \in SUBSET PUs, npieces \in Counts :
        Called("split", <<bitmap, npieces>>, bitmap_split(bitmap, npieces))

CallCreate ==
    \E cpuset \in SUBSET PUs, type \in {"CORE", "GPU"}, nobjs \in Counts :
        Called("create", <<cpuset, type, nobjs>>, get_cpuset_for_nobjs(cpuset, type, nobjs))

(* Pools of any cpuset with any devices: a device can be split off from    *)
(* the processing units it is near to.                                     *)
CallThreadSplit(colors, type) ==
    \E cpuset \in (SUBSET PUs) \ {{}}, devices \in SUBSET Devices, npieces \in 1..MaxTasks :
        LET hwpool == Pool(cpuset, devices)
            count == IF type = "LAST" THEN npieces ELSE nobjects(hwpool, type)
        IN  \E outcome \in thread_split(hwpool, type, count, colors, cpuset) :
                Called("thread_split", <<hwpool, type, count, colors>>, outcome)

CallThreadSplits ==
    \E k \in 1..MaxTasks, type \in {"LAST", "CORE", "GPU"} :
        \/ \E coloring \in {"NULL", "SPREAD", "CLOSE"} :
               CallThreadSplit(split_color_fixup(coloring, k), type)
        \/ \E colors \in Vector(k, {0, 2}) : CallThreadSplit(colors, type)

Next ==
    /\ call = "none"
    /\ \/ CallPacked \/ CallSpread \/ CallClamp \/ CallUniq \/ CallSplit
       \/ CallCreate \/ CallThreadSplits

Spec == Init /\ [][Next]_vars

-----------------------------------------------------------------------------
(* Properties. *)

(* The sources of each destination, and the number of them. *)
Preimage(map, d) == {s \in DOMAIN map : d \in map[s]}
Load(map, d) == Cardinality(Preimage(map, d))

(* S is a set of consecutive integers. *)
Consecutive(S) == \A x, z \in S : \A y \in x..z : y \in S

(* Every source is mapped and every destination is used.  No source is     *)
(* shared by destinations if there are enough sources, and no destination  *)
(* by sources if there are enough destinations; the loads of any two       *)
(* destinations, or of any two sources, differ by at most one.             *)
Balanced(map, n, m) ==
    /\ DOMAIN map = Sources(n)
    /\ Values(map) = Destinations(m)
    /\ n >= m => \A s \in Sources(n) : Cardinality(map[s]) = 1
    /\ n <= m => \A d \in Destinations(m) : Load(map, d) = 1
    /\ \A d, e \in Destinations(m) : Load(map, d) <= Load(map, e) + 1
    /\ \A s, t \in Sources(n) : Cardinality(map[s]) <= Cardinality(map[t]) + 1

(* qvi_map_packed keeps neighbours together and balances the load, in both *)
(* directions: also where it solved the problem with the roles exchanged.  *)
PackedPacks ==
    call = "packed" /\ input[1] > 0 /\ input[2] > 0 =>
        /\ Balanced(output, input[1], input[2])
        /\ \A d \in Destinations(input[2]) : Consecutive(Preimage(output, d))
        /\ \A s \in Sources(input[1]) : Consecutive(output[s])

(* qvi_map_spread balances the load and separates neighbours.              *)
SpreadSpreads ==
    call = "spread" =>
        /\ Balanced(output, input[1], input[2])
        /\ \A s \in 0..(input[1] - 2) : input[2] > 1 => output[s] # output[s + 1]

(* qvi_map_clamp_colors: the colors become 0, 1, ... without gaps, and the *)
(* order of any two tasks' colors, equality included, is kept.             *)
ClampKeepsOrder ==
    call = "clamp" =>
        /\ \A i, j \in DOMAIN input : input[i] < input[j] <=> output[i] < output[j]
        /\ \E k \in 1..Cardinality(DOMAIN output) : {output[i] : i \in DOMAIN output} = 0..(k - 1)

(* qvi_map_uniq: no destination has two sources and no source two          *)
(* destinations, each source keeps one of its own, and a source is dropped *)
(* only if all its destinations went to sources before it.                 *)
UniqIsExclusive ==
    call = "uniq" =>
        /\ \A s \in DOMAIN output : Cardinality(output[s]) = 1 /\ output[s] \subseteq input[s]
        /\ \A s, t \in DOMAIN output : s # t => output[s] \cap output[t] = {}
        /\ \A s \in DOMAIN input \ DOMAIN output : \A d \in input[s] :
              \E t \in DOMAIN output : t < s /\ output[t] = {d}

(* bitmap_split: the pieces are a partition into runs, in order, whose     *)
(* sizes differ by at most one; or there is none, exactly if that many     *)
(* non-empty pieces cannot be made.                                        *)
SplitPartitions ==
    call = "split" =>
        LET bitmap == input[1] npieces == input[2] IN
        IF npieces = 0 \/ npieces > Cardinality(bitmap) THEN DOMAIN output = {}
        ELSE /\ DOMAIN output = 0..(npieces - 1)
             /\ UNION {output[i] : i \in DOMAIN output} = bitmap
             /\ \A i, j \in DOMAIN output :
                   /\ Cardinality(output[i]) <= Cardinality(output[j]) + 1
                   /\ i < j => \A p \in output[i], q \in output[j] : p < q
             /\ {} \notin {output[i] : i \in DOMAIN output}

(* qv_create: up to as many cores as qv_hw_obj_count reports can be had    *)
(* and no more, and the child has exactly that many, all of its parent's,  *)
(* and no core in part.  Devices are counted by their affinity but looked  *)
(* for in hwloc's tree, where they have no cpuset: none can be had,        *)
(* whatever the count says.                                                *)
CreateMatchesCount ==
    call = "create" =>
        LET cpuset == input[1] type == input[2] nobjs == input[3] IN
        IF nobjs > (IF type = "GPU" THEN 0 ELSE get_nobjs_in_cpuset(type, cpuset))
        THEN output.rc # "SUCCESS"
        ELSE /\ output.rc = "SUCCESS"
             /\ output.cpuset \subseteq cpuset
             /\ get_nobjs_in_cpuset("CORE", output.cpuset) = nobjs
             /\ output.cpuset = UNION get_objs_in_cpuset(output.cpuset)

(* qv_thread_split: when at least one piece can be made, every thread gets *)
(* a part, two parts are the same or disjoint, each device goes to exactly *)
(* one thread, and nothing of what is split is left over if the coloring   *)
(* is packed or spread (the close one may fill the first pieces only, and  *)
(* the user's colors may name fewer pieces).  What is split is the pool's  *)
(* cpuset, but at devices the union of their affinities: the pool's other  *)
(* processing units go to nobody, and a part may reach out of the pool.    *)
ThreadsShareFairly ==
    call = "thread_split" /\ output.kind = "rc" /\ output.rc = "SUCCESS" =>
        LET base == input[1]
            pools == output.hwpools
            made == m_split_cpuset(base, input[2], input[3], Cardinality(DOMAIN pools))
            used == UNION {pools[i].cpuset : i \in DOMAIN pools}
            even == input[4][0] \in {QV_SCOPE_SPLIT_PACKED, QV_SCOPE_SPLIT_SPREAD}
        IN  DOMAIN made # {} =>
            /\ \A i \in DOMAIN pools : pools[i].cpuset # {}
            /\ \A i, j \in DOMAIN pools :
                  \/ pools[i].cpuset = pools[j].cpuset
                  \/ pools[i].cpuset \cap pools[j].cpuset = {}
            /\ \A dev \in base.devices :
                  Cardinality({i \in DOMAIN pools : dev \in pools[i].devices}) = 1
            /\ even => used = m_primary_cpuset_for_split(base, input[2])
=============================================================================
