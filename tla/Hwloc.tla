-------------------------------- MODULE Hwloc --------------------------------
(***************************************************************************)
(* Cpusets, hardware objects, devices and hardware pools: the wrapper of   *)
(* hwloc in qvi-hwloc.cc, the pools of qvi-hwpool.cc, and the cpusets that *)
(* the server has for the intrinsic scopes (qvi-rmi.cc).                   *)
(*                                                                         *)
(* A processing unit is its logical index and a cpuset is a set of them.   *)
(* A hardware pool is a record of a cpuset and a set of devices; a device  *)
(* is its position in the order of device ids that add_device keeps.       *)
(* There is one type of host object to split at (CORE) and one type of     *)
(* device (GPU): the code treats the types one by one, in the same way.    *)
(***************************************************************************)
EXTENDS Integers, FiniteSets

CONSTANTS
    PUs,            \* the processing units of the node
    Cores,          \* the cpusets of its cores
    Devices,        \* its devices
    affinity(_)     \* the cpuset of a device

ASSUME HardwareAssumption ==
    /\ PUs \subseteq Nat /\ IsFiniteSet(PUs)
    /\ Devices \subseteq Nat /\ IsFiniteSet(Devices)
    /\ Cores \subseteq SUBSET PUs /\ \A c, d \in Cores : c # d => c \cap d = {}
    /\ \A dev \in Devices : affinity(dev) \subseteq PUs

Lowest(S) == CHOOSE x \in S : \A y \in S : x <= y

(* The elements of a finite set of naturals in ascending order. *)
Ascending(S) ==
    [i \in 0..(Cardinality(S) - 1) |->
        CHOOSE x \in S : Cardinality({y \in S : y < x}) = i]

-----------------------------------------------------------------------------
(* Host objects inside a cpuset.  Objects without a processing unit (those *)
(* outside of the process's cgroup) are not counted.                       *)

get_objs_in_cpuset(cpuset) == {c \in Cores : c # {} /\ c \subseteq cpuset}

get_devices_included_in_cpuset(cpuset) == {dev \in Devices : affinity(dev) \subseteq cpuset}

get_nobjs_in_cpuset(type, cpuset) ==
    CASE type = "CORE" -> Cardinality(get_objs_in_cpuset(cpuset))
      [] type = "GPU" -> Cardinality(get_devices_included_in_cpuset(cpuset))

(* The logical index of an object inside a cpuset. *)
logical_index(core, cpuset) ==
    Cardinality({c \in get_objs_in_cpuset(cpuset) : Lowest(c) < Lowest(core)})

(* The number of objects that a search inside a cpuset finds.  Devices     *)
(* have no cpuset in hwloc's tree, so that none of them is ever found.     *)
nfound(type, cpuset) == IF type = "GPU" THEN 0 ELSE get_nobjs_in_cpuset(type, cpuset)

(* One object more than was asked for. *)
Faulty_cpuset_for_nobjs(cpuset, type, nobjs) ==
    IF nobjs > nfound(type, cpuset) THEN [rc |-> "ERR_HWLOC"]
    ELSE [rc |-> "SUCCESS",
          cpuset |-> UNION {c \in get_objs_in_cpuset(cpuset) : logical_index(c, cpuset) <= nobjs}]

(* The cpuset of the first nobjs objects inside a cpuset. *)
get_cpuset_for_nobjs(cpuset, type, nobjs) ==
    IF nobjs > nfound(type, cpuset) THEN [rc |-> "ERR_HWLOC"]
    ELSE [rc |-> "SUCCESS",
          cpuset |-> UNION {c \in get_objs_in_cpuset(cpuset) : logical_index(c, cpuset) < nobjs}]

-----------------------------------------------------------------------------
(* Hardware pools. *)

Pool(cpuset, devices) == [cpuset |-> cpuset, devices |-> devices]
EmptyPool == Pool({}, {})
HwPools == [cpuset : SUBSET PUs, devices : SUBSET Devices]

nobjects(hwpool, obj_type) ==
    CASE obj_type = "CORE" -> get_nobjs_in_cpuset(obj_type, hwpool.cpuset)
      [] obj_type = "GPU" -> Cardinality(hwpool.devices)

set_union(hwpools) ==
    Pool(UNION {hwpools[i].cpuset : i \in DOMAIN hwpools},
         UNION {hwpools[i].devices : i \in DOMAIN hwpools})

(* A pool with the devices whose affinity lies inside its cpuset. *)
populate(cpuset) == Pool(cpuset, get_devices_included_in_cpuset(cpuset))

-----------------------------------------------------------------------------
(* Intrinsic scopes, on the server.                                        *)

(* All that the bindings of the job's processes allow. *)
m_get_iscope_bitmap_job(bindings) == UNION bindings

(* What s_rpc_get_intrinsic_hwpool packs for processes that are bound to   *)
(* the given cpusets.                                                      *)
get_intrinsic_hwpool(iscope, bindings) ==
    CASE iscope = "SYSTEM" -> [rc |-> "ERR_NOT_SUPPORTED"]
      [] iscope = "USER" -> [rc |-> "SUCCESS", hwpool |-> populate(PUs)]
      [] iscope = "JOB" ->
            [rc |-> "SUCCESS", hwpool |-> populate(m_get_iscope_bitmap_job(bindings))]
      [] iscope = "PROCESS" ->
            [rc |-> "SUCCESS", hwpool |-> populate(CHOOSE b \in bindings : bindings = {b})]

-----------------------------------------------------------------------------
(* qvi_hwloc::bitmap_split *)

(* The processing units of a bitmap from position base on, extent of them. *)
m_split_cpuset_by_range(bitmap, base, extent) ==
    LET position(pu) == Cardinality({p \in bitmap : p < pu})
    IN  {pu \in bitmap : base <= position(pu) /\ position(pu) < base + extent}

(* The last processing unit of a piece is also the first of the next. *)
Faulty_split_overlaps(bitmap, npieces) ==
    LET base == Cardinality(bitmap) \div npieces
    IN  IF npieces = 0 \/ bitmap = {} \/ npieces > Cardinality(bitmap)
        THEN [i \in {} |-> {}]
        ELSE [i \in 0..(npieces - 1) |-> m_split_cpuset_by_range(bitmap, i * base, base + 1)]

(* Cut the bitmap into npieces runs of consecutive processing units, the   *)
(* first `remainder' of them one longer.  Nothing, and success, when there *)
(* are not enough.                                                         *)
bitmap_split(bitmap, npieces) ==
    LET npus == Cardinality(bitmap)
        base_chunk_size == npus \div npieces
        remainder == npus % npieces
        current_pos(i) ==
            i * base_chunk_size + (IF i < remainder THEN i ELSE remainder)
        current_chunk_size(i) == base_chunk_size + (IF i < remainder THEN 1 ELSE 0)
    IN  IF npieces = 0 \/ npus = 0 \/ npieces > npus
        THEN [i \in {} |-> {}]
        ELSE [i \in 0..(npieces - 1) |->
                m_split_cpuset_by_range(bitmap, current_pos(i), current_chunk_size(i))]
=============================================================================
