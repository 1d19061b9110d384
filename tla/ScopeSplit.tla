----------------------------- MODULE ScopeSplit -----------------------------
(***************************************************************************)
(* The collective split of a scope by the MPI processes of its group:      *)
(* qv_split and qv_split_at, qv_scope::split, qvi_hwsplit::split with the  *)
(* collectives of qvi-coll.h, and qvi_group_mpi::split.  Each rank gets    *)
(* the hardware of an intrinsic scope from the server (make_intrinsic),    *)
(* splits the scope together with the other members of its group, goes on  *)
(* with the child, and splits that.                                        *)
(*                                                                         *)
(* MPI is external.  A gather lets a sender go on at once and completes at *)
(* the root when everyone has sent; a broadcast or scatter completes at a  *)
(* receiver once the root has sent; a barrier and MPI_Comm_split complete  *)
(* when all members have entered.  The first thing a member does on its    *)
(* own after one of the latter two is local, so it completes for all       *)
(* members in one step.  When a process dies the launcher ends the job.    *)
(***************************************************************************)
EXTENDS HwSplit

CONSTANTS
    NRanks,          \* the ranks are 0..NRanks-1
    Colors,          \* the colors (group ids) a caller may pass
    PieceCounts,     \* the numbers of pieces a caller of qv_split may pass
    Types,           \* "LAST" for qv_split, a hardware type for qv_split_at
    Bindings,        \* cpusets a process may be bound to at the start
    IScope,          \* the intrinsic scope that everyone asks for
    Parts,           \* the numbers of cores a caller of qv_create may pass
    EarlyParts,      \* may a rank bind to such a part before all have their scope?
    MaxCalls,        \* bound on the number of splits of each rank
    ConnectMayFail   \* can a process fail to connect to the server?

ASSUME SplitAssumption ==
    /\ NRanks \in Nat \ {0} /\ MaxCalls \in Nat
    /\ Colors \subseteq Int /\ PieceCounts \subseteq Nat \ {0}
    /\ Types \subseteq {"LAST", "CORE", "GPU"}
    /\ PUs # {} /\ Bindings \subseteq SUBSET PUs /\ {} \notin Bindings
    /\ ConnectMayFail \in BOOLEAN
    /\ IScope \in {"SYSTEM", "USER", "JOB", "PROCESS"}
    /\ Parts \subseteq Nat /\ EarlyParts \in BOOLEAN

Ranks == 0..(NRanks - 1)

VARIABLES
    scope,    \* rank -> its current scope
    bound,    \* rank -> the cpuset it is bound to
    top,      \* rank -> the top of the bind stack of its scope's task
    pc,       \* rank -> where it is in qv_split
    ncalls,   \* rank -> number of calls it has made
    args,     \* rank -> arguments of its last call
    hwsplit,  \* root -> the outcome of m_split
    outbox,   \* root -> what it has broadcast and scattered, and in which call
    colorp,   \* rank -> the color it got for the split of the group
    hwpool,   \* rank -> the hardware pool it got
    rc        \* rank -> the code its last call returned

vars == <<scope, bound, top, pc, ncalls, args, hwsplit, outbox, colorp, hwpool, rc>>

-----------------------------------------------------------------------------
Group(r) == scope[r].members
s_root(r) == CHOOSE m \in Group(r) : \A n \in Group(r) : m <= n
IsRoot(r) == r = s_root(r)

(* The group's members are numbered in the order of their parent ranks.    *)
group_rank(r) == Cardinality({m \in Group(r) : m < r})
Member(r, i) == CHOOSE m \in Group(r) : group_rank(m) = i
ByRank(r, f) == [i \in 0..(Cardinality(Group(r)) - 1) |-> f[Member(r, i)]]

NoArgs == [npieces |-> 0, type |-> "LAST", color |-> QV_SCOPE_SPLIT_UNDEFINED]
NotYet == [call |-> 0, result |-> Throws]

(* The group of the intrinsic scope: the processes on the node, or oneself. *)
make_intrinsic_group(r) == IF IScope = "PROCESS" THEN {r} ELSE Ranks

(* The members have told each other their process ids (pids()); nobody has *)
(* asked the server for the hardware pool yet.                             *)
Init ==
    /\ scope = [r \in Ranks |-> [members |-> make_intrinsic_group(r), hwpool |-> EmptyPool,
                                 depth |-> 0, origin |-> EmptyPool]]
    /\ bound \in [Ranks -> Bindings]
    /\ top = bound
    /\ pc = [r \in Ranks |-> "intrinsic"]
    /\ ncalls = [r \in Ranks |-> 0]
    /\ args = [r \in Ranks |-> NoArgs]
    /\ hwsplit = [r \in Ranks |-> Throws]
    /\ outbox = [r \in Ranks |-> NotYet]
    /\ colorp = [r \in Ranks |-> 0]
    /\ hwpool = [r \in Ranks |-> EmptyPool]
    /\ rc = [r \in Ranks |-> "SUCCESS"]

Goto(r, label) == pc' = [pc EXCEPT ![r] = label]
Return(r, code) == Goto(r, "app") /\ rc' = [rc EXCEPT ![r] = code]
JobAborts == pc' = [r \in Ranks |-> "aborted"] /\ rc' = rc

(* The processes of the group, which the members have gathered. *)
pids(r) == Group(r)

(* The server answers each rank on its own: it looks at the bindings that  *)
(* the members have at that moment, while some of them are already at work *)
(* in their scopes.                                                        *)
make_intrinsic(r) ==
    LET reply == get_intrinsic_hwpool(IScope, {bound[m] : m \in pids(r)})
    IN  /\ pc[r] = "intrinsic"
        /\ \/ /\ reply.rc = "SUCCESS"
              /\ scope' = [scope EXCEPT ![r].hwpool = reply.hwpool, ![r].origin = reply.hwpool]
              /\ Return(r, "SUCCESS")
           \/ /\ reply.rc # "SUCCESS" \/ ConnectMayFail
              /\ Goto(r, "failed")
              /\ rc' = [rc EXCEPT ![r] = IF reply.rc = "SUCCESS" THEN "ERR_RPC" ELSE reply.rc]
              /\ UNCHANGED scope
    /\ UNCHANGED <<bound, top, ncalls, args, hwsplit, outbox, colorp, hwpool>>

(* qv_bind_push on the scope the rank is in, as long as a split is to come. *)
BindPush(r) ==
    /\ pc[r] = "app"
    /\ ncalls[r] < MaxCalls
    /\ scope[r].hwpool.cpuset # {}
    /\ bound' = [bound EXCEPT ![r] = scope[r].hwpool.cpuset]
    /\ top' = [top EXCEPT ![r] = scope[r].hwpool.cpuset]
    /\ UNCHANGED <<scope, pc, ncalls, args, hwsplit, outbox, colorp, hwpool, rc>>

(* qv_create of a scope with some of the cores, and qv_bind_push on that:  *)
(* the created scope has a task of its own, so that the task of the scope  *)
(* the rank is in does not hear of the new binding.                        *)
CreateAndBind(r, nobjs) ==
    LET part == get_cpuset_for_nobjs(scope[r].hwpool.cpuset, "CORE", nobjs)
    IN  /\ pc[r] = "app"
        /\ ncalls[r] < MaxCalls
        /\ EarlyParts \/ \A m \in Ranks : pc[m] # "intrinsic"
        /\ part.rc = "SUCCESS" /\ part.cpuset # {}
        /\ bound' = [bound EXCEPT ![r] = part.cpuset]
        /\ UNCHANGED <<scope, top, pc, ncalls, args, hwsplit, outbox, colorp, hwpool, rc>>

(* A rank enters the split and sends its color, affinity and pool to the   *)
(* root.  Only the root uses its number of pieces and its type.            *)
Call(r, color, type, npieces) ==
    /\ pc[r] = "app"
    /\ ncalls[r] < MaxCalls
    /\ ncalls' = [ncalls EXCEPT ![r] = @ + 1]
    /\ args' = [args EXCEPT ![r] = [npieces |-> npieces, type |-> type, color |-> color]]
    /\ Goto(r, IF IsRoot(r) THEN "gather" ELSE "barrier")
    /\ UNCHANGED <<scope, bound, top, hwsplit, outbox, colorp, hwpool, rc>>

(* qv_split passes on the number of pieces it is given, qv_split_at counts *)
(* the objects of its type in the caller's own pool.  What the others pass *)
(* is not looked at.                                                       *)
qv_split(r) ==
    \E color \in Colors :
        \/ ~IsRoot(r) /\ Call(r, color, NoArgs.type, NoArgs.npieces)
        \/ /\ IsRoot(r)
           /\ "LAST" \in Types
           /\ \E npieces \in PieceCounts : Call(r, color, "LAST", npieces)

qv_split_at(r) ==
    /\ IsRoot(r)
    /\ \E color \in Colors, type \in Types \ {"LAST"} :
          Call(r, color, type, nobjects(scope[r].hwpool, type))

(* The gather completes at the root, which computes the split.  If that    *)
(* throws, the exception leaves split() and the root's call is over.       *)
RootSplits(r) ==
    /\ pc[r] = "gather"
    /\ \A m \in Group(r) \ {r} : pc[m] = "barrier"
    /\ \E base_hwpool \in {set_union([m \in Group(r) |-> scope[m].hwpool])},
          affinities \in {ByRank(r, top)},
          colors \in {ByRank(r, [m \in Ranks |-> args[m].color])} :
       \E outcome \in m_split(base_hwpool, args[r].type, args[r].npieces, affinities, colors) :
          \/ /\ outcome.kind = "rc"
             /\ hwsplit' = [hwsplit EXCEPT ![r] = outcome]
             /\ Goto(r, "barrier") /\ UNCHANGED rc
          \/ /\ outcome.kind = "throw"
             /\ Goto(r, "threw") /\ UNCHANGED <<hwsplit, rc>>
          \/ /\ outcome.kind = "crash"
             /\ JobAborts /\ UNCHANGED hwsplit
    /\ UNCHANGED <<scope, bound, top, ncalls, args, outbox, colorp, hwpool>>

Barrier(r) ==
    /\ IsRoot(r)
    /\ \A m \in Group(r) : pc[m] = "barrier"
    /\ pc' = [m \in Ranks |-> IF m = r THEN "bcast"
                              ELSE IF m \in Group(r) THEN "recv" ELSE pc[m]]
    /\ UNCHANGED <<scope, bound, top, ncalls, args, hwsplit, outbox, colorp, hwpool, rc>>

(* A rank takes its part of the result and goes on to split the group. *)
Takes(r, result, i) ==
    /\ colorp' = [colorp EXCEPT ![r] = result.colors[i]]
    /\ hwpool' = [hwpool EXCEPT ![r] = result.hwpools[i]]
    /\ Goto(r, "group") /\ UNCHANGED rc

(* m_colors has as many elements as the mapping has keys.  When these are  *)
(* too few, the scatter reads beyond the end: the process dies, or reads   *)
(* the colors that were there before the vector was shortened.             *)
Scattered(r) ==
    LET result == hwsplit[r]
        stale == ByRank(r, [m \in Ranks |-> args[m].color])
    IN  [result EXCEPT !.colors =
            [i \in DOMAIN stale |-> IF i \in DOMAIN @ THEN @[i] ELSE stale[i]]]

(* The root broadcasts the code and, after success, scatters the results.  *)
RootSends(r) ==
    /\ pc[r] = "bcast"
    /\ \/ /\ hwsplit[r].rc # "SUCCESS"
          /\ outbox' = [outbox EXCEPT ![r] = [call |-> ncalls[r], result |-> hwsplit[r]]]
          /\ Return(r, hwsplit[r].rc)
          /\ UNCHANGED <<colorp, hwpool>>
       \/ /\ hwsplit[r].rc = "SUCCESS"
          /\ outbox' = [outbox EXCEPT ![r] = [call |-> ncalls[r], result |-> Scattered(r)]]
          /\ Takes(r, Scattered(r), 0)
       \/ /\ hwsplit[r].rc = "SUCCESS"
          /\ DOMAIN hwsplit[r].colors # DOMAIN hwsplit[r].hwpools
          /\ JobAborts
          /\ UNCHANGED <<outbox, colorp, hwpool>>
    /\ UNCHANGED <<scope, bound, top, ncalls, args, hwsplit>>

(* The code of the split is not shared. *)
Faulty_receive_no_code(r) ==
    /\ pc[r] = "recv"
    /\ outbox[s_root(r)].call = ncalls[r]
    /\ LET result == outbox[s_root(r)].result
       IN  IF result.rc # "SUCCESS"
           THEN Return(r, "SUCCESS") /\ UNCHANGED <<colorp, hwpool>>
           ELSE Takes(r, result, group_rank(r))
    /\ UNCHANGED <<scope, bound, top, ncalls, args, hwsplit, outbox>>

Receive(r) ==
    /\ pc[r] = "recv"
    /\ outbox[s_root(r)].call = ncalls[r]
    /\ LET result == outbox[s_root(r)].result
       IN  IF result.rc # "SUCCESS"
           THEN Return(r, result.rc) /\ UNCHANGED <<colorp, hwpool>>
           ELSE Takes(r, result, group_rank(r))
    /\ UNCHANGED <<scope, bound, top, ncalls, args, hwsplit, outbox>>

(* The constructor of the child group connects to the server; when that    *)
(* fails the rank leaves without having entered MPI_Comm_split.            *)
MakeChildGroup(r) ==
    /\ pc[r] = "group"
    /\ \/ Goto(r, "comm_split") /\ UNCHANGED rc
       \/ /\ ConnectMayFail
          /\ Goto(r, "failed")
          /\ rc' = [rc EXCEPT ![r] = "RES_UNAVAILABLE"]
    /\ UNCHANGED <<scope, bound, top, ncalls, args, hwsplit, outbox, colorp, hwpool>>

(* The value colorp was initialized with: the scattered one is not taken. *)
Faulty_comm_color(r) == 0

(* The color that a rank passes to MPI_Comm_split. *)
comm_color(r) == colorp[r]

(* MPI_Comm_split with colorp, and the new scope, whose task found the     *)
(* rank's binding when it connected.  A negative color is an error that    *)
(* ends the job.  (A process group, which is not modelled here, has no     *)
(* communicator: it ignores the color and has the one process again.)      *)
CommSplit(r) ==
    /\ IsRoot(r)
    /\ \A m \in Group(r) : pc[m] = "comm_split"
    /\ IF \E m \in Group(r) : comm_color(m) < 0
       THEN JobAborts /\ UNCHANGED <<scope, top>>
       ELSE /\ pc' = [m \in Ranks |-> IF m \in Group(r) THEN "app" ELSE pc[m]]
            /\ rc' = [m \in Ranks |-> IF m \in Group(r) THEN "SUCCESS" ELSE rc[m]]
            /\ scope' = [m \in Ranks |->
                    IF m \in Group(r)
                    THEN [members |-> {n \in Group(r) : comm_color(n) = comm_color(m)},
                          hwpool |-> hwpool[m], depth |-> scope[m].depth + 1,
                          origin |-> scope[m].origin]
                    ELSE scope[m]]
            /\ top' = [m \in Ranks |-> IF m \in Group(r) THEN bound[m] ELSE top[m]]
    /\ UNCHANGED <<bound, ncalls, args, hwsplit, outbox, colorp, hwpool>>

InSplit(r) ==
    \/ RootSplits(r) \/ Barrier(r) \/ RootSends(r) \/ Receive(r)
    \/ MakeChildGroup(r) \/ CommSplit(r)

Next ==
    \E r \in Ranks :
        \/ make_intrinsic(r) \/ BindPush(r) \/ (\E nobjs \in Parts : CreateAndBind(r, nobjs))
        \/ qv_split(r) \/ qv_split_at(r) \/ InSplit(r)

Spec == Init /\ [][Next]_vars

(* MPI makes progress, and so does a process inside the library. *)
FairSpec == Spec /\ \A r \in Ranks : WF_vars(InSplit(r))

-----------------------------------------------------------------------------
(* Properties. *)

Scopes ==
    [members : SUBSET Ranks, hwpool : HwPools, depth : 0..MaxCalls, origin : HwPools]

TypeOK ==
    /\ scope \in [Ranks -> Scopes]
    /\ bound \in [Ranks -> SUBSET PUs] /\ top \in [Ranks -> SUBSET PUs]
    /\ pc \in [Ranks -> {"intrinsic", "app", "gather", "barrier", "bcast", "recv", "group",
                         "comm_split", "threw", "failed", "aborted"}]
    /\ ncalls \in [Ranks -> 0..MaxCalls]
    /\ hwpool \in [Ranks -> HwPools]
    /\ colorp \in [Ranks -> Ranks \cup Colors]
    /\ rc \in [Ranks -> {"SUCCESS", "ERR_SPLIT", "ERR_INVLD_ARG", "RES_UNAVAILABLE",
                         "ERR_RPC", "ERR_NOT_SUPPORTED"}]

(* The rank has got its intrinsic scope. *)
HasScope(r) == pc[r] # "intrinsic" /\ scope[r].origin # EmptyPool

(* The members of a scope's group agree on who the members are, on the     *)
(* cpuset the scope stands for, and on how many splits led to it: the      *)
(* server told everyone the same of the intrinsic scope, though members    *)
(* changed their bindings while others were still asking, and the group    *)
(* that MPI_Comm_split makes from the scattered colors matches the         *)
(* hardware pools scattered separately.                                    *)
GroupsMatchPools ==
    \A r \in Ranks : \A m \in Group(r) :
        /\ Group(m) = Group(r)
        /\ scope[m].depth = scope[r].depth
        /\ HasScope(r) /\ HasScope(m) => scope[m].hwpool.cpuset = scope[r].hwpool.cpuset

(* Members of a group that have returned from the same call were told the  *)
(* same: a split fails for everyone or for no one.                         *)
VerdictsAgree ==
    \A r \in Ranks : \A m \in Group(r) :
        pc[r] = "app" /\ pc[m] = "app" /\ ncalls[r] = ncalls[m] => rc[r] = rc[m]

(* Ranks that are in different groups after any sequence of splits have no *)
(* processing unit in common, and every rank has one.  A rank with the     *)
(* color QV_SCOPE_SPLIT_UNDEFINED too, if it gets a scope at all: that it  *)
(* would "receive an empty scope" (quo-vadis.h:159-161) is not so.         *)
GroupsDisjoint ==
    \A r, m \in Ranks : HasScope(r) =>
        /\ scope[r].hwpool.cpuset # {}
        /\ Group(m) # Group(r) =>
              scope[r].hwpool.cpuset \cap scope[m].hwpool.cpuset = {}

(* No split loses a device of the intrinsic scope, and none gives a device *)
(* to two ranks.                                                           *)
DevicesPartitioned ==
    /\ \A r, m \in Ranks : r # m /\ scope[r].depth > 0 =>
          scope[r].hwpool.devices \cap scope[m].hwpool.devices = {}
    /\ \A r \in Ranks : \A dev \in scope[r].origin.devices :
          \E m \in Ranks : dev \in scope[m].hwpool.devices

(* A device is in a pool it has no affinity for only if no pool with       *)
(* affinity for it was left without a device.                              *)
DevicesStayClose ==
    \A r, m \in Ranks : \A dev \in scope[r].hwpool.devices :
        (/\ scope[r].depth > 0
         /\ affinity(dev) \cap scope[r].hwpool.cpuset = {}
         /\ affinity(dev) \cap scope[m].hwpool.cpuset # {})
        => scope[m].hwpool.devices # {}

(* The members of r's group have all entered a split ... *)
AllEntered(r) ==
    \A m \in Group(r) : pc[m] \notin {"app", "aborted"} /\ ncalls[m] = ncalls[r]

(* ... with colors of one sign and, for an automatic split, enough         *)
(* processing units to make at least one piece.                            *)
WellPosed(r) ==
    LET root == s_root(r)
        pieces == m_split_cpuset(set_union([m \in Group(r) |-> scope[m].hwpool]),
                     args[root].type, args[root].npieces, Cardinality(Group(r)))
    IN  \/ \A m \in Group(r) : args[m].color >= 0
        \/ DOMAIN pieces # {} /\ \A m \in Group(r) : args[m].color < 0

Left(r, k) == pc[r] \in {"app", "aborted"} \/ ncalls[r] # k

(* A well-posed split that everyone has entered ends for everyone, with    *)
(* whatever code, unless the connection of a member's new task fails.      *)
WellPosedSplitReturns ==
    \A r \in Ranks, k \in 1..MaxCalls :
        (ncalls[r] = k /\ AllEntered(r) /\ WellPosed(r))
            ~> (Left(r, k) \/ \E m \in Group(r) : pc[m] = "failed")

(* qvi-hwsplit.cc:397: "To avoid hangs in split error paths, share the     *)
(* split rc with everyone."                                                *)
SplitNeverHangs ==
    \A r \in Ranks, k \in 1..MaxCalls :
        (ncalls[r] = k /\ AllEntered(r) /\ pc[r] # "threw") ~> (Left(r, k) \/ pc[r] = "threw")

(* docs/concepts.md:19: splits "split the resources into subsets".  Holds  *)
(* as long as nobody splits at a device type: that divides what is near    *)
(* the devices, whatever the parent has of it.                             *)
ChildWithinParent ==
    [][\A r \in Ranks : HasScope(r) =>
          scope'[r].hwpool.cpuset \subseteq scope[r].hwpool.cpuset]_vars
=============================================================================
