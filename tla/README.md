# Quo-Vadis in TLA+

Quo-Vadis is a runtime library that gives the workers of a program (processes,
MPI ranks, threads) *scopes*: collections of hardware that a group of workers
shares. A scope is split, collectively, into sub-scopes whose hardware is close
to the workers that get it, and a worker pushes and pops scopes to be bound to
their hardware. A daemon on each node, `quo-vadisd`, knows the node's hardware
and does the binding.

This directory holds TLA+ specifications of that code, TLC configurations that
model-check them, and TLAPS proofs. Definitions have the names of the functions
and members they model; `PROJECT.json` maps each to its lines.

## 1. Inventory

| Component | Source | State | Operations |
|---|---|---|---|
| Mapping algorithms | `qvi-map.cc` | none; the solver: proposals, matching in both directions, queue | packed, spread, colors, close, uniq, clamp |
| Hardware split | `qvi-hwsplit.cc` | gathered colors, affinities and pools; pieces; new colors and pools | `m_split`, `split`, `thread_split` |
| Scopes | `qvi-scope.cc`, `quo-vadis.cc` | a group and a hardware pool | intrinsic, create, split, split_at, thread_split, bind, query, free |
| Collectives | `qvi-coll.h`, `qvi-group-*.{h,cc}`, `qvi-mpi.cc` | MPI communicators; a team of threads with a barrier | gather, scatter, bcast, barrier, split |
| Hardware pools | `qvi-hwpool.cc` | cpuset, devices by type | initialize, add_device, nobjects, union |
| hwloc wrapper | `qvi-hwloc.cc` | topology, devices | bitmap_split, affinities, bind a thread |
| Tasks | `qvi-task.cc` | an RMI client, the bind stack | connect, push, pop, top |
| RMI | `qvi-rmi.cc` | client: REQ socket; server: REP socket, dispatch table, shutdown flag | one RPC each for hello, get/set binding, five queries, shutdown |
| Thread groups | `qvi-group-thread.h`, `qvi-group-pthread.*`, `quo-vadis-thread.cc` | tasks, table of thread ids (LRU), barrier | task(), thread_split, start routine |
| MPI startup | `qvi-mpi.cc`, `quo-vadis-mpi.cc` | node and world communicators, table of groups | start daemons, exchange port, connect |
| Daemon, sessions | `quo-vadisd.cc`, `qvi-utils.cc` | session directory and its owner, a topology file per daemon, port | start, export, clean up, discover |
| Lifetime | `qvi-scope.cc`, `qvi-utils.h` | reference counts | retain, release, free |
| Serialization, logging, Fortran | `qvi-bbuff.*`, `qvi-log.*`, `fortran/` | none of interest | |

How they interact. A scope owns (a reference to) a group and a pool. The group
owns a task, the task owns an RMI client, the client talks to the daemon over
ZeroMQ. `qv_split` gathers the members' colors, current bindings and pools at
one of them, the root; the root computes the split with the mapping functions;
after a barrier the root shares the return code and scatters new colors and
pools; then the group is split by the new colors, and each member makes its new
scope. `qv_bind_push` sends the scope's cpuset to the daemon, which binds the
calling thread, and then pushes the cpuset on the task's stack.

What is hard about it:

- **Collectives with early exits.** Any member that returns or throws between
  two collectives leaves the others waiting. Colors, pools and groups travel in
  separate collectives and have to agree at the end.
- **Arithmetic of splits.** Fewer processing units than pieces, no pieces at
  all, remainders, roles exchanged, sparse cpusets, devices whose affinity
  reaches beyond the cpuset.
- **The solver's loop.** Rejected and evicted sources are queued again. It has to
  end with a matching that is even, stable and independent of the queue.
- **A remote procedure with timeouts.** A REQ socket cannot send again before it
  has received. A request that timed out is still executed. A server may stop
  or be restarted at any moment.
- **Several stacks for one thread.** Each scope's task has its own.
- **Daemons that come and go.** Jobs and users start daemons on the same node at
  the same time; they share a session directory per port, each with a topology
  file of its own in it, and clients find them by the name of the process.
- **A pool computed from moving parts.** The hardware of a job is the union of
  what its processes are bound to when the server looks, once per process.
- **Threads without names.** A thread group maps thread ids to tasks through a
  counter and a cache that evicts; the tasks themselves have no lock.
- **Lifetime.** Groups with reference counts, an MPI context with one owner and
  many users, communicators in a table that outlive their groups.

The properties that make the components correct are listed with the runs below;
the places where each can go wrong are listed as hazards in `PROJECT.json`.

## 2. Modules

```
Mapping <-- StableMarriage --(refines)--> CloseSpec
   ^
   |  Hwloc
   |   ^
HwSplit <-- MapFunctions <-- MCMapFunctions
   ^
ScopeSplit <-- MCScopeSplit

ThreadGroup <-- Scopes <-- MCScopes
   ^
   +-- MCThreads

Rmi <-- Task <-- MCTask

Session <-- MCSession
```

The theorems about a module are in a module of their own, which extends it:
`MappingProofs`, `StableMarriageProofs`, `HwSplitProofs`, `MapFunctionsProofs`,
`ScopeSplitProofs`, `TaskProofs` (it covers `Rmi` as well), `ScopesProofs` (with
`ThreadGroup`) and `SessionProofs`. `ScopeSplitProofs` and `MapFunctionsProofs` rest on
`HwSplitProofs`, and that on `MappingProofs`.

### Mapping, StableMarriage, CloseSpec

`Mapping` has the functions of `qvi-map.cc` as operators. A `qvi_map_t` is a
function from source ids to sets of destination ids, a vector is a function on
`0..n-1`. Cpusets are sets.

The close mapping is `stable_marriage_solver`: every destination has
`ceil(n/m)` slots, sources propose to slots in the order of their preference
(affine destinations first, then the less contended, then the lower number), a
slot keeps the source it prefers. `StableMarriage` is that loop, one iteration
per step, with the members of the class as variables. `ProposeToFree`,
`ProposeAndEvict`, `ProposeRejected` and `Exhausted` are the branches of
`solve()`; `Verify` is the call of `stable()` in `solve_ap_mapping`. The sorted
preference lists are represented by the order they are sorted by; the index of
a slot in a list is the number of slots before it.

`CloseSpec` says what the caller gets: in one step a matching that is the result
of the problem, or an exception because there is no destination. "The result" is
`IsCloseMatching`: stable, and no stable matching is better for any source.
`HwSplit` uses that definition rather than the loop, which the refinement
justifies.

### Hwloc, HwSplit, ScopeSplit

`Hwloc` has the cpusets, objects, devices and pools: which cores and devices lie
inside a cpuset, the cpuset of a number of objects (`get_cpuset_for_nobjs`, behind
`qv_create_scope`), `bitmap_split`, `populate`, and the server's answer for an
intrinsic scope (`get_intrinsic_hwpool`). A processing unit is its logical index.
There is one type of host object and one of device, since the code treats types
one by one and alike.

`HwSplit` is the computation at the root: `m_determine_mapping`, `m_split` with
the assignment of devices, and `thread_split`, in which one task splits its pool
among its threads. Its result is a set of outcomes: a code, an exception, or the
death of the process (assertion, division by zero, read out of bounds). Where an
outcome depends on the build, as with assertions, both are in the set.

`ScopeSplit` is the collective around it. Each rank has a scope (members of the
group, pool, depth), a binding, a program counter and the data of its call. At
first it has no pool: `make_intrinsic` asks the server, which looks at the
bindings of that moment, while other ranks are already at work. Then, in the order
of the code: `qv_split`/`qv_split_at` (send to the root), `RootSplits` (the gather
completes, `m_split`), `Barrier`, `RootSends` (broadcast of the code, scatter),
`Receive`, `MakeChildGroup` (the child's task connects), `CommSplit`
(`MPI_Comm_split`, the new scope). `BindPush` binds to the scope itself,
`CreateAndBind` to a part made with `qv_create_scope`. The latter has a task of
its own, so the model keeps the real binding (`bound`) and the top of the stack
of the scope's task (`top`) apart: the server answers from the first, a split
takes its affinities from the second. A rank goes on with the child, so later
calls are splits of splits. MPI is external: gathers let senders go on,
broadcasts and scatters let the root go on, barriers and `MPI_Comm_split`
synchronise, and the launcher ends the job when a process dies. The group of a
process without MPI is the instance with one rank, but for one difference: it
ignores the color (`qvi-group-process.h:100-111`), so that a split without pieces
succeeds with an empty pool where `CommSplit` has MPI end the job. No run has one
rank.

### ThreadGroup, Scopes

`ThreadGroup` is a process whose threads bind themselves through the children of
thread splits. A group has tasks (here their bind stacks), a counter that all
groups share, and the cache of thread ids, most recently used first. A region
starts with `Fork` (`qv_pthread_create`, or a parallel region of OpenMP); each of
its threads looks its task up and pushes (`bind_push`, `PushReturns`), may look it
up again in between (`bind_string`), and pops (`bind_pop`, `PopReturns`), or leaves
by `pthread_exit`. The OS may refuse to bind: a push then ends the thread, a pop,
which has removed the entry already, leaves it where it is with a warning. The lookup is atomic because the code holds
the group's mutex for it; the use of the task is a step of its own because it
does not. `Teams` says where the threads of a region come from: all new, those of
the last region, or the main thread with new ones.

`Scopes` adds the lifetime of everything a process owns: groups with their
reference counts, MPI contexts with their table of communicators, scopes. A
context has one owner, the group of an intrinsic scope; children point to it.
`qv_mpi_scope`, `qv_process_scope`, `qv_split`, `qv_create`, `qv_thread_split`,
`qv_free` and `qv_thread_free` come in any order, with failures that leave
behind what the code leaves behind. `touched` and `strays` are history variables:
deleted objects that were used, and groups made for an intrinsic scope that did
not come to be.

### Rmi, Task

`Rmi` is the server's loop (`CheckSignal`, `PollAgain`, `m_rpc_dispatch`), its
signal handler, its end and its restart, and for each client the socket and the
places where a message can be: the client's pipe, the server's socket, on the
way back. ZeroMQ is external and modelled by its documented rules: strict
alternation of a REQ socket (`EFSM` otherwise), requests wait for the server
even across a restart, a closed socket's requests linger. A server that stops
discards what it has not read and may lose replies.

`Task` has a client per task: `connect_to_server` with hello and topology, the
initial `GET_CPUBIND`, `bind_push`, `bind_pop`, the queries, the shutdown
message, the destructor. Each call is split where it waits for the reply, which
may come or time out. A thread is in one call at a time, but may own several
tasks. `nesting` is a history variable: the pushes of a thread and the binding
each replaced.

Left out of both `Rmi` and `Task`: messages that do not parse, sockets that cannot be created,
and what the queries answer.

### Session

`Session` is the start of an MPI job on one node. The representative looks for a
daemon (`Discover`) and forks one if there is none (`qvi_start_quo_vadisd`); all
ranks meet in the barrier; then each looks for a server, first on the port of its
own `QV_PORT` (`discover_port`), then on any (`discover_any`), says hello (`Hello`)
and loads the topology file that the reply names (`topology_load`). A port is a text
until it is read: one that is no number, in `QV_PORT` or on the command line of any
running daemon, makes `qvi_stoi` throw (`PortUnreadable`), and the representative
then leaves `m_start_daemons` without coming to the barrier.

A daemon goes through `Exec`, `session_dir_exists`, `make_session_dir` (the check and
the `mkdir` are two steps, others come in between), `export_hwtopo`,
`start_rmi_server`, and after a signal `LeaveLoop`, `cleanup` (the files in the
directory), `rmdir`, `close_server` (the socket, and `~qvi_hwloc` unlinks the daemon's
own file). A directory is used if it can be read and written, that is, if the daemon's
own user made it; `mkdir` fails on one of another user, and the daemon panics. The
topology file has the daemon's PID in its name: `topo` is the set of daemons whose file
exists. Others, of any user, may start a daemon on any port, signal it or kill it at any
moment. There are two history variables. `robbed` has the daemons whose file the
clean-up of another took. `disturbed` tells whether a daemon was stopped or killed or
met a left-over directory of another user, a port could not be read, or a fork, an exec
or a wait failed that need not have.

Left out: a command line `--port=1=2`, which the daemon can read and the ranks cannot
(it counts as unreadable for both); files of earlier daemons in a left-over directory,
which no reply names; and a file that disappears while `qvi_rmall` walks the directory,
which ends the walk early. Only one node is modelled,
because the code exchanges nothing between nodes: the comment in
`get_portno_from_env` ("See if QV_PORT is set on any of the nodes") expects a
communicator of all representatives, but `m_create_admin_comms` splits it off the
node's communicator, and it has one member.

Operators named `Faulty_...` are plausible slips of the definition that follows
them; with such a slip in place the property that is named for it in
`PROJECT.json` is violated. No specification uses them.

## 3. Runs

| Run | Checks | Instance |
|---|---|---|
| `close_mapping` | `ThrowsOnlyWithoutDestinations`, `EvenShares`, `NoJustifiedEnvy`, `SlotsOnlyImprove`, `Termination`, `IInv`, `ImplementsCloseSpec` | up to 3 sources, 3 destinations, all cpusets of 3 PUs |
| `map_functions` | `PackedPacks`, `SpreadSpreads`, `ClampKeepsOrder`, `UniqIsExclusive`, `SplitPartitions`, `CreateMatchesCount`, `ThreadsShareFairly` | counts 0..7, up to 4 tasks, all maps 3 to 3, all bitmaps of 5 sparse PUs, cores of different sizes and one outside of the cgroup, devices |
| `split_one` | `TypeOK`, `GroupsMatchPools`, `VerdictsAgree`, `GroupsDisjoint`, `DevicesPartitioned`, `DevicesStayClose`, `WellPosedSplitReturns` | 3 ranks ask for `QV_SCOPE_JOB` one by one and split it once, any mix of colors, piece counts, types, bindings; connections may fail; fair |
| `split_nested` | `GroupsDisjoint`, `ChildWithinParent` | 3 ranks in `QV_SCOPE_USER`, two levels, ranks bound to created parts, no split at devices |
| `task_bind` | `TypeOK`, `OneOutstanding`, `TopIsBinding`, `PopRestores` | 2 threads with a task each, 4 and 1 calls, two starts of the server, timeouts, refused bindings |
| `task_returns` | `CallsReturn`, `ShutdownHonoured`, `DestroyReturns` | the same with 2 calls each and one client of another version, fair |
| `session` | `TypeOK`, `ServerHasTopology`, `OneRemover`, `StartupReturns`, `EveryoneConnects` | 2 ranks with different `QV_PORT`, 2 users, 2 ports and an unreadable one, 2 daemons, a left-over directory of any user on the default port, fair |
| `scopes` | `TypeOK`, `SeparateTasks`, `BindingsNest`, `NoFreedAccess`, `NothingLeaks` | 3 groups that are not thread groups, thread groups of 2 and of 3, 5 threads, 2 regions, refusals and failures |

The bounds. The solver needs more sources than destinations and a destination
with several slots (3 on 2) for evictions that cascade over slots of one
destination, as many destinations as sources for contention, and uneven
affinities (3 PUs make pairs of cpusets that are disjoint, nested or properly
overlapping); no source, no destination and one of
each are included. Splits need a group in which two members share a piece and a
third does not, and more pieces than members, as many, and fewer; of the two colors
that are not negative, one is in the range of three pieces and out of that of two, so
that colors are taken as they are or clamped. Two levels are
needed for anything that depends on a pool that is not the whole node. A task
needs four calls for two pushes and two pops, or for a failure between them; the
second client's calls and the restart make every message of the first cross a
stop of the server. Two daemons are enough for every race for a directory or a
port, since each race is between a pair: one of them may have made the directory and
be stopping while the other starts. In `session` a directory is left over on the
default port only; the other port's is like it, and is first made by a daemon.

For `scopes`, three groups make a base, a child and a grandchild, or two bases;
`MaxWork` bounds groups and regions together at three, so that a region runs in
the presence of every shape of two groups. The cache has `CacheFactor` entries per
task. The code has 8; with 1 the cache of a group is as large as its team, and a
second region with new threads already evicts, which with 8 would take nine
regions. `threads_region` keeps the code's 8. Five threads are the main thread and
two fresh teams of two, or a fresh team of three that is used again.

Deadlock is not checked: every instance ends (calls are bounded), and a job
whose ranks wait for each other is what the liveness properties are about.

Fairness. `Session`: processes run; nobody is obliged to start, signal or kill a
daemon. `StableMarriage`: the calling thread goes on (`WF(Next)`). `ScopeSplit`:
MPI makes progress and a process inside the library goes on; nobody is obliged
to call. `Task`: a thread in a call goes on, and its receive times out because
`connect` sets `ZMQ_RCVTIMEO`; ZeroMQ's I/O threads transmit to a server that is
up; a server that is up runs its loop, whose poll returns every second. Nobody
is obliged to call, to signal, or to start a server. The run of `Scopes` checks
no liveness.

### What the code does not do

Four runs end in a counterexample. Each sets a statement of the repository
against the code and is explained in `PROJECT.json` under `findings`.

- `split_hang` (`SplitNeverHangs`): when `m_split` throws, the root leaves before
  the barrier and the other members wait in it.
- `startup_hang` (`StartupNeverHangs`): a `QV_PORT` that is no number makes the node's
  representative leave `m_start_daemons` by an exception; the other ranks wait in the
  barrier that was to "avoid hangs".
- `task_nested` (`PopRestores`): nested pushes of two scopes on one thread are not
  undone in order.
- `threads_region` (`SeparateTasks`): two parallel regions with the same main thread
  and different workers give two threads of the second the same task.

A fifth finding is about a property that passes. `GroupsDisjoint` says that every rank
with a scope has a processing unit, and `split_one` has ranks that pass
`QV_SCOPE_SPLIT_UNDEFINED`, whose caller should "receive an empty scope"
(`quo-vadis.h:159-161`) or "empty sets" (`qvi-hwsplit.cc:161-162`). Nobody does: all
members passing it get `QV_ERR_INVLD_ARG`, and mixed with colors that are not negative
it is a failed assertion or an exception.

Some of the properties that pass have a condition, and each condition stands for
something the code does that a reader should know:

- `ChildWithinParent` is checked without splits at a device type. Such a split
  divides the processing units near the devices (`qvi-hwsplit.cc:112-118`), also
  those outside the parent: with a device near the whole node, two levels of
  splits hand a sibling's processing units to a grandchild.
- `TopIsBinding` speaks of a task that is alone on its thread and none of whose
  calls has timed out. A push that timed out is still executed by the server,
  unknown to the stack, and the socket cannot send again.
- `ServerHasTopology` has one exception. The daemon that made a directory removes
  everything in it when it stops, before its port is free; one that is starting may have
  found the directory, exported its own file into it, lost it (`robbed`), and then get
  the port. It serves, but no client can load its topology.
- `OneRemover` is about the directory. The files that its creator removes may be of
  daemons that did not make it: the exception above.
- `StartupReturns` excepts a representative that throws because it cannot read a port
  (`startup_hang`); every other error reaches the barrier.
- `EveryoneConnects` speaks of startups that nothing disturbs. A port that cannot be
  read counts as a disturbance, and so does a directory that a daemon of another user
  has left behind: `access(R_OK | W_OK)` fails on it (`quo-vadisd.cc:159`), `mkdir`
  fails too, the daemon panics, and as every later one does the same nobody connects
  on that port until somebody removes it.
- Groups of one process never get a proper part of their scope, since
  `m_split_cpuset` takes the minimum of the number of pieces and the size of the
  group (`qvi-hwsplit.cc:136`), although the comment above it says not to, and
  `tests/test-process-scopes.c:61` expects one half.
- `GroupsMatchPools` is checked with `EarlyParts = FALSE`: nobody creates a part of
  its scope and binds to it before everyone has the intrinsic scope. With `TRUE`
  and a part of one core TLC finds, in three steps, a rank whose `QV_SCOPE_JOB` is
  smaller than that of the others (`qvi-rmi.cc:655`). Pushing the intrinsic scope
  itself does no harm, since that only makes the union what it was.
- `SeparateTasks` and `BindingsNest` pass with `Overlap = FALSE` and with teams that
  are all new or all kept. With overlapping regions of two groups the shared
  counter (`qvi-group-thread.h:62`) gives two threads of one group the same task.
  `BindingsNest` excepts a group with a thread that called `pthread_exit`, as what it
  pushed stays, and one with a thread whose pop the OS has refused, which stays bound
  to its part (`quo-vadis-thread.cc:58-63`). The team of such a region does not come
  back in the model.
- `NoFreedAccess` is checked with `UseAfterBase = FALSE`. Scopes may be freed in any
  order, the base first, but a child must not be split, created from or used in a
  barrier after its base: its communicators went with the base's context
  (`qvi-group-mpi.cc:49`). With `TRUE` the counterexample has four steps.
- `NothingLeaks` leaves out the group and the context of an intrinsic scope that
  could not be made (`qvi-scope.cc:65`): nobody deletes them.
- `DestroyReturns` lets the destructor wait while there is no server. The client
  leaves ZeroMQ's linger period at its default, and a request that timed out is
  still in the socket when the context is destroyed (`qvi-rmi.cc:298`); the comment
  above it, "Otherwise it will hang", is about the socket only.
- `ThreadsShareFairly` is about splits with enough processing units. With more
  pieces than those the default thread split succeeds and gives every thread an
  empty pool. At a device type, what is shared is what the devices are close to
  (`qvi-hwsplit.cc:112-118`): other processing units of the pool go to nobody, and a
  part may reach out of the pool. The slip that the property is tested with, a number of
  pieces that is not capped by the number of threads, is the line that the comment at
  `qvi-hwsplit.cc:132-137` asks for; with it some pieces go to nobody.
- `CreateMatchesCount` has devices as an exception. `qv_hw_obj_count` counts those with
  affinity for the scope, but `get_cpuset_for_nobjs` looks for them among hwloc's
  objects with a cpuset (`qvi-hwloc.cc:1151`), where there are none: a scope with one
  device or more cannot be created, whatever the count.
- `quo-vadis.h:83` describes `QV_SCOPE_PROCESS` as "Like QV_SCOPE_USER, but the
  group comprises only the calling process."; its hardware is what the process is
  bound to, not the node (`m_get_iscope_bitmap_proc`), and is modelled so.
- `WellPosedSplitReturns` excludes mixed colors, splits without pieces, and members
  that fail to connect their new group (`qvi-group-mpi.cc:110`): in each of these
  some member can leave the collective while the others wait.

## 4. Proofs

Every invariant and every safety property of the passing runs is also a theorem, for
all values of the constants that satisfy the assumptions of the modules; only liveness
is left to TLC. TLC checks an instance of at most three
ranks, tasks or groups; the theorems have no such bound.

### Assumptions

The named `ASSUME`s say what the code relies on: numbers of sources, calls and pieces
are natural numbers, processing units and devices are finite sets of logical indices,
cores are disjoint, a device is close to processing units of the node
(`HardwareAssumption`); there is a processing unit, and nobody is bound to the empty
set, since the system refuses that (`SplitAssumption`); a task has one thread
(`TaskAssumption`); the representative is a rank, and a port that cannot be read or is
not set is no port (`SessionAssumption`).
`RmiAssumption` has `MaxStarts >= 1`: there is a server to begin with.

Some theorems need more, and say so in their statement. Each condition is one of
section 3, where what happens without it is described:

| Condition | Theorems |
|---|---|
| `EarlyParts = FALSE` | `MembersAgree`, `ChildrenShrink` |
| no split at a device type | `ChildrenShrink`; `SeparateGroups`, unless there is only one split |
| `IScope # "PROCESS"` | `SeparateGroups`, `DevicesKept`, `DevicesClose`: processes bound alike have overlapping scopes of their own |
| at most one call | `DevicesClose`: a device goes to a part of its parent's pool, and the parent may have been far |
| one task per thread | `PopsRestore` |
| `~UseAfterBase` | `NoUseAfterFree` |
| `Overlap = FALSE`, no `"master"` teams | `TasksSeparate`, `ThreadBindingsNest` |

### The mapping functions

`MappingProofs` has the lemmas about the operators of the solver: `qvi_maxiperk`
makes enough slots for all sources, and not all of them can be taken while a source
is free; `src_prefers` and `m_slot_prefers` are strict total orders; the index of a
slot in a source's list is a bijection onto `0..nprefs-1` that respects the order.
`CloseMatchingExists` says that there is a matching such as `IsCloseMatching`
describes, so that the `CHOOSE` in `qvi_map_close` names one. It is proved without the
solver: a set of rejections is *justified* if every slot that rejects a source is wanted
most by one it prefers, and no stable matching has a rejected pair. In a largest
justified set no two sources want the same slot, and what each wants is the matching.

`StableMarriageProofs`: `TypeCorrect`, `Consistent`, `ThrowsOnlyIfNoDestination`,
`Optimal`, `NoEnvy`, `Even`, `SlotsImprove`, and `Refinement` (the loop implements
`CloseSpec`). None of these is inductive by itself; all follow from

    IInv == TypeOK, MatchingConsistent, AskedSlotsAreTaken,
            HeldSlotIsLastAsked, NeverTurnedAwayByStablePartner, OutcomeOK

- *MatchingConsistent*: the two maps are inverse and the queue holds exactly the
  unmatched sources. Needed to know that the evicted source is queued nowhere yet.
- *AskedSlotsAreTaken*: every slot a source has asked is held by someone the slot
  likes no less. With a source that has asked every slot, all slots are taken, by
  other sources; but there are at least as many slots as sources. Hence
  `Exhausted` needs `m_ndsts = 0`. With an empty queue it is stability, hence
  `Verify` never throws.
- *HeldSlotIsLastAsked*: turns "before its own slot in its list" into "asked".
- *NeverTurnedAwayByStablePartner*: no source has been refused or evicted by a slot
  that it has in some stable matching. When slot p turns s away for t, and a
  stable matching U gave p to s, then t has not been refused by U[t] yet, so it
  likes p no less than U[t]; p likes t better than s: t and p contradict the
  stability of U. At the end this is optimality.

`close_mapping` checks `IInv` with TLC as well.

`MapFunctionsProofs` is about the other functions, called with anything: `PackedTogether`,
`SpreadApart`, `ClampedInOrder`, `UniqExcludes`, `SplitIsPartition`, `CreatedAsCounted`
and `FairThreads`. The specification calls one function and stops, so nothing here
is about steps; the work is in what the loops compute. The packed and the spread map
both deal out consecutive *shares* of the sources, one per destination, whose sizes
are the quotient or one more (`SharesBalanced`). For packed, the shares are ranges
(`PackedShares`); for spread they are residue classes (`SpreadShares`), of which
neighbours differ (`NeighboursApart`). `FairThreads` puts together `bitmap_split`, a
balanced map and the union of pools.

Loops are recursive functions over the naturals. The provers have no rule of
induction that they can instantiate, so each induction is written out: the set of
numbers for which the claim fails, its smallest element, and a contradiction one
below. That there is a function that satisfies such an equation is proved in the same
way (`NatRecursion`).

### The split

`HwSplitProofs` ends in `SplitOutcome`: whatever colors, affinities, pools and piece
count `m_split` is given, it throws, dies, answers with an error code, or returns
colors and pools that fit (`SplitFits`): equal colors have the same cpuset,
different ones disjoint cpusets inside the one that is split, every device is in
the pool of exactly one member, and none is far from its pool while a pool it is
close to is without. It is built from `SplitPieces` (the pieces of `bitmap_split`
are disjoint and cover), `MappingDecided` (every member gets one piece, whichever
mapping is used), `DeviceMap` and `AppliedMap`.

`ScopeSplitProofs` is about the collective. Ranks of one group run at different speed:
one may be in its next call while another has not received the answer to the last.
The inductive invariant says how far apart they can be, told by where the root is:

- `RankInv`: groups partition the ranks, members have equally deep scopes, and a
  rank in a call has made more calls than its scope is deep. Without it a message of
  one call could be taken for one of another.
- `RootInv`, `MemberInv`: while the root has not completed the gather, a member is
  outside, or waits in the barrier, or still has to fetch a *refusal*, the only result
  that lets the root go on alone; between gather and broadcast all are at the same
  barrier; after the broadcast all are on their way to `MPI_Comm_split`.
- `VerdictInv`: what a member outside was told is what the root has sent last.
- `ResultInv`: the root has a result of `m_split` for the arguments that the members
  still have, and a member that received has its own part of it. This is where
  `SplitOutcome` comes in.
- `SideInv`, `TypeInv`: only roots send, all die together, nobody is unbound.

Theorems: `TypeCorrect`, `OneVerdict`, `MembersAgree`, `SeparateGroups`, `ChildrenShrink`,
`DevicesKept`, `DevicesClose`. The last five add an invariant each that speaks of
pools and is inductive relative to `IInv`: `CpusetsAgree` with `AnswersAgree` (all
that the server will answer for the intrinsic scope is what it has answered
before, for which nobody may be bound to a part yet), and `OthersDisjoint`.

### Tasks and the server

`TaskProofs`: `TypeCorrect`, `StrictAlternation` (`OneOutstanding`),
`RepliesAnswerTheCall`, `StackTellsTheTruth` (`TopIsBinding`), `PopsRestore`. The
invariant, for each task:

- `Alternates`, `SocketFits`: a message is in at most one place, and the state of the
  socket follows from the state of the call, timeouts apart.
- `RequestFits`, `ReplyFits`: the message belongs to the call the task waits in, and to
  the cpuset on its stack. Needed because a request may be executed long after it
  was sent, even by another server.
- `BindingFits`: what the thread is bound to, in each state of the call: the old top
  until the request is executed, the new cpuset afterwards.
- `NestingFits`: the binding that the i-th open push replaced lies under it on the
  stack, with a shift by one while a push or a pop is under way.

### Lifetime

`ScopesProofs`: `NoLeaks` and `NoUseAfterFree`. The invariant: the scopes of a group are
made and freed together and a live group has one reference for each (`GroupFits`); a
context lives exactly as long as the scope of the group that made it
(`ContextFits`); a group's communicator is in the table of its context while that
lives (`SharingFits`); and threads run only on scopes that are there (`TeamsFit`), so
that a region is no way around the first three.

### Thread groups

They are proved about in `ScopesProofs` too, as part of the process that makes and frees
their scopes. `ThreadsRefine` says that this adds nothing: every behaviour of `Scopes`,
seen through the variables of `ThreadGroup`, is one of `ThreadSpec`.

`TypeCorrect` rests on `BasicInv`, which needs no condition: a thread that is at work is
in exactly one team (`InOneTeam`, hence `GroupOf` and `Place` mean something); teams have
no thread twice and are no larger than their group (`TeamOK`); the cache has every
thread at most once and at most `CacheFactor` entries per task (`CacheFits`); and
whoever is past the look-up has an index of a task (`Assigned`).

`TasksSeparate` and `ThreadBindingsNest` rest on `ThreadInv`. The question is whether a
thread that is given an index by the shared counter can meet one that has it from the
cache or from an earlier draw:

- `OneRegion`, `Apart`: one group has a team at a time and no thread works for two
  groups. Without that the draws of two groups interleave, and two threads of one
  group can be as far apart as it has tasks.
- `Recent`: the threads of a team that have looked up are the first entries of the
  cache. A team is no larger than the capacity, so none of them is evicted while its
  region lasts.
- `Separate`: the claim, for all threads that have looked up.
- Either `Known`: the team is the one before, all of it still in the cache, with distinct
  indices, so that every look-up hits; or `Drawn`: those that have not looked up are not
  in the cache, and the others have the last values of the counter, one each. These are
  fewer than there are tasks, so they are distinct modulo their number, and the next one
  is new (`DrawsApart`). Between regions `Known` must hold for the last team too.
  A team with the main thread and new ones is neither; `threads_region` shows what happens.
- `Bound`, `Clean`: what each thread is bound to at each label (for the threads that are
  through, if none of the group was left behind), and that a stack has at
  most the scope of the one thread that runs with it; which is one thread because of
  `Separate`. `UnbornInv`: a thread not made yet has its parent's binding.

### Startup

`SessionProofs`: `TypeCorrect`, `ServersHaveTopology`, `AtMostOneRemover`, for any ranks,
users, ports, values of `QV_PORT`, daemons and left-over directories. The daemon that
has made a directory is past `make_session_dir` (`CreatorsAreLate`) on a port that could
be read (`PortsAreRead`), the directory stays until it removes it (`DirectoryStays`),
hence a second `mkdir` fails (`OneOwner`). Only a daemon that was told to stop leaves its
loop, and only a creator goes on to remove the directory (`LeftByStop`). From its export
until it closes, a daemon's own file is there, or another's clean-up took it, and that
one made the directory and was told to stop (`FilesKept`): the exception of
`ServerHasTopology` has a culprit, and it is the only one.

### Only model-checked

- Liveness: `Termination`, `WellPosedSplitReturns`, `CallsReturn`, `ShutdownHonoured`,
  `DestroyReturns`, `StartupReturns`, `EveryoneConnects`. Fairness and `ENABLED` are
  beyond the prover.

## 5. Not modelled

- Serialization (`qvi-bbuff.*`), logging and the Fortran bindings: sequential
  conversions without state, in which an abstraction would assume what there is
  to check.
- Discovery of the topology and of devices, and the removal of SMT from it: hwloc
  and vendor libraries, reading the machine.
- Queries of a scope (`qv_hw_obj_count`, `qv_group_rank`, `qv_device_id`): they read
  a pool or a group. On a thread scope rank and size report success with an error
  code as the value (`quo-vadis.cc:149`, `qvi-group-thread.h:88`).
- Running out of memory. The paths that handle it are read but not modelled, among
  them the clean-up in `qv_scope::thread_split` (`qvi-scope.cc:272`).
- The collective freeing of communicators when a context is destroyed: `Scopes` has
  one process.
- `qvi-subgroup.h`, which no file includes, and `qvi_group_pthread`, which nothing
  makes.

## 6. Plan

The system's parts are modelled and the safety properties of all passing runs are
proved. What could still be added:

1. The safety half of the liveness properties: bounds on the steps that are left (the
   pairs a solver has not asked, the levels a split can go down), as action properties
   that follow from the invariants proved here.
2. `BindingsNest` and `SeparateTasks` for `"master"` teams and overlapping regions, should
   the code draw indices per group.
