----------------------------- MODULE ThreadGroup -----------------------------
(***************************************************************************)
(* Threads that bind themselves through the child scopes of a thread       *)
(* split: qvi_group_thread, which gives each thread one of the group's     *)
(* tasks, its least recently used cache of thread ids (qvi_lru_cache), and *)
(* the start routine of qv_pthread_create, or the same calls in a parallel *)
(* region of OpenMP.                                                       *)
(*                                                                         *)
(* A region is what happens between a thread's push and its pop; parallel  *)
(* regions of one team in between are part of it.  The i-th thread of a    *)
(* team uses the i-th child scope, and the children's cpusets differ.      *)
(* Failing connections are the subject of module Task.                     *)
(***************************************************************************)
EXTENDS Integers, Sequences, FiniteSets, SequencesExt

CONSTANTS
    Groups,        \* the thread groups of a process
    NTasks,        \* group -> the number of threads it was made for
    CacheFactor,   \* entries of the cache per task, 8 in the code
    MaxThreads,    \* bound on the threads of the process; 1 is its main thread
    Teams,         \* where teams come from: "fresh", "reused" or "master"
    Overlap,       \* may the regions of two groups overlap?
    MaxRegions,    \* bound on the number of regions
    MayRefuse,     \* may the OS refuse to bind?
    MayExit        \* may a thread call pthread_exit in its routine?

ASSUME ThreadAssumption ==
    /\ Groups \subseteq Nat \ {0} /\ IsFiniteSet(Groups)
    /\ NTasks \in [Groups -> Nat \ {0}]
    /\ CacheFactor \in Nat \ {0} /\ MaxThreads \in Nat \ {0} /\ MaxRegions \in Nat
    /\ Teams \subseteq {"fresh", "reused", "master"}
    /\ Overlap \in BOOLEAN /\ MayRefuse \in BOOLEAN /\ MayExit \in BOOLEAN

Tids == 1..MaxThreads
Indices(g) == 0..(NTasks[g] - 1)

(* The cpuset of a child scope, and that of the process that was split. *)
Part(g, i) == <<g, i>>
Parent == <<0, 0>>

VARIABLES
    next_index,    \* the static counter, which all groups share
    m_tasks,       \* group -> its tasks' bind stacks
    m_tid2index,   \* group -> its cache: [tid, index] entries, last used first
    myindex,       \* thread -> the index its last lookup gave
    team,          \* group -> the threads of its current region, in order
    last_team,     \* group -> those of the region before
    pc,            \* thread -> where it is in its region
    cpubind,       \* thread -> the cpuset the OS binds it to
    nthreads,      \* number of threads so far
    nregions,      \* number of regions so far
    abandoned      \* history: groups with a thread that was not brought back

thread_vars == <<next_index, m_tasks, m_tid2index, myindex, team, last_team, pc,
                 cpubind, nthreads, nregions, abandoned>>

ThreadInit ==
    /\ next_index = 0
    /\ m_tasks = [g \in Groups |-> [i \in Indices(g) |-> <<Parent>>]]
    /\ m_tid2index = [g \in Groups |-> <<>>]
    /\ myindex = [t \in Tids |-> 0]
    /\ team = [g \in Groups |-> <<>>]
    /\ last_team = [g \in Groups |-> <<>>]
    /\ pc = [t \in Tids |-> "out"]
    /\ cpubind = [t \in Tids |-> Parent]
    /\ nthreads = 1 /\ nregions = 0
    /\ abandoned = {}

GroupOf(t) == CHOOSE g \in Groups : Contains(team[g], t)
Place(t) == (CHOOSE i \in DOMAIN team[GroupOf(t)] : team[GroupOf(t)][i] = t) - 1
Goto(t, label) == pc' = [pc EXCEPT ![t] = label]

-----------------------------------------------------------------------------
(* qvi_lru_cache and qvi_group_thread::task *)

(* The list without the node of a thread, if it has one. *)
Without(cache, tid) ==
    LET at == {i \in DOMAIN cache : cache[i].tid = tid}
    IN  IF at = {} THEN cache ELSE RemoveAt(cache, CHOOSE i \in at : TRUE)

(* The value that is cached for a thread, if there is one. *)
get(cache, tid) == {cache[i].index : i \in {i \in DOMAIN cache : cache[i].tid = tid}}

(* A full cache loses the entry that was used last, or none. *)
Faulty_put_evicts_first(cache, capacity, tid, index) ==
    LET rest == Without(cache, tid)
    IN  <<[tid |-> tid, index |-> index]>> \o
        (IF rest = cache /\ Len(cache) = capacity THEN Tail(cache) ELSE rest)
Faulty_put_never_evicts(cache, capacity, tid, index) ==
    <<[tid |-> tid, index |-> index]>> \o Without(cache, tid)

(* The entry goes to the front, and the last one of a full cache is lost. *)
put(cache, capacity, tid, index) ==
    LET rest == Without(cache, tid)
    IN  <<[tid |-> tid, index |-> index]>> \o
        (IF rest = cache /\ Len(cache) = capacity THEN Front(cache) ELSE rest)

(* The zero that a failed get() leaves in its result. *)
Faulty_new_index(g) == 0

(* The index of a thread that is not in the cache. *)
new_index(g) == next_index % NTasks[g]

(* Thread t looks its task up, under the group's lock. *)
task(g, t) ==
    LET found == get(m_tid2index[g], t)
        index == IF found # {} THEN CHOOSE i \in found : TRUE ELSE new_index(g)
    IN  /\ next_index' = IF found # {} THEN next_index ELSE next_index + 1
        /\ m_tid2index' = [m_tid2index EXCEPT ![g] =
                              put(@, NTasks[g] * CacheFactor, t, index)]
        /\ myindex' = [myindex EXCEPT ![t] = index]

-----------------------------------------------------------------------------
(* Teams of n threads: new ones, the ones of the last region, or the       *)
(* main thread and new ones.                                               *)
Workforces(g, n) ==
    LET new(count) == [i \in 1..count |-> nthreads + i]
        from(source) ==
            CASE source = "fresh" -> {new(n)}
              [] source = "reused" -> {SubSeq(last_team[g], 1, k) : k \in {n} \cap DOMAIN last_team[g]}
              [] source = "master" -> {<<1>> \o new(n - 1)}
    IN  {w \in UNION {from(source) : source \in Teams} : \A i \in 1..n : w[i] \in Tids}

(* A region begins: threads are created, or taken from the runtime's pool. *)
Fork(g) ==
    /\ nregions < MaxRegions
    /\ team[g] = <<>>
    /\ Overlap \/ \A h \in Groups : team[h] = <<>>
    /\ \E n \in 1..NTasks[g] : \E w \in Workforces(g, n) :
          /\ \A i \in DOMAIN w : pc[w[i]] = "out"
          /\ team' = [team EXCEPT ![g] = w]
          /\ pc' = [t \in Tids |-> IF Contains(w, t) THEN "start" ELSE pc[t]]
          /\ nthreads' = nthreads + Cardinality({i \in DOMAIN w : w[i] > nthreads})
    /\ nregions' = nregions + 1
    /\ UNCHANGED <<next_index, m_tasks, m_tid2index, myindex, last_team, cpubind, abandoned>>

(* qv_bind_push, as the start routine calls it: the task is looked up ... *)
bind_push(t) ==
    /\ pc[t] = "start"
    /\ task(GroupOf(t), t)
    /\ Goto(t, "push")
    /\ UNCHANGED <<m_tasks, team, last_team, cpubind, nthreads, nregions, abandoned>>

(* ... and used without the lock.  After a refusal the thread ends. *)
PushReturns(t) ==
    LET g == GroupOf(t)
        cpuset == Part(g, Place(t))
    IN  /\ pc[t] = "push"
        /\ \/ /\ cpubind' = [cpubind EXCEPT ![t] = cpuset]
              /\ m_tasks' = [m_tasks EXCEPT ![g][myindex[t]] = Append(@, cpuset)]
              /\ Goto(t, "run")
           \/ /\ MayRefuse
              /\ Goto(t, "done")
              /\ UNCHANGED <<cpubind, m_tasks>>
        /\ UNCHANGED <<next_index, m_tid2index, myindex, team, last_team, nthreads,
                       nregions, abandoned>>

(* qv_bind_string in the thread's routine. *)
bind_string(t) ==
    /\ pc[t] = "run"
    /\ task(GroupOf(t), t)
    /\ UNCHANGED <<m_tasks, team, last_team, pc, cpubind, nthreads, nregions, abandoned>>

(* pthread_exit in the thread's routine: there is no pop. *)
Exit(t) ==
    /\ MayExit /\ pc[t] = "run"
    /\ Goto(t, "done")
    /\ abandoned' = abandoned \cup {GroupOf(t)}
    /\ UNCHANGED <<next_index, m_tasks, m_tid2index, myindex, team, last_team, cpubind,
                   nthreads, nregions>>

(* qv_bind_pop after the thread's routine. *)
bind_pop(t) ==
    /\ pc[t] = "run"
    /\ task(GroupOf(t), t)
    /\ Goto(t, "pop")
    /\ UNCHANGED <<m_tasks, team, last_team, cpubind, nthreads, nregions, abandoned>>

(* The entry is popped first; if the OS then refuses to bind, the thread   *)
(* stays where it is, which is only logged.                                *)
PopReturns(t) ==
    LET g == GroupOf(t)
        stack == m_tasks[g][myindex[t]]
        rest == IF stack = <<>> THEN <<>> ELSE Front(stack)
    IN  /\ pc[t] = "pop"
        /\ m_tasks' = [m_tasks EXCEPT ![g][myindex[t]] = rest]
        /\ \/ /\ cpubind' = [cpubind EXCEPT ![t] = IF rest = <<>> THEN @ ELSE Last(rest)]
              /\ UNCHANGED abandoned
           \/ /\ MayRefuse
              /\ abandoned' = abandoned \cup {g}
              /\ UNCHANGED cpubind
        /\ Goto(t, "done")
        /\ UNCHANGED <<next_index, m_tid2index, myindex, team, last_team, nthreads, nregions>>

(* The region is over.  A team with a thread that has exited, or was not   *)
(* brought back, is not used for another region.                           *)
Join(g) ==
    /\ team[g] # <<>>
    /\ \A i \in DOMAIN team[g] : pc[team[g][i]] = "done"
    /\ team' = [team EXCEPT ![g] = <<>>]
    /\ last_team' = [last_team EXCEPT ![g] = IF g \in abandoned THEN <<>> ELSE team[g]]
    /\ pc' = [t \in Tids |-> IF Contains(team[g], t) THEN "out" ELSE pc[t]]
    /\ UNCHANGED <<next_index, m_tasks, m_tid2index, myindex, cpubind, nthreads, nregions,
                   abandoned>>

ThreadStep(t) ==
    bind_push(t) \/ PushReturns(t) \/ bind_string(t) \/ Exit(t) \/ bind_pop(t) \/ PopReturns(t)

ThreadNext == (\E g \in Groups : Fork(g) \/ Join(g)) \/ \E t \in Tids : ThreadStep(t)

ThreadSpec == ThreadInit /\ [][ThreadNext]_thread_vars

-----------------------------------------------------------------------------
(* Properties. *)

ThreadTypeOK ==
    /\ next_index \in Nat
    /\ \A g \in Groups :
          /\ \A i \in Indices(g) : m_tasks[g][i] \in Seq((Groups \cup {0}) \X Nat)
          /\ Len(m_tid2index[g]) <= NTasks[g] * CacheFactor
          /\ \A i, j \in DOMAIN m_tid2index[g] : m_tid2index[g][i].tid = m_tid2index[g][j].tid => i = j
          /\ Len(team[g]) <= NTasks[g]
    /\ pc \in [Tids -> {"out", "start", "push", "run", "pop", "done"}]
    /\ nthreads \in Tids /\ nregions \in 0..MaxRegions

Threads(g) == {team[g][i] : i \in DOMAIN team[g]}

(* A thread has a task while it pushes, runs and pops. *)
HasTask(t) == pc[t] \in {"push", "run", "pop"}

(* qvi-group-thread.h: "Holds the appropriate number of task instances" in *)
(* "a dynamic, transient TID mapping to tasks.  This is geared for         *)
(* runtimes like OpenMP where respective parallel regions may spawn new    *)
(* threads."  No two threads of a region use the same task: a task's       *)
(* socket and bind stack have no lock.                                     *)
SeparateTasks ==
    \A g \in Groups : \A t, u \in Threads(g) :
        t # u /\ HasTask(t) /\ HasTask(u) => myindex[t] # myindex[u]

(* Pushes and pops of all threads nest: a running thread is bound to its   *)
(* own scope, which is the top of the stack of the task it was given, and  *)
(* one that is through is back where it was, with the tasks as clean as    *)
(* they were made.  Unless a thread of the group left without a pop: what  *)
(* it pushed stays, and the next thread with that task returns to it.  Nor *)
(* does it hold of a group once the OS has refused to bind a thread back.  *)
BindingsNest ==
    \A g \in Groups :
        /\ \A t \in Threads(g) : pc[t] = "run" =>
              /\ cpubind[t] = Part(g, Place(t))
              /\ cpubind[t] = Last(m_tasks[g][myindex[t]])
        /\ g \notin abandoned =>
              /\ \A t \in Threads(g) : pc[t] = "done" => cpubind[t] = Parent
              /\ team[g] = <<>> => \A i \in Indices(g) : m_tasks[g][i] = <<Parent>>
=============================================================================
