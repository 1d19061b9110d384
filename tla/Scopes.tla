------------------------------- MODULE Scopes -------------------------------
(***************************************************************************)
(* The lifetime of the scopes of a process and of what they own: reference *)
(* counted groups (qvi_refc), the MPI context that the group of an         *)
(* intrinsic scope creates and its children share, and the communicators   *)
(* in the context's table (m_group_tab).  Threads run on the scopes of     *)
(* thread groups, as in module ThreadGroup, while the main thread goes on. *)
(*                                                                         *)
(* A group is a number and is never used again; an MPI context has the     *)
(* number of the group that creates it, and so has a group's communicator. *)
(* The scopes of group g are the pairs <<g, i>>; only a thread group has   *)
(* several.  What a call exchanges with other processes and the server is  *)
(* the subject of other modules: here it succeeds or fails.                *)
(***************************************************************************)
EXTENDS ThreadGroup

CONSTANTS
    MaxGroups,      \* bound on the groups that are not thread groups
    MaxWork,        \* bound on such groups and parallel regions together
    MayFail,        \* may the server fail to answer?
    UseAfterBase    \* do processes use the children of a base scope they freed?

PlainGroups == 1..MaxGroups
Gids == PlainGroups \cup Groups

ASSUME ScopesAssumption ==
    /\ MaxGroups \in Nat /\ MaxWork \in Nat /\ MayFail \in BOOLEAN /\ UseAfterBase \in BOOLEAN
    /\ PlainGroups \cap Groups = {}

VARIABLES
    groups,     \* group -> its state, kind, reference count and MPI context
    contexts,   \* context -> its state and the communicators in its table
    scopes,     \* the scopes the process has
    strays,     \* history: groups that were made for a scope that was not
    touched     \* history: deleted objects that were used

life_vars == <<groups, contexts, scopes, strays, touched>>
vars == <<thread_vars, life_vars>>

NoContext == 0
Kids(g) == {<<g, i>> : i \in IF g \in Groups THEN Indices(g) ELSE {0}}

Init ==
    /\ ThreadInit
    /\ groups = [g \in Gids |->
                    [state |-> "none", kind |-> "none", refc |-> 0, ctx |-> NoContext]]
    /\ contexts = [c \in PlainGroups |-> [state |-> "none", tab |-> {}]]
    /\ scopes = {}
    /\ strays = {}
    /\ touched = {}

-----------------------------------------------------------------------------
(* There may be one more group or region. *)
MoreWork == Cardinality({g \in PlainGroups : groups[g].state # "none"}) + nregions < MaxWork

(* The next group of a set to be made. *)
IsNext(g, S) ==
    /\ g \in S /\ groups[g].state = "none"
    /\ \A h \in S : h < g => groups[h].state # "none"

New(kind, refc, ctx) == [state |-> "live", kind |-> kind, refc |-> refc, ctx |-> ctx]

(* What an access to a group, or to a group's context, finds deleted. *)
GroupAccess(g) == {<<"group", h>> : h \in {h \in {g} : groups[h].state # "live"}}
ContextAccess(g) ==
    {<<"context", c>> : c \in {c \in {groups[g].ctx} \ {NoContext} : contexts[c].state # "live"}}
Touches(accesses) == touched' = touched \cup accesses

(* qv_mpi_scope: a context, a group that owns it, and a scope.  If the     *)
(* constructor's connection fails the context stays; if the server does    *)
(* not tell the hardware, group and context do.                            *)
qv_mpi_scope(g) ==
    /\ MoreWork /\ IsNext(g, PlainGroups)
    /\ contexts' = [contexts EXCEPT ![g] = [state |-> "live", tab |-> {g}]]
    /\ \/ /\ groups' = [groups EXCEPT ![g] = New("mpi", 1, g)]
          /\ scopes' = scopes \cup Kids(g)
          /\ UNCHANGED strays
       \/ /\ MayFail
          /\ \E state \in {"live", "deleted"} :
                groups' = [groups EXCEPT ![g] = [New("mpi", 1, g) EXCEPT !.state = state]]
          /\ strays' = strays \cup {g}
          /\ UNCHANGED scopes
    /\ UNCHANGED <<touched, thread_vars>>

(* qv_process_scope: a group and a scope.  A constructor that fails leaves *)
(* nothing behind.                                                         *)
qv_process_scope(g) ==
    /\ MoreWork /\ IsNext(g, PlainGroups)
    /\ groups' = [groups EXCEPT ![g] = New("process", 1, NoContext)]
    /\ \/ scopes' = scopes \cup Kids(g) /\ UNCHANGED strays
       \/ MayFail /\ strays' = strays \cup {g} /\ UNCHANGED scopes
    /\ UNCHANGED <<contexts, touched, thread_vars>>

(* The reference a group is born with is never released. *)
Faulty_thread_refs(g) == 1 + NTasks[g]

(* The references of a new thread group: the one it is born with, one for  *)
(* each child, less the one that is released in the end.                   *)
thread_refs(g) == 1 + NTasks[g] - 1

thread_group(g) == New("thread", thread_refs(g), NoContext)

(* The base scope of a group's context is still there. *)
BaseIsThere(g) ==
    groups[g].ctx # NoContext => Kids(groups[g].ctx) \subseteq scopes

(* The application may use the scope of g together with other processes.   *)
MayUse(g) == UseAfterBase \/ BaseIsThere(g)

(* The communicator of h goes into the table of context c, if it is one.   *)
add_group(c, h) ==
    contexts' = [d \in PlainGroups |->
                    IF d = c THEN [contexts[d] EXCEPT !.tab = @ \cup {h}] ELSE contexts[d]]

(* A child group h that shares the context of its parent p. *)
child_group(p, h, state) ==
    /\ Kids(p) \subseteq scopes /\ p \in PlainGroups /\ MayUse(p)
    /\ MoreWork /\ IsNext(h, PlainGroups)
    /\ groups' = [groups EXCEPT
                    ![h] = [New(groups[p].kind, 1, groups[p].ctx) EXCEPT !.state = state]]
    /\ add_group(groups[p].ctx, h)
    /\ Touches(GroupAccess(p) \cup ContextAccess(p))
    /\ UNCHANGED <<strays, thread_vars>>

(* qv_split: the children that fail leave nothing behind. *)
qv_split(p, h) == child_group(p, h, "live") /\ scopes' = scopes \cup Kids(h)

(* qv_create: the group is made first, and deleted when the server refuses *)
(* the number of objects; its communicator stays in the table.             *)
qv_create(p, h) ==
    \/ child_group(p, h, "live") /\ scopes' = scopes \cup Kids(h)
    \/ child_group(p, h, "deleted") /\ UNCHANGED scopes

(* qv_thread_split: all children share one group. *)
qv_thread_split(p, g) ==
    /\ Kids(p) \subseteq scopes /\ p \in PlainGroups
    /\ IsNext(g, Groups)
    /\ groups' = [groups EXCEPT ![g] = thread_group(g)]
    /\ scopes' = scopes \cup Kids(g)
    /\ Touches(GroupAccess(p))
    /\ UNCHANGED <<contexts, strays, thread_vars>>

(* qv_barrier and qv_mpi_comm_dup use the communicator of the group. *)
collective(g) ==
    /\ Kids(g) \subseteq scopes /\ g \in PlainGroups /\ MayUse(g)
    /\ Touches(GroupAccess(g) \cup ContextAccess(g))
    /\ UNCHANGED <<groups, contexts, scopes, strays, thread_vars>>

-----------------------------------------------------------------------------
(* Every group deletes the context it points to. *)
Faulty_deletes_context(g) == groups[g].ctx # NoContext

(* ~qvi_group_mpi: m_created_mpi_ctx *)
deletes_context(g) == groups[g].ctx = g

(* ~qvi_mpi frees all communicators in the table. *)
DeletedContext == [state |-> "deleted", tab |-> {}]

(* The scopes of g go, each with a reference: the last one deletes the     *)
(* group, and that its context with all communicators in the table.        *)
release(g) ==
    LET left == groups[g].refc - Cardinality(Kids(g))
        ctx == groups[g].ctx
        last == left = 0
    IN  /\ scopes' = scopes \ Kids(g)
        /\ groups' = [groups EXCEPT ![g].refc = left, ![g].state = IF last THEN "deleted" ELSE @]
        /\ contexts' = [c \in PlainGroups |->
                          IF last /\ deletes_context(g) /\ c = ctx
                          THEN DeletedContext ELSE contexts[c]]
        /\ Touches(GroupAccess(g)
                   \cup IF last /\ deletes_context(g) THEN ContextAccess(g) ELSE {})
        /\ UNCHANGED <<strays, thread_vars>>

qv_free(g) == g \in PlainGroups /\ Kids(g) \subseteq scopes /\ release(g)

(* After the group's threads have been joined. *)
qv_thread_free(g) == g \in Groups /\ Kids(g) \subseteq scopes /\ team[g] = <<>> /\ release(g)

-----------------------------------------------------------------------------
(* A region on the child scopes of a thread group, while the main thread   *)
(* does other things.                                                      *)
RunThreads ==
    \/ /\ \E g \in Groups : Kids(g) \subseteq scopes /\ ((MoreWork /\ Fork(g)) \/ Join(g))
       /\ UNCHANGED life_vars
    \/ /\ \E t \in Tids : ThreadStep(t) /\ Touches(GroupAccess(GroupOf(t)))
       /\ UNCHANGED <<groups, contexts, scopes, strays>>

Next ==
    \/ \E g \in PlainGroups : qv_mpi_scope(g) \/ qv_process_scope(g) \/ collective(g) \/ qv_free(g)
    \/ \E p, h \in PlainGroups : qv_split(p, h) \/ qv_create(p, h)
    \/ \E p \in PlainGroups, g \in Groups : qv_thread_split(p, g)
    \/ \E g \in Groups : qv_thread_free(g)
    \/ RunThreads

Spec == Init /\ [][Next]_vars

-----------------------------------------------------------------------------
(* Properties. *)

TypeOK ==
    /\ ThreadTypeOK
    /\ groups \in [Gids -> [state : {"none", "live", "deleted"},
                            kind : {"none", "mpi", "process", "thread"},
                            refc : Nat, ctx : PlainGroups \cup {NoContext}]]
    /\ contexts \in [PlainGroups -> [state : {"none", "live", "deleted"},
                                     tab : SUBSET PlainGroups]]
    /\ scopes \subseteq UNION {Kids(g) : g \in Gids}

(* No call uses a deleted group, context or communicator, in whatever      *)
(* order scopes are freed (the base before its children, the process's     *)
(* scope while its threads run), as long as a process does nothing         *)
(* collective with a child after it has freed the base.                    *)
NoFreedAccess == touched = {}

(* Whatever exists is owned: a group has one reference for each of its     *)
(* scopes, a context has its base scope, and the communicator of an MPI    *)
(* group is in the table of its context, from which it will be freed.      *)
(* Except for what the failed making of an intrinsic scope leaves.         *)
NothingLeaks ==
    /\ \A g \in Gids \ strays :
          LET own == Kids(g) \cap scopes
          IN  /\ groups[g].state = "live" => own # {} /\ groups[g].refc = Cardinality(own)
              /\ own # {} => groups[g].state = "live"
    /\ \A c \in PlainGroups \ strays :
          contexts[c].state = "live" <=> groups[c].ctx = c /\ Kids(c) \subseteq scopes
    /\ \A g \in PlainGroups : groups[g].ctx # NoContext /\ BaseIsThere(g) =>
          g \in contexts[groups[g].ctx].tab
=============================================================================
