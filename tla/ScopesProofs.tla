---------------------------- MODULE ScopesProofs ------------------------------
(***************************************************************************)
(* Nothing leaks and nothing is used after it was deleted, for every       *)
(* number of groups, scopes and threads, in whatever order scopes are made *)
(* and freed.  The argument: the scopes of a group come and go together,   *)
(* the group's count is their number, and a context lives exactly as long  *)
(* as its base scope.                                                      *)
(*                                                                         *)
(* The second half is about thread groups: the threads of a region have    *)
(* tasks of their own and pushes and pops nest.  The argument: a region's  *)
(* threads have drawn consecutive values of the counter, fewer than there  *)
(* are tasks, or are all still in the cache.                               *)
(***************************************************************************)
EXTENDS Scopes, FiniteSetTheorems, SequenceTheorems, TLAPS

GroupRecord == [state : {"none", "live", "deleted"},
                kind : {"none", "mpi", "process", "thread"},
                refc : Nat, ctx : PlainGroups \cup {NoContext}]
ContextRecord == [state : {"none", "live", "deleted"}, tab : SUBSET PlainGroups]

(* The part of TypeOK that is about lifetimes. *)
LifeTypeOK ==
    /\ groups \in [Gids -> GroupRecord]
    /\ contexts \in [PlainGroups -> ContextRecord]
    /\ scopes \subseteq UNION {Kids(g) : g \in Gids}
    /\ strays \subseteq PlainGroups

Open(g) == Kids(g) \subseteq scopes

(* The scopes of a group are made and freed together; a group has them     *)
(* exactly while it is live, and one reference for each.                   *)
GroupFits(g) ==
    /\ Open(g) \/ Kids(g) \cap scopes = {}
    /\ g \in strays => ~Open(g) /\ groups[g].state # "none"
    /\ g \notin strays => (groups[g].state = "live" <=> Open(g))
    /\ groups[g].state = "live" /\ g \notin strays => groups[g].refc = Cardinality(Kids(g))
    /\ groups[g].state = "none" => groups[g].ctx = NoContext

(* A context belongs to the group with its number, and lives as long as    *)
(* the group's scope.                                                      *)
ContextFits(c) ==
    c \notin strays => (contexts[c].state = "live" <=> groups[c].ctx = c /\ Open(c))

(* The context of a group was made by a group that is, or was, there; its  *)
(* table has the group's communicator as long as it lives.                 *)
SharingFits(g) ==
    groups[g].ctx # NoContext =>
        /\ groups[groups[g].ctx].ctx = groups[g].ctx
        /\ groups[groups[g].ctx].state # "none"
        /\ Open(groups[g].ctx) => g \in contexts[groups[g].ctx].tab

(* Threads run only on the scopes of a group that are there. *)
Labels == {"out", "start", "push", "run", "pop", "done"}
TeamsFit ==
    /\ pc \in [Tids -> Labels] /\ DOMAIN team = Groups
    /\ \A g \in Groups : team[g] # <<>> => Open(g)
    /\ \A t \in Tids : pc[t] # "out" => \E g \in Groups : Contains(team[g], t)

LifeInv ==
    /\ LifeTypeOK
    /\ \A g \in Gids : GroupFits(g)
    /\ \A c \in PlainGroups : ContextFits(c)
    /\ \A g \in PlainGroups : SharingFits(g)

IInv == LifeInv /\ TeamsFit

-----------------------------------------------------------------------------
(* The scopes of a group: as many as it has tasks, and no other group's. *)
LEMMA KidsFacts ==
    /\ \A g \in Gids : <<g, 0>> \in Kids(g) /\ Cardinality(Kids(g)) \in Nat
    /\ \A g \in Groups : Cardinality(Kids(g)) = NTasks[g]
    /\ \A g \in PlainGroups : Cardinality(Kids(g)) = 1
    /\ \A g, h \in Gids : g # h => Kids(g) \cap Kids(h) = {}
<1>1. ASSUME NEW g \in Groups
      PROVE  <<g, 0>> \in Kids(g) /\ Cardinality(Kids(g)) = NTasks[g] /\ NTasks[g] \in Nat
  <2>. DEFINE n == NTasks[g]
              f == [i \in 0..(n - 1) |-> <<g, i>>]
  <2>1. n \in Nat \ {0}
    BY <1>1, ThreadAssumption
  <2>2. Kids(g) = {<<g, i>> : i \in 0..(n - 1)}
    BY <1>1 DEF Kids, Indices
  <2>. HIDE DEF n
  <2>3. ExistsBijection(0..(n - 1), Kids(g))
    <3>1. f \in [0..(n - 1) -> Kids(g)]
      BY <2>2
    <3>2. \A a, b \in 0..(n - 1) : f[a] = f[b] => a = b
      OBVIOUS
    <3>3. \A k \in Kids(g) : \E a \in 0..(n - 1) : f[a] = k
      BY <2>2
    <3>. HIDE DEF f
    <3>. QED
      BY <3>1, <3>2, <3>3 DEF ExistsBijection, Bijection, Injection, Surjection, IsInjective
  <2>4. IsFiniteSet(0..(n - 1)) /\ Cardinality(0..(n - 1)) = n
    <3>1. 0 \in Int /\ n - 1 \in Int
      BY <2>1
    <3>2. Cardinality(0..(n - 1)) = (IF 0 > n - 1 THEN 0 ELSE n - 1 - 0 + 1)
          /\ IsFiniteSet(0..(n - 1))
      BY <3>1, FS_Interval
    <3>. QED
      BY <2>1, <3>2
  <2>5. Cardinality(Kids(g)) = n
    BY <2>3, <2>4, FS_Bijection
  <2>. QED
    BY <2>1, <2>2, <2>5 DEF n
<1>2. ASSUME NEW g \in PlainGroups
      PROVE  <<g, 0>> \in Kids(g) /\ Cardinality(Kids(g)) = 1
  <2>1. Kids(g) = {<<g, 0>>}
    BY <1>2, ScopesAssumption DEF Kids
  <2>. QED
    BY <2>1, FS_Singleton
<1>3. ASSUME NEW g \in Gids, NEW h \in Gids, g # h PROVE Kids(g) \cap Kids(h) = {}
  BY <1>3 DEF Kids
<1>4. \A g \in Gids : <<g, 0>> \in Kids(g) /\ Cardinality(Kids(g)) \in Nat
  <2>. TAKE g \in Gids
  <2>1. CASE g \in Groups
    BY <1>1, <2>1
  <2>2. CASE g \in PlainGroups
    BY <1>2, <2>2
  <2>. QED
    BY <2>1, <2>2 DEF Gids
<1>. QED
  BY <1>1, <1>2, <1>3, <1>4

(* The scopes of one group are all that a call makes or frees. *)
LEMMA OthersStay ==
    ASSUME NEW g \in Gids, scopes' \in {scopes, scopes \cup Kids(g), scopes \ Kids(g)}
    PROVE  \A x \in Gids \ {g} :
               /\ Open(x)' <=> Open(x)
               /\ Kids(x) \cap scopes' = Kids(x) \cap scopes
<1>. TAKE x \in Gids \ {g}
<1>1. Kids(x) \cap Kids(g) = {}
  BY KidsFacts
<1>. QED
  BY <1>1 DEF Open

LEMMA GidsFacts ==
    /\ PlainGroups \subseteq Gids /\ Groups \subseteq Gids
    /\ NoContext \notin PlainGroups /\ NoContext \notin Gids
    /\ \A g \in Gids : g \in PlainGroups <=> g \notin Groups
BY ScopesAssumption, ThreadAssumption DEF Gids, PlainGroups, NoContext

(* Every group with scopes is live and no stray. *)
LEMMA OpenIsLive ==
    ASSUME LifeInv, NEW g \in Gids, Open(g)
    PROVE  g \notin strays /\ groups[g].state = "live" /\ GroupAccess(g) = {}
BY DEF LifeInv, GroupFits, GroupAccess

(* While its base scope is there, so is the context of a group. *)
LEMMA ContextIsLive ==
    ASSUME LifeInv, NEW g \in PlainGroups, BaseIsThere(g)
    PROVE  ContextAccess(g) = {}
<1>. SUFFICES ASSUME groups[g].ctx # NoContext PROVE contexts[groups[g].ctx].state = "live"
  BY DEF ContextAccess
<1>. DEFINE c == groups[g].ctx
<1>1. c \in PlainGroups /\ c \in Gids
  BY GidsFacts DEF LifeInv, LifeTypeOK, GroupRecord
<1>2. groups[c].ctx = c /\ Open(c)
  BY DEF LifeInv, SharingFits, BaseIsThere, Open
<1>3. c \notin strays
  BY <1>1, <1>2, OpenIsLive
<1>. QED
  BY <1>1, <1>2, <1>3 DEF LifeInv, ContextFits

LEMMA InitOK == Init => IInv
<1>. SUFFICES ASSUME Init PROVE IInv
  OBVIOUS
<1>1. LifeTypeOK
  BY DEF Init, LifeTypeOK, GroupRecord, ContextRecord
<1>2. ASSUME NEW g \in Gids PROVE GroupFits(g)
  BY <1>2, KidsFacts DEF Init, GroupFits, Open
<1>3. ASSUME NEW c \in PlainGroups PROVE ContextFits(c) /\ SharingFits(c)
  BY <1>3, GidsFacts DEF Init, ContextFits, SharingFits
<1>4. TeamsFit
  BY DEF Init, ThreadInit, TeamsFit, Labels
<1>. QED
  BY <1>1, <1>2, <1>3, <1>4 DEF IInv, LifeInv

-----------------------------------------------------------------------------
(* A call that makes group g, or frees its scopes, disturbs no other       *)
(* group: it is a new group, which nobody refers to yet, or its scopes are *)
(* gone.                                                                   *)
LEMMA LifeFrame ==
    ASSUME LifeInv, LifeTypeOK', NEW g \in Gids,
           scopes' \in {scopes, scopes \cup Kids(g), scopes \ Kids(g)},
           \A x \in Gids \ {g} : groups'[x] = groups[x] /\ (x \in strays' <=> x \in strays),
           \A c \in PlainGroups \ {g} : /\ contexts'[c].state = contexts[c].state
                                        /\ contexts[c].tab \subseteq contexts'[c].tab,
           groups[g].state # "none" =>
               groups'[g].ctx = groups[g].ctx /\ groups'[g].state # "none" /\ ~Open(g)',
           GroupFits(g)',
           g \in PlainGroups => ContextFits(g)' /\ SharingFits(g)'
    PROVE  LifeInv'
<1>1. \A x \in Gids \ {g} : /\ Open(x)' <=> Open(x)
                            /\ Kids(x) \cap scopes' = Kids(x) \cap scopes
  BY OthersStay
<1>2. ASSUME NEW x \in Gids \ {g} PROVE GroupFits(x)'
  <2>1. GroupFits(x)
    BY DEF LifeInv
  <2>. QED
    BY <1>1, <2>1 DEF GroupFits
<1>3. ASSUME NEW c \in PlainGroups \ {g} PROVE ContextFits(c)'
  <2>1. ContextFits(c) /\ c \in Gids
    BY GidsFacts DEF LifeInv
  <2>. QED
    BY <1>1, <2>1 DEF ContextFits
<1>4. ASSUME NEW x \in PlainGroups \ {g} PROVE SharingFits(x)'
  <2>. DEFINE c == groups[x].ctx
  <2>1. SharingFits(x) /\ x \in Gids /\ groups'[x] = groups[x]
    BY GidsFacts DEF LifeInv
  <2>2. c # NoContext => c \in PlainGroups /\ c \in Gids
    BY <2>1, GidsFacts DEF LifeInv, LifeTypeOK, GroupRecord
  <2>3. CASE c = g
    BY <2>1, <2>2, <2>3 DEF SharingFits
  <2>4. CASE c # g
    BY <1>1, <2>1, <2>2, <2>4 DEF SharingFits
  <2>. QED
    BY <2>3, <2>4
<1>. QED
  BY <1>2, <1>3, <1>4 DEF LifeInv

(* Groups that have not been made have no scopes, and nothing refers to    *)
(* them.                                                                   *)
LEMMA UnmadeFacts ==
    ASSUME LifeInv, NEW g \in Gids, groups[g].state = "none"
    PROVE  /\ g \notin strays /\ ~Open(g) /\ Kids(g) \cap scopes = {}
           /\ groups[g].ctx = NoContext
           /\ \A x \in PlainGroups : groups[x].ctx # g
           /\ g \in PlainGroups => contexts[g].state # "live"
<1>1. g \notin strays /\ ~Open(g) /\ Kids(g) \cap scopes = {} /\ groups[g].ctx = NoContext
  BY DEF LifeInv, GroupFits
<1>2. ASSUME NEW x \in PlainGroups PROVE groups[x].ctx # g
  BY <1>2, GidsFacts DEF LifeInv, SharingFits
<1>3. ASSUME g \in PlainGroups PROVE contexts[g].state # "live"
  BY <1>1, <1>3 DEF LifeInv, ContextFits
<1>. QED
  BY <1>1, <1>2, <1>3

LEMMA MpiScopeOK == ASSUME LifeInv, NEW g \in PlainGroups, qv_mpi_scope(g) PROVE LifeInv'
<1>1. g \in Gids /\ groups[g].state = "none" /\ g # NoContext
  BY GidsFacts DEF qv_mpi_scope, IsNext
<1>2. /\ g \notin strays /\ ~Open(g) /\ Kids(g) \cap scopes = {}
      /\ \A x \in PlainGroups : groups[x].ctx # g
  BY <1>1, UnmadeFacts
<1>3. contexts' = [contexts EXCEPT ![g] = [state |-> "live", tab |-> {g}]]
  BY DEF qv_mpi_scope
<1>4. LifeTypeOK
  BY DEF LifeInv
<1>5. contexts' \in [PlainGroups -> ContextRecord] /\ contexts'[g] = [state |-> "live", tab |-> {g}]
      /\ \A c \in PlainGroups \ {g} : contexts'[c] = contexts[c]
  BY <1>3, <1>4 DEF LifeTypeOK, ContextRecord
<1>6. PICK state \in {"live", "deleted"} :
         /\ groups' = [groups EXCEPT ![g] = [New("mpi", 1, g) EXCEPT !.state = state]]
         /\ \/ state = "live" /\ scopes' = scopes \cup Kids(g) /\ UNCHANGED strays
            \/ strays' = strays \cup {g} /\ UNCHANGED scopes
  <2>1. New("mpi", 1, g) = [New("mpi", 1, g) EXCEPT !.state = "live"]
    BY DEF New
  <2>2. CASE /\ groups' = [groups EXCEPT ![g] = New("mpi", 1, g)]
             /\ scopes' = scopes \cup Kids(g) /\ UNCHANGED strays
    BY <2>1, <2>2
  <2>3. CASE ~(/\ groups' = [groups EXCEPT ![g] = New("mpi", 1, g)]
               /\ scopes' = scopes \cup Kids(g) /\ UNCHANGED strays)
    BY <2>3 DEF qv_mpi_scope
  <2>. QED
    BY <2>2, <2>3
<1>7. /\ groups' \in [Gids -> GroupRecord] /\ groups'[g].state = state
      /\ groups'[g].refc = 1 /\ groups'[g].ctx = g
      /\ \A x \in Gids \ {g} : groups'[x] = groups[x]
  <2>. DEFINE r == [New("mpi", 1, g) EXCEPT !.state = state]
  <2>1. r \in GroupRecord /\ r.state = state /\ r.refc = 1 /\ r.ctx = g
    BY DEF New, GroupRecord
  <2>. HIDE DEF r
  <2>2. groups' = [groups EXCEPT ![g] = r]
    BY <1>6 DEF r
  <2>. QED
    BY <1>1, <1>4, <2>1, <2>2 DEF LifeTypeOK
<1>8. LifeTypeOK'
  BY <1>1, <1>4, <1>5, <1>6, <1>7 DEF LifeTypeOK
<1>9. GroupFits(g)'
  BY <1>1, <1>2, <1>6, <1>7, KidsFacts DEF GroupFits, Open
<1>10. ContextFits(g)' /\ SharingFits(g)'
  BY <1>1, <1>5, <1>6, <1>7 DEF ContextFits, SharingFits, Open
<1>11. \A x \in Gids \ {g} : x \in strays' <=> x \in strays
  BY <1>6
<1>. QED
  BY <1>1, <1>5, <1>6, <1>7, <1>8, <1>9, <1>10, <1>11, LifeFrame

LEMMA ProcessScopeOK == ASSUME LifeInv, NEW g \in PlainGroups, qv_process_scope(g) PROVE LifeInv'
<1>1. g \in Gids /\ groups[g].state = "none" /\ UNCHANGED contexts
  BY GidsFacts DEF qv_process_scope, IsNext
<1>2. /\ g \notin strays /\ ~Open(g) /\ Kids(g) \cap scopes = {}
      /\ contexts[g].state # "live"
  BY <1>1, UnmadeFacts
<1>3. LifeTypeOK
  BY DEF LifeInv
<1>4. \/ scopes' = scopes \cup Kids(g) /\ UNCHANGED strays
      \/ strays' = strays \cup {g} /\ UNCHANGED scopes
  BY DEF qv_process_scope
<1>5. /\ groups' \in [Gids -> GroupRecord] /\ groups'[g].state = "live"
      /\ groups'[g].refc = 1 /\ groups'[g].ctx = NoContext
      /\ \A x \in Gids \ {g} : groups'[x] = groups[x]
  <2>. DEFINE r == New("process", 1, NoContext)
  <2>1. r \in GroupRecord /\ r.state = "live" /\ r.refc = 1 /\ r.ctx = NoContext
    BY DEF New, GroupRecord
  <2>. HIDE DEF r
  <2>2. groups' = [groups EXCEPT ![g] = r]
    BY DEF qv_process_scope, r
  <2>. QED
    BY <1>1, <1>3, <2>1, <2>2 DEF LifeTypeOK
<1>6. LifeTypeOK'
  BY <1>1, <1>3, <1>4, <1>5 DEF LifeTypeOK
<1>7. GroupFits(g)'
  BY <1>1, <1>2, <1>4, <1>5, KidsFacts DEF GroupFits, Open
<1>8. ContextFits(g)' /\ SharingFits(g)'
  BY <1>1, <1>2, <1>5, GidsFacts DEF ContextFits, SharingFits
<1>9. \A x \in Gids \ {g} : x \in strays' <=> x \in strays
  BY <1>4
<1>. QED
  BY <1>1, <1>4, <1>5, <1>6, <1>7, <1>8, <1>9, LifeFrame

(* A child refers to its parent's context, whose table gets its            *)
(* communicator, even if the child group is deleted at once.               *)
LEMMA ChildOK ==
    ASSUME LifeInv, NEW p \in PlainGroups, NEW h \in PlainGroups,
           NEW state \in {"live", "deleted"}, child_group(p, h, state),
           scopes' = IF state = "live" THEN scopes \cup Kids(h) ELSE scopes
    PROVE  LifeInv'
<1>. DEFINE c == groups[p].ctx
<1>1. /\ h \in Gids /\ p \in Gids /\ groups[h].state = "none" /\ UNCHANGED strays
      /\ Open(p) /\ h # NoContext /\ NoContext \notin PlainGroups
  BY GidsFacts DEF child_group, IsNext, Open
<1>2. /\ h \notin strays /\ ~Open(h) /\ Kids(h) \cap scopes = {} /\ c # h
      /\ contexts[h].state # "live"
  BY <1>1, UnmadeFacts
<1>3. LifeTypeOK /\ SharingFits(p) /\ groups[p].state = "live"
  BY <1>1, OpenIsLive DEF LifeInv
<1>4. /\ c \in PlainGroups \cup {NoContext}
      /\ groups[p].kind \in {"none", "mpi", "process", "thread"}
  BY <1>1, <1>3 DEF LifeTypeOK, GroupRecord
<1>5. /\ groups' \in [Gids -> GroupRecord] /\ groups'[h].state = state
      /\ groups'[h].refc = 1 /\ groups'[h].ctx = c
      /\ \A x \in Gids \ {h} : groups'[x] = groups[x]
  <2>. DEFINE r == [New(groups[p].kind, 1, groups[p].ctx) EXCEPT !.state = state]
  <2>1. r \in GroupRecord /\ r.state = state /\ r.refc = 1 /\ r.ctx = c
    BY <1>4 DEF New, GroupRecord
  <2>2. groups' = [groups EXCEPT ![h] = r]
    BY DEF child_group
  <2>. HIDE DEF r
  <2>. QED
    BY <1>1, <1>3, <2>1, <2>2 DEF LifeTypeOK
<1>6. /\ contexts' \in [PlainGroups -> ContextRecord]
      /\ contexts'[h] = contexts[h]
      /\ \A d \in PlainGroups : /\ contexts'[d].state = contexts[d].state
                                /\ contexts[d].tab \subseteq contexts'[d].tab
                                /\ d = c => h \in contexts'[d].tab
  <2>1. contexts' = [d \in PlainGroups |->
                       IF d = c THEN [contexts[d] EXCEPT !.tab = @ \cup {h}] ELSE contexts[d]]
    BY DEF child_group, add_group
  <2>2. contexts \in [PlainGroups -> ContextRecord]
    BY <1>3 DEF LifeTypeOK
  <2>. HIDE DEF c
  <2>. QED
    BY <1>2, <2>1, <2>2 DEF ContextRecord
<1>7. LifeTypeOK'
  BY <1>1, <1>3, <1>5, <1>6 DEF LifeTypeOK
<1>8. GroupFits(h)'
  BY <1>1, <1>2, <1>5, KidsFacts DEF GroupFits, Open
<1>9. ContextFits(h)'
  BY <1>2, <1>5, <1>6 DEF ContextFits
<1>10. SharingFits(h)'
  <2>. SUFFICES ASSUME c # NoContext
                PROVE  groups'[c].ctx = c /\ groups'[c].state # "none" /\ h \in contexts'[c].tab
    BY <1>5 DEF SharingFits
  <2>1. c \in PlainGroups /\ c \in Gids \ {h}
    BY <1>2, <1>4, GidsFacts
  <2>. QED
    BY <1>3, <1>5, <1>6, <2>1 DEF SharingFits
<1>. QED
  BY <1>1, <1>5, <1>6, <1>7, <1>8, <1>9, <1>10, LifeFrame

LEMMA ThreadSplitOK ==
    ASSUME LifeInv, NEW p \in PlainGroups, NEW g \in Groups, qv_thread_split(p, g) PROVE LifeInv'
<1>1. /\ g \in Gids /\ g \notin PlainGroups /\ groups[g].state = "none"
      /\ scopes' = scopes \cup Kids(g) /\ UNCHANGED <<contexts, strays>>
  BY GidsFacts DEF qv_thread_split, IsNext
<1>2. g \notin strays /\ ~Open(g) /\ Kids(g) \cap scopes = {}
  BY <1>1, UnmadeFacts
<1>3. LifeTypeOK /\ NTasks[g] \in Nat /\ thread_refs(g) = NTasks[g]
  BY ThreadAssumption DEF LifeInv, thread_refs
<1>4. /\ groups' \in [Gids -> GroupRecord] /\ groups'[g].state = "live"
      /\ groups'[g].refc = NTasks[g] /\ groups'[g].ctx = NoContext
      /\ \A x \in Gids \ {g} : groups'[x] = groups[x]
  <2>. DEFINE r == New("thread", thread_refs(g), NoContext)
  <2>1. r \in GroupRecord /\ r.state = "live" /\ r.refc = NTasks[g] /\ r.ctx = NoContext
    BY <1>3 DEF New, GroupRecord
  <2>2. groups' = [groups EXCEPT ![g] = r]
    BY DEF qv_thread_split, thread_group
  <2>. HIDE DEF r
  <2>. QED
    BY <1>1, <1>3, <2>1, <2>2 DEF LifeTypeOK
<1>5. LifeTypeOK'
  BY <1>1, <1>3, <1>4 DEF LifeTypeOK
<1>6. GroupFits(g)'
  BY <1>1, <1>2, <1>4, KidsFacts DEF GroupFits, Open
<1>. QED
  BY <1>1, <1>4, <1>5, <1>6, LifeFrame

(* All references of a group go with its scopes: the group is deleted, and *)
(* the context with it that it has created.                                *)
LEMMA ReleaseFacts ==
    ASSUME LifeInv, NEW g \in Gids, Open(g), release(g)
    PROVE  /\ scopes' = scopes \ Kids(g) /\ UNCHANGED strays
           /\ groups' = [groups EXCEPT ![g] = [@ EXCEPT !.refc = 0, !.state = "deleted"]]
           /\ contexts' = [c \in PlainGroups |->
                              IF groups[g].ctx = g /\ c = g THEN DeletedContext ELSE contexts[c]]
           /\ touched' = touched
<1>1. g \notin strays /\ groups[g].state = "live" /\ GroupAccess(g) = {}
  BY OpenIsLive
<1>2. groups[g].refc = Cardinality(Kids(g)) /\ Cardinality(Kids(g)) \in Nat
  BY <1>1, KidsFacts DEF LifeInv, GroupFits
<1>3. groups[g].refc - Cardinality(Kids(g)) = 0
  BY <1>2
<1>4. groups[g].ctx = g => g \in PlainGroups /\ ContextAccess(g) = {}
  <2>. SUFFICES ASSUME groups[g].ctx = g PROVE g \in PlainGroups /\ ContextAccess(g) = {}
    OBVIOUS
  <2>1. g \in PlainGroups
    BY GidsFacts DEF LifeInv, LifeTypeOK, GroupRecord
  <2>2. contexts[g].state = "live"
    BY <1>1, <2>1 DEF LifeInv, ContextFits
  <2>. QED
    BY <2>1, <2>2 DEF ContextAccess
<1>5. groups \in [Gids -> GroupRecord]
  BY DEF LifeInv, LifeTypeOK
<1>6. groups' = [groups EXCEPT ![g] = [@ EXCEPT !.refc = 0, !.state = "deleted"]]
  BY <1>3, <1>5 DEF release
<1>7. touched' = touched
  BY <1>1, <1>3, <1>4 DEF release, Touches, deletes_context
<1>8. contexts' = [c \in PlainGroups |->
                     IF groups[g].ctx = g /\ c = g THEN DeletedContext ELSE contexts[c]]
  BY <1>3 DEF release, deletes_context
<1>. QED
  BY <1>6, <1>7, <1>8 DEF release

LEMMA ReleaseOK == ASSUME LifeInv, NEW g \in Gids, Open(g), release(g) PROVE LifeInv'
<1>1. /\ scopes' = scopes \ Kids(g) /\ UNCHANGED strays
      /\ groups' = [groups EXCEPT ![g] = [@ EXCEPT !.refc = 0, !.state = "deleted"]]
      /\ contexts' = [c \in PlainGroups |->
                         IF groups[g].ctx = g /\ c = g THEN DeletedContext ELSE contexts[c]]
  BY ReleaseFacts
<1>2. LifeTypeOK /\ g \notin strays /\ groups[g].state = "live"
  BY OpenIsLive DEF LifeInv
<1>3. /\ groups' \in [Gids -> GroupRecord] /\ groups'[g].state = "deleted"
      /\ groups'[g].ctx = groups[g].ctx
      /\ \A x \in Gids \ {g} : groups'[x] = groups[x]
  BY <1>1, <1>2 DEF LifeTypeOK, GroupRecord
<1>4. /\ contexts' \in [PlainGroups -> ContextRecord]
      /\ \A c \in PlainGroups \ {g} : contexts'[c] = contexts[c]
      /\ g \in PlainGroups =>
            IF groups[g].ctx = g THEN contexts'[g].state = "deleted" ELSE contexts'[g] = contexts[g]
  BY <1>1, <1>2 DEF LifeTypeOK, ContextRecord, DeletedContext
<1>5. LifeTypeOK' /\ ~Open(g)' /\ Kids(g) \cap scopes' = {}
  BY <1>1, <1>2, <1>3, <1>4, KidsFacts DEF LifeTypeOK, Open
<1>6. GroupFits(g)'
  BY <1>1, <1>2, <1>3, <1>5 DEF GroupFits
<1>7. ASSUME g \in PlainGroups PROVE ContextFits(g)' /\ SharingFits(g)'
  <2>1. ContextFits(g) /\ SharingFits(g)
    BY <1>7 DEF LifeInv
  <2>2. ContextFits(g)'
    BY <1>1, <1>2, <1>3, <1>4, <1>5, <1>7, <2>1 DEF ContextFits
  <2>3. SharingFits(g)'
    <3>. SUFFICES ASSUME groups[g].ctx # NoContext, NEW c, c = groups[g].ctx
                  PROVE  /\ groups'[c].ctx = c /\ groups'[c].state # "none"
                         /\ Open(c)' => g \in contexts'[c].tab
      BY <1>3 DEF SharingFits
    <3>1. c \in PlainGroups /\ c \in Gids
      BY <1>2, GidsFacts DEF LifeTypeOK, GroupRecord
    <3>2. groups[c].ctx = c /\ groups[c].state # "none" /\ (Open(c) => g \in contexts[c].tab)
      BY <2>1 DEF SharingFits
    <3>3. CASE c = g
      BY <1>3, <1>5, <3>2, <3>3
    <3>4. CASE c # g
      BY <1>1, <1>3, <1>4, <3>1, <3>2, <3>4, OthersStay
    <3>. QED
      BY <3>3, <3>4
  <2>. QED
    BY <2>2, <2>3
<1>. QED
  BY <1>1, <1>3, <1>4, <1>5, <1>6, <1>7, LifeFrame

-----------------------------------------------------------------------------
(* Threads and the scopes they run on. *)

(* A call that does not free the scopes of a running group leaves its      *)
(* threads on them.                                                        *)
LEMMA TeamsStay ==
    ASSUME TeamsFit, NEW g \in Gids, UNCHANGED <<team, pc>>,
           \/ scopes' \in {scopes, scopes \cup Kids(g)}
           \/ scopes' = scopes \ Kids(g) /\ (g \in Groups => team[g] = <<>>)
    PROVE  TeamsFit'
<1>1. ASSUME NEW x \in Groups, team[x] # <<>> PROVE Open(x)'
  <2>1. Open(x) /\ x \in Gids
    BY <1>1, GidsFacts DEF TeamsFit
  <2>2. CASE x = g
    BY <1>1, <2>1, <2>2 DEF Open
  <2>3. CASE x # g
    BY <2>1, <2>3, OthersStay
  <2>. QED
    BY <2>2, <2>3
<1>. QED
  BY <1>1 DEF TeamsFit

(* A running thread is in the team of the group it runs for. *)
LEMMA RunningGroup ==
    ASSUME TeamsFit, NEW t \in Tids, pc[t] # "out"
    PROVE  GroupOf(t) \in Groups /\ Open(GroupOf(t))
<1>1. \E g \in Groups : Contains(team[g], t)
  BY DEF TeamsFit
<1>2. GroupOf(t) \in Groups /\ Contains(team[GroupOf(t)], t)
  BY <1>1 DEF GroupOf
<1>3. team[GroupOf(t)] # <<>>
  BY <1>2 DEF Contains
<1>. QED
  BY <1>2, <1>3 DEF TeamsFit

LEMMA ForkFits ==
    ASSUME TeamsFit, NEW g \in Groups, Open(g), Fork(g), UNCHANGED scopes PROVE TeamsFit'
<1>0. PICK n \in 1..NTasks[g] : \E w \in Workforces(g, n) :
         /\ team' = [team EXCEPT ![g] = w]
         /\ pc' = [t \in Tids |-> IF Contains(w, t) THEN "start" ELSE pc[t]]
  BY DEF Fork
<1>1. PICK w \in Workforces(g, n) :
         /\ team' = [team EXCEPT ![g] = w]
         /\ pc' = [t \in Tids |-> IF Contains(w, t) THEN "start" ELSE pc[t]]
  BY <1>0
<1>2. pc' \in [Tids -> Labels] /\ DOMAIN team' = Groups
  BY <1>1 DEF TeamsFit, Labels
<1>3. team'[g] = w /\ \A h \in Groups \ {g} : team'[h] = team[h]
  BY <1>1 DEF TeamsFit
<1>4. \A h \in Groups : team'[h] # <<>> => Open(h)'
  BY <1>3 DEF TeamsFit, Open
<1>5. ASSUME NEW t \in Tids, pc'[t] # "out"
      PROVE  \E h \in Groups : Contains(team'[h], t)
  <2>1. CASE Contains(w, t)
    BY <1>3, <2>1
  <2>2. CASE ~Contains(w, t)
    <3>1. pc[t] # "out"
      BY <1>1, <1>5, <2>2
    <3>2. PICK h \in Groups : Contains(team[h], t)
      BY <3>1 DEF TeamsFit
    <3>3. h # g
      BY <3>2 DEF Fork, Contains
    <3>. QED
      BY <1>3, <3>2, <3>3
  <2>. QED
    BY <2>1, <2>2
<1>. QED
  BY <1>2, <1>4, <1>5 DEF TeamsFit

LEMMA JoinFits ==
    ASSUME TeamsFit, NEW g \in Groups, Join(g), UNCHANGED scopes PROVE TeamsFit'
<1>1. /\ team' = [team EXCEPT ![g] = <<>>]
      /\ pc' = [t \in Tids |-> IF Contains(team[g], t) THEN "out" ELSE pc[t]]
  BY DEF Join
<1>2. pc' \in [Tids -> Labels] /\ DOMAIN team' = Groups
  BY <1>1 DEF TeamsFit, Labels
<1>3. team'[g] = <<>> /\ \A h \in Groups \ {g} : team'[h] = team[h]
  BY <1>1 DEF TeamsFit
<1>4. \A h \in Groups : team'[h] # <<>> => Open(h)'
  BY <1>3 DEF TeamsFit, Open
<1>5. ASSUME NEW t \in Tids, pc'[t] # "out"
      PROVE  \E h \in Groups : Contains(team'[h], t)
  <2>1. pc[t] # "out" /\ ~Contains(team[g], t)
    BY <1>1, <1>5
  <2>2. PICK h \in Groups : Contains(team[h], t)
    BY <2>1 DEF TeamsFit
  <2>. QED
    BY <1>3, <2>1, <2>2
<1>. QED
  BY <1>2, <1>4, <1>5 DEF TeamsFit

LEMMA StepFits ==
    ASSUME TeamsFit, NEW t \in Tids, ThreadStep(t), UNCHANGED scopes
    PROVE  TeamsFit' /\ pc[t] # "out"
<1>1. /\ pc[t] \in {"start", "push", "run", "pop"} /\ UNCHANGED team
      /\ \E label \in Labels \ {"out"} : pc' = [pc EXCEPT ![t] = label]
  <2>1. CASE bind_push(t) \/ bind_pop(t) \/ Exit(t) \/ PopReturns(t)
    BY <2>1 DEF bind_push, bind_pop, Exit, PopReturns, Goto, Labels
  <2>2. CASE PushReturns(t)
    BY <2>2 DEF PushReturns, Goto, Labels
  <2>3. CASE bind_string(t)
    BY <2>3 DEF bind_string, TeamsFit, Labels
  <2>. QED
    BY <2>1, <2>2, <2>3 DEF ThreadStep
<1>2. pc' \in [Tids -> Labels] /\ \A u \in Tids : pc'[u] # "out" => pc[u] # "out"
  BY <1>1 DEF TeamsFit
<1>. QED
  BY <1>1, <1>2 DEF TeamsFit, Open

-----------------------------------------------------------------------------
(* The invariant is inductive: one case per call. *)
LEMMA NextOK == IInv /\ [Next]_vars => IInv'
<1>. SUFFICES ASSUME IInv, [Next]_vars PROVE IInv'
  OBVIOUS
<1>0. LifeInv /\ TeamsFit /\ PlainGroups \subseteq Gids /\ Groups \subseteq Gids
      /\ \A g \in PlainGroups : g \notin Groups
  BY GidsFacts DEF IInv
<1>. USE DEF thread_vars
<1>1. ASSUME NEW g \in PlainGroups, qv_mpi_scope(g) PROVE IInv'
  <2>1. scopes' \in {scopes, scopes \cup Kids(g)} /\ UNCHANGED <<team, pc>>
    BY <1>1 DEF qv_mpi_scope
  <2>. QED
    BY <1>0, <1>1, <2>1, MpiScopeOK, TeamsStay DEF IInv
<1>2. ASSUME NEW g \in PlainGroups, qv_process_scope(g) PROVE IInv'
  <2>1. scopes' \in {scopes, scopes \cup Kids(g)} /\ UNCHANGED <<team, pc>>
    BY <1>2 DEF qv_process_scope
  <2>. QED
    BY <1>0, <1>2, <2>1, ProcessScopeOK, TeamsStay DEF IInv
<1>3. ASSUME UNCHANGED <<groups, contexts, scopes, strays>> PROVE LifeInv'
  BY <1>0, <1>3
     DEF LifeInv, LifeTypeOK, GroupFits, ContextFits, SharingFits, Open
<1>4. ASSUME NEW g \in PlainGroups, collective(g) PROVE IInv'
  BY <1>0, <1>3, <1>4, TeamsStay DEF collective, IInv
<1>5. ASSUME NEW g \in PlainGroups, qv_free(g) PROVE IInv'
  <2>1. Open(g) /\ release(g) /\ scopes' = scopes \ Kids(g) /\ UNCHANGED <<team, pc>>
    BY <1>5 DEF qv_free, Open, release
  <2>. QED
    BY <1>0, <2>1, ReleaseOK, TeamsStay DEF IInv
<1>6. ASSUME NEW p \in PlainGroups, NEW h \in PlainGroups, qv_split(p, h) \/ qv_create(p, h)
      PROVE  IInv'
  <2>1. PICK state \in {"live", "deleted"} :
           /\ child_group(p, h, state)
           /\ scopes' = IF state = "live" THEN scopes \cup Kids(h) ELSE scopes
    BY <1>6 DEF qv_split, qv_create
  <2>2. scopes' \in {scopes, scopes \cup Kids(h)} /\ UNCHANGED <<team, pc>>
    BY <2>1 DEF child_group
  <2>. QED
    BY <1>0, <2>1, <2>2, ChildOK, TeamsStay DEF IInv
<1>7. ASSUME NEW p \in PlainGroups, NEW g \in Groups, qv_thread_split(p, g) PROVE IInv'
  <2>1. scopes' \in {scopes, scopes \cup Kids(g)} /\ UNCHANGED <<team, pc>>
    BY <1>7 DEF qv_thread_split
  <2>. QED
    BY <1>0, <1>7, <2>1, ThreadSplitOK, TeamsStay DEF IInv
<1>8. ASSUME NEW g \in Groups, qv_thread_free(g) PROVE IInv'
  <2>1. Open(g) /\ release(g) /\ scopes' = scopes \ Kids(g) /\ UNCHANGED <<team, pc>>
        /\ team[g] = <<>>
    BY <1>8 DEF qv_thread_free, Open, release
  <2>. QED
    BY <1>0, <2>1, ReleaseOK, TeamsStay DEF IInv
<1>9. CASE RunThreads
  <2>1. UNCHANGED <<groups, contexts, scopes, strays>>
    BY <1>9 DEF RunThreads, life_vars
  <2>2. TeamsFit'
    <3>1. CASE \E g \in Groups : Open(g) /\ (Fork(g) \/ Join(g))
      BY <1>0, <2>1, <3>1, ForkFits, JoinFits
    <3>2. CASE \E t \in Tids : ThreadStep(t)
      BY <1>0, <2>1, <3>2, StepFits
    <3>. QED
      BY <1>9, <3>1, <3>2 DEF RunThreads, Open
  <2>. QED
    BY <1>3, <2>1, <2>2 DEF IInv
<1>10. CASE UNCHANGED vars
  <2>1. UNCHANGED <<groups, contexts, scopes, strays>> /\ UNCHANGED <<team, pc>>
    BY <1>10 DEF vars, life_vars
  <2>2. TeamsFit'
    BY <1>0, <2>1 DEF TeamsFit, Open
  <2>. QED
    BY <1>3, <2>1, <2>2 DEF IInv
<1>. QED
  BY <1>1, <1>2, <1>4, <1>5, <1>6, <1>7, <1>8, <1>9, <1>10 DEF Next

(* The inductive invariant holds in every state, with any number of groups *)
(* of any kind.                                                            *)
THEOREM Invariance == Spec => []IInv
BY InitOK, NextOK, PTL DEF Spec

(* Whatever exists is owned by a scope, failed calls included: the groups, *)
(* their references, the MPI contexts and the communicators in them.       *)
THEOREM NoLeaks == Spec => []NothingLeaks
<1>1. ASSUME IInv PROVE NothingLeaks
  <2>1. LifeInv
    BY <1>1 DEF IInv
  <2>2. ASSUME NEW g \in Gids \ strays
        PROVE  LET own == Kids(g) \cap scopes
               IN  /\ groups[g].state = "live" => own # {} /\ groups[g].refc = Cardinality(own)
                   /\ own # {} => groups[g].state = "live"
    <3>1. GroupFits(g) /\ <<g, 0>> \in Kids(g)
      BY <2>1, <2>2, KidsFacts DEF LifeInv
    <3>2. Open(g) => Kids(g) \cap scopes = Kids(g)
      BY DEF Open
    <3>. QED
      BY <2>2, <3>1, <3>2 DEF GroupFits
  <2>3. ASSUME NEW c \in PlainGroups \ strays
        PROVE  contexts[c].state = "live" <=> groups[c].ctx = c /\ Kids(c) \subseteq scopes
    BY <2>1, <2>3 DEF LifeInv, ContextFits, Open
  <2>4. ASSUME NEW g \in PlainGroups, groups[g].ctx # NoContext, BaseIsThere(g)
        PROVE  g \in contexts[groups[g].ctx].tab
    BY <2>1, <2>4 DEF LifeInv, SharingFits, BaseIsThere, Open
  <2>. QED
    BY <2>2, <2>3, <2>4 DEF NothingLeaks
<1>. QED
  BY <1>1, Invariance, PTL

(* No call and no thread uses a deleted group, context or communicator, if *)
(* processes do nothing collective with a child of a base they have freed. *)
THEOREM NoUseAfterFree == ASSUME ~UseAfterBase PROVE Spec => []NoFreedAccess
<1>1. Init => NoFreedAccess
  BY DEF Init, NoFreedAccess
<1>2. ASSUME IInv, NoFreedAccess, [Next]_vars PROVE NoFreedAccess'
  <2>. SUFFICES touched' = touched
    BY <1>2 DEF NoFreedAccess
  <2>0. LifeInv /\ TeamsFit /\ PlainGroups \subseteq Gids /\ Groups \subseteq Gids
    BY <1>2, GidsFacts DEF IInv
  <2>1. ASSUME NEW g \in PlainGroups, Open(g), MayUse(g)
        PROVE  GroupAccess(g) = {} /\ ContextAccess(g) = {}
    BY <2>0, <2>1, OpenIsLive, ContextIsLive DEF MayUse
  <2>2. ASSUME NEW g \in PlainGroups,
               qv_mpi_scope(g) \/ qv_process_scope(g) \/ collective(g)
        PROVE  touched' = touched
    BY <2>1, <2>2 DEF qv_mpi_scope, qv_process_scope, collective, Touches, Open
  <2>3. ASSUME NEW g \in Gids, qv_free(g) \/ qv_thread_free(g) PROVE touched' = touched
    BY <2>0, <2>3, ReleaseFacts DEF qv_free, qv_thread_free, Open
  <2>4. ASSUME NEW p \in PlainGroups, NEW h \in PlainGroups, qv_split(p, h) \/ qv_create(p, h)
        PROVE  touched' = touched
    BY <2>1, <2>4 DEF qv_split, qv_create, child_group, Touches, Open
  <2>5. ASSUME NEW p \in PlainGroups, NEW g \in Groups, qv_thread_split(p, g)
        PROVE  touched' = touched
    BY <2>0, <2>5, OpenIsLive DEF qv_thread_split, Touches, Open
  <2>6. CASE RunThreads
    <3>1. CASE UNCHANGED life_vars
      BY <3>1 DEF life_vars
    <3>2. ASSUME NEW t \in Tids, ThreadStep(t), Touches(GroupAccess(GroupOf(t))), UNCHANGED scopes
          PROVE  touched' = touched
      <4>1. GroupOf(t) \in Groups /\ Open(GroupOf(t))
        BY <2>0, <3>2, StepFits, RunningGroup
      <4>2. GroupAccess(GroupOf(t)) = {}
        BY <2>0, <4>1, OpenIsLive
      <4>. QED
        BY <3>2, <4>2 DEF Touches
    <3>. QED
      BY <2>6, <3>1, <3>2 DEF RunThreads
  <2>7. CASE UNCHANGED vars
    BY <2>7 DEF vars, life_vars
  <2>. QED
    BY <1>2, <2>0, <2>2, <2>3, <2>4, <2>5, <2>6, <2>7 DEF Next
<1>. QED
  BY <1>1, <1>2, Invariance, PTL DEF Spec

-----------------------------------------------------------------------------
(* The threads: module ThreadGroup.  What holds wherever teams come from   *)
(* and whether or not regions overlap.                                     *)

Cpusets == (Groups \cup {0}) \X Nat
Entry == [tid : Tids, index : Nat]
Members(s) == {s[i] : i \in DOMAIN s}

ThreadTypes ==
    /\ next_index \in Nat /\ nthreads \in Tids /\ nregions \in 0..MaxRegions
    /\ DOMAIN m_tasks = Groups /\ \A g \in Groups : m_tasks[g] \in [Indices(g) -> Seq(Cpusets)]
    /\ m_tid2index \in [Groups -> Seq(Entry)]
    /\ myindex \in [Tids -> Nat]
    /\ team \in [Groups -> Seq(Tids)] /\ last_team \in [Groups -> Seq(Tids)]
    /\ pc \in [Tids -> Labels] /\ cpubind \in [Tids -> Cpusets]
    /\ abandoned \subseteq Groups

(* A cache holds a thread once, and only threads that exist. *)
CacheOK(cache, capacity) ==
    /\ Len(cache) <= capacity
    /\ \A i, j \in DOMAIN cache : cache[i].tid = cache[j].tid => i = j
CacheFits(g) ==
    /\ CacheOK(m_tid2index[g], NTasks[g] * CacheFactor)
    /\ \A i \in DOMAIN m_tid2index[g] : /\ m_tid2index[g][i].tid <= nthreads
                                        /\ m_tid2index[g][i].index \in Indices(g)

(* A team has threads that exist, each once, and no more than tasks. *)
TeamOK(s, g) ==
    /\ Len(s) <= NTasks[g]
    /\ \A i \in DOMAIN s : s[i] <= nthreads
    /\ \A i, j \in DOMAIN s : s[i] = s[j] => i = j

(* A thread is in a region exactly if it is in a team, and in one only. *)
InOneTeam ==
    /\ \A t \in Tids : pc[t] # "out" <=> \E g \in Groups : t \in Members(team[g])
    /\ \A g, h \in Groups : \A t \in Tids :
          t \in Members(team[g]) /\ t \in Members(team[h]) => g = h

(* A thread that has called has one of its group's tasks. *)
Assigned(g) == \A t \in Members(team[g]) : pc[t] # "start" => myindex[t] \in Indices(g)

BasicInv ==
    /\ ThreadTypes /\ InOneTeam
    /\ \A g \in Groups : /\ CacheFits(g) /\ Assigned(g)
                        /\ TeamOK(team[g], g) /\ TeamOK(last_team[g], g)

-----------------------------------------------------------------------------
(* The cache. *)

(* The entries that follow the new one. *)
Rest(cache, capacity, t) ==
    IF Without(cache, t) = cache /\ Len(cache) = capacity THEN Front(cache) ELSE Without(cache, t)

(* They are all those of another thread, in their order, except perhaps    *)
(* the last.                                                               *)
LEMMA RestFacts ==
    ASSUME NEW cache \in Seq(Entry), NEW capacity \in Nat \ {0}, CacheOK(cache, capacity),
           NEW t \in Tids
    PROVE  LET rest == Rest(cache, capacity, t)
           IN  /\ rest \in Seq(Entry) /\ Len(rest) < capacity
               /\ \A p \in DOMAIN cache : cache[p].tid = t =>
                     /\ Len(rest) = Len(cache) - 1
                     /\ \A i \in 1..Len(rest) : rest[i] = IF i < p THEN cache[i] ELSE cache[i + 1]
               /\ (\A p \in DOMAIN cache : cache[p].tid # t) =>
                     /\ Len(rest) = IF Len(cache) = capacity THEN capacity - 1 ELSE Len(cache)
                     /\ \A i \in 1..Len(rest) : rest[i] = cache[i]
<1>. DEFINE n == Len(cache)
            rest == Rest(cache, capacity, t)
            at == {i \in DOMAIN cache : cache[i].tid = t}
<1>1. n \in Nat /\ DOMAIN cache = 1..n /\ n <= capacity /\ \A i \in 1..n : cache[i] \in Entry
  BY LenProperties DEF CacheOK
<1>2. ASSUME NEW p \in DOMAIN cache, cache[p].tid = t
      PROVE  /\ rest \in Seq(Entry) /\ Len(rest) = n - 1
             /\ \A i \in 1..(n - 1) : rest[i] = IF i < p THEN cache[i] ELSE cache[i + 1]
  <2>1. at = {p}
    BY <1>2 DEF CacheOK
  <2>2. (CHOOSE i \in at : TRUE) = p
    BY <2>1
  <2>3. Without(cache, t) = RemoveAt(cache, p)
    BY <2>1, <2>2 DEF Without
  <2>. DEFINE a == SubSeq(cache, 1, p - 1)
              b == SubSeq(cache, p + 1, n)
  <2>4. p \in 1..n
    BY <1>1
  <2>5. /\ a \in Seq(Entry) /\ Len(a) = p - 1
        /\ \A i \in 1..(p - 1) : a[i] = cache[i]
    <3>1. /\ a \in Seq(Entry) /\ Len(a) = IF 1 <= p - 1 THEN (p - 1) - 1 + 1 ELSE 0
          /\ \A i \in 1..((p - 1) - 1 + 1) : a[i] = cache[1 + i - 1]
      <4>1. 1 \in Int /\ p - 1 \in Int /\ \A i \in 1..(p - 1) : cache[i] \in Entry
        BY <1>1, <2>4
      <4>. QED
        BY <4>1, SubSeqProperties
    <3>. HIDE DEF a
    <3>. QED
      BY <2>4, <3>1
  <2>6. /\ b \in Seq(Entry) /\ Len(b) = n - p
        /\ \A i \in 1..(n - p) : b[i] = cache[p + i]
    <3>1. /\ b \in Seq(Entry) /\ Len(b) = IF p + 1 <= n THEN n - (p + 1) + 1 ELSE 0
          /\ \A i \in 1..(n - (p + 1) + 1) : b[i] = cache[(p + 1) + i - 1]
      <4>1. p + 1 \in Int /\ n \in Int /\ \A i \in (p + 1)..n : cache[i] \in Entry
        BY <1>1, <2>4
      <4>. QED
        BY <4>1, SubSeqProperties
    <3>. HIDE DEF b, n
    <3>2. Len(b) = n - p
      BY <1>1, <2>4, <3>1
    <3>3. ASSUME NEW i \in 1..(n - p) PROVE b[i] = cache[p + i]
      <4>1. i \in 1..(n - (p + 1) + 1) /\ (p + 1) + i - 1 = p + i
        BY <1>1, <2>4, <3>3
      <4>2. b[i] = cache[(p + 1) + i - 1]
        BY <3>1, <4>1
      <4>. QED
        BY <4>1, <4>2
    <3>. QED
      BY <3>1, <3>2, <3>3
  <2>7. RemoveAt(cache, p) = a \o b
    BY DEF RemoveAt
  <2>. HIDE DEF a, b
  <2>8. /\ a \o b \in Seq(Entry) /\ Len(a \o b) = Len(a) + Len(b)
        /\ \A i \in 1..(Len(a) + Len(b)) : (a \o b)[i] = IF i <= Len(a) THEN a[i] ELSE b[i - Len(a)]
    BY <2>5, <2>6, ConcatProperties
  <2>9. Len(a) + Len(b) = n - 1
    BY <1>1, <2>4, <2>5, <2>6
  <2>10. \A i \in 1..(n - 1) : (a \o b)[i] = IF i < p THEN cache[i] ELSE cache[i + 1]
    <3>. TAKE i \in 1..(n - 1)
    <3>1. (a \o b)[i] = IF i <= p - 1 THEN a[i] ELSE b[i - (p - 1)]
      BY <2>5, <2>8, <2>9
    <3>2. CASE i < p
      BY <2>4, <2>5, <3>1, <3>2
    <3>3. CASE ~(i < p)
      <4>1. i - (p - 1) \in 1..(n - p) /\ p + (i - (p - 1)) = i + 1 /\ ~(i <= p - 1)
        BY <1>1, <2>4, <3>3
      <4>. QED
        BY <2>6, <3>1, <3>3, <4>1
    <3>. QED
      BY <3>2, <3>3
  <2>11. Without(cache, t) # cache
    <3>1. Len(Without(cache, t)) = n - 1
      BY <2>3, <2>7, <2>8, <2>9
    <3>. QED
      BY <1>1, <3>1
  <2>. QED
    BY <2>3, <2>7, <2>8, <2>9, <2>10, <2>11 DEF Rest
<1>3. ASSUME \A p \in DOMAIN cache : cache[p].tid # t
      PROVE  /\ rest \in Seq(Entry)
             /\ Len(rest) = IF n = capacity THEN capacity - 1 ELSE n
             /\ \A i \in 1..Len(rest) : rest[i] = cache[i]
  <2>1. Without(cache, t) = cache
    <3>1. at = {}
      BY <1>3
    <3>. QED
      BY <3>1 DEF Without
  <2>2. CASE n = capacity
    <3>1. rest = SubSeq(cache, 1, n - 1)
      BY <2>1, <2>2 DEF Front, Rest
    <3>2. /\ rest \in Seq(Entry) /\ Len(rest) = IF 1 <= n - 1 THEN (n - 1) - 1 + 1 ELSE 0
          /\ \A i \in 1..((n - 1) - 1 + 1) : rest[i] = cache[1 + i - 1]
      <4>1. 1 \in Int /\ n - 1 \in Int /\ \A i \in 1..(n - 1) : cache[i] \in Entry
        BY <1>1
      <4>. HIDE DEF rest
      <4>. QED
        BY <3>1, <4>1, SubSeqProperties
    <3>. HIDE DEF rest
    <3>. QED
      BY <1>1, <2>2, <3>2
  <2>3. CASE n # capacity
    BY <2>1, <2>3 DEF Rest
  <2>. QED
    BY <2>2, <2>3
<1>. HIDE DEF rest
<1>4. rest \in Seq(Entry) /\ Len(rest) < capacity
  <2>1. CASE \E p \in DOMAIN cache : cache[p].tid = t
    <3>1. rest \in Seq(Entry) /\ Len(rest) = n - 1
      BY <1>2, <2>1
    <3>. HIDE DEF n
    <3>. QED
      BY <1>1, <3>1
  <2>2. CASE \A p \in DOMAIN cache : cache[p].tid # t
    <3>1. rest \in Seq(Entry) /\ Len(rest) = IF n = capacity THEN capacity - 1 ELSE n
      BY <1>3, <2>2
    <3>. HIDE DEF n
    <3>. QED
      BY <1>1, <3>1
  <2>. QED
    BY <2>1, <2>2
<1>. QED
  BY <1>1, <1>2, <1>3, <1>4 DEF rest

(* What put() does to the cache: its entry is first, every other one is    *)
(* one that was there, of another thread; those before the entry that is   *)
(* replaced move down by one, and so do all but the last if there was none.*)
PutFits(cache, capacity, t, index, new) ==
    /\ new \in Seq(Entry) /\ CacheOK(new, capacity)
    /\ 1 \in DOMAIN new /\ new[1] = [tid |-> t, index |-> index]
    /\ \A i \in DOMAIN new : i # 1 =>
          \E j \in DOMAIN cache : new[i] = cache[j] /\ cache[j].tid # t
    /\ \A p \in DOMAIN cache : cache[p].tid = t =>
          \A j \in DOMAIN cache : j # p =>
              \E i \in DOMAIN new : new[i] = cache[j] /\ i = IF j < p THEN j + 1 ELSE j
    /\ (\A p \in DOMAIN cache : cache[p].tid # t) =>
          \A j \in DOMAIN cache : j < capacity =>
              \E i \in DOMAIN new : new[i] = cache[j] /\ i = j + 1

LEMMA PutFacts ==
    ASSUME NEW cache \in Seq(Entry), NEW capacity \in Nat \ {0}, CacheOK(cache, capacity),
           NEW t \in Tids, NEW index \in Nat
    PROVE  PutFits(cache, capacity, t, index, put(cache, capacity, t, index))
<1>. DEFINE n == Len(cache)
            entry == [tid |-> t, index |-> index]
            rest == Rest(cache, capacity, t)
            k == Len(rest)
            new == <<entry>> \o rest
<1>1. n \in Nat /\ DOMAIN cache = 1..n /\ n <= capacity /\ \A i \in 1..n : cache[i] \in Entry
  BY LenProperties DEF CacheOK
<1>2. /\ rest \in Seq(Entry) /\ k < capacity
      /\ \A p \in DOMAIN cache : cache[p].tid = t =>
            k = n - 1 /\ \A i \in 1..k : rest[i] = IF i < p THEN cache[i] ELSE cache[i + 1]
      /\ (\A p \in DOMAIN cache : cache[p].tid # t) =>
            /\ k = IF n = capacity THEN capacity - 1 ELSE n
            /\ \A i \in 1..k : rest[i] = cache[i]
  BY RestFacts
<1>3. put(cache, capacity, t, index) = new
  BY DEF put, Rest
<1>. HIDE DEF rest
<1>4. k \in Nat
  BY <1>2, LenProperties
<1>5. entry \in Entry
  BY DEF Entry
<1>. HIDE DEF entry
<1>6. <<entry>> \in Seq(Entry) /\ Len(<<entry>>) = 1 /\ <<entry>>[1] = entry
  BY <1>5
<1>7. /\ new \in Seq(Entry) /\ Len(new) = 1 + k
      /\ \A i \in 1..(1 + k) : new[i] = IF i <= 1 THEN <<entry>>[i] ELSE rest[i - 1]
  <2>1. /\ new \in Seq(Entry) /\ Len(new) = Len(<<entry>>) + Len(rest)
        /\ \A i \in 1..(Len(<<entry>>) + Len(rest)) :
              new[i] = IF i <= Len(<<entry>>) THEN <<entry>>[i] ELSE rest[i - Len(<<entry>>)]
    BY <1>2, <1>6, ConcatProperties
  <2>. QED
    BY <1>6, <2>1
<1>. HIDE DEF new, n, k
<1>8. DOMAIN new = 1..(1 + k) /\ new[1] = entry /\ \A i \in 2..(1 + k) : new[i] = rest[i - 1]
  <2>1. DOMAIN new = 1..(1 + k)
    BY <1>7
  <2>2. new[1] = entry
    BY <1>4, <1>6, <1>7
  <2>3. ASSUME NEW i \in 2..(1 + k) PROVE new[i] = rest[i - 1]
    BY <1>4, <1>7, <2>3
  <2>. QED
    BY <2>1, <2>2, <2>3
<1>9. ASSUME NEW p \in DOMAIN cache, cache[p].tid = t
      PROVE  /\ k = n - 1
             /\ \A i \in 1..k : rest[i] = IF i < p THEN cache[i] ELSE cache[i + 1]
             /\ \A j \in DOMAIN cache : cache[j].tid = t => j = p
  BY <1>2, <1>9 DEF CacheOK
<1>10. ASSUME NEW i \in 1..k
       PROVE  \E j \in DOMAIN cache : rest[i] = cache[j] /\ cache[j].tid # t /\ i <= j
  <2>1. CASE \E p \in DOMAIN cache : cache[p].tid = t
    <3>1. PICK p \in DOMAIN cache : cache[p].tid = t
      BY <2>1
    <3>2. k = n - 1 /\ rest[i] = IF i < p THEN cache[i] ELSE cache[i + 1]
      BY <1>9, <3>1
    <3>3. \A j \in DOMAIN cache : cache[j].tid = t => j = p
      BY <1>9, <3>1
    <3>4. CASE i < p
      <4>1. i \in 1..n /\ i # p
        BY <1>1, <1>4, <3>2, <3>4
      <4>. QED
        BY <1>1, <3>2, <3>3, <3>4, <4>1
    <3>5. CASE ~(i < p)
      <4>1. i + 1 \in 1..n /\ i + 1 # p /\ i <= i + 1
        BY <1>1, <1>4, <3>2, <3>5
      <4>. QED
        BY <1>1, <3>2, <3>3, <3>5, <4>1
    <3>. QED
      BY <3>4, <3>5
  <2>2. CASE \A p \in DOMAIN cache : cache[p].tid # t
    <3>1. k <= n /\ rest[i] = cache[i]
      BY <1>1, <1>2, <2>2
    <3>. QED
      BY <1>1, <1>4, <2>2, <3>1
  <2>. QED
    BY <2>1, <2>2
<1>11. ASSUME NEW i \in DOMAIN new, i # 1
       PROVE  \E j \in DOMAIN cache : new[i] = cache[j] /\ cache[j].tid # t
  <2>1. i - 1 \in 1..k /\ new[i] = rest[i - 1]
    BY <1>4, <1>8, <1>11
  <2>. QED
    BY <1>10, <2>1
<1>12. CacheOK(new, capacity)
  <2>1. Len(new) <= capacity
    BY <1>2, <1>4, <1>7
  <2>2. ASSUME NEW i \in 1..k, NEW j \in 1..k, rest[i].tid = rest[j].tid PROVE i = j
    <3>1. CASE \E p \in DOMAIN cache : cache[p].tid = t
      <4>1. PICK p \in DOMAIN cache : cache[p].tid = t
        BY <3>1
      <4>. DEFINE at(x) == IF x < p THEN x ELSE x + 1
      <4>2. k = n - 1 /\ rest[i] = cache[at(i)] /\ rest[j] = cache[at(j)]
        BY <1>9, <4>1
      <4>3. p \in Nat /\ at(i) \in 1..n /\ at(j) \in 1..n
        BY <1>1, <1>4, <4>2
      <4>4. at(i) = at(j)
        <5>. HIDE DEF at
        <5>. QED
          BY <1>1, <2>2, <4>2, <4>3 DEF CacheOK
      <4>. QED
        BY <4>3, <4>4
    <3>2. CASE \A p \in DOMAIN cache : cache[p].tid # t
      <4>1. k <= n /\ rest[i] = cache[i] /\ rest[j] = cache[j]
        BY <1>1, <1>2, <3>2
      <4>2. i \in 1..n /\ j \in 1..n
        BY <1>1, <1>4, <4>1
      <4>. QED
        BY <1>1, <2>2, <4>1, <4>2 DEF CacheOK
    <3>. QED
      BY <3>1, <3>2
  <2>3. entry.tid = t
    BY DEF entry
  <2>4. ASSUME NEW i \in DOMAIN new, NEW j \in DOMAIN new, new[i].tid = new[j].tid PROVE i = j
    <3>1. CASE i = 1 \/ j = 1
      BY <1>8, <1>11, <2>3, <2>4, <3>1
    <3>2. CASE i # 1 /\ j # 1
      <4>1. /\ i - 1 \in 1..k /\ new[i] = rest[i - 1]
            /\ j - 1 \in 1..k /\ new[j] = rest[j - 1] /\ i \in Int /\ j \in Int
        BY <1>4, <1>8, <3>2
      <4>2. i - 1 = j - 1
        BY <2>2, <2>4, <4>1
      <4>. QED
        BY <4>1, <4>2
    <3>. QED
      BY <3>1, <3>2
  <2>. QED
    BY <2>1, <2>4 DEF CacheOK
<1>13. ASSUME NEW p \in DOMAIN cache, cache[p].tid = t, NEW j \in DOMAIN cache, j # p
       PROVE  \E i \in DOMAIN new : new[i] = cache[j] /\ i = IF j < p THEN j + 1 ELSE j
  <2>1. k = n - 1 /\ \A i \in 1..k : rest[i] = IF i < p THEN cache[i] ELSE cache[i + 1]
    BY <1>9, <1>13
  <2>2. CASE j < p
    <3>1. j + 1 \in 2..(1 + k) /\ j + 1 \in DOMAIN new /\ (j + 1) - 1 = j /\ j \in 1..k
      BY <1>1, <1>4, <1>8, <2>1, <2>2
    <3>2. new[j + 1] = rest[j] /\ rest[j] = cache[j]
      BY <1>8, <2>1, <2>2, <3>1
    <3>. QED
      BY <2>2, <3>1, <3>2
  <2>3. CASE ~(j < p)
    <3>1. j \in 2..(1 + k) /\ j \in DOMAIN new /\ j - 1 \in 1..k /\ (j - 1) + 1 = j /\ ~(j - 1 < p)
      BY <1>1, <1>4, <1>8, <1>13, <2>1, <2>3
    <3>2. new[j] = rest[j - 1] /\ rest[j - 1] = cache[(j - 1) + 1]
      BY <1>8, <2>1, <3>1
    <3>. QED
      BY <2>3, <3>1, <3>2
  <2>. QED
    BY <2>2, <2>3
<1>14. ASSUME \A p \in DOMAIN cache : cache[p].tid # t, NEW j \in DOMAIN cache, j < capacity
       PROVE  \E i \in DOMAIN new : new[i] = cache[j] /\ i = j + 1
  <2>1. k = IF n = capacity THEN capacity - 1 ELSE n
    BY <1>2, <1>14
  <2>2. j + 1 \in 2..(1 + k) /\ j + 1 \in DOMAIN new /\ (j + 1) - 1 = j /\ j \in 1..k
    BY <1>1, <1>4, <1>8, <1>14, <2>1
  <2>3. new[j + 1] = rest[j] /\ rest[j] = cache[j]
    BY <1>2, <1>8, <1>14, <2>2
  <2>. QED
    BY <2>2, <2>3
<1>15. 1 \in DOMAIN new
  BY <1>4, <1>8
<1>. QED
  BY <1>3, <1>7, <1>8, <1>11, <1>12, <1>13, <1>14, <1>15 DEF PutFits, entry

-----------------------------------------------------------------------------
(* Looking a task up. *)

Capacity(g) == NTasks[g] * CacheFactor

LEMMA CapacityFacts ==
    ASSUME NEW g \in Groups
    PROVE  /\ NTasks[g] \in Nat \ {0} /\ Capacity(g) \in Nat \ {0} /\ NTasks[g] <= Capacity(g)
           /\ Indices(g) = 0..(NTasks[g] - 1)
<1>1. NTasks[g] \in Nat \ {0} /\ CacheFactor \in Nat \ {0}
  BY ThreadAssumption
<1>2. \A n, f \in Nat \ {0} : n * f \in Nat \ {0} /\ n <= n * f
  <2>. TAKE n, f \in Nat \ {0}
  <2>1. f - 1 \in Nat /\ n * f = n * (f - 1) + n
    OBVIOUS
  <2>2. \A a, b \in Nat : a * b \in Nat
    OBVIOUS
  <2>. QED
    BY <2>1, <2>2
<1>. QED
  BY <1>1, <1>2 DEF Capacity, Indices

(* The thread is given the index in its entry, or, if it has none, one by  *)
(* the counter; its entry is then the first.                               *)
Hit(g, t, index) ==
    /\ \E p \in DOMAIN m_tid2index[g] : m_tid2index[g][p] = [tid |-> t, index |-> index]
    /\ next_index' = next_index
Miss(g, t, index) ==
    /\ \A p \in DOMAIN m_tid2index[g] : m_tid2index[g][p].tid # t
    /\ index = next_index % NTasks[g] /\ next_index' = next_index + 1
Looks(g, t, index) ==
    /\ Hit(g, t, index) \/ Miss(g, t, index)
    /\ m_tid2index' = [m_tid2index EXCEPT ![g] = m_tid2index'[g]]
    /\ PutFits(m_tid2index[g], Capacity(g), t, index, m_tid2index'[g])
    /\ myindex' = [myindex EXCEPT ![t] = index]

LEMMA TaskFacts ==
    ASSUME ThreadTypes, NEW g \in Groups, CacheFits(g), NEW t \in Tids, task(g, t)
    PROVE  \E index \in Indices(g) : Looks(g, t, index)
<1>. DEFINE cache == m_tid2index[g]
            found == get(cache, t)
            index == IF found # {} THEN CHOOSE i \in found : TRUE ELSE new_index(g)
            new == put(cache, NTasks[g] * CacheFactor, t, index)
<1>1. /\ next_index' = IF found # {} THEN next_index ELSE next_index + 1
      /\ m_tid2index' = [m_tid2index EXCEPT ![g] = new]
      /\ myindex' = [myindex EXCEPT ![t] = index]
  BY DEF task
<1>2. cache \in Seq(Entry) /\ m_tid2index \in [Groups -> Seq(Entry)] /\ next_index \in Nat
  BY DEF ThreadTypes
<1>3. \A i \in DOMAIN cache : cache[i] \in Entry
  BY <1>2
<1>4. \A i, j \in DOMAIN cache : cache[i].tid = cache[j].tid => i = j
  BY DEF CacheFits, CacheOK
<1>. HIDE DEF index
<1>5. index \in Indices(g) /\ (Hit(g, t, index) \/ Miss(g, t, index))
  <2>1. CASE found # {}
    <3>1. index \in found
      BY <2>1 DEF index
    <3>2. PICK p \in DOMAIN cache : cache[p].tid = t /\ cache[p].index = index
      BY <3>1 DEF get
    <3>3. cache[p] = [tid |-> t, index |-> index]
      BY <1>3, <3>2 DEF Entry
    <3>4. index \in Indices(g)
      BY <3>2 DEF CacheFits
    <3>. QED
      BY <1>1, <2>1, <3>3, <3>4 DEF Hit
  <2>2. CASE found = {}
    <3>1. \A p \in DOMAIN cache : cache[p].tid # t
      BY <2>2 DEF get
    <3>2. index = next_index % NTasks[g]
      BY <2>2 DEF index, new_index
    <3>3. index \in Indices(g)
      <4>1. NTasks[g] \in Nat \ {0} /\ Indices(g) = 0..(NTasks[g] - 1)
        BY CapacityFacts
      <4>. QED
        BY <1>2, <3>2, <4>1
    <3>. QED
      BY <1>1, <2>2, <3>1, <3>2, <3>3 DEF Miss
  <2>. QED
    BY <2>1, <2>2
<1>6. PutFits(cache, Capacity(g), t, index, new)
  <2>1. Capacity(g) \in Nat \ {0} /\ CacheOK(cache, Capacity(g)) /\ index \in Nat
    BY <1>5, CapacityFacts DEF CacheFits, Capacity, Indices
  <2>2. PutFits(cache, Capacity(g), t, index, put(cache, Capacity(g), t, index))
    BY <1>2, <2>1, PutFacts
  <2>. QED
    BY <2>2 DEF Capacity
<1>. HIDE DEF new
<1>7. m_tid2index'[g] = new
  BY <1>1, <1>2
<1>. QED
  BY <1>1, <1>5, <1>6, <1>7 DEF Looks

(* Caches stay caches. *)
LEMMA CachesKept ==
    ASSUME ThreadTypes, \A h \in Groups : CacheFits(h), NEW g \in Groups, NEW t \in Tids,
           t <= nthreads, task(g, t), nthreads' = nthreads
    PROVE  /\ next_index' \in Nat /\ m_tid2index' \in [Groups -> Seq(Entry)]
           /\ myindex' \in [Tids -> Nat] /\ myindex'[t] \in Indices(g)
           /\ \A u \in Tids \ {t} : myindex'[u] = myindex[u]
           /\ \A h \in Groups : CacheFits(h)'
<1>1. PICK index \in Indices(g) : Looks(g, t, index)
  BY TaskFacts
<1>2. /\ next_index \in Nat /\ m_tid2index \in [Groups -> Seq(Entry)] /\ myindex \in [Tids -> Nat]
      /\ nthreads \in Nat
  BY DEF ThreadTypes, Tids
<1>3. index \in Nat
  BY <1>1, CapacityFacts
<1>. DEFINE new == m_tid2index'[g]
<1>4. /\ new \in Seq(Entry) /\ CacheOK(new, Capacity(g))
      /\ 1 \in DOMAIN new /\ new[1] = [tid |-> t, index |-> index]
      /\ \A i \in DOMAIN new : i # 1 => \E j \in DOMAIN m_tid2index[g] : new[i] = m_tid2index[g][j]
  BY <1>1 DEF Looks, PutFits
<1>5. m_tid2index' = [m_tid2index EXCEPT ![g] = new]
  BY <1>1 DEF Looks
<1>6. m_tid2index' \in [Groups -> Seq(Entry)] /\ \A h \in Groups \ {g} : m_tid2index'[h] = m_tid2index[h]
  <2>. HIDE DEF new
  <2>. QED
    BY <1>2, <1>4, <1>5
<1>7. next_index' \in Nat
  BY <1>1, <1>2 DEF Looks, Hit, Miss
<1>8. myindex' \in [Tids -> Nat] /\ myindex'[t] = index /\ \A u \in Tids \ {t} : myindex'[u] = myindex[u]
  BY <1>1, <1>2, <1>3 DEF Looks
<1>9. \A i \in DOMAIN new : new[i].tid <= nthreads /\ new[i].index \in Indices(g)
  <2>. TAKE i \in DOMAIN new
  <2>1. CASE i = 1
    BY <1>4, <2>1
  <2>2. CASE i # 1
    <3>1. PICK j \in DOMAIN m_tid2index[g] : new[i] = m_tid2index[g][j]
      BY <1>4, <2>2
    <3>2. m_tid2index[g][j].tid <= nthreads /\ m_tid2index[g][j].index \in Indices(g)
      BY DEF CacheFits
    <3>. HIDE DEF new
    <3>. QED
      BY <3>1, <3>2
  <2>. QED
    BY <2>1, <2>2
<1>10. ASSUME NEW h \in Groups PROVE CacheFits(h)'
  <2>1. CASE h = g
    BY <1>4, <1>9, <2>1 DEF CacheFits, Capacity
  <2>2. CASE h # g
    <3>1. CacheFits(h) /\ m_tid2index'[h] = m_tid2index[h]
      BY <1>6, <2>2
    <3>. QED
      BY <3>1 DEF CacheFits
  <2>. QED
    BY <2>1, <2>2
<1>. QED
  BY <1>6, <1>7, <1>8, <1>10

-----------------------------------------------------------------------------
(* Teams. *)

(* The threads of a new team: there are not more than tasks, and each is   *)
(* one of the process, old or new.                                         *)
Origin(g, w) ==
    \/ "fresh" \in Teams /\ \A i \in DOMAIN w : w[i] > nthreads
    \/ /\ "reused" \in Teams
       /\ \A i \in DOMAIN w : i \in DOMAIN last_team[g] /\ w[i] = last_team[g][i]
    \/ "master" \in Teams

LEMMA NewThreads ==
    ASSUME NEW a \in Nat, NEW b \in Nat, a <= b + 1
    PROVE  Cardinality(a..b) = b - a + 1
<1>1. a \in Int /\ b \in Int
  OBVIOUS
<1>2. Cardinality(a..b) = (IF a > b THEN 0 ELSE b - a + 1)
  BY <1>1, FS_Interval
<1>. QED
  BY <1>2

LEMMA WorkforceFacts ==
    ASSUME ThreadTypes, NEW g \in Groups, TeamOK(last_team[g], g), NEW n \in 1..NTasks[g],
           NEW w \in Workforces(g, n),
           nthreads' = nthreads + Cardinality({i \in DOMAIN w : w[i] > nthreads})
    PROVE  /\ w \in Seq(Tids) /\ Len(w) = n /\ TeamOK(w, g)' /\ Origin(g, w)
           /\ nthreads' \in Tids /\ nthreads <= nthreads'
<1>. DEFINE new(count) == [i \in 1..count |-> nthreads + i]
            later == {i \in DOMAIN w : w[i] > nthreads}
<1>1. \A i \in 1..n : w[i] \in Tids
  BY DEF Workforces
<1>2. \/ "fresh" \in Teams /\ w = new(n)
      \/ "reused" \in Teams /\ n \in DOMAIN last_team[g] /\ w = SubSeq(last_team[g], 1, n)
      \/ "master" \in Teams /\ w = <<1>> \o new(n - 1)
  <2>. DEFINE from(source) ==
           CASE source = "fresh" -> {new(n)}
             [] source = "reused" -> {SubSeq(last_team[g], 1, k) : k \in {n} \cap DOMAIN last_team[g]}
             [] source = "master" -> {<<1>> \o new(n - 1)}
  <2>1. w \in UNION {from(source) : source \in Teams}
    BY DEF Workforces
  <2>2. PICK source \in Teams : w \in from(source)
    BY <2>1
  <2>3. source \in {"fresh", "reused", "master"}
    BY ThreadAssumption
  <2>. HIDE DEF new
  <2>4. CASE source = "fresh"
    BY <2>2, <2>4
  <2>5. CASE source = "reused"
    <3>1. w \in {SubSeq(last_team[g], 1, k) : k \in {n} \cap DOMAIN last_team[g]}
      BY <2>2, <2>5
    <3>. QED
      BY <2>5, <3>1
  <2>6. CASE source = "master"
    <3>1. w \in {<<1>> \o new(n - 1)}
      BY <2>2, <2>6
    <3>. QED
      BY <2>6, <3>1
  <2>. QED
    BY <2>3, <2>4, <2>5, <2>6
<1>3. /\ NTasks[g] \in Nat \ {0} /\ n \in Nat /\ 1 <= n /\ n <= NTasks[g]
      /\ nthreads \in Nat /\ 1 <= nthreads /\ nthreads <= MaxThreads /\ MaxThreads \in Nat
  BY CapacityFacts, ThreadAssumption DEF ThreadTypes, Tids
<1>4. ASSUME DOMAIN w = 1..n, Len(w) = n, w \in Seq(Nat) \/ w \in Seq(Tids),
             \A i, j \in DOMAIN w : w[i] = w[j] => i = j, Origin(g, w),
             nthreads' \in Tids, nthreads <= nthreads', \A i \in DOMAIN w : w[i] <= nthreads'
      PROVE  /\ w \in Seq(Tids) /\ Len(w) = n /\ TeamOK(w, g)' /\ Origin(g, w)
             /\ nthreads' \in Tids /\ nthreads <= nthreads'
  <2>1. w \in Seq(Tids)
    BY <1>1, <1>4
  <2>. QED
    BY <1>3, <1>4, <2>1 DEF TeamOK
<1>5. CASE "fresh" \in Teams /\ w = new(n)
  <2>1. DOMAIN w = 1..n /\ \A i \in 1..n : w[i] = nthreads + i
    BY <1>5
  <2>2. w \in Seq(Nat) /\ Len(w) = n
    BY <1>3, <1>5
  <2>3. later = 1..n
    BY <1>3, <2>1
  <2>4. nthreads' = nthreads + n
    <3>1. 1 \in Nat /\ 1 <= n + 1
      BY <1>3
    <3>2. Cardinality(1..n) = n - 1 + 1
      BY <1>3, <3>1, NewThreads
    <3>3. nthreads' = nthreads + (n - 1 + 1)
      BY <2>3, <3>2
    <3>. QED
      BY <1>3, <3>3
  <2>5. nthreads + n \in Tids
    BY <1>1, <1>3, <2>1
  <2>6. Origin(g, w)
    BY <1>3, <1>5, <2>1 DEF Origin
  <2>7. /\ \A i, j \in DOMAIN w : w[i] = w[j] => i = j
        /\ nthreads <= nthreads' /\ \A i \in DOMAIN w : w[i] <= nthreads'
    <3>1. ASSUME NEW i \in 1..n, NEW j \in 1..n PROVE w[i] = w[j] => i = j
      BY <1>3, <2>1
    <3>2. ASSUME NEW i \in 1..n PROVE w[i] <= nthreads + n
      BY <1>3, <2>1
    <3>3. nthreads <= nthreads + n
      BY <1>3
    <3>. QED
      BY <2>1, <2>4, <3>1, <3>2, <3>3
  <2>. QED
    BY <1>4, <2>1, <2>2, <2>4, <2>5, <2>6, <2>7
<1>6. CASE "reused" \in Teams /\ n \in DOMAIN last_team[g] /\ w = SubSeq(last_team[g], 1, n)
  <2>. DEFINE last == last_team[g]
  <2>1. last \in Seq(Tids) /\ DOMAIN last = 1..Len(last) /\ Len(last) \in Nat
    BY DEF ThreadTypes
  <2>2. \A i \in 1..n : i \in DOMAIN last /\ last[i] \in Tids
    BY <1>3, <1>6, <2>1
  <2>3. /\ w \in Seq(Tids) /\ Len(w) = (IF 1 <= n THEN n - 1 + 1 ELSE 0)
        /\ \A i \in 1..(n - 1 + 1) : w[i] = last[1 + i - 1]
    <3>1. 1 \in Int /\ n \in Int /\ \A i \in 1..n : last[i] \in Tids
      BY <1>3, <2>2
    <3>. QED
      BY <1>6, <2>1, <3>1, SubSeqProperties
  <2>. HIDE DEF last
  <2>4. Len(w) = n /\ DOMAIN w = 1..n /\ \A i \in 1..n : w[i] = last[i]
    BY <1>3, <2>3
  <2>5. /\ \A i \in DOMAIN last : last[i] <= nthreads
        /\ \A i, j \in DOMAIN last : last[i] = last[j] => i = j
    BY DEF TeamOK, last
  <2>6. \A i \in DOMAIN w : w[i] <= nthreads /\ w[i] \in Nat
    BY <2>2, <2>4, <2>5 DEF Tids
  <2>7. later = {}
    BY <1>3, <2>6
  <2>8. nthreads' = nthreads
    BY <1>3, <2>7, FS_EmptySet
  <2>10. \A i, j \in DOMAIN w : w[i] = w[j] => i = j
    BY <2>2, <2>4, <2>5
  <2>11. Origin(g, w)
    BY <1>6, <2>2, <2>4 DEF Origin, last
  <2>12. nthreads' \in Tids /\ nthreads <= nthreads' /\ \A i \in DOMAIN w : w[i] <= nthreads'
    <3>1. nthreads \in Tids /\ nthreads <= nthreads
      BY <1>3 DEF ThreadTypes
    <3>. QED
      BY <2>6, <2>8, <3>1
  <2>. QED
    BY <1>4, <2>3, <2>4, <2>10, <2>11, <2>12
<1>7. CASE "master" \in Teams /\ w = <<1>> \o new(n - 1)
  <2>. DEFINE tail == new(n - 1)
  <2>1. tail \in Seq(Nat) /\ Len(tail) = n - 1 /\ \A i \in 1..(n - 1) : tail[i] = nthreads + i
    BY <1>3
  <2>2. <<1>> \in Seq(Nat) /\ Len(<<1>>) = 1 /\ <<1>>[1] = 1
    OBVIOUS
  <2>. HIDE DEF tail
  <2>3. /\ w \in Seq(Nat) /\ Len(w) = Len(<<1>>) + Len(tail)
        /\ \A i \in 1..(Len(<<1>>) + Len(tail)) :
              w[i] = IF i <= Len(<<1>>) THEN <<1>>[i] ELSE tail[i - Len(<<1>>)]
    BY <1>7, <2>1, <2>2, ConcatProperties DEF tail
  <2>4. Len(w) = n /\ DOMAIN w = 1..n
    BY <1>3, <2>1, <2>2, <2>3
  <2>5. w[1] = 1
    BY <1>3, <2>1, <2>2, <2>3
  <2>6. \A i \in 2..n : w[i] = nthreads + (i - 1)
    BY <1>3, <2>1, <2>2, <2>3
  <2>7. later = 2..n
    BY <1>3, <2>4, <2>5, <2>6
  <2>8. nthreads' = nthreads + (n - 1)
    <3>1. 2 \in Nat /\ 2 <= n + 1
      BY <1>3
    <3>2. Cardinality(2..n) = n - 2 + 1
      BY <1>3, <3>1, NewThreads
    <3>3. nthreads' = nthreads + (n - 2 + 1)
      BY <2>7, <3>2
    <3>. QED
      BY <1>3, <3>3
  <2>9. nthreads' \in Tids
    <3>1. CASE n = 1
      BY <1>3, <2>8, <3>1 DEF Tids
    <3>2. CASE n # 1
      BY <1>1, <1>3, <2>6, <2>8, <3>2
    <3>. QED
      BY <3>1, <3>2
  <2>10. Origin(g, w)
    BY <1>7 DEF Origin
  <2>11. nthreads <= nthreads' /\ \A i \in DOMAIN w : w[i] <= nthreads'
    <3>1. ASSUME NEW i \in 1..n PROVE w[i] <= nthreads + (n - 1)
      BY <1>3, <2>5, <2>6
    <3>2. nthreads <= nthreads + (n - 1)
      BY <1>3
    <3>. QED
      BY <2>4, <2>8, <3>1, <3>2
  <2>12. ASSUME NEW i \in DOMAIN w, NEW j \in DOMAIN w, w[i] = w[j] PROVE i = j
    BY <1>3, <2>4, <2>5, <2>6, <2>12
  <2>. QED
    BY <1>4, <2>3, <2>4, <2>9, <2>10, <2>11, <2>12
<1>. QED
  BY <1>2, <1>5, <1>6, <1>7

-----------------------------------------------------------------------------
(* The basic invariant is inductive. *)

LEMMA MemberFacts ==
    ASSUME NEW s \in Seq(Tids)
    PROVE  /\ DOMAIN s = 1..Len(s) /\ Len(s) \in Nat /\ Members(s) \subseteq Tids
           /\ \A t : Contains(s, t) <=> t \in Members(s)
           /\ s = <<>> <=> Members(s) = {}
<1>1. DOMAIN s = 1..Len(s) /\ Len(s) \in Nat /\ \A i \in 1..Len(s) : s[i] \in Tids
  BY LenProperties
<1>2. s = <<>> <=> Members(s) = {}
  <2>1. ASSUME s # <<>> PROVE 1 \in DOMAIN s
    BY <2>1
  <2>. QED
    BY <2>1 DEF Members
<1>. QED
  BY <1>1, <1>2 DEF Members, Contains

(* A running thread, its group and its place in the team. *)
LEMMA GroupOfFacts ==
    ASSUME BasicInv, NEW t \in Tids, pc[t] # "out"
    PROVE  /\ GroupOf(t) \in Groups /\ t \in Members(team[GroupOf(t)]) /\ t <= nthreads
           /\ Place(t) \in Nat /\ Place(t) + 1 \in DOMAIN team[GroupOf(t)]
           /\ team[GroupOf(t)][Place(t) + 1] = t
           /\ \A g \in Groups : t \in Members(team[g]) => g = GroupOf(t)
<1>. DEFINE g == GroupOf(t)
<1>1. \A h \in Groups : team[h] \in Seq(Tids)
  BY DEF BasicInv, ThreadTypes
<1>2. \E h \in Groups : Contains(team[h], t)
  BY <1>1, MemberFacts DEF BasicInv, InOneTeam
<1>3. g \in Groups /\ Contains(team[g], t)
  BY <1>2 DEF GroupOf
<1>. HIDE DEF g
<1>4. t \in Members(team[g])
  BY <1>1, <1>3, MemberFacts
<1>5. t <= nthreads
  BY <1>3, <1>4 DEF BasicInv, TeamOK, Members
<1>. DEFINE i == CHOOSE i \in DOMAIN team[g] : team[g][i] = t
<1>6. i \in DOMAIN team[g] /\ team[g][i] = t
  BY <1>4 DEF Members
<1>7. i \in Nat \ {0}
  <2>1. DOMAIN team[g] = 1..Len(team[g]) /\ Len(team[g]) \in Nat
    BY <1>1, <1>3, MemberFacts
  <2>. HIDE DEF i
  <2>. QED
    BY <1>6, <2>1
<1>8. Place(t) = i - 1
  BY DEF Place, g
<1>. HIDE DEF i
<1>9. Place(t) \in Nat /\ Place(t) + 1 = i
  BY <1>7, <1>8
<1>10. \A h \in Groups : t \in Members(team[h]) => h = g
  BY <1>3, <1>4 DEF BasicInv, InOneTeam
<1>. QED
  BY <1>3, <1>4, <1>5, <1>6, <1>9, <1>10 DEF g

LEMMA ThreadInitOK == Init => BasicInv
<1>. SUFFICES ASSUME Init PROVE BasicInv
  OBVIOUS
<1>1. /\ next_index = 0 /\ nthreads = 1 /\ nregions = 0 /\ abandoned = {}
      /\ m_tasks = [g \in Groups |-> [i \in Indices(g) |-> <<Parent>>]]
      /\ m_tid2index = [g \in Groups |-> <<>>] /\ myindex = [t \in Tids |-> 0]
      /\ team = [g \in Groups |-> <<>>] /\ last_team = [g \in Groups |-> <<>>]
      /\ pc = [t \in Tids |-> "out"] /\ cpubind = [t \in Tids |-> Parent]
  BY DEF Init, ThreadInit
<1>2. Parent \in Cpusets
  BY DEF Parent, Cpusets
<1>3. <<Parent>> \in Seq(Cpusets)
  BY <1>2
<1>4. ThreadTypes
  <2>1. nthreads \in Tids /\ nregions \in 0..MaxRegions
    BY <1>1, ThreadAssumption DEF Tids
  <2>2. DOMAIN m_tasks = Groups /\ \A g \in Groups : m_tasks[g] \in [Indices(g) -> Seq(Cpusets)]
    BY <1>1, <1>3
  <2>3. <<>> \in Seq(Entry) /\ <<>> \in Seq(Tids)
    OBVIOUS
  <2>. QED
    BY <1>1, <1>2, <2>1, <2>2, <2>3 DEF ThreadTypes, Labels
<1>5. ASSUME NEW g \in Groups
      PROVE  CacheFits(g) /\ Assigned(g) /\ TeamOK(team[g], g) /\ TeamOK(last_team[g], g)
  <2>1. m_tid2index[g] = <<>> /\ team[g] = <<>> /\ last_team[g] = <<>>
    BY <1>1
  <2>2. Capacity(g) \in Nat /\ NTasks[g] \in Nat
    BY CapacityFacts
  <2>3. Len(<<>>) = 0 /\ DOMAIN <<>> = {}
    OBVIOUS
  <2>. QED
    BY <2>1, <2>2, <2>3 DEF CacheFits, CacheOK, Assigned, TeamOK, Capacity, Members
<1>6. InOneTeam
  BY <1>1 DEF InOneTeam, Members
<1>. QED
  BY <1>4, <1>5, <1>6 DEF BasicInv

(* A thread goes on in its region. *)
LEMMA StepBasic ==
    ASSUME BasicInv, NEW t \in Tids, pc[t] # "out", NEW label \in Labels \ {"out", "start"},
           pc' = [pc EXCEPT ![t] = label], UNCHANGED <<team, last_team, nthreads, nregions>>,
           next_index' \in Nat, m_tid2index' \in [Groups -> Seq(Entry)],
           \A g \in Groups : CacheFits(g)',
           myindex' \in [Tids -> Nat], myindex'[t] \in Indices(GroupOf(t)),
           \A u \in Tids \ {t} : myindex'[u] = myindex[u],
           DOMAIN m_tasks' = Groups, \A g \in Groups : m_tasks'[g] \in [Indices(g) -> Seq(Cpusets)],
           cpubind' \in [Tids -> Cpusets], abandoned' \subseteq Groups
    PROVE  BasicInv'
<1>1. /\ pc \in [Tids -> Labels] /\ \A g \in Groups : Members(team[g]) \subseteq Tids
  BY MemberFacts DEF BasicInv, ThreadTypes
<1>2. pc' \in [Tids -> Labels] /\ pc'[t] = label /\ \A u \in Tids \ {t} : pc'[u] = pc[u]
  BY <1>1
<1>3. ThreadTypes'
  BY <1>2 DEF BasicInv, ThreadTypes
<1>4. InOneTeam'
  BY <1>2 DEF BasicInv, InOneTeam
<1>5. ASSUME NEW g \in Groups PROVE Assigned(g)' /\ TeamOK(team[g], g)' /\ TeamOK(last_team[g], g)'
  <2>1. TeamOK(team[g], g)' /\ TeamOK(last_team[g], g)'
    BY DEF BasicInv, TeamOK
  <2>2. ASSUME NEW u \in Members(team[g]), pc'[u] # "start" PROVE myindex'[u] \in Indices(g)
    <3>1. CASE u = t
      BY <2>2, <3>1, GroupOfFacts
    <3>2. CASE u # t
      BY <1>1, <1>2, <2>2, <3>2 DEF BasicInv, Assigned
    <3>. QED
      BY <3>1, <3>2
  <2>. QED
    BY <2>1, <2>2 DEF Assigned
<1>. QED
  BY <1>3, <1>4, <1>5 DEF BasicInv

(* The stack of a task, as long as its thread has it. *)
LEMMA StackFacts ==
    ASSUME BasicInv, NEW g \in Groups, NEW i \in Indices(g), NEW stack \in Seq(Cpusets)
    PROVE  LET new == [m_tasks EXCEPT ![g][i] = stack]
           IN  /\ DOMAIN new = Groups /\ \A h \in Groups : new[h] \in [Indices(h) -> Seq(Cpusets)]
               /\ new[g][i] = stack
               /\ \A h \in Groups : \A j \in Indices(h) :
                     h # g \/ j # i => new[h][j] = m_tasks[h][j]
<1>1. DOMAIN m_tasks = Groups /\ \A h \in Groups : m_tasks[h] \in [Indices(h) -> Seq(Cpusets)]
  BY DEF BasicInv, ThreadTypes
<1>. QED
  BY <1>1

LEMMA FrontFacts ==
    ASSUME NEW s \in Seq(Cpusets), s # <<>>
    PROVE  /\ Front(s) \in Seq(Cpusets) /\ Len(Front(s)) = Len(s) - 1 /\ Last(s) \in Cpusets
           /\ \A i \in 1..(Len(s) - 1) : Front(s)[i] = s[i]
<1>1. Len(s) \in Nat /\ Len(s) # 0 /\ \A i \in 1..Len(s) : s[i] \in Cpusets
  BY LenProperties, EmptySeq
<1>. DEFINE n == Len(s) - 1
<1>2. /\ Front(s) \in Seq(Cpusets) /\ Len(Front(s)) = (IF 1 <= n THEN n - 1 + 1 ELSE 0)
      /\ \A i \in 1..(n - 1 + 1) : Front(s)[i] = s[1 + i - 1]
  <2>1. 1 \in Int /\ n \in Int /\ \A i \in 1..n : s[i] \in Cpusets
    BY <1>1
  <2>2. Front(s) = SubSeq(s, 1, n)
    BY DEF Front
  <2>. HIDE DEF n
  <2>. QED
    BY <2>1, <2>2, SubSeqProperties
<1>3. n \in Nat
  BY <1>1
<1>. HIDE DEF n
<1>4. Len(Front(s)) = n /\ \A i \in 1..n : Front(s)[i] = s[i]
  BY <1>2, <1>3
<1>5. Last(s) \in Cpusets
  BY <1>1 DEF Last
<1>. QED
  BY <1>2, <1>4, <1>5 DEF n

(* The steps in which a thread looks its task up. *)
LEMMA LookupBasic ==
    ASSUME BasicInv, NEW t \in Tids, bind_push(t) \/ bind_string(t) \/ bind_pop(t)
    PROVE  BasicInv'
<1>1. /\ pc[t] # "out" /\ task(GroupOf(t), t)
      /\ UNCHANGED <<m_tasks, team, last_team, cpubind, nthreads, nregions, abandoned>>
  BY DEF bind_push, bind_string, bind_pop
<1>2. pc \in [Tids -> Labels] /\ ThreadTypes /\ \A g \in Groups : CacheFits(g)
  BY DEF BasicInv, ThreadTypes
<1>3. \E label \in Labels \ {"out", "start"} : pc' = [pc EXCEPT ![t] = label]
  BY <1>2 DEF bind_push, bind_string, bind_pop, Goto, Labels
<1>4. GroupOf(t) \in Groups /\ t <= nthreads
  BY <1>1, GroupOfFacts
<1>5. /\ next_index' \in Nat /\ m_tid2index' \in [Groups -> Seq(Entry)]
      /\ myindex' \in [Tids -> Nat] /\ myindex'[t] \in Indices(GroupOf(t))
      /\ \A u \in Tids \ {t} : myindex'[u] = myindex[u]
      /\ \A h \in Groups : CacheFits(h)'
  BY <1>1, <1>2, <1>4, CachesKept
<1>6. /\ DOMAIN m_tasks' = Groups /\ \A g \in Groups : m_tasks'[g] \in [Indices(g) -> Seq(Cpusets)]
      /\ cpubind' \in [Tids -> Cpusets] /\ abandoned' \subseteq Groups
  BY <1>1, <1>2 DEF ThreadTypes
<1>. QED
  BY <1>1, <1>3, <1>5, <1>6, StepBasic

(* The steps in which it uses its task. *)
LEMMA UseBasic ==
    ASSUME BasicInv, NEW t \in Tids, PushReturns(t) \/ PopReturns(t) \/ Exit(t)
    PROVE  BasicInv'
<1>. DEFINE g == GroupOf(t)
            i == myindex[t]
<1>1. /\ pc[t] \in {"push", "pop", "run"}
      /\ UNCHANGED <<next_index, m_tid2index, myindex, team, last_team, nthreads, nregions>>
  BY DEF PushReturns, PopReturns, Exit
<1>2. ThreadTypes /\ myindex \in [Tids -> Nat] /\ cpubind \in [Tids -> Cpusets]
  BY DEF BasicInv, ThreadTypes
<1>3. g \in Groups /\ t \in Members(team[g]) /\ Place(t) \in Nat
  BY <1>1, GroupOfFacts
<1>4. i \in Indices(g)
  BY <1>1, <1>3 DEF BasicInv, Assigned
<1>5. m_tasks[g][i] \in Seq(Cpusets)
  BY <1>2, <1>3, <1>4 DEF ThreadTypes
<1>6. \E label \in Labels \ {"out", "start"} : pc' = [pc EXCEPT ![t] = label]
  BY DEF PushReturns, PopReturns, Exit, Goto, Labels
<1>. HIDE DEF g, i
<1>7. /\ DOMAIN m_tasks' = Groups /\ \A h \in Groups : m_tasks'[h] \in [Indices(h) -> Seq(Cpusets)]
      /\ cpubind' \in [Tids -> Cpusets] /\ abandoned' \subseteq Groups
  <2>1. CASE PushReturns(t)
    <3>1. Part(g, Place(t)) \in Cpusets
      BY <1>3 DEF Part, Cpusets
    <3>2. Append(m_tasks[g][i], Part(g, Place(t))) \in Seq(Cpusets)
      BY <1>5, <3>1
    <3>3. \/ UNCHANGED <<cpubind, m_tasks>>
          \/ /\ cpubind' = [cpubind EXCEPT ![t] = Part(g, Place(t))]
             /\ m_tasks' = [m_tasks EXCEPT ![g][i] = Append(m_tasks[g][i], Part(g, Place(t)))]
      BY <2>1 DEF PushReturns, g, i
    <3>4. abandoned' = abandoned
      BY <2>1 DEF PushReturns
    <3>5. CASE UNCHANGED <<cpubind, m_tasks>>
      BY <1>2, <3>4, <3>5 DEF ThreadTypes
    <3>6. CASE /\ cpubind' = [cpubind EXCEPT ![t] = Part(g, Place(t))]
               /\ m_tasks' = [m_tasks EXCEPT ![g][i] = Append(m_tasks[g][i], Part(g, Place(t)))]
      <4>1. /\ DOMAIN m_tasks' = Groups
            /\ \A h \in Groups : m_tasks'[h] \in [Indices(h) -> Seq(Cpusets)]
        BY <1>3, <1>4, <3>2, <3>6, StackFacts
      <4>. QED
        BY <1>2, <3>1, <3>4, <3>6, <4>1 DEF ThreadTypes
    <3>. QED
      BY <3>3, <3>5, <3>6
  <2>2. CASE PopReturns(t)
    <3>. DEFINE rest == IF m_tasks[g][i] = <<>> THEN <<>> ELSE Front(m_tasks[g][i])
    <3>1. rest \in Seq(Cpusets)
      BY <1>5, FrontFacts
    <3>2. /\ m_tasks' = [m_tasks EXCEPT ![g][i] = rest] /\ abandoned' \subseteq abandoned \cup {g}
          /\ \/ cpubind' = [cpubind EXCEPT ![t] = IF rest = <<>> THEN cpubind[t] ELSE Last(rest)]
             \/ cpubind' = cpubind
      BY <2>2 DEF PopReturns, g, i
    <3>. HIDE DEF rest
    <3>3. rest # <<>> => Last(rest) \in Cpusets
      BY <3>1, FrontFacts
    <3>4. /\ DOMAIN m_tasks' = Groups
          /\ \A h \in Groups : m_tasks'[h] \in [Indices(h) -> Seq(Cpusets)]
      BY <1>3, <1>4, <3>1, <3>2, StackFacts
    <3>. QED
      BY <1>2, <1>3, <3>2, <3>3, <3>4 DEF ThreadTypes
  <2>3. CASE Exit(t)
    BY <1>2, <1>3, <2>3 DEF Exit, ThreadTypes, g
  <2>. QED
    BY <2>1, <2>2, <2>3
<1>8. /\ next_index' \in Nat /\ m_tid2index' \in [Groups -> Seq(Entry)]
      /\ myindex' \in [Tids -> Nat] /\ myindex'[t] \in Indices(GroupOf(t))
      /\ \A u \in Tids \ {t} : myindex'[u] = myindex[u]
      /\ \A h \in Groups : CacheFits(h)'
  BY <1>1, <1>2, <1>4 DEF BasicInv, ThreadTypes, CacheFits, g, i
<1>. QED
  BY <1>1, <1>6, <1>7, <1>8, StepBasic

(* A region begins: its threads were in none. *)
Forks(g, w) ==
    /\ w \in Seq(Tids) /\ w # <<>> /\ TeamOK(w, g)' /\ Origin(g, w)
    /\ nthreads' \in Tids /\ nthreads <= nthreads'
    /\ team' \in [Groups -> Seq(Tids)]
    /\ team'[g] = w /\ \A h \in Groups \ {g} : team'[h] = team[h]
    /\ \A t \in Members(w) : pc[t] = "out" /\ pc'[t] = "start"
    /\ \A t \in Tids \ Members(w) : pc'[t] = pc[t]

LEMMA ForkFacts ==
    ASSUME BasicInv, NEW g \in Groups, Fork(g)
    PROVE  \E w : Forks(g, w)
<1>1. PICK n \in 1..NTasks[g] : \E w \in Workforces(g, n) :
          /\ \A i \in DOMAIN w : pc[w[i]] = "out"
          /\ team' = [team EXCEPT ![g] = w]
          /\ pc' = [t \in Tids |-> IF Contains(w, t) THEN "start" ELSE pc[t]]
          /\ nthreads' = nthreads + Cardinality({i \in DOMAIN w : w[i] > nthreads})
  BY DEF Fork
<1>2. PICK w \in Workforces(g, n) :
          /\ \A i \in DOMAIN w : pc[w[i]] = "out"
          /\ team' = [team EXCEPT ![g] = w]
          /\ pc' = [t \in Tids |-> IF Contains(w, t) THEN "start" ELSE pc[t]]
          /\ nthreads' = nthreads + Cardinality({i \in DOMAIN w : w[i] > nthreads})
  BY <1>1
<1>3. ThreadTypes /\ TeamOK(last_team[g], g)
  BY DEF BasicInv
<1>4. /\ w \in Seq(Tids) /\ Len(w) = n /\ TeamOK(w, g)' /\ Origin(g, w)
      /\ nthreads' \in Tids /\ nthreads <= nthreads'
  BY <1>2, <1>3, WorkforceFacts
<1>5. w # <<>>
  <2>1. n >= 1 /\ n \in Nat
    BY CapacityFacts
  <2>. QED
    BY <1>4, <2>1
<1>6. /\ team' \in [Groups -> Seq(Tids)]
      /\ team'[g] = w /\ \A h \in Groups \ {g} : team'[h] = team[h]
  BY <1>2, <1>3, <1>4 DEF ThreadTypes
<1>7. Members(w) \subseteq Tids /\ \A t : Contains(w, t) <=> t \in Members(w)
  BY <1>4, MemberFacts
<1>8. /\ \A t \in Members(w) : pc[t] = "out" /\ pc'[t] = "start"
      /\ \A t \in Tids \ Members(w) : pc'[t] = pc[t]
  <2>1. \A t \in Members(w) : pc[t] = "out"
    BY <1>2 DEF Members
  <2>. QED
    BY <1>2, <1>7, <2>1
<1>. QED
  BY <1>4, <1>5, <1>6, <1>8 DEF Forks

LEMMA ForkBasic == ASSUME BasicInv, NEW g \in Groups, Fork(g) PROVE BasicInv'
<1>1. PICK w : Forks(g, w)
  BY ForkFacts
<1>2. /\ UNCHANGED <<next_index, m_tasks, m_tid2index, myindex, last_team, cpubind, abandoned>>
      /\ team[g] = <<>> /\ nregions' = nregions + 1 /\ nregions < MaxRegions
      /\ DOMAIN pc' = Tids
  BY DEF Fork
<1>3. ThreadTypes
  BY DEF BasicInv
<1>4. Members(w) \subseteq Tids
  BY <1>1, MemberFacts DEF Forks
<1>5. pc' \in [Tids -> Labels]
  <2>1. \A t \in Tids : pc'[t] \in Labels
    BY <1>1, <1>3 DEF Forks, ThreadTypes, Labels
  <2>2. pc' = [t \in Tids |-> pc'[t]]
    BY DEF Fork
  <2>. QED
    BY <2>1, <2>2
<1>6. ThreadTypes'
  <2>1. nregions' \in 0..MaxRegions
    BY <1>2, <1>3, ThreadAssumption DEF ThreadTypes
  <2>. QED
    BY <1>1, <1>2, <1>3, <1>5, <2>1 DEF ThreadTypes, Forks
<1>7. InOneTeam'
  <2>1. \A t \in Tids : pc[t] # "out" <=> \E h \in Groups : t \in Members(team[h])
    BY DEF BasicInv, InOneTeam
  <2>2. /\ \A h \in Groups \ {g} : team'[h] = team[h]
        /\ team'[g] = w /\ Members(team[g]) = {}
    BY <1>1, <1>2 DEF Forks, Members
  <2>3. \A t \in Members(w) : pc[t] = "out" /\ pc'[t] = "start"
    BY <1>1 DEF Forks
  <2>4. \A t \in Tids \ Members(w) : pc'[t] = pc[t]
    BY <1>1 DEF Forks
  <2>5. ASSUME NEW t \in Tids PROVE pc'[t] # "out" <=> \E h \in Groups : t \in Members(team'[h])
    <3>1. CASE t \in Members(w)
      BY <2>2, <2>3, <3>1
    <3>2. CASE t \notin Members(w)
      BY <2>1, <2>2, <2>4, <3>2
    <3>. QED
      BY <3>1, <3>2
  <2>6. ASSUME NEW h \in Groups, NEW k \in Groups, NEW t \in Tids,
               t \in Members(team'[h]), t \in Members(team'[k])
        PROVE  h = k
    <3>1. CASE t \in Members(w)
      BY <2>1, <2>2, <2>3, <2>6, <3>1
    <3>2. CASE t \notin Members(w)
      BY <2>2, <2>6, <3>2 DEF BasicInv, InOneTeam
    <3>. QED
      BY <3>1, <3>2
  <2>. QED
    BY <2>5, <2>6 DEF InOneTeam
<1>8. nthreads \in Nat /\ nthreads' \in Nat /\ nthreads <= nthreads'
  BY <1>1, <1>3 DEF Forks, ThreadTypes, Tids
<1>9. ASSUME NEW s \in Seq(Tids), NEW h \in Groups, TeamOK(s, h)
      PROVE  \A i \in DOMAIN s : s[i] <= nthreads'
  <2>1. \A i \in DOMAIN s : s[i] \in Tids
    OBVIOUS
  <2>2. \A i \in DOMAIN s : s[i] \in Nat /\ s[i] <= nthreads
    BY <1>9, <2>1 DEF TeamOK, Tids
  <2>. QED
    BY <1>8, <2>2
<1>10. ASSUME NEW h \in Groups PROVE CacheFits(h)'
  <2>1. \A i \in DOMAIN m_tid2index[h] : m_tid2index[h][i] \in Entry
    BY <1>3 DEF ThreadTypes
  <2>2. ASSUME NEW i \in DOMAIN m_tid2index[h] PROVE m_tid2index[h][i].tid <= nthreads'
    <3>1. m_tid2index[h][i].tid \in Nat /\ m_tid2index[h][i].tid <= nthreads
      BY <2>1 DEF BasicInv, CacheFits, Entry, Tids
    <3>. QED
      BY <1>8, <3>1
  <2>. QED
    BY <1>2, <2>2 DEF BasicInv, CacheFits
<1>11. ASSUME NEW h \in Groups PROVE Assigned(h)' /\ TeamOK(team[h], h)' /\ TeamOK(last_team[h], h)'
  <2>1. TeamOK(last_team[h], h)'
    <3>1. last_team[h] \in Seq(Tids) /\ TeamOK(last_team[h], h)
      BY <1>3 DEF BasicInv, ThreadTypes
    <3>2. \A i \in DOMAIN last_team[h] : last_team[h][i] <= nthreads'
      BY <1>9, <3>1
    <3>. QED
      BY <1>2, <3>1, <3>2 DEF TeamOK
  <2>2. CASE h = g
    <3>1. team'[h] = w /\ TeamOK(w, g)'
      BY <1>1, <2>2 DEF Forks
    <3>2. Assigned(h)'
      BY <1>1, <2>2, <3>1 DEF Assigned, Forks
    <3>. QED
      BY <2>1, <2>2, <3>1, <3>2 DEF TeamOK
  <2>3. CASE h # g
    <3>1. team'[h] = team[h] /\ team[h] \in Seq(Tids) /\ TeamOK(team[h], h)
      BY <1>1, <1>3, <2>3 DEF Forks, BasicInv, ThreadTypes
    <3>2. \A i \in DOMAIN team[h] : team[h][i] <= nthreads'
      BY <1>9, <3>1
    <3>3. \A t \in Members(team[h]) : pc'[t] = pc[t]
      <4>1. Members(team[h]) \subseteq Tids
        BY <3>1, MemberFacts
      <4>2. \A t \in Members(team[h]) : pc[t] # "out"
        BY <4>1 DEF BasicInv, InOneTeam
      <4>. QED
        BY <1>1, <4>1, <4>2 DEF Forks
    <3>. QED
      BY <1>2, <2>1, <3>1, <3>2, <3>3 DEF BasicInv, Assigned, TeamOK
  <2>. QED
    BY <2>2, <2>3
<1>. QED
  BY <1>6, <1>7, <1>10, <1>11 DEF BasicInv

LEMMA JoinBasic == ASSUME BasicInv, NEW g \in Groups, Join(g) PROVE BasicInv'
<1>1. /\ UNCHANGED <<next_index, m_tasks, m_tid2index, myindex, cpubind, nthreads, nregions, abandoned>>
      /\ team' = [team EXCEPT ![g] = <<>>]
      /\ last_team' = [last_team EXCEPT ![g] = IF g \in abandoned THEN <<>> ELSE team[g]]
      /\ pc' = [t \in Tids |-> IF Contains(team[g], t) THEN "out" ELSE pc[t]]
  BY DEF Join
<1>2. ThreadTypes
  BY DEF BasicInv
<1>3. team \in [Groups -> Seq(Tids)] /\ last_team \in [Groups -> Seq(Tids)] /\ <<>> \in Seq(Tids)
  BY <1>2 DEF ThreadTypes
<1>4. Members(team[g]) \subseteq Tids /\ \A t : Contains(team[g], t) <=> t \in Members(team[g])
  BY <1>3, MemberFacts
<1>5. /\ team' \in [Groups -> Seq(Tids)] /\ last_team' \in [Groups -> Seq(Tids)]
      /\ team'[g] = <<>> /\ Members(team'[g]) = {}
      /\ \A h \in Groups \ {g} : team'[h] = team[h] /\ last_team'[h] = last_team[h]
      /\ last_team'[g] \in {<<>>, team[g]}
  BY <1>1, <1>3 DEF Members
<1>6. /\ pc' \in [Tids -> Labels] /\ \A t \in Members(team[g]) : pc'[t] = "out"
      /\ \A t \in Tids \ Members(team[g]) : pc'[t] = pc[t]
  BY <1>1, <1>2, <1>4 DEF ThreadTypes, Labels
<1>7. ThreadTypes'
  BY <1>1, <1>2, <1>5, <1>6 DEF ThreadTypes
<1>8. InOneTeam'
  <2>1. ASSUME NEW t \in Tids PROVE pc'[t] # "out" <=> \E h \in Groups : t \in Members(team'[h])
    BY <1>5, <1>6 DEF BasicInv, InOneTeam
  <2>2. ASSUME NEW h \in Groups, NEW k \in Groups, NEW t \in Tids,
               t \in Members(team'[h]), t \in Members(team'[k])
        PROVE  h = k
    BY <1>5, <2>2 DEF BasicInv, InOneTeam
  <2>. QED
    BY <2>1, <2>2 DEF InOneTeam
<1>9. ASSUME NEW h \in Groups
      PROVE  CacheFits(h)' /\ Assigned(h)' /\ TeamOK(team[h], h)' /\ TeamOK(last_team[h], h)'
  <2>1. CacheFits(h)'
    BY <1>1 DEF BasicInv, CacheFits
  <2>2. TeamOK(<<>>, h)'
    <3>1. NTasks[h] \in Nat /\ Len(<<>>) = 0 /\ DOMAIN <<>> = {}
      BY CapacityFacts
    <3>. QED
      BY <3>1 DEF TeamOK
  <2>3. TeamOK(team[h], h) /\ TeamOK(last_team[h], h)
    BY DEF BasicInv
  <2>4. TeamOK(team[h], h)' /\ TeamOK(last_team[h], h)'
    <3>1. CASE h # g
      BY <1>1, <1>5, <2>3, <3>1 DEF TeamOK
    <3>2. CASE h = g
      BY <1>1, <1>5, <2>2, <2>3, <3>2 DEF TeamOK
    <3>. QED
      BY <3>1, <3>2
  <2>5. Assigned(h)'
    <3>1. CASE h = g
      BY <1>5, <3>1 DEF Assigned
    <3>2. CASE h # g
      <4>1. Members(team[h]) \subseteq Tids
        BY <1>3, MemberFacts
      <4>2. \A t \in Members(team[h]) : pc'[t] = pc[t]
        BY <1>6, <3>2, <4>1 DEF BasicInv, InOneTeam
      <4>. QED
        BY <1>1, <1>5, <3>2, <4>2 DEF BasicInv, Assigned
    <3>. QED
      BY <3>1, <3>2
  <2>. QED
    BY <2>1, <2>4, <2>5
<1>. QED
  BY <1>7, <1>8, <1>9 DEF BasicInv

(* What the calls of the main thread leave to the other threads: nothing   *)
(* changes for them.                                                       *)
LEMMA ThreadsOrLife ==
    ASSUME [Next]_vars
    PROVE  \/ \E g \in Groups : Fork(g) \/ Join(g)
           \/ \E t \in Tids : ThreadStep(t)
           \/ UNCHANGED thread_vars
<1>1. CASE RunThreads
  BY <1>1 DEF RunThreads
<1>2. CASE UNCHANGED vars
  BY <1>2 DEF vars
<1>3. CASE \E g \in PlainGroups : qv_mpi_scope(g) \/ qv_process_scope(g) \/ collective(g) \/ qv_free(g)
  BY <1>3 DEF qv_mpi_scope, qv_process_scope, collective, qv_free, release
<1>4. CASE \E p, h \in PlainGroups : qv_split(p, h) \/ qv_create(p, h)
  BY <1>4 DEF qv_split, qv_create, child_group
<1>5. CASE \E p \in PlainGroups, g \in Groups : qv_thread_split(p, g)
  BY <1>5 DEF qv_thread_split
<1>6. CASE \E g \in Groups : qv_thread_free(g)
  BY <1>6 DEF qv_thread_free, release
<1>. QED
  BY <1>1, <1>2, <1>3, <1>4, <1>5, <1>6 DEF Next

(* Threads that run while scopes are made and freed run as in ThreadGroup: *)
(* what holds for every thread group holds for the ones of a process that  *)
(* does all the rest.                                                      *)
THEOREM ThreadsRefine == Spec => ThreadSpec
<1>1. Init => ThreadInit
  BY DEF Init
<1>2. [Next]_vars => [ThreadNext]_thread_vars
  BY ThreadsOrLife DEF ThreadNext
<1>. QED
  BY <1>1, <1>2, PTL DEF Spec, ThreadSpec

LEMMA BasicFrame == ASSUME BasicInv, UNCHANGED thread_vars PROVE BasicInv'
BY DEF BasicInv, thread_vars, ThreadTypes, InOneTeam, CacheFits, Assigned, TeamOK

LEMMA BasicNext == ASSUME BasicInv, [Next]_vars PROVE BasicInv'
<1>1. ASSUME NEW t \in Tids, ThreadStep(t) PROVE BasicInv'
  BY <1>1, LookupBasic, UseBasic DEF ThreadStep
<1>. QED
  BY <1>1, ThreadsOrLife, ForkBasic, JoinBasic, BasicFrame

LEMMA BasicInvariance == Spec => []BasicInv
BY ThreadInitOK, BasicNext, PTL DEF Spec

(* Every variable keeps its type.  The part to argue for: a cache never    *)
(* has more entries than eight (CacheFactor) per task and none twice, a    *)
(* team is never larger than its group, and stacks hold cpusets, also      *)
(* after pops of threads whose push was refused.                           *)
THEOREM TypeCorrect == Spec => []TypeOK
<1>1. ASSUME IInv, BasicInv PROVE TypeOK
  <2>1. ThreadTypeOK
    BY <1>1 DEF BasicInv, ThreadTypes, CacheFits, CacheOK, TeamOK, ThreadTypeOK, Labels, Cpusets
  <2>. QED
    BY <1>1, <2>1 DEF TypeOK, IInv, LifeInv, LifeTypeOK, GroupRecord, ContextRecord
<1>. QED
  BY <1>1, Invariance, BasicInvariance, PTL

-----------------------------------------------------------------------------
(* What holds if regions do not overlap and teams are all new or all kept. *)

OneRegion == \A g, h \in Groups : team[g] # <<>> /\ team[h] # <<>> => g = h

(* The threads of a region that have looked their task up.  Their entries  *)
(* are the first ones of the cache, and differ in their index.             *)
Called(g) == {t \in Members(team[g]) : pc[t] # "start"}
Recent(g) ==
    \A t \in Called(g) : \E i \in DOMAIN m_tid2index[g] :
        /\ i <= Cardinality(Called(g))
        /\ m_tid2index[g][i] = [tid |-> t, index |-> myindex[t]]
Separate(g) == \A t, u \in Called(g) : t # u => myindex[t] # myindex[u]

InCache(g, t) == \E i \in DOMAIN m_tid2index[g] : m_tid2index[g][i].tid = t

(* The threads of S are in the cache, with different indices. *)
Known(g, S) ==
    /\ \A t \in S : InCache(g, t)
    /\ \A i, j \in DOMAIN m_tid2index[g] :
          /\ m_tid2index[g][i].tid \in S /\ m_tid2index[g][j].tid \in S
          /\ m_tid2index[g][i].index = m_tid2index[g][j].index
          => i = j

(* The threads of a new team get their indices from the last draws of the  *)
(* counter, as many as threads that have called.                           *)
Drawn(g) ==
    /\ \A t \in Members(team[g]) \ Called(g) : ~InCache(g, t)
    /\ \A t \in Called(g) : \E v \in Nat :
          v < next_index /\ next_index <= v + Cardinality(Called(g)) /\ myindex[t] = v % NTasks[g]

LookupInv(g) ==
    /\ Recent(g) /\ Separate(g)
    /\ team[g] # <<>> => Known(g, Members(team[g])) \/ Drawn(g)
    /\ team[g] = <<>> => Known(g, Members(last_team[g]))

(* Draws that are fewer than n apart have different remainders. *)
LEMMA DrawsApart ==
    ASSUME NEW n \in Nat \ {0}, NEW a \in Nat, NEW b \in Nat, a < b, b < a + n
    PROVE  a % n # b % n
<1>. SUFFICES ASSUME a % n = b % n PROVE FALSE
  OBVIOUS
<1>. DEFINE p == a \div n
            q == b \div n
            r == a % n
<1>1. a = n * p + r /\ b = n * q + r /\ p \in Nat /\ q \in Nat /\ r \in 0..(n - 1)
  OBVIOUS
<1>. HIDE DEF p, q, r
<1>2. CASE q <= p
  <2>1. PICK j \in Nat : p = q + j
    <3>1. p - q \in Nat /\ p = q + (p - q)
      BY <1>1, <1>2
    <3>. QED
      BY <3>1
  <2>2. n * p = n * q + n * j /\ n * j \in Nat /\ n * q \in Nat
    BY <1>1, <2>1
  <2>. QED
    BY <1>1, <2>2
<1>3. CASE ~(q <= p)
  <2>1. PICK j \in Nat : q = p + 1 + j
    <3>1. q - p - 1 \in Nat /\ q = p + 1 + (q - p - 1)
      BY <1>1, <1>3
    <3>. QED
      BY <3>1
  <2>2. n * q = n * p + n + n * j /\ n * j \in Nat /\ n * p \in Nat
    BY <1>1, <2>1
  <2>. QED
    BY <1>1, <2>2
<1>. QED
  BY <1>2, <1>3

(* There are never more threads in a region than tasks. *)
LEMMA CalledFacts ==
    ASSUME BasicInv, NEW g \in Groups
    PROVE  /\ IsFiniteSet(Called(g)) /\ Cardinality(Called(g)) \in Nat
           /\ \A t \in Called(g) : Cardinality(Called(g)) >= 1
           /\ \A t \in Members(team[g]) \ Called(g) :
                 /\ Cardinality(Called(g) \cup {t}) = Cardinality(Called(g)) + 1
                 /\ Cardinality(Called(g)) < NTasks[g]
<1>. DEFINE s == team[g]
            T == Members(s)
            C == Called(g)
<1>1. s \in Seq(Tids) /\ Len(s) <= NTasks[g] /\ NTasks[g] \in Nat
  BY CapacityFacts DEF BasicInv, ThreadTypes, TeamOK
<1>2. DOMAIN s = 1..Len(s) /\ Len(s) \in Nat
  BY <1>1, MemberFacts
<1>. HIDE DEF s
<1>3. IsFiniteSet(1..Len(s)) /\ Cardinality(1..Len(s)) = Len(s)
  <2>1. 1 \in Int /\ Len(s) \in Int
    BY <1>2
  <2>2. IsFiniteSet(1..Len(s))
        /\ Cardinality(1..Len(s)) = (IF 1 > Len(s) THEN 0 ELSE Len(s) - 1 + 1)
    BY <2>1, FS_Interval
  <2>. QED
    BY <1>2, <2>2
<1>4. IsFiniteSet(T) /\ Cardinality(T) <= Len(s)
  <2>1. \A x \in 1..Len(s) : s[x] \in T
    BY <1>2 DEF Members
  <2>2. \A y \in T : \E x \in 1..Len(s) : s[x] = y
    BY <1>2 DEF Members
  <2>. DEFINE f == [x \in 1..Len(s) |-> s[x]]
  <2>3. f \in Surjection(1..Len(s), T)
    BY <2>1, <2>2 DEF Surjection
  <2>. HIDE DEF f
  <2>. QED
    BY <1>3, <2>3, FS_Surjection
<1>. DEFINE k == Cardinality(C)
<1>5. C \subseteq T
  BY DEF Called, s
<1>. HIDE DEF T, C
<1>6. IsFiniteSet(C) /\ k \in Nat
  BY <1>4, <1>5, FS_Subset, FS_CardinalityType
<1>7. ASSUME NEW t \in C PROVE k >= 1
  <2>1. C # {}
    BY <1>7
  <2>2. k # 0
    BY <1>6, <2>1, FS_EmptySet
  <2>. HIDE DEF k
  <2>. QED
    BY <1>6, <2>2
<1>8. ASSUME NEW t \in T \ C PROVE Cardinality(C \cup {t}) = k + 1 /\ k < NTasks[g]
  <2>1. Cardinality(C \cup {t}) = k + 1
    BY <1>6, <1>8, FS_AddElement
  <2>2. Cardinality(C \cup {t}) <= Cardinality(T)
    BY <1>4, <1>5, <1>8, FS_Subset
  <2>3. Cardinality(T) \in Nat
    BY <1>4, FS_CardinalityType
  <2>. HIDE DEF k
  <2>. QED
    BY <1>1, <1>2, <1>4, <1>6, <2>1, <2>2, <2>3
<1>. QED
  BY <1>6, <1>7, <1>8 DEF T, C, s

(* A thread that has its task gets it again. *)
LEMMA SameTask ==
    ASSUME BasicInv, NEW g \in Groups, Recent(g), NEW t \in Called(g),
           NEW index, Hit(g, t, index) \/ Miss(g, t, index)
    PROVE  Hit(g, t, index) /\ index = myindex[t]
<1>1. PICK i \in DOMAIN m_tid2index[g] : m_tid2index[g][i] = [tid |-> t, index |-> myindex[t]]
  BY DEF Recent
<1>2. m_tid2index[g][i].tid = t /\ m_tid2index[g][i].index = myindex[t]
  BY <1>1
<1>3. Hit(g, t, index)
  BY <1>2 DEF Miss
<1>4. PICK p \in DOMAIN m_tid2index[g] : m_tid2index[g][p] = [tid |-> t, index |-> index]
  BY <1>3 DEF Hit
<1>5. m_tid2index[g][p].tid = t /\ m_tid2index[g][p].index = index
  BY <1>4
<1>6. p = i
  BY <1>2, <1>5 DEF BasicInv, CacheFits, CacheOK
<1>. QED
  BY <1>2, <1>3, <1>5, <1>6

(* A thread of the region looks its task up. *)
LEMMA LookupStep ==
    ASSUME BasicInv, NEW g \in Groups, LookupInv(g), NEW t \in Members(team[g]),
           NEW index \in Indices(g), Looks(g, t, index), team' = team,
           pc'[t] # "start", \A u \in Members(team[g]) \ {t} : pc'[u] = pc[u]
    PROVE  LookupInv(g)'
<1>. DEFINE old == m_tid2index[g]
            new == m_tid2index'[g]
            T == Members(team[g])
            C == Called(g)
            k == Cardinality(C)
            entry == [tid |-> t, index |-> index]
<1>1. /\ T \subseteq Tids /\ team[g] # <<>> /\ C \subseteq T
      /\ DOMAIN old = 1..Len(old) /\ Len(old) \in Nat /\ DOMAIN new \subseteq Nat
      /\ old \in Seq(Entry) /\ myindex \in [Tids -> Nat] /\ next_index \in Nat
  <2>1. team[g] \in Seq(Tids) /\ old \in Seq(Entry)
    BY DEF BasicInv, ThreadTypes
  <2>2. new \in Seq(Entry)
    BY DEF Looks, PutFits
  <2>. QED
    BY <2>1, <2>2, MemberFacts DEF BasicInv, ThreadTypes, Called
<1>2. /\ CacheOK(new, Capacity(g)) /\ 1 \in DOMAIN new /\ new[1] = entry
      /\ \A i \in DOMAIN new : i # 1 => \E j \in DOMAIN old : new[i] = old[j] /\ old[j].tid # t
      /\ \A p \in DOMAIN old : old[p].tid = t =>
            \A j \in DOMAIN old : j # p =>
                \E i \in DOMAIN new : new[i] = old[j] /\ i = IF j < p THEN j + 1 ELSE j
      /\ (\A p \in DOMAIN old : old[p].tid # t) =>
            \A j \in DOMAIN old : j < Capacity(g) =>
                \E i \in DOMAIN new : new[i] = old[j] /\ i = j + 1
  BY DEF Looks, PutFits
<1>3. myindex'[t] = index /\ \A u \in Tids \ {t} : myindex'[u] = myindex[u]
  BY <1>1 DEF Looks
<1>4. Called(g)' = C \cup {t}
  BY DEF Called
<1>5. /\ IsFiniteSet(C) /\ k \in Nat /\ (t \in C => k >= 1)
      /\ t \notin C => Cardinality(C \cup {t}) = k + 1 /\ k < NTasks[g]
  BY CalledFacts
<1>6. NTasks[g] \in Nat \ {0} /\ Capacity(g) \in Nat /\ NTasks[g] <= Capacity(g)
  BY CapacityFacts
<1>7. \A i, j \in DOMAIN old : old[i].tid = old[j].tid => i = j
  BY DEF BasicInv, CacheFits, CacheOK
<1>8. entry.tid = t /\ entry.index = index
  OBVIOUS
<1>9. Recent(g) /\ Separate(g) /\ (Known(g, T) \/ Drawn(g))
  BY <1>1 DEF LookupInv
<1>. DEFINE l == Cardinality(C \cup {t})
<1>10. l \in Nat /\ l >= 1 /\ k <= l /\ (t \in C => l = k) /\ (t \notin C => l = k + 1)
  <2>1. CASE t \in C
    <3>1. C \cup {t} = C
      BY <2>1
    <3>2. l = k
      BY <3>1
    <3>. HIDE DEF l, k
    <3>. QED
      BY <1>5, <2>1, <3>2
  <2>2. CASE t \notin C
    BY <1>5, <2>2
  <2>. QED
    BY <2>1, <2>2
<1>. HIDE DEF old, new, T, C, k, l, entry
<1>11. t \in C => Hit(g, t, index) /\ index = myindex[t]
  BY <1>9, SameTask DEF Looks, C
<1>12. Known(g, T) => Hit(g, t, index)
  <2>. SUFFICES ASSUME Known(g, T) PROVE Hit(g, t, index)
    OBVIOUS
  <2>1. \E p \in DOMAIN old : old[p].tid = t
    BY DEF Known, InCache, T, old
  <2>. QED
    BY <2>1 DEF Looks, Miss, old
<1>13. ASSUME Hit(g, t, index)
       PROVE  \E p \in DOMAIN old : old[p] = entry /\ old[p].tid = t /\ old[p].index = index
  BY <1>8, <1>13 DEF Hit, old, entry
<1>14. Recent(g)'
  <2>. SUFFICES ASSUME NEW u \in C \cup {t}
                PROVE  \E i \in DOMAIN new : i <= l /\ new[i] = [tid |-> u, index |-> myindex'[u]]
    BY <1>4 DEF Recent, new, l
  <2>1. CASE u = t
    BY <1>2, <1>3, <1>10, <2>1 DEF entry
  <2>2. CASE u # t
    <3>1. PICK j \in DOMAIN old : j <= k /\ old[j] = [tid |-> u, index |-> myindex[u]]
      BY <1>9, <2>2 DEF Recent, old, C, k
    <3>2. old[j].tid = u /\ myindex'[u] = myindex[u] /\ j \in Nat
      BY <1>1, <1>3, <2>2, <3>1
    <3>3. CASE Hit(g, t, index)
      <4>1. PICK p \in DOMAIN old : old[p] = entry /\ old[p].tid = t
        BY <1>13, <3>3
      <4>2. p # j /\ p \in Nat
        BY <1>1, <2>2, <3>2, <4>1
      <4>3. PICK i \in DOMAIN new : new[i] = old[j] /\ i = IF j < p THEN j + 1 ELSE j
        BY <1>2, <4>1, <4>2
      <4>4. i <= l
        <5>1. CASE t \in C
          <6>1. PICK q \in DOMAIN old : q <= k /\ old[q] = [tid |-> t, index |-> myindex[t]]
            BY <1>9, <5>1 DEF Recent, old, C, k
          <6>2. q = p
            <7>1. old[q].tid = t
              BY <6>1
            <7>. QED
              BY <1>7, <4>1, <7>1
          <6>. QED
            BY <1>5, <1>10, <3>1, <3>2, <4>2, <4>3, <5>1, <6>1, <6>2
        <5>2. CASE t \notin C
          BY <1>5, <1>10, <3>1, <3>2, <4>3, <5>2
        <5>. QED
          BY <5>1, <5>2
      <4>. QED
        BY <3>1, <3>2, <4>3, <4>4
    <3>4. CASE Miss(g, t, index)
      <4>1. t \notin C /\ \A p \in DOMAIN old : old[p].tid # t
        <5>1. \A p \in DOMAIN old : old[p].tid # t
          BY <3>4 DEF Miss, old
        <5>2. ~Hit(g, t, index)
          BY <1>13, <5>1
        <5>. QED
          BY <1>11, <5>1, <5>2
      <4>2. j < Capacity(g)
        BY <1>5, <1>6, <3>1, <3>2, <4>1
      <4>3. PICK i \in DOMAIN new : new[i] = old[j] /\ i = j + 1
        BY <1>2, <4>1, <4>2
      <4>. QED
        BY <1>5, <1>10, <3>1, <3>2, <4>1, <4>3
    <3>. QED
      BY <3>3, <3>4 DEF Looks
  <2>. QED
    BY <2>1, <2>2
<1>15. ASSUME NEW u \in C, u # t PROVE myindex[u] # index
  <2>1. CASE t \in C
    BY <1>9, <1>11, <1>15, <2>1 DEF Separate, C
  <2>2. CASE t \notin C /\ Known(g, T)
    <3>1. PICK p \in DOMAIN old : old[p].tid = t /\ old[p].index = index
      BY <1>12, <1>13, <2>2
    <3>2. PICK j \in DOMAIN old : old[j] = [tid |-> u, index |-> myindex[u]]
      BY <1>9, <1>15 DEF Recent, old, C
    <3>3. old[j].tid = u /\ old[j].index = myindex[u]
      BY <3>2
    <3>4. u \in T /\ t \in T
      BY <1>1, <1>15 DEF T
    <3>. QED
      BY <1>15, <2>2, <3>1, <3>3, <3>4 DEF Known, old
  <2>3. CASE t \notin C /\ Drawn(g)
    <3>1. ~InCache(g, t)
      BY <2>3 DEF Drawn, C
    <3>2. Miss(g, t, index)
      <4>1. \A p \in DOMAIN old : old[p].tid # t
        BY <3>1 DEF InCache, old
      <4>. QED
        BY <1>13, <4>1 DEF Looks
    <3>3. PICK v \in Nat : v < next_index /\ next_index <= v + k /\ myindex[u] = v % NTasks[g]
      BY <1>15, <2>3 DEF Drawn, C, k
    <3>4. next_index < v + NTasks[g]
      BY <1>1, <1>5, <1>6, <2>3, <3>3
    <3>5. v % NTasks[g] # next_index % NTasks[g]
      BY <1>1, <1>6, <3>3, <3>4, DrawsApart
    <3>. QED
      BY <3>2, <3>3, <3>5 DEF Miss
  <2>. QED
    BY <1>9, <2>1, <2>2, <2>3
<1>16. Separate(g)'
  <2>. SUFFICES ASSUME NEW u \in C \cup {t}, NEW x \in C \cup {t}, u # x
                PROVE  myindex'[u] # myindex'[x]
    BY <1>4 DEF Separate
  <2>1. u \in Tids /\ x \in Tids
    BY <1>1 DEF T
  <2>2. CASE u # t /\ x # t
    BY <1>3, <1>9, <2>1, <2>2 DEF Separate, C
  <2>3. CASE u = t \/ x = t
    BY <1>3, <1>15, <2>1, <2>3
  <2>. QED
    BY <2>2, <2>3
<1>17. ASSUME Known(g, T) PROVE Known(g, T)'
  <2>1. PICK p \in DOMAIN old : old[p] = entry /\ old[p].tid = t /\ old[p].index = index
    BY <1>12, <1>13, <1>17
  <2>2. ASSUME NEW u \in T PROVE \E i \in DOMAIN new : new[i].tid = u
    <3>1. CASE u = t
      BY <1>2, <1>8, <3>1
    <3>2. CASE u # t
      <4>1. PICK j \in DOMAIN old : old[j].tid = u
        BY <1>17 DEF Known, InCache, old
      <4>2. j # p
        BY <2>1, <3>2, <4>1
      <4>3. \E i \in DOMAIN new : new[i] = old[j]
        BY <1>2, <2>1, <4>2
      <4>. QED
        BY <4>1, <4>3
    <3>. QED
      BY <3>1, <3>2
  <2>3. ASSUME NEW i \in DOMAIN new PROVE \E j \in DOMAIN old : new[i] = old[j]
    BY <1>2, <2>1
  <2>4. ASSUME NEW i \in DOMAIN new, NEW j \in DOMAIN new, new[i].tid \in T, new[j].tid \in T,
               new[i].index = new[j].index
        PROVE  i = j
    <3>1. PICK a \in DOMAIN old : new[i] = old[a]
      BY <2>3
    <3>2. PICK b \in DOMAIN old : new[j] = old[b]
      BY <2>3
    <3>3. a = b
      BY <1>17, <2>4, <3>1, <3>2 DEF Known, old
    <3>4. new[i].tid = new[j].tid
      BY <3>1, <3>2, <3>3
    <3>. QED
      BY <1>2, <3>4 DEF CacheOK
  <2>5. T' = T
    BY DEF T
  <2>. QED
    BY <2>2, <2>4, <2>5 DEF Known, InCache, new
<1>18. ASSUME Drawn(g) PROVE Drawn(g)'
  <2>1. ASSUME NEW u \in T \ (C \cup {t}) PROVE \A i \in DOMAIN new : new[i].tid # u
    <3>1. \A j \in DOMAIN old : old[j].tid # u
      BY <1>18, <2>1 DEF Drawn, InCache, T, C, old
    <3>. QED
      BY <1>2, <1>8, <2>1, <3>1
  <2>2. ASSUME NEW u \in C \cup {t}
        PROVE  \E v \in Nat : v < next_index' /\ next_index' <= v + l /\ myindex'[u] = v % NTasks[g]
    <3>1. CASE t \in C
      <4>1. PICK v \in Nat : v < next_index /\ next_index <= v + k /\ myindex[u] = v % NTasks[g]
        BY <1>18, <2>2, <3>1 DEF Drawn, C, k
      <4>2. next_index' = next_index
        BY <1>11, <3>1 DEF Hit
      <4>3. myindex'[u] = myindex[u]
        BY <1>1, <1>3, <1>11, <2>2, <3>1 DEF T
      <4>. QED
        BY <1>10, <3>1, <4>1, <4>2, <4>3
    <3>2. CASE t \notin C
      <4>1. Miss(g, t, index)
        <5>1. ~InCache(g, t)
          BY <1>18, <3>2 DEF Drawn, C
        <5>2. \A p \in DOMAIN old : old[p].tid # t
          BY <5>1 DEF InCache, old
        <5>. QED
          BY <1>13, <5>2 DEF Looks
      <4>2. next_index' = next_index + 1 /\ index = next_index % NTasks[g] /\ l = k + 1
        BY <1>10, <3>2, <4>1 DEF Miss
      <4>3. CASE u = t
        <5>1. next_index < next_index' /\ next_index' <= next_index + l
          BY <1>1, <1>5, <4>2
        <5>. QED
          BY <1>1, <1>3, <4>2, <4>3, <5>1
      <4>4. CASE u # t
        <5>1. PICK v \in Nat : v < next_index /\ next_index <= v + k /\ myindex[u] = v % NTasks[g]
          BY <1>18, <2>2, <4>4 DEF Drawn, C, k
        <5>2. v < next_index' /\ next_index' <= v + l
          BY <1>1, <1>5, <4>2, <5>1
        <5>3. myindex'[u] = myindex[u]
          BY <1>1, <1>3, <2>2, <4>4 DEF T
        <5>. QED
          BY <5>1, <5>2, <5>3
      <4>. QED
        BY <4>3, <4>4
    <3>. QED
      BY <3>1, <3>2
  <2>. QED
    BY <1>4, <2>1, <2>2 DEF Drawn, InCache, T, new, l
<1>. QED
  BY <1>1, <1>9, <1>14, <1>16, <1>17, <1>18 DEF LookupInv, T

(* No thread works for two groups. *)
Own(g) == Members(team[g]) \cup Members(last_team[g])
Apart == \A g, h \in Groups : g # h => Own(g) \cap Own(h) = {}

(* The bindings: as BindingsNest says, and for the threads that have not   *)
(* run or will run again.                                                  *)
Running == {"run", "pop"}
Bound(g) ==
    /\ \A t \in Members(team[g]) :
          /\ pc[t] \in Running =>
                /\ cpubind[t] = Part(g, Place(t))
                /\ m_tasks[g][myindex[t]] # <<>> /\ cpubind[t] = Last(m_tasks[g][myindex[t]])
          /\ pc[t] \in {"start", "push"} \/ (pc[t] = "done" /\ g \notin abandoned) =>
                cpubind[t] = Parent
    /\ team[g] = <<>> => \A t \in Members(last_team[g]) : cpubind[t] = Parent

(* A stack has at most the scope of the thread that runs with it. *)
Clean(g) ==
    g \notin abandoned => \A i \in Indices(g) :
        \/ m_tasks[g][i] = <<Parent>>
        \/ \E t \in Members(team[g]) :
              /\ pc[t] \in Running /\ myindex[t] = i
              /\ m_tasks[g][i] = <<Parent, Part(g, Place(t))>>

RegionInv(g) == LookupInv(g) /\ Bound(g) /\ Clean(g)
UnbornInv == \A t \in Tids : t > nthreads => cpubind[t] = Parent

ThreadInv == OneRegion /\ Apart /\ UnbornInv /\ \A g \in Groups : RegionInv(g)

LEMMA ThreadInvInit == Init => ThreadInv
<1>. SUFFICES ASSUME Init PROVE ThreadInv
  OBVIOUS
<1>1. /\ m_tasks = [g \in Groups |-> [i \in Indices(g) |-> <<Parent>>]]
      /\ \A g \in Groups : team[g] = <<>> /\ last_team[g] = <<>>
      /\ cpubind = [t \in Tids |-> Parent]
  BY DEF Init, ThreadInit
<1>2. Members(<<>>) = {}
  BY DEF Members
<1>3. OneRegion /\ Apart /\ UnbornInv
  BY <1>1, <1>2 DEF OneRegion, Apart, Own, UnbornInv
<1>4. ASSUME NEW g \in Groups PROVE RegionInv(g)
  <2>1. Called(g) = {} /\ team[g] = <<>> /\ Members(team[g]) = {} /\ Members(last_team[g]) = {}
    BY <1>1, <1>2 DEF Called
  <2>2. LookupInv(g)
    BY <2>1 DEF LookupInv, Recent, Separate, Known
  <2>3. Bound(g)
    BY <2>1 DEF Bound
  <2>4. Clean(g)
    BY <1>1 DEF Clean
  <2>. QED
    BY <2>2, <2>3, <2>4 DEF RegionInv
<1>. QED
  BY <1>3, <1>4 DEF ThreadInv

(* A group without a region, while threads of another one run. *)
LEMMA IdleGroup ==
    ASSUME BasicInv, NEW h \in Groups, RegionInv(h), team[h] = <<>>,
           team'[h] = team[h], last_team'[h] = last_team[h], m_tid2index'[h] = m_tid2index[h],
           m_tasks'[h] = m_tasks[h], h \in abandoned' <=> h \in abandoned,
           \A t \in Members(last_team[h]) : cpubind'[t] = cpubind[t]
    PROVE  RegionInv(h)'
<1>1. Members(<<>>) = {}
  BY DEF Members
<1>2. Members(team[h]) = {} /\ Members(team'[h]) = {} /\ Called(h)' = {}
  BY <1>1 DEF Called
<1>3. LookupInv(h)'
  BY <1>2 DEF RegionInv, LookupInv, Recent, Separate, Known, InCache
<1>4. Bound(h)'
  BY <1>2 DEF RegionInv, Bound
<1>5. Clean(h)'
  BY <1>2 DEF RegionInv, Clean
<1>. QED
  BY <1>3, <1>4, <1>5 DEF RegionInv

(* A thread goes on: it is enough to look at its own group. *)
LEMMA OneGroup ==
    ASSUME BasicInv, ThreadInv, NEW t \in Tids, pc[t] # "out",
           NEW g \in Groups, g = GroupOf(t), RegionInv(g)',
           UNCHANGED <<team, last_team, nthreads>>,
           \A h \in Groups \ {g} :
               /\ m_tid2index'[h] = m_tid2index[h] /\ m_tasks'[h] = m_tasks[h]
               /\ h \in abandoned' <=> h \in abandoned,
           \A u \in Tids \ {t} : cpubind'[u] = cpubind[u]
    PROVE  ThreadInv'
<1>1. t \in Members(team[g]) /\ t <= nthreads /\ nthreads \in Nat
  <2>1. nthreads \in Nat
    BY ThreadAssumption DEF BasicInv, ThreadTypes, Tids
  <2>2. t \in Members(team[g]) /\ t <= nthreads
    BY GroupOfFacts
  <2>. QED  BY <2>1, <2>2
<1>2. OneRegion' /\ Apart'
  BY DEF ThreadInv, OneRegion, Apart, Own
<1>3. UnbornInv'
  <2>1. t \in Nat
    BY DEF Tids
  <2>2. ASSUME NEW u \in Tids, u > nthreads PROVE u # t
    BY <1>1, <2>1, <2>2
  <2>. QED
    BY <2>2 DEF ThreadInv, UnbornInv
<1>4. ASSUME NEW h \in Groups, h # g PROVE RegionInv(h)'
  <2>1. team[g] # <<>>
    BY <1>1 DEF Members
  <2>2. team[h] = <<>>
    BY <1>1, <1>4, <2>1 DEF ThreadInv, OneRegion
  <2>3. t \notin Members(last_team[h])
    BY <1>1, <1>4 DEF ThreadInv, Apart, Own
  <2>4. Members(last_team[h]) \subseteq Tids
    BY MemberFacts DEF BasicInv, ThreadTypes
  <2>5. \A u \in Members(last_team[h]) : cpubind'[u] = cpubind[u]
    BY <2>3, <2>4
  <2>6. /\ m_tid2index'[h] = m_tid2index[h] /\ m_tasks'[h] = m_tasks[h]
        /\ (h \in abandoned' <=> h \in abandoned) /\ RegionInv(h)
    BY <1>4 DEF ThreadInv
  <2>. QED
    BY <2>2, <2>5, <2>6, IdleGroup
<1>. QED
  BY <1>2, <1>3, <1>4 DEF ThreadInv

(* The place of a thread does not change during a region. *)
LEMMA PlaceStays == ASSUME team' = team, NEW t PROVE Place(t)' = Place(t)
BY DEF Place, GroupOf

LEMMA LookupThread ==
    ASSUME BasicInv, ThreadInv, NEW t \in Tids, bind_push(t) \/ bind_string(t) \/ bind_pop(t)
    PROVE  ThreadInv'
<1>1. PICK g \in Groups : g = GroupOf(t) /\ t \in Members(team[g])
  <2>1. pc[t] # "out"
    BY DEF bind_push, bind_string, bind_pop
  <2>. QED
    BY <2>1, GroupOfFacts
<1>2. /\ task(g, t) /\ UNCHANGED <<m_tasks, team, last_team, cpubind, nthreads, abandoned>>
      /\ pc[t] \in {"start", "run"}
  BY <1>1 DEF bind_push, bind_string, bind_pop
<1>3. PICK index \in Indices(g) : Looks(g, t, index)
  BY <1>2, TaskFacts DEF BasicInv
<1>4. /\ pc \in [Tids -> Labels] /\ myindex \in [Tids -> Nat]
      /\ Members(team[g]) \subseteq Tids /\ m_tid2index \in [Groups -> Seq(Entry)]
  BY MemberFacts DEF BasicInv, ThreadTypes
<1>5. /\ \A u \in Tids \ {t} : pc'[u] = pc[u] /\ myindex'[u] = myindex[u]
      /\ pc[t] = "start" => pc'[t] = "push"
      /\ pc[t] = "run" => pc'[t] \in Running
      /\ \A h \in Groups \ {g} : m_tid2index'[h] = m_tid2index[h]
  <2>1. \A u \in Tids \ {t} : pc'[u] = pc[u]
    BY <1>4 DEF bind_push, bind_string, bind_pop, Goto
  <2>2. /\ pc[t] = "start" => pc'[t] = "push"
        /\ pc[t] = "run" => pc'[t] \in Running
    BY <1>4 DEF bind_push, bind_string, bind_pop, Goto, Running
  <2>3. \A u \in Tids \ {t} : myindex'[u] = myindex[u]
    BY <1>3, <1>4 DEF Looks
  <2>4. \A h \in Groups \ {g} : m_tid2index'[h] = m_tid2index[h]
    <3>. DEFINE new == m_tid2index'[g]
    <3>1. m_tid2index' = [m_tid2index EXCEPT ![g] = new]
      BY <1>3 DEF Looks
    <3>. HIDE DEF new
    <3>. QED
      BY <1>4, <3>1
  <2>. QED
    BY <2>1, <2>2, <2>3, <2>4
<1>6. LookupInv(g) /\ Bound(g) /\ Clean(g)
  BY DEF ThreadInv, RegionInv
<1>7. LookupInv(g)'
  <2>1. pc'[t] # "start"
    BY <1>2, <1>5 DEF Running
  <2>2. \A u \in Members(team[g]) \ {t} : pc'[u] = pc[u]
    BY <1>4, <1>5
  <2>. QED
    BY <1>1, <1>2, <1>3, <1>6, <2>1, <2>2, LookupStep
<1>8. pc[t] = "run" => myindex'[t] = myindex[t]
  <2>. SUFFICES ASSUME pc[t] = "run" PROVE myindex'[t] = myindex[t]
    OBVIOUS
  <2>1. t \in Called(g)
    BY <1>1 DEF Called
  <2>2. index = myindex[t]
    BY <1>3, <1>6, <2>1, SameTask DEF LookupInv, Looks
  <2>. QED
    BY <1>3, <1>4, <2>2 DEF Looks
<1>9. \A u \in Tids : pc'[u] \in Running => pc[u] = pc'[u] \/ pc[u] = "run"
  BY <1>2, <1>5 DEF Running
<1>10. \A u \in Tids : pc[u] \in Running => pc'[u] \in Running /\ myindex'[u] = myindex[u]
  BY <1>2, <1>5, <1>8 DEF Running
<1>11. \A u \in Tids : pc'[u] \in Running => pc[u] \in Running
  BY <1>9 DEF Running
<1>12. \A u \in Tids : pc'[u] \in {"start", "push", "done"} => pc[u] = pc'[u] \/ pc[u] = "start"
  BY <1>2, <1>5 DEF Running
<1>13. Bound(g)'
  <2>1. ASSUME NEW u \in Members(team[g])
        PROVE  /\ pc'[u] \in Running =>
                    /\ cpubind[u] = Part(g, Place(u))
                    /\ m_tasks[g][myindex'[u]] # <<>> /\ cpubind[u] = Last(m_tasks[g][myindex'[u]])
               /\ pc'[u] \in {"start", "push"} \/ (pc'[u] = "done" /\ g \notin abandoned) =>
                    cpubind[u] = Parent
    BY <1>4, <1>6, <1>10, <1>11, <1>12, <2>1 DEF Bound
  <2>2. team[g] # <<>>
    BY <1>1 DEF Members
  <2>. QED
    BY <1>2, <2>1, <2>2, PlaceStays DEF Bound
<1>14. Clean(g)'
  <2>. SUFFICES ASSUME g \notin abandoned, NEW i \in Indices(g), m_tasks[g][i] # <<Parent>>
                PROVE  \E u \in Members(team[g]) :
                          /\ pc'[u] \in Running /\ myindex'[u] = i
                          /\ m_tasks[g][i] = <<Parent, Part(g, Place(u))>>
    BY <1>2, PlaceStays DEF Clean
  <2>1. PICK u \in Members(team[g]) :
           pc[u] \in Running /\ myindex[u] = i /\ m_tasks[g][i] = <<Parent, Part(g, Place(u))>>
    BY <1>6 DEF Clean
  <2>. QED
    BY <1>4, <1>10, <2>1
<1>15. RegionInv(g)'
  BY <1>7, <1>13, <1>14 DEF RegionInv
<1>. QED
  BY <1>1, <1>2, <1>5, <1>15, OneGroup

LEMMA TwoEntries ==
    ASSUME NEW a \in Cpusets, NEW b \in Cpusets
    PROVE  /\ Append(<<a>>, b) = <<a, b>> /\ <<a, b>> # <<>>
           /\ Front(<<a, b>>) = <<a>> /\ Last(<<a>>) = a
<1>1. /\ <<a>> \in Seq(Cpusets) /\ Len(<<a>>) = 1 /\ <<a>>[1] = a
      /\ <<a, b>> \in Seq(Cpusets) /\ Len(<<a, b>>) = 2 /\ <<a, b>>[1] = a /\ <<a, b>>[2] = b
      /\ <<a, b>> # <<>>
  OBVIOUS
<1>2. Append(<<a>>, b) = <<a, b>>
  <2>. DEFINE s == Append(<<a>>, b)
  <2>1. s \in Seq(Cpusets) /\ Len(s) = 2 /\ s[1] = a /\ s[2] = b
    BY <1>1, AppendProperties
  <2>2. ASSUME NEW i \in 1..2 PROVE s[i] = <<a, b>>[i]
    BY <1>1, <2>1, <2>2
  <2>. HIDE DEF s
  <2>. QED
    BY <1>1, <2>1, <2>2, SeqEqual DEF s
<1>3. Front(<<a, b>>) = <<a>>
  <2>. DEFINE s == Front(<<a, b>>)
  <2>1. s \in Seq(Cpusets) /\ Len(s) = 2 - 1 /\ \A i \in 1..(2 - 1) : s[i] = <<a, b>>[i]
    BY <1>1, FrontFacts
  <2>2. Len(s) = 1 /\ s[1] = a
    BY <1>1, <2>1
  <2>3. ASSUME NEW i \in 1..1 PROVE s[i] = <<a>>[i]
    BY <1>1, <2>2, <2>3
  <2>. HIDE DEF s
  <2>. QED
    BY <1>1, <2>1, <2>2, <2>3, SeqEqual DEF s
<1>. QED
  BY <1>1, <1>2, <1>3 DEF Last

(* The steps in which a thread uses its task: what they have in common. *)
LEMMA UseFacts ==
    ASSUME BasicInv, ThreadInv, NEW t \in Tids, NEW label \in {"run", "done"},
           pc[t] \in {"push", "run", "pop"}, pc' = [pc EXCEPT ![t] = label],
           UNCHANGED <<next_index, m_tid2index, myindex, team, last_team, nthreads>>
    PROVE  /\ GroupOf(t) \in Groups /\ t \in Members(team[GroupOf(t)])
           /\ myindex[t] \in Indices(GroupOf(t)) /\ team[GroupOf(t)] # <<>>
           /\ m_tasks[GroupOf(t)][myindex[t]] \in Seq(Cpusets)
           /\ pc'[t] = label /\ \A u \in Tids \ {t} : pc'[u] = pc[u]
           /\ \A u \in Members(team[GroupOf(t)]) : u \in Tids
           /\ \A u \in Members(team[GroupOf(t)]) :
                 u # t /\ pc[u] # "start" => myindex[u] # myindex[t]
           /\ \A u \in Members(team[GroupOf(t)]) :
                 pc[u] \in Running => myindex[u] \in Indices(GroupOf(t))
           /\ LookupInv(GroupOf(t))'
<1>1. PICK g \in Groups : g = GroupOf(t) /\ t \in Members(team[g])
  BY GroupOfFacts
<1>2. /\ pc \in [Tids -> Labels] /\ team[g] \in Seq(Tids)
      /\ m_tasks[g] \in [Indices(g) -> Seq(Cpusets)]
      /\ Assigned(g) /\ LookupInv(g)
  BY DEF BasicInv, ThreadTypes, ThreadInv, RegionInv
<1>3. Members(team[g]) \subseteq Tids
  BY <1>2, MemberFacts
<1>4. pc'[t] = label /\ \A u \in Tids \ {t} : pc'[u] = pc[u]
  BY <1>2
<1>5. Called(g)' = Called(g)
  BY <1>3, <1>4 DEF Called
<1>6. LookupInv(g)'
  BY <1>2, <1>5 DEF LookupInv, Recent, Separate, Known, InCache, Drawn
<1>7. GroupOf(t)' = GroupOf(t)
  BY DEF GroupOf
<1>8. LookupInv(GroupOf(t))'
  BY <1>1, <1>6, <1>7
<1>9. \A u \in Members(team[g]) : u # t /\ pc[u] # "start" => myindex[u] # myindex[t]
  BY <1>1, <1>2 DEF LookupInv, Separate, Called
<1>10. /\ myindex[t] \in Indices(g) /\ team[g] # <<>>
       /\ \A u \in Members(team[g]) : pc[u] \in Running => myindex[u] \in Indices(g)
  BY <1>1, <1>2 DEF Assigned, Members, Running
<1>. QED
  BY <1>1, <1>2, <1>3, <1>4, <1>8, <1>9, <1>10

(* The thread is bound to its scope, and nobody else has its stack. *)
LEMMA PushThread ==
    ASSUME BasicInv, ThreadInv, NEW t \in Tids, PushReturns(t) PROVE ThreadInv'
<1>. DEFINE cpuset == Part(GroupOf(t), Place(t))
<1>1. /\ pc[t] = "push"
      /\ UNCHANGED <<next_index, m_tid2index, myindex, team, last_team, nthreads, abandoned>>
      /\ \/ /\ cpubind' = [cpubind EXCEPT ![t] = cpuset]
            /\ m_tasks' = [m_tasks EXCEPT ![GroupOf(t)][myindex[t]] =
                              Append(m_tasks[GroupOf(t)][myindex[t]], cpuset)]
            /\ pc' = [pc EXCEPT ![t] = "run"]
         \/ pc' = [pc EXCEPT ![t] = "done"] /\ UNCHANGED <<cpubind, m_tasks>>
  BY DEF PushReturns, Goto
<1>. HIDE DEF cpuset
<1>2. PICK label \in {"run", "done"} : pc' = [pc EXCEPT ![t] = label]
  BY <1>1
<1>. DEFINE i == myindex[t]
<1>3. PICK g \in Groups :
         /\ g = GroupOf(t) /\ t \in Members(team[g]) /\ i \in Indices(g) /\ team[g] # <<>>
         /\ m_tasks[g][i] \in Seq(Cpusets)
         /\ pc'[t] = label /\ \A u \in Tids \ {t} : pc'[u] = pc[u]
         /\ \A u \in Members(team[g]) : u \in Tids
         /\ \A u \in Members(team[g]) : u # t /\ pc[u] # "start" => myindex[u] # i
         /\ \A u \in Members(team[g]) : pc[u] \in Running => myindex[u] \in Indices(g)
  BY <1>1, <1>2, UseFacts
<1>4. LookupInv(g)'
  <2>1. LookupInv(GroupOf(t))' /\ GroupOf(t)' = GroupOf(t)
    BY <1>1, <1>2, UseFacts DEF GroupOf
  <2>. QED
    BY <1>3, <2>1
<1>5. Bound(g) /\ Clean(g) /\ cpubind \in [Tids -> Cpusets]
  BY DEF BasicInv, ThreadTypes, ThreadInv, RegionInv
<1>6. Place(t) \in Nat /\ cpuset \in Cpusets
  <2>1. Place(t) \in Nat
    BY <1>1, GroupOfFacts
  <2>. QED
    BY <1>3, <2>1 DEF Part, Cpusets, cpuset
<1>7. CASE pc' = [pc EXCEPT ![t] = "done"] /\ UNCHANGED <<cpubind, m_tasks>>
  <2>1. pc'[t] = "done"
    BY <1>3, <1>7 DEF BasicInv, ThreadTypes
  <2>2. Bound(g)'
    <3>1. ASSUME NEW u \in Members(team[g])
          PROVE  /\ pc'[u] \in Running =>
                      /\ cpubind[u] = Part(g, Place(u))
                      /\ m_tasks[g][myindex[u]] # <<>> /\ cpubind[u] = Last(m_tasks[g][myindex[u]])
                 /\ pc'[u] \in {"start", "push"} \/ (pc'[u] = "done" /\ g \notin abandoned) =>
                      cpubind[u] = Parent
      BY <1>1, <1>3, <1>5, <2>1 DEF Bound, Running
    <3>. QED
      BY <1>1, <1>3, <1>7, <3>1, PlaceStays DEF Bound
  <2>3. Clean(g)'
    <3>1. \A u \in Members(team[g]) : pc[u] \in Running => pc'[u] \in Running
      BY <1>1, <1>3 DEF Running
    <3>. QED
      BY <1>1, <1>5, <1>7, <3>1, PlaceStays DEF Clean
  <2>4. RegionInv(g)'
    BY <1>4, <2>2, <2>3 DEF RegionInv
  <2>. QED
    BY <1>1, <1>3, <1>7, <2>4, OneGroup
<1>8. CASE /\ cpubind' = [cpubind EXCEPT ![t] = cpuset]
           /\ m_tasks' = [m_tasks EXCEPT ![g][i] = Append(m_tasks[g][i], cpuset)]
           /\ pc' = [pc EXCEPT ![t] = "run"]
  <2>1. pc'[t] = "run" /\ cpubind'[t] = cpuset /\ \A u \in Tids \ {t} : cpubind'[u] = cpubind[u]
    BY <1>3, <1>5, <1>8 DEF BasicInv, ThreadTypes
  <2>. DEFINE new == Append(m_tasks[g][i], cpuset)
  <2>2. new \in Seq(Cpusets) /\ new # <<>> /\ Last(new) = cpuset
    BY <1>3, <1>6 DEF Last
  <2>3. /\ m_tasks'[g][i] = new
        /\ \A h \in Groups : \A j \in Indices(h) : h # g \/ j # i => m_tasks'[h][j] = m_tasks[h][j]
        /\ DOMAIN m_tasks' = Groups
    <3>. HIDE DEF new
    <3>. QED
      BY <1>3, <1>8, <2>2, StackFacts DEF new
  <2>4. \A h \in Groups \ {g} : m_tasks'[h] = m_tasks[h]
    BY <1>8 DEF BasicInv, ThreadTypes
  <2>. HIDE DEF new
  <2>5. Bound(g)'
    <3>1. ASSUME NEW u \in Members(team[g])
          PROVE  /\ pc'[u] \in Running =>
                      /\ cpubind'[u] = Part(g, Place(u))
                      /\ m_tasks'[g][myindex[u]] # <<>> /\ cpubind'[u] = Last(m_tasks'[g][myindex[u]])
                 /\ pc'[u] \in {"start", "push"} \/ (pc'[u] = "done" /\ g \notin abandoned) =>
                      cpubind'[u] = Parent
      <4>1. CASE u = t
        BY <1>3, <2>1, <2>2, <2>3, <4>1 DEF cpuset
      <4>2. CASE u # t
        <5>1. u \in Tids /\ pc'[u] = pc[u] /\ cpubind'[u] = cpubind[u]
          BY <1>3, <2>1, <4>2
        <5>2. pc[u] \in Running => m_tasks'[g][myindex[u]] = m_tasks[g][myindex[u]]
          BY <1>3, <2>3, <4>2 DEF Running
        <5>. QED
          BY <1>5, <5>1, <5>2 DEF Bound
      <4>. QED
        BY <4>1, <4>2
    <3>. QED
      BY <1>1, <1>3, <3>1, PlaceStays DEF Bound
  <2>6. Clean(g)'
    <3>. SUFFICES ASSUME g \notin abandoned, NEW j \in Indices(g)
                  PROVE  \/ m_tasks'[g][j] = <<Parent>>
                         \/ \E u \in Members(team[g]) :
                              /\ pc'[u] \in Running /\ myindex[u] = j
                              /\ m_tasks'[g][j] = <<Parent, Part(g, Place(u))>>
      BY <1>1, PlaceStays DEF Clean
    <3>1. \/ m_tasks[g][j] = <<Parent>>
          \/ \E u \in Members(team[g]) :
               /\ pc[u] \in Running /\ myindex[u] = j
               /\ m_tasks[g][j] = <<Parent, Part(g, Place(u))>>
      BY <1>5 DEF Clean
    <3>2. CASE j = i
      <4>1. m_tasks[g][j] = <<Parent>>
        BY <1>1, <1>3, <3>1, <3>2 DEF Running
      <4>2. new = <<Parent, cpuset>>
        <5>1. new = Append(<<Parent>>, cpuset)
          BY <3>2, <4>1 DEF new
        <5>2. Append(<<Parent>>, cpuset) = <<Parent, cpuset>>
          BY <1>6, TwoEntries DEF Parent, Cpusets
        <5>. QED
          BY <5>1, <5>2
      <4>. QED
        BY <1>3, <2>1, <2>3, <3>2, <4>2 DEF cpuset, Running
    <3>3. CASE j # i
      <4>1. m_tasks'[g][j] = m_tasks[g][j]
        BY <2>3, <3>3
      <4>2. \A u \in Members(team[g]) : pc[u] \in Running => pc'[u] \in Running
        BY <1>1, <1>3 DEF Running
      <4>. QED
        BY <3>1, <4>1, <4>2
    <3>. QED
      BY <3>2, <3>3
  <2>7. RegionInv(g)'
    BY <1>4, <2>5, <2>6 DEF RegionInv
  <2>. QED
    BY <1>1, <1>3, <2>1, <2>4, <2>7, OneGroup
<1>. QED
  BY <1>1, <1>3, <1>7, <1>8

(* The thread is back where it was: under its scope there is only Parent;  *)
(* or the OS refuses, and its group is known for it.                       *)
LEMMA PopThread ==
    ASSUME BasicInv, ThreadInv, NEW t \in Tids, PopReturns(t) PROVE ThreadInv'
<1>. DEFINE i == myindex[t]
            stack == m_tasks[GroupOf(t)][i]
            rest == IF stack = <<>> THEN <<>> ELSE Front(stack)
<1>1. /\ pc[t] = "pop" /\ pc' = [pc EXCEPT ![t] = "done"]
      /\ UNCHANGED <<next_index, m_tid2index, myindex, team, last_team, nthreads>>
      /\ m_tasks' = [m_tasks EXCEPT ![GroupOf(t)][i] = rest]
      /\ \/ /\ cpubind' = [cpubind EXCEPT ![t] = IF rest = <<>> THEN cpubind[t] ELSE Last(rest)]
            /\ abandoned' = abandoned
         \/ cpubind' = cpubind /\ abandoned' = abandoned \cup {GroupOf(t)}
  BY DEF PopReturns, Goto
<1>2. PICK label \in {"run", "done"} : label = "done"
  OBVIOUS
<1>3. PICK g \in Groups :
         /\ g = GroupOf(t) /\ t \in Members(team[g]) /\ i \in Indices(g) /\ team[g] # <<>>
         /\ m_tasks[g][i] \in Seq(Cpusets)
         /\ pc'[t] = label /\ \A u \in Tids \ {t} : pc'[u] = pc[u]
         /\ \A u \in Members(team[g]) : u \in Tids
         /\ \A u \in Members(team[g]) : u # t /\ pc[u] # "start" => myindex[u] # i
         /\ \A u \in Members(team[g]) : pc[u] \in Running => myindex[u] \in Indices(g)
  BY <1>1, <1>2, UseFacts
<1>4. LookupInv(g)'
  <2>1. LookupInv(GroupOf(t))' /\ GroupOf(t)' = GroupOf(t)
    BY <1>1, <1>2, UseFacts DEF GroupOf
  <2>. QED
    BY <1>3, <2>1
<1>5. Bound(g) /\ Clean(g) /\ cpubind \in [Tids -> Cpusets]
  BY DEF BasicInv, ThreadTypes, ThreadInv, RegionInv
<1>6. rest \in Seq(Cpusets)
  BY <1>3, FrontFacts
<1>7. ASSUME g \notin abandoned PROVE rest = <<Parent>> /\ Last(rest) = Parent
  <2>1. cpubind[t] = Part(g, Place(t)) /\ cpubind[t] = Last(stack)
    BY <1>1, <1>3, <1>5 DEF Bound, Running
  <2>2. Part(g, Place(t)) # Parent
    <3>1. g # 0
      BY ThreadAssumption
    <3>. QED
      BY <3>1 DEF Part, Parent
  <2>3. stack # <<Parent>>
    <3>1. Last(<<Parent>>) = Parent
      BY DEF Last
    <3>. QED
      BY <2>1, <2>2, <3>1
  <2>4. PICK u \in Members(team[g]) : stack = <<Parent, Part(g, Place(u))>>
    BY <1>3, <1>5, <1>7, <2>3 DEF Clean
  <2>5. Parent \in Cpusets /\ Part(g, Place(u)) \in Cpusets
    <3>1. u \in Tids /\ pc[u] # "out"
      BY <1>3, <2>4 DEF BasicInv, InOneTeam
    <3>2. Place(u) \in Nat
      BY <3>1, GroupOfFacts
    <3>. QED
      BY <3>2 DEF Part, Parent, Cpusets
  <2>6. stack # <<>> /\ Front(stack) = <<Parent>> /\ Last(<<Parent>>) = Parent
    BY <2>4, <2>5, TwoEntries
  <2>. QED
    BY <2>6
<1>. HIDE DEF rest
<1>8. /\ m_tasks'[g][i] = rest
      /\ \A h \in Groups : \A j \in Indices(h) : h # g \/ j # i => m_tasks'[h][j] = m_tasks[h][j]
  BY <1>1, <1>3, <1>6, StackFacts
<1>9. \A h \in Groups \ {g} : m_tasks'[h] = m_tasks[h]
  BY <1>1, <1>3 DEF BasicInv, ThreadTypes
<1>10. /\ \A u \in Tids \ {t} : cpubind'[u] = cpubind[u]
       /\ g \notin abandoned' => g \notin abandoned /\ cpubind'[t] = Parent
       /\ \A h \in Groups \ {g} : h \in abandoned' <=> h \in abandoned
  <2>1. g \notin abandoned' =>
           cpubind'[t] = IF rest = <<>> THEN cpubind[t] ELSE Last(rest)
    BY <1>1, <1>3, <1>5
  <2>2. <<Parent>> # <<>>
    OBVIOUS
  <2>. QED
    BY <1>1, <1>3, <1>5, <1>7, <2>1, <2>2
<1>11. Bound(g)'
  <2>1. ASSUME NEW u \in Members(team[g])
        PROVE  /\ pc'[u] \in Running =>
                    /\ cpubind'[u] = Part(g, Place(u))
                    /\ m_tasks'[g][myindex[u]] # <<>> /\ cpubind'[u] = Last(m_tasks'[g][myindex[u]])
               /\ pc'[u] \in {"start", "push"} \/ (pc'[u] = "done" /\ g \notin abandoned') =>
                    cpubind'[u] = Parent
    <3>1. CASE u = t
      BY <1>2, <1>3, <1>10, <3>1 DEF Running
    <3>2. CASE u # t
      <4>1. u \in Tids /\ pc'[u] = pc[u] /\ cpubind'[u] = cpubind[u]
        BY <1>3, <1>10, <3>2
      <4>2. pc[u] \in Running => m_tasks'[g][myindex[u]] = m_tasks[g][myindex[u]]
        BY <1>3, <1>8, <3>2 DEF Running
      <4>. QED
        BY <1>5, <1>10, <4>1, <4>2 DEF Bound
    <3>. QED
      BY <3>1, <3>2
  <2>. QED
    BY <1>1, <1>3, <2>1, PlaceStays DEF Bound
<1>12. Clean(g)'
  <2>. SUFFICES ASSUME g \notin abandoned', NEW j \in Indices(g)
                PROVE  \/ m_tasks'[g][j] = <<Parent>>
                       \/ \E u \in Members(team[g]) :
                            /\ pc'[u] \in Running /\ myindex[u] = j
                            /\ m_tasks'[g][j] = <<Parent, Part(g, Place(u))>>
    BY <1>1, PlaceStays DEF Clean
  <2>1. \/ m_tasks[g][j] = <<Parent>>
        \/ \E u \in Members(team[g]) :
             /\ pc[u] \in Running /\ myindex[u] = j
             /\ m_tasks[g][j] = <<Parent, Part(g, Place(u))>>
    BY <1>5, <1>10 DEF Clean
  <2>2. CASE j = i
    BY <1>7, <1>8, <1>10, <2>2
  <2>3. CASE j # i
    <3>1. m_tasks'[g][j] = m_tasks[g][j]
      BY <1>8, <2>3
    <3>2. \A u \in Members(team[g]) : myindex[u] = j => pc'[u] = pc[u]
      BY <1>3, <2>3
    <3>. QED
      BY <2>1, <3>1, <3>2
  <2>. QED
    BY <2>2, <2>3
<1>13. RegionInv(g)'
  BY <1>4, <1>11, <1>12 DEF RegionInv
<1>. QED
  BY <1>1, <1>3, <1>9, <1>10, <1>13, OneGroup

(* What a thread that exits has pushed stays; its group is known for it. *)
LEMMA ExitThread ==
    ASSUME BasicInv, ThreadInv, NEW t \in Tids, Exit(t) PROVE ThreadInv'
<1>1. /\ pc[t] = "run" /\ pc' = [pc EXCEPT ![t] = "done"]
      /\ UNCHANGED <<next_index, m_tid2index, myindex, team, last_team, nthreads, m_tasks, cpubind>>
      /\ abandoned' = abandoned \cup {GroupOf(t)}
  BY DEF Exit, Goto
<1>2. PICK label \in {"run", "done"} : label = "done"
  OBVIOUS
<1>3. PICK g \in Groups :
         /\ g = GroupOf(t) /\ team[g] # <<>>
         /\ pc'[t] = label /\ \A u \in Tids \ {t} : pc'[u] = pc[u]
         /\ \A u \in Members(team[g]) : u \in Tids
  BY <1>1, <1>2, UseFacts
<1>4. LookupInv(g)'
  <2>1. LookupInv(GroupOf(t))' /\ GroupOf(t)' = GroupOf(t)
    BY <1>1, <1>2, UseFacts DEF GroupOf
  <2>. QED
    BY <1>3, <2>1
<1>5. Bound(g) /\ g \in abandoned'
  BY <1>1, <1>3 DEF ThreadInv, RegionInv
<1>6. Bound(g)'
  <2>1. ASSUME NEW u \in Members(team[g])
        PROVE  /\ pc'[u] \in Running =>
                    /\ cpubind[u] = Part(g, Place(u))
                    /\ m_tasks[g][myindex[u]] # <<>> /\ cpubind[u] = Last(m_tasks[g][myindex[u]])
               /\ pc'[u] \in {"start", "push"} => cpubind[u] = Parent
    BY <1>2, <1>3, <1>5 DEF Bound, Running
  <2>. QED
    BY <1>1, <1>3, <1>5, <2>1, PlaceStays DEF Bound
<1>7. RegionInv(g)'
  BY <1>4, <1>5, <1>6 DEF RegionInv, Clean
<1>8. \A h \in Groups \ {g} : h \in abandoned' <=> h \in abandoned
  BY <1>1, <1>3
<1>. QED
  BY <1>1, <1>3, <1>7, <1>8, OneGroup

(* A region begins: its threads are new, or they are in the cache.         *)
LEMMA ForkThread ==
    ASSUME BasicInv, ThreadInv, Overlap = FALSE, "master" \notin Teams, NEW g \in Groups, Fork(g)
    PROVE  ThreadInv'
<1>1. PICK w : Forks(g, w)
  BY ForkFacts
<1>2. /\ UNCHANGED <<next_index, m_tasks, m_tid2index, myindex, last_team, cpubind, abandoned>>
      /\ \A h \in Groups : team[h] = <<>>
  BY DEF Fork
<1>3. /\ w \in Seq(Tids) /\ w # <<>> /\ team'[g] = w
      /\ \A h \in Groups \ {g} : team'[h] = team[h]
      /\ \A t \in Members(w) : pc'[t] = "start"
  BY <1>1 DEF Forks
<1>4. /\ nthreads \in Nat /\ nthreads' \in Nat /\ nthreads <= nthreads' /\ Members(w) \subseteq Tids
      /\ \A h \in Groups : Members(team[h]) = {}
  <2>1. nthreads \in Nat /\ nthreads' \in Nat /\ nthreads <= nthreads'
    BY <1>1 DEF Forks, BasicInv, ThreadTypes, Tids
  <2>2. Members(<<>>) = {}
    BY DEF Members
  <2>. QED
    BY <1>2, <1>3, <2>1, <2>2, MemberFacts
<1>5. \/ \A t \in Members(w) : t > nthreads
      \/ Members(w) \subseteq Members(last_team[g])
  BY <1>1 DEF Forks, Origin, Members
<1>6. ASSUME NEW h \in Groups, NEW t \in Members(last_team[h]) PROVE t <= nthreads
  BY <1>6 DEF BasicInv, TeamOK, Members
<1>7. OneRegion'
  BY <1>2, <1>3 DEF OneRegion
<1>8. Apart'
  <2>1. \A h \in Groups : Members(last_team[h]) \subseteq Tids
    BY MemberFacts DEF BasicInv, ThreadTypes
  <2>2. ASSUME NEW h \in Groups \ {g} PROVE Members(w) \cap Members(last_team[h]) = {}
    <3>1. CASE \A t \in Members(w) : t > nthreads
      BY <1>4, <1>6, <2>1, <3>1 DEF Tids
    <3>2. CASE Members(w) \subseteq Members(last_team[g])
      BY <3>2 DEF ThreadInv, Apart, Own
    <3>. QED
      BY <1>5, <3>1, <3>2
  <2>3. \A h, x \in Groups : h # x => Members(last_team[h]) \cap Members(last_team[x]) = {}
    BY DEF ThreadInv, Apart, Own
  <2>4. /\ Own(g)' = Members(w) \cup Members(last_team[g])
        /\ \A h \in Groups \ {g} : Own(h)' = Members(last_team[h])
    BY <1>2, <1>3, <1>4 DEF Own
  <2>5. ASSUME NEW h \in Groups, NEW x \in Groups, h # x PROVE Own(h)' \cap Own(x)' = {}
    <3>1. CASE h = g
      BY <2>2, <2>3, <2>4, <2>5, <3>1
    <3>2. CASE x = g
      BY <2>2, <2>3, <2>4, <2>5, <3>2
    <3>3. CASE h # g /\ x # g
      BY <2>3, <2>4, <2>5, <3>3
    <3>. QED
      BY <3>1, <3>2, <3>3
  <2>. QED
    BY <2>5 DEF Apart
<1>9. UnbornInv'
  <2>1. ASSUME NEW t \in Tids, t > nthreads' PROVE t > nthreads
    BY <1>4, <2>1 DEF Tids
  <2>. QED
    BY <1>2, <2>1 DEF ThreadInv, UnbornInv
<1>10. RegionInv(g)'
  <2>1. Called(g)' = {}
    BY <1>3 DEF Called
  <2>2. RegionInv(g) /\ team[g] = <<>>
    BY <1>2 DEF ThreadInv
  <2>3. Known(g, Members(w))' \/ Drawn(g)'
    <3>1. CASE \A t \in Members(w) : t > nthreads
      <4>1. ASSUME NEW t \in Members(w), NEW i \in DOMAIN m_tid2index[g], m_tid2index[g][i].tid = t
            PROVE  FALSE
        <5>1. t <= nthreads /\ t \in Nat
          BY <1>4, <4>1 DEF BasicInv, CacheFits, Tids
        <5>. QED
          BY <1>4, <3>1, <5>1
      <4>. QED
        BY <1>2, <1>3, <2>1, <4>1 DEF Drawn, InCache
    <3>2. CASE Members(w) \subseteq Members(last_team[g])
      <4>1. Known(g, Members(last_team[g]))
        BY <2>2 DEF RegionInv, LookupInv
      <4>. QED
        BY <1>2, <3>2, <4>1 DEF Known, InCache
    <3>. QED
      BY <1>5, <3>1, <3>2
  <2>4. LookupInv(g)'
    BY <1>3, <2>1, <2>3 DEF LookupInv, Recent, Separate
  <2>5. \A t \in Members(w) : cpubind[t] = Parent
    <3>1. CASE \A t \in Members(w) : t > nthreads
      BY <1>4, <3>1 DEF ThreadInv, UnbornInv
    <3>2. CASE Members(w) \subseteq Members(last_team[g])
      BY <2>2, <3>2 DEF RegionInv, Bound
    <3>. QED
      BY <1>5, <3>1, <3>2
  <2>6. Bound(g)'
    BY <1>2, <1>3, <2>5 DEF Bound, Running
  <2>7. Clean(g)'
    BY <1>2, <1>4, <2>2 DEF RegionInv, Clean
  <2>. QED
    BY <2>4, <2>6, <2>7 DEF RegionInv
<1>11. ASSUME NEW h \in Groups, h # g PROVE RegionInv(h)'
  <2>1. RegionInv(h) /\ team[h] = <<>> /\ team'[h] = team[h]
    BY <1>2, <1>3, <1>11 DEF ThreadInv
  <2>. QED
    BY <1>2, <2>1, IdleGroup
<1>. QED
  BY <1>7, <1>8, <1>9, <1>10, <1>11 DEF ThreadInv

(* A region ends: all its threads are in the cache. *)
LEMMA JoinThread ==
    ASSUME BasicInv, ThreadInv, NEW g \in Groups, Join(g) PROVE ThreadInv'
<1>1. /\ UNCHANGED <<next_index, m_tasks, m_tid2index, myindex, cpubind, nthreads, abandoned>>
      /\ team[g] # <<>> /\ \A t \in Members(team[g]) : pc[t] = "done"
      /\ team' = [team EXCEPT ![g] = <<>>]
      /\ last_team' = [last_team EXCEPT ![g] = IF g \in abandoned THEN <<>> ELSE team[g]]
  BY DEF Join, Members
<1>2. team \in [Groups -> Seq(Tids)] /\ last_team \in [Groups -> Seq(Tids)]
  BY DEF BasicInv, ThreadTypes
<1>3. /\ team'[g] = <<>> /\ \A h \in Groups \ {g} : team'[h] = team[h] /\ last_team'[h] = last_team[h]
      /\ last_team'[g] = IF g \in abandoned THEN <<>> ELSE team[g]
  BY <1>1, <1>2
<1>4. Members(<<>>) = {}
  BY DEF Members
<1>5. OneRegion' /\ UnbornInv'
  BY <1>1, <1>3 DEF ThreadInv, OneRegion, UnbornInv
<1>6. Apart'
  <2>1. \A h \in Groups : Own(h)' \subseteq Own(h)
    BY <1>3, <1>4 DEF Own
  <2>. QED
    BY <2>1 DEF ThreadInv, Apart
<1>7. LookupInv(g) /\ Bound(g) /\ Clean(g)
  BY DEF ThreadInv, RegionInv
<1>8. LookupInv(g)'
  <2>1. Called(g)' = {} /\ Called(g) = Members(team[g])
    BY <1>1, <1>3, <1>4 DEF Called
  <2>2. Known(g, Members(team[g]))
    <3>1. \A t \in Members(team[g]) : \E i \in DOMAIN m_tid2index[g] :
             m_tid2index[g][i] = [tid |-> t, index |-> myindex[t]]
      BY <1>7, <2>1 DEF LookupInv, Recent
    <3>2. ASSUME NEW i \in DOMAIN m_tid2index[g], m_tid2index[g][i].tid \in Members(team[g])
          PROVE  m_tid2index[g][i].index = myindex[m_tid2index[g][i].tid]
      <4>. DEFINE t == m_tid2index[g][i].tid
      <4>1. PICK j \in DOMAIN m_tid2index[g] : m_tid2index[g][j] = [tid |-> t, index |-> myindex[t]]
        BY <3>1, <3>2
      <4>2. m_tid2index[g][j].tid = t /\ m_tid2index[g][j].index = myindex[t]
        BY <4>1
      <4>3. j = i
        BY <4>2 DEF BasicInv, CacheFits, CacheOK
      <4>. QED
        BY <4>2, <4>3
    <3>3. ASSUME NEW i \in DOMAIN m_tid2index[g], NEW j \in DOMAIN m_tid2index[g],
                 m_tid2index[g][i].tid \in Members(team[g]), m_tid2index[g][j].tid \in Members(team[g]),
                 m_tid2index[g][i].index = m_tid2index[g][j].index
          PROVE  i = j
      <4>1. m_tid2index[g][i].tid = m_tid2index[g][j].tid
        BY <1>7, <2>1, <3>2, <3>3 DEF LookupInv, Separate
      <4>. QED
        BY <4>1 DEF BasicInv, CacheFits, CacheOK
    <3>4. \A t \in Members(team[g]) : InCache(g, t)
      <4>. TAKE t \in Members(team[g])
      <4>1. PICK i \in DOMAIN m_tid2index[g] : m_tid2index[g][i] = [tid |-> t, index |-> myindex[t]]
        BY <3>1
      <4>2. m_tid2index[g][i].tid = t
        BY <4>1
      <4>. QED
        BY <4>2 DEF InCache
    <3>. QED
      BY <3>3, <3>4 DEF Known
  <2>3. Known(g, Members(last_team'[g]))
    <3>1. CASE g \in abandoned
      BY <1>3, <1>4, <3>1 DEF Known
    <3>2. CASE g \notin abandoned
      BY <1>3, <2>2, <3>2
    <3>. QED
      BY <3>1, <3>2
  <2>4. Known(g, Members(last_team[g]))'
    BY <1>1, <2>3 DEF Known, InCache
  <2>. QED
    BY <1>3, <2>1, <2>4 DEF LookupInv, Recent, Separate
<1>9. Bound(g)'
  <2>1. \A t \in Members(last_team'[g]) : cpubind[t] = Parent
    BY <1>1, <1>3, <1>4, <1>7 DEF Bound
  <2>. QED
    BY <1>1, <1>3, <1>4, <2>1 DEF Bound
<1>10. Clean(g)'
  BY <1>1, <1>7 DEF Clean, Running
<1>11. ASSUME NEW h \in Groups, h # g PROVE RegionInv(h)'
  <2>1. RegionInv(h) /\ team[h] = <<>>
    BY <1>1, <1>11 DEF ThreadInv, OneRegion
  <2>2. team'[h] = team[h] /\ last_team'[h] = last_team[h]
    BY <1>3, <1>11
  <2>. QED
    BY <1>1, <2>1, <2>2, IdleGroup
<1>. QED
  BY <1>5, <1>6, <1>8, <1>9, <1>10, <1>11 DEF ThreadInv, RegionInv

LEMMA ThreadFrame == ASSUME ThreadInv, UNCHANGED thread_vars PROVE ThreadInv'
<1>1. OneRegion' /\ Apart' /\ UnbornInv'
  BY DEF thread_vars, ThreadInv, OneRegion, Apart, Own, UnbornInv
<1>2. ASSUME NEW g \in Groups PROVE RegionInv(g)'
  <2>1. RegionInv(g)
    BY DEF ThreadInv
  <2>2. Called(g)' = Called(g)
    BY DEF thread_vars, Called
  <2>3. LookupInv(g)'
    BY <2>1, <2>2 DEF thread_vars, RegionInv, LookupInv, Recent, Separate, Known, InCache, Drawn
  <2>4. Bound(g)'
    BY <2>1, PlaceStays DEF thread_vars, RegionInv, Bound
  <2>5. Clean(g)'
    BY <2>1, PlaceStays DEF thread_vars, RegionInv, Clean
  <2>. QED
    BY <2>3, <2>4, <2>5 DEF RegionInv
<1>. QED
  BY <1>1, <1>2 DEF ThreadInv

LEMMA ThreadInvariance ==
    ASSUME Overlap = FALSE, "master" \notin Teams PROVE Spec => []ThreadInv
<1>1. ASSUME BasicInv, ThreadInv, [Next]_vars PROVE ThreadInv'
  <2>1. ASSUME NEW t \in Tids, ThreadStep(t) PROVE ThreadInv'
    BY <1>1, <2>1, LookupThread, PushThread, PopThread, ExitThread DEF ThreadStep
  <2>2. ASSUME NEW g \in Groups, Fork(g) \/ Join(g) PROVE ThreadInv'
    BY <1>1, <2>2, ForkThread, JoinThread
  <2>3. CASE UNCHANGED thread_vars
    BY <1>1, <2>3, ThreadFrame
  <2>. QED
    BY <1>1, <2>1, <2>2, <2>3, ThreadsOrLife
<1>. QED
  BY <1>1, ThreadInvInit, BasicInvariance, PTL DEF Spec

(* No two threads of a region have the same task, if regions of different  *)
(* groups do not overlap and a team is all new or the one before: for any  *)
(* number of threads and regions and any size of the cache, evictions      *)
(* included.  (With the main thread in every team, as in OpenMP, two may.) *)
THEOREM TasksSeparate ==
    ASSUME Overlap = FALSE, "master" \notin Teams PROVE Spec => []SeparateTasks
<1>1. ASSUME ThreadInv PROVE SeparateTasks
  BY <1>1 DEF ThreadInv, RegionInv, LookupInv, Separate, Called, Members, Threads, HasTask,
     SeparateTasks
<1>. QED
  BY <1>1, ThreadInvariance, PTL

(* Under the same conditions pushes and pops nest: a running thread is     *)
(* bound to its own scope, and a pop takes it back to where it was.        *)
THEOREM ThreadBindingsNest ==
    ASSUME Overlap = FALSE, "master" \notin Teams PROVE Spec => []BindingsNest
<1>1. ASSUME ThreadInv PROVE BindingsNest
  <2>. SUFFICES ASSUME NEW g \in Groups
                PROVE  /\ \A t \in Threads(g) : pc[t] = "run" =>
                             /\ cpubind[t] = Part(g, Place(t))
                             /\ cpubind[t] = Last(m_tasks[g][myindex[t]])
                       /\ g \notin abandoned =>
                             /\ \A t \in Threads(g) : pc[t] = "done" => cpubind[t] = Parent
                             /\ team[g] = <<>> => \A i \in Indices(g) : m_tasks[g][i] = <<Parent>>
    BY DEF BindingsNest
  <2>1. Bound(g) /\ Clean(g) /\ Threads(g) = Members(team[g])
    BY <1>1 DEF ThreadInv, RegionInv, Threads, Members
  <2>2. team[g] = <<>> => Members(team[g]) = {}
    BY DEF Members
  <2>. QED
    BY <2>1, <2>2 DEF Bound, Clean, Running
<1>. QED
  BY <1>1, ThreadInvariance, PTL
=============================================================================
