--------------------------- MODULE StableMarriage ---------------------------
(***************************************************************************)
(* stable_marriage_solver and solve_ap_mapping of qvi-map.cc: the solver   *)
(* behind qvi_map_close, one iteration of the loop in solve() per step.    *)
(*                                                                         *)
(* The preference lists are the orders src_prefers and m_slot_prefers of   *)
(* module Mapping; m_src_prefs[src][k] is the slot whose index in the list *)
(* of src is k.                                                            *)
(***************************************************************************)
EXTENDS Mapping, Sequences

CONSTANTS MaxSrcs,   \* bound on the number of sources
          MaxDsts,   \* bound on the number of destinations
          PUs        \* processing units the cpusets are made of

ASSUME BoundsAssumption == MaxSrcs \in Nat /\ MaxDsts \in Nat

VARIABLES
    m_nsrcs, m_ndsts,     \* the counts the solver is constructed with
    affinities,           \* the affinity map it is constructed with
    m_src_next_proposal,  \* source -> index of its next proposal
    m_src_to_slot,        \* source -> slot, NoSlot when it has no key
    m_slot_to_src,        \* slot -> source, SIZE_MAX when it is free
    free_sources,         \* the queue of solve()
    pc                    \* where solve_ap_mapping is

input == <<m_nsrcs, m_ndsts, affinities>>
matching == <<m_src_to_slot, m_slot_to_src>>
vars == <<m_nsrcs, m_ndsts, affinities, m_src_next_proposal, m_src_to_slot,
          m_slot_to_src, free_sources, pc>>

(* Neither is the number of a source nor a slot. *)
SIZE_MAX == -1
NoSlot == <<-1, -1>>

Src == Sources(m_nsrcs)
Slot == Slots(m_nsrcs, m_ndsts)
m_slots_per_dst == qvi_maxiperk(m_nsrcs, m_ndsts)

(* Length of every source's preference list. *)
nprefs == m_ndsts * m_slots_per_dst

Index(src, slot) == src_pref_index(m_nsrcs, m_ndsts, affinities, src, slot)

(* The list is not sorted by contention, nor are affine destinations first. *)
Faulty_prefs_unsorted(src, k) ==
    <<k \div m_slots_per_dst, k % m_slots_per_dst>>

(* m_src_prefs[src][k] *)
m_src_prefs(src, k) == CHOOSE slot \in Slot : Index(src, slot) = k

-----------------------------------------------------------------------------
(* The constructor, and the filling of the queue at the top of solve().    *)
Init ==
    /\ m_nsrcs \in 0..MaxSrcs
    /\ m_ndsts \in 0..MaxDsts
    /\ \E src \in Vector(m_nsrcs, SUBSET PUs), dst \in Vector(m_ndsts, SUBSET PUs) :
          affinities = qvi_map_calc_affinities(src, dst)
    /\ m_src_next_proposal = [s \in Src |-> 0]
    /\ m_src_to_slot = [s \in Src |-> NoSlot]
    /\ m_slot_to_src = [p \in Slot |-> SIZE_MAX]
    /\ free_sources = [i \in 1..m_nsrcs |-> i - 1]
    /\ pc = "solve"

(* The next proposal is not advanced. *)
Faulty_proposes_again(source, slot) ==
    /\ pc = "solve"
    /\ free_sources # <<>>
    /\ source = Head(free_sources)
    /\ m_src_next_proposal[source] < nprefs
    /\ slot = m_src_prefs(source, m_src_next_proposal[source])
    /\ UNCHANGED <<input, pc, m_src_next_proposal>>

(* The source at the front of the queue is popped and proposes to the next *)
(* slot of its list.                                                       *)
Proposes(source, slot) ==
    /\ pc = "solve"
    /\ free_sources # <<>>
    /\ source = Head(free_sources)
    /\ m_src_next_proposal[source] < nprefs
    /\ slot = m_src_prefs(source, m_src_next_proposal[source])
    /\ m_src_next_proposal' = [m_src_next_proposal EXCEPT ![source] = @ + 1]
    /\ UNCHANGED <<input, pc>>

ProposeToFree(source, slot) ==
    /\ Proposes(source, slot)
    /\ m_slot_to_src[slot] = SIZE_MAX
    /\ m_src_to_slot' = [m_src_to_slot EXCEPT ![source] = slot]
    /\ m_slot_to_src' = [m_slot_to_src EXCEPT ![slot] = source]
    /\ free_sources' = Tail(free_sources)

(* The slot's preference is not asked. *)
Faulty_evict_always(source, slot) ==
    /\ Proposes(source, slot)
    /\ m_slot_to_src[slot] # SIZE_MAX
    /\ m_src_to_slot' = [m_src_to_slot EXCEPT ![source] = slot,
                                              ![m_slot_to_src[slot]] = NoSlot]
    /\ m_slot_to_src' = [m_slot_to_src EXCEPT ![slot] = source]
    /\ free_sources' = Append(Tail(free_sources), m_slot_to_src[slot])

(* The slot is taken but prefers the new source: the old one is queued.    *)
ProposeAndEvict(source, slot) ==
    /\ Proposes(source, slot)
    /\ m_slot_to_src[slot] # SIZE_MAX
    /\ m_slot_prefers(affinities, slot, source, m_slot_to_src[slot])
    /\ m_src_to_slot' = [m_src_to_slot EXCEPT ![source] = slot,
                                              ![m_slot_to_src[slot]] = NoSlot]
    /\ m_slot_to_src' = [m_slot_to_src EXCEPT ![slot] = source]
    /\ free_sources' = Append(Tail(free_sources), m_slot_to_src[slot])

ProposeRejected(source, slot) ==
    /\ Proposes(source, slot)
    /\ m_slot_to_src[slot] # SIZE_MAX
    /\ ~m_slot_prefers(affinities, slot, source, m_slot_to_src[slot])
    /\ UNCHANGED matching
    /\ free_sources' = Append(Tail(free_sources), source)

(* A source that has no one left to ask: QV_ERR_NOT_SUPPORTED is thrown.   *)
Exhausted ==
    /\ pc = "solve"
    /\ free_sources # <<>>
    /\ m_src_next_proposal[Head(free_sources)] >= nprefs
    /\ free_sources' = Tail(free_sources)
    /\ pc' = "throw"
    /\ UNCHANGED <<input, matching, m_src_next_proposal>>

(* stable(): every source is matched, and every slot before its own in its *)
(* list is held by a source that the slot does not like less.              *)
stable ==
    \A s \in Src :
        /\ m_src_to_slot[s] # NoSlot
        /\ \A p \in Slot :
              src_prefers(m_nsrcs, affinities, s, p, m_src_to_slot[s]) =>
                  /\ m_slot_to_src[p] # SIZE_MAX
                  /\ ~m_slot_prefers(affinities, p, s, m_slot_to_src[p])

(* solve() returns, solve_ap_mapping checks the result and returns it.     *)
Verify ==
    /\ pc = "solve"
    /\ free_sources = <<>>
    /\ pc' = IF stable THEN "done" ELSE "throw"
    /\ UNCHANGED <<input, matching, m_src_next_proposal, free_sources>>

Next ==
    \/ \E source \in Src, slot \in Slot :
          \/ ProposeToFree(source, slot)
          \/ ProposeAndEvict(source, slot)
          \/ ProposeRejected(source, slot)
    \/ Exhausted
    \/ Verify

Spec == Init /\ [][Next]_vars

(* The caller's thread runs the loop to its end. *)
FairSpec == Spec /\ WF_vars(Next)

(* get_matching() *)
get_matching ==
    [s \in {s \in Src : m_src_to_slot[s] # NoSlot} |-> {m_src_to_slot[s][1]}]

(* Refinement mapping: the result exists once it has been verified. *)
NoResult == <<>>
result == IF pc = "done" THEN m_src_to_slot ELSE NoResult

Close == INSTANCE CloseSpec WITH
    IsResult <- IsCloseMatching, None <- NoResult,
    nsrc <- m_nsrcs, ndst <- m_ndsts, status <- pc

-----------------------------------------------------------------------------
(* Properties. *)

TypeOK ==
    /\ m_nsrcs \in Nat /\ m_ndsts \in Nat
    /\ m_src_next_proposal \in [Src -> 0..nprefs]
    /\ m_src_to_slot \in [Src -> Slot \cup {NoSlot}]
    /\ m_slot_to_src \in [Slot -> Src \cup {SIZE_MAX}]
    /\ free_sources \in Seq(Src)
    /\ pc \in {"solve", "done", "throw"}

(* The two maps that solve() updates separately stay inverse to each other, *)
(* and the sources without a slot are exactly the ones that are queued,     *)
(* each of them once: no source is lost by an eviction or a rejection.      *)
MatchingConsistent ==
    /\ \A s \in Src, p \in Slot : m_src_to_slot[s] = p <=> m_slot_to_src[p] = s
    /\ \A i, j \in 1..Len(free_sources) : free_sources[i] = free_sources[j] => i = j
    /\ pc # "throw" =>
          \A s \in Src : m_src_to_slot[s] = NoSlot <=>
                             \E i \in 1..Len(free_sources) : free_sources[i] = s

(* Once a slot is taken it is never given up, and it changes hands only to  *)
(* a source it prefers to the one it holds.                                 *)
SlotsOnlyImprove ==
    [][\A p \in Slot : m_slot_to_src[p] # SIZE_MAX =>
          \/ m_slot_to_src'[p] = m_slot_to_src[p]
          \/ /\ m_slot_to_src'[p] # SIZE_MAX
             /\ m_slot_prefers(affinities, p, m_slot_to_src'[p], m_slot_to_src[p])]_vars

(* qvi_map_close throws only when there are sources and nothing to map them *)
(* to: there are always slots enough that no source runs out of them, and   *)
(* the check of stable() never rejects what solve() computed.               *)
ThrowsOnlyWithoutDestinations == pc = "throw" => m_ndsts = 0 /\ m_nsrcs > 0

(* Every source gets one destination, and no destination gets more than its *)
(* even share, rounded up.                                                  *)
EvenShares ==
    pc = "done" =>
        /\ DOMAIN get_matching = Src
        /\ \A d \in Destinations(m_ndsts) :
              Cardinality({s \in Src : get_matching[s] = {d}}) <= m_slots_per_dst

(* "STRONG affinity preference": a source is put where it has no affinity   *)
(* only if every slot of every destination it has affinity for is held by a *)
(* source with affinity for that destination.                               *)
NoJustifiedEnvy ==
    pc = "done" =>
        \A s \in Src, p \in Slot :
            (/\ has_affinity(affinities, s, p[1])
             /\ ~has_affinity(affinities, s, m_src_to_slot[s][1]))
            => /\ m_slot_to_src[p] # SIZE_MAX
               /\ has_affinity(affinities, m_slot_to_src[p], p[1])

(* The result is a stable matching, and of all the stable matchings the one *)
(* that every source likes best; it does not depend on the queue's order.   *)
SourceOptimal ==
    pc = "done" =>
        /\ IsStableMatching(m_nsrcs, m_ndsts, affinities, m_src_to_slot)
        /\ IsSourceOptimal(m_nsrcs, m_ndsts, affinities, m_src_to_slot)

(* The facts the correctness of the result rests on (see                   *)
(* StableMarriageProofs): a slot a source has asked is held by a source    *)
(* the slot likes no less; a source holds the slot it asked last; and no   *)
(* source has been turned away by a slot it has in any stable matching.    *)
AskedSlotsAreTaken ==
    \A s \in Src, p \in Slot :
        Index(s, p) < m_src_next_proposal[s] =>
            /\ m_slot_to_src[p] # SIZE_MAX
            /\ ~m_slot_prefers(affinities, p, s, m_slot_to_src[p])

HeldSlotIsLastAsked ==
    \A s \in Src : m_src_to_slot[s] # NoSlot =>
        Index(s, m_src_to_slot[s]) = m_src_next_proposal[s] - 1

NeverTurnedAwayByStablePartner ==
    \A U \in [Src -> Slot] :
        IsStableMatching(m_nsrcs, m_ndsts, affinities, U) =>
            \A s \in Src : \/ U[s] = m_src_to_slot[s]
                           \/ m_src_next_proposal[s] <= Index(s, U[s])

OutcomeOK ==
    /\ pc = "done" => free_sources = <<>>
    /\ ThrowsOnlyWithoutDestinations

(* The inductive invariant of the solver. *)
IInv ==
    /\ TypeOK
    /\ MatchingConsistent
    /\ AskedSlotsAreTaken
    /\ HeldSlotIsLastAsked
    /\ NeverTurnedAwayByStablePartner
    /\ OutcomeOK

(* The solver implements its one-step specification. *)
ImplementsCloseSpec == Close!Spec

(* qvi_map_close always returns or throws. *)
Termination == <>(pc \in {"done", "throw"})
=============================================================================
