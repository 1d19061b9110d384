------------------------ MODULE StableMarriageProofs ------------------------
(***************************************************************************)
(* The solver of qvi_map_close is correct for every number of sources and  *)
(* destinations and every affinity map.                                    *)
(***************************************************************************)
EXTENDS StableMarriage, MappingProofs

LEMMA NoSlotNotSlot ==
    ASSUME NEW n \in Nat, NEW m \in Nat
    PROVE  NoSlot \notin Slots(n, m)
  BY SlotParts DEF NoSlot

LEMMA SizeMaxNotSource == \A n \in Nat : SIZE_MAX \notin Sources(n)
  BY DEF SIZE_MAX, Sources

LEMMA NprefsNat == ASSUME m_nsrcs \in Nat, m_ndsts \in Nat
                   PROVE  nprefs \in Nat
<1>1. m_slots_per_dst \in Nat
  BY MaxIPerK DEF m_slots_per_dst
<1> QED
  BY <1>1 DEF nprefs

(* Lemma PrefIndex for the solver's own input. *)
LEMMA IndexFacts ==
    ASSUME m_nsrcs \in Nat, m_ndsts \in Nat, NEW src
    PROVE  /\ \A p \in Slot : Index(src, p) \in 0..(nprefs - 1)
           /\ \A p, q \in Slot :
                 src_prefers(m_nsrcs, affinities, src, p, q) <=> Index(src, p) < Index(src, q)
           /\ \A p, q \in Slot : Index(src, p) = Index(src, q) => p = q
           /\ \A i \in 0..(nprefs - 1) : \E p \in Slot : Index(src, p) = i
<1>1. IndexEnumeratesSlots(m_nsrcs, m_ndsts, affinities, src)
  BY PrefIndex
<1> QED
  BY <1>1 DEF IndexEnumeratesSlots, Slot, Index, nprefs, m_slots_per_dst

(* m_src_prefs[src][k] is the slot at index k. *)
LEMMA PrefsAtIndex ==
    ASSUME m_nsrcs \in Nat, m_ndsts \in Nat, NEW src, NEW k \in Nat, k < nprefs
    PROVE  /\ m_src_prefs(src, k) \in Slot
           /\ Index(src, m_src_prefs(src, k)) = k
<1>1. nprefs \in Nat
  BY NprefsNat
<1>2. k \in 0..(nprefs - 1)
  BY <1>1
<1>3. \E slot \in Slot : Index(src, slot) = k
  BY <1>2, IndexFacts
<1> QED
  BY <1>3 DEF m_src_prefs

LEMMA InitIInv == Init => IInv
<1> SUFFICES ASSUME Init PROVE IInv
  OBVIOUS
<1>0. m_nsrcs \in Nat /\ m_ndsts \in Nat
  BY BoundsAssumption DEF Init
<1>1. TypeOK
  <2>1. nprefs \in Nat
    BY <1>0, NprefsNat
  <2>2. free_sources \in Seq(Src)
    <3>1. free_sources \in [1..m_nsrcs -> Src]
      BY <1>0 DEF Init, Src, Sources
    <3> QED
      BY <1>0, <3>1
  <2> QED
    BY <1>0, <2>1, <2>2 DEF Init, TypeOK
<1>2. MatchingConsistent
  <2>1. \A s \in Src, p \in Slot : m_src_to_slot[s] # p /\ m_slot_to_src[p] # s
    BY <1>0, NoSlotNotSlot, SizeMaxNotSource DEF Init, Src, Slot
  <2>2. Len(free_sources) = m_nsrcs /\ \A i \in 1..m_nsrcs : free_sources[i] = i - 1
    BY <1>0 DEF Init
  <2>3. \A s \in Src : s + 1 \in 1..m_nsrcs /\ free_sources[s + 1] = s
    BY <1>0, <2>2 DEF Src, Sources
  <2>4. \A s \in Src : m_src_to_slot[s] = NoSlot
    BY DEF Init
  <2>5. \A i, j \in 1..Len(free_sources) : free_sources[i] = free_sources[j] => i = j
    BY <1>0, <2>2
  <2>6. \A s \in Src : \E i \in 1..Len(free_sources) : free_sources[i] = s
    BY <2>2, <2>3
  <2> QED
    BY <2>1, <2>4, <2>5, <2>6 DEF MatchingConsistent
<1>3. \A s \in Src, p \in Slot : Index(s, p) \in Nat
  BY <1>0, IndexFacts
<1>4. AskedSlotsAreTaken
  BY <1>0, <1>3 DEF Init, AskedSlotsAreTaken
<1>5. HeldSlotIsLastAsked
  BY DEF Init, HeldSlotIsLastAsked
<1>6. NeverTurnedAwayByStablePartner
  BY <1>3 DEF Init, NeverTurnedAwayByStablePartner
<1>7. OutcomeOK
  BY DEF Init, OutcomeOK, ThrowsOnlyWithoutDestinations
<1> QED
  BY <1>1, <1>2, <1>4, <1>5, <1>6, <1>7 DEF IInv

-----------------------------------------------------------------------------
(* The queue. *)

Distinct(q) == \A i, j \in 1..Len(q) : q[i] = q[j] => i = j
Elements(q) == {q[i] : i \in 1..Len(q)}

LEMMA TailFacts ==
    ASSUME NEW S, NEW q \in Seq(S), q # <<>>, Distinct(q)
    PROVE  /\ Head(q) \in S
           /\ Tail(q) \in Seq(S)
           /\ Distinct(Tail(q))
           /\ Elements(Tail(q)) = Elements(q) \ {Head(q)}
           /\ Head(q) \in Elements(q)
<1>1. /\ Len(q) \in Nat /\ Len(q) > 0
      /\ Head(q) = q[1] /\ Head(q) \in S
      /\ Tail(q) \in Seq(S) /\ Len(Tail(q)) = Len(q) - 1
      /\ \A i \in 1..(Len(q) - 1) : Tail(q)[i] = q[i + 1]
  OBVIOUS
<1>2. Distinct(Tail(q))
  BY <1>1 DEF Distinct
<1>3. ASSUME NEW x \in Elements(Tail(q))
      PROVE  x \in Elements(q) \ {Head(q)}
  <2>1. PICK i \in 1..(Len(q) - 1) : x = q[i + 1]
    BY <1>1, <1>3 DEF Elements
  <2>2. i + 1 \in 1..Len(q) /\ 1 \in 1..Len(q) /\ i + 1 # 1
    BY <1>1
  <2> QED
    BY <1>1, <2>1, <2>2 DEF Elements, Distinct
<1>4. ASSUME NEW x \in Elements(q) \ {Head(q)}
      PROVE  x \in Elements(Tail(q))
  <2>1. PICK i \in 1..Len(q) : x = q[i]
    BY DEF Elements
  <2>2. i - 1 \in 1..Len(Tail(q)) /\ Tail(q)[i - 1] = q[i]
    BY <1>1, <1>4, <2>1
  <2> QED
    BY <2>1, <2>2 DEF Elements
<1>5. Head(q) \in Elements(q)
  BY <1>1 DEF Elements
<1>6. Elements(Tail(q)) = Elements(q) \ {Head(q)}
  BY <1>3, <1>4
<1> QED
  BY <1>1, <1>2, <1>5, <1>6

LEMMA AppendFacts ==
    ASSUME NEW S, NEW q \in Seq(S), NEW x \in S, Distinct(q), x \notin Elements(q)
    PROVE  /\ Append(q, x) \in Seq(S)
           /\ Distinct(Append(q, x))
           /\ Elements(Append(q, x)) = Elements(q) \cup {x}
<1>1. /\ Len(q) \in Nat
      /\ Append(q, x) \in Seq(S) /\ Len(Append(q, x)) = Len(q) + 1
      /\ \A i \in 1..Len(q) : Append(q, x)[i] = q[i]
      /\ Append(q, x)[Len(q) + 1] = x
  OBVIOUS
<1>2. Distinct(Append(q, x))
  BY <1>1 DEF Distinct, Elements
<1>3. Elements(Append(q, x)) = Elements(q) \cup {x}
  BY <1>1 DEF Elements
<1> QED
  BY <1>1, <1>2, <1>3

(* MatchingConsistent, in terms of the above. *)
LEMMA ConsistentQueue ==
    MatchingConsistent <=>
        /\ \A s \in Src, p \in Slot : m_src_to_slot[s] = p <=> m_slot_to_src[p] = s
        /\ Distinct(free_sources)
        /\ pc # "throw" =>
              \A s \in Src : m_src_to_slot[s] = NoSlot <=> s \in Elements(free_sources)
  BY DEF MatchingConsistent, Distinct, Elements

-----------------------------------------------------------------------------
(* A proposal changes neither the input nor what is derived from it. *)
LEMMA SameInput ==
    ASSUME UNCHANGED input
    PROVE  /\ Src' = Src /\ Slot' = Slot /\ nprefs' = nprefs
           /\ m_nsrcs' = m_nsrcs /\ m_ndsts' = m_ndsts /\ affinities' = affinities
           /\ \A s, p : Index(s, p)' = Index(s, p)
  BY DEF input, Src, Slot, nprefs, m_slots_per_dst, Index

(* What every proposal starts from, and what it changes whatever comes of  *)
(* it.                                                                     *)
ProposalContext(source, slot) ==
    /\ m_nsrcs \in Nat /\ m_ndsts \in Nat
    /\ m_src_next_proposal \in [Src -> 0..nprefs]
    /\ m_src_to_slot \in [Src -> Slot \cup {NoSlot}]
    /\ m_slot_to_src \in [Slot -> Src \cup {SIZE_MAX}]
    /\ NoSlot \notin Slot /\ SIZE_MAX \notin Src
    /\ \A s \in Src, p \in Slot : m_src_to_slot[s] = p <=> m_slot_to_src[p] = s
    /\ m_src_to_slot[source] = NoSlot
    /\ Index(source, slot) = m_src_next_proposal[source]
    /\ m_src_next_proposal[source] \in Nat
    /\ m_src_next_proposal[source] + 1 \in 0..nprefs

(* Indices as far as the steps below need them. *)
IndexContext ==
    /\ \A x \in Src, p \in Slot : Index(x, p) \in Nat
    /\ \A x \in Src, p, q \in Slot : Index(x, p) = Index(x, q) => p = q
    /\ \A x \in Src, p, q \in Slot :
          Index(x, p) < Index(x, q) => src_prefers(m_nsrcs, affinities, x, p, q)

LEMMA IndexContextHolds == ASSUME m_nsrcs \in Nat, m_ndsts \in Nat
                           PROVE  IndexContext
  BY IndexFacts DEF IndexContext

(* No slot likes two sources equally. *)
SlotOrder ==
    \A p \in Slot, a, b \in Src :
        /\ ~m_slot_prefers(affinities, p, a, a)
        /\ m_slot_prefers(affinities, p, a, b) \/ m_slot_prefers(affinities, p, b, a) \/ a = b
        /\ ~(m_slot_prefers(affinities, p, a, b) /\ m_slot_prefers(affinities, p, b, a))
        /\ \A c \in Src : m_slot_prefers(affinities, p, a, b) /\ m_slot_prefers(affinities, p, b, c)
                            => m_slot_prefers(affinities, p, a, c)

LEMMA SlotOrderHolds == ASSUME m_nsrcs \in Nat PROVE SlotOrder
  BY SlotPrefersOrder DEF SlotOrder, Src

QueueContext(source) ==
    /\ Tail(free_sources) \in Seq(Src)
    /\ Distinct(Tail(free_sources))
    /\ Elements(Tail(free_sources)) = Elements(free_sources) \ {source}
    /\ source \in Elements(free_sources)
    /\ \A s \in Src : m_src_to_slot[s] = NoSlot <=> s \in Elements(free_sources)

ProposalChange(source) ==
    /\ Src' = Src /\ Slot' = Slot /\ nprefs' = nprefs
    /\ m_nsrcs' = m_nsrcs /\ m_ndsts' = m_ndsts /\ affinities' = affinities
    /\ \A s, p : Index(s, p)' = Index(s, p)
    /\ m_src_next_proposal' =
          [m_src_next_proposal EXCEPT ![source] = m_src_next_proposal[source] + 1]
    /\ pc = "solve" /\ pc' = "solve"

LEMMA ProposalFacts ==
    ASSUME IInv, NEW source \in Src, NEW slot \in Slot, Proposes(source, slot)
    PROVE  /\ ProposalContext(source, slot)
           /\ QueueContext(source)
           /\ ProposalChange(source)
<1>1. /\ m_nsrcs \in Nat /\ m_ndsts \in Nat /\ free_sources \in Seq(Src)
      /\ m_src_next_proposal \in [Src -> 0..nprefs]
      /\ m_src_to_slot \in [Src -> Slot \cup {NoSlot}]
      /\ m_slot_to_src \in [Slot -> Src \cup {SIZE_MAX}]
  BY DEF IInv, TypeOK
<1>2. /\ source = Head(free_sources) /\ free_sources # <<>> /\ pc = "solve"
      /\ m_src_next_proposal[source] < nprefs
      /\ slot = m_src_prefs(source, m_src_next_proposal[source])
  BY DEF Proposes
<1>3. /\ Distinct(free_sources)
      /\ \A s \in Src : m_src_to_slot[s] = NoSlot <=> s \in Elements(free_sources)
      /\ \A s \in Src, p \in Slot : m_src_to_slot[s] = p <=> m_slot_to_src[p] = s
  BY <1>2, ConsistentQueue DEF IInv
<1>4. /\ Tail(free_sources) \in Seq(Src)
      /\ Distinct(Tail(free_sources))
      /\ Elements(Tail(free_sources)) = Elements(free_sources) \ {source}
      /\ source \in Elements(free_sources)
  BY <1>1, <1>2, <1>3, TailFacts
<1>5. nprefs \in Nat /\ m_src_next_proposal[source] \in Nat
  BY <1>1, NprefsNat
<1>6. Index(source, slot) = m_src_next_proposal[source]
  BY <1>1, <1>2, <1>5, PrefsAtIndex
<1>7. m_src_next_proposal[source] + 1 \in 0..nprefs
  BY <1>2, <1>5
<1>8. NoSlot \notin Slot /\ SIZE_MAX \notin Src
  BY <1>1, NoSlotNotSlot, SizeMaxNotSource DEF Slot, Src
<1>9. ProposalChange(source)
  BY SameInput DEF Proposes, ProposalChange
<1>10. QueueContext(source)
  BY <1>3, <1>4 DEF QueueContext
<1>11. ProposalContext(source, slot)
  BY <1>1, <1>3, <1>4, <1>5, <1>6, <1>7, <1>8 DEF ProposalContext
<1> QED
  BY <1>9, <1>10, <1>11

(* The parts of the invariant that concern a source other than the one     *)
(* proposing and a slot other than the one asked carry over.               *)
LEMMA FreeStep ==
    ASSUME IInv, NEW source \in Src, NEW slot \in Slot, ProposeToFree(source, slot)
    PROVE  IInv'
<1>0. /\ Proposes(source, slot) /\ m_slot_to_src[slot] = SIZE_MAX
      /\ m_src_to_slot' = [m_src_to_slot EXCEPT ![source] = slot]
      /\ m_slot_to_src' = [m_slot_to_src EXCEPT ![slot] = source]
      /\ free_sources' = Tail(free_sources)
  BY DEF ProposeToFree
<1>1. ProposalContext(source, slot) /\ QueueContext(source) /\ ProposalChange(source)
  BY <1>0, ProposalFacts
<1>i. IndexContext /\ SlotOrder
  BY <1>1, IndexContextHolds, SlotOrderHolds DEF ProposalContext
<1>6. TypeOK'
  BY <1>1, <1>0 DEF TypeOK, QueueContext, ProposalContext, ProposalChange
<1>7. MatchingConsistent'
  <2>1. \A s \in Src, p \in Slot : m_src_to_slot'[s] = p <=> m_slot_to_src'[p] = s
    BY <1>1, <1>0 DEF ProposalContext, ProposalChange
  <2>2. \A s \in Src : m_src_to_slot'[s] = NoSlot <=> s \in Elements(free_sources')
    BY <1>1, <1>0 DEF QueueContext, ProposalContext, ProposalChange
  <2>3. Distinct(free_sources')
    BY <1>1, <1>0 DEF QueueContext, ProposalContext, ProposalChange
  <2> QED
    BY <1>1, <2>1, <2>2, <2>3 DEF MatchingConsistent, Distinct, Elements, ProposalContext, ProposalChange
<1>8. AskedSlotsAreTaken'
  <2> SUFFICES ASSUME NEW s \in Src, NEW p \in Slot,
                      Index(s, p) < m_src_next_proposal'[s]
               PROVE  /\ m_slot_to_src'[p] # SIZE_MAX
                      /\ ~m_slot_prefers(affinities, p, s, m_slot_to_src'[p])
    BY <1>1 DEF AskedSlotsAreTaken, ProposalContext, ProposalChange
  <2>1. Index(s, p) \in Nat
    BY <1>i DEF IndexContext
  <2>2. CASE p = slot
    <3>1. s = source
      BY <1>1, <1>0, <2>1, <2>2 DEF IInv, AskedSlotsAreTaken, ProposalContext, ProposalChange
    <3> QED
      BY <1>1, <3>1, <2>2, <1>0, <1>i DEF SlotOrder, ProposalContext, ProposalChange
  <2>3. CASE p # slot
    <3>1. m_slot_to_src'[p] = m_slot_to_src[p]
      BY <1>1, <2>3, <1>0 DEF ProposalContext, ProposalChange
    <3>2. Index(s, p) # Index(s, slot)
      BY <2>3, <1>i DEF IndexContext
    <3>3. Index(s, p) < m_src_next_proposal[s]
      BY <1>1, <2>1, <3>2 DEF ProposalContext, ProposalChange
    <3> QED
      BY <1>1, <3>1, <3>3 DEF IInv, AskedSlotsAreTaken, ProposalContext, ProposalChange
  <2> QED
    BY <2>2, <2>3
<1>9. HeldSlotIsLastAsked'
  <2> SUFFICES ASSUME NEW s \in Src, m_src_to_slot'[s] # NoSlot
               PROVE  Index(s, m_src_to_slot'[s]) = m_src_next_proposal'[s] - 1
    BY <1>1 DEF HeldSlotIsLastAsked, ProposalContext, ProposalChange
  <2>1. CASE s = source
    BY <1>1, <2>1, <1>0 DEF ProposalContext, ProposalChange
  <2>2. CASE s # source
    BY <1>1, <2>2, <1>0 DEF IInv, HeldSlotIsLastAsked, ProposalContext, ProposalChange
  <2> QED
    BY <2>1, <2>2
<1>10. NeverTurnedAwayByStablePartner'
  <2> SUFFICES ASSUME NEW U \in [Src -> Slot], NEW s \in Src,
                      IsStableMatching(m_nsrcs, m_ndsts, affinities, U)
               PROVE  \/ U[s] = m_src_to_slot'[s]
                      \/ m_src_next_proposal'[s] <= Index(s, U[s])
    BY <1>1 DEF NeverTurnedAwayByStablePartner, ProposalContext, ProposalChange
  <2>1. U[s] = m_src_to_slot[s] \/ m_src_next_proposal[s] <= Index(s, U[s])
    BY <1>1 DEF IInv, NeverTurnedAwayByStablePartner, ProposalContext, ProposalChange
  <2>2. Index(s, U[s]) \in Nat /\ (Index(s, U[s]) = Index(s, slot) => U[s] = slot)
    BY <1>i DEF IndexContext
  <2>3. CASE s = source
    BY <1>1, <2>1, <2>2, <2>3, <1>0 DEF ProposalContext, ProposalChange
  <2>4. CASE s # source
    BY <1>1, <2>1, <2>4, <1>0 DEF ProposalContext, ProposalChange
  <2> QED
    BY <2>3, <2>4
<1>11. OutcomeOK'
  BY <1>1 DEF OutcomeOK, ThrowsOnlyWithoutDestinations, ProposalContext, ProposalChange
<1> QED
  BY <1>6, <1>7, <1>8, <1>9, <1>10, <1>11 DEF IInv

(* An eviction turns the old holder away.  If the slot were its partner in *)
(* a stable matching U, the proposing source - not turned away by its own  *)
(* partner in U - would prefer this slot to that partner, and block U.     *)
LEMMA EvictStep ==
    ASSUME IInv, NEW source \in Src, NEW slot \in Slot, ProposeAndEvict(source, slot)
    PROVE  IInv'
<1> DEFINE old == m_slot_to_src[slot]
<1>0. /\ Proposes(source, slot) /\ old # SIZE_MAX
      /\ m_slot_prefers(affinities, slot, source, old)
      /\ m_src_to_slot' = [m_src_to_slot EXCEPT ![source] = slot, ![old] = NoSlot]
      /\ m_slot_to_src' = [m_slot_to_src EXCEPT ![slot] = source]
      /\ free_sources' = Append(Tail(free_sources), old)
  BY DEF ProposeAndEvict
<1>1. ProposalContext(source, slot) /\ QueueContext(source) /\ ProposalChange(source)
  BY <1>0, ProposalFacts
<1>i. IndexContext /\ SlotOrder
  BY <1>1, IndexContextHolds, SlotOrderHolds DEF ProposalContext
<1>2. old \in Src /\ m_src_to_slot[old] = slot /\ old # source
  BY <1>1, <1>0 DEF ProposalContext, ProposalChange
<1> HIDE DEF old
<1>3. /\ Append(Tail(free_sources), old) \in Seq(Src)
      /\ Distinct(Append(Tail(free_sources), old))
      /\ Elements(Append(Tail(free_sources), old))
            = (Elements(free_sources) \ {source}) \cup {old}
  <2> DEFINE q == Tail(free_sources)
  <2>1. q \in Seq(Src) /\ Distinct(q) /\ Elements(q) = Elements(free_sources) \ {source}
    BY <1>1 DEF QueueContext
  <2>2. old \notin Elements(q)
    BY <1>1, <1>2, <2>1 DEF QueueContext, ProposalContext
  <2> HIDE DEF q
  <2>3. /\ Append(q, old) \in Seq(Src) /\ Distinct(Append(q, old))
        /\ Elements(Append(q, old)) = Elements(q) \cup {old}
    BY <1>2, <2>1, <2>2, AppendFacts
  <2> QED
    BY <2>1, <2>3 DEF q
<1>6. TypeOK'
  BY <1>1, <1>0, <1>2, <1>3 DEF TypeOK, ProposalContext, ProposalChange
<1>7. MatchingConsistent'
  <2>1. \A s \in Src, p \in Slot : m_src_to_slot'[s] = p <=> m_slot_to_src'[p] = s
    BY <1>1, <1>0, <1>2 DEF old, ProposalContext, ProposalChange
  <2>2. \A s \in Src : m_src_to_slot'[s] = NoSlot <=> s \in Elements(free_sources')
    BY <1>1, <1>0, <1>2, <1>3 DEF QueueContext, ProposalContext, ProposalChange
  <2>3. Distinct(free_sources')
    BY <1>1, <1>0, <1>3 DEF ProposalContext, ProposalChange
  <2> QED
    BY <1>1, <2>1, <2>2, <2>3 DEF MatchingConsistent, Distinct, Elements, ProposalContext, ProposalChange
<1>8. AskedSlotsAreTaken'
  <2> SUFFICES ASSUME NEW s \in Src, NEW p \in Slot,
                      Index(s, p) < m_src_next_proposal'[s]
               PROVE  /\ m_slot_to_src'[p] # SIZE_MAX
                      /\ ~m_slot_prefers(affinities, p, s, m_slot_to_src'[p])
    BY <1>1 DEF AskedSlotsAreTaken, ProposalContext, ProposalChange
  <2>1. Index(s, p) \in Nat
    BY <1>i DEF IndexContext
  <2>2. CASE p = slot
    <3>1. m_slot_to_src'[p] = source
      BY <1>1, <2>2, <1>0 DEF ProposalContext, ProposalChange
    <3>2. s # source => ~m_slot_prefers(affinities, slot, s, old)
      BY <1>1, <2>2 DEF IInv, AskedSlotsAreTaken, old, ProposalContext, ProposalChange
    <3> QED
      BY <1>1, <2>2, <3>1, <3>2, <1>0, <1>2, <1>i DEF SlotOrder, ProposalContext, ProposalChange
  <2>3. CASE p # slot
    <3>1. m_slot_to_src'[p] = m_slot_to_src[p]
      BY <1>1, <2>3, <1>0 DEF ProposalContext, ProposalChange
    <3>2. Index(s, p) # Index(s, slot)
      BY <2>3, <1>i DEF IndexContext
    <3>3. Index(s, p) < m_src_next_proposal[s]
      BY <1>1, <2>1, <3>2 DEF ProposalContext, ProposalChange
    <3> QED
      BY <1>1, <3>1, <3>3 DEF IInv, AskedSlotsAreTaken, ProposalContext, ProposalChange
  <2> QED
    BY <2>2, <2>3
<1>9. HeldSlotIsLastAsked'
  <2> SUFFICES ASSUME NEW s \in Src, m_src_to_slot'[s] # NoSlot
               PROVE  Index(s, m_src_to_slot'[s]) = m_src_next_proposal'[s] - 1
    BY <1>1 DEF HeldSlotIsLastAsked, ProposalContext, ProposalChange
  <2>1. CASE s = source
    BY <1>1, <2>1, <1>0, <1>2 DEF ProposalContext, ProposalChange
  <2>2. CASE s # source
    BY <1>1, <2>2, <1>0, <1>2 DEF IInv, HeldSlotIsLastAsked, ProposalContext, ProposalChange
  <2> QED
    BY <2>1, <2>2
<1>10. NeverTurnedAwayByStablePartner'
  <2> SUFFICES ASSUME NEW U \in [Src -> Slot], NEW s \in Src,
                      IsStableMatching(m_nsrcs, m_ndsts, affinities, U)
               PROVE  \/ U[s] = m_src_to_slot'[s]
                      \/ m_src_next_proposal'[s] <= Index(s, U[s])
    BY <1>1 DEF NeverTurnedAwayByStablePartner, ProposalContext, ProposalChange
  <2>1. \A x \in Src : U[x] = m_src_to_slot[x] \/ m_src_next_proposal[x] <= Index(x, U[x])
    BY <1>1 DEF IInv, NeverTurnedAwayByStablePartner, ProposalContext, ProposalChange
  <2>2. \A x \in Src : /\ Index(x, U[x]) \in Nat
                       /\ Index(x, U[x]) = Index(x, slot) => U[x] = slot
                       /\ Index(x, slot) < Index(x, U[x]) =>
                             src_prefers(m_nsrcs, affinities, x, slot, U[x])
    BY <1>i DEF IndexContext
  <2>3. CASE s = source
    BY <1>1, <2>1, <2>2, <2>3, <1>0, <1>2 DEF ProposalContext, ProposalChange
  <2>4. CASE s = old
    <3>1. SUFFICES ASSUME U[old] = slot PROVE FALSE
      BY <1>1, <2>1, <2>4, <1>0, <1>2 DEF ProposalContext, ProposalChange
    <3>2. U[source] # slot
      BY <1>1, <1>2, <3>1 DEF IsStableMatching, Src, ProposalContext, ProposalChange
    <3>3. Index(source, slot) < Index(source, U[source])
      BY <1>1, <2>1, <2>2, <3>2 DEF ProposalContext, ProposalChange
    <3>4. src_prefers(m_nsrcs, affinities, source, slot, U[source])
      BY <1>1, <2>2, <3>3 DEF ProposalContext, ProposalChange
    <3>5. PICK o \in Src : U[o] = slot /\ ~m_slot_prefers(affinities, slot, source, o)
      BY <1>1, <3>4 DEF IsStableMatching, Src, Slot, ProposalContext, ProposalChange
    <3>6. o = old
      BY <1>1, <1>2, <3>1, <3>5 DEF IsStableMatching, Src, ProposalContext, ProposalChange
    <3> QED
      BY <1>0, <3>5, <3>6
  <2>5. CASE s # source /\ s # old
    BY <1>1, <2>1, <2>5, <1>0, <1>2 DEF ProposalContext, ProposalChange
  <2> QED
    BY <2>3, <2>4, <2>5
<1>11. OutcomeOK'
  BY <1>1 DEF OutcomeOK, ThrowsOnlyWithoutDestinations, ProposalContext, ProposalChange
<1> QED
  BY <1>6, <1>7, <1>8, <1>9, <1>10, <1>11 DEF IInv

(* A rejection turns the proposing source away.  If the slot were its      *)
(* partner in a stable matching U, the slot's holder would block U.        *)
LEMMA RejectStep ==
    ASSUME IInv, NEW source \in Src, NEW slot \in Slot, ProposeRejected(source, slot)
    PROVE  IInv'
<1> DEFINE holder == m_slot_to_src[slot]
<1>0. /\ Proposes(source, slot) /\ holder # SIZE_MAX
      /\ ~m_slot_prefers(affinities, slot, source, holder)
      /\ m_src_to_slot' = m_src_to_slot
      /\ m_slot_to_src' = m_slot_to_src
      /\ free_sources' = Append(Tail(free_sources), source)
  BY DEF ProposeRejected, matching
<1>1. ProposalContext(source, slot) /\ QueueContext(source) /\ ProposalChange(source)
  BY <1>0, ProposalFacts
<1>i. IndexContext /\ SlotOrder
  BY <1>1, IndexContextHolds, SlotOrderHolds DEF ProposalContext
<1>2. holder \in Src /\ m_src_to_slot[holder] = slot /\ holder # source
  BY <1>1, <1>0 DEF ProposalContext, ProposalChange
<1> HIDE DEF holder
<1>3. /\ Append(Tail(free_sources), source) \in Seq(Src)
      /\ Distinct(Append(Tail(free_sources), source))
      /\ Elements(Append(Tail(free_sources), source)) = Elements(free_sources)
  <2> DEFINE q == Tail(free_sources)
  <2>1. q \in Seq(Src) /\ Distinct(q) /\ Elements(q) = Elements(free_sources) \ {source}
        /\ source \in Elements(free_sources)
    BY <1>1 DEF QueueContext
  <2> HIDE DEF q
  <2>2. /\ Append(q, source) \in Seq(Src) /\ Distinct(Append(q, source))
        /\ Elements(Append(q, source)) = Elements(q) \cup {source}
    BY <2>1, AppendFacts
  <2> QED
    BY <2>1, <2>2 DEF q
<1>6. TypeOK'
  BY <1>1, <1>0, <1>3 DEF TypeOK, IInv, ProposalContext, ProposalChange
<1>7. MatchingConsistent'
  <2>1. \A s \in Src, p \in Slot : m_src_to_slot'[s] = p <=> m_slot_to_src'[p] = s
    BY <1>1, <1>0 DEF ProposalContext, ProposalChange
  <2>2. \A s \in Src : m_src_to_slot'[s] = NoSlot <=> s \in Elements(free_sources')
    BY <1>1, <1>0, <1>3 DEF QueueContext, ProposalContext, ProposalChange
  <2>3. Distinct(free_sources')
    BY <1>1, <1>0, <1>3 DEF ProposalContext, ProposalChange
  <2> QED
    BY <1>1, <2>1, <2>2, <2>3 DEF MatchingConsistent, Distinct, Elements, ProposalContext, ProposalChange
<1>8. AskedSlotsAreTaken'
  <2> SUFFICES ASSUME NEW s \in Src, NEW p \in Slot,
                      Index(s, p) < m_src_next_proposal'[s]
               PROVE  /\ m_slot_to_src[p] # SIZE_MAX
                      /\ ~m_slot_prefers(affinities, p, s, m_slot_to_src[p])
    BY <1>1, <1>0 DEF AskedSlotsAreTaken, ProposalContext, ProposalChange
  <2>1. Index(s, p) \in Nat /\ (p # slot => Index(s, p) # Index(s, slot))
    BY <1>i DEF IndexContext
  <2>2. CASE s = source /\ p = slot
    BY <1>1, <2>2, <1>0 DEF holder, ProposalContext, ProposalChange
  <2>3. CASE s # source \/ p # slot
    <3>1. Index(s, p) < m_src_next_proposal[s]
      BY <1>1, <2>1, <2>3 DEF ProposalContext, ProposalChange
    <3> QED
      BY <1>1, <3>1 DEF IInv, AskedSlotsAreTaken, ProposalContext, ProposalChange
  <2> QED
    BY <2>2, <2>3
<1>9. HeldSlotIsLastAsked'
  BY <1>1, <1>0 DEF HeldSlotIsLastAsked, IInv, ProposalContext, ProposalChange
<1>10. NeverTurnedAwayByStablePartner'
  <2> SUFFICES ASSUME NEW U \in [Src -> Slot], NEW s \in Src,
                      IsStableMatching(m_nsrcs, m_ndsts, affinities, U)
               PROVE  \/ U[s] = m_src_to_slot[s]
                      \/ m_src_next_proposal'[s] <= Index(s, U[s])
    BY <1>1, <1>0 DEF NeverTurnedAwayByStablePartner, ProposalContext, ProposalChange
  <2>1. \A x \in Src : U[x] = m_src_to_slot[x] \/ m_src_next_proposal[x] <= Index(x, U[x])
    BY <1>1 DEF IInv, NeverTurnedAwayByStablePartner, ProposalContext, ProposalChange
  <2>2. \A x \in Src : /\ Index(x, U[x]) \in Nat /\ Index(x, slot) \in Nat
                       /\ Index(x, U[x]) = Index(x, slot) => U[x] = slot
                       /\ Index(x, slot) < Index(x, U[x]) =>
                             src_prefers(m_nsrcs, affinities, x, slot, U[x])
    BY <1>i DEF IndexContext
  <2>3. CASE s = source
    <3>1. SUFFICES ASSUME U[source] = slot PROVE FALSE
      BY <1>1, <2>1, <2>2, <2>3 DEF ProposalContext, ProposalChange
    <3>2. U[holder] # slot
      BY <1>1, <1>2, <3>1 DEF IsStableMatching, Src, ProposalContext, ProposalChange
    <3>3. Index(holder, slot) < m_src_next_proposal[holder]
      <4>1. Index(holder, slot) = m_src_next_proposal[holder] - 1
        BY <1>1, <1>2 DEF IInv, HeldSlotIsLastAsked, ProposalContext
      <4>2. m_src_next_proposal[holder] \in Int
        BY <1>1, <1>2 DEF ProposalContext
      <4> QED
        BY <4>1, <4>2
    <3>4. Index(holder, slot) < Index(holder, U[holder])
      BY <1>1, <2>1, <2>2, <3>2, <3>3, <1>2 DEF ProposalContext, ProposalChange
    <3>5. src_prefers(m_nsrcs, affinities, holder, slot, U[holder])
      BY <1>1, <2>2, <3>4, <1>2 DEF ProposalContext, ProposalChange
    <3>6. PICK o \in Src : U[o] = slot /\ ~m_slot_prefers(affinities, slot, holder, o)
      BY <1>1, <3>5, <1>2 DEF IsStableMatching, Src, Slot, ProposalContext, ProposalChange
    <3>7. o = source
      BY <1>1, <3>1, <3>6 DEF IsStableMatching, Src, ProposalContext, ProposalChange
    <3> QED
      BY <1>1, <1>0, <1>2, <3>6, <3>7, <1>i DEF SlotOrder, ProposalContext, ProposalChange
  <2>4. CASE s # source
    BY <1>1, <2>1, <2>4 DEF ProposalContext, ProposalChange
  <2> QED
    BY <2>3, <2>4
<1>11. OutcomeOK'
  BY <1>1 DEF OutcomeOK, ThrowsOnlyWithoutDestinations, ProposalContext, ProposalChange
<1> QED
  BY <1>6, <1>7, <1>8, <1>9, <1>10, <1>11 DEF IInv

(* A source that has asked every slot in vain would leave every slot held  *)
(* by another source: more slots than there are others.                    *)
LEMMA ExhaustedStep == ASSUME IInv, Exhausted PROVE IInv'
<1> DEFINE s == Head(free_sources)
<1>0. /\ pc = "solve" /\ free_sources # <<>>
      /\ m_src_next_proposal[s] >= nprefs
      /\ free_sources' = Tail(free_sources) /\ pc' = "throw"
      /\ m_src_to_slot' = m_src_to_slot /\ m_slot_to_src' = m_slot_to_src
      /\ m_src_next_proposal' = m_src_next_proposal
  BY DEF Exhausted, matching
<1>1. /\ Src' = Src /\ Slot' = Slot /\ nprefs' = nprefs
      /\ m_nsrcs' = m_nsrcs /\ m_ndsts' = m_ndsts /\ affinities' = affinities
      /\ \A x, p : Index(x, p)' = Index(x, p)
  BY SameInput DEF Exhausted
<1>2. /\ m_nsrcs \in Nat /\ m_ndsts \in Nat /\ free_sources \in Seq(Src)
      /\ m_src_next_proposal \in [Src -> 0..nprefs]
      /\ m_slot_to_src \in [Slot -> Src \cup {SIZE_MAX}]
  BY DEF IInv, TypeOK
<1>3. /\ Distinct(free_sources)
      /\ \A x \in Src : m_src_to_slot[x] = NoSlot <=> x \in Elements(free_sources)
      /\ \A x \in Src, p \in Slot : m_src_to_slot[x] = p <=> m_slot_to_src[p] = x
  BY <1>0, ConsistentQueue DEF IInv
<1>4. /\ s \in Src /\ s \in Elements(free_sources)
      /\ Tail(free_sources) \in Seq(Src) /\ Distinct(Tail(free_sources))
  BY <1>0, <1>2, <1>3, TailFacts
<1>5. m_src_to_slot[s] = NoSlot
  BY <1>3, <1>4
<1> HIDE DEF s
<1>6. NoSlot \notin Slot
  BY <1>2, NoSlotNotSlot DEF Slot
<1>7. \A p \in Slot : m_slot_to_src[p] \in Src \ {s}
  <2> SUFFICES ASSUME NEW p \in Slot
               PROVE  m_slot_to_src[p] \in Src \ {s}
    OBVIOUS
  <2>1. Index(s, p) \in 0..(nprefs - 1)
    BY <1>2, IndexFacts
  <2>2. Index(s, p) < m_src_next_proposal[s]
    <3>1. nprefs \in Nat /\ m_src_next_proposal[s] \in Nat
      BY <1>2, <1>4, NprefsNat
    <3> QED
      BY <1>0, <2>1, <3>1
  <2>3. m_slot_to_src[p] # SIZE_MAX
    BY <1>4, <2>2 DEF IInv, AskedSlotsAreTaken
  <2>4. m_slot_to_src[p] # s
    BY <1>3, <1>4, <1>5, <1>6
  <2> QED
    BY <1>2, <2>3, <2>4
<1>8. m_nsrcs > 0
  BY <1>2, <1>4 DEF Src, Sources
<1>9. m_ndsts = 0
  <2> SUFFICES ASSUME m_ndsts > 0 PROVE FALSE
    BY <1>2
  <2>1. m_slot_to_src \in Injection(Slot, Src \ {s})
    BY <1>2, <1>3, <1>7 DEF Injection, IsInjective
  <2>2. IsFiniteSet(Src) /\ Cardinality(Src) = m_nsrcs
    BY <1>2, FS_Interval DEF Src, Sources
  <2>3. IsFiniteSet(Src \ {s}) /\ Cardinality(Src \ {s}) = m_nsrcs - 1
    BY <1>4, <2>2, FS_RemoveElement
  <2>4. Cardinality(Slot) <= m_nsrcs - 1
    BY <2>1, <2>3, FS_Injection
  <2>5. Cardinality(Slot) = nprefs
    BY <1>2, SlotsFinite DEF Slot, nprefs, m_slots_per_dst
  <2>6. m_nsrcs <= nprefs
    BY <1>2, MaxIPerK DEF nprefs, m_slots_per_dst
  <2>7. nprefs \in Nat
    BY <1>2, NprefsNat
  <2> QED
    BY <1>2, <2>4, <2>5, <2>6, <2>7
<1>10. TypeOK'
  BY <1>0, <1>1, <1>4 DEF IInv, TypeOK
<1>11. MatchingConsistent'
  BY <1>0, <1>1, <1>3, <1>4 DEF MatchingConsistent, Distinct
<1>12. AskedSlotsAreTaken' /\ HeldSlotIsLastAsked' /\ NeverTurnedAwayByStablePartner'
  BY <1>0, <1>1 DEF IInv, AskedSlotsAreTaken, HeldSlotIsLastAsked,
                    NeverTurnedAwayByStablePartner
<1>13. OutcomeOK'
  BY <1>0, <1>1, <1>8, <1>9 DEF OutcomeOK, ThrowsOnlyWithoutDestinations
<1> QED
  BY <1>10, <1>11, <1>12, <1>13 DEF IInv

(* When the queue is empty every source is matched, and the check of       *)
(* stable() succeeds.                                                      *)
LEMMA EmptyQueueStable ==
    ASSUME IInv, pc # "throw", free_sources = <<>>
    PROVE  /\ \A s \in Src : m_src_to_slot[s] \in Slot
           /\ stable
<1>1. /\ m_nsrcs \in Nat /\ m_ndsts \in Nat
      /\ m_src_to_slot \in [Src -> Slot \cup {NoSlot}]
      /\ m_src_next_proposal \in [Src -> 0..nprefs]
  BY DEF IInv, TypeOK
<1>2. \A s \in Src : m_src_to_slot[s] # NoSlot
  <2>1. Elements(free_sources) = {}
    BY DEF Elements
  <2> QED
    BY <2>1, ConsistentQueue DEF IInv
<1>3. \A s \in Src : m_src_to_slot[s] \in Slot
  BY <1>1, <1>2
<1>4. ASSUME NEW s \in Src, NEW p \in Slot,
             src_prefers(m_nsrcs, affinities, s, p, m_src_to_slot[s])
      PROVE  /\ m_slot_to_src[p] # SIZE_MAX
             /\ ~m_slot_prefers(affinities, p, s, m_slot_to_src[p])
  <2>1. /\ Index(s, p) \in Int
        /\ Index(s, p) < Index(s, m_src_to_slot[s])
    BY <1>1, <1>3, <1>4, IndexFacts
  <2>2. Index(s, m_src_to_slot[s]) = m_src_next_proposal[s] - 1
    BY <1>2 DEF IInv, HeldSlotIsLastAsked
  <2>3. m_src_next_proposal[s] \in Int
    BY <1>1
  <2>4. Index(s, p) < m_src_next_proposal[s]
    BY <2>1, <2>2, <2>3
  <2> QED
    BY <2>4 DEF IInv, AskedSlotsAreTaken
<1> QED
  BY <1>2, <1>3, <1>4 DEF stable

LEMMA VerifyStep == ASSUME IInv, Verify PROVE IInv'
<1>0. /\ pc = "solve" /\ free_sources = <<>> /\ free_sources' = free_sources
      /\ m_src_to_slot' = m_src_to_slot /\ m_slot_to_src' = m_slot_to_src
      /\ m_src_next_proposal' = m_src_next_proposal
  BY DEF Verify, matching
<1>1. /\ Src' = Src /\ Slot' = Slot /\ nprefs' = nprefs
      /\ m_nsrcs' = m_nsrcs /\ m_ndsts' = m_ndsts /\ affinities' = affinities
      /\ \A x, p : Index(x, p)' = Index(x, p)
  BY SameInput DEF Verify
<1>2. pc' = "done"
  <2>1. stable
    BY <1>0, EmptyQueueStable
  <2> QED
    BY <2>1 DEF Verify
<1>3. TypeOK'
  BY <1>0, <1>1, <1>2 DEF IInv, TypeOK
<1>4. MatchingConsistent'
  BY <1>0, <1>1, <1>2 DEF IInv, MatchingConsistent
<1>5. AskedSlotsAreTaken' /\ HeldSlotIsLastAsked' /\ NeverTurnedAwayByStablePartner'
  BY <1>0, <1>1 DEF IInv, AskedSlotsAreTaken, HeldSlotIsLastAsked,
                    NeverTurnedAwayByStablePartner
<1>6. OutcomeOK'
  BY <1>0, <1>1, <1>2 DEF OutcomeOK, ThrowsOnlyWithoutDestinations
<1> QED
  BY <1>3, <1>4, <1>5, <1>6 DEF IInv

LEMMA StutterStep == ASSUME IInv, UNCHANGED vars PROVE IInv'
<1>1. /\ Src' = Src /\ Slot' = Slot /\ nprefs' = nprefs
      /\ m_nsrcs' = m_nsrcs /\ m_ndsts' = m_ndsts /\ affinities' = affinities
      /\ \A x, p : Index(x, p)' = Index(x, p)
  BY SameInput DEF vars, input
<1> QED
  BY <1>1 DEF vars, IInv, TypeOK, MatchingConsistent, AskedSlotsAreTaken,
              HeldSlotIsLastAsked, NeverTurnedAwayByStablePartner, OutcomeOK,
              ThrowsOnlyWithoutDestinations

LEMMA IInvPreserved == IInv /\ [Next]_vars => IInv'
<1> SUFFICES ASSUME IInv, [Next]_vars PROVE IInv'
  OBVIOUS
<1>1. ASSUME NEW source \in Src, NEW slot \in Slot, ProposeToFree(source, slot)
      PROVE  IInv'
  BY <1>1, FreeStep
<1>2. ASSUME NEW source \in Src, NEW slot \in Slot, ProposeAndEvict(source, slot)
      PROVE  IInv'
  BY <1>2, EvictStep
<1>3. ASSUME NEW source \in Src, NEW slot \in Slot, ProposeRejected(source, slot)
      PROVE  IInv'
  BY <1>3, RejectStep
<1>4. CASE Exhausted
  BY <1>4, ExhaustedStep
<1>5. CASE Verify
  BY <1>5, VerifyStep
<1>6. CASE UNCHANGED vars
  BY <1>6, StutterStep
<1> QED
  BY <1>1, <1>2, <1>3, <1>4, <1>5, <1>6 DEF Next

-----------------------------------------------------------------------------
(* IInv is an invariant of the solver. *)
THEOREM IInvInvariant == Spec => []IInv
<1> QED
  BY InitIInv, IInvPreserved, PTL DEF Spec

(* Every reachable state of the solver is type correct. *)
THEOREM TypeCorrect == Spec => []TypeOK
<1>1. IInv => TypeOK
  BY DEF IInv
<1> QED
  BY <1>1, IInvInvariant, PTL

(* The maps of solve() stay inverse to each other and no source is lost.   *)
THEOREM Consistent == Spec => []MatchingConsistent
<1>1. IInv => MatchingConsistent
  BY DEF IInv
<1> QED
  BY <1>1, IInvInvariant, PTL

(* Neither the exhaustion of a preference list nor a failed check of       *)
(* stable() can happen when there is at least one destination.             *)
THEOREM ThrowsOnlyIfNoDestination == Spec => []ThrowsOnlyWithoutDestinations
<1>1. IInv => ThrowsOnlyWithoutDestinations
  BY DEF IInv, OutcomeOK
<1> QED
  BY <1>1, IInvInvariant, PTL

(* The solver's result in a state that satisfies the invariant. *)
LEMMA DoneOptimal == IInv => SourceOptimal
<1> SUFFICES ASSUME IInv, pc = "done"
             PROVE  /\ IsStableMatching(m_nsrcs, m_ndsts, affinities, m_src_to_slot)
                    /\ IsSourceOptimal(m_nsrcs, m_ndsts, affinities, m_src_to_slot)
  BY DEF SourceOptimal
<1>1. /\ m_nsrcs \in Nat /\ m_ndsts \in Nat
      /\ m_src_to_slot \in [Src -> Slot \cup {NoSlot}]
      /\ m_slot_to_src \in [Slot -> Src \cup {SIZE_MAX}]
      /\ m_src_next_proposal \in [Src -> 0..nprefs]
  BY DEF IInv, TypeOK
<1>2. (\A s \in Src : m_src_to_slot[s] \in Slot) /\ stable
  BY EmptyQueueStable DEF IInv, OutcomeOK
<1>3. m_src_to_slot \in [Src -> Slot]
  BY <1>1, <1>2
<1>4. \A s \in Src, p \in Slot : m_src_to_slot[s] = p <=> m_slot_to_src[p] = s
  BY DEF IInv, MatchingConsistent
<1>5. \A s1, s2 \in Src : m_src_to_slot[s1] = m_src_to_slot[s2] => s1 = s2
  BY <1>3, <1>4
<1>6. ASSUME NEW s \in Src, NEW p \in Slot,
             src_prefers(m_nsrcs, affinities, s, p, m_src_to_slot[s])
      PROVE  \E o \in Src : m_src_to_slot[o] = p /\ ~m_slot_prefers(affinities, p, s, o)
  <2>1. /\ m_slot_to_src[p] # SIZE_MAX
        /\ ~m_slot_prefers(affinities, p, s, m_slot_to_src[p])
    BY <1>2, <1>6 DEF stable
  <2>2. m_slot_to_src[p] \in Src
    BY <1>1, <2>1
  <2>3. m_src_to_slot[m_slot_to_src[p]] = p
    BY <1>4, <2>2
  <2> QED
    BY <2>1, <2>2, <2>3
<1>7. IsStableMatching(m_nsrcs, m_ndsts, affinities, m_src_to_slot)
  BY <1>3, <1>5, <1>6 DEF IsStableMatching, Src, Slot
<1>8. ASSUME NEW U \in [Src -> Slot], NEW s \in Src,
             IsStableMatching(m_nsrcs, m_ndsts, affinities, U)
      PROVE  ~src_prefers(m_nsrcs, affinities, s, U[s], m_src_to_slot[s])
  <2>1. U[s] = m_src_to_slot[s] \/ m_src_next_proposal[s] <= Index(s, U[s])
    BY <1>8 DEF IInv, NeverTurnedAwayByStablePartner
  <2>2. m_src_to_slot[s] # NoSlot
    BY <1>1, <1>2, NoSlotNotSlot DEF Slot
  <2>3. Index(s, m_src_to_slot[s]) = m_src_next_proposal[s] - 1
    BY <2>2 DEF IInv, HeldSlotIsLastAsked
  <2>4. /\ Index(s, U[s]) \in Int
        /\ src_prefers(m_nsrcs, affinities, s, U[s], m_src_to_slot[s])
              <=> Index(s, U[s]) < Index(s, m_src_to_slot[s])
    BY <1>1, <1>3, IndexFacts
  <2>5. m_src_next_proposal[s] \in Int
    BY <1>1
  <2>6. ~(Index(s, U[s]) < Index(s, m_src_to_slot[s]))
    BY <2>1, <2>3, <2>4, <2>5
  <2> QED
    BY <2>4, <2>6
<1>9. IsSourceOptimal(m_nsrcs, m_ndsts, affinities, m_src_to_slot)
  BY <1>8 DEF IsSourceOptimal, Src, Slot
<1> QED
  BY <1>7, <1>9

(* qvi_map_close returns a stable matching, and the one of them that every *)
(* source likes best.                                                      *)
THEOREM Optimal == Spec => []SourceOptimal
<1> QED
  BY DoneOptimal, IInvInvariant, PTL

(* No source is put on a destination it has no affinity for while a slot   *)
(* of one it has affinity for is free or held without affinity.            *)
THEOREM NoEnvy == Spec => []NoJustifiedEnvy
<1>1. IInv => NoJustifiedEnvy
  <2> SUFFICES ASSUME IInv, pc = "done", NEW s \in Src, NEW p \in Slot,
                      has_affinity(affinities, s, p[1]),
                      ~has_affinity(affinities, s, m_src_to_slot[s][1])
               PROVE  /\ m_slot_to_src[p] # SIZE_MAX
                      /\ has_affinity(affinities, m_slot_to_src[p], p[1])
    BY DEF NoJustifiedEnvy
  <2>1. stable
    BY EmptyQueueStable DEF IInv, OutcomeOK
  <2>2. src_prefers(m_nsrcs, affinities, s, p, m_src_to_slot[s])
    BY DEF src_prefers
  <2>3. /\ m_slot_to_src[p] # SIZE_MAX
        /\ ~m_slot_prefers(affinities, p, s, m_slot_to_src[p])
    BY <2>1, <2>2 DEF stable
  <2> QED
    BY <2>3 DEF m_slot_prefers
<1> QED
  BY <1>1, IInvInvariant, PTL

(* The mapping covers every source and loads no destination with more than *)
(* its even share, rounded up.                                             *)
THEOREM Even == Spec => []EvenShares
<1>1. IInv => EvenShares
  <2> SUFFICES ASSUME IInv, pc = "done" PROVE
        /\ DOMAIN get_matching = Src
        /\ \A d \in Destinations(m_ndsts) :
              Cardinality({s \in Src : get_matching[s] = {d}}) <= m_slots_per_dst
    BY DEF EvenShares
  <2>1. m_nsrcs \in Nat /\ m_ndsts \in Nat
    BY DEF IInv, TypeOK
  <2>2. \A s \in Src : m_src_to_slot[s] \in Slot
    BY EmptyQueueStable DEF IInv, OutcomeOK
  <2>3. NoSlot \notin Slot
    BY <2>1, NoSlotNotSlot DEF Slot
  <2>4. DOMAIN get_matching = Src
    BY <2>2, <2>3 DEF get_matching
  <2>5. \A s \in Src : get_matching[s] = {m_src_to_slot[s][1]}
    BY <2>2, <2>3 DEF get_matching
  <2>6. ASSUME NEW d \in Destinations(m_ndsts)
        PROVE  Cardinality({s \in Src : get_matching[s] = {d}}) <= m_slots_per_dst
    <3> DEFINE A == {s \in Src : get_matching[s] = {d}}
               B == 0..(m_slots_per_dst - 1)
               f == [s \in A |-> m_src_to_slot[s][2]]
    <3>1. \A s \in A : /\ s \in Src /\ m_src_to_slot[s][1] = d
                       /\ m_src_to_slot[s][2] \in B
                       /\ m_src_to_slot[s] = <<d, m_src_to_slot[s][2]>>
      BY <2>2, <2>5 DEF Slot, Slots, m_slots_per_dst
    <3>2. \A s, r \in A : m_src_to_slot[s][2] = m_src_to_slot[r][2] => s = r
      <4>1. \A s \in Src, p \in Slot : m_src_to_slot[s] = p <=> m_slot_to_src[p] = s
        BY DEF IInv, MatchingConsistent
      <4> QED
        BY <2>2, <3>1, <4>1
    <3>3. m_slots_per_dst \in Nat
      BY <2>1, MaxIPerK DEF m_slots_per_dst
    <3>4. IsFiniteSet(B) /\ Cardinality(B) = m_slots_per_dst
      BY <3>3, FS_Interval
    <3>5. f \in Injection(A, B)
      <4> HIDE DEF A, B
      <4> QED
        BY <3>1, <3>2 DEF Injection, IsInjective
    <3> HIDE DEF A, B, f
    <3>6. Cardinality(A) <= Cardinality(B)
      BY <3>4, <3>5, FS_Injection
    <3> QED
      BY <3>4, <3>6 DEF A
  <2> QED
    BY <2>4, <2>6
<1> QED
  BY <1>1, IInvInvariant, PTL

(* A slot that is taken stays taken, and is passed on only to a source it  *)
(* prefers.                                                                *)
THEOREM SlotsImprove == Spec => SlotsOnlyImprove
<1> DEFINE Improves ==
      \A p \in Slot : m_slot_to_src[p] # SIZE_MAX =>
          \/ m_slot_to_src'[p] = m_slot_to_src[p]
          \/ /\ m_slot_to_src'[p] # SIZE_MAX
             /\ m_slot_prefers(affinities, p, m_slot_to_src'[p], m_slot_to_src[p])
<1>1. IInv /\ [Next]_vars => [Improves]_vars
  <2> SUFFICES ASSUME IInv, Next PROVE Improves
    OBVIOUS
  <2>1. /\ m_slot_to_src \in [Slot -> Src \cup {SIZE_MAX}]
        /\ m_nsrcs \in Nat
    BY DEF IInv, TypeOK
  <2>2. ASSUME NEW source \in Src, NEW slot \in Slot, ProposeToFree(source, slot)
        PROVE  Improves
    BY <2>1, <2>2 DEF ProposeToFree
  <2>3. ASSUME NEW source \in Src, NEW slot \in Slot, ProposeAndEvict(source, slot)
        PROVE  Improves
    <3>1. source # SIZE_MAX
      BY <2>1, SizeMaxNotSource DEF Src
    <3> QED
      BY <2>1, <2>3, <3>1 DEF ProposeAndEvict
  <2>4. ASSUME NEW source \in Src, NEW slot \in Slot, ProposeRejected(source, slot)
        PROVE  Improves
    BY <2>4 DEF ProposeRejected, matching
  <2>5. CASE Exhausted
    BY <2>5 DEF Exhausted, matching
  <2>6. CASE Verify
    BY <2>6 DEF Verify, matching
  <2> QED
    BY <2>2, <2>3, <2>4, <2>5, <2>6 DEF Next
<1> QED
  BY <1>1, IInvInvariant, PTL DEF Spec, SlotsOnlyImprove

(* The solver implements CloseSpec: its steps leave the specification's    *)
(* state alone until the step that returns the matching or throws.         *)
THEOREM Refinement == Spec => ImplementsCloseSpec
<1>1. Init => Close!Init
  <2> SUFFICES ASSUME Init PROVE Close!Init
    OBVIOUS
  <2>1. m_nsrcs \in Nat /\ m_ndsts \in Nat
    BY BoundsAssumption DEF Init
  <2> QED
    BY <2>1 DEF Init, Close!Init, result
<1>2. IInv /\ IInv' /\ [Next]_vars => [Close!Next]_(Close!vars)
  <2> SUFFICES ASSUME IInv, IInv', [Next]_vars
               PROVE  [Close!Next]_(Close!vars)
    OBVIOUS
  <2>1. ASSUME NEW source \in Src, NEW slot \in Slot, Proposes(source, slot)
        PROVE  UNCHANGED Close!vars
    BY <2>1 DEF Proposes, input, Close!vars, result
  <2>2. CASE Exhausted
    <3>1. m_ndsts = 0 /\ m_nsrcs > 0
      <4>1. pc' = "throw" /\ m_ndsts' = m_ndsts /\ m_nsrcs' = m_nsrcs
        BY <2>2 DEF Exhausted, input
      <4> QED
        BY <4>1 DEF IInv, OutcomeOK, ThrowsOnlyWithoutDestinations
    <3>2. Close!Throw
      BY <2>2, <3>1 DEF Exhausted, input, Close!Throw, result
    <3> QED
      BY <3>2 DEF Close!Next
  <2>3. CASE Verify
    <3>1. stable
      BY <2>3, EmptyQueueStable DEF Verify
    <3>2. /\ pc = "solve" /\ pc' = "done" /\ m_src_to_slot' = m_src_to_slot
          /\ m_nsrcs' = m_nsrcs /\ m_ndsts' = m_ndsts /\ affinities' = affinities
      BY <2>3, <3>1 DEF Verify, input, matching
    <3>3. SourceOptimal'
      BY DoneOptimal, PTL
    <3>4. /\ IsStableMatching(m_nsrcs, m_ndsts, affinities, m_src_to_slot')
          /\ IsSourceOptimal(m_nsrcs, m_ndsts, affinities, m_src_to_slot')
      BY <3>2, <3>3 DEF SourceOptimal
    <3>5. Close!Return
      BY <3>2, <3>4 DEF Close!Return, result, IsCloseMatching
    <3> QED
      BY <3>5 DEF Close!Next
  <2>4. CASE UNCHANGED vars
    BY <2>4 DEF vars, Close!vars, result
  <2> QED
    BY <2>1, <2>2, <2>3, <2>4
       DEF Next, ProposeToFree, ProposeAndEvict, ProposeRejected
<1> QED
  BY <1>1, <1>2, IInvInvariant, PTL DEF Spec, ImplementsCloseSpec, Close!Spec
=============================================================================
